------------------------------ MODULE UdpTracker ------------------------------
(***************************************************************************)
(* Announces and scrapes over one UDP socket (ccbt/discovery/               *)
(* tracker_udp_client.py).  Coroutines share the session of a tracker and   *)
(* the table of pending requests; a connect is tried MaxTries times.        *)
(* Datagrams are lost, delayed, duplicated and reordered: what has been     *)
(* sent may be answered at any time, any number of times, or never.  Steps  *)
(* between two awaits are atomic (on Linux nothing is awaited under         *)
(* _socket_lock, so taking it does not suspend).                            *)
(***************************************************************************)
EXTENDS Naturals, FiniteSets

CONSTANTS
  Askers,    \* coroutines that announce or scrape; a session is named after the one that made it
  Trackers,
  TrackerOf, \* the tracker each coroutine asks
  NoAsker,   \* stands where there is no coroutine
  MaxTries,  \* attempts of one connect (5)
  TidSpace   \* number of transaction ids (65536)

ASSUME UdpAssumption ==
  /\ TrackerOf \in [Askers -> Trackers]
  /\ NoAsker \notin Askers
  /\ MaxTries \in Nat \ {0} /\ TidSpace \in Nat \ {0}

VARIABLES
  udp,      \* the client: "up", "stopping" (not ready, transport open), "down"
  entry,    \* the session of each tracker in self.sessions
  sess,     \* each session: is_connected, and the age of its connection
  step,     \* of each coroutine: where it is
  mine,     \* the session it works with
  try,      \* the attempt of its connect
  tid,      \* its transaction id
  answer,   \* the future it waits for: "open", "cancelled", "ok" or "error"
  source,   \* history: the request its answer was sent for
  ended,    \* how its call ended
  pending,  \* pending_requests
  sent,     \* the requests that have been sent
  counter   \* transaction_counter

udpVars == <<udp, entry, sess, step, mine, try, tid, answer, source, ended, pending,
             sent, counter>>

Tids == 0 .. TidSpace - 1

\* Age of a connection: 0 up to 50 s, 1 up to 55 s, 2 up to 60 s, 3 older,
\* Never when there is no connection id.
Expired == 3
Never == 4
Sessions == [up : BOOLEAN, age : 0 .. Never]

\* The age at which each kind of call connects anew.
Limit == [announce |-> 1, full |-> 2, scrape |-> Expired]

Requests == [by : Askers, kind : {"connect", "ask"}, try : 0 .. MaxTries, tid : Tids]
NoRequest == [by |-> NoAsker, kind |-> "none", try |-> 0, tid |-> 0]
Waits(c) == step[c] \in {"connecting", "asking"}
Resolved(c) == answer[c] \in {"ok", "error"}

UdpTypeOK ==
  /\ udp \in {"up", "stopping", "down"}
  /\ entry \in [Trackers -> Askers \cup {NoAsker}]
  /\ sess \in [Askers -> Sessions]
  /\ step \in [Askers -> {"idle", "connecting", "backoff", "asking", "done"}]
  /\ mine \in [Askers -> Askers]
  /\ try \in [Askers -> 0 .. MaxTries]
  /\ tid \in [Askers -> Tids]
  /\ answer \in [Askers -> {"open", "cancelled", "ok", "error"}]
  /\ source \in [Askers -> Requests \cup {NoRequest}]
  /\ ended \in [Askers -> {"none", "answered", "failed", "cancelled"}]
  /\ pending \in [Tids -> Askers \cup {NoAsker}]
  /\ sent \in SUBSET Requests
  /\ counter \in Tids

UdpInit ==
  /\ udp = "up"
  /\ entry = [t \in Trackers |-> NoAsker]
  /\ sess = [c \in Askers |-> [up |-> FALSE, age |-> Never]]
  /\ step = [c \in Askers |-> "idle"]
  /\ mine = [c \in Askers |-> c]
  /\ try = [c \in Askers |-> 0]
  /\ tid = [c \in Askers |-> 0]
  /\ answer = [c \in Askers |-> "open"]
  /\ source = [c \in Askers |-> NoRequest]
  /\ ended = [c \in Askers |-> "none"]
  /\ pending = [n \in Tids |-> NoAsker]
  /\ sent = {}
  /\ counter = 0

-----------------------------------------------------------------------------
(* Parts of a step *)

\* Mutant: one transaction id for all attempts of a connect.
TransactionIdKept(c) ==
  IF step[c] = "backoff"
    THEN UNCHANGED <<counter, tid>>
    ELSE counter' = (counter + 1) % TidSpace /\ tid' = [tid EXCEPT ![c] = counter']

\* Bound: a number does not come round again in one behaviour (it takes 65536
\* requests, and a request waits for 30 seconds at most).
GetTransactionId(c) ==
  /\ counter' = (counter + 1) % TidSpace
  /\ \A r \in sent : r.tid # counter'
  /\ tid' = [tid EXCEPT ![c] = counter']

\* Sends a request and registers the future of its answer; popped is the table
\* of pending requests after the answer to the one before has been taken out.
Sends(c, kind, k, popped) ==
  /\ GetTransactionId(c)
  /\ sent' = sent \cup {[by |-> c, kind |-> kind, try |-> k, tid |-> tid'[c]]}
  /\ pending' = [popped EXCEPT ![tid'[c]] = c]
  /\ answer' = [answer EXCEPT ![c] = "open"]
  /\ source' = [source EXCEPT ![c] = NoRequest]
  /\ try' = [try EXCEPT ![c] = k]
  /\ step' = [step EXCEPT ![c] = IF kind = "connect" THEN "connecting" ELSE "asking"]
  /\ UNCHANGED ended

\* Mutant: the future stays in the table.
PoppedLate(c) == pending

Popped(c) == [pending EXCEPT ![tid[c]] = NoAsker]

Ends(c, how) ==
  /\ step' = [step EXCEPT ![c] = "done"]
  /\ ended' = [ended EXCEPT ![c] = how]
  /\ UNCHANGED <<try, tid, answer, source, sent, counter>>

\* The except clauses of _connect_to_tracker: a network error is tried again
\* after a pause, any other or the last one marks the session as not connected,
\* whoever has connected it meanwhile.
ConnectFails(c, k, network, s) ==
  IF network /\ k < MaxTries - 1
    THEN /\ step' = [step EXCEPT ![c] = "backoff"]
         /\ try' = [try EXCEPT ![c] = k + 1]
         /\ sess' = s
         /\ UNCHANGED <<tid, answer, source, ended, sent, counter>>
    ELSE sess' = [s EXCEPT ![mine'[c]].up = FALSE] /\ Ends(c, "failed")

\* An expired connection is forgotten at the start of an attempt.
Refreshed(m) ==
  [sess EXCEPT ![m] = IF @.age = Expired THEN [up |-> FALSE, age |-> Never] ELSE @]

\* One attempt: without a transport it raises RuntimeError, with one that is
\* not ready ConnectionError.
Attempt(c, k) ==
  IF udp = "up"
    THEN sess' = Refreshed(mine'[c]) /\ Sends(c, "connect", k, pending)
    ELSE ConnectFails(c, k, udp = "stopping", Refreshed(mine'[c])) /\ UNCHANGED pending

\* The announce or scrape request: a transport that is closing is used while
\* it is there.
AsksTracker(c, popped) ==
  IF udp = "down"
    THEN Ends(c, "failed") /\ pending' = popped
    ELSE Sends(c, "ask", try[c], popped)

-----------------------------------------------------------------------------
(* One call: _announce_to_tracker, _announce_to_tracker_full or scrape *)

\* The session of the tracker, made when there is none.
FindSession(c) ==
  /\ step[c] = "idle"
  /\ entry' = [entry EXCEPT ![TrackerOf[c]] = IF @ = NoAsker THEN c ELSE @]
  /\ mine' = [mine EXCEPT ![c] = entry'[TrackerOf[c]]]

NeedsConnect(c, k) == ~sess[mine'[c]].up \/ sess[mine'[c]].age >= Limit[k]

BeginConnects(c, k) ==
  /\ FindSession(c) /\ NeedsConnect(c, k)
  /\ udp # "down" /\ Attempt(c, 0)
  /\ UNCHANGED udp

BeginAsks(c, k) ==
  /\ FindSession(c) /\ ~NeedsConnect(c, k)
  /\ AsksTracker(c, pending)
  /\ UNCHANGED <<udp, sess>>

\* Without a transport _connect_to_tracker raises before its first attempt.
BeginFails(c, k) ==
  /\ FindSession(c) /\ NeedsConnect(c, k)
  /\ udp = "down" /\ Ends(c, "failed")
  /\ UNCHANGED <<udp, sess, pending>>

BackoffEnds(c) ==
  /\ step[c] = "backoff"
  /\ UNCHANGED mine /\ Attempt(c, try[c])
  /\ UNCHANGED <<udp, entry>>

\* An answer to the connect request makes the connection and the request
\* proper follows at once; an error answer fails the attempt.
Connected(c) ==
  /\ step[c] = "connecting" /\ answer[c] = "ok"
  /\ sess' = [sess EXCEPT ![mine[c]] = [up |-> TRUE, age |-> 0]]
  /\ AsksTracker(c, Popped(c))
  /\ UNCHANGED <<udp, entry, mine>>

ConnectRefused(c) ==
  /\ step[c] = "connecting" /\ answer[c] = "error"
  /\ UNCHANGED mine /\ ConnectFails(c, try[c], TRUE, sess)
  /\ pending' = Popped(c)
  /\ UNCHANGED <<udp, entry>>

Answered(c) ==
  /\ step[c] = "asking" /\ Resolved(c)
  /\ Ends(c, IF answer[c] = "ok" THEN "answered" ELSE "failed")
  /\ pending' = Popped(c)
  /\ UNCHANGED <<udp, entry, sess, mine>>

\* stop() has cancelled the future: CancelledError passes every handler.
CancelEnds(c) ==
  /\ Waits(c) /\ answer[c] = "cancelled"
  /\ Ends(c, "cancelled")
  /\ pending' = Popped(c)
  /\ UNCHANGED <<udp, entry, sess, mine>>

\* Mutant: only the wait for a connection has a timeout.
TimesOutConnecting(c) ==
  /\ step[c] = "connecting" /\ answer[c] = "open"
  /\ pending' = Popped(c)
  /\ UNCHANGED mine /\ ConnectFails(c, try[c], TRUE, sess)
  /\ UNCHANGED <<udp, entry>>

TimesOut(c) ==
  /\ Waits(c) /\ answer[c] = "open"
  /\ pending' = Popped(c)
  /\ UNCHANGED mine
  /\ IF step[c] = "connecting"
       THEN ConnectFails(c, try[c], TRUE, sess)
       ELSE Ends(c, "failed") /\ UNCHANGED sess
  /\ UNCHANGED <<udp, entry>>

AskerStep(c) ==
  \/ \E k \in DOMAIN Limit : BeginConnects(c, k) \/ BeginAsks(c, k) \/ BeginFails(c, k)
  \/ BackoffEnds(c) \/ Connected(c) \/ ConnectRefused(c) \/ Answered(c)
  \/ CancelEnds(c) \/ TimesOut(c)

-----------------------------------------------------------------------------
(* The socket, the clean-up loop and stop() *)

\* handle_response: the transaction id alone says whose answer it is.  Answers
\* that nobody waits for, and all answers once stop() has begun, are dropped.
HandleResponse(r, ok) ==
  LET c == pending[r.tid] IN
  /\ udp = "up" /\ r \in sent
  /\ c # NoAsker /\ answer[c] = "open"
  /\ answer' = [answer EXCEPT ![c] = IF ok THEN "ok" ELSE "error"]
  /\ source' = [source EXCEPT ![c] = r]
  /\ UNCHANGED <<udp, entry, sess, step, mine, try, tid, ended, pending, sent, counter>>

\* _cleanup_sessions: a session that never announced (last_announce is 0), has
\* not for an hour, or whose connect has failed three times is removed, also
\* while a coroutine works with it.
CleanSession(t) ==
  /\ udp = "up" /\ entry[t] # NoAsker
  /\ entry' = [entry EXCEPT ![t] = NoAsker]
  /\ UNCHANGED <<udp, sess, step, mine, try, tid, answer, source, ended, pending, sent, counter>>

TimePasses(s) ==
  /\ sess[s].age < Expired
  /\ sess' = [sess EXCEPT ![s].age = @ + 1]
  /\ UNCHANGED <<udp, entry, step, mine, try, tid, answer, source, ended, pending, sent, counter>>

\* stop() clears _socket_ready and waits for the clean-up task to end ...
UdpStopBegins ==
  /\ udp = "up" /\ udp' = "stopping"
  /\ UNCHANGED <<entry, sess, step, mine, try, tid, answer, source, ended, pending, sent, counter>>

\* ... closes the transport and cancels what is pending.
UdpStopEnds ==
  /\ udp = "stopping" /\ udp' = "down"
  /\ answer' = [c \in Askers |->
                  IF answer[c] = "open" /\ \E n \in Tids : pending[n] = c THEN "cancelled" ELSE answer[c]]
  /\ UNCHANGED <<entry, sess, step, mine, try, tid, source, ended, pending, sent, counter>>

ClientStep ==
  \/ \E r \in sent, ok \in BOOLEAN : HandleResponse(r, ok)
  \/ \E t \in Trackers : CleanSession(t)
  \/ \E s \in Askers : TimePasses(s)
  \/ UdpStopBegins \/ UdpStopEnds

UdpNext == ClientStep \/ \E c \in Askers : AskerStep(c)
UdpSpec == UdpInit /\ [][UdpNext]_udpVars

\* The timers run, a resolved future resumes its coroutine.
UdpFairness ==
  \A c \in Askers :
    /\ WF_udpVars(BackoffEnds(c)) /\ WF_udpVars(TimesOut(c)) /\ WF_udpVars(CancelEnds(c))
    /\ WF_udpVars(Connected(c) \/ ConnectRefused(c) \/ Answered(c))

-----------------------------------------------------------------------------
\* The request a coroutine waits to have answered.
LiveRequest(c) ==
  [by |-> c, kind |-> IF step[c] = "connecting" THEN "connect" ELSE "ask",
   try |-> try[c], tid |-> tid[c]]

\* The answer a coroutine takes is one to its own request, of this attempt:
\* never to another coroutine's, and never to an attempt it has given up.
AnswersAreOwn ==
  \A c \in Askers : Waits(c) /\ Resolved(c) =>
    /\ source[c].by = c /\ source[c].try = try[c]
    /\ source[c].kind = (IF step[c] = "asking" THEN "ask" ELSE "connect")

\* Every coroutine that waits can be reached by its transaction id, and the
\* table holds nothing else, whichever way earlier waits have ended.
PendingIsWaited ==
  /\ \A c \in Askers : Waits(c) => pending[tid[c]] = c
  /\ \A n \in Tids : pending[n] # NoAsker => Waits(pending[n]) /\ tid[pending[n]] = n

\* Once stop() is through nobody waits for an answer that cannot come, not
\* even a coroutine that sent its request while stop() was under way.
StopLeavesNoneWaiting ==
  udp = "down" => \A c \in Askers : Waits(c) => answer[c] # "open"

\* Calls as their callers see them: whatever is lost, late, doubled or reordered,
\* whoever shares the session and whenever stop() comes, a call is answered by the
\* answer to its last request and by no other (_send_and_wait, handle_response,
\* _announce_to_tracker, scrape, stop).
Calls == INSTANCE TrackerCalls WITH
  Callers <- Askers, None <- NoRequest, Finals <- {r \in Requests : r.kind = "ask"},
  client <- udp, made <- sent, outcome <- ended,
  current <- [c \in Askers |-> IF Waits(c) THEN LiveRequest(c) ELSE NoRequest],
  heard <- [c \in Askers |-> IF Waits(c) THEN source[c] ELSE NoRequest],
  result <- [c \in Askers |-> IF Waits(c) /\ Resolved(c) THEN answer[c] ELSE "none"]
ImplementsCalls == Calls!Spec

\* Every announce or scrape ends, whatever is lost and whenever stop() comes:
\* each coroutine makes one call, so from some time on none is under way.
CallsEnd == <>[](\A c \in Askers : step[c] \in {"idle", "done"})

\* pending_requests goes with the coroutines that wait, and stop() leaves none
\* of them waiting (_send_and_wait, handle_response, stop).
TrackerIsSound == UdpTypeOK /\ PendingIsWaited /\ StopLeavesNoneWaiting
=============================================================================
