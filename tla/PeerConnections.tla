--------------------------- MODULE PeerConnections ---------------------------
(***************************************************************************)
(* The table of peer connections of one torrent and its lock                *)
(* (ccbt/peer/async_peer_connection.py).  One connection object per attempt *)
(* and per accepted socket.  Its coroutines: the attempt, the message loop, *)
(* and a closer when stop() takes the connection down.  connection_lock is  *)
(* an asyncio.Lock: first come, first served, and not reentrant.  A lock    *)
(* section without an await is one step; `holder' names a task that is      *)
(* suspended inside one.  The reconnection loop runs attempts of its own,   *)
(* which stop() cancels; nobody cancels the others.  Sections that only     *)
(* read, for a log message or for the reconnection loop's list of peers, and *)
(* the statistics loop, which changes no table entry, are left out; what    *)
(* the pool answers is any of the answers of ConnectionPool.                *)
(***************************************************************************)
EXTENDS Naturals, FiniteSets, Sequences, SequencesExt

CONSTANTS
  Outgoing,   \* attempts of connect_to_peers, each a batch of its own
  Incoming,   \* sockets the TCP server hands over
  Hosts,      \* peers, by address
  HostOf,     \* the peer of each connection
  NoConn,
  MaxPeers,   \* max_peers_per_torrent
  MaxCasts    \* bound: broadcasts of a Have

Conns == Outgoing \cup Incoming

ASSUME TableAssumption ==
  /\ Outgoing \cap Incoming = {}
  /\ HostOf \in [Conns -> Hosts]
  /\ NoConn \notin Conns
  /\ MaxPeers \in Nat /\ MaxCasts \in Nat

VARIABLES
  table,   \* connections: the entry of each peer
  holder,  \* the task that holds connection_lock while it is suspended
  queue,   \* tasks waiting for the lock
  att,     \* of each connection: where the coroutine that makes it is
  retried, \* the attempts that the reconnection loop makes
  loop,    \* its message loop
  closer,  \* stop()'s _disconnect_peer for it
  sock,    \* its own socket
  ann,     \* what the callbacks have announced
  stop,    \* where stop() is
  cast, casts,  \* broadcast_have
  choke    \* the choking loop

vars == <<table, holder, queue, att, retried, loop, closer, sock, ann, stop, cast, casts, choke>>

Att(c) == <<"att", c>>
Loop(c) == <<"loop", c>>
Closer(c) == <<"closer", c>>
Stop == <<"stop">>
Cast == <<"cast">>
Choke == <<"choke">>
Nobody == <<>>

AttStates == {"idle", "acquire", "dial", "handshake", "insert", "recheck", "nested", "drop",
              "finish", "limit", "dup", "reject", "greet", "undo", "done", "refused", "adrift"}
EntriesTypeOK ==
  /\ table \in [Hosts -> Conns \cup {NoConn}]
  /\ holder \in {Nobody, Cast, Choke} \cup {Att(c) : c \in Conns}
  /\ att \in [Conns -> AttStates] /\ retried \subseteq Outgoing
  /\ loop \in [Conns -> {"none", "reading", "drop", "close", "finish", "over"}]
  /\ closer \in [Conns -> {"idle", "drop", "join", "close", "finish", "done", "cancelled"}]
  /\ sock \in [Conns -> {"none", "open", "closing", "lost"}]
  /\ ann \in [Conns -> {"none", "connected", "gone"}]
  /\ stop \in {"no", "snapshot", "wait", "stopped"}
  /\ cast \in {"idle", "lock", "sending"} /\ casts \in 0..MaxCasts
  /\ choke \in {"idle", "lock", "stuck", "cancelled"}

Init ==
  /\ table = [p \in Hosts |-> NoConn]
  /\ holder = Nobody /\ queue = <<>>
  /\ att = [c \in Conns |-> "idle"] /\ retried = {}
  /\ loop = [c \in Conns |-> "none"]
  /\ closer = [c \in Conns |-> "idle"]
  /\ sock = [c \in Conns |-> "none"]
  /\ ann = [c \in Conns |-> "none"]
  /\ stop = "no" /\ cast = "idle" /\ casts = 0 /\ choke = "idle"

-----------------------------------------------------------------------------
(* connection_lock *)

Free == holder = Nobody /\ queue = <<>>

\* Mutant: whoever is first in line enters, holder or not.
TurnWhileHeld(t) ==
  /\ queue # <<>> => Head(queue) = t
  /\ queue' = IF queue = <<>> THEN queue ELSE Tail(queue)

\* Task t enters the lock: at once when it is free, else as the first in line.
Turn(t) ==
  /\ holder = Nobody
  /\ queue # <<>> => Head(queue) = t
  /\ queue' = IF queue = <<>> THEN queue ELSE Tail(queue)

\* Task t finds the lock taken and lines up.
LinesUp(t) ==
  /\ ~Free /\ ~Contains(queue, t)
  /\ queue' = Append(queue, t)
  /\ UNCHANGED <<table, holder, att, loop, closer, sock, ann, retried, stop, cast, casts, choke>>

Without(tasks) == SelectSeq(queue, LAMBDA t : t \notin tasks)

Enters(c) == table' = [table EXCEPT ![HostOf[c]] = c]

\* An entry is deleted by its key: the connection in it may be another one.
Leaves(c) == table' = [table EXCEPT ![HostOf[c]] = NoConn]

Goto(c, s) == att' = [att EXCEPT ![c] = s]
rest == <<retried, stop, cast, casts, choke>>

-----------------------------------------------------------------------------
(* connect_to_peers and _connect_to_peer: an outgoing attempt *)

\* The reconnection loop lives until stop() and makes one attempt after another.
Retries(c) ==
  /\ stop = "no" /\ \A d \in retried : att[d] \in {"done", "refused"}
  /\ retried' = retried \cup {c}

\* The peer is not connected when the list of peers is filtered.  That a retried
\* peer has failed before, in an attempt of the past, is not recorded.
StartAttempt(c) ==
  /\ att[c] = "idle" /\ table[HostOf[c]] = NoConn
  /\ Goto(c, "acquire")
  /\ Retries(c) \/ UNCHANGED retried
  /\ UNCHANGED <<table, holder, queue, loop, closer, sock, ann, stop, cast, casts, choke>>

\* A pooled connection fails the attempt: its reader and writer are on the
\* connection object, while the code below looks at the local names, which
\* are None, and raises RuntimeError.  Without one the attempt dials itself;
\* when acquire raised there is no connection object to disconnect.
AcquirePooled(c) ==
  /\ att[c] = "acquire"
  /\ \E s \in {"drop", "dial", "refused"} : Goto(c, s)
  /\ UNCHANGED <<table, holder, queue, loop, closer, sock, ann, rest>>

Dial(c) ==
  /\ att[c] = "dial"
  /\ \/ Goto(c, "handshake") /\ sock' = [sock EXCEPT ![c] = "open"]
     \/ Goto(c, "drop") /\ UNCHANGED sock
  /\ UNCHANGED <<table, holder, queue, loop, closer, ann, rest>>

\* After the handshake the message loop starts, before the entry is made.
Shake(c) ==
  /\ att[c] = "handshake"
  /\ \/ /\ Goto(c, "insert") /\ loop' = [loop EXCEPT ![c] = "reading"]
        /\ UNCHANGED sock
     \/ /\ Goto(c, "drop") /\ sock' = [sock EXCEPT ![c] = "lost"]
        /\ UNCHANGED loop
  /\ UNCHANGED <<table, holder, queue, closer, ann, rest>>

InsertOutgoing(c) ==
  /\ c \in Outgoing /\ att[c] = "insert" /\ Turn(Att(c))
  /\ Enters(c)
  /\ ann' = [ann EXCEPT ![c] = "connected"]
  /\ Goto(c, "recheck")
  /\ UNCHANGED <<holder, loop, closer, sock, rest>>

\* connect_to_peers looks whether the connection is in the table; when it is
\* not, it sleeps inside the lock and then asks for the lock again.
Recheck(c) ==
  /\ att[c] = "recheck" /\ Turn(Att(c))
  /\ IF table[HostOf[c]] # NoConn
       THEN Goto(c, "done") /\ UNCHANGED holder
       ELSE Goto(c, "nested") /\ holder' = Att(c)
  /\ UNCHANGED <<table, loop, closer, sock, ann, rest>>

\* _disconnect_peer after a failed attempt: there is no message loop to cancel.
DropAttempt(c) ==
  /\ att[c] = "drop" /\ Turn(Att(c))
  /\ Leaves(c)
  /\ Goto(c, "finish")
  /\ UNCHANGED <<holder, loop, closer, sock, ann, rest>>

FinishAttempt(c) ==
  /\ att[c] = "finish"
  /\ ann' = [ann EXCEPT ![c] = "gone"]
  /\ Goto(c, "done")
  /\ UNCHANGED <<table, holder, queue, loop, closer, sock, rest>>

-----------------------------------------------------------------------------
(* accept_incoming *)

Arrive(c) ==
  /\ c \in Incoming /\ att[c] = "idle"
  /\ Goto(c, "limit")
  /\ UNCHANGED <<table, holder, queue, loop, closer, sock, ann, rest>>

\* A refused socket is closed, and waited for, inside the lock.
Refuse(c) == Goto(c, "reject") /\ holder' = Att(c)

\* The limit and the presence of the peer are checked in lock sections of
\* their own, before our handshake is sent and the entry is made.
CheckLimit(c) ==
  /\ att[c] = "limit" /\ Turn(Att(c))
  /\ IF Cardinality({p \in Hosts : table[p] # NoConn}) >= MaxPeers
       THEN Refuse(c)
       ELSE Goto(c, "dup") /\ UNCHANGED holder
  /\ UNCHANGED <<table, loop, closer, sock, ann, rest>>

\* Otherwise our handshake goes out, or fails.
CheckPresent(c) ==
  /\ att[c] = "dup" /\ Turn(Att(c))
  /\ IF table[HostOf[c]] # NoConn
       THEN Refuse(c)
       ELSE (Goto(c, "insert") \/ Goto(c, "refused")) /\ UNCHANGED holder
  /\ UNCHANGED <<table, loop, closer, sock, ann, rest>>

Refused(c) ==
  /\ att[c] = "reject"
  /\ holder' = Nobody
  /\ Goto(c, "refused")
  /\ UNCHANGED <<table, queue, loop, closer, sock, ann, rest>>

InsertIncoming(c) ==
  /\ c \in Incoming /\ att[c] = "insert" /\ Turn(Att(c))
  /\ Enters(c)
  /\ sock' = [sock EXCEPT ![c] = "open"]
  /\ Goto(c, "greet")
  /\ UNCHANGED <<holder, loop, closer, ann, rest>>

\* Mutant: a lost socket is greeted as any other.
GreetLost(c) ==
  /\ att[c] = "greet"
  /\ loop' = [loop EXCEPT ![c] = "reading"]
  /\ ann' = [ann EXCEPT ![c] = "connected"]
  /\ Goto(c, "done")
  /\ UNCHANGED <<table, holder, queue, closer, sock, rest>>

\* No _disconnect_peer of stop() has got past the lock.
Unclosed(c) == closer[c] \in {"idle", "drop", "cancelled"}

\* Bitfield and Unchoke are sent, then the message loop starts and the peer is
\* announced; a socket that is lost fails the sends.
Greet(c) ==
  /\ att[c] = "greet"
  /\ \/ /\ sock[c] # "lost"
        /\ loop' = [loop EXCEPT ![c] = IF Unclosed(c) THEN "reading" ELSE "drop"]
        /\ ann' = [ann EXCEPT ![c] = "connected"]
        /\ Goto(c, "done")
     \/ Goto(c, "undo") /\ UNCHANGED <<loop, ann>>
  /\ UNCHANGED <<table, holder, queue, closer, sock, rest>>

UndoIncoming(c) ==
  /\ att[c] = "undo" /\ Turn(Att(c))
  /\ Leaves(c)
  /\ sock' = [sock EXCEPT ![c] = "lost"]
  /\ Goto(c, "done")
  /\ UNCHANGED <<holder, loop, closer, ann, rest>>

-----------------------------------------------------------------------------
(* _handle_peer_messages and the _disconnect_peer of its finally clause *)

\* The peer closes the socket, is silent for two minutes, or a message fails.
LoopEnds(c) ==
  /\ loop[c] = "reading"
  /\ loop' = [loop EXCEPT ![c] = "drop"]
  /\ UNCHANGED <<table, holder, queue, att, closer, sock, ann, rest>>

\* Mutant: the entry stays in the table.
LoopDropKeepsEntry(c) ==
  /\ loop[c] = "drop" /\ att[c] # "insert" /\ Turn(Loop(c))
  /\ loop' = [loop EXCEPT ![c] = "close"]
  /\ UNCHANGED <<table, holder, att, closer, sock, ann, rest>>

\* The attempt that started this loop asked for the lock before it.
LoopDrop(c) ==
  /\ loop[c] = "drop" /\ att[c] # "insert" /\ Turn(Loop(c))
  /\ Leaves(c)
  /\ loop' = [loop EXCEPT ![c] = "close"]
  /\ UNCHANGED <<holder, att, closer, sock, ann, rest>>

Shut(c) == sock' = [sock EXCEPT ![c] = IF @ = "open" THEN "closing" ELSE @]

\* Mutant: the writer is not closed.
LoopLeavesOpen(c) ==
  /\ loop[c] = "close"
  /\ loop' = [loop EXCEPT ![c] = "finish"]
  /\ UNCHANGED <<table, holder, queue, att, closer, sock, ann, rest>>

LoopClose(c) ==
  /\ loop[c] = "close"
  /\ Shut(c)
  /\ loop' = [loop EXCEPT ![c] = "finish"]
  /\ UNCHANGED <<table, holder, queue, att, closer, ann, rest>>

\* The transport has flushed and reports the connection lost.
Lost(c) ==
  /\ sock[c] = "closing"
  /\ sock' = [sock EXCEPT ![c] = "lost"]
  /\ UNCHANGED <<table, holder, queue, att, loop, closer, ann, rest>>

\* wait_closed is over, or a closer has cancelled the loop in it.
LoopFinish(c) ==
  /\ loop[c] = "finish" /\ (sock[c] = "lost" \/ closer[c] = "join")
  /\ ann' = [ann EXCEPT ![c] = "gone"]
  /\ loop' = [loop EXCEPT ![c] = "over"]
  /\ UNCHANGED <<table, holder, queue, att, closer, sock, rest>>

-----------------------------------------------------------------------------
(* stop() *)

\* A cancelled attempt ends where it waits, without a _disconnect_peer of its own:
\* its message loop reads on when the entry is not made yet, and the wait for the
\* writer, once it disconnects, swallows the cancellation.
CutShort(s, swallowed) ==
  IF s \in {"acquire", "dial", "handshake", "drop"} THEN "refused"
  ELSE IF s = "insert" THEN "adrift"
  ELSE IF s \in {"recheck", "nested"} \/ (s = "finish" /\ ~swallowed) THEN "done"
  ELSE s

\* Mutant: the reconnection loop is not cancelled.
StopLeavesRetries ==
  /\ stop = "no"
  /\ stop' = "snapshot"
  /\ choke' = "cancelled"
  /\ holder' = IF holder = Choke THEN Nobody ELSE holder
  /\ queue' = Without({Choke})
  /\ UNCHANGED <<table, att, retried, loop, closer, sock, ann, cast, casts>>

\* The choking loop and the reconnection loop, with the attempt it waits for, are
\* cancelled: the lock one of them may hold is released.
StopAsked ==
  /\ stop = "no"
  /\ stop' = "snapshot"
  /\ choke' = "cancelled"
  /\ \E swallowed \in BOOLEAN :
       att' = [c \in Conns |-> IF c \in retried THEN CutShort(att[c], swallowed) ELSE att[c]]
  /\ holder' = IF holder = Choke \/ \E c \in retried : holder = Att(c) THEN Nobody ELSE holder
  /\ queue' = Without({Choke} \cup {Att(c) : c \in retried})
  /\ UNCHANGED <<table, retried, loop, closer, sock, ann, cast, casts>>

\* One _disconnect_peer per entry of the table at this moment.
Snapshot ==
  /\ stop = "snapshot" /\ Turn(Stop)
  /\ stop' = "wait"
  /\ closer' = [c \in Conns |-> IF table[HostOf[c]] = c THEN "drop" ELSE closer[c]]
  /\ UNCHANGED <<table, holder, att, retried, loop, sock, ann, cast, casts, choke>>

LoopWaits(c) == loop[c] = "drop" /\ Contains(queue, Loop(c))

\* The message loop is cancelled and waited for; one that waits for the lock in
\* its own _disconnect_peer gives up there.
CloserDrop(c) ==
  /\ closer[c] = "drop" /\ holder = Nobody /\ (queue # <<>> => Head(queue) = Closer(c))
  /\ Leaves(c)
  /\ queue' = Without({Closer(c), Loop(c)})
  /\ LET active == loop[c] \notin {"none", "over"} /\ ~LoopWaits(c) IN
       /\ loop' = [loop EXCEPT ![c] = IF LoopWaits(c) THEN "over"
                                      ELSE IF @ = "reading" THEN "drop" ELSE @]
       /\ closer' = [closer EXCEPT ![c] = IF active THEN "join" ELSE "close"]
  /\ UNCHANGED <<holder, att, sock, ann, rest>>

CloserGoesOn(c) ==
  /\ \/ /\ closer[c] = "join" /\ loop[c] = "over"
        /\ closer' = [closer EXCEPT ![c] = "close"] /\ UNCHANGED sock
     \/ /\ closer[c] = "close"
        /\ closer' = [closer EXCEPT ![c] = "finish"] /\ Shut(c)
  /\ UNCHANGED <<table, holder, queue, att, loop, ann, rest>>

CloserFinish(c) ==
  /\ closer[c] = "finish" /\ sock[c] = "lost"
  /\ ann' = [ann EXCEPT ![c] = "gone"]
  /\ closer' = [closer EXCEPT ![c] = "done"]
  /\ UNCHANGED <<table, holder, queue, att, loop, sock, rest>>

\* After 10 seconds what still waits for the lock is cancelled.
StopTimeout ==
  /\ stop = "wait"
  /\ LET waiting == {c \in Conns : closer[c] = "drop"}
         joined == {c \in Conns : closer[c] = "join" /\ LoopWaits(c)} IN
       /\ waiting \cup joined # {}
       /\ queue' = Without({Closer(c) : c \in waiting} \cup {Loop(c) : c \in joined})
       /\ closer' = [c \in Conns |-> IF c \in waiting THEN "cancelled" ELSE closer[c]]
       /\ loop' = [c \in Conns |-> IF c \in joined THEN "over" ELSE loop[c]]
  /\ UNCHANGED <<table, holder, att, sock, ann, rest>>

Stopped ==
  /\ stop = "wait" /\ \A c \in Conns : closer[c] \in {"idle", "done", "cancelled"}
  /\ stop' = "stopped"
  /\ UNCHANGED <<table, holder, queue, att, retried, loop, closer, sock, ann, cast, casts, choke>>

-----------------------------------------------------------------------------
(* broadcast_have and the choking loop *)

CastAsks ==
  /\ cast = "idle" /\ casts < MaxCasts
  /\ cast' = "lock" /\ casts' = casts + 1
  /\ UNCHANGED <<table, holder, queue, att, retried, loop, closer, sock, ann, stop, choke>>

\* The Have is sent to one connection after another inside the lock.
CastEnters ==
  /\ cast = "lock" /\ Turn(Cast)
  /\ IF \A p \in Hosts : table[p] = NoConn
       THEN cast' = "idle" /\ UNCHANGED holder
       ELSE cast' = "sending" /\ holder' = Cast
  /\ UNCHANGED <<table, att, retried, loop, closer, sock, ann, stop, casts, choke>>

CastEnds ==
  /\ cast = "sending"
  /\ cast' = "idle" /\ holder' = Nobody
  /\ UNCHANGED <<table, queue, att, retried, loop, closer, sock, ann, stop, casts, choke>>

ChokeTick ==
  /\ choke = "idle"
  /\ choke' = "lock"
  /\ UNCHANGED <<table, holder, queue, att, retried, loop, closer, sock, ann, stop, cast, casts>>

\* With an active peer _update_choking ends in _update_optimistic_unchoke,
\* which asks for the lock its caller holds.
ChokeEnters ==
  /\ choke = "lock" /\ Turn(Choke)
  /\ \/ choke' = "idle" /\ UNCHANGED holder
     \/ /\ \E p \in Hosts : table[p] # NoConn
        /\ choke' = "stuck" /\ holder' = Choke
  /\ UNCHANGED <<table, att, retried, loop, closer, sock, ann, stop, cast, casts>>

-----------------------------------------------------------------------------
AttemptStep(c) ==
  \/ AcquirePooled(c) \/ Dial(c) \/ Shake(c)
  \/ InsertOutgoing(c) \/ Recheck(c) \/ DropAttempt(c) \/ FinishAttempt(c)
  \/ CheckLimit(c) \/ CheckPresent(c) \/ Refused(c) \/ InsertIncoming(c) \/ Greet(c) \/ UndoIncoming(c)
  \/ (att[c] \in {"insert", "recheck", "nested", "drop", "limit", "dup", "undo"} /\ LinesUp(Att(c)))
LoopStep(c) ==
  \/ LoopDrop(c) \/ LoopClose(c) \/ LoopFinish(c)
  \/ (loop[c] = "drop" /\ att[c] # "insert" /\ LinesUp(Loop(c)))
CloserStep(c) ==
  \/ CloserDrop(c) \/ CloserGoesOn(c) \/ CloserFinish(c)
  \/ (closer[c] = "drop" /\ LinesUp(Closer(c)))
StopStep == Snapshot \/ StopTimeout \/ Stopped \/ (stop = "snapshot" /\ LinesUp(Stop))
CastStep == CastEnters \/ CastEnds \/ (cast = "lock" /\ LinesUp(Cast))
ChokeStep == ChokeEnters \/ (choke = "lock" /\ LinesUp(Choke))
Next ==
  \/ \E c \in Outgoing : StartAttempt(c)
  \/ \E c \in Conns : Arrive(c) \/ AttemptStep(c) \/ LoopEnds(c) \/ LoopStep(c) \/ Lost(c) \/ CloserStep(c)
  \/ StopAsked \/ StopStep \/ CastAsks \/ CastStep \/ ChokeTick \/ ChokeStep

\* Every coroutine that can go on does: the event loop runs what is ready.
\* Nothing makes peers come or go, loops tick or the user stop the torrent.
Fairness ==
  /\ \A c \in Conns : /\ WF_vars(AttemptStep(c)) /\ WF_vars(LoopStep(c))
                      /\ WF_vars(CloserStep(c)) /\ WF_vars(Lost(c))
  /\ WF_vars(StopStep) /\ WF_vars(CastStep) /\ WF_vars(ChokeStep)

Spec == Init /\ [][Next]_vars
FairSpec == Spec /\ Fairness

-----------------------------------------------------------------------------
\* Where the coroutine of a connection is once it has made the entry.
Entered == {"recheck", "nested", "greet", "undo", "done"}

\* A connection whose teardown has got past the lock, or whose attempt has
\* failed, is not in the table (_disconnect_peer, async_peer_connection.py:4583:
\* "This prevents race conditions where connection is in ERROR state but still
\* in dict"), whichever of its three coroutines took it down.
Torn(c) ==
  \/ loop[c] \in {"close", "finish", "over"}
  \/ closer[c] \in {"join", "close", "finish", "done"}
  \/ att[c] \notin Entered
EntryIsInUse == \A p \in Hosts : table[p] # NoConn => HostOf[table[p]] = p /\ ~Torn(table[p])

\* Entries are deleted by key and overwritten without a look, so a connection
\* whose message loop still reads may be out of the table; it is then another
\* connection of the same peer that put it out.
Established(c) == att[c] \in Entered /\ loop[c] = "reading"
Meddled(d) == att[d] \in Entered \cup {"finish", "adrift"}
LostOnlyToRival ==
  \A c \in Conns : Established(c) /\ table[HostOf[c]] # c =>
    \E d \in Conns \ {c} : HostOf[d] = HostOf[c] /\ Meddled(d)

\* The lock is held by the task that is suspended inside it, and by no other: an
\* attempt that asks for it again or closes a refused socket, a broadcast that
\* sends, the choking loop that asks for it again; a task that lets it go or is
\* cancelled has let it go (async_peer_connection.py:702, :743, :1496, :4777, :5101).
Inside == {"nested", "reject"}
HolderIsInside ==
  /\ \A c \in Conns : holder = Att(c) <=> att[c] \in Inside
  /\ holder = Cast <=> cast = "sending"
  /\ holder = Choke <=> choke = "stuck"

\* The table does not change while a task is suspended inside the lock:
\* broadcast_have sends, and waits, in a loop over connections.values()
\* (async_peer_connection.py:5101), which a change would break.
TableStableWhileHeld == [][holder # Nobody => table' = table]_vars

\* No connection is announced as connected after its end was announced
\* (on_peer_connected and on_peer_disconnected come from different coroutines).
AnnouncedInOrder == [][\A c \in Conns : ann[c] = "gone" => ann'[c] = "gone"]_ann

\* Attempts that wait for the lock they hold.  One of the reconnection loop waits
\* until stop() cancels it, any other for good.
Nested == {c \in Conns : att[c] = "nested"}
Wedged == Nested \ retried # {}

\* stop() comes to its end unless an attempt that it does not cancel waits for the
\* lock it holds.
StopFinishesUnlessWedged == stop = "snapshot" ~> stop = "stopped" \/ Wedged

\* The end of an announced connection is announced too, unless the lock is
\* held: by an attempt for good or until stop(), or by the choking loop until stop().
GoneIsAnnounced ==
  \A c \in Conns : ann[c] = "connected" /\ loop[c] = "drop"
                   ~> ann[c] = "gone" \/ Nested # {} \/ choke = "stuck"

\* The table of connections and its lock go with the coroutines of each
\* connection (connect, accept, the message loop and both teardowns).
ConnectionsAreSound == EntriesTypeOK /\ EntryIsInUse /\ LostOnlyToRival /\ HolderIsInside

\* stop() ends and every end is announced, unless the lock is held for good.
ConnectionsProceed == StopFinishesUnlessWedged /\ GoneIsAnnounced
=============================================================================
