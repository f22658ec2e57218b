---------------------------- MODULE Network_proofs ----------------------------
(***************************************************************************)
(* Theorems about the UDP tracker client, the metadata exchange and the DHT *)
(* client, for any number of coroutines, trackers, peers, nodes and pieces. *)
(***************************************************************************)
EXTENDS UdpTracker, MetadataExchange, Dht, FiniteSetTheorems, TLAPS

-----------------------------------------------------------------------------
(* The metadata exchange *)

\* A request that waits for its answer is one of those the peer's size allows.
WaitsWithinClaim == \A p \in Servers : task[p] = "waiting" => asking[p] < claim[p]

MetaTypeInv == MetaTypeOK /\ WaitsWithinClaim

LEMMA ClaimsInBounds ==
  /\ MaxPieces \in Nat /\ 0 \in 0 .. MaxPieces
  /\ \A n \in 1 .. MaxPieces : n \in 0 .. MaxPieces
  /\ \A a, c \in 0 .. MaxPieces : a < c => a + 1 \in 0 .. MaxPieces
BY MetaAssumption

LEMMA MetaTypeInit == MetaInit => MetaTypeInv
<1> SUFFICES ASSUME MetaInit PROVE MetaTypeInv
  OBVIOUS
<1>1. 0 \in 0 .. MaxPieces
  BY ClaimsInBounds
<1>2. pieces \in [0 .. 0 - 1 -> {"missing", "true", "false"}]
  BY DEF MetaInit, Blank
<1>3. IsTable(pieces)
  BY <1>1, <1>2 DEF IsTable
<1> QED
  BY <1>1, <1>3 DEF MetaInit, MetaTypeInv, MetaTypeOK, WaitsWithinClaim, TaskStates

LEMMA MetaTypeStep == MetaTypeInv /\ [MetaNext]_metaVars => MetaTypeInv'
<1> SUFFICES ASSUME MetaTypeInv, [MetaNext]_metaVars PROVE MetaTypeInv'
  OBVIOUS
<1> USE DEF MetaTypeInv, MetaTypeOK, WaitsWithinClaim, TaskStates, callVars
<1>1. ASSUME NEW p \in Servers, TaskStep(p) PROVE MetaTypeInv'
  <2>0. MaxPieces \in Nat /\ asking[p] \in 0 .. MaxPieces /\ claim[p] \in 0 .. MaxPieces
    BY ClaimsInBounds
  <2>1. CASE Connects(p)
    BY <2>1 DEF Connects, Advances
  <2>7. CASE Handshaken(p)
    BY <2>7 DEF Handshaken, Advances
  <2>8. CASE TaskFails(p)
    BY <2>8 DEF TaskFails
  <2>2. ASSUME NEW n \in 1 .. MaxPieces, Negotiated(p, n) PROVE MetaTypeInv'
    <3>1. n \in 0 .. MaxPieces
      BY ClaimsInBounds
    <3>2. IsTable(pieces')
      <4>1. CASE pieces' = pieces
        BY <4>1
      <4>2. CASE pieces' = Blank(n)
        <5>1. pieces' \in [0 .. n - 1 -> {"missing", "true", "false"}]
          BY <4>2 DEF Blank
        <5> QED
          BY <5>1, <3>1 DEF IsTable
      <4> QED
        BY <2>2, <4>1, <4>2 DEF Negotiated, LayOut
    <3> QED
      BY <2>2, <3>1, <3>2 DEF Negotiated, Advances
  <2>3. CASE Asks(p) \/ AskedAll(p)
    BY <2>3 DEF Asks, AskedAll, Advances
  <2>4. CASE AskFails(p)
    <3>1. asking[p] + 1 \in 0 .. MaxPieces
      BY <2>0, ClaimsInBounds, <2>4 DEF AskFails
    <3> QED
      BY <2>4, <3>1 DEF AskFails
  <2>5. ASSUME NEW d \in {"true", "false"}, Receives(p, d) PROVE MetaTypeInv'
    <3>1. asking[p] + 1 \in 0 .. MaxPieces /\ asking[p] \in 0 .. MaxPieces
      BY <2>0, ClaimsInBounds, <2>5 DEF Receives, Advances
    <3>2. IsTable(pieces')
      <4>1. PICK k \in 0 .. MaxPieces : pieces \in [0 .. k - 1 -> {"missing", "true", "false"}]
        BY DEF IsTable
      <4>2. pieces' \in [0 .. k - 1 -> {"missing", "true", "false"}]
        BY <4>1, <2>5 DEF Receives
      <4> QED
        BY <4>2 DEF IsTable
    <3>3. metadata' \in {"none", "true", "false"}
      BY <2>5 DEF Receives, Assemble, Content
    <3>4. received' \in [Servers -> SUBSET (0 .. MaxPieces)]
      BY <2>5, <3>1 DEF Receives
    <3> QED
      BY <2>5, <3>1, <3>2, <3>3, <3>4 DEF Receives, Advances
  <2>6. CASE NoAnswer(p)
    <3>1. asking[p] + 1 \in 0 .. MaxPieces
      BY <2>0, ClaimsInBounds, <2>6 DEF NoAnswer, Advances
    <3> QED
      BY <2>6, <3>1 DEF NoAnswer, Advances
  <2> QED
    BY <1>1, <2>1, <2>2, <2>3, <2>4, <2>5, <2>6, <2>7, <2>8 DEF TaskStep
<1>2. CASE FetchStarts \/ FetchDone \/ FetchTimeout
  BY <1>2 DEF FetchStarts, FetchDone, FetchTimeout, StopBegins, HasInfoKey, taskVars
<1>3. ASSUME NEW p \in Servers, CloseSession(p) PROVE MetaTypeInv'
  BY <1>3 DEF CloseSession
<1>4. CASE FetchStopped
  <2>1. pieces' \in [0 .. 0 - 1 -> {"missing", "true", "false"}] /\ 0 \in 0 .. MaxPieces
    BY <1>4, ClaimsInBounds DEF FetchStopped, Blank
  <2>2. IsTable(pieces')
    BY <2>1 DEF IsTable
  <2> QED
    BY <1>4, <2>2 DEF FetchStopped, taskVars
<1>5. CASE UNCHANGED metaVars
  BY <1>5 DEF metaVars
<1> QED
  BY <1>1, <1>2, <1>3, <1>4, <1>5 DEF MetaNext, FetchStep

\* Every reachable state of the metadata exchange is well typed, the table of
\* pieces included, whatever sizes and pieces the peers send
\* (AsyncMetadataExchange).
THEOREM MetaTypeCorrect == MetaSpec => []MetaTypeOK
<1>1. MetaTypeInv => MetaTypeOK
  BY DEF MetaTypeInv
<1> QED
  BY MetaTypeInit, MetaTypeStep, <1>1, PTL DEF MetaSpec

\* What the tasks have put into the table: before stop() clears it no answer
\* is lost, and a table of true pieces only has been assembled.
TableKeeps ==
  /\ fetch # "stopped" =>
       \A p \in Servers :
         /\ task[p] \in {"requesting", "waiting"} \/ received[p] # {} => DOMAIN pieces # {}
         /\ \A i \in received[p] : i \in DOMAIN pieces => pieces[i] # "missing"
  /\ Full(pieces) /\ HashMatches(pieces) => metadata = "true"
  /\ metadata # "false"

LEMMA TableKeepsInit == MetaInit => TableKeeps
BY DEF MetaInit, TableKeeps, Full, Blank

LEMMA TableKeepsStep == MetaTypeInv /\ TableKeeps /\ [MetaNext]_metaVars => TableKeeps'
<1> SUFFICES ASSUME MetaTypeInv, TableKeeps, [MetaNext]_metaVars PROVE TableKeeps'
  OBVIOUS
<1>0. /\ task \in [Servers -> TaskStates] /\ received \in [Servers -> SUBSET (0 .. MaxPieces)]
      /\ \E n \in 0 .. MaxPieces : pieces \in [0 .. n - 1 -> {"missing", "true", "false"}]
      /\ metadata \in {"none", "true", "false"}
  BY DEF MetaTypeInv, MetaTypeOK, IsTable
<1>1. ASSUME NEW p \in Servers, TaskStep(p) PROVE TableKeeps'
  <2>1. CASE Connects(p) \/ Handshaken(p) \/ TaskFails(p) \/ Asks(p) \/ AskedAll(p) \/ AskFails(p) \/ NoAnswer(p)
    <3>1. UNCHANGED <<received, pieces, metadata, fetch>>
      BY <2>1 DEF Connects, Handshaken, TaskFails, Asks, AskedAll, AskFails, NoAnswer, callVars
    <3>2. \A q \in Servers : task'[q] \in {"requesting", "waiting"} => task[q] \in {"requesting", "waiting"}
      BY <2>1, <1>0 DEF Connects, Handshaken, TaskFails, Asks, AskedAll, AskFails, NoAnswer, Advances
    <3> QED
      BY <3>1, <3>2 DEF TableKeeps, Full, HashMatches, Content
  <2>2. ASSUME NEW n \in 1 .. MaxPieces, Negotiated(p, n) PROVE TableKeeps'
    <3>1. UNCHANGED <<received, metadata, fetch>>
      BY <2>2 DEF Negotiated, callVars
    <3>2. CASE pieces = Blank(0)
      <4>1. pieces' = [i \in 0 .. n - 1 |-> "missing"] /\ 0 \in DOMAIN pieces'
        BY <2>2, <3>2 DEF Negotiated, LayOut, Blank
      <4>2. DOMAIN pieces = {}
        BY <3>2 DEF Blank
      <4>3. fetch # "stopped" => \A q \in Servers : received[q] = {}
        BY <4>2 DEF TableKeeps
      <4>4. ~Full(pieces')
        BY <4>1 DEF Full
      <4> QED
        BY <3>1, <4>1, <4>3, <4>4 DEF TableKeeps
    <3>3. CASE pieces # Blank(0)
      <4>1. pieces' = pieces
        BY <2>2, <3>3 DEF Negotiated, LayOut
      <4>2. DOMAIN pieces # {}
        BY <1>0, <3>3 DEF Blank
      <4> QED
        BY <3>1, <4>1, <4>2 DEF TableKeeps, Full, HashMatches, Content
    <3> QED
      BY <3>2, <3>3
  <2>3. ASSUME NEW d \in {"true", "false"}, Receives(p, d) PROVE TableKeeps'
    <3>1. /\ pieces' = [i \in DOMAIN pieces |-> IF i = asking[p] THEN d ELSE pieces[i]]
          /\ received' = [received EXCEPT ![p] = @ \cup {asking[p]}]
          /\ task' = [task EXCEPT ![p] = "requesting"] /\ task[p] = "waiting"
          /\ fetch' = fetch
          /\ Assemble(pieces')
      BY <2>3 DEF Receives, Advances, callVars
    <3>2. DOMAIN pieces' = DOMAIN pieces
      BY <3>1
    <3>3. fetch' # "stopped" => \A q \in Servers :
            task'[q] \in {"requesting", "waiting"} \/ received'[q] # {} => DOMAIN pieces' # {}
      BY <3>1, <3>2, <1>0 DEF TableKeeps
    <3>4. fetch' # "stopped" => \A q \in Servers : \A i \in received'[q] :
            i \in DOMAIN pieces' => pieces'[i] # "missing"
      BY <3>1, <3>2, <1>0 DEF TableKeeps
    <3>5. Full(pieces') /\ HashMatches(pieces') => metadata' = "true"
      BY <3>1 DEF Assemble, HashMatches
    <3>6. metadata' # "false"
      BY <3>1 DEF Assemble, HashMatches, TableKeeps
    <3> QED
      BY <3>3, <3>4, <3>5, <3>6 DEF TableKeeps
  <2> QED
    BY <1>1, <2>1, <2>2, <2>3 DEF TaskStep
<1>2. CASE FetchStarts \/ FetchDone \/ FetchTimeout \/ \E p \in Servers : CloseSession(p)
  <2>1. /\ UNCHANGED <<received, pieces, metadata>>
        /\ fetch' # "stopped" => fetch # "stopped"
    BY <1>2 DEF FetchStarts, FetchDone, FetchTimeout, StopBegins, CloseSession, taskVars
  <2>2. \A q \in Servers : task'[q] \in {"requesting", "waiting"} => task[q] \in {"requesting", "waiting"}
    BY <1>2 DEF FetchStarts, FetchDone, FetchTimeout, CloseSession, taskVars
  <2> QED
    BY <2>1, <2>2 DEF TableKeeps, Full, HashMatches, Content
<1>3. CASE FetchStopped
  <2>1. DOMAIN pieces' = {} /\ fetch' = "stopped" /\ metadata' = metadata
    BY <1>3 DEF FetchStopped, Blank
  <2> QED
    BY <2>1 DEF TableKeeps, Full
<1>4. CASE UNCHANGED metaVars
  BY <1>4 DEF metaVars, TableKeeps, Full, HashMatches, Content
<1> QED
  BY <1>1, <1>2, <1>3, <1>4 DEF MetaNext, FetchStep

\* What is kept as the metadata is the true one (_assemble_metadata).
THEOREM KeptMetadataIsTrue == MetaSpec => []MetadataIsTrue
<1>1. TableKeeps => MetadataIsTrue
  BY DEF TableKeeps, MetadataIsTrue
<1> QED
  BY MetaTypeInit, MetaTypeStep, TableKeepsInit, TableKeepsStep, <1>1, PTL DEF MetaSpec

\* A peer that has answered everything is enough, for any number of peers and
\* of pieces (_request_metadata_pieces, _handle_metadata_piece).
THEOREM OneWholeAnswerIsEnough == MetaSpec => []WholeAnswerCompletes
<1>1. MetaTypeInv /\ TableKeeps => WholeAnswerCompletes
  <2> SUFFICES ASSUME MetaTypeInv, TableKeeps, fetch = "polling", DOMAIN pieces = Truth,
                      NEW p \in Servers, Truth \subseteq received[p],
                      \A i \in Truth : pieces[i] # "false"
               PROVE  metadata = "true"
    BY DEF WholeAnswerCompletes
  <2>1. \A i \in Truth : pieces[i] # "missing"
    BY DEF TableKeeps
  <2>2. \A i \in Truth : pieces[i] = "true"
    BY <2>1 DEF MetaTypeInv, MetaTypeOK, IsTable
  <2>3. 0 \in Truth
    BY MetaAssumption DEF Truth
  <2>4. Full(pieces) /\ HashMatches(pieces)
    BY <2>1, <2>2, <2>3 DEF Full, HashMatches, Content
  <2> QED
    BY <2>4 DEF TableKeeps
<1> QED
  BY MetaTypeInit, MetaTypeStep, TableKeepsInit, TableKeepsStep, <1>1, PTL DEF MetaSpec

\* Where a socket that stop() does not close comes from.
SocketsInHand ==
  /\ fetch = "idle" => \A p \in Servers : task[p] = "none"
  /\ fetch = "polling" => sessions = Servers
  /\ fetch = "stopped" => closing = {}
  /\ \A p \in Servers : task[p] \in {"none", "connecting"} => link[p] = "none"
  /\ fetch \in {"stopping", "stopped"} =>
       \A p \in Servers \ closing : link[p] \in {"none", "open"} => p \in late

LEMMA SocketsInHandStep == MetaTypeInv /\ SocketsInHand /\ [MetaNext]_metaVars => SocketsInHand'
<1> SUFFICES ASSUME MetaTypeInv, SocketsInHand, [MetaNext]_metaVars PROVE SocketsInHand'
  OBVIOUS
<1>0. /\ task \in [Servers -> TaskStates] /\ link \in [Servers -> {"none", "open", "closed"}]
      /\ late \in SUBSET Servers /\ closing \in SUBSET Servers
  BY DEF MetaTypeInv, MetaTypeOK
<1> USE DEF SocketsInHand
<1>1. ASSUME NEW p \in Servers, TaskStep(p) PROVE SocketsInHand'
  <2>0. UNCHANGED <<sessions, fetch, closing, late>>
    BY <1>1 DEF TaskStep, Connects, Handshaken, TaskFails, Negotiated, Asks, AskFails, AskedAll, Receives, NoAnswer, callVars
  <2>1. CASE Connects(p)
    <3>1. /\ task' = [task EXCEPT ![p] = "handshake"] /\ task[p] = "connecting"
          /\ link' = [link EXCEPT ![p] = "open"] /\ link[p] = "none"
      BY <2>1 DEF Connects, Advances
    <3> QED
      BY <1>0, <2>0, <3>1
  <2>2. CASE ~Connects(p)
    <3>1. link' = link
      BY <1>1, <2>2 DEF TaskStep, Handshaken, TaskFails, Negotiated, Asks, AskFails, AskedAll, Receives, NoAnswer
    <3>2. task[p] # "none"
      BY <1>1, <2>2 DEF TaskStep, Handshaken, TaskFails, Negotiated, Asks, AskFails, AskedAll, Receives, NoAnswer, Advances
    <3>3. \A q \in Servers : task'[q] \in {"none", "connecting"} => task[q] \in {"none", "connecting"}
      BY <1>0, <1>1, <2>2 DEF TaskStep, Handshaken, TaskFails, Negotiated, Asks, AskFails, AskedAll, Receives, NoAnswer, Advances
    <3>4. fetch # "idle"
      BY <3>2
    <3> QED
      BY <2>0, <3>1, <3>3, <3>4
  <2> QED
    BY <2>1, <2>2
<1>2. CASE FetchStarts
  BY <1>0, <1>2 DEF FetchStarts
<1>3. CASE FetchDone \/ FetchTimeout
  <2>1. /\ fetch = "polling" /\ fetch' = "stopping" /\ closing' = sessions
        /\ \A q \in Servers : task'[q] \in {"none", "connecting"} => task[q] \in {"none", "connecting"}
        /\ UNCHANGED <<link, late, sessions>>
    BY <1>3 DEF FetchDone, FetchTimeout, StopBegins, taskVars
  <2> QED
    BY <2>1
<1>4. ASSUME NEW p \in Servers, CloseSession(p) PROVE SocketsInHand'
  BY <1>0, <1>4 DEF CloseSession
<1>5. CASE FetchStopped
  BY <1>0, <1>5 DEF FetchStopped, taskVars
<1>6. CASE UNCHANGED metaVars
  BY <1>6 DEF metaVars
<1> QED
  BY <1>1, <1>2, <1>3, <1>4, <1>5, <1>6 DEF MetaNext, FetchStep

\* stop() leaves open only the sockets of tasks that were still connecting when
\* it closed their session (stop, _close_session).
THEOREM StopLeavesLateSockets == MetaSpec => []OnlyLateSocketsAreLeft
<1>1. MetaInit => SocketsInHand
  BY DEF MetaInit, SocketsInHand
<1>2. SocketsInHand => OnlyLateSocketsAreLeft
  BY DEF SocketsInHand, OnlyLateSocketsAreLeft
<1> QED
  BY MetaTypeInit, MetaTypeStep, SocketsInHandStep, <1>1, <1>2, PTL DEF MetaSpec
-----------------------------------------------------------------------------
(* The UDP tracker client.  A coroutine's step either sends a request or ends
   or pauses its call; what else it does to the sessions does not matter to
   the table of pending requests. *)

\* Every wait has been sent, answers are to what is waited for, and no two
\* requests have one transaction id.
WaitsAreSent == \A c \in Askers : Waits(c) => LiveRequest(c) \in sent
AnswersAreLive == \A c \in Askers : Waits(c) /\ Resolved(c) => source[c] = LiveRequest(c)
IdsAreUnique == \A r1, r2 \in sent : r1.tid = r2.tid => r1 = r2

UdpInv ==
  /\ UdpTypeOK /\ PendingIsWaited /\ StopLeavesNoneWaiting
  /\ WaitsAreSent /\ AnswersAreLive /\ IdsAreUnique

Freed(c) == IF Waits(c) THEN Popped(c) ELSE pending

SendShape(c) ==
  /\ udp # "down"
  /\ \E kind \in {"connect", "ask"}, k \in 0 .. MaxTries : Sends(c, kind, k, Freed(c))

QuietShape(c) ==
  /\ \/ step' = [step EXCEPT ![c] = "backoff"] /\ UNCHANGED ended
     \/ \E how \in {"answered", "failed", "cancelled"} :
          /\ step' = [step EXCEPT ![c] = "done"] /\ ended' = [ended EXCEPT ![c] = how]
          /\ how = "answered" => step[c] = "asking" /\ answer[c] = "ok"
  /\ \E k \in 0 .. MaxTries : try' = [try EXCEPT ![c] = k]
  /\ pending' = Freed(c)
  /\ UNCHANGED <<tid, answer, source, sent, counter>>

Homes ==
  /\ entry \in [Trackers -> Askers \cup {NoAsker}]
  /\ sess \in [Askers -> Sessions]
  /\ mine \in [Askers -> Askers]

LEMMA TriesInBounds ==
  /\ MaxTries \in Nat /\ 0 \in 0 .. MaxTries
  /\ \A k \in 0 .. MaxTries : k < MaxTries - 1 => k + 1 \in 0 .. MaxTries
BY UdpAssumption

LEMMA NextIdInBounds ==
  /\ 0 \in Tids
  /\ \A n \in Tids : (n + 1) % TidSpace \in Tids
BY UdpAssumption DEF Tids

LEMMA FailsAreQuiet ==
  ASSUME UdpTypeOK, NEW c \in Askers, NEW k \in 0 .. MaxTries, NEW network \in BOOLEAN,
         NEW s \in [Askers -> Sessions], ConnectFails(c, k, network, s),
         pending' = Freed(c), mine' \in [Askers -> Askers]
  PROVE  QuietShape(c) /\ sess' \in [Askers -> Sessions]
<1>1. CASE network /\ k < MaxTries - 1
  <2>1. k + 1 \in 0 .. MaxTries
    BY <1>1, TriesInBounds
  <2>2. /\ step' = [step EXCEPT ![c] = "backoff"] /\ try' = [try EXCEPT ![c] = k + 1]
        /\ sess' = s /\ UNCHANGED <<tid, answer, source, ended, sent, counter>>
    BY <1>1 DEF ConnectFails
  <2> QED
    BY <2>1, <2>2 DEF QuietShape, UdpTypeOK
<1>2. CASE ~(network /\ k < MaxTries - 1)
  <2>1. sess' = [s EXCEPT ![mine'[c]].up = FALSE] /\ Ends(c, "failed")
    BY <1>2 DEF ConnectFails
  <2>2. sess' \in [Askers -> Sessions]
    BY <2>1 DEF Sessions
  <2>3. try' = [try EXCEPT ![c] = try[c]] /\ try[c] \in 0 .. MaxTries
    BY <2>1 DEF Ends, UdpTypeOK
  <2> QED
    BY <2>1, <2>2, <2>3 DEF QuietShape, Ends, UdpTypeOK
<1> QED
  BY <1>1, <1>2

LEMMA EndsAreQuiet ==
  ASSUME UdpTypeOK, NEW c \in Askers, NEW how \in {"answered", "failed", "cancelled"},
         Ends(c, how), pending' = Freed(c),
         how = "answered" => step[c] = "asking" /\ answer[c] = "ok"
  PROVE  QuietShape(c)
<1>1. try' = [try EXCEPT ![c] = try[c]] /\ try[c] \in 0 .. MaxTries
  BY DEF Ends, UdpTypeOK
<1> QED
  BY <1>1 DEF QuietShape, Ends, UdpTypeOK

LEMMA AttemptShapes ==
  ASSUME UdpTypeOK, NEW c \in Askers, NEW k \in 0 .. MaxTries, ~Waits(c),
         mine' \in [Askers -> Askers], Attempt(c, k)
  PROVE  (SendShape(c) \/ QuietShape(c)) /\ sess' \in [Askers -> Sessions]
<1>1. Refreshed(mine'[c]) \in [Askers -> Sessions]
  <2>1. [up |-> FALSE, age |-> Never] \in Sessions
    BY DEF Sessions, Never
  <2> QED
    BY <2>1 DEF Refreshed, UdpTypeOK
<1>2. Freed(c) = pending
  BY DEF Freed
<1>3. CASE udp = "up"
  BY <1>1, <1>2, <1>3 DEF Attempt, SendShape
<1>4. CASE udp # "up"
  <2>1. ConnectFails(c, k, udp = "stopping", Refreshed(mine'[c])) /\ pending' = pending
    BY <1>4 DEF Attempt
  <2>2. (udp = "stopping") \in BOOLEAN
    OBVIOUS
  <2> QED
    BY <1>1, <1>2, <2>1, <2>2, FailsAreQuiet
<1> QED
  BY <1>3, <1>4

LEMMA AsksShapes ==
  ASSUME UdpTypeOK, NEW c \in Askers, AsksTracker(c, Freed(c))
  PROVE  SendShape(c) \/ QuietShape(c)
<1>1. CASE udp = "down"
  BY <1>1, EndsAreQuiet DEF AsksTracker
<1>2. CASE udp # "down"
  BY <1>2 DEF AsksTracker, SendShape, UdpTypeOK
<1> QED
  BY <1>1, <1>2

LEMMA FindsSession ==
  ASSUME UdpTypeOK, NEW c \in Askers, FindSession(c)
  PROVE  ~Waits(c) /\ entry' \in [Trackers -> Askers \cup {NoAsker}] /\ mine' \in [Askers -> Askers]
<1>1. TrackerOf[c] \in Trackers
  BY UdpAssumption
<1>2. entry' \in [Trackers -> Askers \cup {NoAsker}] /\ entry'[TrackerOf[c]] \in Askers
  BY <1>1 DEF FindSession, UdpTypeOK
<1> QED
  BY <1>2 DEF FindSession, UdpTypeOK, Waits

LEMMA AskerShapes ==
  ASSUME UdpTypeOK, NEW c \in Askers, AskerStep(c)
  PROVE  udp' = udp /\ Homes' /\ (SendShape(c) \/ QuietShape(c))
<1> USE DEF Homes
<1>0. Homes /\ try[c] \in 0 .. MaxTries
  BY DEF UdpTypeOK
<1>1. ASSUME NEW k \in DOMAIN Limit, BeginConnects(c, k) PROVE udp' = udp /\ Homes' /\ (SendShape(c) \/ QuietShape(c))
  BY <1>0, <1>1, FindsSession, AttemptShapes, TriesInBounds DEF BeginConnects
<1>2. ASSUME NEW k \in DOMAIN Limit, BeginAsks(c, k) PROVE udp' = udp /\ Homes' /\ (SendShape(c) \/ QuietShape(c))
  <2>1. ~Waits(c) /\ Freed(c) = pending
    BY <1>2, FindsSession DEF BeginAsks, Freed
  <2> QED
    BY <1>0, <1>2, <2>1, FindsSession, AsksShapes DEF BeginAsks
<1>3. ASSUME NEW k \in DOMAIN Limit, BeginFails(c, k) PROVE udp' = udp /\ Homes' /\ (SendShape(c) \/ QuietShape(c))
  <2>1. ~Waits(c) /\ Freed(c) = pending
    BY <1>3, FindsSession DEF BeginFails, Freed
  <2> QED
    BY <1>0, <1>3, <2>1, FindsSession, EndsAreQuiet DEF BeginFails
<1>4. CASE BackoffEnds(c)
  BY <1>0, <1>4, AttemptShapes DEF BackoffEnds, Waits
<1>5. CASE Connected(c)
  <2>1. Freed(c) = Popped(c)
    BY <1>5 DEF Connected, Freed, Waits
  <2>2. [up |-> TRUE, age |-> 0] \in Sessions
    BY DEF Sessions, Never
  <2> QED
    BY <1>0, <1>5, <2>1, <2>2, AsksShapes DEF Connected
<1>6. CASE ConnectRefused(c)
  <2>1. Freed(c) = Popped(c)
    BY <1>6 DEF ConnectRefused, Freed, Waits
  <2>2. ConnectFails(c, try[c], TRUE, sess) /\ mine' = mine /\ entry' = entry /\ udp' = udp /\ pending' = Popped(c)
    BY <1>6 DEF ConnectRefused
  <2> QED
    BY <1>0, <2>1, <2>2, FailsAreQuiet
<1>7. CASE Answered(c)
  <2>1. Freed(c) = Popped(c)
    BY <1>7 DEF Answered, Freed, Waits
  <2> QED
    BY <1>0, <1>7, <2>1, EndsAreQuiet DEF Answered
<1>8. CASE CancelEnds(c)
  <2>1. Freed(c) = Popped(c)
    BY <1>8 DEF CancelEnds, Freed
  <2> QED
    BY <1>0, <1>8, <2>1, EndsAreQuiet DEF CancelEnds
<1>9. CASE TimesOut(c)
  <2>1. Freed(c) = Popped(c) /\ pending' = Popped(c) /\ mine' = mine /\ entry' = entry /\ udp' = udp
    BY <1>9 DEF TimesOut, Freed
  <2>2. CASE ConnectFails(c, try[c], TRUE, sess)
    BY <1>0, <2>1, <2>2, FailsAreQuiet
  <2>3. CASE Ends(c, "failed") /\ UNCHANGED sess
    BY <1>0, <2>1, <2>3, EndsAreQuiet
  <2> QED
    BY <1>9, <2>2, <2>3 DEF TimesOut
<1> QED
  BY <1>1, <1>2, <1>3, <1>4, <1>5, <1>6, <1>7, <1>8, <1>9 DEF AskerStep

LEMMA UdpInvInit == UdpInit => UdpInv
<1> SUFFICES ASSUME UdpInit PROVE UdpInv
  OBVIOUS
<1>1. 0 \in 0 .. MaxTries /\ 0 \in Tids
  BY TriesInBounds, NextIdInBounds
<1>2. [up |-> FALSE, age |-> Never] \in Sessions
  BY DEF Sessions, Never
<1>3. UdpTypeOK
  BY <1>1, <1>2 DEF UdpInit, UdpTypeOK
<1> QED
  BY <1>3 DEF UdpInit, UdpInv, PendingIsWaited, StopLeavesNoneWaiting, WaitsAreSent,
              AnswersAreLive, IdsAreUnique, Waits

\* A waiting coroutine's entry is at its own id, so taking it out leaves those
\* of the others.
LEMMA FreedTable ==
  ASSUME UdpInv, NEW c \in Askers
  PROVE  /\ Freed(c) \in [Tids -> Askers \cup {NoAsker}]
         /\ \A d \in Askers \ {c} : Waits(d) => Freed(c)[tid[d]] = d
         /\ \A n \in Tids : Freed(c)[n] # NoAsker =>
              Freed(c)[n] \in Askers \ {c} /\ Waits(Freed(c)[n]) /\ tid[Freed(c)[n]] = n
<1> USE DEF UdpInv, UdpTypeOK, PendingIsWaited
<1>1. CASE Waits(c)
  <2>1. Freed(c) = [pending EXCEPT ![tid[c]] = NoAsker]
    BY <1>1 DEF Freed, Popped
  <2> QED
    BY <1>1, <2>1
<1>2. CASE ~Waits(c)
  <2>1. Freed(c) = pending
    BY <1>2 DEF Freed
  <2> QED
    BY <1>2, <2>1
<1> QED
  BY <1>1, <1>2

LEMMA SendStep ==
  ASSUME UdpInv, NEW c \in Askers, SendShape(c), udp' = udp, Homes'
  PROVE  UdpInv'
<1>1. PICK kind \in {"connect", "ask"}, k \in 0 .. MaxTries : Sends(c, kind, k, Freed(c))
  BY DEF SendShape
<1> DEFINE new == [by |-> c, kind |-> kind, try |-> k, tid |-> counter']
<1>0. udp # "down"
  BY DEF SendShape
<1>2. counter' \in Tids /\ \A r \in sent : r.tid # counter'
  BY <1>1, NextIdInBounds DEF Sends, GetTransactionId, UdpInv, UdpTypeOK
<1>3. tid' = [tid EXCEPT ![c] = counter'] /\ tid'[c] = counter'
  BY <1>1 DEF Sends, GetTransactionId, UdpInv, UdpTypeOK
<1>4. /\ sent' = sent \cup {new}
      /\ pending' = [Freed(c) EXCEPT ![counter'] = c]
      /\ answer' = [answer EXCEPT ![c] = "open"]
      /\ source' = [source EXCEPT ![c] = NoRequest]
      /\ try' = [try EXCEPT ![c] = k]
      /\ step' = [step EXCEPT ![c] = IF kind = "connect" THEN "connecting" ELSE "asking"]
      /\ ended' = ended
  BY <1>1, <1>3 DEF Sends
<1>5. new \in Requests
  BY <1>2 DEF Requests
<1>6. UdpTypeOK'
  <2>1. sent' \in SUBSET Requests
    BY <1>4, <1>5 DEF UdpInv, UdpTypeOK
  <2>2. pending' \in [Tids -> Askers \cup {NoAsker}]
    BY <1>2, <1>4, FreedTable
  <2>3. source' \in [Askers -> Requests \cup {NoRequest}]
    BY <1>4 DEF UdpInv, UdpTypeOK
  <2>4. /\ step' \in [Askers -> {"idle", "connecting", "backoff", "asking", "done"}]
        /\ try' \in [Askers -> 0 .. MaxTries] /\ tid' \in [Askers -> Tids]
        /\ answer' \in [Askers -> {"open", "cancelled", "ok", "error"}]
    BY <1>2, <1>3, <1>4 DEF UdpInv, UdpTypeOK
  <2> QED
    BY <1>2, <1>4, <2>1, <2>2, <2>3, <2>4 DEF UdpInv, UdpTypeOK, Homes
<1>7. /\ step'[c] = (IF kind = "connect" THEN "connecting" ELSE "asking")
      /\ Waits(c)' /\ answer'[c] = "open" /\ LiveRequest(c)' = new
  BY <1>3, <1>4 DEF UdpInv, UdpTypeOK, Waits, LiveRequest
<1>8. \A d \in Askers \ {c} :
        /\ step'[d] = step[d] /\ try'[d] = try[d] /\ tid'[d] = tid[d]
        /\ answer'[d] = answer[d] /\ source'[d] = source[d]
  BY <1>3, <1>4 DEF UdpInv, UdpTypeOK
<1>9. \A d \in Askers \ {c} : (Waits(d)' <=> Waits(d)) /\ LiveRequest(d)' = LiveRequest(d)
                              /\ (Resolved(d)' <=> Resolved(d))
  BY <1>8 DEF Waits, LiveRequest, Resolved
<1>10. \A d \in Askers \ {c} : Waits(d) => tid[d] # counter'
  BY <1>2 DEF UdpInv, WaitsAreSent, LiveRequest
<1>11. PendingIsWaited'
  <2>1. \A d \in Askers : Waits(d)' => pending'[tid'[d]] = d
    BY <1>2, <1>3, <1>4, <1>8, <1>9, <1>10, FreedTable
  <2>2. \A n \in Tids : pending'[n] # NoAsker => step'[pending'[n]] \in {"connecting", "asking"} /\ tid'[pending'[n]] = n
    <3> SUFFICES ASSUME NEW n \in Tids, pending'[n] # NoAsker
                 PROVE  step'[pending'[n]] \in {"connecting", "asking"} /\ tid'[pending'[n]] = n
      OBVIOUS
    <3>1. CASE n = counter'
      <4>1. pending'[n] = c
        BY <1>2, <1>4, <3>1, FreedTable
      <4> QED
        BY <4>1, <3>1, <1>3, <1>7
    <3>2. CASE n # counter'
      <4>1. pending'[n] = Freed(c)[n]
        BY <1>2, <1>4, <3>2, FreedTable
      <4>2. pending'[n] \in Askers \ {c} /\ Waits(pending'[n]) /\ tid[pending'[n]] = n
        BY <4>1, FreedTable
      <4>3. step'[pending'[n]] = step[pending'[n]] /\ tid'[pending'[n]] = tid[pending'[n]]
        BY <4>2, <1>8
      <4> QED
        BY <4>2, <4>3 DEF Waits
    <3> QED
      BY <3>1, <3>2
  <2> QED
    BY <2>1, <2>2 DEF PendingIsWaited, Waits
<1>12. WaitsAreSent'
  BY <1>4, <1>7, <1>9 DEF UdpInv, WaitsAreSent
<1>13. AnswersAreLive'
  <2>1. ~Resolved(c)'
    BY <1>7 DEF Resolved
  <2> QED
    BY <2>1, <1>8, <1>9 DEF UdpInv, AnswersAreLive
<1>14. IdsAreUnique'
  BY <1>2, <1>4 DEF UdpInv, IdsAreUnique
<1>15. StopLeavesNoneWaiting'
  BY <1>0 DEF StopLeavesNoneWaiting
<1> QED
  BY <1>6, <1>11, <1>12, <1>13, <1>14, <1>15 DEF UdpInv

LEMMA QuietStep ==
  ASSUME UdpInv, NEW c \in Askers, QuietShape(c), udp' = udp, Homes'
  PROVE  UdpInv'
<1>1. /\ step' \in [Askers -> {"idle", "connecting", "backoff", "asking", "done"}]
      /\ step'[c] \in {"done", "backoff"} /\ ~Waits(c)'
      /\ \A d \in Askers \ {c} : step'[d] = step[d]
  BY DEF QuietShape, UdpInv, UdpTypeOK, Waits
<1>2. try' \in [Askers -> 0 .. MaxTries] /\ \A d \in Askers \ {c} : try'[d] = try[d]
  BY DEF QuietShape, UdpInv, UdpTypeOK
<1>3. /\ pending' = Freed(c)
      /\ tid' = tid /\ answer' = answer /\ source' = source /\ sent' = sent /\ counter' = counter
  BY DEF QuietShape
<1>4. UdpTypeOK'
  <2>1. pending' \in [Tids -> Askers \cup {NoAsker}]
    BY <1>3, FreedTable
  <2> QED
    BY <1>1, <1>2, <1>3, <2>1 DEF UdpInv, UdpTypeOK, Homes, QuietShape
<1>5. \A d \in Askers : Waits(d)' => d # c /\ Waits(d) /\ LiveRequest(d)' = LiveRequest(d)
  BY <1>1, <1>2, <1>3 DEF Waits, LiveRequest
<1>6. PendingIsWaited'
  <2>1. \A d \in Askers : Waits(d)' => pending'[tid'[d]] = d
    BY <1>3, <1>5, FreedTable
  <2>2. \A n \in Tids : pending'[n] # NoAsker => step'[pending'[n]] \in {"connecting", "asking"} /\ tid'[pending'[n]] = n
    BY <1>1, <1>3, FreedTable DEF Waits
  <2> QED
    BY <2>1, <2>2 DEF PendingIsWaited, Waits
<1>7. WaitsAreSent' /\ AnswersAreLive'
  BY <1>3, <1>5 DEF UdpInv, WaitsAreSent, AnswersAreLive, Resolved
<1>8. IdsAreUnique'
  BY <1>3 DEF UdpInv, IdsAreUnique
<1>9. StopLeavesNoneWaiting'
  BY <1>3, <1>5 DEF UdpInv, StopLeavesNoneWaiting
<1> QED
  BY <1>4, <1>6, <1>7, <1>8, <1>9 DEF UdpInv

LEMMA ResponseStep ==
  ASSUME UdpInv, NEW r \in sent, NEW ok \in BOOLEAN, HandleResponse(r, ok)
  PROVE  UdpInv'
<1> DEFINE c == pending[r.tid]
<1>0. /\ r \in Requests /\ r.tid \in Tids
  BY DEF UdpInv, UdpTypeOK, Requests
<1>1. c \in Askers /\ Waits(c) /\ tid[c] = r.tid
  BY <1>0 DEF HandleResponse, UdpInv, UdpTypeOK, PendingIsWaited
<1>2. LiveRequest(c) = r
  BY <1>1 DEF UdpInv, WaitsAreSent, IdsAreUnique, LiveRequest
<1>3. /\ answer' = [answer EXCEPT ![c] = IF ok THEN "ok" ELSE "error"]
      /\ source' = [source EXCEPT ![c] = r]
      /\ UNCHANGED <<udp, entry, sess, step, mine, try, tid, ended, pending, sent, counter>>
      /\ udp = "up"
  BY DEF HandleResponse
<1> HIDE DEF c
<1>4. UdpTypeOK'
  BY <1>0, <1>1, <1>3 DEF UdpInv, UdpTypeOK
<1>5. \A d \in Askers : (Waits(d)' <=> Waits(d)) /\ LiveRequest(d)' = LiveRequest(d)
  BY <1>3 DEF Waits, LiveRequest
<1>6. AnswersAreLive'
  <2>1. source'[c] = r
    BY <1>1, <1>3 DEF UdpInv, UdpTypeOK
  <2>2. \A d \in Askers \ {c} : source'[d] = source[d] /\ answer'[d] = answer[d]
    BY <1>1, <1>3 DEF UdpInv, UdpTypeOK
  <2> QED
    BY <1>2, <1>5, <2>1, <2>2 DEF UdpInv, AnswersAreLive, Resolved
<1>7. PendingIsWaited'
  BY <1>3 DEF UdpInv, PendingIsWaited, Waits
<1>8. WaitsAreSent' /\ IdsAreUnique'
  BY <1>3, <1>5 DEF UdpInv, WaitsAreSent, IdsAreUnique
<1>9. StopLeavesNoneWaiting'
  BY <1>3 DEF StopLeavesNoneWaiting
<1> QED
  BY <1>4, <1>6, <1>7, <1>8, <1>9 DEF UdpInv

LEMMA StopStep ==
  ASSUME UdpInv, UdpStopEnds
  PROVE  UdpInv'
<1>1. /\ udp' = "down"
      /\ answer' = [d \in Askers |->
                      IF answer[d] = "open" /\ \E n \in Tids : pending[n] = d THEN "cancelled" ELSE answer[d]]
      /\ UNCHANGED <<entry, sess, step, mine, try, tid, source, ended, pending, sent, counter>>
  BY DEF UdpStopEnds
<1>2. UdpTypeOK'
  BY <1>1 DEF UdpInv, UdpTypeOK
<1>3. \A d \in Askers : /\ (Waits(d)' <=> Waits(d)) /\ LiveRequest(d)' = LiveRequest(d)
                        /\ Resolved(d)' => Resolved(d)
  BY <1>1 DEF Waits, LiveRequest, Resolved
<1>4. StopLeavesNoneWaiting'
  <2> SUFFICES ASSUME NEW d \in Askers, Waits(d)' PROVE answer'[d] # "open"
    BY DEF StopLeavesNoneWaiting
  <2>1. pending[tid[d]] = d /\ tid[d] \in Tids
    BY <1>3 DEF UdpInv, UdpTypeOK, PendingIsWaited
  <2> QED
    BY <1>1, <2>1
<1>5. PendingIsWaited'
  BY <1>1 DEF UdpInv, PendingIsWaited, Waits
<1>6. WaitsAreSent' /\ AnswersAreLive' /\ IdsAreUnique'
  BY <1>1, <1>3 DEF UdpInv, WaitsAreSent, AnswersAreLive, IdsAreUnique
<1> QED
  BY <1>2, <1>4, <1>5, <1>6 DEF UdpInv

\* What touches neither the requests nor the coroutines.
LEMMA ElsewhereStep ==
  ASSUME UdpInv, UNCHANGED <<step, try, tid, answer, source, ended, pending, sent, counter>>,
         UdpTypeOK', udp' = "down" => udp = "down"
  PROVE  UdpInv'
BY DEF UdpInv, PendingIsWaited, StopLeavesNoneWaiting, WaitsAreSent, AnswersAreLive,
       IdsAreUnique, Waits, LiveRequest, Resolved

LEMMA UdpInvStep == UdpInv /\ [UdpNext]_udpVars => UdpInv'
<1> SUFFICES ASSUME UdpInv, [UdpNext]_udpVars PROVE UdpInv'
  OBVIOUS
<1>0. UdpTypeOK
  BY DEF UdpInv
<1>1. ASSUME NEW c \in Askers, AskerStep(c) PROVE UdpInv'
  BY <1>0, <1>1, AskerShapes, SendStep, QuietStep
<1>2. ASSUME NEW r \in sent, NEW ok \in BOOLEAN, HandleResponse(r, ok) PROVE UdpInv'
  BY <1>2, ResponseStep
<1>3. ASSUME NEW t \in Trackers, CleanSession(t) PROVE UdpInv'
  <2>1. UdpTypeOK'
    BY <1>0, <1>3 DEF CleanSession, UdpTypeOK
  <2> QED
    BY <1>3, <2>1, ElsewhereStep DEF CleanSession
<1>4. ASSUME NEW s \in Askers, TimePasses(s) PROVE UdpInv'
  <2>1. sess[s].age + 1 \in 0 .. Never /\ sess[s] \in Sessions
    BY <1>0, <1>4 DEF TimePasses, UdpTypeOK, Sessions, Expired, Never
  <2>2. sess' \in [Askers -> Sessions]
    BY <1>0, <1>4, <2>1 DEF TimePasses, UdpTypeOK, Sessions
  <2>3. UdpTypeOK'
    BY <1>0, <1>4, <2>2 DEF TimePasses, UdpTypeOK
  <2> QED
    BY <1>4, <2>3, ElsewhereStep DEF TimePasses
<1>5. CASE UdpStopBegins
  <2>1. UdpTypeOK'
    BY <1>0, <1>5 DEF UdpStopBegins, UdpTypeOK
  <2> QED
    BY <1>5, <2>1, ElsewhereStep DEF UdpStopBegins
<1>6. CASE UdpStopEnds
  BY <1>6, StopStep
<1>7. CASE UNCHANGED udpVars
  <2>1. UdpTypeOK'
    BY <1>0, <1>7 DEF udpVars, UdpTypeOK
  <2> QED
    BY <1>7, <2>1, ElsewhereStep DEF udpVars
<1> QED
  BY <1>1, <1>2, <1>3, <1>4, <1>5, <1>6, <1>7 DEF UdpNext, ClientStep

\* The variables keep their types (tracker_udp_client.py: the attempts of a
\* connect stay within its limit, ids within theirs).
THEOREM UdpTypeCorrect == UdpSpec => []UdpTypeOK
<1>1. UdpInv => UdpTypeOK
  BY DEF UdpInv
<1> QED
  BY UdpInvInit, UdpInvStep, <1>1, PTL DEF UdpSpec

\* handle_response goes by the transaction id alone; as every attempt has its
\* own, the answer taken is one to the request that is waited for.
THEOREM OwnAnswers == UdpSpec => []AnswersAreOwn
<1>1. UdpInv => AnswersAreOwn
  <2> SUFFICES ASSUME UdpInv, NEW c \in Askers, Waits(c), Resolved(c)
               PROVE  /\ source[c].by = c /\ source[c].try = try[c]
                      /\ source[c].kind = (IF step[c] = "asking" THEN "ask" ELSE "connect")
    BY DEF AnswersAreOwn
  <2>1. source[c] = LiveRequest(c)
    BY DEF UdpInv, AnswersAreLive
  <2> QED
    BY <2>1 DEF LiveRequest, Waits
<1> QED
  BY UdpInvInit, UdpInvStep, <1>1, PTL DEF UdpSpec

\* pending_requests holds those that wait and nobody else, also after a retry,
\* a timeout or a cancellation (_wait_for_response, its finally clause).
THEOREM PendingMatchesWaits == UdpSpec => []PendingIsWaited
<1>1. UdpInv => PendingIsWaited
  BY DEF UdpInv
<1> QED
  BY UdpInvInit, UdpInvStep, <1>1, PTL DEF UdpSpec

\* stop() reaches everyone that waits, whenever they sent their request.
THEOREM StopReachesAll == UdpSpec => []StopLeavesNoneWaiting
<1>1. UdpInv => StopLeavesNoneWaiting
  BY DEF UdpInv
<1> QED
  BY UdpInvInit, UdpInvStep, <1>1, PTL DEF UdpSpec

\* A call has ended when its coroutine is done, and nothing has been heard by a
\* future that is not resolved.
CallsInOrder ==
  /\ \A c \in Askers : ended[c] = "none" <=> step[c] # "done"
  /\ \A c \in Askers : ~Resolved(c) => source[c] = NoRequest

\* Only a call that has not ended goes on.
LEMMA AtWork == ASSUME NEW c \in Askers, AskerStep(c) PROVE step[c] # "done"
BY DEF AskerStep, BeginConnects, BeginAsks, BeginFails, FindSession, BackoffEnds, Connected,
       ConnectRefused, Answered, CancelEnds, TimesOut, Waits

LEMMA CallsInOrderStep ==
  ASSUME UdpInv, CallsInOrder, [UdpNext]_udpVars PROVE CallsInOrder'
<1> USE DEF CallsInOrder, Resolved
<1>0. UdpTypeOK
  BY DEF UdpInv
<1>1. ASSUME NEW c \in Askers, AskerStep(c) PROVE CallsInOrder'
  <2>1. CASE SendShape(c)
    BY <1>0, <1>1, <2>1, AtWork DEF SendShape, Sends, UdpTypeOK
  <2>2. CASE QuietShape(c)
    BY <1>0, <1>1, <2>2, AtWork DEF QuietShape, UdpTypeOK
  <2>3. QED
    BY <1>0, <1>1, <2>1, <2>2, AskerShapes
<1>2. ASSUME NEW r \in sent, NEW ok \in BOOLEAN, HandleResponse(r, ok) PROVE CallsInOrder'
  <2>1. UNCHANGED <<step, ended>>
    BY <1>2 DEF HandleResponse
  <2>2. PICK c \in Askers : /\ answer' = [answer EXCEPT ![c] = IF ok THEN "ok" ELSE "error"]
                            /\ source' = [source EXCEPT ![c] = r]
    BY <1>0, <1>2 DEF HandleResponse, UdpTypeOK, Requests
  <2>3. QED
    BY <1>0, <2>1, <2>2 DEF UdpTypeOK
<1>3. CASE UdpStopEnds
  BY <1>0, <1>3 DEF UdpStopEnds, UdpTypeOK
<1>4. CASE UNCHANGED <<step, ended, answer, source>>
  BY <1>4
<1>5. QED
  BY <1>1, <1>2, <1>3, <1>4
  DEF UdpNext, ClientStep, CleanSession, TimePasses, UdpStopBegins, udpVars

\* What a caller waits on is a request, not the sign that there is none.
LEMMA RequestsAreReal == ASSUME NEW c \in Askers PROVE LiveRequest(c) # NoRequest
BY DEF LiveRequest, NoRequest

\* A request that is sent is a new one, and its call waits on it.
LEMMA SendAsks ==
  ASSUME UdpInv, UdpTypeOK', CallsInOrder, NEW c \in Askers, SendShape(c), step[c] # "done", udp' = udp
  PROVE  Calls!Ask(c)
<1> DEFINE new == LiveRequest(c)'
<1>0. UdpTypeOK
  BY DEF UdpInv
<1>1. PICK kind \in {"connect", "ask"}, k \in 0 .. MaxTries : Sends(c, kind, k, Freed(c))
  BY DEF SendShape
<1>2. tid'[c] = counter' /\ \A r \in sent : r.tid # tid'[c]
  BY <1>0, <1>1 DEF Sends, GetTransactionId, UdpTypeOK
<1>3. /\ step'[c] = (IF kind = "connect" THEN "connecting" ELSE "asking")
      /\ try'[c] = k /\ answer'[c] = "open" /\ source'[c] = NoRequest
      /\ UNCHANGED ended
  BY <1>0, <1>1 DEF Sends, UdpTypeOK
<1>4. new = [by |-> c, kind |-> kind, try |-> k, tid |-> tid'[c]]
  BY <1>3 DEF LiveRequest
<1>5. sent' = sent \cup {new} /\ new \in Requests \ sent
  <2>1. sent' = sent \cup {new}
    BY <1>1, <1>4 DEF Sends
  <2>2. new \notin sent
    BY <1>2, <1>4
  <2>3. QED
    BY <2>1, <2>2 DEF UdpTypeOK
<1>6. \A d \in Askers \ {c} :
        /\ step'[d] = step[d] /\ try'[d] = try[d] /\ tid'[d] = tid[d]
        /\ answer'[d] = answer[d] /\ source'[d] = source[d]
  BY <1>0, <1>1 DEF Sends, GetTransactionId, UdpTypeOK
<1>7. \A d \in Askers \ {c} : /\ Waits(d)' <=> Waits(d)
                              /\ LiveRequest(d)' = LiveRequest(d)
                              /\ Resolved(d)' <=> Resolved(d)
  BY <1>6 DEF Waits, LiveRequest, Resolved
<1>8. Waits(c)' /\ ~Resolved(c)'
  BY <1>3 DEF Waits, Resolved
<1>9. PICK r \in Requests \ sent : r = new /\ sent' = sent \cup {r}
  BY <1>5
<1>10. Calls!WaitsOn(c, r)
  BY <1>3, <1>6, <1>7, <1>8, <1>9 DEF Calls!WaitsOn
<1>11. QED
  BY <1>3, <1>9, <1>10 DEF Calls!Ask, SendShape, CallsInOrder

\* A coroutine that stops waiting either rests or ends its call.
LEMMA QuietEnds ==
  ASSUME UdpInv, CallsInOrder, NEW c \in Askers, QuietShape(c), step[c] # "done", udp' = udp
  PROVE  Calls!Rest(c) \/ \E how \in {"answered", "failed", "cancelled"} : Calls!End(c, how)
<1>0. UdpTypeOK
  BY DEF UdpInv
<1>1. /\ ~Waits(c)'
      /\ UNCHANGED <<tid, answer, source, sent>>
      /\ \A d \in Askers \ {c} : step'[d] = step[d] /\ try'[d] = try[d]
  BY <1>0 DEF QuietShape, Waits, UdpTypeOK
<1>2. \A d \in Askers \ {c} : /\ Waits(d)' <=> Waits(d)
                              /\ LiveRequest(d)' = LiveRequest(d)
                              /\ Resolved(d)' <=> Resolved(d)
  BY <1>1 DEF Waits, LiveRequest, Resolved
<1>3. Calls!WaitsOn(c, NoRequest)
  BY <1>1, <1>2 DEF Calls!WaitsOn
<1>4. ended[c] = "none"
  BY DEF CallsInOrder
<1>5. CASE UNCHANGED ended
  BY <1>1, <1>3, <1>4, <1>5 DEF Calls!Rest
<1>6. ASSUME NEW how \in {"answered", "failed", "cancelled"}, ended' = [ended EXCEPT ![c] = how],
             how = "answered" => step[c] = "asking" /\ answer[c] = "ok"
      PROVE  Calls!End(c, how)
  <2>1. ASSUME how = "answered"
        PROVE  Waits(c) /\ Resolved(c) /\ answer[c] = "ok" /\ source[c] = LiveRequest(c)
               /\ LiveRequest(c) \in Requests /\ LiveRequest(c).kind = "ask"
    <3>1. Waits(c) /\ Resolved(c) /\ answer[c] = "ok" /\ step[c] = "asking"
      BY <1>6, <2>1 DEF Waits, Resolved
    <3>2. source[c] = LiveRequest(c) /\ LiveRequest(c) \in sent
      BY <3>1 DEF UdpInv, AnswersAreLive, WaitsAreSent
    <3>3. LiveRequest(c).kind = "ask"
      BY <3>1 DEF LiveRequest
    <3>4. QED
      BY <1>0, <3>1, <3>2, <3>3 DEF UdpTypeOK
  <2>2. QED
    BY <1>1, <1>3, <1>4, <1>6, <2>1 DEF Calls!End
<1>7. QED
  BY <1>5, <1>6 DEF QuietShape

\* The answer that handle_response delivers is to the request waited on.
LEMMA ResponseIsHeard ==
  ASSUME UdpInv, CallsInOrder, NEW r \in sent, NEW ok \in BOOLEAN, HandleResponse(r, ok)
  PROVE  \E c \in Askers : Calls!Hear(c)
<1>0. UdpTypeOK
  BY DEF UdpInv
<1>1. r \in Requests /\ r.tid \in Tids
  BY <1>0 DEF UdpTypeOK, Requests
<1>2. PICK c \in Askers : /\ c = pending[r.tid]
                          /\ Waits(c) /\ tid[c] = r.tid /\ answer[c] = "open"
  BY <1>0, <1>1 DEF HandleResponse, UdpInv, UdpTypeOK, PendingIsWaited
<1>3. LiveRequest(c) = r
  BY <1>2 DEF UdpInv, WaitsAreSent, IdsAreUnique, LiveRequest
<1>4. /\ answer' = [answer EXCEPT ![c] = IF ok THEN "ok" ELSE "error"]
      /\ source' = [source EXCEPT ![c] = r]
      /\ UNCHANGED <<udp, step, try, tid, ended, sent>>
      /\ udp = "up"
  BY <1>2 DEF HandleResponse
<1>5. source[c] = NoRequest /\ ~Resolved(c)
  BY <1>2 DEF CallsInOrder, Resolved
<1>6. \A d \in Askers : (Waits(d)' <=> Waits(d)) /\ LiveRequest(d)' = LiveRequest(d)
  BY <1>4 DEF Waits, LiveRequest
<1>7. \A d \in Askers \ {c} : /\ answer'[d] = answer[d] /\ source'[d] = source[d]
                              /\ Resolved(d)' <=> Resolved(d)
  BY <1>0, <1>4 DEF UdpTypeOK, Resolved
<1>8. /\ source'[c] = LiveRequest(c) /\ Resolved(c)'
      /\ answer'[c] = (IF ok THEN "ok" ELSE "error")
  BY <1>0, <1>2, <1>3, <1>4 DEF UdpTypeOK, Resolved
<1> DEFINE current == [d \in Askers |-> IF Waits(d) THEN LiveRequest(d) ELSE NoRequest]
           heard == [d \in Askers |-> IF Waits(d) THEN source[d] ELSE NoRequest]
           verdict == [d \in Askers |-> IF Waits(d) /\ Resolved(d) THEN answer[d] ELSE "none"]
<1>9. Calls!Hear(c)
  <2>1. current[c] # NoRequest /\ heard[c] = NoRequest
    BY <1>2, <1>5, RequestsAreReal
  <2>2. heard' = [heard EXCEPT ![c] = current[c]]
    BY <1>2, <1>6, <1>7, <1>8
  <2>3. verdict' = [verdict EXCEPT ![c] = IF ok THEN "ok" ELSE "error"]
    BY <1>2, <1>6, <1>7, <1>8
  <2>4. current' = current
    BY <1>6
  <2>5. (IF ok THEN "ok" ELSE "error") \in {"ok", "error"}
    OBVIOUS
  <2> HIDE DEF current, heard, verdict
  <2>6. \E x \in {"ok", "error"} : verdict' = [verdict EXCEPT ![c] = x]
    BY <2>3, <2>5
  <2>7. QED
    BY <1>4, <2>1, <2>2, <2>4, <2>6 DEF Calls!Hear, current, heard, verdict
<1>10. QED
  BY <1>2, <1>9

\* What leaves the requests and the waits alone, their callers do not see.
LEMMA ElsewhereStutters ==
  ASSUME UdpTypeOK, UNCHANGED <<step, try, tid, source, ended, sent>>,
         \A c \in Askers : (Resolved(c)' <=> Resolved(c)) /\ (Resolved(c) => answer'[c] = answer[c])
  PROVE  /\ UNCHANGED udp => UNCHANGED Calls!vars
         /\ <<udp, udp'>> \in {<<"up", "stopping">>, <<"stopping", "down">>} => Calls!Stop
<1>1. \A c \in Askers : (Waits(c)' <=> Waits(c)) /\ LiveRequest(c)' = LiveRequest(c)
  BY DEF Waits, LiveRequest
<1>2. QED
  BY <1>1 DEF Calls!vars, Calls!Stop

LEMMA CallsStep ==
  ASSUME UdpInv, UdpInv', CallsInOrder, [UdpNext]_udpVars PROVE [Calls!Next]_(Calls!vars)
<1>0. UdpTypeOK /\ UdpTypeOK'
  BY DEF UdpInv
<1>1. ASSUME NEW c \in Askers, AskerStep(c) PROVE Calls!Next
  BY <1>0, <1>1, AtWork, AskerShapes, SendAsks, QuietEnds DEF Calls!Next
<1>2. ASSUME NEW r \in sent, NEW ok \in BOOLEAN, HandleResponse(r, ok) PROVE Calls!Next
  BY <1>2, ResponseIsHeard DEF Calls!Next
<1>3. CASE (\E t \in Trackers : CleanSession(t)) \/ (\E s \in Askers : TimePasses(s)) \/ UNCHANGED udpVars
  BY <1>0, <1>3, ElsewhereStutters DEF CleanSession, TimePasses, udpVars, Resolved
<1>4. CASE UdpStopBegins
  BY <1>0, <1>4, ElsewhereStutters DEF UdpStopBegins, Resolved, Calls!Next
<1>5. CASE UdpStopEnds
  <2>1. \A c \in Askers : (Resolved(c)' <=> Resolved(c)) /\ (Resolved(c) => answer'[c] = answer[c])
    BY <1>0, <1>5 DEF UdpStopEnds, Resolved, UdpTypeOK
  <2>2. QED
    BY <1>0, <1>5, <2>1, ElsewhereStutters DEF UdpStopEnds, Calls!Next
<1>6. QED
  BY <1>1, <1>2, <1>3, <1>4, <1>5 DEF UdpNext, ClientStep

\* The client implements TrackerCalls: for any number of coroutines, trackers and
\* attempts, a call is answered by the answer to its own last request, once, and
\* nothing is delivered after stop() has begun.
THEOREM CallsImplemented == UdpSpec => ImplementsCalls
<1>1. UdpInit => Calls!Init /\ CallsInOrder
  BY DEF UdpInit, Calls!Init, CallsInOrder, Waits, Resolved
<1>2. UdpSpec => []UdpInv
  BY UdpInvInit, UdpInvStep, PTL DEF UdpSpec
<1>3. UdpSpec => []CallsInOrder
  BY <1>1, <1>2, CallsInOrderStep, PTL DEF UdpSpec
<1>4. QED
  BY <1>1, <1>2, <1>3, CallsStep, PTL DEF UdpSpec, ImplementsCalls, Calls!Spec

-----------------------------------------------------------------------------
(* The DHT client *)

\* A coroutine that announces holds a token of its hash.
TicketFits(r) == r.at = "announcing" => r.ticket = r.topic

\* While no id was drawn twice, what a coroutine waits for, and what it was
\* answered, is about its own topic.
OwnTopics ==
  clashes > 0 \/ \A c \in Runners :
    /\ Awaits(c) => \A q \in queries : q.tid = doing[c].tid => q.topic = doing[c].topic
    /\ \A a \in doing[c].answer : a.to.topic = doing[c].topic
    /\ TicketFits(doing[c])

DhtInv == DhtTypeOK /\ WaitsAreRegistered /\ OwnTopics /\ TokensFit

LEMMA DhtValues ==
  /\ 0 \in QueryIds /\ 0 \in 0 .. MaxTasks /\ 0 \in 0 .. MaxClashes
  /\ NoId \notin InfoHashes /\ NoId \notin NodeIds /\ InfoHashes \subseteq Topics /\ Drawn \subseteq Topics
  /\ OwnId \in Topics /\ Starter \in Runners /\ Refresher \in Runners /\ NoSeeker \notin Runners
  /\ \A c \in Seekers : c \in Runners /\ HashOf[c] \in InfoHashes
  /\ Hosts \in Nat /\ Rounds \in Nat
BY DhtAssumption DEF QueryIds, Topics, Runners

LEMMA RestingFrame ==
  /\ Resting \in Places /\ Resting \in Frames
  /\ Resting.at = "idle" /\ Resting.answer = {}
BY DhtValues DEF Resting, Places, Frames, Waiting

LEMMA RestFrames ==
  ASSUME NEW s \in {"idle", "done"}
  PROVE  /\ [Resting EXCEPT !.at = s] \in Frames
         /\ [Resting EXCEPT !.at = s].at = s /\ [Resting EXCEPT !.at = s].answer = {}
BY RestingFrame DEF Places, Frames, Waiting

LEMMA BootFrames ==
  ASSUME NEW n \in Nat, NEW s \in {"booting", "walking"}
  PROVE  /\ [Resting EXCEPT !.at = s, !.rounds = n] \in Frames
         /\ [Resting EXCEPT !.at = s, !.rounds = n].at = s
BY RestingFrame DEF Places, Frames, Waiting

LEMMA PeerFrames ==
  ASSUME NEW h \in InfoHashes, NEW s \in SUBSET NodeIds
  PROVE  /\ [Resting EXCEPT !.at = "peers", !.topic = h, !.todo = s] \in Frames
         /\ [Resting EXCEPT !.at = "peers", !.topic = h, !.todo = s].at = "peers"
         /\ [Resting EXCEPT !.at = "peers", !.inner = TRUE, !.topic = h, !.todo = s] \in Frames
         /\ [Resting EXCEPT !.at = "peers", !.inner = TRUE, !.topic = h, !.todo = s].at = "peers"
         /\ [Resting EXCEPT !.topic = h] \in Frames
         /\ [Resting EXCEPT !.topic = h].topic = h
BY RestingFrame, DhtValues DEF Places, Frames, Waiting

LEMMA DhtInvInit == DhtInit => DhtInv
<1> SUFFICES ASSUME DhtInit PROVE DhtInv
  OBVIOUS
<1>1. DhtTypeOK
  <2>1. routing \in Tables
    BY DhtAssumption DEF DhtInit, Tables
  <2>2. tokens \in TokenTables
    BY DEF DhtInit, TokenTables, NoToken
  <2> QED
    BY <2>1, <2>2, DhtValues, RestingFrame DEF DhtInit, DhtTypeOK
<1>2. \A c \in Runners : ~Awaits(c) /\ doing[c].answer = {} /\ doing[c].at = "idle"
  BY RestingFrame DEF DhtInit, Awaits, Waiting
<1>3. WaitsAreRegistered
  BY <1>2 DEF WaitsAreRegistered, DhtInit
<1>4. OwnTopics
  BY <1>2 DEF OwnTopics, TicketFits
<1>5. TokensFit
  BY DEF TokensFit, KeptTokensFit, DhtInit, NoToken
<1> QED
  BY <1>1, <1>3, <1>4, <1>5 DEF DhtInv

LEMMA ClosestAreKnown ==
  ASSUME NEW t \in Tables, NEW x, NEW s \in ClosestNodes(t, x)
  PROVE  s \in SUBSET NodeIds
BY DEF ClosestNodes, Tables

\* The tokens a step works with fit their hashes, unless an id was drawn twice.
Fit(k) == clashes > 0 \/ KeptTokensFit(k)
\* It sends a query for a sound frame, or the call ends.
SendsFor(c, r) ==
  /\ r \in Frames /\ r.at \in Waiting /\ (clashes > 0 \/ TicketFits(r))
  /\ \E n \in NodeIds \cup {NoId} : SendQuery(c, r, n)
GoesOn(c) == EndCall(c) \/ \E r \in Frames : SendsFor(c, r)

LEMMA AskNextGoesOn ==
  ASSUME NEW c \in Runners, NEW r \in Frames, r.at \in Waiting, clashes > 0 \/ TicketFits(r), AskNext(c, r)
  PROVE  GoesOn(c)
<1>1. r.todo \subseteq NodeIds
  BY DEF Frames, Places
<1> QED
  BY <1>1 DEF AskNext, GoesOn, SendsFor

LEMMA NextTargetGoesOn ==
  ASSUME NEW c \in Runners, NEW r \in Frames, r.at = "walking", NEW t \in Tables, NextTarget(c, r, t)
  PROVE  GoesOn(c)
<1>1. CASE EndCall(c)
  BY <1>1 DEF GoesOn
<1>2. CASE ~EndCall(c)
  <2>0. PICK x \in Drawn : \E s \in ClosestNodes(t, x) :
           AskNext(c, [r EXCEPT !.topic = x, !.todo = s, !.rounds = @ - 1]) /\ r.rounds # 0
    BY <1>2 DEF NextTarget
  <2>1. PICK s \in ClosestNodes(t, x) :
           AskNext(c, [r EXCEPT !.topic = x, !.todo = s, !.rounds = @ - 1]) /\ r.rounds # 0
    BY <2>0
  <2> DEFINE f == [r EXCEPT !.topic = x, !.todo = s, !.rounds = @ - 1]
  <2>2. s \in SUBSET NodeIds /\ x \in Topics /\ r.rounds - 1 \in Nat
    BY <2>1, ClosestAreKnown, DhtValues DEF Frames, Places
  <2>3. f \in Frames /\ f.at = "walking"
    BY <2>2 DEF Frames, Places
  <2> QED
    BY <2>1, <2>3, AskNextGoesOn DEF TicketFits, Waiting
<1> QED
  BY <1>1, <1>2

LEMMA NextHostGoesOn ==
  ASSUME NEW c \in Runners, NEW r \in Frames, r.at = "booting", NEW t \in Tables, NextHost(c, r, t)
  PROVE  GoesOn(c)
<1>1. CASE \E j \in 0 .. r.rounds - 1 : SendQuery(c, [r EXCEPT !.rounds = j], NoId)
  <2>1. PICK j \in 0 .. r.rounds - 1 : SendQuery(c, [r EXCEPT !.rounds = j], NoId)
    BY <1>1
  <2>2. [r EXCEPT !.rounds = j] \in Frames /\ [r EXCEPT !.rounds = j].at = "booting"
    BY DEF Frames, Places
  <2> QED
    BY <2>1, <2>2 DEF GoesOn, SendsFor, TicketFits, Waiting
<1>2. CASE EndCall(c)
  BY <1>2 DEF GoesOn
<1>3. CASE NextTarget(c, [r EXCEPT !.at = "walking", !.rounds = Rounds], t)
  <2>1. /\ [r EXCEPT !.at = "walking", !.rounds = Rounds] \in Frames
        /\ [r EXCEPT !.at = "walking", !.rounds = Rounds].at = "walking"
    BY DhtValues DEF Frames, Places, Waiting
  <2> QED
    BY <1>3, <2>1, NextTargetGoesOn
<1> QED
  BY <1>1, <1>2, <1>3 DEF NextHost

LEMMA AnnounceGoesOn ==
  ASSUME NEW c \in Runners, NEW r \in Frames, r.topic \in InfoHashes, NEW t \in Tables,
         NEW k \in TokenTables, Fit(k), Announce(c, r, t, k)
  PROVE  GoesOn(c) /\ tokens' \in TokenTables /\ Fit(tokens')
<1>1. CASE k[r.topic].of # NoId /\ ~k[r.topic].old
  <2>1. tokens' = k
    BY <1>1 DEF Announce
  <2>2. PICK s \in ClosestNodes(t, r.topic) :
          IF s = {} THEN EndCall(c)
          ELSE AskNext(c, [r EXCEPT !.at = "announcing", !.todo = s, !.ticket = k[r.topic].of])
    BY <1>1 DEF Announce
  <2> DEFINE f == [r EXCEPT !.at = "announcing", !.todo = s, !.ticket = k[r.topic].of]
  <2>3. k[r.topic].of \in InfoHashes
    BY <1>1 DEF TokenTables
  <2>4. f \in Frames /\ f.at = "announcing" /\ f.topic = r.topic /\ f.ticket = k[r.topic].of
    <3> DEFINE ticket == k[r.topic].of
    <3>1. s \in SUBSET NodeIds /\ ticket \in InfoHashes \cup {NoId}
      BY <2>3, ClosestAreKnown
    <3>2. "announcing" \in Waiting \cup {"idle", "done"}
      BY DEF Waiting
    <3>3. r \in Places
      BY DEF Frames
    <3> HIDE DEF ticket
    <3>4. /\ [r EXCEPT !.at = "announcing", !.todo = s, !.ticket = ticket] \in Places
          /\ [r EXCEPT !.at = "announcing", !.todo = s, !.ticket = ticket].at = "announcing"
          /\ [r EXCEPT !.at = "announcing", !.todo = s, !.ticket = ticket].topic = r.topic
          /\ [r EXCEPT !.at = "announcing", !.todo = s, !.ticket = ticket].ticket = ticket
      BY <3>1, <3>2, <3>3 DEF Places
    <3>5. QED
      BY <3>4 DEF Frames, ticket
  <2>5. clashes > 0 \/ TicketFits(f)
    BY <2>3, <2>4, DhtValues DEF Fit, KeptTokensFit, TicketFits
  <2>6. GoesOn(c)
    BY <2>2, <2>4, <2>5, AskNextGoesOn DEF GoesOn, Waiting
  <2> QED
    BY <2>1, <2>6
<1>2. CASE ~(k[r.topic].of # NoId /\ ~k[r.topic].old)
  <2>1. tokens' = [k EXCEPT ![r.topic] = NoToken] /\ EndCall(c)
    BY <1>2 DEF Announce
  <2>2. tokens' \in TokenTables
    BY <2>1 DEF TokenTables, NoToken
  <2>3. Fit(tokens')
    BY <2>1 DEF TokenTables, NoToken, Fit, KeptTokensFit
  <2> QED
    BY <2>1, <2>2, <2>3 DEF GoesOn
<1> QED
  BY <1>1, <1>2

LEMMA ProceedGoesOn ==
  ASSUME NEW c \in Runners, NEW r \in Frames, r.at \in Waiting, clashes > 0 \/ TicketFits(r),
         NEW t \in Tables, NEW k \in TokenTables, Fit(k), Proceed(c, r, t, k)
  PROVE  GoesOn(c) /\ tokens' \in TokenTables /\ Fit(tokens')
<1>1. CASE AskNext(c, r) /\ tokens' = k
  BY <1>1, AskNextGoesOn
<1>2. CASE r.at = "booting" /\ NextHost(c, r, t) /\ tokens' = k
  BY <1>2, NextHostGoesOn
<1>3. CASE r.at = "walking" /\ NextTarget(c, r, t) /\ tokens' = k
  BY <1>3, NextTargetGoesOn
<1>4. CASE r.at = "peers" /\ Announce(c, r, t, k)
  <2>1. r.topic \in InfoHashes
    BY <1>4 DEF Frames
  <2> QED
    BY <1>4, <2>1, AnnounceGoesOn
<1>5. CASE EndCall(c) /\ tokens' = k
  BY <1>5 DEF GoesOn
<1> QED
  BY <1>1, <1>2, <1>3, <1>4, <1>5 DEF Proceed

\* The new query is told from all that other coroutines wait for, unless an id is drawn twice.
LEMMA QueryStep ==
  ASSUME DhtInv, NEW c \in Runners, NEW r \in Frames, SendsFor(c, r),
         tokens' \in TokenTables, Fit(tokens'), routing' \in Tables, wakes' \in 0 .. MaxTasks
  PROVE  DhtInv'
<1> DEFINE send(i, n) ==
      /\ awaited' = [Released(c) EXCEPT ![i] = c]
      /\ IF i \in InUse(c) THEN clashes < MaxClashes /\ clashes' = clashes + 1 ELSE UNCHANGED clashes
      /\ queries' = IF dht = "closed" THEN queries
                    ELSE queries \cup {[tid |-> i, kind |-> KindOf(r), topic |-> r.topic, ticket |-> r.ticket]}
      /\ doing' = [doing EXCEPT ![c] = [r EXCEPT !.node = n, !.tid = i, !.answer = {}, !.todo = @ \ {n}]]
      /\ dht' = IF c = Starter THEN "starting" ELSE dht
<1>1. PICK n \in NodeIds \cup {NoId} : SendQuery(c, r, n)
  BY DEF SendsFor
<1>2. PICK i \in DrawId(c) : send(i, n)
  BY <1>1 DEF SendQuery
<1> HIDE DEF send
<1> DEFINE f == [r EXCEPT !.node = n, !.tid = i, !.answer = {}, !.todo = @ \ {n}]
           q == [tid |-> i, kind |-> KindOf(r), topic |-> r.topic, ticket |-> r.ticket]
<1>3. i \in QueryIds
  BY DEF DrawId
<1>4. /\ f \in Frames /\ f.at = r.at /\ f.topic = r.topic /\ f.ticket = r.ticket
      /\ f.tid = i /\ f.answer = {} /\ r.at \in Waiting
  BY <1>3 DEF Frames, Places, SendsFor
<1>5. q \in Queries /\ q.tid = i /\ q.topic = r.topic /\ q.ticket = r.ticket /\ q.kind = KindOf(r)
  <2>1. /\ KindOf(r) \in {"find", "peers", "announce"} /\ r.topic \in Topics /\ r.ticket \in InfoHashes \cup {NoId}
        /\ KindOf(r) = "find" \/ r.topic \in InfoHashes
    BY <1>4 DEF KindOf, Frames, Places, Waiting
  <2> QED
    BY <1>3, <2>1 DEF Queries
<1>6. /\ doing' = [doing EXCEPT ![c] = f] /\ awaited' = [Released(c) EXCEPT ![i] = c]
      /\ queries' \in {queries, queries \cup {q}}
      /\ (i \in InUse(c) /\ clashes < MaxClashes /\ clashes' = clashes + 1) \/ (i \notin InUse(c) /\ clashes' = clashes)
      /\ dht' = IF c = Starter THEN "starting" ELSE dht
  BY <1>2 DEF send
<1>7. /\ doing \in [Runners -> Frames] /\ awaited \in [QueryIds -> Runners \cup {NoSeeker}]
      /\ clashes \in 0 .. MaxClashes /\ MaxClashes \in Nat /\ queries \subseteq Queries
  BY DhtAssumption DEF DhtInv, DhtTypeOK
<1>8. \A j \in QueryIds : Released(c)[j] = IF Awaits(c) /\ j = doing[c].tid THEN NoSeeker ELSE awaited[j]
  BY <1>7 DEF Released, Frames, Places
<1>9. Released(c) \in [QueryIds -> Runners \cup {NoSeeker}]
  BY <1>7 DEF Released
<1>10. /\ doing'[c] = f /\ \A d \in Runners \ {c} : doing'[d] = doing[d] /\ (Awaits(d))' = Awaits(d)
       /\ (Awaits(c))'
  BY <1>4, <1>6, <1>7 DEF Awaits
<1>11. awaited'[i] = c /\ \A j \in QueryIds \ {i} : awaited'[j] = Released(c)[j]
  BY <1>3, <1>6, <1>9
<1>12. clashes' > 0 \/ (clashes = 0 /\ clashes' = 0 /\ i \notin InUse(c))
  BY <1>6, <1>7
<1>13. ASSUME clashes = 0, i \notin InUse(c)
       PROVE  /\ \A d \in Runners \ {c} : Awaits(d) => awaited[doing[d].tid] = d /\ doing[d].tid # i
              /\ \A p \in queries : p.tid # i
  BY <1>3, <1>7, <1>8, <1>13, DhtValues DEF InUse, DhtInv, WaitsAreRegistered, Frames, Places
<1>14. DhtTypeOK'
  <2>1. doing' \in [Runners -> Frames] /\ awaited' \in [QueryIds -> Runners \cup {NoSeeker}]
    BY <1>3, <1>4, <1>6, <1>7, <1>9
  <2>2. clashes' \in 0 .. MaxClashes /\ queries' \subseteq Queries
    BY <1>5, <1>6, <1>7
  <2>3. dht' \in {"new", "starting", "on", "stopping", "closed"}
    BY <1>6 DEF DhtInv, DhtTypeOK
  <2> QED
    BY <2>1, <2>2, <2>3 DEF DhtTypeOK
<1>15. WaitsAreRegistered'
  <2>1. ASSUME NEW j \in QueryIds, awaited'[j] # NoSeeker
        PROVE  doing'[awaited'[j]].at \in Waiting /\ doing'[awaited'[j]].tid = j
    <3>1. CASE j = i
      BY <1>4, <1>10, <1>11, <3>1 DEF Awaits
    <3>2. CASE j # i
      <4>1. awaited'[j] = awaited[j] /\ awaited[j] \in Runners /\ ~(Awaits(c) /\ j = doing[c].tid)
        BY <1>7, <1>8, <1>11, <2>1, <3>2
      <4>2. Awaits(awaited[j]) /\ doing[awaited[j]].tid = j
        BY <2>1, <4>1 DEF DhtInv, WaitsAreRegistered
      <4>3. awaited[j] # c
        BY <4>1, <4>2
      <4> QED
        BY <1>10, <4>1, <4>2, <4>3 DEF Awaits
    <3> QED
      BY <3>1, <3>2
  <2>2. ASSUME NEW d \in Runners, (Awaits(d))', clashes' = 0
        PROVE  awaited'[doing'[d].tid] = d
    <3>1. CASE d = c
      BY <1>4, <1>10, <1>11, <3>1
    <3>2. CASE d # c
      <4>1. Awaits(d) /\ doing'[d] = doing[d] /\ doing[d].tid \in QueryIds
        BY <1>7, <1>10, <2>2, <3>2 DEF Frames, Places
      <4>2. awaited[doing[d].tid] = d /\ doing[d].tid # i
        BY <1>12, <1>13, <2>2, <3>2, <4>1
      <4>3. ~(Awaits(c) /\ doing[d].tid = doing[c].tid)
        BY <1>12, <2>2, <3>2, <4>2 DEF DhtInv, WaitsAreRegistered
      <4> QED
        BY <1>8, <1>11, <4>1, <4>2, <4>3
    <3> QED
      BY <3>1, <3>2
  <2> QED
    BY <1>14, <2>1, <2>2 DEF WaitsAreRegistered, DhtTypeOK, Awaits
<1>16. OwnTopics'
  <2> SUFFICES ASSUME clashes = 0, clashes' = 0, i \notin InUse(c), NEW d \in Runners
               PROVE  /\ (Awaits(d))' => \A p \in queries' : p.tid = doing'[d].tid => p.topic = doing'[d].topic
                      /\ \A a \in doing'[d].answer : a.to.topic = doing'[d].topic
                      /\ TicketFits(doing'[d])
    BY <1>12 DEF OwnTopics
  <2>1. CASE d = c
    <3>1. TicketFits(f)
      BY <1>4 DEF SendsFor, TicketFits
    <3>2. \A p \in queries' : p.tid = i => p.topic = r.topic
      BY <1>5, <1>6, <1>13
    <3> QED
      BY <1>4, <1>10, <2>1, <3>1, <3>2
  <2>2. CASE d # c
    <3>1. Awaits(d) => \A p \in queries' : p.tid = doing[d].tid => p.topic = doing[d].topic
      BY <1>5, <1>6, <1>13, <2>2 DEF DhtInv, OwnTopics
    <3> QED
      BY <1>10, <2>2, <3>1 DEF DhtInv, OwnTopics
  <2> QED
    BY <2>1, <2>2
<1>17. TokensFit'
  <2> SUFFICES ASSUME clashes = 0, clashes' = 0, NEW p \in queries', p.kind = "announce" PROVE p.ticket = p.topic
    BY <1>12 DEF TokensFit, Fit
  <2>1. CASE p = q
    BY <1>4, <1>5, <2>1 DEF KindOf, Waiting, SendsFor, TicketFits
  <2> QED
    BY <1>6, <2>1 DEF DhtInv, TokensFit
<1> QED
  BY <1>14, <1>15, <1>16, <1>17 DEF DhtInv

LEMMA EndStep ==
  ASSUME DhtInv, NEW c \in Runners, EndCall(c),
         tokens' \in TokenTables, Fit(tokens'), routing' \in Tables, wakes' \in 0 .. MaxTasks
  PROVE  DhtInv'
<1> DEFINE f == [Resting EXCEPT !.at = IF c = Refresher THEN "idle" ELSE "done"]
<1>1. f \in Frames /\ f.at \in {"idle", "done"} /\ f.answer = {}
  BY RestFrames
<1>2. /\ doing' = [doing EXCEPT ![c] = f] /\ awaited' = Released(c) /\ queries' = queries /\ clashes' = clashes
      /\ dht' = IF c = Starter THEN "on" ELSE dht
  BY DEF EndCall
<1> HIDE DEF f
<1>3. doing \in [Runners -> Frames] /\ awaited \in [QueryIds -> Runners \cup {NoSeeker}]
  BY DEF DhtInv, DhtTypeOK
<1>4. \A j \in QueryIds : awaited'[j] = IF Awaits(c) /\ j = doing[c].tid THEN NoSeeker ELSE awaited[j]
  BY <1>2, <1>3 DEF Released, Frames, Places
<1>5. /\ doing'[c] = f /\ \A d \in Runners \ {c} : doing'[d] = doing[d] /\ (Awaits(d))' = Awaits(d)
      /\ ~(Awaits(c))'
  BY <1>1, <1>2, <1>3 DEF Awaits, Waiting
<1>6. DhtTypeOK'
  <2>1. doing' \in [Runners -> Frames] /\ awaited' \in [QueryIds -> Runners \cup {NoSeeker}]
    BY <1>1, <1>2, <1>3 DEF Released
  <2> QED
    BY <1>2, <2>1 DEF DhtInv, DhtTypeOK
<1>7. WaitsAreRegistered'
  <2>1. ASSUME NEW j \in QueryIds, awaited'[j] # NoSeeker
        PROVE  doing'[awaited'[j]].at \in Waiting /\ doing'[awaited'[j]].tid = j
    BY <1>3, <1>4, <1>5, <2>1 DEF DhtInv, WaitsAreRegistered, Awaits
  <2>2. ASSUME NEW d \in Runners, (Awaits(d))', clashes' = 0
        PROVE  awaited'[doing'[d].tid] = d
    BY <1>2, <1>3, <1>4, <1>5, <2>2 DEF DhtInv, WaitsAreRegistered, Frames, Places
  <2> QED
    BY <1>2, <1>6, <2>1, <2>2 DEF WaitsAreRegistered, DhtTypeOK, Awaits
<1>8. OwnTopics'
  BY <1>1, <1>2, <1>5 DEF DhtInv, OwnTopics, TicketFits
<1>9. TokensFit'
  BY <1>2 DEF DhtInv, TokensFit, Fit
<1> QED
  BY <1>6, <1>7, <1>8, <1>9 DEF DhtInv

LEMMA GoesOnStep ==
  ASSUME DhtInv, NEW c \in Runners, GoesOn(c),
         tokens' \in TokenTables, Fit(tokens'), routing' \in Tables, wakes' \in 0 .. MaxTasks
  PROVE  DhtInv'
BY QueryStep, EndStep DEF GoesOn

\* What holds of the table: places are for known nodes, no bucket is over-full.
Holds(t) == t.placed \subseteq t.known /\ \A n \in NodeIds : Cardinality(Bucket(t, n)) <= K

LEMMA BucketsAreFinite ==
  ASSUME NEW t \in Tables, NEW n \in NodeIds
  PROVE  IsFiniteSet(Bucket(t, n)) /\ Cardinality(Bucket(t, n)) \in Nat
<1>1. Bucket(t, n) \subseteq NodeIds /\ IsFiniteSet(NodeIds)
  BY DhtAssumption DEF Bucket, Tables
<1> QED
  BY <1>1, FS_Subset, FS_CardinalityType

\* A new node in bucket b0, in a free place or that of a node moved out.
LEMMA NewNodeFits ==
  ASSUME NEW t \in Tables, Holds(t), NEW n \in NodeIds, n \notin t.known, NEW out \in FreePlaces(t, n),
         NEW u \in Tables, u.placed = (t.placed \ out) \cup {n}, NEW m \in NodeIds
  PROVE  Cardinality(Bucket(u, m)) <= K
<1> DEFINE old == Bucket(t, m)
<1>1. IsFiniteSet(old) /\ Cardinality(old) \in Nat /\ Cardinality(old) <= K /\ K \in Nat
  BY BucketsAreFinite, DhtAssumption DEF Holds
<1>2. CASE BucketIndex(m) # BucketIndex(n)
  <2>1. Bucket(u, m) \subseteq old
    BY <1>2 DEF Bucket
  <2>2. Cardinality(Bucket(u, m)) <= Cardinality(old)
    BY <1>1, <2>1, FS_Subset
  <2> QED
    BY <1>1, <2>2, BucketsAreFinite
<1>3. CASE BucketIndex(m) = BucketIndex(n)
  <2>1. Bucket(u, m) = (old \ out) \cup {n} /\ old = Bucket(t, n) /\ n \notin old
    BY <1>3 DEF Bucket, Holds
  <2>2. CASE Cardinality(old) < K
    <3>1. out = {}
      BY <2>1, <2>2 DEF FreePlaces
    <3>2. Cardinality(old \cup {n}) = Cardinality(old) + 1
      BY <1>1, <2>1, FS_AddElement
    <3> QED
      BY <1>1, <2>1, <2>2, <3>1, <3>2
  <2>3. CASE Cardinality(old) >= K
    <3>1. PICK b \in old : out = {b}
      BY <1>1, <2>1, <2>3 DEF FreePlaces
    <3>2. IsFiniteSet(old \ {b}) /\ Cardinality(old \ {b}) = Cardinality(old) - 1
      BY <1>1, FS_RemoveElement
    <3>3. Cardinality((old \ {b}) \cup {n}) = Cardinality(old \ {b}) + 1
      BY <2>1, <3>2, FS_AddElement
    <3> QED
      BY <1>1, <2>1, <3>1, <3>2, <3>3
  <2> QED
    BY <1>1, <2>2, <2>3
<1> QED
  BY <1>2, <1>3

LEMMA AddStep ==
  ASSUME NEW t \in Tables, NEW n, NEW u \in AddNode(t, n)
  PROVE  /\ u \in Tables
         /\ Holds(t) => Holds(u)
         /\ t.placed \cap t.good \subseteq u.placed
<1>1. CASE u = t
  BY <1>1
<1>2. CASE IsOther(n) /\ u = [t EXCEPT !.good = @ \cup {n}]
  <2>1. u \in Tables /\ u.placed = t.placed /\ u.known = t.known
    BY <1>2 DEF Tables, IsOther
  <2> QED
    BY <2>1 DEF Holds, Bucket
<1>3. CASE IsOther(n) /\ n \notin t.known
           /\ \E out \in FreePlaces(t, n) :
                u = [known |-> t.known \cup {n}, placed |-> (t.placed \ out) \cup {n},
                     good |-> t.good \cup {n}, failed |-> [t.failed EXCEPT ![n] = 0]]
  <2>1. PICK out \in FreePlaces(t, n) :
                u = [known |-> t.known \cup {n}, placed |-> (t.placed \ out) \cup {n},
                     good |-> t.good \cup {n}, failed |-> [t.failed EXCEPT ![n] = 0]]
    BY <1>3
  <2>2. n \in NodeIds
    BY <1>3 DEF IsOther
  <2>3. u \in Tables
    BY <2>1, <2>2, DhtAssumption DEF Tables
  <2>4. t.placed \cap t.good \subseteq u.placed
    BY <2>1 DEF FreePlaces
  <2>5. Holds(t) => Holds(u)
    <3>1. u.placed = (t.placed \ out) \cup {n} /\ u.known = t.known \cup {n}
      BY <2>1
    <3> QED
      BY <1>3, <2>2, <2>3, <3>1, NewNodeFits DEF Holds
  <2> QED
    BY <2>3, <2>4, <2>5
<1> QED
  BY <1>1, <1>2, <1>3 DEF AddNode

LEMMA MarkStep ==
  ASSUME NEW t \in Tables, NEW n, NEW u \in {MarkGood(t, n), MarkBad(t, n)}
  PROVE  u \in Tables /\ u.placed = t.placed /\ u.known = t.known
<1>1. CASE n \notin t.known
  BY <1>1 DEF MarkGood, MarkBad
<1>2. CASE n \in t.known /\ u = [t EXCEPT !.good = @ \cup {n}]
  BY <1>2 DEF Tables
<1>3. CASE n \in t.known /\ u = [t EXCEPT !.good = @ \ {n}, !.failed[n] = IF @ < BadAfter THEN @ + 1 ELSE @]
  <2>1. t.failed[n] \in 0 .. BadAfter /\ BadAfter \in Nat
    BY <1>3, DhtAssumption DEF Tables
  <2> DEFINE more == IF t.failed[n] < BadAfter THEN t.failed[n] + 1 ELSE t.failed[n]
  <2>2. more \in 0 .. BadAfter /\ n \in NodeIds
    BY <1>3, <2>1 DEF Tables
  <2>3. t.failed \in [NodeIds -> 0 .. BadAfter]
    BY DEF Tables
  <2>4. [t.failed EXCEPT ![n] = more] \in [NodeIds -> 0 .. BadAfter]
    BY <2>2, <2>3
  <2> QED
    BY <1>3, <2>4 DEF Tables
<1> QED
  BY <1>1, <1>2, <1>3 DEF MarkGood, MarkBad

\* How a step may change the table.
Moves(t, u) ==
  /\ u \in Tables
  /\ Holds(t) => Holds(u)
  /\ t.placed \cap t.good \subseteq u.placed

LEMMA MarkMoves ==
  ASSUME NEW t \in Tables, NEW n, NEW u \in {MarkGood(t, n), MarkBad(t, n)}
  PROVE  Moves(t, u)
<1>1. u \in Tables /\ u.placed = t.placed /\ u.known = t.known
  BY MarkStep
<1> QED
  BY <1>1 DEF Moves, Holds, Bucket

LEMMA SeekerMoves ==
  ASSUME DhtTypeOK, NEW c \in Runners, TakesAnswer(c) \/ TimesOutAsking(c)
  PROVE  Moves(routing, routing')
<1>1. routing \in Tables
  BY DEF DhtTypeOK
<1>2. Moves(routing, routing)
  BY <1>1 DEF Moves
<1>3. CASE TimesOutAsking(c)
  <2>1. routing' = routing \/ routing' = MarkBad(routing, doing[c].node)
    BY <1>3 DEF TimesOutAsking
  <2> QED
    BY <1>1, <1>2, <2>1, MarkMoves
<1>4. CASE TakesAnswer(c)
  <2>1. PICK a \in doing[c].answer :
          LET heard == IF a.says.sound THEN AddNode(routing, a.says.lists) ELSE {routing}
          IN  \/ routing' \in heard
              \/ \E t \in heard : routing' \in {MarkGood(t, doing[c].node), MarkBad(t, doing[c].node)}
              \/ routing' = MarkGood(routing, doing[c].node)
    BY <1>4 DEF TakesAnswer
  <2> DEFINE heard == IF a.says.sound THEN AddNode(routing, a.says.lists) ELSE {routing}
  <2>2. \A t \in heard : Moves(routing, t)
    BY <1>1, <1>2, AddStep DEF Moves
  <2>3. CASE \E t \in heard : routing' \in {MarkGood(t, doing[c].node), MarkBad(t, doing[c].node)}
    <3>1. PICK t \in heard : routing' \in {MarkGood(t, doing[c].node), MarkBad(t, doing[c].node)}
      BY <2>3
    <3>2. t \in Tables /\ Moves(routing, t)
      BY <2>2 DEF Moves
    <3>3. routing'.placed = t.placed /\ Moves(t, routing')
      BY <3>1, <3>2, MarkStep, MarkMoves
    <3> QED
      BY <3>2, <3>3 DEF Moves
  <2>4. CASE routing' = MarkGood(routing, doing[c].node)
    BY <1>1, <2>4, MarkMoves
  <2> QED
    BY <2>1, <2>2, <2>3, <2>4
<1> QED
  BY <1>3, <1>4

LEMMA CleanUpMoves == ASSUME DhtTypeOK, CleanUpDht PROVE Moves(routing, routing')
<1> DEFINE gone == {n \in routing.known \ routing.good : routing.failed[n] = BadAfter}
<1>1. routing \in Tables /\ routing' = [routing EXCEPT !.known = @ \ gone, !.placed = @ \ gone]
  BY DEF DhtTypeOK, CleanUpDht
<1>2. /\ routing' \in Tables /\ routing'.known = routing.known \ gone /\ routing'.placed = routing.placed \ gone
      /\ gone \cap routing.good = {}
  BY <1>1 DEF Tables
<1>3. ASSUME Holds(routing) PROVE Holds(routing')
  <2>1. ASSUME NEW n \in NodeIds PROVE Cardinality(Bucket(routing', n)) <= K
    <3>1. Bucket(routing', n) \subseteq Bucket(routing, n)
      BY <1>2 DEF Bucket
    <3>2. Cardinality(Bucket(routing', n)) <= Cardinality(Bucket(routing, n))
      BY <1>1, <3>1, BucketsAreFinite, FS_Subset
    <3> QED
      BY <1>1, <1>2, <1>3, <3>2, BucketsAreFinite, DhtAssumption DEF Holds
  <2> QED
    BY <1>2, <1>3, <2>1 DEF Holds
<1> QED
  BY <1>2, <1>3 DEF Moves

-----------------------------------------------------------------------------
\* What the tokens and the frames of a sound state give to its next step.
LEMMA FramesAreFit ==
  ASSUME DhtInv, NEW c \in Runners
  PROVE  /\ Fit(tokens) /\ tokens \in TokenTables /\ routing \in Tables /\ wakes \in 0 .. MaxTasks
         /\ doing[c] \in Frames /\ (clashes > 0 \/ TicketFits(doing[c]))
BY DEF DhtInv, DhtTypeOK, TokensFit, OwnTopics, Fit

LEMMA CallsKeep ==
  ASSUME DhtInv, NEW c \in Seekers, GetPeers(c) \/ AnnouncePeer(c)
  PROVE  DhtInv'
<1> DEFINE h == HashOf[c]
<1>1. /\ h \in InfoHashes /\ c \in Runners
      /\ Fit(tokens) /\ tokens \in TokenTables /\ routing \in Tables /\ wakes \in 0 .. MaxTasks
  BY DhtValues, FramesAreFit
<1>2. /\ GoesOn(c) /\ tokens' \in TokenTables /\ Fit(tokens')
  <2>1. CASE GetPeers(c)
    <3>1. PICK s \in ClosestNodes(routing, h) :
            Proceed(c, [Resting EXCEPT !.at = "peers", !.topic = h, !.todo = s], routing, tokens)
      BY <2>1 DEF GetPeers
    <3>2. s \in SUBSET NodeIds
      BY <1>1, ClosestAreKnown
    <3>3. [Resting EXCEPT !.at = "peers", !.topic = h, !.todo = s].at \in Waiting
      BY <1>1, <3>2, PeerFrames DEF Waiting
    <3> QED
      BY <1>1, <3>1, <3>2, <3>3, PeerFrames, ProceedGoesOn DEF TicketFits
  <2>2. CASE AnnouncePeer(c) /\ tokens[h].of # NoId
    <3>1. Announce(c, [Resting EXCEPT !.topic = h], routing, tokens)
      BY <2>2 DEF AnnouncePeer
    <3> QED
      BY <1>1, <3>1, PeerFrames, AnnounceGoesOn
  <2>3. CASE AnnouncePeer(c) /\ tokens[h].of = NoId
    <3>1. PICK s \in ClosestNodes(routing, h) :
            Proceed(c, [Resting EXCEPT !.at = "peers", !.inner = TRUE, !.topic = h, !.todo = s], routing, tokens)
      BY <2>3 DEF AnnouncePeer
    <3>2. s \in SUBSET NodeIds
      BY <1>1, ClosestAreKnown
    <3>3. [Resting EXCEPT !.at = "peers", !.inner = TRUE, !.topic = h, !.todo = s].at \in Waiting
      BY <1>1, <3>2, PeerFrames DEF Waiting
    <3> QED
      BY <1>1, <3>1, <3>2, <3>3, PeerFrames, ProceedGoesOn DEF TicketFits
  <2> QED
    BY <2>1, <2>2, <2>3
<1>3. routing' = routing /\ wakes' = wakes
  BY DEF GetPeers, AnnouncePeer
<1> QED
  BY <1>1, <1>2, <1>3, GoesOnStep

LEMMA StartKeeps == ASSUME DhtInv, Start PROVE DhtInv'
<1>1. /\ Starter \in Runners /\ Hosts \in Nat
      /\ Fit(tokens) /\ tokens \in TokenTables /\ routing \in Tables /\ wakes \in 0 .. MaxTasks
  BY DhtValues, FramesAreFit
<1>2. NextHost(Starter, [Resting EXCEPT !.at = "booting", !.rounds = Hosts], routing)
  BY DEF Start
<1>3. GoesOn(Starter)
  BY <1>1, <1>2, BootFrames, NextHostGoesOn
<1>4. routing' = routing /\ wakes' = wakes /\ tokens' = tokens
  BY DEF Start
<1> QED
  BY <1>1, <1>3, <1>4, GoesOnStep

LEMMA RefreshKeeps == ASSUME DhtInv, Refresh PROVE DhtInv'
<1>1. /\ Refresher \in Runners /\ Rounds \in Nat
      /\ Fit(tokens) /\ tokens \in TokenTables /\ routing \in Tables /\ wakes \in 0 .. MaxTasks
  BY DhtValues, FramesAreFit
<1>2. NextTarget(Refresher, [Resting EXCEPT !.at = "walking", !.rounds = Rounds], routing)
  BY DEF Refresh
<1>3. GoesOn(Refresher)
  BY <1>1, <1>2, BootFrames, NextTargetGoesOn
<1>4. routing' = routing /\ tokens' = tokens
  BY DEF Refresh
<1>5. wakes' \in 0 .. MaxTasks
  <2>1. Cardinality({c \in Seekers : doing[c].at # "idle"}) + wakes < MaxTasks /\ wakes' = wakes + 1
    BY DEF Refresh, MayBegin
  <2>2. Cardinality({c \in Seekers : doing[c].at # "idle"}) \in Nat
    BY FS_Subset, FS_CardinalityType, DhtAssumption
  <2> QED
    BY <1>1, <2>1, <2>2, DhtAssumption
<1> QED
  BY <1>1, <1>3, <1>4, <1>5, GoesOnStep

LEMMA SeekerKeeps == ASSUME DhtInv, NEW c \in Runners, SeekerStep(c) PROVE DhtInv'
<1>1. /\ Fit(tokens) /\ tokens \in TokenTables /\ routing \in Tables /\ wakes \in 0 .. MaxTasks
      /\ doing[c] \in Frames /\ (clashes > 0 \/ TicketFits(doing[c])) /\ wakes' = wakes
  BY FramesAreFit DEF SeekerStep
<1>2. routing' \in Tables
  BY SeekerMoves DEF SeekerStep, DhtInv, Moves
<1>3. GoesOn(c) /\ tokens' \in TokenTables /\ Fit(tokens')
  <2>1. CASE TimesOutAsking(c)
    <3>1. Proceed(c, doing[c], routing', tokens) /\ doing[c].at \in Waiting
      BY <2>1 DEF TimesOutAsking, Awaits
    <3> QED
      BY <1>1, <1>2, <3>1, ProceedGoesOn
  <2>2. CASE TakesAnswer(c)
    <3>1. PICK a \in doing[c].answer : \E k \in {tokens, [tokens EXCEPT ![doing[c].topic] = [of |-> a.to.topic, old |-> FALSE]]} :
            /\ doing[c].at \in Waiting /\ Proceed(c, doing[c], routing', k)
            /\ k # tokens => a.says.token /\ doing[c].at = "peers"
      BY <2>2 DEF TakesAnswer, Waiting
    <3>2. PICK k \in {tokens, [tokens EXCEPT ![doing[c].topic] = [of |-> a.to.topic, old |-> FALSE]]} :
            /\ doing[c].at \in Waiting /\ Proceed(c, doing[c], routing', k)
            /\ k # tokens => a.says.token /\ doing[c].at = "peers"
      BY <3>1
    <3>3. k \in TokenTables /\ Fit(k)
      <4>1. CASE k = tokens
        BY <1>1, <4>1
      <4>2. CASE k # tokens
        <5>1. a \in Answers /\ doing[c].topic \in InfoHashes
          BY <1>1, <3>2, <4>2 DEF Frames, Places
        <5>2. a.to.topic \in InfoHashes
          BY <3>2, <4>2, <5>1 DEF Answers, Queries
        <5>3. clashes > 0 \/ a.to.topic = doing[c].topic
          BY DEF DhtInv, OwnTopics
        <5>4. k = [tokens EXCEPT ![doing[c].topic] = [of |-> a.to.topic, old |-> FALSE]]
          BY <3>2, <4>2
        <5> QED
          BY <1>1, <5>1, <5>2, <5>3, <5>4 DEF TokenTables, Fit, KeptTokensFit
      <4> QED
        BY <4>1, <4>2
    <3> QED
      BY <1>1, <1>2, <3>2, <3>3, ProceedGoesOn
  <2> QED
    BY <2>1, <2>2 DEF SeekerStep
<1> QED
  BY <1>1, <1>2, <1>3, GoesOnStep

LEMMA CancelsKeep ==
  ASSUME DhtInv, (\E c \in Runners : CancelSeeker(c)) \/ RefreshCancelled
  PROVE  DhtInv'
<1>1. PICK c \in Runners : EndCall(c) /\ routing' = routing /\ tokens' = tokens /\ wakes' = wakes
  BY DhtValues DEF CancelSeeker, RefreshCancelled
<1> QED
  BY <1>1, FramesAreFit, EndStep

LEMMA AnswerKeeps ==
  ASSUME DhtInv, NEW q \in queries, NEW says \in Says, HandleDhtResponse(q, says)
  PROVE  DhtInv'
<1> DEFINE c == awaited[q.tid]
           heard == [to |-> q, says |-> [says EXCEPT !.token = @ /\ q.kind = "peers"]]
<1>1. q \in Queries /\ q.tid \in QueryIds /\ says \in Contents
  BY DhtAssumption DEF DhtInv, DhtTypeOK, Queries
<1>2. c \in Runners /\ doing \in [Runners -> Frames]
  BY <1>1 DEF HandleDhtResponse, WaiterFor, DhtInv, DhtTypeOK
<1>3. heard \in Answers /\ heard.to = q
  BY <1>1 DEF Answers, Contents
<1>4. doing' = [doing EXCEPT ![c].answer = {heard}]
  BY DEF HandleDhtResponse, WaiterFor
<1>5. UNCHANGED <<dht, routing, tokens, awaited, queries, clashes, wakes>>
  BY DEF HandleDhtResponse
<1>6. [doing[c] EXCEPT !.answer = {heard}] \in Frames
  BY <1>2, <1>3 DEF Frames, Places
<1>7. Awaits(c) /\ doing[c].tid = q.tid
  BY <1>1, <1>2, DhtValues DEF DhtInv, WaitsAreRegistered
<1> HIDE DEF heard, c
<1>8. \A d \in Runners :
        /\ doing'[d].at = doing[d].at /\ doing'[d].tid = doing[d].tid /\ doing'[d].topic = doing[d].topic
        /\ doing'[d].ticket = doing[d].ticket /\ (d # c => doing'[d].answer = doing[d].answer)
        /\ doing'[c].answer = {heard}
  BY <1>2, <1>4 DEF Frames, Places
<1>9. DhtTypeOK'
  BY <1>2, <1>4, <1>5, <1>6 DEF DhtInv, DhtTypeOK
<1>10. WaitsAreRegistered'
  BY <1>5, <1>8, <1>9 DEF DhtInv, DhtTypeOK, WaitsAreRegistered, Awaits
<1>11. OwnTopics'
  BY <1>2, <1>3, <1>5, <1>7, <1>8 DEF DhtInv, OwnTopics, Awaits, TicketFits
<1>12. TokensFit'
  BY <1>5 DEF DhtInv, TokensFit, KeptTokensFit
<1> QED
  BY <1>9, <1>10, <1>11, <1>12 DEF DhtInv

LEMMA OthersKeep ==
  ASSUME DhtInv, BeginDhtStop \/ EndDhtStop \/ CleanUpDht \/ (\E h \in InfoHashes : TokenExpires(h))
  PROVE  DhtInv'
<1>1. UNCHANGED <<awaited, doing, queries, clashes, wakes>>
  BY DEF BeginDhtStop, EndDhtStop, CleanUpDht, TokenExpires
<1>2. routing' \in Tables
  BY CleanUpMoves DEF BeginDhtStop, EndDhtStop, TokenExpires, DhtInv, DhtTypeOK, Moves
<1>3. tokens' \in TokenTables /\ (KeptTokensFit(tokens) => KeptTokensFit(tokens'))
  <2>1. tokens \in TokenTables
    BY DEF DhtInv, DhtTypeOK
  <2>2. CASE tokens' = tokens
    BY <2>1, <2>2
  <2>3. CASE CleanUpDht
    BY <2>1, <2>3 DEF CleanUpDht, TokenTables, NoToken, KeptTokensFit
  <2>4. CASE \E h \in InfoHashes : TokenExpires(h)
    <3>1. PICK h \in InfoHashes : tokens' = [tokens EXCEPT ![h].old = TRUE]
      BY <2>4 DEF TokenExpires
    <3> QED
      BY <2>1, <3>1 DEF TokenTables, KeptTokensFit
  <2>5. CASE BeginDhtStop \/ EndDhtStop
    BY <2>2, <2>5 DEF BeginDhtStop, EndDhtStop
  <2> QED
    BY <2>3, <2>4, <2>5
<1>4. DhtTypeOK'
  BY <1>1, <1>2, <1>3 DEF DhtInv, DhtTypeOK, BeginDhtStop, EndDhtStop, CleanUpDht, TokenExpires
<1>5. WaitsAreRegistered'
  BY <1>1 DEF DhtInv, WaitsAreRegistered, Awaits
<1>6. OwnTopics'
  BY <1>1 DEF DhtInv, OwnTopics, Awaits, TicketFits
<1>7. TokensFit'
  BY <1>1, <1>3 DEF DhtInv, TokensFit
<1> QED
  BY <1>4, <1>5, <1>6, <1>7 DEF DhtInv

LEMMA DhtInvNext == ASSUME DhtInv, [DhtNext]_dhtVars PROVE DhtInv'
<1>1. CASE UNCHANGED dhtVars
  BY <1>1 DEF dhtVars, DhtInv, DhtTypeOK, WaitsAreRegistered, OwnTopics, TokensFit, Awaits, TicketFits, KeptTokensFit
<1>2. CASE DhtNext
  BY <1>2, CallsKeep, StartKeeps, RefreshKeeps, SeekerKeeps, CancelsKeep, AnswerKeeps, OthersKeep DEF DhtNext
<1> QED
  BY <1>1, <1>2

LEMMA TableMoves == ASSUME DhtTypeOK, [DhtNext]_dhtVars PROVE Moves(routing, routing')
<1>1. CASE routing' = routing
  BY <1>1 DEF DhtTypeOK, Moves
<1>2. CASE CleanUpDht
  BY <1>2, CleanUpMoves
<1>3. CASE \E c \in Runners : SeekerStep(c)
  BY <1>3, SeekerMoves DEF SeekerStep
<1> QED
  BY <1>1, <1>2, <1>3 DEF DhtNext, dhtVars, Start, Refresh, BeginDhtStop, RefreshCancelled, EndDhtStop, GetPeers,
     AnnouncePeer, CancelSeeker, HandleDhtResponse, TokenExpires

\* Every reachable state of the DHT client is well typed.
THEOREM DhtTypeCorrect == DhtSpec => []DhtTypeOK
<1>1. DhtInv => DhtTypeOK
  BY DEF DhtInv
<1> QED
  BY <1>1, DhtInvInit, DhtInvNext, PTL DEF DhtSpec

\* pending_queries holds exactly the coroutines that wait, each at its transaction
\* id, as long as no two queries drew one id (_send_query, _wait_for_response).
THEOREM QueriesAreRegistered == DhtSpec => []WaitsAreRegistered
<1>1. DhtInv => WaitsAreRegistered
  BY DEF DhtInv
<1> QED
  BY <1>1, DhtInvInit, DhtInvNext, PTL DEF DhtSpec

\* The token stored for a torrent, and the one it is announced with, was issued for
\* it, under loss, duplication, delay and reordering (get_peers, announce_peer).
THEOREM TokensAreForTheirHash == DhtSpec => []TokensFit
<1>1. DhtInv => TokensFit
  BY DEF DhtInv
<1> QED
  BY <1>1, DhtInvInit, DhtInvNext, PTL DEF DhtSpec

\* No bucket of the routing table ever has more than K nodes (add_node, remove_node).
THEOREM BucketsKeepWithinK == DhtSpec => []BucketsHold
<1>1. DhtInit => Holds(routing)
  <2> SUFFICES ASSUME DhtInit, NEW n \in NodeIds PROVE Cardinality(Bucket(routing, n)) <= K
    BY DEF Holds, DhtInit
  <2>1. Bucket(routing, n) = {}
    BY DEF Bucket, DhtInit
  <2> QED
    BY <2>1, FS_EmptySet, DhtAssumption
<1>2. DhtTypeOK /\ Holds(routing) /\ [DhtNext]_dhtVars => Holds(routing)'
  BY TableMoves DEF Moves
<1>3. Holds(routing) => BucketsHold
  BY DEF Holds, BucketsHold
<1> QED
  BY <1>1, <1>2, <1>3, DhtTypeCorrect, PTL DEF DhtSpec

\* A good node never loses its place in its bucket (add_node, _cleanup_old_data).
THEOREM GoodNodesStay == DhtSpec => GoodKeepsItsPlace
<1>1. DhtTypeOK /\ [DhtNext]_dhtVars => [routing.placed \cap routing.good \subseteq routing'.placed]_dhtVars
  BY TableMoves DEF Moves
<1> QED
  BY <1>1, DhtTypeCorrect, PTL DEF DhtSpec, GoodKeepsItsPlace

\* Whatever any number of peers claim and answer, only metadata with the right
\* hash is kept, one whole answer is enough in a table of the right size, and
\* stop() leaves open only sockets that were still connecting.
THEOREM SoundMetadata == MetaSpec => []MetadataIsSound
BY MetaTypeCorrect, KeptMetadataIsTrue, OneWholeAnswerIsEnough, StopLeavesLateSockets, PTL DEF MetadataIsSound

\* The table of pending requests holds exactly the callers that wait, each at
\* its transaction id, and after stop() nobody waits.
THEOREM SoundTracker == UdpSpec => []TrackerIsSound
BY UdpTypeCorrect, PendingMatchesWaits, StopReachesAll, PTL DEF TrackerIsSound

\* No bucket ever holds more than K nodes, and only known nodes have a place.
THEOREM SoundRoutes == DhtSpec => []RoutesAreSound
BY DhtTypeCorrect, BucketsKeepWithinK, PTL DEF RoutesAreSound

\* pending_queries holds exactly the coroutines that wait, and a token is
\* stored for, and announced with, only the torrent it was issued for, under
\* loss, duplication, delay and reordering, as long as no two queries drew one
\* id.
THEOREM SoundQueries == DhtSpec => []QueriesAreSound
BY QueriesAreRegistered, TokensAreForTheirHash, PTL DEF QueriesAreSound
=============================================================================
