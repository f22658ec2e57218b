----------------------- MODULE RequestPipeline_proofs -----------------------
(***************************************************************************)
(* RequestPipeline for any number of coroutines, blocks and slots: requests *)
(* are made only when the peer allows it and below the depth, and the table *)
(* of outstanding requests agrees with the wire.                            *)
(***************************************************************************)
EXTENDS RequestPipeline, FiniteSetTheorems, TLAPS

(***************************************************************************)
(* Sequences as queues.                                                     *)
(***************************************************************************)
\* What a queue holds after a message was added.
LEMMA AppendHolds ==
  ASSUME NEW S, NEW s \in Seq(S), NEW e \in S, NEW x
  PROVE Contains(Append(s, e), x) <=> Contains(s, x) \/ x = e
<1>1. Len(Append(s, e)) = Len(s) + 1 /\ Len(s) \in Nat
  OBVIOUS
<1>2. \A i \in 1 .. Len(s) + 1 : Append(s, e)[i] = IF i \in 1 .. Len(s) THEN s[i] ELSE e
  OBVIOUS
<1>. QED
  BY <1>1, <1>2 DEF Contains

\* What it holds before its first message is taken.
LEMMA TailHolds ==
  ASSUME NEW S, NEW s \in Seq(S), s # <<>>, NEW x
  PROVE Contains(s, x) <=> x = Head(s) \/ Contains(Tail(s), x)
<1>1. Len(Tail(s)) = Len(s) - 1 /\ Len(s) \in Nat \ {0} /\ Head(s) = s[1]
  OBVIOUS
<1>2. \A i \in 1 .. Len(s) - 1 : Tail(s)[i] = s[i + 1]
  OBVIOUS
<1>3. ASSUME NEW i \in 1 .. Len(s), s[i] = x PROVE x = Head(s) \/ Contains(Tail(s), x)
  <2>1. CASE i = 1
    BY <1>1, <1>3, <2>1
  <2>2. CASE i # 1
    <3>1. i - 1 \in 1 .. Len(s) - 1 /\ (i - 1) + 1 = i
      BY <1>1, <2>2
    <3>. QED
      BY <1>1, <1>2, <1>3, <3>1 DEF Contains
  <2>. QED
    BY <2>1, <2>2
<1>4. ASSUME Contains(Tail(s), x) PROVE Contains(s, x)
  <2>1. PICK i \in 1 .. Len(s) - 1 : Tail(s)[i] = x
    BY <1>1, <1>4 DEF Contains
  <2>2. i + 1 \in 1 .. Len(s) /\ s[i + 1] = x
    BY <1>1, <1>2, <2>1
  <2>. QED
    BY <2>2 DEF Contains
<1>5. Contains(s, Head(s))
  BY <1>1 DEF Contains
<1>. QED
  BY <1>3, <1>4, <1>5 DEF Contains

\* Adding what is not there, or is of no interest, repeats nothing.
LEMMA AppendOnce ==
  ASSUME NEW S, NEW s \in Seq(S), NEW e \in S, NEW T, OnceEach(s, T),
         e \in T => ~Contains(s, e)
  PROVE OnceEach(Append(s, e), T)
<1>1. DOMAIN Append(s, e) = 1 .. Len(s) + 1 /\ DOMAIN s = 1 .. Len(s) /\ Len(s) \in Nat
  OBVIOUS
<1>2. \A i \in 1 .. Len(s) : Append(s, e)[i] = s[i]
  OBVIOUS
<1>3. Append(s, e)[Len(s) + 1] = e
  OBVIOUS
<1>4. \A i \in 1 .. Len(s) + 1 : i = Len(s) + 1 \/ i \in 1 .. Len(s)
  BY <1>1
<1>. QED
  BY <1>1, <1>2, <1>3, <1>4 DEF OnceEach, Contains

\* The rest of a queue without repetitions has none, and lacks the first message.
LEMMA TailOnce ==
  ASSUME NEW S, NEW s \in Seq(S), s # <<>>, NEW T, OnceEach(s, T)
  PROVE OnceEach(Tail(s), T) /\ (Head(s) \in T => ~Contains(Tail(s), Head(s)))
<1>1. Len(Tail(s)) = Len(s) - 1 /\ Len(s) \in Nat \ {0} /\ Head(s) = s[1]
  OBVIOUS
<1>2. DOMAIN Tail(s) = 1 .. Len(s) - 1 /\ DOMAIN s = 1 .. Len(s)
  OBVIOUS
<1>3. \A i \in 1 .. Len(s) - 1 : Tail(s)[i] = s[i + 1] /\ i + 1 \in 1 .. Len(s) /\ i + 1 # 1
  BY <1>1
<1>4. 1 \in 1 .. Len(s)
  BY <1>1
<1>5. OnceEach(Tail(s), T)
  <2>. SUFFICES ASSUME NEW i \in 1 .. Len(s) - 1, NEW j \in 1 .. Len(s) - 1,
                       Tail(s)[i] = Tail(s)[j], Tail(s)[i] \in T
                PROVE i = j
    BY <1>2 DEF OnceEach
  <2>1. i + 1 = j + 1
    BY <1>2, <1>3 DEF OnceEach
  <2>. QED
    BY <2>1
<1>6. ASSUME Head(s) \in T, Contains(Tail(s), Head(s)) PROVE FALSE
  <2>1. PICK i \in 1 .. Len(s) - 1 : Tail(s)[i] = Head(s)
    BY <1>1, <1>6 DEF Contains
  <2>. QED
    BY <1>1, <1>2, <1>3, <1>4, <1>6, <2>1 DEF OnceEach
<1>. QED
  BY <1>5, <1>6

(***************************************************************************)
(* Types.                                                                   *)
(***************************************************************************)
\* A message of a block or without one.
LEMMA MsgType ==
  ASSUME NEW type \in {"bitfield", "choke", "unchoke", "piece"},
         NEW b \in Blocks \cup {NoBlock}
  PROVE Msg(type, b) \in Message
BY DEF Msg, Message

\* Taking a message off, or putting one on, keeps a queue a queue.
LEMMA ReadType == ASSUME TypeOK, NEW type, Read(type) PROVE fromPeer' \in Seq(Message)
BY DEF TypeOK, Read, Arrives

LEMMA PeerSendsType ==
  ASSUME TypeOK, NEW m \in Message, PeerSends(m) PROVE fromPeer' \in Seq(Message)
BY DEF TypeOK, PeerSends

\* What a registration leaves behind.
LEMMA SubmitType ==
  ASSUME TypeOK, NEW t \in Tasks, NEW b \in Blocks, Submit(t, b)
  PROVE /\ outstanding' \in SUBSET Blocks /\ dropped' \in SUBSET Blocks
        /\ toPeer' \in Seq(Blocks)
        /\ pc' \in [Tasks -> {"idle", "interest", "sending"}]
        /\ want' \in [Tasks -> Blocks \cup {NoBlock}]
        /\ \A u \in Tasks : pc'[u] = "interest" <=> want'[u] # NoBlock
<1>1. outstanding' \in SUBSET Blocks /\ dropped' \in SUBSET Blocks /\ toPeer' \in Seq(Blocks)
  <2>1. Append(toPeer, b) \in Seq(Blocks)
    BY DEF TypeOK
  <2>2. CASE Write(b)
    BY <2>1, <2>2 DEF TypeOK, Write
  <2>3. CASE UNCHANGED <<outstanding, toPeer, dropped>>
    BY <2>3 DEF TypeOK
  <2>. QED
    BY <2>2, <2>3 DEF Submit
<1>2. /\ want' = [want EXCEPT ![t] = NoBlock]
      /\ pc' = [pc EXCEPT ![t] = "sending"] \/ pc' = [pc EXCEPT ![t] = "idle"]
  BY DEF Submit
<1>. QED
  BY <1>1, <1>2 DEF TypeOK

LEMMA TypeInit == Init => TypeOK
<1>. SUFFICES ASSUME Init PROVE TypeOK
  OBVIOUS
<1>1. toPeer \in Seq(Blocks) /\ fromPeer \in Seq(Message)
  BY DEF Init
<1>2. /\ pc \in [Tasks -> {"idle", "interest", "sending"}]
      /\ want \in [Tasks -> Blocks \cup {NoBlock}]
      /\ \A t \in Tasks : pc[t] = "interest" <=> want[t] # NoBlock
  BY DEF Init
<1>3. chokes \in 0 .. MaxChokes
  BY PipelineAssumption DEF Init
<1>. QED
  BY <1>1, <1>2, <1>3 DEF Init, TypeOK, States

LEMMA TypeNext == TypeOK /\ [Next]_vars => TypeOK'
<1>. SUFFICES ASSUME TypeOK, [Next]_vars PROVE TypeOK'
  OBVIOUS
<1>. USE PipelineAssumption DEF ours, peer, States
<1>1. ASSUME NEW t \in Tasks, NEW b \in Blocks, RequestPiece(t, b) PROVE TypeOK'
  BY <1>1, SubmitType DEF RequestPiece, TypeOK
<1>2. ASSUME NEW t \in Tasks, NEW b \in Blocks, RequestUninterested(t, b) PROVE TypeOK'
  BY <1>2 DEF RequestUninterested, TypeOK
<1>3. ASSUME NEW t \in Tasks, InterestSent(t) PROVE TypeOK'
  <2>1. want[t] \in Blocks
    BY <1>3 DEF InterestSent, TypeOK
  <2>. QED
    BY <1>3, <2>1, SubmitType DEF InterestSent, TypeOK
<1>4. ASSUME NEW t \in Tasks, RequestSent(t) PROVE TypeOK'
  BY <1>4 DEF RequestSent, TypeOK
<1>5. ASSUME Receive PROVE TypeOK'
  <2>1. fromPeer' \in Seq(Message)
    BY <1>5, ReadType DEF Receive, ReceiveChoke, ReceiveUnchoke, ReceivePiece, ReceiveBitfield
  <2>2. CASE ReceiveChoke
    BY <2>1, <2>2 DEF ReceiveChoke, Read, TypeOK
  <2>3. CASE ReceiveUnchoke
    BY <2>1, <2>3 DEF ReceiveUnchoke, Read, TypeOK
  <2>4. CASE ReceivePiece
    BY <2>1, <2>4 DEF ReceivePiece, Read, TypeOK
  <2>5. CASE ReceiveBitfield
    BY <2>1, <2>5 DEF ReceiveBitfield, AfterBitfield, Read, TypeOK
  <2>. QED
    BY <1>5, <2>2, <2>3, <2>4, <2>5 DEF Receive
<1>6. CASE BitfieldInterestSent
  BY <1>6 DEF BitfieldInterestSent, AfterBitfield, TypeOK
<1>7. CASE Disconnect
  BY <1>7 DEF Disconnect, TypeOK
<1>8. CASE UpdatePeerStats
  BY <1>8 DEF UpdatePeerStats, TypeOK
<1>9. CASE PeerBitfield
  BY <1>9, MsgType, PeerSendsType DEF PeerBitfield, PeerSends, TypeOK
<1>10. CASE PeerUnchokes
  BY <1>10, MsgType, PeerSendsType DEF PeerUnchokes, PeerSends, TypeOK
<1>11. CASE PeerChokes
  <2>1. chokes' \in 0 .. MaxChokes
    BY <1>11 DEF PeerChokes, TypeOK
  <2>2. fromPeer' \in Seq(Message)
    BY <1>11, MsgType, PeerSendsType DEF PeerChokes
  <2>. QED
    BY <1>11, <2>1, <2>2 DEF PeerChokes, PeerSends, TypeOK
<1>12. CASE PeerReads
  <2>1. Head(toPeer) \in Blocks /\ Tail(toPeer) \in Seq(Blocks)
    BY <1>12 DEF PeerReads, TypeOK
  <2>. QED
    BY <1>12, <2>1 DEF PeerReads, TypeOK
<1>13. ASSUME NEW b \in Blocks, PeerAnswers(b) PROVE TypeOK'
  BY <1>13, MsgType, PeerSendsType DEF PeerAnswers, PeerSends, TypeOK
<1>14. CASE LinkBreaks
  <2>1. toPeer' \in Seq(Blocks) /\ Unread \in SUBSET Blocks
    BY <1>14 DEF LinkBreaks, Unread
  <2>. QED
    BY <1>14, <2>1 DEF LinkBreaks, TypeOK
<1>15. CASE UNCHANGED vars
  BY <1>15 DEF vars, TypeOK
<1>. QED
  BY <1>1, <1>2, <1>3, <1>4, <1>5, <1>6, <1>7, <1>8, <1>9, <1>10, <1>11, <1>12, <1>13,
     <1>14, <1>15 DEF Next, SomeRequest, LoopStep

\* Every reachable state of the connection is well typed.
THEOREM PipelineTypeCorrect == Spec => []TypeOK
BY TypeInit, TypeNext, PTL DEF Spec

(***************************************************************************)
(* The order of the handshake's messages.                                   *)
(***************************************************************************)
LEMMA UnchokedNext == TypeOK /\ UnchokedIsActive /\ [Next]_vars => UnchokedIsActive'
<1>. SUFFICES ASSUME TypeOK, UnchokedIsActive, [Next]_vars PROVE UnchokedIsActive'
  OBVIOUS
<1>. USE DEF UnchokedIsActive, IsActive, ours
<1>1. ASSUME NEW t \in Tasks, NEW b \in Blocks,
             RequestPiece(t, b) \/ RequestUninterested(t, b) PROVE UnchokedIsActive'
  BY <1>1 DEF RequestPiece, RequestUninterested
<1>2. ASSUME NEW t \in Tasks, InterestSent(t) \/ RequestSent(t) PROVE UnchokedIsActive'
  BY <1>2 DEF InterestSent, RequestSent
<1>3. CASE Receive
  BY <1>3 DEF Receive, ReceiveChoke, ReceiveUnchoke, ReceivePiece, ReceiveBitfield, AfterBitfield
<1>4. CASE BitfieldInterestSent
  BY <1>4 DEF BitfieldInterestSent, AfterBitfield
<1>5. CASE Disconnect
  BY <1>5 DEF Disconnect
<1>6. CASE UpdatePeerStats
  BY <1>6 DEF UpdatePeerStats
<1>7. CASE PeerBitfield \/ PeerUnchokes \/ PeerChokes
  BY <1>7 DEF PeerBitfield, PeerUnchokes, PeerChokes, PeerSends
<1>8. ASSUME NEW b \in Blocks, PeerAnswers(b) PROVE UnchokedIsActive'
  BY <1>8 DEF PeerAnswers, PeerSends
<1>9. CASE PeerReads \/ LinkBreaks
  BY <1>9 DEF PeerReads, LinkBreaks
<1>10. CASE UNCHANGED vars
  BY <1>10 DEF vars
<1>. QED
  BY <1>1, <1>2, <1>3, <1>4, <1>5, <1>6, <1>7, <1>8, <1>9, <1>10
  DEF Next, SomeRequest, LoopStep

\* Whatever the order of Bitfield, Unchoke and Choke, an unchoked connection is active.
THEOREM UnchokedConnectionIsActive == Spec => []UnchokedIsActive
<1>1. Init => UnchokedIsActive
  BY DEF Init, UnchokedIsActive
<1>. QED
  BY <1>1, UnchokedNext, PipelineTypeCorrect, PTL DEF Spec

(***************************************************************************)
(* When a request is made.                                                  *)
(***************************************************************************)
\* Only Submit adds an entry, and only after can_request.
LEMMA OnlySubmitAdds ==
  ASSUME TypeOK, [Next]_vars
  PROVE \/ outstanding' \subseteq outstanding
        \/ CanRequest /\ (\E b \in Blocks : outstanding' = outstanding \cup {b})
<1>. DEFINE Goal == \/ outstanding' \subseteq outstanding
                    \/ CanRequest /\ (\E b \in Blocks : outstanding' = outstanding \cup {b})
<1>. USE DEF ours
<1>1. ASSUME NEW t \in Tasks, NEW b \in Blocks, RequestPiece(t, b) PROVE Goal
  BY <1>1 DEF RequestPiece, Submit, Write
<1>2. ASSUME NEW t \in Tasks, InterestSent(t) PROVE Goal
  <2>1. want[t] \in Blocks
    BY <1>2 DEF InterestSent, TypeOK
  <2>. QED
    BY <1>2, <2>1 DEF InterestSent, Submit, Write
<1>3. ASSUME NEW t \in Tasks, NEW b \in Blocks, RequestUninterested(t, b) PROVE Goal
  BY <1>3 DEF RequestUninterested
<1>4. ASSUME NEW t \in Tasks, RequestSent(t) PROVE Goal
  BY <1>4 DEF RequestSent
<1>5. CASE Receive
  BY <1>5 DEF Receive, ReceiveChoke, ReceiveUnchoke, ReceivePiece, ReceiveBitfield
<1>6. CASE BitfieldInterestSent \/ Disconnect \/ UpdatePeerStats
  BY <1>6 DEF BitfieldInterestSent, Disconnect, UpdatePeerStats
<1>7. CASE PeerBitfield \/ PeerUnchokes \/ PeerChokes
  BY <1>7 DEF PeerBitfield, PeerUnchokes, PeerChokes, PeerSends
<1>8. ASSUME NEW b \in Blocks, PeerAnswers(b) PROVE Goal
  BY <1>8 DEF PeerAnswers, PeerSends
<1>9. CASE PeerReads \/ LinkBreaks
  BY <1>9 DEF PeerReads, LinkBreaks
<1>10. CASE UNCHANGED vars
  BY <1>10 DEF vars
<1>. QED
  BY <1>1, <1>2, <1>3, <1>4, <1>5, <1>6, <1>7, <1>8, <1>9, <1>10
  DEF Next, SomeRequest, LoopStep

\* No request is made while the peer chokes us or after the connection ended.
THEOREM NotWhileChoked == Spec => NeverAsksWhileChoked
<1>1. TypeOK /\ [Next]_vars
      => [outstanding \subseteq outstanding' /\ outstanding # outstanding'
          => ~peerChoking /\ conn # "error"]_vars
  BY OnlySubmitAdds DEF CanRequest, IsActive
<1>. QED
  BY <1>1, PipelineTypeCorrect, PTL DEF Spec, NeverAsksWhileChoked

\* The table of outstanding requests never grows beyond the depth of the moment.
THEOREM WithinDepth == Spec => GrowsWithinDepth
<1>1. TypeOK /\ [Next]_vars
      => [outstanding' \subseteq outstanding \/ Cardinality(outstanding') <= depth]_vars
  <2>. SUFFICES ASSUME TypeOK, [Next]_vars, ~(outstanding' \subseteq outstanding)
                PROVE Cardinality(outstanding') <= depth
    OBVIOUS
  <2>1. PICK b \in Blocks : outstanding' = outstanding \cup {b}
    BY OnlySubmitAdds
  <2>2. Cardinality(outstanding) < depth
    BY OnlySubmitAdds DEF CanRequest
  <2>3. IsFiniteSet(outstanding)
    BY PipelineAssumption, FS_Subset DEF TypeOK
  <2>4. Cardinality(outstanding') = Cardinality(outstanding) + 1
    BY <2>1, <2>3, FS_AddElement
  <2>. QED
    BY <2>2, <2>3, <2>4, FS_CardinalityType, PipelineAssumption DEF TypeOK
<1>. QED
  BY <1>1, PipelineTypeCorrect, PTL DEF Spec, GrowsWithinDepth

(***************************************************************************)
(* The table and the wire.                                                  *)
(***************************************************************************)
Answers == {Msg("piece", b) : b \in Blocks}

\* Messages without a block are not answers, and answers differ by their blocks.
LEMMA AnswersDiffer ==
  /\ \A b, c \in Blocks : Msg("piece", b) = Msg("piece", c) => b = c
  /\ \A type, x : type # "piece" => Msg(type, x) \notin Answers
  /\ \A b \in Blocks : Msg("piece", b) \in Answers
BY DEF Msg, Answers

\* A message other than an answer changes nothing of what is unanswered.
LEMMA OtherMessageSent ==
  ASSUME TypeOK, EntriesMatchTheWire,
         NEW type \in {"bitfield", "choke", "unchoke"}, PeerSends(Msg(type, NoBlock))
  PROVE Unanswered' = Unanswered /\ OnceEach(fromPeer', Answers)
<1>1. Msg(type, NoBlock) \in Message /\ Msg(type, NoBlock) \notin Answers
  BY AnswersDiffer, MsgType
<1>2. OnceEach(fromPeer', Answers)
  BY <1>1, AppendOnce DEF PeerSends, EntriesMatchTheWire, Answers, TypeOK
<1>3. ASSUME NEW b \in Blocks
      PROVE Contains(fromPeer', Msg("piece", b)) <=> Contains(fromPeer, Msg("piece", b))
  BY <1>1, AppendHolds, AnswersDiffer DEF PeerSends, TypeOK
<1>. QED
  BY <1>2, <1>3 DEF Unanswered

\* Reading one removes nothing from it.
LEMMA OtherMessageRead ==
  ASSUME TypeOK, EntriesMatchTheWire, NEW type, type # "piece", Read(type)
  PROVE Unanswered' = Unanswered /\ OnceEach(fromPeer', Answers)
<1>1. OnceEach(fromPeer', Answers)
  BY TailOnce DEF Read, Arrives, EntriesMatchTheWire, Answers, TypeOK
<1>2. ASSUME NEW b \in Blocks
      PROVE Contains(fromPeer', Msg("piece", b)) <=> Contains(fromPeer, Msg("piece", b))
  <2>1. Head(fromPeer) # Msg("piece", b)
    BY DEF Read, Arrives, Msg
  <2>. QED
    BY <2>1, TailHolds DEF Read, Arrives, TypeOK
<1>. QED
  BY <1>1, <1>2 DEF Unanswered

\* An answer that is read leaves the queue, and no other copy stays behind.
LEMMA AnswerRead ==
  ASSUME TypeOK, EntriesMatchTheWire, Read("piece")
  PROVE /\ Unanswered' = Unanswered \ {Head(fromPeer).block}
        /\ OnceEach(fromPeer', Answers)
        /\ Head(fromPeer).block \in Blocks => Head(fromPeer).block \in Unanswered
<1>. DEFINE m == Head(fromPeer)
<1>1. m \in Message /\ m.type = "piece"
  BY DEF Read, Arrives, TypeOK
<1>2. /\ OnceEach(fromPeer', Answers)
      /\ m \in Answers => ~Contains(fromPeer', m)
  BY TailOnce DEF Read, Arrives, EntriesMatchTheWire, Answers, TypeOK
<1>3. ASSUME NEW b \in Blocks
      PROVE Contains(fromPeer, Msg("piece", b))
              <=> Msg("piece", b) = m \/ Contains(fromPeer', Msg("piece", b))
  BY TailHolds DEF Read, Arrives, TypeOK
<1>4. \A b \in Blocks : Msg("piece", b) = m <=> b = m.block
  <2>1. m = [type |-> "piece", block |-> m.block]
    BY <1>1 DEF Message
  <2>. QED
    BY <2>1 DEF Msg
<1>5. m.block \in Blocks => m.block \in Unanswered
  BY <1>3, <1>4 DEF Unanswered
<1>6. ASSUME NEW b \in Blocks
      PROVE b \in Unanswered' <=> b \in Unanswered \ {m.block}
  BY <1>2, <1>3, <1>4, AnswersDiffer DEF Unanswered
<1>. QED
  BY <1>2, <1>5, <1>6 DEF Unanswered

\* A registered request is on its way, or known to be lost.
LEMMA SubmitEntries ==
  ASSUME TypeOK, EntriesMatchTheWire, NEW t \in Tasks, NEW b \in Blocks, Submit(t, b),
         UNCHANGED <<peer, fromPeer>>
  PROVE EntriesMatchTheWire'
<1>. USE DEF peer
<1>1. CASE UNCHANGED <<outstanding, toPeer, dropped>>
  BY <1>1 DEF EntriesMatchTheWire, OnTheWay, Unread, Unanswered
<1>2. CASE b \notin outstanding /\ Write(b) /\ ~linkUp
  BY <1>2 DEF Write, EntriesMatchTheWire, OnTheWay, Unread, Unanswered
<1>3. CASE b \notin outstanding /\ Write(b) /\ linkUp
  <2>1. b \notin Unread /\ b \notin held /\ b \notin Unanswered /\ b \notin dropped
    BY <1>3 DEF EntriesMatchTheWire, OnTheWay
  <2>2. ~Contains(toPeer, b)
    BY <2>1 DEF Unread
  <2>3. OnceEach(toPeer', Blocks)
    BY <1>3, <2>2, AppendOnce DEF Write, EntriesMatchTheWire, TypeOK
  <2>4. Unread' = Unread \cup {b}
    BY <1>3, AppendHolds DEF Write, Unread, TypeOK
  <2>5. Unanswered' = Unanswered
    BY DEF Unanswered
  <2>. QED
    BY <1>3, <2>1, <2>3, <2>4, <2>5 DEF Write, EntriesMatchTheWire, OnTheWay
<1>. QED
  BY <1>1, <1>2, <1>3 DEF Submit

LEMMA EntriesNext == TypeOK /\ EntriesMatchTheWire /\ [Next]_vars => EntriesMatchTheWire'
<1>. SUFFICES ASSUME TypeOK, EntriesMatchTheWire, [Next]_vars PROVE EntriesMatchTheWire'
  OBVIOUS
<1>. USE DEF ours, peer
<1>0. ASSUME UNCHANGED <<outstanding, dropped, toPeer, held, fromPeer>> PROVE EntriesMatchTheWire'
  BY <1>0 DEF EntriesMatchTheWire, OnTheWay, Unread, Unanswered
<1>1. ASSUME NEW t \in Tasks, NEW b \in Blocks, RequestPiece(t, b) PROVE EntriesMatchTheWire'
  BY <1>1, SubmitEntries DEF RequestPiece
<1>2. ASSUME NEW t \in Tasks, InterestSent(t) PROVE EntriesMatchTheWire'
  <2>1. want[t] \in Blocks
    BY <1>2 DEF InterestSent, TypeOK
  <2>. QED
    BY <1>2, <2>1, SubmitEntries DEF InterestSent
<1>3. ASSUME NEW t \in Tasks, NEW b \in Blocks, RequestUninterested(t, b)
      PROVE EntriesMatchTheWire'
  BY <1>0, <1>3 DEF RequestUninterested
<1>4. ASSUME NEW t \in Tasks, RequestSent(t) PROVE EntriesMatchTheWire'
  BY <1>0, <1>4 DEF RequestSent
<1>5. CASE ReceiveChoke \/ ReceiveUnchoke \/ ReceiveBitfield
  <2>1. Unanswered' = Unanswered /\ OnceEach(fromPeer', Answers)
    BY <1>5, OtherMessageRead DEF ReceiveChoke, ReceiveUnchoke, ReceiveBitfield
  <2>2. UNCHANGED <<outstanding, dropped, toPeer, held>>
    BY <1>5 DEF ReceiveChoke, ReceiveUnchoke, ReceiveBitfield, Read
  <2>. QED
    BY <2>1, <2>2 DEF EntriesMatchTheWire, OnTheWay, Unread, Answers
<1>6. CASE ReceivePiece
  <2>. DEFINE b == Head(fromPeer).block
  <2>1. Read("piece") /\ outstanding' = outstanding \ {b}
    BY <1>6 DEF ReceivePiece
  <2>2. /\ Unanswered' = Unanswered \ {b}
        /\ OnceEach(fromPeer', Answers)
        /\ b \in Blocks => b \in Unanswered
    BY <2>1, AnswerRead
  <2>3. UNCHANGED <<dropped, toPeer, held>>
    BY <2>1 DEF Read
  <2>4. b \notin Blocks => b \notin Unread /\ b \notin held /\ b \notin dropped
    BY DEF TypeOK, Unread
  <2>. HIDE DEF b
  <2>. QED
    BY <2>1, <2>2, <2>3, <2>4 DEF EntriesMatchTheWire, OnTheWay, Unread, Answers
<1>7. CASE BitfieldInterestSent \/ Disconnect \/ UpdatePeerStats
  BY <1>0, <1>7 DEF BitfieldInterestSent, Disconnect, UpdatePeerStats
<1>8. CASE PeerBitfield \/ PeerUnchokes \/ PeerChokes
  <2>1. Unanswered' = Unanswered /\ OnceEach(fromPeer', Answers)
    BY <1>8, OtherMessageSent DEF PeerBitfield, PeerUnchokes, PeerChokes
  <2>2. UNCHANGED <<outstanding, toPeer>>
    BY <1>8 DEF PeerBitfield, PeerUnchokes, PeerChokes, PeerSends
  <2>3. \/ UNCHANGED <<dropped, held>>
        \/ dropped' = dropped \cup held /\ held' = {}
    BY <1>8 DEF PeerBitfield, PeerUnchokes, PeerChokes
  <2>. QED
    BY <2>1, <2>2, <2>3 DEF EntriesMatchTheWire, OnTheWay, Unread, Answers
<1>9. CASE PeerReads
  <2>. DEFINE b == Head(toPeer)
  <2>1. /\ b \in Blocks
        /\ OnceEach(toPeer', Blocks)
        /\ ~Contains(toPeer', b)
    BY <1>9, TailOnce DEF PeerReads, EntriesMatchTheWire, TypeOK
  <2>2. \A c \in Blocks : Contains(toPeer, c) <=> c = b \/ Contains(toPeer', c)
    BY <1>9, TailHolds DEF PeerReads, TypeOK
  <2>3. b \in Unread /\ Unread' = Unread \ {b}
    BY <2>1, <2>2 DEF Unread
  <2>4. UNCHANGED <<outstanding, fromPeer>> /\ Unanswered' = Unanswered
    BY <1>9 DEF PeerReads, Unanswered
  <2>5. \/ held' = held \cup {b} /\ UNCHANGED dropped
        \/ dropped' = dropped \cup {b} /\ UNCHANGED held
    BY <1>9 DEF PeerReads
  <2>. HIDE DEF b
  <2>. QED
    BY <2>1, <2>3, <2>4, <2>5 DEF EntriesMatchTheWire, OnTheWay
<1>10. ASSUME NEW b \in Blocks, PeerAnswers(b) PROVE EntriesMatchTheWire'
  <2>1. /\ b \in held /\ held' = held \ {b} /\ UNCHANGED <<outstanding, dropped, toPeer>>
        /\ fromPeer' = Append(fromPeer, Msg("piece", b))
    BY <1>10 DEF PeerAnswers, PeerSends
  <2>2. Msg("piece", b) \in Message
    BY MsgType
  <2>3. ~Contains(fromPeer, Msg("piece", b))
    BY <2>1 DEF EntriesMatchTheWire, Unanswered
  <2>4. OnceEach(fromPeer', Answers)
    BY <2>1, <2>2, <2>3, AppendOnce DEF EntriesMatchTheWire, Answers, TypeOK
  <2>5. \A c \in Blocks : Contains(fromPeer', Msg("piece", c))
                          <=> Contains(fromPeer, Msg("piece", c)) \/ c = b
    BY <2>1, <2>2, AppendHolds, AnswersDiffer DEF TypeOK
  <2>6. Unanswered' = Unanswered \cup {b}
    BY <2>5 DEF Unanswered
  <2>. QED
    BY <2>1, <2>4, <2>6 DEF EntriesMatchTheWire, OnTheWay, Unread, Answers
<1>11. CASE LinkBreaks
  <2>1. Unread' = {} /\ OnceEach(toPeer', Blocks)
    BY <1>11 DEF LinkBreaks, Unread, Contains, OnceEach
  <2>2. Unanswered' = Unanswered
    BY <1>11 DEF LinkBreaks, Unanswered
  <2>. QED
    BY <1>11, <2>1, <2>2 DEF LinkBreaks, EntriesMatchTheWire, OnTheWay
<1>12. CASE UNCHANGED vars
  BY <1>0, <1>12 DEF vars
<1>. QED
  BY <1>1, <1>2, <1>3, <1>4, <1>5, <1>6, <1>7, <1>8, <1>9, <1>10, <1>11, <1>12
  DEF Next, SomeRequest, LoopStep, Receive

\* An answer always finds the entry it frees; every other entry is of a lost request.
THEOREM TableMatchesWire == Spec => []EntriesMatchTheWire
<1>1. Init => EntriesMatchTheWire
  BY DEF Init, EntriesMatchTheWire, OnTheWay, Unread, Unanswered, Contains, OnceEach
<1>. QED
  BY <1>1, EntriesNext, PipelineTypeCorrect, PTL DEF Spec

\* The table holds exactly the requests on their way, held by the peer,
\* answered but unread, or lost, each once, and an unchoked connection accepts
\* requests as far as its state goes.
THEOREM SoundPipeline == Spec => []PipelineIsSound
BY PipelineTypeCorrect, UnchokedConnectionIsActive, TableMatchesWire, PTL DEF PipelineIsSound

(***************************************************************************)
(* The window of requests.                                                  *)
(***************************************************************************)
\* The loop that disconnects is not inside the drain of Interested.
EndsWhileReading == conn = "error" => loop = "reading"

LEMMA EndsNext == EndsWhileReading /\ [Next]_vars => EndsWhileReading'
<1>. SUFFICES ASSUME EndsWhileReading, [Next]_vars PROVE EndsWhileReading'
  OBVIOUS
<1>1. CASE UNCHANGED <<conn, loop>>
  BY <1>1 DEF EndsWhileReading
<1>2. CASE Receive
  BY <1>2 DEF EndsWhileReading, Receive, ReceiveChoke, ReceiveUnchoke, ReceivePiece,
              ReceiveBitfield, AfterBitfield, Read
<1>3. CASE BitfieldInterestSent \/ Disconnect
  BY <1>3 DEF BitfieldInterestSent, Disconnect, EndsWhileReading
<1>. QED
  BY <1>1, <1>2, <1>3
  DEF Next, SomeRequest, LoopStep, RequestPiece, RequestUninterested, InterestSent, RequestSent,
      UpdatePeerStats, PeerBitfield, PeerUnchokes, PeerChokes, PeerReads, PeerAnswers, PeerSends,
      LinkBreaks, vars, ours

\* The room there is: some number of slots, none once the connection has ended.
LEMMA RoomThere ==
  ASSUME TypeOK
  PROVE Room \in Nat /\ (conn = "error" => Room = 0) /\ (CanRequest => Cardinality(outstanding) < Room)
BY PipelineAssumption DEF TypeOK, Room, CanRequest, IsActive

\* The window counts as the pipeline does.
LEMMA WindowCounts == \A S : Window!Cardinality(S) = Cardinality(S)
<1>1. \A S : Window!IsFiniteSet(S) <=> IsFiniteSet(S)
  BY DEF Window!IsFiniteSet, IsFiniteSet
<1>. QED
  BY <1>1 DEF Window!Cardinality, Cardinality

\* A coroutine takes a slot where there is room, or none.
LEMMA SubmitAsks ==
  ASSUME TypeOK, EntriesMatchTheWire, NEW t \in Tasks, NEW b \in Blocks, Submit(t, b),
         UNCHANGED <<conn, peerChoking, depth>>
  PROVE Window!Ask(b) \/ UNCHANGED Window!vars
<1>1. UNCHANGED <<Room, conn>>
  BY DEF Room, IsActive
<1>2. CASE CanRequest /\ b \notin outstanding /\ Write(b)
  BY <1>1, <1>2, RoomThere, WindowCounts DEF Window!Ask, Write
<1>3. CASE UNCHANGED <<outstanding, dropped>>
  BY <1>1, <1>3 DEF Window!vars
<1>. QED
  BY <1>2, <1>3 DEF Submit

\* Every step asks, answers, loses, resizes or ends the window, or leaves it alone.
LEMMA WindowStep ==
  ASSUME TypeOK, TypeOK', EntriesMatchTheWire, EntriesMatchTheWire', EndsWhileReading, [Next]_vars
  PROVE [Window!Next]_(Window!vars)
<1>. USE DEF ours, peer
<1>1. ASSUME NEW t \in Tasks, NEW b \in Blocks, RequestPiece(t, b)
      PROVE Window!Ask(b) \/ UNCHANGED Window!vars
  BY <1>1, SubmitAsks DEF RequestPiece
<1>2. ASSUME NEW t \in Tasks, InterestSent(t)
      PROVE \E b \in Blocks : Window!Ask(b) \/ UNCHANGED Window!vars
  <2>1. want[t] \in Blocks
    BY <1>2 DEF InterestSent, TypeOK
  <2>. QED
    BY <1>2, <2>1, SubmitAsks DEF InterestSent
<1>3. ASSUME UNCHANGED <<conn, peerChoking, depth, outstanding, dropped>>
      PROVE UNCHANGED Window!vars
  BY <1>3 DEF Window!vars, Room, IsActive
<1>4. CASE ReceivePiece
  <2>. DEFINE b == Head(fromPeer).block
  <2>1. /\ outstanding' = outstanding \ {b} /\ conn # "error"
        /\ UNCHANGED <<dropped, Room, conn>>
    BY <1>4 DEF ReceivePiece, Read, Room, IsActive
  <2>2. CASE b \in Blocks
    <3>1. b \in outstanding \ dropped
      BY <1>4, <2>2, AnswerRead DEF ReceivePiece, EntriesMatchTheWire, OnTheWay
    <3>2. Window!Answer(b)
      BY <2>1, <3>1 DEF Window!Answer
    <3>. QED
      BY <2>2, <3>2 DEF Window!Next
  <2>3. CASE b \notin Blocks
    <3>1. UNCHANGED outstanding
      BY <2>1, <2>3 DEF TypeOK
    <3>. QED
      BY <2>1, <3>1 DEF Window!vars
  <2>. QED
    BY <2>2, <2>3
<1>5. CASE ReceiveChoke \/ ReceiveUnchoke \/ ReceiveBitfield \/ BitfieldInterestSent \/ UpdatePeerStats
  <2>1. /\ conn # "error" /\ conn' # "error" /\ UNCHANGED <<outstanding, dropped>>
    BY <1>5 DEF ReceiveChoke, ReceiveUnchoke, ReceiveBitfield, BitfieldInterestSent,
                UpdatePeerStats, AfterBitfield, Read, EndsWhileReading
  <2>2. Room' \in Nat
    BY RoomThere, PipelineAssumption DEF Room, IsActive, TypeOK
  <2>. QED
    BY <2>1, <2>2 DEF Window!Next, Window!Resize
<1>6. CASE Disconnect
  <2>1. conn # "error" /\ conn' = "error" /\ Room' = 0 /\ UNCHANGED <<outstanding, dropped>>
    BY <1>6 DEF Disconnect, Room, IsActive
  <2>. QED
    BY <2>1 DEF Window!Next, Window!End
<1>7. CASE PeerChokes \/ PeerReads \/ LinkBreaks
  <2>1. dropped \subseteq dropped' /\ UNCHANGED <<outstanding, conn, Room>>
    BY <1>7 DEF PeerChokes, PeerReads, LinkBreaks, PeerSends, Room, IsActive
  <2>2. dropped' \subseteq outstanding
    BY <2>1 DEF EntriesMatchTheWire
  <2>. QED
    BY <2>1, <2>2 DEF Window!Next, Window!Lose
<1>8. ASSUME NEW t \in Tasks, RequestSent(t) \/ \E b \in Blocks : RequestUninterested(t, b)
      PROVE UNCHANGED Window!vars
  BY <1>3, <1>8 DEF RequestSent, RequestUninterested
<1>9. CASE PeerBitfield \/ PeerUnchokes \/ \E b \in Blocks : PeerAnswers(b)
  BY <1>3, <1>9 DEF PeerBitfield, PeerUnchokes, PeerAnswers, PeerSends
<1>10. CASE UNCHANGED vars
  BY <1>3, <1>10 DEF vars
<1>. QED
  BY <1>1, <1>2, <1>4, <1>5, <1>6, <1>7, <1>8, <1>9, <1>10
  DEF Next, SomeRequest, LoopStep, Receive, Window!Next

\* The table of outstanding requests is a window of requests: for any number of
\* coroutines and whatever comes between the two tests of can_request, nothing is
\* asked without room, an answer frees the slot of its own request, and a lost
\* request keeps its slot to the end of the connection.
THEOREM WindowImplemented == Spec => ImplementsWindow
<1>1. Init => Window!Init /\ EndsWhileReading
  BY DEF Init, Window!Init, Room, IsActive, EndsWhileReading
<1>2. Spec => []EndsWhileReading
  BY <1>1, EndsNext, PTL DEF Spec
<1>3. TypeOK /\ TypeOK' /\ EntriesMatchTheWire /\ EntriesMatchTheWire' /\ EndsWhileReading /\ [Next]_vars
      => [Window!Next]_(Window!vars)
  BY WindowStep
<1>. QED
  BY <1>1, <1>2, <1>3, PipelineTypeCorrect, TableMatchesWire, PTL
  DEF Spec, ImplementsWindow, Window!Spec
=============================================================================
