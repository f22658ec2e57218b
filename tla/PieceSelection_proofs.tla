----------------------- MODULE PieceSelection_proofs -----------------------
(***************************************************************************)
(* PieceSelection for any number of peers and pieces: piece_frequency drifts *)
(* by a restore only and never upwards, and the strategies pass over a piece *)
(* only as they say.                                                         *)
(***************************************************************************)
EXTENDS PieceSelection, FiniteSetTheorems, TLAPS

(***************************************************************************)
(* Types.                                                                   *)
(***************************************************************************)
\* The strategies choose pieces.
LEMMA ChosenType == ASSUME TypeOK PROVE Chosen \subseteq Pieces
<1>1. Missing \subseteq Pieces /\ AllMissing \subseteq Pieces
  BY SelectionAssumption DEF Missing, AllMissing
<1>2. Rarest \subseteq Pieces /\ Sequential \subseteq Pieces /\ RoundRobin \subseteq Pieces
  BY <1>1 DEF Rarest, Sequential, InWindow, RoundRobin
<1>. QED
  BY <1>2, SelectionAssumption DEF Chosen, TypeOK

\* Counters stay integers when they are adjusted.
LEMMA RecountedType ==
  ASSUME TypeOK, NEW old, NEW new PROVE Recounted(old, new) \in [Pieces -> Int]
BY DEF TypeOK, Recounted

LEMMA TypeInit == Init => TypeOK
BY DEF Init, TypeOK

LEMMA TypeNext == TypeOK /\ [Next]_vars => TypeOK'
<1>. SUFFICES ASSUME TypeOK, [Next]_vars PROVE TypeOK'
  OBVIOUS
<1>. USE DEF peerVars, runVars
<1>1. ASSUME NEW q \in Peers, Connect(q) PROVE TypeOK'
  BY <1>1 DEF Connect, TypeOK
<1>2. ASSUME NEW q \in Peers, UpdateAvailability(q) PROVE TypeOK'
  <2>1. Head(deferred[q]) \in SUBSET Pieces /\ Tail(deferred[q]) \in Seq(SUBSET Pieces)
    BY <1>2 DEF UpdateAvailability, TypeOK
  <2>2. freq' \in [Pieces -> Int]
    BY <1>2, RecountedType DEF UpdateAvailability
  <2>. QED
    BY <1>2, <2>1, <2>2 DEF UpdateAvailability, TypeOK
<1>3. ASSUME NEW q \in Peers, Disconnect(q) PROVE TypeOK'
  BY <1>3 DEF Disconnect, TypeOK
<1>4. ASSUME NEW q \in Peers, RemovePeer(q) PROVE TypeOK'
  BY <1>4 DEF RemovePeer, TypeOK
<1>5. ASSUME NEW q \in Peers, NEW pieces \in Bitfields, ReadBitfield(q, pieces) PROVE TypeOK'
  <2>1. pieces \in SUBSET Pieces
    BY SelectionAssumption
  <2>2. Append(deferred[q], pieces) \in Seq(SUBSET Pieces)
    BY <2>1 DEF TypeOK
  <2>. QED
    BY <1>5, <2>1, <2>2 DEF ReadBitfield, TypeOK
<1>6. ASSUME NEW q \in Peers, NEW p \in Pieces, ReadHave(q, p) PROVE TypeOK'
  <2>1. freq' \in [Pieces -> Int]
    BY <1>6, RecountedType DEF ReadHave
  <2>. QED
    BY <1>6, <2>1 DEF ReadHave, TypeOK
<1>7. ASSUME NEW q \in Peers, NEW p \in Pieces, ReadPiece(q, p) PROVE TypeOK'
  <2>1. freq' \in [Pieces -> Int]
    BY <1>7, RecountedType DEF ReadPiece
  <2>. QED
    BY <1>7, <2>1 DEF ReadPiece, TypeOK
<1>8. CASE SelectPieces
  BY <1>8, ChosenType DEF SelectPieces, TypeOK
<1>9. ASSUME NEW p \in Pieces, RequestPiece(p) PROVE TypeOK'
  BY <1>9 DEF RequestPiece, PhaseWithoutPeers, TypeOK
<1>10. CASE Restart
  <2>1. phase' \in [Pieces -> {"missing", "requested", "asked"}]
    BY <1>10 DEF Restart
  <2>2. deferred' \in [Peers -> Seq(SUBSET Pieces)]
    BY <1>10 DEF Restart
  <2>3. restarts' \in Nat
    BY <1>10 DEF Restart, TypeOK
  <2>4. before' \subseteq Pieces
    BY <1>10 DEF Restart, Asked, TypeOK
  <2>. QED
    BY <1>10, <2>1, <2>2, <2>3, <2>4 DEF Restart, TypeOK
<1>11. CASE Restore
  <2>1. phase' \in [Pieces -> {"missing", "requested", "asked"}]
    BY <1>11 DEF Restore
  <2>2. before' \subseteq Pieces /\ drifted' \subseteq Pieces
    BY <1>11 DEF Restore, Asked, TypeOK
  <2>. QED
    BY <1>11, <2>1, <2>2 DEF Restore, RestoredFrequency, TypeOK
<1>12. ASSUME NEW q \in Peers, CanRequest(q) \/ CannotRequest(q) PROVE TypeOK'
  BY <1>12 DEF CanRequest, CannotRequest, TypeOK
<1>13. CASE UNCHANGED vars
  BY <1>13 DEF vars, TypeOK
<1>. QED
  BY <1>1, <1>2, <1>3, <1>4, <1>5, <1>6, <1>7, <1>8, <1>9, <1>10, <1>11, <1>12, <1>13 DEF Next

\* Every reachable state is well typed, for every instance.
THEOREM SelectionTypeCorrect == Spec => []TypeOK
BY TypeInit, TypeNext, PTL DEF Spec

(***************************************************************************)
(* The counters.                                                            *)
(***************************************************************************)
Holders(p) == {q \in Peers : p \in avail[q]}

\* Replacing the pieces of one peer moves each count by at most one.
LEMMA CountMoves ==
  ASSUME TypeOK, NEW q \in Peers, NEW new \in SUBSET Pieces, NEW p \in Pieces,
         avail' = [avail EXCEPT ![q] = new]
  PROVE Count(p)' = Count(p) + (IF p \in new \ avail[q] THEN 1 ELSE 0)
                             - (IF p \in avail[q] \ new THEN 1 ELSE 0)
<1>1. IsFiniteSet(Holders(p)) /\ Cardinality(Holders(p)) \in Nat
  BY PeersAssumption, FS_Subset, FS_CardinalityType DEF Holders
<1>2. Count(p) = Cardinality(Holders(p)) /\ Count(p)' = Cardinality(Holders(p)')
  BY DEF Count, Holders
<1>3. CASE p \in new
  <2>1. Holders(p)' = Holders(p) \cup {q}
    BY <1>3 DEF Holders, TypeOK
  <2>2. Cardinality(Holders(p)') = IF q \in Holders(p) THEN Cardinality(Holders(p))
                                                      ELSE Cardinality(Holders(p)) + 1
    BY <1>1, <2>1, FS_AddElement
  <2>. QED
    BY <1>1, <1>2, <1>3, <2>2 DEF Holders
<1>4. CASE p \notin new
  <2>1. Holders(p)' = Holders(p) \ {q}
    BY <1>4 DEF Holders, TypeOK
  <2>2. Cardinality(Holders(p)') = IF q \in Holders(p) THEN Cardinality(Holders(p)) - 1
                                                      ELSE Cardinality(Holders(p))
    BY <1>1, <2>1, FS_RemoveElement
  <2>. QED
    BY <1>1, <1>2, <1>4, <2>2 DEF Holders
<1>. QED
  BY <1>3, <1>4

\* Counts are numbers of peers.
LEMMA CountIsNat == ASSUME NEW p \in Pieces PROVE Count(p) \in Nat /\ Count(p)' \in Nat
<1>1. \A S \in SUBSET Peers : Cardinality(S) \in Nat
  BY PeersAssumption, FS_Subset, FS_CardinalityType
<1>. QED
  BY <1>1 DEF Count

\* So adjusting the counters by the same differences keeps their distance.
LEMMA RecountedIsExact ==
  ASSUME TypeOK, FrequencyCounts, NEW q \in Peers, NEW new \in SUBSET Pieces,
         avail' = [avail EXCEPT ![q] = new], freq' = Recounted(avail[q], new),
         drifted' = drifted
  PROVE FrequencyCounts'
<1>. SUFFICES ASSUME NEW p \in Pieces
              PROVE freq'[p] <= Count(p)' /\ (p \notin drifted => freq'[p] = Count(p)')
  BY DEF FrequencyCounts
<1>1. freq'[p] = freq[p] + (IF p \in new \ avail[q] THEN 1 ELSE 0)
                         - (IF p \in avail[q] \ new THEN 1 ELSE 0)
  BY DEF Recounted
<1>2. Count(p)' = Count(p) + (IF p \in new \ avail[q] THEN 1 ELSE 0)
                           - (IF p \in avail[q] \ new THEN 1 ELSE 0)
  BY CountMoves
<1>3. /\ freq[p] <= Count(p) /\ (p \notin drifted => freq[p] = Count(p))
      /\ freq[p] \in Int /\ Count(p) \in Nat
  BY CountIsNat DEF FrequencyCounts, TypeOK
<1>. QED
  BY <1>1, <1>2, <1>3

LEMMA FrequencyNext == TypeOK /\ FrequencyCounts /\ [Next]_vars => FrequencyCounts'
<1>. SUFFICES ASSUME TypeOK, FrequencyCounts, [Next]_vars PROVE FrequencyCounts'
  OBVIOUS
<1>. USE DEF peerVars, runVars
<1>1. ASSUME UNCHANGED <<avail, freq, drifted>> PROVE FrequencyCounts'
  BY <1>1 DEF FrequencyCounts, Count
<1>2. ASSUME NEW q \in Peers, UpdateAvailability(q) PROVE FrequencyCounts'
  <2>1. Head(deferred[q]) \in SUBSET Pieces
    BY <1>2 DEF UpdateAvailability, TypeOK
  <2>. QED
    BY <1>2, <2>1, RecountedIsExact DEF UpdateAvailability
<1>3. ASSUME NEW q \in Peers, NEW p \in Pieces, ReadHave(q, p) \/ ReadPiece(q, p)
      PROVE FrequencyCounts'
  <2>1. avail[q] \cup {p} \in SUBSET Pieces
    BY DEF TypeOK
  <2>2. /\ avail' = [avail EXCEPT ![q] = avail[q] \cup {p}]
        /\ freq' = Recounted(avail[q], avail[q] \cup {p})
        /\ drifted' = drifted
    BY <1>3 DEF ReadHave, ReadPiece
  <2>. QED
    BY <2>1, <2>2, RecountedIsExact
<1>4. ASSUME NEW q \in Peers, RemovePeer(q) PROVE FrequencyCounts'
  <2>. SUFFICES ASSUME NEW p \in Pieces
                PROVE freq'[p] <= Count(p)' /\ (p \notin drifted => freq'[p] = Count(p)')
    BY <1>4 DEF FrequencyCounts, RemovePeer
  <2>1. Count(p)' = Count(p) - (IF p \in avail[q] THEN 1 ELSE 0)
    <3>1. Count(p)' = Count(p) + (IF p \in {} \ avail[q] THEN 1 ELSE 0)
                               - (IF p \in avail[q] \ {} THEN 1 ELSE 0)
      BY <1>4, CountMoves DEF RemovePeer
    <3>. QED
      BY <3>1, CountIsNat
  <2>2. /\ Count(p) \in Nat /\ Count(p)' \in Nat /\ freq[p] \in Int
        /\ freq[p] <= Count(p) /\ (p \notin drifted => freq[p] = Count(p))
    BY CountIsNat DEF FrequencyCounts, TypeOK
  <2>3. freq'[p] = IF p \in avail[q] THEN (IF freq[p] > 1 THEN freq[p] - 1 ELSE 0) ELSE freq[p]
    BY <1>4 DEF RemovePeer
  <2>. QED
    BY <2>1, <2>2, <2>3
<1>5. CASE Restart
  <2>1. \A p \in Pieces : Holders(p)' = {}
    BY <1>5 DEF Restart, Holders
  <2>2. \A p \in Pieces : Count(p)' = 0
    BY <2>1, FS_EmptySet DEF Count, Holders
  <2>. QED
    BY <1>5, <2>2 DEF Restart, FrequencyCounts
<1>6. CASE Restore
  <2>. SUFFICES ASSUME NEW p \in Pieces
                PROVE freq'[p] <= Count(p)' /\ (p \notin drifted' => freq'[p] = Count(p)')
    BY DEF FrequencyCounts
  <2>1. freq'[p] = 0 /\ Count(p)' = Count(p)
    BY <1>6 DEF Restore, RestoredFrequency, Count
  <2>2. p \notin drifted' => ~(Count(p) > 0)
    BY <1>6 DEF Restore
  <2>. QED
    BY <2>1, <2>2, CountIsNat
<1>7. ASSUME \/ SelectPieces \/ UNCHANGED vars
             \/ \E q \in Peers : Connect(q) \/ Disconnect(q) \/ CanRequest(q) \/ CannotRequest(q)
             \/ \E q \in Peers, pieces \in Bitfields : ReadBitfield(q, pieces)
             \/ \E p \in Pieces : RequestPiece(p)
      PROVE FrequencyCounts'
  BY <1>1, <1>7 DEF SelectPieces, vars, Connect, Disconnect, CanRequest, CannotRequest,
     ReadBitfield, RequestPiece
<1>. QED
  BY <1>2, <1>3, <1>4, <1>5, <1>6, <1>7 DEF Next

\* piece_frequency is the number of peers recorded with the piece, but for the
\* pieces recorded when a restore replaced it; there it is never more.
THEOREM FrequencyIsExact == Spec => []FrequencyCounts
<1>1. Init => FrequencyCounts
  <2>. SUFFICES ASSUME Init, NEW p \in Pieces PROVE freq[p] = 0 /\ Count(p) = 0
    BY DEF FrequencyCounts
  <2>1. {q \in Peers : p \in avail[q]} = {}
    BY DEF Init
  <2>. QED
    BY <2>1, FS_EmptySet DEF Init, Count
<1>. QED
  BY <1>1, FrequencyNext, SelectionTypeCorrect, PTL DEF Spec

(***************************************************************************)
(* The strategies.                                                          *)
(***************************************************************************)
\* The pieces before a better piece are fewer.
LEMMA BetterIsFewer ==
  ASSUME TypeOK, NEW p \in Missing, NEW r \in Missing, Better(r, p), p \in Rarest
  PROVE r \in Rarest
<1>. DEFINE Before(x) == {y \in Missing : Better(y, x)}
<1>1. Missing \subseteq Pieces
  BY SelectionAssumption DEF Missing
<1>2. \A x \in Missing : Score(x) \in Int /\ x \in Int
  BY <1>1, SelectionAssumption, PiecesAssumption DEF Score, TypeOK
<1>3. Before(r) \subseteq Before(p)
  BY <1>2 DEF Better
<1>4. IsFiniteSet(Missing)
  BY <1>1, PiecesAssumption, FS_Subset
<1>5. IsFiniteSet(Before(p)) /\ IsFiniteSet(Before(r))
  BY <1>4, FS_Subset
<1>6. Cardinality(Before(r)) <= Cardinality(Before(p))
  BY <1>3, <1>5, FS_Subset
<1>7. Cardinality(Before(r)) \in Nat /\ Cardinality(Before(p)) \in Nat
  BY <1>5, FS_CardinalityType
<1>8. Cardinality(Before(p)) < TopK
  BY DEF Rarest
<1>9. Cardinality(Before(r)) < TopK
  BY <1>6, <1>7, <1>8, SelectionAssumption
<1>. QED
  BY <1>9 DEF Rarest

RarestStep ==
  strategy = "rarest_first" =>
    \A p \in created' \ created, r \in Missing \ created' :
       Priority[r] >= Priority[p] => freq[p] <= freq[r]

LEMMA RarestNext == ASSUME TypeOK, [Next]_vars PROVE RarestStep
<1>. USE DEF peerVars, runVars
<1>1. CASE SelectPieces
  <2>. SUFFICES ASSUME strategy = "rarest_first",
                       NEW p \in created' \ created, NEW r \in Missing \ created',
                       Priority[r] >= Priority[p], ~(freq[p] <= freq[r])
                PROVE FALSE
    BY DEF RarestStep
  <2>1. p \in Rarest /\ r \notin Rarest
    BY <1>1 DEF SelectPieces, Chosen
  <2>2. p \in Pieces /\ r \in Pieces /\ p \in Missing
    BY <2>1, SelectionAssumption DEF Rarest, Missing
  <2>3. Better(r, p)
    BY <2>2, SelectionAssumption DEF Better, Score, TypeOK
  <2>. QED
    BY <2>1, <2>2, <2>3, BetterIsFewer
<1>2. ASSUME created' \subseteq created PROVE RarestStep
  BY <1>2 DEF RarestStep
<1>3. ASSUME \/ UNCHANGED vars \/ Restart \/ Restore \/ \E p \in Pieces : RequestPiece(p)
             \/ \E q \in Peers : Connect(q) \/ Disconnect(q) \/ CanRequest(q) \/ CannotRequest(q)
             \/ \E q \in Peers : UpdateAvailability(q) \/ RemovePeer(q)
             \/ \E q \in Peers, pieces \in Bitfields : ReadBitfield(q, pieces)
             \/ \E q \in Peers, p \in Pieces : ReadHave(q, p) \/ ReadPiece(q, p)
      PROVE created' \subseteq created
  BY <1>3 DEF vars, Restart, Restore, RequestPiece, Connect, Disconnect, CanRequest,
     CannotRequest, UpdateAvailability, RemovePeer, ReadBitfield, ReadHave, ReadPiece
<1>. QED
  BY <1>1, <1>2, <1>3 DEF Next

\* Rarest-first passes over a missing piece only for one that is no more common,
\* or that has a higher priority.
THEOREM RarestFirstIsRarestFirst == Spec => RarestComesFirst
<1>1. TypeOK /\ [Next]_vars => [RarestStep]_vars
  BY RarestNext
<1>2. RarestComesFirst <=> [][RarestStep]_vars
  BY DEF RarestComesFirst, RarestStep
<1>. QED
  BY <1>1, <1>2, SelectionTypeCorrect, PTL DEF Spec

WindowStep ==
  strategy = "sequential" =>
    \A p \in created' \ created, r \in Missing \ created' :
       r < p => p < r + Window /\ FileOrder[p] < FileOrder[r]

\* What lies before a piece of the window lies in the window, and the piece
\* chosen there comes before all others in the order of files.
LEMMA WindowNext == ASSUME TypeOK, [Next]_vars PROVE WindowStep
<1>. USE DEF peerVars, runVars
<1>1. CASE SelectPieces
  <2>. SUFFICES ASSUME strategy = "sequential",
                       NEW p \in created' \ created, NEW r \in Missing \ created', r < p
                PROVE p < r + Window /\ FileOrder[p] < FileOrder[r]
    BY DEF WindowStep
  <2>1. p \in Sequential
    BY <1>1 DEF SelectPieces, Chosen
  <2>2. Missing \subseteq Nat /\ Missing \subseteq Pieces
    BY SelectionAssumption, PiecesAssumption DEF Missing
  <2>3. p \in Missing /\ \A q \in Missing : p < q + Window
    BY <2>1 DEF Sequential, InWindow
  <2>4. r \in InWindow \ {p}
    BY <2>2, <2>3, SelectionAssumption DEF InWindow
  <2>5. Earlier(p, r)
    BY <2>1, <2>4 DEF Sequential
  <2>. QED
    BY <2>2, <2>3, <2>5, SelectionAssumption DEF Earlier
<1>2. ASSUME created' \subseteq created PROVE WindowStep
  BY <1>2 DEF WindowStep
<1>3. ASSUME \/ UNCHANGED vars \/ Restart \/ Restore \/ \E p \in Pieces : RequestPiece(p)
             \/ \E q \in Peers : Connect(q) \/ Disconnect(q) \/ CanRequest(q) \/ CannotRequest(q)
             \/ \E q \in Peers : UpdateAvailability(q) \/ RemovePeer(q)
             \/ \E q \in Peers, pieces \in Bitfields : ReadBitfield(q, pieces)
             \/ \E q \in Peers, p \in Pieces : ReadHave(q, p) \/ ReadPiece(q, p)
      PROVE created' \subseteq created
  BY <1>3 DEF vars, Restart, Restore, RequestPiece, Connect, Disconnect, CanRequest,
     CannotRequest, UpdateAvailability, RemovePeer, ReadBitfield, ReadHave, ReadPiece
<1>. QED
  BY <1>1, <1>2, <1>3 DEF Next

\* Sequential selection passes over a missing piece only for one that is less
\* than a window away and belongs to an earlier selected file.
THEOREM SequentialKeepsToWindow == Spec => PassesOverOnlyInWindow
<1>1. TypeOK /\ [Next]_vars => [WindowStep]_vars
  BY WindowNext
<1>2. PassesOverOnlyInWindow <=> [][WindowStep]_vars
  BY DEF PassesOverOnlyInWindow, WindowStep
<1>. QED
  BY <1>1, <1>2, SelectionTypeCorrect, PTL DEF Spec

\* The counters are well typed and drift from the recorded peers by a restore
\* over a live manager only, and only downwards.
THEOREM SoundCounters == Spec => []CountersAreSound
BY SelectionTypeCorrect, FrequencyIsExact, PTL DEF CountersAreSound
=============================================================================
