------------------------- MODULE PieceManager_proofs ------------------------
(***************************************************************************)
(* What PieceManager guarantees for any number of pieces, blocks, peers and *)
(* coroutines: its type, that only authentic data is ever vouched for, that *)
(* one coroutine at a time requests a piece, and that it implements         *)
(* VerifiedStore.                                                           *)
(***************************************************************************)
EXTENDS PieceManager, FiniteSetTheorems, TLAPS

(***************************************************************************)
(* Types.                                                                   *)
(***************************************************************************)
\* The selector's repair yields states.
LEMMA RepairedType == ASSUME TypeOK PROVE Repaired \in [Pieces -> PieceState]
BY DEF TypeOK, Repaired, PieceState, Done

\* A request plan pairs missing blocks with sources.
LEMMA PlanType ==
  ASSUME NEW order, NEW blocks, NEW peers
  PROVE NormalPlan(order, blocks, peers) \subseteq blocks \X peers
BY DEF NormalPlan

\* A restore yields states, and COMPLETE or VERIFIED only where the blocks are all
\* there or the state was restored to what it was.
LEMMA RestoredType ==
  ASSUME TypeOK, ckpt # NoCheckpoint, NEW p \in Pieces
  PROVE /\ RestoredState(p) \in PieceState
        /\ RestoredState(p) \in Done => IsComplete(p) \/ RestoredState(p) = state[p]
<1>1. ckpt.state[p] \in PieceState /\ state[p] \in PieceState
  BY DEF TypeOK, Checkpoint
<1>. QED
  BY <1>1 DEF RestoredState, PieceState, Done

LEMMA TypeInit == Init => TypeOK
<1>. SUFFICES ASSUME Init PROVE TypeOK
  OBVIOUS
<1>1. Idle \in Task /\ NoCheckpoint \in Checkpoint
  BY DEF Task, Checkpoint
<1>2. task \in [Tasks -> Task] /\ ckpt \in Checkpoint
  BY <1>1 DEF Init
<1>. QED
  BY <1>2 DEF Init, TypeOK, PieceState, Content

LEMMA TypeNext == TypeOK /\ [Next]_vars => TypeOK'
<1>. SUFFICES ASSUME TypeOK, [Next]_vars PROVE TypeOK'
  OBVIOUS
<1>. USE DEF pieceVars, reqVars, hashVars, peerVars, diskVars, histVars, restVars
<1>1. CASE SelectPieces
  BY <1>1, RepairedType DEF SelectPieces, TypeOK, EndgameReached
<1>2. ASSUME NEW p \in Pieces, RequestSkipped(p) PROVE TypeOK'
  BY <1>2 DEF RequestSkipped, TypeOK
<1>3. ASSUME NEW p \in Pieces, RequestWithoutPeers(p) PROVE TypeOK'
  BY <1>3 DEF RequestWithoutPeers, TypeOK
<1>4. ASSUME NEW t \in Tasks, NEW p \in Pieces, BeginRequest(t, p) PROVE TypeOK'
  <2>1. /\ state' \in [Pieces -> PieceState]
        /\ created' \in [Pieces -> Nat]
    BY <1>4 DEF BeginRequest, TypeOK, PieceState
  <2>2. task' \in [Tasks -> Task]
    <3>1. CASE task' = task
      BY <3>1 DEF TypeOK
    <3>2. CASE \E order \in Orders(SourcesOf(p)) :
                 task' = [task EXCEPT ![t] =
                   [pc |-> "sending", piece |-> p, sources |-> SourcesOf(p),
                    left |-> IF endgame THEN MissingBlocks(p) ELSE {},
                    todo |-> IF endgame THEN {}
                             ELSE NormalPlan(order, MissingBlocks(p), SourcesOf(p))]]
      <4>1. SourcesOf(p) \subseteq Peers /\ MissingBlocks(p) \subseteq Blocks
        BY DEF SourcesOf, MissingBlocks, TypeOK
      <4>2. PICK order \in Orders(SourcesOf(p)) :
                 task' = [task EXCEPT ![t] =
                   [pc |-> "sending", piece |-> p, sources |-> SourcesOf(p),
                    left |-> IF endgame THEN MissingBlocks(p) ELSE {},
                    todo |-> IF endgame THEN {}
                             ELSE NormalPlan(order, MissingBlocks(p), SourcesOf(p))]]
        BY <3>2
      <4>3. NormalPlan(order, MissingBlocks(p), SourcesOf(p)) \subseteq Blocks \X Peers
        BY <4>1, PlanType
      <4>. QED
        BY <4>1, <4>2, <4>3 DEF TypeOK, Task
    <3>. QED
      BY <1>4, <3>1, <3>2 DEF BeginRequest
  <2>. QED
    BY <1>4, <2>1, <2>2 DEF BeginRequest, TypeOK
<1>5. ASSUME NEW t \in Tasks, EndgameBlock(t) PROVE TypeOK'
  <2>1. PICK b \in task[t].left, dups \in SUBSET (task[t].sources \cap ready) :
          task' = [task EXCEPT ![t].left = @ \ {b}, ![t].todo = {b} \X dups]
    BY <1>5 DEF EndgameBlock
  <2>2. task[t] \in [pc : {"sending"}, piece : Pieces, sources : SUBSET Peers,
                     left : SUBSET Blocks, todo : SUBSET (Blocks \X Peers)]
    BY <1>5 DEF EndgameBlock, TypeOK, Task
  <2>3. {b} \X dups \subseteq Blocks \X Peers
    BY <2>1, <2>2
  <2>4. task' \in [Tasks -> Task]
    BY <2>1, <2>2, <2>3 DEF TypeOK, Task
  <2>. QED
    BY <1>5, <2>4 DEF EndgameBlock, TypeOK
<1>6. ASSUME NEW t \in Tasks, SendRequest(t) PROVE TypeOK'
  <2>1. PICK bq \in task[t].todo :
          /\ task' = [task EXCEPT ![t].todo = @ \ {bq}]
          /\ asked' = IF bq[2] \in ready
                      THEN [asked EXCEPT ![task[t].piece] = @ \cup {bq[1]}]
                      ELSE asked
    BY <1>6 DEF SendRequest
  <2>2. task[t] \in [pc : {"sending"}, piece : Pieces, sources : SUBSET Peers,
                     left : SUBSET Blocks, todo : SUBSET (Blocks \X Peers)]
    BY <1>6 DEF SendRequest, TypeOK, Task
  <2>3. task' \in [Tasks -> Task] /\ asked' \in [Pieces -> SUBSET Blocks]
    BY <2>1, <2>2 DEF TypeOK, Task
  <2>. QED
    BY <1>6, <2>3 DEF SendRequest, TypeOK
<1>7. ASSUME NEW t \in Tasks, SendFails(t) PROVE TypeOK'
  BY <1>7 DEF SendFails, TypeOK, Task
<1>8. ASSUME NEW t \in Tasks, FinishRequest(t) PROVE TypeOK'
  BY <1>8 DEF FinishRequest, TypeOK, Task, PieceState
<1>9. ASSUME NEW q \in Peers, NEW p \in Pieces, NEW b \in Blocks,
             NEW c \in {"good", "bad"}, ReceiveBlock(q, p, b, c)
      PROVE TypeOK'
  <2>1. /\ received' \in [Pieces -> [Blocks -> Content]]
        /\ hashing' \in [Pieces -> Nat]
        /\ avail' \in [Peers -> SUBSET Pieces]
    BY <1>9 DEF ReceiveBlock, TypeOK, Content, VerifyScheduled
  <2>2. state' \in [Pieces -> PieceState] /\ completed' \subseteq Pieces
    BY <1>9 DEF ReceiveBlock, TypeOK, PieceState
  <2>. QED
    BY <1>9, <2>1, <2>2 DEF ReceiveBlock, TypeOK
<1>10. ASSUME NEW p \in Pieces, HashPiece(p) PROVE TypeOK'
  BY <1>10 DEF HashPiece, TypeOK
<1>11. ASSUME NEW p \in Pieces, ApplyVerified(p) PROVE TypeOK'
  BY <1>11 DEF ApplyVerified, TypeOK, PieceState, AllVerified
<1>12. ASSUME NEW q \in Peers,
              \/ PeerConnects(q) \/ PeerUnchokes(q) \/ PeerChokes(q) \/ PeerDisconnects(q)
       PROVE TypeOK'
  BY <1>12 DEF PeerConnects, PeerUnchokes, PeerChokes, PeerDisconnects, TypeOK
<1>13. ASSUME NEW q \in Peers, NEW pieces \in Bitfields, PeerBitfield(q, pieces)
       PROVE TypeOK'
  BY <1>13, NeededAssumption DEF PeerBitfield, TypeOK
<1>14. CASE SaveCheckpoint
  BY <1>14 DEF SaveCheckpoint, TypeOK, Checkpoint
<1>15. CASE Restart
  <2>1. /\ state' \in [Pieces -> PieceState]
        /\ received' \in [Pieces -> [Blocks -> Content]]
        /\ task' \in [Tasks -> Task]
    BY <1>15 DEF Restart, PieceState, Content, Task
  <2>2. /\ created' \in [Pieces -> Nat] /\ hashing' \in [Pieces -> Nat]
        /\ hashOk' \in [Pieces -> Nat] /\ asked' \in [Pieces -> SUBSET Blocks]
        /\ avail' \in [Peers -> SUBSET Pieces]
    BY <1>15 DEF Restart
  <2>3. /\ completed' = {} /\ verified' = {} /\ undone' = {} /\ believed' = {}
        /\ downloadComplete' = FALSE /\ endgame' = FALSE /\ active' = {} /\ ready' = {}
    BY <1>15 DEF Restart
  <2>4. ckpt' \in Checkpoint /\ saves' \in Nat /\ restores' \in Nat /\ restarts' \in Nat
    BY <1>15 DEF Restart, TypeOK
  <2>. QED
    BY <2>1, <2>2, <2>3, <2>4 DEF TypeOK
<1>17. CASE Restore
  <2>1. state' \in [Pieces -> PieceState]
    BY <1>17, RestoredType DEF Restore
  <2>2. completed' \subseteq Pieces /\ verified' \subseteq Pieces
    BY <1>17 DEF Restore, RestoredVerified, RestoredCompleted
  <2>3. undone' \subseteq Pieces /\ believed' \subseteq Pieces
    BY <1>17 DEF Restore, TypeOK, RestoredVerified
  <2>4. endgame' \in BOOLEAN /\ restores' \in Nat
    BY <1>17 DEF Restore, TypeOK, Checkpoint
  <2>5. UNCHANGED <<received, downloadComplete, created, task, asked, hashing, hashOk,
                    avail, active, ready, ckpt, saves, restarts>>
    BY <1>17 DEF Restore
  <2>. QED
    BY <2>1, <2>2, <2>3, <2>4, <2>5 DEF TypeOK
<1>16. CASE UNCHANGED vars
  BY <1>16 DEF TypeOK, vars
<1>. QED
  BY <1>1, <1>2, <1>3, <1>4, <1>5, <1>6, <1>7, <1>8, <1>9, <1>10, <1>11, <1>12,
     <1>13, <1>14, <1>15, <1>16, <1>17 DEF Next, ReceiveGood, ReceiveBad

\* Every reachable state is well typed, for every instance.
THEOREM TypeCorrect == Spec => []TypeOK
BY TypeInit, TypeNext, PTL DEF Spec

(***************************************************************************)
(* Safety.  The invariants of the runs are proved together with PieceInv,   *)
(* because they lean on one another: OneRequester on the states of pieces   *)
(* being requested, VerifiedIsAuthentic on the hashes that matched,         *)
(* StatesMatchBlocks on blocks that are never lost.                         *)
(***************************************************************************)
Safe == /\ PieceInv /\ VerifiedIsAuthentic /\ StatesMatchBlocks
        /\ OneRequester /\ NoVerificationLost /\ CompleteMeansAll /\ CheckpointInv

\* The selector has nothing to repair.
LEMMA NothingToRepair ==
  ASSUME TypeOK, StatesMatchBlocks PROVE Repaired = state
BY DEF TypeOK, StatesMatchBlocks, Repaired

\* A step that receives nothing changes neither completeness nor authenticity.
LEMMA SameBlocks ==
  ASSUME received' = received
  PROVE \A p : (IsComplete(p)' <=> IsComplete(p)) /\ (Authentic(p)' <=> Authentic(p))
BY DEF IsComplete, Authentic

\* The checkpoint stays right as long as nothing that is authentic or announced
\* is lost.
LEMMA CheckpointFrame ==
  ASSUME TypeOK, CheckpointInv, UNCHANGED <<ckpt, restarts, believed>>,
         downloadComplete => downloadComplete',
         \A p \in Pieces : Authentic(p) => Authentic(p)'
  PROVE  CheckpointInv'
<1>1. ckpt # NoCheckpoint => ckpt.verified \subseteq Pieces
  BY DEF TypeOK, Checkpoint
<1>. QED
  BY <1>1 DEF CheckpointInv

\* A step that touches neither pieces nor tasks nor hashes keeps Safe.
LEMMA SafeFrame ==
  ASSUME TypeOK, Safe, UNCHANGED <<pieceVars, task, hashing, hashOk, undone, believed, ckpt, restarts>>
  PROVE  Safe'
<1>1. CheckpointInv'
  BY CheckpointFrame, SameBlocks DEF Safe, pieceVars
<1>. QED
  BY <1>1 DEF Safe, pieceVars, PieceInv, VerifiedIsAuthentic, StatesMatchBlocks, OneRequester,
       NoVerificationLost, CompleteMeansAll, IsComplete, Authentic

\* All pieces are verified when as many pieces are verified as there are.
LEMMA CountIsAll ==
  ASSUME NEW S \in SUBSET Pieces
  PROVE AllVerified(S) <=> S = Pieces
BY PiecesAssumption, FS_Subset DEF AllVerified

LEMMA SafeInit == Init => Safe
<1>. SUFFICES ASSUME Init PROVE Safe
  OBVIOUS
<1>1. \A p \in Pieces : ~IsComplete(p) /\ ~Authentic(p)
  BY BlocksAssumption DEF Init, IsComplete, Authentic
<1>2. PieceInv
  BY <1>1, PiecesAssumption DEF Init, PieceInv
<1>3. VerifiedIsAuthentic /\ StatesMatchBlocks /\ OneRequester /\ NoVerificationLost
  BY <1>1 DEF Init, VerifiedIsAuthentic, StatesMatchBlocks, OneRequester,
              NoVerificationLost, Done
<1>4. CompleteMeansAll /\ CheckpointInv
  BY DEF Init, CompleteMeansAll, CheckpointInv
<1>. QED
  BY <1>2, <1>3, <1>4 DEF Safe

\* Sending requests: the piece of a coroutine is not MISSING, and a new
\* coroutine begins only for a piece that is.
LEMMA SafeRequests ==
  ASSUME TypeOK, Safe, NEW t \in Tasks,
         \/ \E p \in Pieces : BeginRequest(t, p)
         \/ EndgameBlock(t) \/ SendRequest(t) \/ SendFails(t) \/ FinishRequest(t)
  PROVE Safe'
<1>. USE DEF hashVars, restVars, histVars, diskVars
<1>1. \A u \in Tasks : task[u] # Idle => task[u].piece \in Pieces
  BY DEF TypeOK, Task
<1>2. ASSUME NEW p \in Pieces, BeginRequest(t, p) PROVE Safe'
  <2>1. /\ task[t] = Idle /\ state[p] = "MISSING" /\ (~IsComplete(p) \/ p \in undone)
        /\ UNCHANGED <<received, completed, verified, downloadComplete, hashing, hashOk,
                       undone, believed, ckpt, restarts>>
        /\ state' = [state EXCEPT ![p] = "REQUESTED"]
    BY <1>2 DEF BeginRequest, Requestable, Safe, PieceInv
  <2>2. \A u \in Tasks : /\ u # t => task'[u] = task[u]
                         /\ task'[t] # Idle => task'[t].piece = p
    BY <1>2 DEF BeginRequest, TypeOK, Idle
  <2>3. \A q \in Pieces : (IsComplete(q)' <=> IsComplete(q)) /\ (Authentic(q)' <=> Authentic(q))
    BY <2>1, SameBlocks
  <2>10. \A q \in Pieces : state'[q] = IF q = p THEN "REQUESTED" ELSE state[q]
    BY <2>1 DEF TypeOK
  <2>4. PieceInv'
    <3>1. \A u \in Tasks : task'[u] # Idle => state'[task'[u].piece] # "MISSING" \/ task'[u].piece \in undone'
      BY <1>1, <2>1, <2>2, <2>10 DEF Safe, PieceInv
    <3>. QED
      BY <2>1, <2>3, <2>10, <3>1 DEF Safe, PieceInv, TypeOK
  <2>5. VerifiedIsAuthentic' /\ NoVerificationLost' /\ StatesMatchBlocks' /\ CompleteMeansAll'
    <3>2. VerifiedIsAuthentic'
      BY <2>1, <2>3, <2>10 DEF Safe, VerifiedIsAuthentic
    <3>3. NoVerificationLost' /\ CompleteMeansAll'
      BY <2>1, <2>3 DEF Safe, NoVerificationLost, CompleteMeansAll
    <3>4. StatesMatchBlocks'
      BY <2>1, <2>3, <2>10 DEF Safe, StatesMatchBlocks, Done
    <3>. QED
      BY <3>2, <3>3, <3>4
  <2>6. OneRequester'
    BY <1>1, <2>1, <2>2 DEF Safe, OneRequester, PieceInv
  <2>7. CheckpointInv'
    BY <2>1, <2>3, CheckpointFrame DEF Safe
  <2>. QED
    BY <2>4, <2>5, <2>6, <2>7 DEF Safe
<1>3. ASSUME EndgameBlock(t) \/ SendRequest(t) \/ SendFails(t) PROVE Safe'
  <2>1. /\ task[t] # Idle
        /\ UNCHANGED <<pieceVars, hashing, hashOk, undone, believed, ckpt, restarts>>
    BY <1>3 DEF EndgameBlock, SendRequest, SendFails
  <2>2. \A u \in Tasks : /\ task'[u] # Idle => task[u] # Idle
                         /\ task'[u] # Idle => task'[u].piece = task[u].piece
    <3>1. task[t] \in [pc : {"sending"}, piece : Pieces, sources : SUBSET Peers,
                       left : SUBSET Blocks, todo : SUBSET (Blocks \X Peers)]
      BY <2>1 DEF TypeOK, Task
    <3>2. CASE EndgameBlock(t)
      <4>1. PICK b \in task[t].left, dups \in SUBSET (task[t].sources \cap ready) :
              task' = [task EXCEPT ![t].left = @ \ {b}, ![t].todo = {b} \X dups]
        BY <3>2 DEF EndgameBlock
      <4>2. /\ task'[t].piece = task[t].piece
            /\ \A u \in Tasks \ {t} : task'[u] = task[u]
        BY <3>1, <4>1 DEF TypeOK
      <4>. QED
        BY <2>1, <4>2
    <3>3. CASE SendRequest(t)
      BY <2>1, <3>1, <3>3 DEF SendRequest, TypeOK
    <3>4. CASE SendFails(t)
      BY <3>4 DEF SendFails, TypeOK
    <3>. QED
      BY <1>3, <3>2, <3>3, <3>4
  <2>3. CheckpointInv'
    BY <2>1, CheckpointFrame, SameBlocks DEF Safe, pieceVars
  <2>. QED
    BY <2>1, <2>2, <2>3 DEF Safe, pieceVars, PieceInv, VerifiedIsAuthentic, StatesMatchBlocks,
         OneRequester, NoVerificationLost, CompleteMeansAll, IsComplete, Authentic
<1>5. ASSUME FinishRequest(t) PROVE Safe'
  <2>1. /\ UNCHANGED <<received, completed, verified, downloadComplete, hashing, hashOk,
                       undone, believed, ckpt, restarts>>
        /\ task[t] # Idle
        /\ state' = [state EXCEPT ![task[t].piece] = "DOWNLOADING"]
    BY <1>5 DEF FinishRequest
  <2>2. \A u \in Tasks : task'[u] # Idle => task'[u] = task[u]
    BY <1>5 DEF FinishRequest, TypeOK
  <2>3. \A q \in Pieces : (IsComplete(q)' <=> IsComplete(q)) /\ (Authentic(q)' <=> Authentic(q))
    BY <2>1, SameBlocks
  <2>4. \A q \in Pieces : state'[q] = state[q] \/ state'[q] = "DOWNLOADING"
    BY <1>1, <2>1 DEF TypeOK
  <2>5. PieceInv'
    BY <1>1, <2>1, <2>2, <2>3, <2>4 DEF Safe, PieceInv
  <2>6. VerifiedIsAuthentic' /\ NoVerificationLost' /\ StatesMatchBlocks' /\ CompleteMeansAll'
    BY <2>1, <2>3, <2>4 DEF Safe, VerifiedIsAuthentic, NoVerificationLost, StatesMatchBlocks,
       CompleteMeansAll, Done
  <2>7. OneRequester'
    BY <2>1, <2>2 DEF Safe, OneRequester
  <2>8. CheckpointInv'
    BY <2>1, <2>3, CheckpointFrame DEF Safe
  <2>. QED
    BY <2>5, <2>6, <2>7, <2>8 DEF Safe
<1>. QED
  BY <1>2, <1>3, <1>5

\* An accepted block: the piece gains a block and a verification that will see
\* it; with the last block it becomes COMPLETE.
LEMMA SafeReceive ==
  ASSUME TypeOK, Safe, NEW q \in Peers, NEW p \in Pieces, NEW b \in Blocks,
         NEW c \in {"good", "bad"}, ReceiveBlock(q, p, b, c)
  PROVE Safe'
<1>1. /\ received[p][b] = "none"
      /\ received' = [received EXCEPT ![p][b] = c]
      /\ hashing' = [hashing EXCEPT ![p] = @ + 1]
      /\ UNCHANGED <<verified, downloadComplete, task, hashOk, undone, believed, ckpt, restarts>>
  BY DEF ReceiveBlock, Accepts, VerifyScheduled, reqVars, restVars, histVars, diskVars
<1>2. \A r \in Pieces \ {p} : /\ IsComplete(r)' <=> IsComplete(r)
                              /\ Authentic(r)' <=> Authentic(r)
  BY <1>1 DEF IsComplete, Authentic, TypeOK
<1>3. ~IsComplete(p) /\ ~Authentic(p) /\ hashing'[p] > 0
  BY <1>1 DEF IsComplete, Authentic, TypeOK
<1>6. p \notin believed
  BY <1>3 DEF Safe, PieceInv
<1>7. CheckpointInv'
  BY <1>1, <1>2, <1>3, CheckpointFrame DEF Safe
<1>8. CompleteMeansAll'
  BY <1>1, <1>2, <1>3, <1>6 DEF Safe, CompleteMeansAll
<1>9. OneRequester'
  BY <1>1 DEF Safe, OneRequester
<1>10. NoVerificationLost'
  <2>1. \A r \in Pieces \ {p} : hashing'[r] = hashing[r]
    BY <1>1 DEF TypeOK
  <2>. QED
    BY <1>1, <1>2, <1>3, <2>1 DEF Safe, NoVerificationLost
<1>4. CASE MissingBlocks(p) = {b}
  <2>1. state' = [state EXCEPT ![p] = "COMPLETE"] /\ completed' = completed \cup {p}
    BY <1>4 DEF ReceiveBlock, LastBlock
  <2>2. IsComplete(p)'
    BY <1>1, <1>4 DEF MissingBlocks, IsComplete, TypeOK
  <2>6. \A r \in Pieces : state'[r] = IF r = p THEN "COMPLETE" ELSE state[r]
    BY <2>1 DEF TypeOK
  <2>3. PieceInv'
    <3>1. \A u \in Tasks : task'[u] # Idle => state'[task'[u].piece] # "MISSING" \/ task'[u].piece \in undone'
      BY <1>1, <2>1, <2>6 DEF Safe, PieceInv, TypeOK
    <3>. QED
      BY <1>1, <1>2, <1>3, <1>6, <2>6, <3>1 DEF Safe, PieceInv
  <2>4. VerifiedIsAuthentic'
    BY <1>1, <1>2, <1>3, <1>6, <2>6 DEF Safe, VerifiedIsAuthentic
  <2>5. StatesMatchBlocks'
    BY <1>1, <1>2, <1>3, <2>1, <2>2, <2>6 DEF Safe, StatesMatchBlocks, TypeOK
  <2>. QED
    BY <1>7, <1>8, <1>9, <1>10, <2>3, <2>4, <2>5 DEF Safe
<1>5. CASE MissingBlocks(p) # {b}
  <2>1. state' = state /\ completed' = completed
    BY <1>5 DEF ReceiveBlock, LastBlock
  <2>2. PICK d \in Blocks : d # b /\ received[p][d] = "none"
    BY <1>1, <1>5 DEF MissingBlocks
  <2>3. ~IsComplete(p)'
    BY <1>1, <2>2 DEF IsComplete, TypeOK
  <2>4. PieceInv'
    BY <1>1, <1>2, <1>3, <1>6, <2>1, <2>3 DEF Safe, PieceInv, TypeOK
  <2>5. VerifiedIsAuthentic' /\ StatesMatchBlocks'
    BY <1>1, <1>2, <1>3, <1>6, <2>1, <2>3 DEF Safe, VerifiedIsAuthentic, StatesMatchBlocks
  <2>. QED
    BY <1>7, <1>8, <1>9, <1>10, <2>4, <2>5 DEF Safe
<1>. QED
  BY <1>4, <1>5

\* A hash that matches is a hash of authentic data.
LEMMA SafeHash ==
  ASSUME TypeOK, Safe, NEW p \in Pieces, HashPiece(p) PROVE Safe'
<1>1. UNCHANGED <<pieceVars, task, undone, believed, ckpt, restarts>> /\ hashing[p] > 0
  BY DEF HashPiece, reqVars, restVars, histVars, diskVars
<1>2. \A r \in Pieces : (IsComplete(r)' <=> IsComplete(r)) /\ (Authentic(r)' <=> Authentic(r))
  BY <1>1, SameBlocks DEF pieceVars
<1>3. Authentic(p) => IsComplete(p)
  BY DEF Authentic, IsComplete
<1>4. \A r \in Pieces : hashOk'[r] > 0 => hashOk[r] > 0 \/ Authentic(r)
  BY DEF HashPiece, HashMatches, TypeOK
<1>5. \A r \in Pieces : Authentic(r) /\ (hashing[r] > 0 \/ hashOk[r] > 0)
                          => hashing'[r] > 0 \/ hashOk'[r] > 0
  BY <1>3 DEF HashPiece, HashMatches, TypeOK
<1>6. PieceInv'
  BY <1>1, <1>2, <1>4 DEF Safe, PieceInv, pieceVars
<1>7. NoVerificationLost'
  BY <1>1, <1>2, <1>5 DEF Safe, NoVerificationLost, pieceVars
<1>8. VerifiedIsAuthentic' /\ StatesMatchBlocks' /\ OneRequester' /\ CompleteMeansAll'
  BY <1>1, <1>2 DEF Safe, VerifiedIsAuthentic, StatesMatchBlocks, OneRequester,
     CompleteMeansAll, pieceVars
<1>9. CheckpointInv'
  BY <1>1, <1>2, CheckpointFrame DEF Safe, pieceVars
<1>. QED
  BY <1>6, <1>7, <1>8, <1>9 DEF Safe

\* Applying a valid hash vouches for authentic data and counts exactly.
LEMMA SafeApply ==
  ASSUME TypeOK, Safe, NEW p \in Pieces, ApplyVerified(p) PROVE Safe'
<1>1. /\ UNCHANGED <<received, completed, task, hashing, undone, believed, ckpt, restarts>>
      /\ verified' = verified \cup {p}
      /\ state' = [state EXCEPT ![p] = "VERIFIED"]
      /\ hashOk' = [hashOk EXCEPT ![p] = @ - 1]
      /\ downloadComplete' = (downloadComplete \/ AllVerified(verified'))
  BY DEF ApplyVerified, reqVars, restVars, histVars, diskVars
<1>2. Authentic(p) /\ IsComplete(p)
  BY DEF ApplyVerified, Safe, PieceInv, Authentic, IsComplete
<1>3. \A r \in Pieces : (IsComplete(r)' <=> IsComplete(r)) /\ (Authentic(r)' <=> Authentic(r))
  BY <1>1, SameBlocks
<1>4. downloadComplete' <=> downloadComplete \/ verified' = Pieces
  <2>1. verified' \in SUBSET Pieces
    BY <1>1 DEF TypeOK
  <2>2. AllVerified(verified') <=> verified' = Pieces
    BY <2>1, CountIsAll
  <2>. QED
    BY <1>1, <2>2
<1>5. \A r \in Pieces : hashOk'[r] > 0 => hashOk[r] > 0
  BY <1>1 DEF TypeOK
<1>6. \A r \in Pieces : r # p => state'[r] = state[r] /\ hashOk'[r] = hashOk[r]
  BY <1>1 DEF TypeOK
<1>7. state'[p] = "VERIFIED"
  BY <1>1 DEF TypeOK
<1>8. \A t \in Tasks : task[t] # Idle => task[t].piece \in Pieces
  BY DEF TypeOK, Task
<1>9. PieceInv'
  <2>1. \A r \in Pieces : hashOk'[r] > 0 => Authentic(r)'
    BY <1>3, <1>5 DEF Safe, PieceInv
  <2>2. \A t \in Tasks : task'[t] # Idle => state'[task'[t].piece] # "MISSING" \/ task'[t].piece \in undone'
    BY <1>1, <1>6, <1>7, <1>8 DEF Safe, PieceInv
  <2>3. \A r \in Pieces : state'[r] = "MISSING" => ~IsComplete(r)' \/ r \in undone'
    BY <1>1, <1>3, <1>6, <1>7 DEF Safe, PieceInv
  <2>4. \A r \in Pieces : r \in believed' => IsComplete(r)'
    BY <1>1, <1>3 DEF Safe, PieceInv
  <2>. QED
    BY <1>4, <2>1, <2>2, <2>3, <2>4 DEF PieceInv
<1>10. VerifiedIsAuthentic' /\ StatesMatchBlocks'
  BY <1>1, <1>2, <1>3, <1>6 DEF Safe, VerifiedIsAuthentic, StatesMatchBlocks
<1>11. OneRequester' /\ NoVerificationLost'
  BY <1>1, <1>3, <1>6 DEF Safe, OneRequester, NoVerificationLost
<1>12. CompleteMeansAll'
  BY <1>1, <1>3, <1>4, <1>10 DEF Safe, CompleteMeansAll, VerifiedIsAuthentic
<1>13. CheckpointInv'
  BY <1>1, <1>3, <1>4, CheckpointFrame DEF Safe
<1>. QED
  BY <1>9, <1>10, <1>11, <1>12, <1>13 DEF Safe

\* A checkpoint lists what is verified now.
LEMMA SafeSave == ASSUME TypeOK, Safe, SaveCheckpoint PROVE Safe'
<1>1. /\ UNCHANGED <<pieceVars, task, hashing, hashOk, undone, believed, restarts>>
      /\ ckpt' = [state |-> state, verified |-> verified, endgame |-> endgame,
                  process |-> restarts]
  BY DEF SaveCheckpoint, reqVars, hashVars, histVars
<1>2. \A r \in Pieces : (IsComplete(r)' <=> IsComplete(r)) /\ (Authentic(r)' <=> Authentic(r))
  BY <1>1, SameBlocks DEF pieceVars
<1>3. CheckpointInv'
  BY <1>1, <1>2 DEF CheckpointInv, Safe, VerifiedIsAuthentic, PieceInv, TypeOK, pieceVars
<1>4. PieceInv' /\ OneRequester'
  BY <1>1, <1>2 DEF Safe, PieceInv, OneRequester, pieceVars
<1>5. VerifiedIsAuthentic' /\ StatesMatchBlocks' /\ NoVerificationLost' /\ CompleteMeansAll'
  BY <1>1, <1>2 DEF Safe, VerifiedIsAuthentic, StatesMatchBlocks, NoVerificationLost,
     CompleteMeansAll, pieceVars
<1>. QED
  BY <1>3, <1>4, <1>5 DEF Safe

\* A restore over a living process.  What it takes back is recorded in undone, what
\* it believes of an earlier process in believed; a checkpoint of this process
\* brings back only what was right then and is right now.
LEMMA SafeRestore == ASSUME TypeOK, Safe, Restore PROVE Safe'
<1>1. /\ ckpt # NoCheckpoint
      /\ state' = [p \in Pieces |-> RestoredState(p)]
      /\ verified' = RestoredVerified /\ completed' = RestoredCompleted
      /\ undone' = undone \cup {p \in Pieces : TakenBack(p)}
      /\ believed' = IF ckpt.process = restarts THEN believed
                     ELSE believed \cup (RestoredVerified \ verified)
      /\ UNCHANGED <<received, downloadComplete, task, hashing, hashOk, ckpt, restarts>>
  BY DEF Restore, hashVars
<1>2. \A r \in Pieces : (IsComplete(r)' <=> IsComplete(r)) /\ (Authentic(r)' <=> Authentic(r))
  BY <1>1, SameBlocks
<1>3. \A r \in Pieces : /\ state'[r] = RestoredState(r)
                        /\ state'[r] \in Done => IsComplete(r)
  BY <1>1, RestoredType DEF Safe, StatesMatchBlocks
<1>4. verified' \subseteq ckpt.verified \cap Pieces /\ \A r \in verified' : state'[r] = "VERIFIED"
  BY <1>1, <1>3 DEF RestoredVerified
<1>5. \A r \in verified' : Authentic(r) \/ r \in believed'
  <2>1. CASE ckpt.process = restarts
    BY <1>1, <1>4, <2>1 DEF Safe, CheckpointInv
  <2>2. CASE ckpt.process # restarts
    BY <1>1, <2>2 DEF Safe, VerifiedIsAuthentic, TypeOK
  <2>. QED BY <2>1, <2>2
<1>6. believed \subseteq believed' /\ undone \subseteq undone'
  BY <1>1
<1>7. \A r \in Pieces : r \in verified \/ r \in completed => r \in verified' \/ r \in completed' \/ r \in undone'
  BY <1>1 DEF TakenBack
<1>8. \A r \in Pieces : r \in completed' => state'[r] = "COMPLETE"
  BY <1>1, <1>3 DEF RestoredCompleted
<1>9. StatesMatchBlocks'
  <2>1. \A r \in Pieces : IsComplete(r) => r \in completed' \cup verified' \cup undone'
    BY <1>6, <1>7 DEF Safe, StatesMatchBlocks
  <2>2. completed' \subseteq Pieces
    BY <1>1 DEF RestoredCompleted
  <2>. QED
    BY <1>2, <1>3, <1>8, <2>1, <2>2 DEF StatesMatchBlocks, Done
<1>10. VerifiedIsAuthentic'
  <2>. SUFFICES ASSUME NEW r \in Pieces, r \in verified' \/ state'[r] = "VERIFIED"
                PROVE  Authentic(r) \/ r \in believed'
    BY <1>2 DEF VerifiedIsAuthentic
  <2>1. CASE Distrusted
    <3>1. state'[r] = state[r]
      BY <1>3, <2>1 DEF RestoredState
    <3>. QED
      BY <1>4, <1>6, <3>1 DEF Safe, VerifiedIsAuthentic
  <2>2. CASE ~Distrusted
    <3>1. state'[r] = "VERIFIED" => r \in ckpt.verified
      BY <1>3, <2>2 DEF RestoredState
    <3>2. r \in verified'
      BY <1>1, <1>3, <1>4, <3>1 DEF RestoredVerified
    <3>. QED
      BY <1>5, <3>2
  <2>. QED BY <2>1, <2>2
<1>11. PieceInv'
  <2>1. \A t \in Tasks : task'[t] # Idle => state'[task'[t].piece] # "MISSING" \/ task'[t].piece \in undone'
    <3>1. \A t \in Tasks : task[t] # Idle => task[t].piece \in Pieces
      BY DEF TypeOK, Task
    <3>. QED
      BY <1>1, <1>3, <3>1 DEF TakenBack
  <2>2. \A r \in Pieces : state'[r] = "MISSING" => ~IsComplete(r)' \/ r \in undone'
    BY <1>2, <1>4, <1>8, <1>9 DEF StatesMatchBlocks
  <2>3. \A r \in Pieces : r \in believed' => IsComplete(r)'
    <3>1. \A r \in verified' : IsComplete(r)
      BY <1>3, <1>4 DEF Done
    <3>2. \A r \in Pieces : r \in believed => IsComplete(r)
      BY DEF Safe, PieceInv
    <3>. QED
      BY <1>1, <1>2, <1>4, <3>1, <3>2
  <2>4. verified' = Pieces => downloadComplete' \/ believed' # {}
    <3>1. CASE ckpt.process = restarts
      <4>1. verified' = Pieces => ckpt.verified = Pieces
        BY <1>1, <1>4 DEF TypeOK, Checkpoint
      <4>. QED
        BY <1>1, <3>1, <4>1 DEF Safe, CheckpointInv
    <3>2. CASE ckpt.process # restarts
      BY <1>1, <1>6, <3>2 DEF Safe, PieceInv, TypeOK
    <3>. QED BY <3>1, <3>2
  <2>5. \A r \in Pieces : hashOk'[r] > 0 => Authentic(r)'
    BY <1>1, <1>2 DEF Safe, PieceInv
  <2>. QED
    BY <2>1, <2>2, <2>3, <2>4, <2>5 DEF PieceInv
<1>12. OneRequester'
  BY <1>1, <1>6 DEF Safe, OneRequester
<1>13. NoVerificationLost' /\ CompleteMeansAll'
  <2>1. \A r \in Pieces : r \in verified => r \in verified' \/ r \in undone'
    BY <1>1 DEF TakenBack
  <2>. QED
    BY <1>1, <1>2, <1>6, <2>1 DEF Safe, NoVerificationLost, CompleteMeansAll
<1>14. CheckpointInv'
  <2>1. ckpt.process = restarts => believed' = believed
    BY <1>1
  <2>2. ckpt.verified \subseteq Pieces
    BY <1>1 DEF TypeOK, Checkpoint
  <2>. QED
    BY <1>1, <1>2, <2>1, <2>2 DEF Safe, CheckpointInv
<1>. QED
  BY <1>9, <1>10, <1>11, <1>12, <1>13, <1>14 DEF Safe

\* A new process holds nothing and vouches for nothing, and the checkpoint on disk
\* is another's.
LEMMA SafeRestart == ASSUME TypeOK, Safe, Restart PROVE Safe'
<1>1. /\ state' = [p \in Pieces |-> "MISSING"]
      /\ completed' = {} /\ verified' = {} /\ downloadComplete' = FALSE
      /\ undone' = {} /\ believed' = {}
      /\ ckpt' = ckpt /\ restarts' = restarts + 1
      /\ \A p \in Pieces : hashOk'[p] = 0
      /\ \A t \in Tasks : task'[t] = Idle
  BY DEF Restart
<1>2. \A p \in Pieces : ~IsComplete(p)' /\ ~Authentic(p)'
  BY BlocksAssumption DEF Restart, IsComplete, Authentic
<1>3. CheckpointInv'
  <2>1. ckpt # NoCheckpoint => ckpt.process \in Nat /\ ckpt.process <= restarts
    BY DEF TypeOK, Checkpoint, Safe, CheckpointInv
  <2>. QED
    BY <1>1, <2>1 DEF CheckpointInv, TypeOK
<1>4. PieceInv'
  BY <1>1, <1>2, PiecesAssumption DEF PieceInv
<1>5. VerifiedIsAuthentic' /\ StatesMatchBlocks' /\ NoVerificationLost'
  BY <1>1, <1>2 DEF VerifiedIsAuthentic, StatesMatchBlocks, NoVerificationLost, Done
<1>6. OneRequester' /\ CompleteMeansAll'
  BY <1>1 DEF OneRequester, CompleteMeansAll
<1>. QED
  BY <1>3, <1>4, <1>5, <1>6 DEF Safe

LEMMA SafeNext == TypeOK /\ Safe /\ [Next]_vars => Safe'
<1>. SUFFICES ASSUME TypeOK, Safe, [Next]_vars PROVE Safe'
  OBVIOUS
<1>. USE DEF restVars, histVars, diskVars
<1>1. CASE SelectPieces
  <2>1. UNCHANGED <<pieceVars, task, hashing, hashOk, undone, believed, ckpt, restarts>>
    BY <1>1, NothingToRepair DEF SelectPieces, Safe, pieceVars, hashVars
  <2>. QED
    BY <2>1, SafeFrame
<1>2. ASSUME NEW p \in Pieces, RequestSkipped(p) \/ RequestWithoutPeers(p) PROVE Safe'
  BY <1>2, SafeFrame DEF RequestSkipped, RequestWithoutPeers, hashVars
<1>3. ASSUME NEW t \in Tasks,
             \/ \E p \in Pieces : BeginRequest(t, p)
             \/ EndgameBlock(t) \/ SendRequest(t) \/ SendFails(t) \/ FinishRequest(t)
      PROVE Safe'
  BY <1>3, SafeRequests
<1>4. CASE ReceiveGood \/ ReceiveBad
  BY <1>4, SafeReceive DEF ReceiveGood, ReceiveBad
<1>5. ASSUME NEW p \in Pieces, HashPiece(p) \/ ApplyVerified(p) PROVE Safe'
  BY <1>5, SafeHash, SafeApply
<1>6. ASSUME NEW q \in Peers,
             \/ PeerConnects(q) \/ PeerUnchokes(q) \/ PeerChokes(q) \/ PeerDisconnects(q)
             \/ \E pieces \in Bitfields : PeerBitfield(q, pieces)
      PROVE Safe'
  BY <1>6, SafeFrame DEF PeerConnects, PeerUnchokes, PeerChokes, PeerDisconnects,
     PeerBitfield, reqVars, hashVars
<1>7. CASE SaveCheckpoint
  BY <1>7, SafeSave
<1>8. CASE Restart
  BY <1>8, SafeRestart
<1>10. CASE Restore
  BY <1>10, SafeRestore
<1>9. CASE UNCHANGED vars
  BY <1>9, SafeFrame DEF vars, reqVars, hashVars
<1>. QED
  BY <1>1, <1>2, <1>3, <1>4, <1>5, <1>6, <1>7, <1>8, <1>9, <1>10 DEF Next

LEMMA SafeAlways == Spec => [](TypeOK /\ Safe)
BY TypeInit, TypeNext, SafeInit, SafeNext, PTL DEF Spec

\* Nothing is vouched for that is not authentic, whoever sends what and whenever
\* the hash thread answers.
THEOREM Authenticity == Spec => []VerifiedIsAuthentic
BY SafeAlways, PTL DEF Safe

\* COMPLETE and VERIFIED always mean that the blocks are there, so the repair
\* loops of get_missing_pieces and _select_pieces are never needed.
THEOREM StatesAreHonest == Spec => []StatesMatchBlocks
BY SafeAlways, PTL DEF Safe

\* The MISSING test under the lock lets one coroutine at a time request a piece.
THEOREM SingleRequester == Spec => []OneRequester
BY SafeAlways, PTL DEF Safe

\* A piece whose data is authentic never waits for a verification nobody runs.
THEOREM VerificationsKept == Spec => []NoVerificationLost
BY SafeAlways, PTL DEF Safe

\* The end of the download is announced only when all pieces are authentic.
THEOREM CompletionIsTrue == Spec => []CompleteMeansAll
BY SafeAlways, PTL DEF Safe

\* What the other invariants rest on: a hash that matched was one of authentic
\* data, a piece somebody asks for is not MISSING, a MISSING piece lacks a block.
THEOREM PieceInvariant == Spec => []PieceInv
BY SafeAlways, PTL DEF Safe

(***************************************************************************)
(* Steps.                                                                   *)
(***************************************************************************)
CompleteNeverRequestedStep ==
  \A p \in Pieces : state[p] # "REQUESTED" /\ state'[p] = "REQUESTED"
     => restores' # restores \/ ~IsComplete(p) \/ p \in undone

\* The only step besides a restore that makes a piece REQUESTED begins a request
\* for a MISSING piece, which lacks a block unless a restore took it back.
LEMMA CompleteNeverRequestedNext ==
  ASSUME TypeOK, Safe, [Next]_vars PROVE CompleteNeverRequestedStep
<1>. SUFFICES ASSUME NEW p \in Pieces, state[p] # "REQUESTED", state'[p] = "REQUESTED"
              PROVE restores' # restores \/ ~IsComplete(p) \/ p \in undone
  BY DEF CompleteNeverRequestedStep
<1>. USE DEF pieceVars, reqVars, hashVars, peerVars, diskVars, histVars, restVars
<1>1. CASE SelectPieces
  <2>1. state' = state
    BY <1>1, NothingToRepair DEF SelectPieces, Safe
  <2>. QED
    BY <2>1
<1>2. ASSUME NEW r \in Pieces, RequestSkipped(r) \/ RequestWithoutPeers(r) PROVE FALSE
  BY <1>2 DEF RequestSkipped, RequestWithoutPeers
<1>3. ASSUME NEW t \in Tasks, NEW r \in Pieces, BeginRequest(t, r)
      PROVE ~IsComplete(p) \/ p \in undone
  <2>1. state[r] = "MISSING" /\ state' = [state EXCEPT ![r] = "REQUESTED"]
    BY <1>3 DEF BeginRequest, Requestable
  <2>2. p = r
    BY <2>1 DEF TypeOK
  <2>. QED
    BY <2>1, <2>2 DEF Safe, PieceInv
<1>4. ASSUME NEW t \in Tasks, EndgameBlock(t) \/ SendRequest(t) \/ SendFails(t) PROVE FALSE
  BY <1>4 DEF EndgameBlock, SendRequest, SendFails
<1>5. ASSUME NEW t \in Tasks, FinishRequest(t) PROVE FALSE
  <2>1. state' = [state EXCEPT ![task[t].piece] = "DOWNLOADING"]
    BY <1>5 DEF FinishRequest
  <2>. QED
    BY <2>1 DEF TypeOK
<1>6. ASSUME NEW q \in Peers, NEW r \in Pieces, NEW b \in Blocks, NEW c,
             ReceiveBlock(q, r, b, c) PROVE FALSE
  <2>1. state' = state \/ state' = [state EXCEPT ![r] = "COMPLETE"]
    BY <1>6 DEF ReceiveBlock
  <2>. QED
    BY <2>1 DEF TypeOK
<1>7. ASSUME NEW r \in Pieces, HashPiece(r) PROVE FALSE
  BY <1>7 DEF HashPiece
<1>8. ASSUME NEW r \in Pieces, ApplyVerified(r) PROVE FALSE
  <2>1. state' = [state EXCEPT ![r] = "VERIFIED"]
    BY <1>8 DEF ApplyVerified
  <2>. QED
    BY <2>1 DEF TypeOK
<1>9. ASSUME NEW q \in Peers,
             \/ PeerConnects(q) \/ PeerUnchokes(q) \/ PeerChokes(q) \/ PeerDisconnects(q)
             \/ \E pieces \in Bitfields : PeerBitfield(q, pieces)
      PROVE FALSE
  BY <1>9 DEF PeerConnects, PeerUnchokes, PeerChokes, PeerDisconnects, PeerBitfield
<1>10. CASE SaveCheckpoint
  BY <1>10 DEF SaveCheckpoint
<1>11. CASE Restart
  BY <1>11 DEF Restart
<1>13. CASE Restore
  BY <1>13 DEF Restore, TypeOK
<1>12. CASE UNCHANGED vars
  BY <1>12 DEF vars
<1>. QED
  BY <1>1, <1>2, <1>3, <1>4, <1>5, <1>6, <1>7, <1>8, <1>9, <1>10, <1>11, <1>12, <1>13
     DEF Next, ReceiveGood, ReceiveBad

BlocksAreKeptStep ==
  restarts' = restarts => \A p \in Pieces, b \in Blocks :
    received[p][b] # "none" => received'[p][b] = received[p][b]

\* Blocks are written by handle_piece_block only, and only where none is.
LEMMA BlocksAreKeptNext ==
  ASSUME TypeOK, [Next]_vars PROVE BlocksAreKeptStep
<1>. USE DEF BlocksAreKeptStep
<1>1. ASSUME NEW q \in Peers, NEW r \in Pieces, NEW c \in Blocks, NEW content,
             ReceiveBlock(q, r, c, content) PROVE BlocksAreKeptStep
  <2>1. received[r][c] = "none" /\ received' = [received EXCEPT ![r][c] = content]
    BY <1>1 DEF ReceiveBlock, Accepts
  <2>. QED
    BY <2>1 DEF TypeOK
<1>2. CASE Restart
  <2>1. restarts' = restarts + 1 /\ restarts \in Nat
    BY <1>2 DEF Restart, TypeOK
  <2>. QED
    BY <2>1
<1>3. CASE \/ SelectPieces \/ SaveCheckpoint \/ Restore \/ UNCHANGED vars
           \/ \E p \in Pieces : \/ RequestSkipped(p) \/ RequestWithoutPeers(p)
                                \/ HashPiece(p) \/ ApplyVerified(p)
           \/ \E t \in Tasks : \/ \E p \in Pieces : BeginRequest(t, p)
                              \/ EndgameBlock(t) \/ SendRequest(t) \/ SendFails(t)
                              \/ FinishRequest(t)
           \/ \E q \in Peers : PeerConnects(q) \/ PeerUnchokes(q) \/ PeerChokes(q)
                              \/ PeerDisconnects(q)
           \/ \E q \in Peers, pieces \in Bitfields : PeerBitfield(q, pieces)
  <2>1. UNCHANGED received
    BY <1>3 DEF SelectPieces, SaveCheckpoint, Restore, vars, pieceVars,
       RequestSkipped, RequestWithoutPeers,
       HashPiece, ApplyVerified, BeginRequest, EndgameBlock, SendRequest, SendFails,
       FinishRequest, PeerConnects, PeerUnchokes, PeerChokes, PeerDisconnects, PeerBitfield
  <2>. QED
    BY <2>1
<1>. QED
  BY <1>1, <1>2, <1>3 DEF Next, ReceiveGood, ReceiveBad

\* An answer that arrives twice never replaces a block, in endgame or after it.
THEOREM BlocksStay == Spec => BlocksAreKept
<1>1. TypeOK /\ [Next]_vars => [BlocksAreKeptStep]_vars
  BY BlocksAreKeptNext
<1>2. BlocksAreKept <=> [][BlocksAreKeptStep]_vars
  BY DEF BlocksAreKept, BlocksAreKeptStep
<1>. QED
  BY <1>1, <1>2, TypeCorrect, PTL DEF Spec

\* No complete piece is ever asked for again, unless a resume took it back.
THEOREM NoRequestForComplete == Spec => CompleteNeverRequested
<1>1. TypeOK /\ Safe /\ [Next]_vars => [CompleteNeverRequestedStep]_vars
  BY CompleteNeverRequestedNext
<1>2. CompleteNeverRequested <=> [][CompleteNeverRequestedStep]_vars
  BY DEF CompleteNeverRequested, CompleteNeverRequestedStep
<1>. QED
  BY <1>1, <1>2, SafeAlways, PTL DEF Spec

(***************************************************************************)
(* Refinement.                                                              *)
(***************************************************************************)
\* What the store has of each piece, and what its last record lists.
Data == [p \in Pieces |-> IF ~IsComplete(p) THEN "none" ELSE IF Authentic(p) THEN "good" ELSE "bad"]
Saved == IF ckpt = NoCheckpoint THEN {} ELSE ckpt.verified

\* A block that is not the last obtains nothing; the last one obtains the piece,
\* right or wrong.
LEMMA ReceiveObtains ==
  ASSUME TypeOK, NEW q \in Peers, NEW p \in Pieces, NEW b \in Blocks,
         NEW c \in {"good", "bad"}, ReceiveBlock(q, p, b, c)
  PROVE Store!Next \/ UNCHANGED Store!vars
<1>1. /\ received[p][b] = "none"
      /\ received' = [received EXCEPT ![p][b] = c]
      /\ UNCHANGED <<verified, downloadComplete, ckpt>>
  BY DEF ReceiveBlock, Accepts, restVars, diskVars
<1>2. \A r \in Pieces \ {p} : (Authentic(r)' <=> Authentic(r)) /\ (IsComplete(r)' <=> IsComplete(r))
  BY <1>1 DEF Authentic, IsComplete, TypeOK
<1>3. ~IsComplete(p)
  BY <1>1 DEF IsComplete
<1>4. Data[p] = "none" /\ \E d \in {"none", "good", "bad"} : Data' = [Data EXCEPT ![p] = d]
  <2>. DEFINE d == IF ~IsComplete(p)' THEN "none" ELSE IF Authentic(p)' THEN "good" ELSE "bad"
  <2>1. Data' = [Data EXCEPT ![p] = d]
    BY <1>2 DEF Data
  <2>. QED
    BY <1>3, <2>1 DEF Data
<1>5. PICK d \in {"none", "good", "bad"} : Data' = [Data EXCEPT ![p] = d]
  BY <1>4
<1>6. CASE d = "none"
  <2>1. Data' = Data
    BY <1>4, <1>5, <1>6 DEF Data
  <2>. QED
    BY <1>1, <2>1 DEF Store!vars, Data
<1>7. CASE d # "none"
  <2>1. Store!Obtain(p)
    BY <1>1, <1>4, <1>5, <1>7 DEF Store!Obtain, Data
  <2>. QED
    BY <2>1 DEF Store!Next
<1>. QED
  BY <1>6, <1>7

\* Applying a valid hash vouches for a piece whose data is right.
LEMMA ApplyVouches ==
  ASSUME TypeOK, Safe, NEW p \in Pieces, ApplyVerified(p)
  PROVE Store!Next
<1>1. /\ verified' = verified \cup {p}
      /\ downloadComplete' = (downloadComplete \/ AllVerified(verified'))
      /\ UNCHANGED <<received, ckpt>>
      /\ Authentic(p) /\ IsComplete(p)
  BY DEF ApplyVerified, Safe, PieceInv, restVars, diskVars, Authentic, IsComplete
<1>2. Data' = Data /\ Data[p] = "good"
  BY <1>1, SameBlocks DEF Data
<1>3. verified' \in SUBSET Pieces
  BY <1>1 DEF TypeOK
<1>4. downloadComplete' = (downloadComplete \/ verified' = Pieces)
  BY <1>1, <1>3, CountIsAll DEF AllVerified
<1>5. Store!Vouch(p)
  BY <1>1, <1>2, <1>4 DEF Store!Vouch, Data
<1>. QED
  BY <1>5 DEF Store!Next

\* A checkpoint records what is vouched for; restoring it vouches for pieces it
\* lists and whose blocks are all there.
LEMMA SaveRecords == ASSUME SaveCheckpoint PROVE Store!Next
<1>1. /\ UNCHANGED <<received, verified, downloadComplete>>
      /\ ckpt' = [state |-> state, verified |-> verified, endgame |-> endgame,
                  process |-> restarts]
  BY DEF SaveCheckpoint, pieceVars
<1>2. Data' = Data
  BY <1>1, SameBlocks DEF Data
<1>3. ckpt' # NoCheckpoint /\ ckpt'.verified = verified
  <2>1. "process" \in DOMAIN ckpt' /\ "process" \notin DOMAIN NoCheckpoint
    BY <1>1 DEF NoCheckpoint
  <2>. QED
    BY <1>1, <2>1
<1>4. Saved' = verified
  BY <1>3 DEF Saved
<1>5. Store!Record
  BY <1>1, <1>2, <1>4 DEF Store!Record, Data, Saved
<1>. QED
  BY <1>5 DEF Store!Next

LEMMA RestoreResumes == ASSUME TypeOK, Safe, Restore PROVE Store!Next
<1>1. /\ ckpt # NoCheckpoint
      /\ verified' = RestoredVerified
      /\ UNCHANGED <<received, downloadComplete, ckpt>>
  BY DEF Restore
<1>2. Data' = Data
  BY <1>1, SameBlocks DEF Data
<1>3. \A p \in verified' : p \in Pieces /\ p \in Saved /\ Data[p] # "none"
  BY <1>1, RestoredType DEF RestoredVerified, Safe, StatesMatchBlocks, Data, Saved, Done
<1>4. verified' \in SUBSET {p \in Saved : Data[p] # "none"}
  BY <1>3
<1>5. Store!Resume
  BY <1>1, <1>2, <1>4 DEF Store!Resume, Data, Saved
<1>. QED
  BY <1>5 DEF Store!Next

\* A step that changes neither blocks nor announcements is a stutter of the store.
LEMMA OtherStutters ==
  ASSUME UNCHANGED <<received, verified, downloadComplete, ckpt>> PROVE UNCHANGED Store!vars
BY SameBlocks DEF Store!vars

LEMMA StoreNext ==
  ASSUME TypeOK, Safe, [Next]_vars PROVE [Store!Next]_(Store!vars)
<1>. USE DEF pieceVars, reqVars, hashVars, peerVars, diskVars, histVars, restVars
<1>1. CASE ReceiveGood \/ ReceiveBad
  BY <1>1, ReceiveObtains DEF ReceiveGood, ReceiveBad
<1>2. ASSUME NEW p \in Pieces, ApplyVerified(p) PROVE [Store!Next]_(Store!vars)
  BY <1>2, ApplyVouches
<1>3. CASE Restart
  <2>1. \A p \in Pieces : ~IsComplete(p)'
    BY <1>3, BlocksAssumption DEF Restart, IsComplete
  <2>2. verified' = {} /\ downloadComplete' = FALSE /\ ckpt' = ckpt
    BY <1>3 DEF Restart
  <2>3. Store!Forget
    BY <2>1, <2>2 DEF Store!Forget
  <2>. QED
    BY <2>3 DEF Store!Next
<1>5. CASE SaveCheckpoint
  BY <1>5, SaveRecords
<1>6. CASE Restore
  BY <1>6, RestoreResumes
<1>4. ASSUME \/ SelectPieces \/ UNCHANGED vars
             \/ \E p \in Pieces : RequestSkipped(p) \/ RequestWithoutPeers(p) \/ HashPiece(p)
             \/ \E t \in Tasks, p \in Pieces : BeginRequest(t, p)
             \/ \E t \in Tasks : EndgameBlock(t) \/ SendRequest(t) \/ SendFails(t)
                                \/ FinishRequest(t)
             \/ \E q \in Peers : PeerConnects(q) \/ PeerUnchokes(q) \/ PeerChokes(q)
                                \/ PeerDisconnects(q)
             \/ \E q \in Peers, pieces \in Bitfields : PeerBitfield(q, pieces)
      PROVE [Store!Next]_(Store!vars)
  <2>1. UNCHANGED <<received, verified, downloadComplete, ckpt>>
    BY <1>4 DEF SelectPieces, vars, RequestSkipped, RequestWithoutPeers,
       HashPiece, BeginRequest, EndgameBlock, SendRequest, SendFails, FinishRequest,
       PeerConnects, PeerUnchokes, PeerChokes, PeerDisconnects, PeerBitfield
  <2>. QED
    BY <2>1, OtherStutters
<1>. QED
  BY <1>1, <1>2, <1>3, <1>4, <1>5, <1>6 DEF Next

\* The piece manager implements the abstract store: it obtains, vouches, records,
\* resumes, forgets, and does nothing else that its users could see.
THEOREM StoreImplemented == Spec => ImplementsStore
<1>1. Init => Store!Init
  <2>. SUFFICES ASSUME Init PROVE Store!Init
    OBVIOUS
  <2>1. \A p \in Pieces : ~IsComplete(p)
    BY BlocksAssumption DEF Init, IsComplete
  <2>. QED
    BY <2>1 DEF Init, Store!Init
<1>. QED
  BY <1>1, StoreNext, SafeAlways, PTL DEF Spec, ImplementsStore, Store!Spec

(***************************************************************************)
(* A piece that has all its blocks and not all of them right.              *)
(***************************************************************************)
Corrupt(p) == IsComplete(p) /\ ~Authentic(p)

\* A block that has arrived stays as it is, so a corrupt piece stays corrupt.
LEMMA CorruptNext ==
  ASSUME TypeOK, NEW p \in Pieces, Corrupt(p), [Next]_vars, restarts' = restarts
  PROVE  Corrupt(p)'
<1>1. \A b \in Blocks : received'[p][b] = received[p][b]
  BY BlocksAreKeptNext DEF BlocksAreKeptStep, Corrupt, IsComplete
<1>. QED
  BY <1>1 DEF Corrupt, IsComplete, Authentic

\* Once a piece is complete with bad data it keeps them until the process ends,
\* resumes included (piece/async_piece_manager.py:1108-1237 only logs the failed
\* hash, restore_from_checkpoint touches no block): no verification succeeds, so
\* neither the piece nor the download is ever announced, unless a checkpoint of an
\* earlier process is believed about it.
THEOREM CorruptPiecesStay ==
  ASSUME NEW p \in Pieces
  PROVE  Spec => [](Corrupt(p) /\ [][restarts' = restarts]_vars
                      => [](/\ Corrupt(p) /\ hashOk[p] = 0
                            /\ p \in verified \/ downloadComplete => p \in believed))
<1>. DEFINE Stays == /\ Corrupt(p) /\ hashOk[p] = 0
                     /\ p \in verified \/ downloadComplete => p \in believed
<1>1. TypeOK /\ Corrupt(p) /\ [Next]_vars /\ [restarts' = restarts]_vars => Corrupt(p)'
  BY CorruptNext DEF vars, restVars, diskVars
<1>2. TypeOK /\ Safe /\ Corrupt(p) => Stays
  BY DEF Safe, PieceInv, VerifiedIsAuthentic, CompleteMeansAll, Corrupt, TypeOK
<1>. HIDE DEF Stays
<1>3. Spec => [](Corrupt(p) /\ [][restarts' = restarts]_vars => []Stays)
  BY <1>1, <1>2, SafeAlways, PTL DEF Spec
<1>. QED
  BY <1>3 DEF Stays

\* A complete piece that is not MISSING becomes so only by a restore or a restart.
LEMMA NotMissingNext ==
  ASSUME TypeOK, NEW p \in Pieces, IsComplete(p), state[p] # "MISSING", [Next]_vars,
         restarts' = restarts, restores' = restores
  PROVE  state'[p] # "MISSING"
<1>. USE DEF pieceVars, reqVars, hashVars, peerVars, diskVars, histVars, restVars
<1>1. CASE SelectPieces
  BY <1>1 DEF SelectPieces, Repaired
<1>2. ASSUME NEW r \in Pieces, RequestSkipped(r) \/ RequestWithoutPeers(r) \/ HashPiece(r)
      PROVE state'[p] # "MISSING"
  BY <1>2 DEF RequestSkipped, RequestWithoutPeers, HashPiece
<1>3. ASSUME NEW r \in Pieces, NEW s \in PieceState \ {"MISSING"},
             state' = state \/ state' = [state EXCEPT ![r] = s]
      PROVE state'[p] # "MISSING"
  BY <1>3 DEF TypeOK
<1>4. ASSUME NEW t \in Tasks, NEW r \in Pieces, BeginRequest(t, r) PROVE state'[p] # "MISSING"
  BY <1>3, <1>4 DEF BeginRequest, PieceState
<1>5. ASSUME NEW t \in Tasks, EndgameBlock(t) \/ SendRequest(t) \/ SendFails(t) \/ FinishRequest(t)
      PROVE state'[p] # "MISSING"
  <2>1. task[t] # Idle /\ task[t].piece \in Pieces
    BY <1>5 DEF EndgameBlock, SendRequest, SendFails, FinishRequest, TypeOK, Task
  <2>. QED
    BY <1>3, <1>5, <2>1 DEF EndgameBlock, SendRequest, SendFails, FinishRequest, PieceState
<1>6. ASSUME NEW q \in Peers, NEW r \in Pieces, NEW b \in Blocks, NEW c, ReceiveBlock(q, r, b, c)
      PROVE state'[p] # "MISSING"
  BY <1>3, <1>6 DEF ReceiveBlock, PieceState
<1>7. ASSUME NEW r \in Pieces, ApplyVerified(r) PROVE state'[p] # "MISSING"
  BY <1>3, <1>7 DEF ApplyVerified, PieceState
<1>8. ASSUME NEW q \in Peers,
             \/ PeerConnects(q) \/ PeerUnchokes(q) \/ PeerChokes(q) \/ PeerDisconnects(q)
             \/ \E pieces \in Bitfields : PeerBitfield(q, pieces)
      PROVE state'[p] # "MISSING"
  BY <1>8 DEF PeerConnects, PeerUnchokes, PeerChokes, PeerDisconnects, PeerBitfield
<1>9. CASE SaveCheckpoint \/ UNCHANGED vars
  BY <1>9 DEF SaveCheckpoint, vars
<1>10. ~Restart /\ ~Restore
  BY DEF Restart, Restore, TypeOK
<1>. QED
  BY <1>1, <1>2, <1>4, <1>5, <1>6, <1>7, <1>8, <1>9, <1>10 DEF Next, ReceiveGood, ReceiveBad

\* So no run in which a piece once becomes complete with bad data, and neither a
\* restart nor a resume comes after it, keeps the promise of the comment in
\* PieceData.verify_hash.
THEOREM CorruptIsNeverRefetched ==
  ASSUME NEW p \in Pieces
  PROVE  /\ Spec
         /\ <>(/\ Corrupt(p) /\ state[p] # "MISSING"
               /\ [][restarts' = restarts /\ restores' = restores]_vars)
         => ~CorruptIsRefetched
<1>1. CorruptIsRefetched => (Corrupt(p) ~> state[p] = "MISSING")
  BY DEF CorruptIsRefetched, Corrupt
<1>. DEFINE Here == Corrupt(p) /\ ~(state[p] = "MISSING")
            Quiet == restarts' = restarts /\ restores' = restores
<1>2. TypeOK /\ Here /\ [Next]_vars /\ [Quiet]_vars => Here'
  <2>. SUFFICES ASSUME TypeOK, Here, [Next]_vars, [Quiet]_vars PROVE Here'
    OBVIOUS
  <2>1. restarts' = restarts /\ restores' = restores
    BY DEF vars, restVars, diskVars
  <2>. QED
    BY <2>1, CorruptNext, NotMissingNext DEF Corrupt
<1>3. Here => Corrupt(p) /\ ~(state[p] = "MISSING")
  OBVIOUS
<1>4. Corrupt(p) /\ state[p] # "MISSING" <=> Here
  OBVIOUS
<1>. HIDE DEF Here, Quiet
<1>5. Spec /\ <>(Here /\ [][Quiet]_vars) => ~(Corrupt(p) ~> state[p] = "MISSING")
  BY <1>2, <1>3, TypeCorrect, PTL DEF Spec
<1>6. <>(/\ Corrupt(p) /\ state[p] # "MISSING"
         /\ [][restarts' = restarts /\ restores' = restores]_vars) => <>(Here /\ [][Quiet]_vars)
  BY <1>4, PTL DEF Quiet
<1>. QED
  BY <1>1, <1>5, <1>6, PTL

(***************************************************************************)
(* A complete piece whose verification a resume took back.                 *)
(***************************************************************************)
Unverified(p) == IsComplete(p) /\ p \notin verified /\ hashing[p] = 0 /\ hashOk[p] = 0

\* Only a block that is accepted schedules a verification, and a complete piece
\* accepts none; BeginRequest asks nobody for it.
LEMMA UnverifiedNext ==
  ASSUME TypeOK, NEW p \in Pieces, Unverified(p), [Next]_vars,
         restarts' = restarts, restores' = restores
  PROVE  Unverified(p)' /\ (downloadComplete' => downloadComplete)
<1>. USE DEF pieceVars, reqVars, hashVars, peerVars, diskVars, histVars, restVars
<1>0. ASSUME UNCHANGED <<received, verified, downloadComplete, hashing, hashOk>>
      PROVE  Unverified(p)' /\ (downloadComplete' => downloadComplete)
  BY <1>0 DEF Unverified, IsComplete
<1>1. ASSUME \/ SelectPieces \/ SaveCheckpoint \/ UNCHANGED vars
             \/ \E r \in Pieces : RequestSkipped(r) \/ RequestWithoutPeers(r)
             \/ \E t \in Tasks, r \in Pieces : BeginRequest(t, r)
             \/ \E t \in Tasks : EndgameBlock(t) \/ SendRequest(t) \/ SendFails(t) \/ FinishRequest(t)
             \/ \E q \in Peers : PeerConnects(q) \/ PeerUnchokes(q) \/ PeerChokes(q) \/ PeerDisconnects(q)
             \/ \E q \in Peers, pieces \in Bitfields : PeerBitfield(q, pieces)
      PROVE  UNCHANGED <<received, verified, downloadComplete, hashing, hashOk>>
  BY <1>1 DEF SelectPieces, SaveCheckpoint, vars, RequestSkipped, RequestWithoutPeers, BeginRequest,
     EndgameBlock, SendRequest, SendFails, FinishRequest,
     PeerConnects, PeerUnchokes, PeerChokes, PeerDisconnects, PeerBitfield
<1>2. ASSUME NEW q \in Peers, NEW r \in Pieces, NEW b \in Blocks, NEW c, c # "none",
             ReceiveBlock(q, r, b, c)
      PROVE Unverified(p)' /\ (downloadComplete' => downloadComplete)
  <2>1. /\ received[r][b] = "none" /\ received' = [received EXCEPT ![r][b] = c]
        /\ hashing' = [hashing EXCEPT ![r] = @ + 1]
        /\ UNCHANGED <<verified, downloadComplete, hashOk>>
    BY <1>2 DEF ReceiveBlock, Accepts, VerifyScheduled
  <2>2. r # p
    BY <2>1 DEF Unverified, IsComplete
  <2>. QED
    BY <2>1, <2>2 DEF Unverified, IsComplete, TypeOK
<1>3. ASSUME NEW r \in Pieces, HashPiece(r) PROVE Unverified(p)' /\ (downloadComplete' => downloadComplete)
  BY <1>3 DEF HashPiece, Unverified, IsComplete, TypeOK
<1>4. ASSUME NEW r \in Pieces, ApplyVerified(r) PROVE Unverified(p)' /\ (downloadComplete' => downloadComplete)
  <2>1. /\ hashOk[r] > 0 /\ verified' = verified \cup {r} /\ hashOk' = [hashOk EXCEPT ![r] = @ - 1]
        /\ downloadComplete' = (downloadComplete \/ AllVerified(verified'))
        /\ UNCHANGED <<received, hashing>>
    BY <1>4 DEF ApplyVerified
  <2>2. r # p /\ p \notin verified'
    BY <2>1 DEF Unverified
  <2>3. ~AllVerified(verified')
    <3>1. verified' \in SUBSET Pieces
      BY <2>1 DEF TypeOK
    <3>. QED
      BY <2>2, <3>1, CountIsAll
  <2>. QED
    BY <2>1, <2>2, <2>3 DEF Unverified, IsComplete, TypeOK
<1>5. ~Restart /\ ~Restore
  BY DEF Restart, Restore, TypeOK
<1>. QED
  BY <1>0, <1>1, <1>2, <1>3, <1>4, <1>5 DEF Next, ReceiveGood, ReceiveBad

\* A piece that was verified after the checkpoint that resume() restores
\* (session/session.py:568-571) is complete, not verified and no verification of it
\* is under way; so it is not verified again before the next restore or restart, and
\* a download that had not been announced by then is not announced.
THEOREM TakenBackPiecesStay ==
  ASSUME NEW p \in Pieces
  PROVE  Spec => [](Unverified(p) /\ ~downloadComplete
                      /\ [][restarts' = restarts /\ restores' = restores]_vars
                      => [](Unverified(p) /\ ~downloadComplete))
<1>. DEFINE Here == Unverified(p) /\ ~downloadComplete
            Quiet == restarts' = restarts /\ restores' = restores
<1>1. TypeOK /\ Here /\ [Next]_vars /\ [Quiet]_vars => Here'
  BY UnverifiedNext DEF vars, restVars, diskVars, Unverified
<1>. HIDE DEF Here, Quiet
<1>2. Spec => [](Here /\ [][Quiet]_vars => []Here)
  BY <1>1, TypeCorrect, PTL DEF Spec
<1>. QED
  BY <1>2 DEF Here, Quiet

(***************************************************************************)
(* A block of a piece that counts as asked for although nobody asks for it. *)
(***************************************************************************)
Forgotten(p, b) ==
  /\ state[p] \in {"REQUESTED", "DOWNLOADING"}
  /\ received[p][b] = "none" /\ b \notin asked[p]
  /\ \A t \in Tasks : task[t] # Idle => task[t].piece # p

\* A piece that was being fetched when the checkpoint was saved is restored in that
\* state; in a new process it has no request and no coroutine
\* (piece/async_piece_manager.py:3122).
THEOREM RestoredAsForgotten ==
  ASSUME NEW p \in Pieces, NEW b \in Blocks
  PROVE  Spec => [][/\ Restore /\ ckpt.state[p] \in {"REQUESTED", "DOWNLOADING"}
                    /\ received[p][b] = "none" /\ b \notin asked[p]
                    /\ \A t \in Tasks : task[t] # Idle => task[t].piece # p
                    => Forgotten(p, b)']_vars
<1>. DEFINE Restored == /\ Restore /\ ckpt.state[p] \in {"REQUESTED", "DOWNLOADING"}
                        /\ received[p][b] = "none" /\ b \notin asked[p]
                        /\ \A t \in Tasks : task[t] # Idle => task[t].piece # p
<1>1. Restored => Forgotten(p, b)'
  <2>. SUFFICES ASSUME Restored PROVE Forgotten(p, b)'
    OBVIOUS
  <2>1. RestoredState(p) = ckpt.state[p]
    BY DEF RestoredState, Distrusted, Done
  <2>. QED
    BY <2>1 DEF Restore, Forgotten
<1>2. [Next]_vars => [Restored => Forgotten(p, b)']_vars
  BY <1>1
<1>. HIDE DEF Restored
<1>3. Spec => [][Restored => Forgotten(p, b)']_vars
  BY <1>2, PTL DEF Spec
<1>. QED
  BY <1>3 DEF Restored

\* So is the block that a division among the peers left over, once the piece's
\* requests are sent (piece/async_piece_manager.py:938-974).
LEMMA LeftOverIsForgotten ==
  ASSUME TypeOK, Safe, NEW p \in Pieces, LeftOver(p) PROVE \E b \in Blocks : Forgotten(p, b)
<1>1. PICK b \in MissingBlocks(p) : b \notin asked[p]
  BY DEF LeftOver
<1>2. b \in Blocks /\ received[p][b] = "none" /\ ~IsComplete(p)
  BY <1>1 DEF MissingBlocks, IsComplete
<1>3. state[p] \notin Done /\ state[p] # "MISSING" /\ state[p] \in PieceState
  BY <1>2 DEF Safe, StatesMatchBlocks, LeftOver, TypeOK
<1>. QED
  BY <1>1, <1>2, <1>3 DEF Forgotten, LeftOver, PieceState, Done

\* Only a piece that is MISSING is selected or asked for, and an answer to
\* nothing is taken for a block only if a peer sends what nobody asked for.
LEMMA ForgottenNext ==
  ASSUME TypeOK, Safe, "unsolicited" \notin Faults, NEW p \in Pieces, NEW b \in Blocks,
         Forgotten(p, b), [Next]_vars, restarts' = restarts, restores' = restores
  PROVE  Forgotten(p, b)'
<1>. USE DEF pieceVars, reqVars, hashVars, peerVars, diskVars, histVars, restVars
<1>0. \A t \in Tasks : task[t] # Idle => task[t].piece \in Pieces \ {p}
  BY DEF TypeOK, Task, Forgotten
<1>00. ~IsComplete(p) /\ ~Authentic(p)
  BY DEF Forgotten, IsComplete, Authentic
<1>1. CASE SelectPieces
  <2>1. state' = Repaired /\ UNCHANGED <<received, asked, task>>
    BY <1>1 DEF SelectPieces
  <2>2. Repaired[p] = state[p]
    BY DEF Repaired, Done, Forgotten
  <2>. QED
    BY <2>1, <2>2 DEF Forgotten
<1>2. ASSUME NEW r \in Pieces, RequestSkipped(r) \/ RequestWithoutPeers(r) \/ HashPiece(r)
      PROVE Forgotten(p, b)'
  BY <1>2 DEF RequestSkipped, RequestWithoutPeers, HashPiece, Forgotten
<1>3. ASSUME NEW t \in Tasks, NEW r \in Pieces, BeginRequest(t, r) PROVE Forgotten(p, b)'
  <2>1. /\ state[r] = "MISSING" /\ state' = [state EXCEPT ![r] = "REQUESTED"]
        /\ UNCHANGED <<received, asked>>
    BY <1>3 DEF BeginRequest, Requestable
  <2>2. r # p /\ state'[p] = state[p]
    BY <2>1 DEF Forgotten, TypeOK
  <2>3. \A u \in Tasks : task'[u] # Idle => task'[u] = task[u] \/ task'[u].piece = r
    BY <1>3 DEF BeginRequest, TypeOK
  <2>. QED
    BY <2>1, <2>2, <2>3 DEF Forgotten
<1>4. ASSUME NEW t \in Tasks, EndgameBlock(t) PROVE Forgotten(p, b)'
  <2>1. /\ task[t] # Idle /\ UNCHANGED <<received, state, asked>>
        /\ \E left, todo : task' = [task EXCEPT ![t].left = left, ![t].todo = todo]
    BY <1>4 DEF EndgameBlock
  <2>2. \A u \in Tasks \ {t} : task'[u] = task[u]
    BY <2>1 DEF TypeOK
  <2>3. task'[t].piece = task[t].piece
    BY <2>1 DEF TypeOK, Task
  <2>. QED
    BY <1>0, <2>1, <2>2, <2>3 DEF Forgotten
<1>5. ASSUME NEW t \in Tasks, SendRequest(t) PROVE Forgotten(p, b)'
  <2>1. PICK bq \in task[t].todo :
           /\ task' = [task EXCEPT ![t].todo = @ \ {bq}]
           /\ asked' = IF bq[2] \in ready
                       THEN [asked EXCEPT ![task[t].piece] = @ \cup {bq[1]}] ELSE asked
    BY <1>5 DEF SendRequest
  <2>2. task[t] # Idle /\ UNCHANGED <<received, state>>
    BY <1>5 DEF SendRequest
  <2>3. asked'[p] = asked[p]
    BY <1>0, <2>1, <2>2 DEF TypeOK
  <2>4. \A u \in Tasks \ {t} : task'[u] = task[u]
    BY <2>1 DEF TypeOK
  <2>5. task'[t].piece = task[t].piece
    BY <2>1, <2>2 DEF TypeOK, Task
  <2>. QED
    BY <1>0, <2>2, <2>3, <2>4, <2>5 DEF Forgotten
<1>6. ASSUME NEW t \in Tasks, SendFails(t) PROVE Forgotten(p, b)'
  BY <1>6 DEF SendFails, TypeOK, Forgotten
<1>7. ASSUME NEW t \in Tasks, FinishRequest(t) PROVE Forgotten(p, b)'
  <2>1. /\ task[t] # Idle /\ task' = [task EXCEPT ![t] = Idle]
        /\ state' = [state EXCEPT ![task[t].piece] = "DOWNLOADING"]
        /\ UNCHANGED <<received, asked>>
    BY <1>7 DEF FinishRequest
  <2>2. state'[p] = state[p]
    BY <1>0, <2>1 DEF TypeOK
  <2>. QED
    BY <2>1, <2>2 DEF Forgotten, TypeOK
<1>8. ASSUME NEW q \in Peers, NEW r \in Pieces, NEW d \in Blocks, NEW c,
             ReceiveBlock(q, r, d, c) PROVE Forgotten(p, b)'
  <2>1. /\ d \in asked[r] /\ received' = [received EXCEPT ![r][d] = c]
        /\ UNCHANGED <<asked, task>>
        /\ state' = state \/ (LastBlock(r, d) /\ state' = [state EXCEPT ![r] = "COMPLETE"])
    BY <1>8 DEF ReceiveBlock
  <2>2. received'[p][b] = "none"
    BY <2>1 DEF Forgotten, TypeOK
  <2>3. LastBlock(r, d) => r # p
    BY <2>1 DEF LastBlock, MissingBlocks, Forgotten
  <2>4. state'[p] = state[p]
    BY <2>1, <2>3 DEF TypeOK
  <2>. QED
    BY <2>1, <2>2, <2>4 DEF Forgotten
<1>14. ASSUME NEW r \in Pieces, ApplyVerified(r) PROVE Forgotten(p, b)'
  <2>1. /\ hashOk[r] > 0 /\ UNCHANGED <<received, asked, task>>
        /\ state' = [state EXCEPT ![r] = "VERIFIED"]
    BY <1>14 DEF ApplyVerified
  <2>2. r # p
    BY <1>00, <2>1 DEF Safe, PieceInv
  <2>. QED
    BY <2>1, <2>2 DEF Forgotten, TypeOK
<1>10. ASSUME NEW q \in Peers,
              \/ PeerConnects(q) \/ PeerUnchokes(q) \/ PeerChokes(q) \/ PeerDisconnects(q)
              \/ \E pieces \in Bitfields : PeerBitfield(q, pieces)
       PROVE Forgotten(p, b)'
  BY <1>10 DEF PeerConnects, PeerUnchokes, PeerChokes, PeerDisconnects, PeerBitfield, Forgotten
<1>11. CASE SaveCheckpoint \/ UNCHANGED vars
  BY <1>11 DEF SaveCheckpoint, vars, Forgotten
<1>12. ~Restart /\ ~Restore
  BY DEF Restart, Restore, TypeOK
<1>. QED
  BY <1>1, <1>2, <1>3, <1>4, <1>5, <1>6, <1>7, <1>8, <1>10, <1>11, <1>12, <1>14
     DEF Next, ReceiveGood, ReceiveBad

\* Such a block is not asked for until the next restore or restart, whatever peers
\* come and offer (an ordinary peer sends only what it was asked for), and the
\* download does not end.
THEOREM ForgottenPiecesStay ==
  ASSUME NEW p \in Pieces, NEW b \in Blocks, "unsolicited" \notin Faults
  PROVE  Spec => [](Forgotten(p, b) /\ [][restarts' = restarts /\ restores' = restores]_vars
                      => [](Forgotten(p, b) /\ ~downloadComplete))
<1>. DEFINE Quiet == restarts' = restarts /\ restores' = restores
            Stays == Forgotten(p, b) /\ ~downloadComplete
<1>1. TypeOK /\ Safe /\ Forgotten(p, b) /\ [Next]_vars /\ [Quiet]_vars => Forgotten(p, b)'
  <2>. SUFFICES ASSUME TypeOK, Safe, Forgotten(p, b), [Next]_vars, [Quiet]_vars
                PROVE Forgotten(p, b)'
    OBVIOUS
  <2>1. restarts' = restarts /\ restores' = restores
    BY DEF vars, restVars, diskVars
  <2>. QED
    BY <2>1, ForgottenNext
<1>2. Safe /\ Forgotten(p, b) => Stays
  <2>. SUFFICES ASSUME Safe, Forgotten(p, b) PROVE ~downloadComplete
    OBVIOUS
  <2>1. ~IsComplete(p) /\ ~Authentic(p)
    BY DEF Forgotten, IsComplete, Authentic
  <2>. QED
    BY <2>1 DEF Safe, CompleteMeansAll, PieceInv
<1>. HIDE DEF Stays, Quiet
<1>3. Spec => [](Forgotten(p, b) /\ [][Quiet]_vars => []Stays)
  BY <1>1, <1>2, SafeAlways, PTL DEF Spec
<1>. QED
  BY <1>3 DEF Stays, Quiet

\* What the pieces' states, blocks and coroutines say agrees at all times:
\* COMPLETE and VERIFIED pieces have all their blocks, a hash that matched was
\* one of authentic data, a piece somebody asks for is not MISSING, the
\* verification of the last block is never lost, and the end is announced only
\* when every piece is verified and authentic.
THEOREM SoundPieces == Spec => []PiecesAreSound
BY SafeAlways, PTL DEF PiecesAreSound, Safe
=============================================================================
