---------------------------- MODULE PieceManager ----------------------------
(***************************************************************************)
(* ccbt/piece/async_piece_manager.py: the pieces of one torrent, from       *)
(* MISSING to VERIFIED, under the coroutines that move them.                *)
(*                                                                          *)
(* asyncio switches coroutines only at an await that really suspends.  No   *)
(* coroutine suspends while it holds AsyncPieceManager.lock on the paths    *)
(* modelled here, so every `async with self.lock` body is one step together *)
(* with the code around it up to the next suspending await.  Those awaits   *)
(* are: the writer.drain() behind peer_manager.request_piece, the hash      *)
(* executor, and the start of a task made by create_task.                   *)
(*                                                                          *)
(* Wiring: session/download_manager.py, AsyncDownloadManager.start_download *)
(* (on_piece_completed is set, so handle_piece_block schedules a            *)
(* verification; a disconnect never calls _remove_peer).                    *)
(***************************************************************************)
EXTENDS Naturals, FiniteSets

CONSTANTS
  Pieces,       \* the indices of self.pieces
  Blocks,       \* block numbers inside a piece, in the order of their `begin`
  Peers,        \* peer keys "ip:port"
  Tasks,        \* running request_piece_from_peers coroutines (a bound)
  Bitfields,    \* the bitfields peers may announce
  Needed,       \* the pieces the file selection wants
  MaxSelect,    \* pieces asked for by one selection (5 for rarest first)
  MaxCreated,   \* request coroutines created and not begun, per piece (a bound)
  MaxSaves,     \* checkpoints written during a behaviour (a bound)
  MaxRestarts,  \* restarts of the process during a behaviour (a bound)
  MaxRestores,  \* checkpoints restored during a behaviour (a bound)
  EndgameDuplicates,  \* config.strategy.endgame_duplicates
  EndgamePercent,     \* config.strategy.endgame_threshold, in percent
  Faults        \* what the environment may do to a download

ASSUME PiecesAssumption == IsFiniteSet(Pieces) /\ Pieces # {}
ASSUME BlocksAssumption == Blocks \subseteq Nat /\ IsFiniteSet(Blocks) /\ Blocks # {}
ASSUME NeededAssumption == Needed \subseteq Pieces /\ Bitfields \subseteq SUBSET Pieces
ASSUME NumbersAssumption ==
  /\ MaxSelect \in Nat \ {0} /\ MaxCreated \in Nat
  /\ MaxSaves \in Nat /\ MaxRestarts \in Nat /\ MaxRestores \in Nat
  /\ EndgameDuplicates \in Nat \ {0} /\ EndgamePercent \in 0..100
ASSUME FaultsAssumption == Faults \subseteq {"corrupt", "unsolicited", "choke", "send"}

VARIABLES
  state,      \* PieceData.state
  received,   \* PieceBlock.received and whether its data is what the hash was made from
  completed,  \* self.completed_pieces
  verified,   \* self.verified_pieces
  downloadComplete,  \* self.download_complete
  endgame,    \* self.endgame_mode
  created,    \* request tasks created by the selector and not yet begun
  task,       \* the request coroutines that passed the MISSING test
  asked,      \* blocks whose requested_from is not empty
  hashing,    \* scheduled _verify_piece_hash tasks, per piece
  hashOk,     \* those whose hash matched and that have yet to take the lock
  avail,      \* self.peer_availability
  active,     \* connections get_active_peers returns
  ready,      \* those whose can_request() is true
  ckpt,       \* the checkpoint on disk
  saves, restarts, restores,   \* counters for MaxSaves, MaxRestarts and MaxRestores
  \* History: what restore_from_checkpoint did to the pieces of this process.
  undone,     \* pieces whose progress a restore took back
  believed    \* pieces verified only on the word of an earlier process

pieceVars == <<state, received, completed, verified, downloadComplete>>
reqVars   == <<endgame, created, task, asked>>
hashVars  == <<hashing, hashOk>>
peerVars  == <<avail, active, ready>>
diskVars  == <<ckpt, saves, restarts, restores>>
histVars  == <<undone, believed>>
restVars  == <<diskVars, histVars>>
vars == <<pieceVars, reqVars, hashVars, peerVars, restVars>>

PieceState == {"MISSING", "REQUESTED", "DOWNLOADING", "COMPLETE", "VERIFIED"}
Done == {"COMPLETE", "VERIFIED"}
Content == {"none", "good", "bad"}
Idle == [pc |-> "idle"]
NoCheckpoint == [state |-> <<>>]

Task == {Idle} \cup
  [pc : {"sending"}, piece : Pieces, sources : SUBSET Peers,
   left : SUBSET Blocks, todo : SUBSET (Blocks \X Peers)]
Checkpoint == {NoCheckpoint} \cup
  [state : [Pieces -> PieceState], verified : SUBSET Pieces, endgame : BOOLEAN,
   process : Nat]   \* the process that saved it

(***************************************************************************)
(* What the code computes from the state of a piece.                        *)
(***************************************************************************)
IsComplete(p) == \A b \in Blocks : received[p][b] # "none"
MissingBlocks(p) == {b \in Blocks : received[p][b] = "none"}
Authentic(p) == \A b \in Blocks : received[p][b] = "good"

\* PieceData.add_block takes a block it does not have yet, whatever the state
\* of the piece and whoever sent it.
\* Mutant: the test of block.received is dropped.
AcceptsAgain(p, b) == TRUE
Accepts(p, b) == received[p][b] = "none"

\* all(b.received for b in self.blocks) once b is in.
LastBlock(p, b) == MissingBlocks(p) = {b}

\* _hash_piece_optimized: False when get_data raises for a missing block.
\* Mutant: only the blocks that are present are hashed.
HashMatchesPresent(p) == \A b \in Blocks : received[p][b] # "bad"
HashMatches(p) == IsComplete(p) /\ Authentic(p)

\* The _verify_piece_hash tasks after a block of p is accepted: one more for
\* every block, not only for the last.
\* Mutant: only the first block of a piece schedules a verification.
VerifyOncePerPiece(p) ==
  [hashing EXCEPT ![p] = IF MissingBlocks(p) = Blocks THEN @ + 1 ELSE @]
VerifyScheduled(p) == [hashing EXCEPT ![p] = @ + 1]

\* len(self.verified_pieces) == self.num_pieces
AllVerified(v) == Cardinality(v) = Cardinality(Pieces)

\* PieceData.state after the selector's repair of COMPLETE/VERIFIED pieces
\* whose blocks are not all there.
Repaired == [p \in Pieces |->
  IF state[p] \in Done /\ ~IsComplete(p) THEN "MISSING" ELSE state[p]]

\* get_missing_pieces on the repaired states.
Missing == {p \in Needed : Repaired[p] = "MISSING"}

\* The (block, peer) pairs of _request_blocks_normal: peer number i gets the
\* missing blocks i*share .. i*share+share-1 and nobody gets what is left.
Share(blocks, peers) ==
  IF Cardinality(blocks) \div Cardinality(peers) = 0 THEN 1
  ELSE Cardinality(blocks) \div Cardinality(peers)
Rank(b, blocks) == Cardinality({c \in blocks : c < b})
Orders(peers) == {f \in [peers -> 0..(Cardinality(peers) - 1)] :
                    \A q, r \in peers : f[q] = f[r] => q = r}
NormalPlan(order, blocks, peers) ==
  {bq \in blocks \X peers :
     Rank(bq[1], blocks) \div Share(blocks, peers) = order[bq[2]]}

(***************************************************************************)
(* The selector: _piece_selector's loop, start_download's first selection   *)
(* and the trigger of a Have message all run _select_pieces.                *)
(***************************************************************************)
\* remaining_pieces <= total_pieces * (1 - endgame_threshold)
EndgameReached ==
  Cardinality(Missing) * 100 <= Cardinality(Pieces) * (100 - EndgamePercent)

\* A strategy takes at most MaxSelect of the missing pieces and makes one
\* request task for each: which ones, PieceSelection says.
SelectPieces ==
  /\ ~downloadComplete
  /\ active # {}
  /\ state' = Repaired
  /\ endgame' = (endgame \/ EndgameReached)
  /\ \E chosen \in SUBSET Missing :
       /\ Cardinality(chosen) <= MaxSelect
       /\ chosen = {} => Missing = {}
       /\ \A p \in chosen : created[p] < MaxCreated
       /\ created' = [p \in Pieces |-> IF p \in chosen THEN created[p] + 1 ELSE created[p]]
  /\ UNCHANGED <<received, completed, verified, downloadComplete, task, asked,
                 hashVars, peerVars, restVars>>

(***************************************************************************)
(* request_piece_from_peers: the MISSING test and the search for peers run  *)
(* without suspending, then every request is an await.                      *)
(***************************************************************************)
\* The test under the lock that keeps a second coroutine away from the piece.
\* Mutant: a piece already REQUESTED is requested again.
RequestableTwice(p) == state[p] \in {"MISSING", "REQUESTED"}
\* Mutant: only VERIFIED pieces are left alone.
RequestableUnlessVerified(p) == state[p] # "VERIFIED"
Requestable(p) == state[p] = "MISSING"

SourcesOf(p) == {q \in ready : p \in avail[q]}

\* A second task for a piece that is no longer MISSING returns at once.
RequestSkipped(p) ==
  /\ created[p] > 0
  /\ ~Requestable(p)
  /\ created' = [created EXCEPT ![p] = @ - 1]
  /\ UNCHANGED <<pieceVars, endgame, task, asked, hashVars, peerVars, restVars>>

\* No peer has the piece and can take a request: back to MISSING.
RequestWithoutPeers(p) ==
  /\ created[p] > 0
  /\ Requestable(p)
  /\ SourcesOf(p) = {}
  /\ created' = [created EXCEPT ![p] = @ - 1]
  /\ UNCHANGED <<pieceVars, endgame, task, asked, hashVars, peerVars, restVars>>

BeginRequest(t, p) ==
  /\ created[p] > 0
  /\ Requestable(p)
  /\ task[t] = Idle
  /\ SourcesOf(p) # {}
  /\ created' = [created EXCEPT ![p] = @ - 1]
  /\ state' = [state EXCEPT ![p] = "REQUESTED"]
  /\ IF MissingBlocks(p) = {}
     THEN task' = task
     ELSE \E order \in Orders(SourcesOf(p)) :
            task' = [task EXCEPT ![t] =
              [pc |-> "sending", piece |-> p, sources |-> SourcesOf(p),
               left |-> IF endgame THEN MissingBlocks(p) ELSE {},
               todo |-> IF endgame THEN {}
                        ELSE NormalPlan(order, MissingBlocks(p), SourcesOf(p))]]
  /\ UNCHANGED <<received, completed, verified, downloadComplete, endgame, asked,
                 hashVars, peerVars, restVars>>

\* _request_blocks_endgame: the next block goes to the first endgame_duplicates
\* of the peers that can take a request now.
EndgameBlock(t) ==
  /\ task[t] # Idle
  /\ task[t].todo = {}
  /\ \E b \in task[t].left, dups \in SUBSET (task[t].sources \cap ready) :
       /\ Cardinality(dups) <= EndgameDuplicates
       /\ dups # task[t].sources \cap ready => Cardinality(dups) = EndgameDuplicates
       /\ task' = [task EXCEPT ![t].left = @ \ {b}, ![t].todo = {b} \X dups]
  /\ UNCHANGED <<pieceVars, endgame, created, asked, hashVars, peerVars, restVars>>

\* One turn of the inner loops: a peer that can no longer take a request is
\* passed over.
SendRequest(t) ==
  /\ task[t] # Idle
  /\ \E bq \in task[t].todo :
       /\ task' = [task EXCEPT ![t].todo = @ \ {bq}]
       /\ asked' = IF bq[2] \in ready
                   THEN [asked EXCEPT ![task[t].piece] = @ \cup {bq[1]}]
                   ELSE asked
  /\ UNCHANGED <<pieceVars, endgame, created, hashVars, peerVars, restVars>>

\* _send_message raises and the task dies: nobody catches it, the piece keeps
\* the state it has.
SendFails(t) ==
  /\ "send" \in Faults
  /\ task[t] # Idle
  /\ \E bq \in task[t].todo : bq[2] \in ready
  /\ task' = [task EXCEPT ![t] = Idle]
  /\ UNCHANGED <<pieceVars, endgame, created, asked, hashVars, peerVars, restVars>>

\* The last `async with self.lock` of request_piece_from_peers: DOWNLOADING
\* whatever the state became while the requests were being sent.
FinishRequest(t) ==
  /\ task[t] # Idle
  /\ task[t].todo = {} /\ task[t].left = {}
  /\ state' = [state EXCEPT ![task[t].piece] = "DOWNLOADING"]
  /\ task' = [task EXCEPT ![t] = Idle]
  /\ UNCHANGED <<received, completed, verified, downloadComplete, endgame, created,
                 asked, hashVars, peerVars, restVars>>

(***************************************************************************)
(* handle_piece_block and update_peer_have for one block message, then the  *)
(* verification task.                                                       *)
(***************************************************************************)
\* PieceData.add_block ignores a block it already has, so a duplicate changes
\* nothing; an accepted block always schedules a verification.
ReceiveBlock(q, p, b, content) ==
  /\ q \in active
  /\ b \in asked[p] \/ "unsolicited" \in Faults
  /\ Accepts(p, b)
  /\ received' = [received EXCEPT ![p][b] = content]
  /\ IF LastBlock(p, b)
     THEN /\ state' = [state EXCEPT ![p] = "COMPLETE"]
          /\ completed' = completed \cup {p}
     ELSE UNCHANGED <<state, completed>>
  /\ hashing' = VerifyScheduled(p)
  /\ avail' = [avail EXCEPT ![q] = @ \cup {p}]
  /\ UNCHANGED <<verified, downloadComplete, reqVars, hashOk, active, ready, restVars>>

\* The hash executor reads the blocks without the lock.  A piece with a block
\* missing raises inside _hash_piece_optimized and counts as a failure; a
\* failure is logged and nothing else.
HashPiece(p) ==
  /\ hashing[p] > 0
  /\ hashing' = [hashing EXCEPT ![p] = @ - 1]
  /\ hashOk' = IF HashMatches(p) THEN [hashOk EXCEPT ![p] = @ + 1] ELSE hashOk
  /\ UNCHANGED <<pieceVars, reqVars, peerVars, restVars>>

\* Back on the loop with a valid hash.  on_checkpoint_save is a coroutine
\* function called without await, so it saves nothing here.
ApplyVerified(p) ==
  /\ hashOk[p] > 0
  /\ hashOk' = [hashOk EXCEPT ![p] = @ - 1]
  /\ verified' = verified \cup {p}
  /\ state' = [state EXCEPT ![p] = "VERIFIED"]
  /\ downloadComplete' = (downloadComplete \/ AllVerified(verified'))
  /\ UNCHANGED <<received, completed, reqVars, hashing, peerVars, restVars>>

(***************************************************************************)
(* Peers: connections come and go, announce pieces, choke and unchoke.      *)
(***************************************************************************)
PeerConnects(q) ==
  /\ q \notin active
  /\ active' = active \cup {q}
  /\ UNCHANGED <<pieceVars, reqVars, hashVars, avail, ready, restVars>>

\* update_peer_availability replaces what the peer announced before.
PeerBitfield(q, pieces) ==
  /\ q \in active
  /\ avail' = [avail EXCEPT ![q] = pieces]
  /\ UNCHANGED <<pieceVars, reqVars, hashVars, active, ready, restVars>>

PeerUnchokes(q) ==
  /\ q \in active \ ready
  /\ ready' = ready \cup {q}
  /\ UNCHANGED <<pieceVars, reqVars, hashVars, avail, active, restVars>>

PeerChokes(q) ==
  /\ "choke" \in Faults
  /\ ready' = ready \ {q}
  /\ q \in ready
  /\ UNCHANGED <<pieceVars, reqVars, hashVars, avail, active, restVars>>

\* The manager drops the connection; peer_availability keeps the peer's pieces.
PeerDisconnects(q) ==
  /\ "choke" \in Faults
  /\ q \in active
  /\ active' = active \ {q}
  /\ ready' = ready \ {q}
  /\ UNCHANGED <<pieceVars, reqVars, hashVars, avail, restVars>>

(***************************************************************************)
(* Checkpoints and restarts.                                                *)
(***************************************************************************)
\* get_checkpoint_state under _checkpoint_loop's periodic save and under
\* pause(), whose save may fail and is then only warned of.
SaveCheckpoint ==
  /\ saves < MaxSaves
  /\ saves' = saves + 1
  /\ ckpt' = [state |-> state, verified |-> verified, endgame |-> endgame,
              process |-> restarts]
  /\ UNCHANGED <<pieceVars, reqVars, hashVars, peerVars, restarts, restores, histVars>>

\* A checkpoint of complete pieces none of which is verified is taken for
\* corrupted (bytes_downloaded is 0 in every checkpoint: nothing counts it) and
\* its states are not restored.
Distrusted == ckpt.verified = {} /\ \A p \in Pieces : ckpt.state[p] \in Done

\* restore_from_checkpoint, the state of one piece: COMPLETE and VERIFIED only if
\* the blocks are there, VERIFIED only if the checkpoint also lists the piece.
\* Mutant: the checkpoint is believed without a look at the blocks.
RestoredStateTrusted(p) == ckpt.state[p]
RestoredState(p) ==
  IF Distrusted THEN state[p]
  ELSE IF ckpt.state[p] \in Done /\ ~IsComplete(p) THEN "MISSING"
  ELSE IF ckpt.state[p] = "VERIFIED" /\ p \notin ckpt.verified THEN "COMPLETE"
  ELSE ckpt.state[p]

RestoredVerified == {p \in Pieces : p \in ckpt.verified /\ RestoredState(p) = "VERIFIED"}
RestoredCompleted == {p \in Pieces : RestoredState(p) = "COMPLETE"}

\* What a restore takes back: the verification of a piece, the record that its
\* blocks are all there, or the mark that its requests are being sent.
TakenBack(p) ==
  \/ p \in verified \ RestoredVerified
  \/ p \in completed \ (RestoredCompleted \cup RestoredVerified)
  \/ RestoredState(p) = "MISSING" /\ \E t \in Tasks : task[t] # Idle /\ task[t].piece = p

\* session.start restores the checkpoint it finds over the pieces of the process:
\* blank ones after a restart; but resume() calls start() again, and pause() has
\* stopped neither the piece manager nor the peers, so blocks, coroutines, hashes
\* and peers go on as they are.  (Loading the file and restoring it are one step.)
Restore ==
  /\ ckpt # NoCheckpoint
  /\ restores < MaxRestores
  /\ restores' = restores + 1
  /\ state' = [p \in Pieces |-> RestoredState(p)]
  /\ verified' = RestoredVerified
  /\ completed' = RestoredCompleted
  /\ endgame' = ckpt.endgame
  /\ undone' = undone \cup {p \in Pieces : TakenBack(p)}
  /\ believed' = IF ckpt.process = restarts THEN believed
                 ELSE believed \cup (RestoredVerified \ verified)
  /\ UNCHANGED <<received, downloadComplete, created, task, asked, hashVars, peerVars,
                 ckpt, saves, restarts>>

\* The process dies; the next one begins with nothing but the checkpoint on disk.
Restart ==
  /\ restarts < MaxRestarts
  /\ restarts' = restarts + 1
  /\ state' = [p \in Pieces |-> "MISSING"]
  /\ received' = [p \in Pieces |-> [b \in Blocks |-> "none"]]
  /\ completed' = {} /\ verified' = {}
  /\ downloadComplete' = FALSE /\ endgame' = FALSE
  /\ created' = [p \in Pieces |-> 0]
  /\ task' = [t \in Tasks |-> Idle]
  /\ asked' = [p \in Pieces |-> {}]
  /\ hashing' = [p \in Pieces |-> 0]
  /\ hashOk' = [p \in Pieces |-> 0]
  /\ avail' = [q \in Peers |-> {}]
  /\ active' = {} /\ ready' = {}
  /\ undone' = {} /\ believed' = {}
  /\ UNCHANGED <<ckpt, saves, restores>>

(***************************************************************************)
(* The specification.                                                       *)
(***************************************************************************)
Init ==
  /\ state = [p \in Pieces |-> "MISSING"]
  /\ received = [p \in Pieces |-> [b \in Blocks |-> "none"]]
  /\ completed = {} /\ verified = {}
  /\ downloadComplete = FALSE /\ endgame = FALSE
  /\ created = [p \in Pieces |-> 0]
  /\ task = [t \in Tasks |-> Idle]
  /\ asked = [p \in Pieces |-> {}]
  /\ hashing = [p \in Pieces |-> 0]
  /\ hashOk = [p \in Pieces |-> 0]
  /\ avail = [q \in Peers |-> {}]
  /\ active = {} /\ ready = {}
  /\ undone = {} /\ believed = {}
  /\ ckpt = NoCheckpoint /\ saves = 0 /\ restarts = 0 /\ restores = 0

ReceiveGood == \E q \in Peers, p \in Pieces, b \in Blocks : ReceiveBlock(q, p, b, "good")
ReceiveBad ==
  /\ "corrupt" \in Faults
  /\ \E q \in Peers, p \in Pieces, b \in Blocks : ReceiveBlock(q, p, b, "bad")

Next ==
  \/ SelectPieces
  \/ \E p \in Pieces : RequestSkipped(p) \/ RequestWithoutPeers(p)
  \/ \E t \in Tasks, p \in Pieces : BeginRequest(t, p)
  \/ \E t \in Tasks : EndgameBlock(t) \/ SendRequest(t) \/ SendFails(t) \/ FinishRequest(t)
  \/ ReceiveGood
  \/ ReceiveBad
  \/ \E p \in Pieces : HashPiece(p) \/ ApplyVerified(p)
  \/ \E q \in Peers : PeerConnects(q) \/ PeerUnchokes(q) \/ PeerChokes(q) \/ PeerDisconnects(q)
  \/ \E q \in Peers, pieces \in Bitfields : PeerBitfield(q, pieces)
  \/ SaveCheckpoint
  \/ Restore
  \/ Restart

Spec == Init /\ [][Next]_vars

\* The event loop runs every task that can run, the selector wakes every
\* second, the executor answers, and a peer that was asked for a block and has
\* not choked us sends it.  Nothing is assumed of checkpoints or of faults.
Fairness ==
  /\ WF_vars(SelectPieces)
  /\ \A p \in Pieces : /\ WF_vars(RequestSkipped(p) \/ RequestWithoutPeers(p)
                                  \/ \E t \in Tasks : BeginRequest(t, p))
                       /\ WF_vars(HashPiece(p)) /\ WF_vars(ApplyVerified(p))
                       /\ \A b \in Blocks : WF_vars(b \in asked[p] /\ \E q \in Peers :
                                                      ReceiveBlock(q, p, b, "good"))
  /\ \A t \in Tasks : WF_vars(EndgameBlock(t) \/ SendRequest(t) \/ FinishRequest(t))

FairSpec == Spec /\ Fairness

(***************************************************************************)
(* Properties.                                                              *)
(***************************************************************************)
\* Every variable holds a value of its type.
TypeOK ==
  /\ state \in [Pieces -> PieceState]
  /\ received \in [Pieces -> [Blocks -> Content]]
  /\ completed \subseteq Pieces /\ verified \subseteq Pieces
  /\ downloadComplete \in BOOLEAN /\ endgame \in BOOLEAN
  /\ created \in [Pieces -> Nat]
  /\ task \in [Tasks -> Task]
  /\ asked \in [Pieces -> SUBSET Blocks]
  /\ hashing \in [Pieces -> Nat] /\ hashOk \in [Pieces -> Nat]
  /\ avail \in [Peers -> SUBSET Pieces]
  /\ active \subseteq Peers /\ ready \subseteq active
  /\ ckpt \in Checkpoint
  /\ saves \in Nat /\ restarts \in Nat /\ restores \in Nat
  /\ undone \subseteq Pieces /\ believed \subseteq Pieces

\* Whatever peers send, and however the hash thread interleaves with arriving
\* blocks, a restart and a resume, a piece counted as verified or served to others
\* (get_piece_data and get_block test the state) holds exactly authentic data,
\* unless it is verified only because a process before this one verified it: a
\* restore then believes the checkpoint about blocks this process received.
VerifiedIsAuthentic ==
  \A p \in Pieces : p \in verified \/ state[p] = "VERIFIED" => Authentic(p) \/ p \in believed

\* download_complete is announced only when every piece of the torrent has been
\* verified by this process, and that stays true although a resume may take some
\* out of verified_pieces again; a second verification of one piece is not
\* counted twice.
CompleteMeansAll ==
  downloadComplete =>
    \A p \in Pieces : /\ Authentic(p) \/ p \in believed
                      /\ p \in verified \/ p \in undone

\* A piece is marked COMPLETE or VERIFIED only when all its blocks are there,
\* after a resume too, so the repairs in get_missing_pieces and _select_pieces
\* never find anything to repair; completed_pieces holds only such pieces, and a
\* piece with every block is in it or verified unless a resume took it out.
StatesMatchBlocks ==
  /\ \A p \in Pieces : state[p] \in Done => IsComplete(p)
  /\ completed \subseteq {p \in Pieces : IsComplete(p)}
  /\ {p \in Pieces : IsComplete(p)} \subseteq completed \cup verified \cup undone

\* At most one coroutine at a time sends the requests of a piece, although
\* several may have been created for it; only a resume that sets a piece back to
\* MISSING while its requests are being sent lets a second one in.
OneRequester ==
  \A t, u \in Tasks : t # u /\ task[t] # Idle /\ task[u] # Idle
                        => task[t].piece # task[u].piece \/ task[t].piece \in undone

\* What makes the invariants above inductive: a hash that matched was a hash of
\* authentic data; a piece being requested is not MISSING, so no second coroutine
\* passes the test; a MISSING piece lacks a block, so it is never requested in
\* vain; a piece is believed only with all its blocks; and the end is not missed.
PieceInv ==
  /\ \A p \in Pieces : hashOk[p] > 0 => Authentic(p)
  /\ \A t \in Tasks : task[t] # Idle => state[task[t].piece] # "MISSING" \/ task[t].piece \in undone
  /\ \A p \in Pieces : state[p] = "MISSING" => ~IsComplete(p) \/ p \in undone
  /\ \A p \in Pieces : p \in believed => IsComplete(p)
  /\ verified = Pieces => downloadComplete \/ believed # {}

\* A checkpoint this process has saved lists only pieces that are authentic, or
\* believed, now as well: a resume from it vouches for nothing wrong.
CheckpointInv ==
  ckpt # NoCheckpoint =>
    /\ ckpt.process <= restarts
    /\ ckpt.process = restarts =>
         /\ \A p \in ckpt.verified : Authentic(p) \/ p \in believed
         /\ ckpt.verified = Pieces => downloadComplete \/ believed # {}

\* No coroutine starts asking for a piece whose blocks are all there: the
\* selector and the MISSING test never send a complete piece to the network,
\* unless a resume took its completion back.
CompleteNeverRequested ==
  [][\A p \in Pieces : state[p] # "REQUESTED" /\ state'[p] = "REQUESTED"
        => restores' # restores \/ ~IsComplete(p) \/ p \in undone]_vars

\* Once received, a block keeps its data until the process ends: an answer that
\* arrives twice (endgame) can not replace data already hashed.
BlocksAreKept ==
  [][restarts' = restarts => \A p \in Pieces, b \in Blocks :
        received[p][b] # "none" => received'[p][b] = received[p][b]]_vars

\* Every piece whose data is authentic is verified or has a verification under
\* way that will succeed: the one scheduled for its last block sees all of it.
\* Only a resume loses one, by putting the checkpoint's verified_pieces back.
NoVerificationLost ==
  \A p \in Pieces : Authentic(p) => \/ p \in verified \cup undone
                                    \/ hashing[p] > 0 \/ hashOk[p] > 0

\* The piece manager keeps the promise of VerifiedStore.
Store == INSTANCE VerifiedStore WITH
  data <- [p \in Pieces |-> IF ~IsComplete(p) THEN "none"
                            ELSE IF Authentic(p) THEN "good" ELSE "bad"],
  vouched <- verified,
  finished <- downloadComplete,
  saved <- IF ckpt = NoCheckpoint THEN {} ELSE ckpt.verified
ImplementsStore == Store!Spec

\* The last blocks of p, as many as a division among some number of peers leaves
\* over, that _request_blocks_normal asked nobody for and nobody will.
LeftOver(p) ==
  LET rest == MissingBlocks(p) \ asked[p] IN
    /\ state[p] # "MISSING"
    /\ \A t \in Tasks : task[t] # Idle => task[t].piece # p
    /\ rest # {}
    /\ \A b \in rest, c \in Blocks \ rest : c < b
    /\ \E k \in 1..(Cardinality(Blocks) - 1) :
         k <= Cardinality(Peers) /\ Cardinality(rest) = Cardinality(Blocks) % k


(***************************************************************************)
(* Statements of the source that the code does not keep.                    *)
(***************************************************************************)
\* "Hash verification failed, mark as missing so it gets re-downloaded"
\* (PieceData.verify_hash): a complete piece with bad data becomes MISSING.
CorruptIsRefetched ==
  \A p \in Pieces : IsComplete(p) /\ ~Authentic(p) ~> state[p] = "MISSING"

\* The states, the blocks and the coroutines of the pieces agree (PieceData and
\* the manager's sets are changed by request_piece_from_peers, handle_piece_block
\* and _verify_piece_hash in turn).
PiecesAreSound ==
  /\ TypeOK /\ PieceInv /\ CheckpointInv
  /\ CompleteMeansAll /\ StatesMatchBlocks /\ NoVerificationLost
=============================================================================
