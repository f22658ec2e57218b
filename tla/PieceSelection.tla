--------------------------- MODULE PieceSelection ---------------------------
(***************************************************************************)
(* What the client knows of its peers' pieces, and which pieces it asks for *)
(* next: the counters of ccbt/piece/async_piece_manager.py and the three    *)
(* strategies behind _select_pieces, with the messages that feed them       *)
(* (ccbt/peer/async_peer_connection.py, ccbt/session/download_manager.py).  *)
(*                                                                          *)
(* A Have message updates the counters inside its handler.  A Bitfield only *)
(* creates a task that creates the task that updates them, so a Have read   *)
(* right behind the Bitfield (no await of the read loop has to suspend when *)
(* the bytes are there) is applied first.                                   *)
(***************************************************************************)
EXTENDS Integers, FiniteSets, Sequences

CONSTANTS
  Pieces,      \* piece indices
  Peers,       \* peer keys "ip:port"
  Needed,      \* pieces is_piece_needed accepts: the file selection
  Priority,    \* PieceData.priority raised by 100 * the file's priority
  FileOrder,   \* position of the piece's first selected file
  Bitfields,   \* the bitfields a peer may send
  Strategies,  \* the values config.strategy.piece_selection may have
  TopK,        \* pieces rarest-first asks for in one selection (5)
  Window,      \* config.strategy.sequential_window
  Removes,     \* whether someone calls _remove_peer: the tests do, the program does not
  MaxSessions, \* connections made (a bound)
  MaxRestarts, \* restarts of the process (a bound)
  MaxRestores  \* restores from a checkpoint (a bound)

ASSUME PiecesAssumption == Pieces \subseteq Nat /\ IsFiniteSet(Pieces)
ASSUME PeersAssumption == IsFiniteSet(Peers)
ASSUME SelectionAssumption ==
  /\ Needed \subseteq Pieces /\ Bitfields \subseteq SUBSET Pieces
  /\ Priority \in [Pieces -> Nat] /\ FileOrder \in [Pieces -> Nat]
  /\ Strategies \subseteq {"rarest_first", "sequential", "round_robin"}
  /\ TopK \in Nat \ {0} /\ Window \in Nat \ {0}
ASSUME BoundsAssumption == 
  /\ Removes \in BOOLEAN /\ MaxSessions \in Nat
  /\ MaxRestarts \in Nat /\ MaxRestores \in Nat

VARIABLES
  connected,  \* peers with an active connection
  open,       \* connected peers that do not choke us and have room in their pipeline
  sessions,   \* connections made
  greeted,    \* connected peers whose bitfield has been read
  known,      \* peer_state.pieces_we_have: Haves already processed
  deferred,   \* bitfields whose update_peer_availability task has not run
  avail,      \* self.peer_availability[...].pieces
  freq,       \* self.piece_frequency
  phase,      \* PieceData.state: "missing", "asked" (any other), or "requested" (in the mutant)
  created,    \* pieces with a request_piece_from_peers task not begun
  strategy,   \* config.strategy.piece_selection, read when the process starts
  restarts, restores,
  before,     \* history: pieces asked for before the last restart or restore
  drifted     \* history: pieces recorded of some peer when a restore replaced the counters

peerVars == <<connected, open, sessions, greeted, known>>
runVars == <<strategy, restarts, restores, before, drifted>>
vars == <<peerVars, deferred, avail, freq, phase, created, runVars>>

(***************************************************************************)
(* Availability.                                                            *)
(***************************************************************************)
Count(p) == Cardinality({q \in Peers : p \in avail[q]})

Connect(q) ==
  /\ q \notin connected
  /\ sessions < MaxSessions
  /\ sessions' = sessions + 1
  /\ connected' = connected \cup {q}
  /\ UNCHANGED <<open, greeted, known, deferred, avail, freq, phase, created, runVars>>

\* can_request changes with the peer's Choke and Unchoke and as the pipeline
\* fills and drains; a connection starts choked.
CanRequest(q) ==
  /\ q \in connected \ open
  /\ open' = open \cup {q}
  /\ UNCHANGED <<connected, sessions, greeted, known, deferred, avail, freq, phase, created,
                 runVars>>
CannotRequest(q) ==
  /\ q \in open
  /\ open' = open \ {q}
  /\ UNCHANGED <<connected, sessions, greeted, known, deferred, avail, freq, phase, created,
                 runVars>>

\* The counters after a peer's pieces went from old to new.
\* Mutant: pieces the peer no longer has stay counted.
RecountedUp(old, new) ==
  [p \in Pieces |-> IF p \in new \ old THEN freq[p] + 1 ELSE freq[p]]
Recounted(old, new) ==
  [p \in Pieces |-> freq[p] + (IF p \in new \ old THEN 1 ELSE 0)
                            - (IF p \in old \ new THEN 1 ELSE 0)]

\* _handle_bitfield: the callback defers the update.
ReadBitfield(q, pieces) ==
  /\ q \in connected \ greeted
  /\ greeted' = greeted \cup {q}
  /\ deferred' = [deferred EXCEPT ![q] = Append(@, pieces)]
  /\ UNCHANGED <<connected, open, sessions, known, avail, freq, phase, created, runVars>>

\* update_peer_availability replaces the pieces of the peer, connected or not.
UpdateAvailability(q) ==
  /\ deferred[q] # <<>>
  /\ deferred' = [deferred EXCEPT ![q] = Tail(@)]
  /\ avail' = [avail EXCEPT ![q] = Head(deferred[q])]
  /\ freq' = Recounted(avail[q], Head(deferred[q]))
  /\ UNCHANGED <<peerVars, phase, created, runVars>>

\* _handle_have: a Have processed before is skipped, any other is counted by
\* update_peer_have at once.
ReadHave(q, p) ==
  /\ q \in connected
  /\ p \notin known[q]
  /\ known' = [known EXCEPT ![q] = @ \cup {p}]
  /\ avail' = [avail EXCEPT ![q] = @ \cup {p}]
  /\ freq' = Recounted(avail[q], avail[q] \cup {p})
  /\ UNCHANGED <<connected, open, sessions, greeted, deferred, phase, created, runVars>>

\* _on_piece_received: a peer that sends a piece, asked for or not, has it.
ReadPiece(q, p) ==
  /\ q \in connected
  /\ avail' = [avail EXCEPT ![q] = @ \cup {p}]
  /\ freq' = Recounted(avail[q], avail[q] \cup {p})
  /\ UNCHANGED <<connected, open, sessions, greeted, known, deferred, phase, created, runVars>>

\* The connection goes; nobody tells the piece manager.
Disconnect(q) ==
  /\ q \in connected
  /\ connected' = connected \ {q}
  /\ open' = open \ {q}
  /\ greeted' = greeted \ {q}
  /\ known' = [known EXCEPT ![q] = {}]
  /\ UNCHANGED <<sessions, deferred, avail, freq, phase, created, runVars>>

\* _remove_peer; a counter that falls to zero leaves the Counter.
RemovePeer(q) ==
  /\ Removes
  /\ q \notin connected
  /\ avail[q] # {}
  /\ freq' = [p \in Pieces |-> IF p \in avail[q] THEN (IF freq[p] > 1 THEN freq[p] - 1 ELSE 0)
                                                  ELSE freq[p]]
  /\ avail' = [avail EXCEPT ![q] = {}]
  /\ UNCHANGED <<peerVars, deferred, phase, created, runVars>>

Asked == {p \in Pieces : phase[p] = "asked"}

\* A new process: an empty piece manager, no connection and no task.
Restart ==
  /\ restarts < MaxRestarts
  /\ restarts' = restarts + 1
  /\ strategy' \in Strategies
  /\ connected' = {} /\ open' = {} /\ greeted' = {}
  /\ known' = [q \in Peers |-> {}]
  /\ deferred' = [q \in Peers |-> <<>>]
  /\ avail' = [q \in Peers |-> {}]
  /\ freq' = [p \in Pieces |-> 0]
  /\ phase' = [p \in Pieces |-> "missing"]
  /\ created' = {} /\ drifted' = {}
  /\ before' = before \cup Asked
  /\ UNCHANGED <<sessions, restores>>

\* restore_from_checkpoint takes the counters of the checkpoint, whose keys are
\* strings after JSON: no piece index finds one.
RestoredFrequency == [p \in Pieces |-> 0]

\* restore_from_checkpoint, when a process starts or when resume() calls it
\* over a live manager, whose peers, tasks and recorded pieces stay.  The
\* checkpoint was saved at some earlier time: a piece that had been asked for
\* may be so again (a piece that is COMPLETE there without its blocks is MISSING).
Restore ==
  /\ restores < MaxRestores
  /\ restores' = restores + 1
  /\ freq' = RestoredFrequency
  /\ \E asked \in SUBSET (before \cup Asked) :
       phase' = [p \in Pieces |-> IF p \in asked THEN "asked" ELSE "missing"]
  /\ before' = before \cup Asked
  /\ drifted' = {p \in Pieces : Count(p) > 0}
  /\ UNCHANGED <<peerVars, deferred, avail, created, strategy, restarts>>

(***************************************************************************)
(* Selection.                                                               *)
(***************************************************************************)
\* get_missing_pieces: the MISSING pieces, filtered by the file selection.
AllMissing == {p \in Pieces : phase[p] = "missing"}
Missing == {p \in Needed : phase[p] = "missing"}

\* _select_rarest_first: the first TopK by score, ties by the larger index.
Score(p) == 1000 - freq[p] + Priority[p]
\* Mutant: the list is sorted in ascending order.
BetterAscending(p, r) == Score(p) < Score(r) \/ (Score(p) = Score(r) /\ p < r)
Better(p, r) == Score(p) > Score(r) \/ (Score(p) = Score(r) /\ p > r)
Rarest == {p \in Missing : Cardinality({r \in Missing : Better(r, p)}) < TopK}

\* _select_sequential: the first piece, by file and index, of the window that
\* starts at the first missing piece.
\* Mutant: the window has no end.
InWindowUnbounded == Missing
InWindow == {p \in Missing : \A r \in Missing : p < r + Window}
Earlier(p, r) == FileOrder[p] < FileOrder[r] \/ (FileOrder[p] = FileOrder[r] /\ p < r)
Sequential == {p \in InWindow : \A r \in InWindow \ {p} : Earlier(p, r)}

\* _select_round_robin: the first MISSING piece; the file selection is not asked.
RoundRobin == {p \in AllMissing : \A r \in AllMissing : p <= r}

Chosen == CASE strategy = "rarest_first" -> Rarest
            [] strategy = "sequential" -> Sequential
            [] strategy = "round_robin" -> RoundRobin

SelectPieces ==
  /\ connected # {}
  /\ created' = created \cup Chosen
  /\ UNCHANGED <<peerVars, deferred, avail, freq, phase, runVars>>

\* Connections that can be asked for p (_get_peers_for_piece).
SourcesOf(p) == {q \in open : p \in avail[q]}

\* A request task that finds no peer makes the piece MISSING again.
\* Mutant: it forgets to.
PhaseWithoutPeersStays(p) == "requested"
PhaseWithoutPeers(p) == "missing"

RequestPiece(p) ==
  /\ p \in created
  /\ created' = created \ {p}
  /\ phase' = [phase EXCEPT ![p] =
       IF @ # "missing" THEN @
       ELSE IF SourcesOf(p) = {} THEN PhaseWithoutPeers(p) ELSE "asked"]
  /\ UNCHANGED <<peerVars, deferred, avail, freq, runVars>>

(***************************************************************************)
(* The specification.                                                       *)
(***************************************************************************)
Init ==
  /\ connected = {} /\ open = {} /\ greeted = {} /\ created = {}
  /\ strategy \in Strategies
  /\ restarts = 0 /\ restores = 0 /\ before = {} /\ drifted = {}
  /\ sessions = 0
  /\ known = [q \in Peers |-> {}]
  /\ deferred = [q \in Peers |-> <<>>]
  /\ avail = [q \in Peers |-> {}]
  /\ freq = [p \in Pieces |-> 0]
  /\ phase = [p \in Pieces |-> "missing"]

Next ==
  \/ \E q \in Peers : Connect(q) \/ Disconnect(q) \/ CanRequest(q) \/ CannotRequest(q)
  \/ \E q \in Peers : UpdateAvailability(q) \/ RemovePeer(q)
  \/ \E q \in Peers, pieces \in Bitfields : ReadBitfield(q, pieces)
  \/ \E q \in Peers, p \in Pieces : ReadHave(q, p) \/ ReadPiece(q, p)
  \/ SelectPieces
  \/ \E p \in Pieces : RequestPiece(p)
  \/ Restart \/ Restore

Spec == Init /\ [][Next]_vars

\* The event loop runs created tasks and the selector wakes every second.
Fairness ==
  /\ WF_vars(SelectPieces)
  /\ \A p \in Pieces : WF_vars(RequestPiece(p))
  /\ \A q \in Peers : WF_vars(UpdateAvailability(q))
FairSpec == Spec /\ Fairness

(***************************************************************************)
(* Properties.                                                              *)
(***************************************************************************)
\* Every variable holds a value of its type.
TypeOK ==
  /\ connected \subseteq Peers /\ open \subseteq connected /\ greeted \subseteq connected
  /\ sessions \in Nat
  /\ known \in [Peers -> SUBSET Pieces]
  /\ deferred \in [Peers -> Seq(SUBSET Pieces)]
  /\ avail \in [Peers -> SUBSET Pieces]
  /\ freq \in [Pieces -> Int]
  /\ phase \in [Pieces -> {"missing", "requested", "asked"}]
  /\ created \subseteq Pieces
  /\ strategy \in Strategies
  /\ before \subseteq Pieces /\ drifted \subseteq Pieces
  /\ restarts \in Nat /\ restores \in Nat

\* piece_frequency, adjusted by differences in four handlers, is the number of
\* peers whose recorded pieces include the piece, except for the pieces that were
\* recorded of somebody when a restore replaced the counters.  For those it may
\* be less, even negative, until the process ends; it is never more.
FrequencyCounts ==
  \A p \in Pieces : /\ freq[p] <= Count(p)
                    /\ p \notin drifted => freq[p] = Count(p)

\* Rarest-first never asks for a piece while it passes over a rarer missing one
\* of at least the same priority.
RarestComesFirst ==
  [][strategy = "rarest_first" =>
       \A p \in created' \ created, r \in Missing \ created' :
          Priority[r] >= Priority[p] => freq[p] <= freq[r]]_vars

\* Sequential selection passes over a missing piece only for a piece of an
\* earlier selected file that is less than a window away.
PassesOverOnlyInWindow ==
  [][strategy = "sequential" =>
       \A p \in created' \ created, r \in Missing \ created' :
          r < p => p < r + Window /\ FileOrder[p] < FileOrder[r]]_vars

\* Rarest-first gets to every needed piece, once and for all, if every missing
\* one goes on having a peer that can be asked, but for a fixed set smaller than
\* what one selection takes.  (Those may come first in every selection and be
\* put back to MISSING for want of a peer; the counters need not be right.)
AvailableIsAsked ==
  \A hopeless \in {S \in SUBSET Needed : Cardinality(S) < TopK} :
    <>[](strategy = "rarest_first" /\ \A p \in Missing \ hopeless : SourcesOf(p) # {})
      => \A p \in Needed \ hopeless : <>[](phase[p] = "asked")

\* The counters that the strategies sort by drift from what is recorded of the
\* peers by a restore over a live manager and by nothing else
\* (update_peer_availability, update_peer_have, restore_from_checkpoint).
CountersAreSound == TypeOK /\ FrequencyCounts
=============================================================================
