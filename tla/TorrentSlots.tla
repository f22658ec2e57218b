----------------------------- MODULE TorrentSlots -----------------------------
(***************************************************************************)
(* What the queue of torrents promises: a slot is given to a torrent of the *)
(* queue that has none, and only when there is room for one more of its     *)
(* kind; a torrent that leaves gives its slot back.  The first round of the *)
(* monitor sorts the slots anew and freezes the queue; a queue whose round  *)
(* was cancelled promises no limits any more.                               *)
(***************************************************************************)
EXTENDS Naturals, FiniteSets

CONSTANTS
  Hashes,
  MaxDown,    \* room for downloads, 0: no limit
  MaxSeed,    \* room for seeds
  MaxActive   \* a download needs as much room among all that are active

VARIABLES
  queued,   \* the torrents of the queue
  down,     \* those with a slot to download
  seed,     \* those with a slot to seed
  mode      \* "kept", "frozen" from the monitor's first round on, "loose" after stop()

slotVars == <<queued, down, seed, mode>>

SlotsInit == queued = {} /\ down = {} /\ seed = {} /\ mode = "kept"

Room(n, limit) == limit = 0 \/ n < limit

Join(h) ==
  /\ mode # "frozen" /\ h \notin queued
  /\ queued' = queued \cup {h}
  /\ UNCHANGED <<down, seed, mode>>

\* A torrent that is paused stays in the queue.
GiveBack(h) ==
  /\ mode # "frozen" /\ h \in queued
  /\ queued' \in {queued, queued \ {h}}
  /\ down' = down \ {h} /\ seed' = seed \ {h}
  /\ UNCHANGED mode

TakeDownload(h) ==
  /\ mode # "frozen" /\ h \in queued \ (down \cup seed)
  /\ mode = "kept" => /\ Room(Cardinality(down), MaxDown)
                      /\ Room(Cardinality(down) + Cardinality(seed), MaxActive)
  /\ down' = down \cup {h}
  /\ UNCHANGED <<queued, seed, mode>>

TakeSeed(h) ==
  /\ mode # "frozen" /\ h \in queued \ (down \cup seed)
  /\ mode = "kept" => Room(Cardinality(seed), MaxSeed)
  /\ seed' = seed \cup {h}
  /\ UNCHANGED <<queued, down, mode>>

\* Torrents change sides and lose slots, whatever room there is.
Round ==
  /\ mode = "kept" /\ mode' = "frozen"
  /\ down' \cup seed' \subseteq down \cup seed /\ down' \cap seed' = {}
  /\ UNCHANGED queued

Cancelled ==
  /\ mode = "frozen" /\ mode' = "loose"
  /\ UNCHANGED <<queued, down, seed>>

SlotsNext ==
  \/ \E h \in Hashes : Join(h) \/ GiveBack(h) \/ TakeDownload(h) \/ TakeSeed(h)
  \/ Round \/ Cancelled

SlotsSpec == SlotsInit /\ [][SlotsNext]_slotVars
=============================================================================
