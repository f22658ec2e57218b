----------------------------- MODULE TorrentQueue -----------------------------
(***************************************************************************)
(* The queue of torrents (ccbt/queue/manager.py: TorrentQueueManager).      *)
(* Callers add, remove, pause and resume torrents and change priorities; an *)
(* asyncio.Lock protects the entries and the two active sets, and is held   *)
(* while a session is started or resumed.  The monitor ticks every five     *)
(* seconds.  The sessions belong to the session manager, whose calls do not *)
(* tell the queue anything: they change under it.                           *)
(***************************************************************************)
EXTENDS Naturals, FiniteSets

CONSTANTS
  Users,        \* coroutines that call the queue
  Hashes,       \* info hashes
  NoHash,
  MaxDown,      \* config.max_active_downloading, 0: no limit
  MaxSeed,      \* config.max_active_seeding
  MaxActive,    \* config.max_active_torrents
  MaxCalls,     \* bound: calls of all users
  MaxChanges    \* bound: how often sessions change by themselves

ASSUME QueueAssumption ==
  /\ IsFiniteSet(Hashes) /\ NoHash \notin Hashes
  /\ Users \cap {"free", "monitor"} = {}
  /\ \A n \in {MaxDown, MaxSeed, MaxActive, MaxCalls, MaxChanges} : n \in Nat

VARIABLES
  entry,    \* the status of each entry of the queue, or "absent"
  prio,     \* its priority: "high", "normal" or "paused"
  rank,     \* when it was added
  down,     \* _active_downloading
  seed,     \* _active_seeding
  stats,    \* the counts of the statistics that the limits are checked with
  sess,     \* info.status of the session of each info hash, or "none"
  complete, \* whether its progress is 1.0
  qlock,    \* who holds the lock, or "free"
  monitor,  \* the monitor's task: asleep, enforcing limits, ended while asleep, ended while enforcing
  at,       \* of each user: where its call is
  arg,      \* the torrent of its call
  calls,    \* calls made so far
  changes   \* how often sessions have changed

queueVars == <<entry, prio, rank, down, seed, stats, sess, complete, qlock, monitor, at, arg, calls, changes>>
qData == <<entry, prio, rank, down, seed, stats>>
qSessions == <<sess, complete, changes, monitor>>

Priorities == {"high", "normal", "paused"}
Queued == {h \in Hashes : entry[h] # "absent"}

QueueTypeOK ==
  /\ entry \in [Hashes -> {"absent", "queued", "active", "paused"}]
  /\ prio \in [Hashes -> Priorities]
  /\ rank \in [Hashes -> Nat]
  /\ down \in SUBSET Hashes /\ seed \in SUBSET Hashes
  /\ stats \in [down : Nat, seed : Nat]
  /\ sess \in [Hashes -> {"none", "starting", "downloading", "paused", "stopped", "error"}]
  /\ complete \in SUBSET Hashes
  /\ qlock \in Users \cup {"free", "monitor"}
  /\ monitor \in {"asleep", "enforcing", "ended", "cancelled"}
  /\ at \in [Users -> {"idle", "try", "next", "starting", "pausing"}]
  /\ arg \in [Users -> Hashes \cup {NoHash}]
  /\ calls \in Nat /\ changes \in Nat

QueueInit ==
  /\ entry = [h \in Hashes |-> "absent"]
  /\ prio = [h \in Hashes |-> "normal"]
  /\ rank = [h \in Hashes |-> 0]
  /\ down = {} /\ seed = {}
  /\ stats = [down |-> 0, seed |-> 0]
  /\ sess \in [Hashes -> {"downloading", "paused"}]
  /\ complete \in SUBSET Hashes
  /\ qlock = "free"
  /\ monitor = "asleep"
  /\ at = [u \in Users |-> "idle"]
  /\ arg = [u \in Users |-> NoHash]
  /\ calls = 0
  /\ changes = 0

\* _update_statistics, with the active sets as they are now.
Counted(D, S) == [down |-> Cardinality(D), seed |-> Cardinality(S)]
UpdateStatistics == stats' = Counted(down', seed')

-----------------------------------------------------------------------------
(* The calls.  What they do under the lock has no await but the start of a    *)
(* session.                                                                   *)

Begins(u) == at[u] = "idle" /\ qlock = "free" /\ calls < MaxCalls
Counts(u, where, h) ==
  /\ calls' = calls + 1
  /\ at' = [at EXCEPT ![u] = where]
  /\ arg' = [arg EXCEPT ![u] = h]

\* add_torrent of a new torrent, with the default priority: the entry waits,
\* then its start is tried.
AddEntry(u, h) ==
  /\ Begins(u) /\ entry[h] = "absent"
  /\ entry' = [entry EXCEPT ![h] = "queued"]
  /\ rank' = [rank EXCEPT ![h] = Cardinality(Queued) + 1]
  /\ UNCHANGED <<prio, down, seed, qlock, qSessions>>
  /\ UpdateStatistics
  /\ Counts(u, "try", h)

\* remove_torrent.
RemoveEntry(u, h) ==
  /\ Begins(u) /\ h \in Queued
  /\ entry' = [entry EXCEPT ![h] = "absent"]
  /\ prio' = [prio EXCEPT ![h] = "normal"]
  /\ rank' = [g \in Hashes |-> IF g = h THEN 0 ELSE IF rank[g] > rank[h] THEN rank[g] - 1 ELSE rank[g]]
  /\ down' = down \ {h} /\ seed' = seed \ {h}
  /\ UpdateStatistics
  /\ UNCHANGED <<qlock, qSessions>>
  /\ Counts(u, "idle", NoHash)

\* set_priority sorts the entries again; it starts and stops nothing.
SetPriority(u, h, p) ==
  /\ Begins(u) /\ h \in Queued /\ p # prio[h]
  /\ prio' = [prio EXCEPT ![h] = p]
  /\ UNCHANGED <<entry, rank, down, seed, qlock, qSessions>>
  /\ UpdateStatistics
  /\ Counts(u, "idle", NoHash)

\* Mutant: the statistics are left as they are.
PauseUncounted(u, h) ==
  /\ Begins(u) /\ h \in Queued
  /\ entry' = [entry EXCEPT ![h] = "paused"]
  /\ down' = down \ {h} /\ seed' = seed \ {h}
  /\ UNCHANGED <<prio, rank, stats, qlock, qSessions>>
  /\ Counts(u, "pausing", h)

\* pause_torrent frees the slot under the lock and pauses the session after it.
PauseEntry(u, h) ==
  /\ Begins(u) /\ h \in Queued
  /\ entry' = [entry EXCEPT ![h] = "paused"]
  /\ down' = down \ {h} /\ seed' = seed \ {h}
  /\ UpdateStatistics
  /\ UNCHANGED <<prio, rank, qlock, qSessions>>
  /\ Counts(u, "pausing", h)

SessionPaused(u) ==
  /\ at[u] = "pausing"
  /\ sess' = [sess EXCEPT ![arg[u]] = IF @ = "none" THEN @ ELSE "paused"]
  /\ at' = [at EXCEPT ![u] = "next"]
  /\ UNCHANGED <<qData, complete, changes, monitor, qlock, arg, calls>>

ResumeEntry(u, h) ==
  /\ Begins(u) /\ h \in Queued
  /\ entry' = [entry EXCEPT ![h] = IF @ = "paused" THEN "queued" ELSE @]
  /\ UNCHANGED <<prio, rank, down, seed, stats, qlock, qSessions>>
  /\ Counts(u, "try", h)

-----------------------------------------------------------------------------
(* _try_start_next_torrent and _try_start_torrent *)

\* The order of the queue: by priority, then by the time of addition.
Weight(p) == CASE p = "high" -> 3 [] p = "normal" -> 2 [] OTHER -> 1
Before(g, h) ==
  \/ Weight(prio[g]) > Weight(prio[h])
  \/ prio[g] = prio[h] /\ rank[g] < rank[h]

\* Only the first entry that waits is tried.
TryNext(u) ==
  /\ at[u] = "next" /\ qlock = "free"
  /\ LET waiting == {h \in Hashes : entry[h] = "queued"}
     IN IF waiting = {}
          THEN /\ at' = [at EXCEPT ![u] = "idle"]
               /\ arg' = [arg EXCEPT ![u] = NoHash]
          ELSE /\ at' = [at EXCEPT ![u] = "try"]
               /\ \E h \in waiting : /\ \A g \in waiting \ {h} : Before(h, g)
                                     /\ arg' = [arg EXCEPT ![u] = h]
  /\ UNCHANGED <<qData, qSessions, qlock, calls>>

Active(h) == h \in down \cup seed
Eligible(h) == h \in Queued /\ prio[h] # "paused" /\ ~Active(h) /\ sess[h] # "none"
Below(n, limit) == limit = 0 \/ n < limit

\* Mutant: only the limit of the torrent's own kind is asked for.
HasSlotOfKind(h) ==
  IF h \in complete THEN Below(stats.seed, MaxSeed) ELSE Below(stats.down, MaxDown)

\* A torrent that is complete takes a slot for seeding only: the limit for all
\* active torrents is asked for downloads.
HasSlot(h) ==
  IF h \in complete
    THEN Below(stats.seed, MaxSeed)
    ELSE Below(stats.down, MaxDown) /\ Below(stats.down + stats.seed, MaxActive)

GivesUp(u) ==
  /\ at' = [at EXCEPT ![u] = "idle"]
  /\ arg' = [arg EXCEPT ![u] = NoHash]

\* Nothing to start: the entry is gone, low, active already, or has no session.
TryIneligible(u) ==
  /\ at[u] = "try" /\ qlock = "free" /\ ~Eligible(arg[u])
  /\ GivesUp(u)
  /\ UNCHANGED <<qData, qSessions, qlock, calls>>

TryNoSlot(u) ==
  /\ at[u] = "try" /\ qlock = "free" /\ Eligible(arg[u]) /\ ~HasSlot(arg[u])
  /\ entry' = [entry EXCEPT ![arg[u]] = "queued"]
  /\ UNCHANGED <<prio, rank, down, seed, qSessions, qlock, calls>>
  /\ UpdateStatistics
  /\ GivesUp(u)

TakeSlot(h) ==
  /\ entry' = [entry EXCEPT ![h] = "active"]
  /\ down' = IF h \in complete THEN down ELSE down \cup {h}
  /\ seed' = IF h \in complete THEN seed \cup {h} ELSE seed
  /\ UNCHANGED <<prio, rank>>

\* Only a session that is paused or stopped is started, with the lock held.
TryStart(u) ==
  /\ at[u] = "try" /\ qlock = "free" /\ Eligible(arg[u]) /\ HasSlot(arg[u])
  /\ TakeSlot(arg[u])
  /\ IF sess[arg[u]] \in {"paused", "stopped"}
       THEN /\ qlock' = u
            /\ at' = [at EXCEPT ![u] = "starting"]
            /\ sess' = [sess EXCEPT ![arg[u]] = "starting"]
            /\ UNCHANGED <<stats, arg>>
       ELSE UpdateStatistics /\ GivesUp(u) /\ UNCHANGED <<sess, qlock>>
  /\ UNCHANGED <<complete, changes, monitor, calls>>

\* The session has started, or the 30 seconds are over: wait_for has cancelled
\* the start, the session stays "starting" and counts as started.
StartEnds(u) ==
  /\ at[u] = "starting"
  /\ \E r \in {"downloading", "starting"} : sess' = [sess EXCEPT ![arg[u]] = r]
  /\ UNCHANGED <<entry, prio, rank, down, seed, complete, changes, monitor, calls>>
  /\ UpdateStatistics
  /\ qlock' = "free"
  /\ GivesUp(u)

\* Mutant: the lock is not given back after an error.
StartRaisesLocked(u) ==
  /\ at[u] = "starting"
  /\ sess' = [sess EXCEPT ![arg[u]] = "error"]
  /\ entry' = [entry EXCEPT ![arg[u]] = "queued"]
  /\ UNCHANGED <<prio, rank, down, seed, qlock, complete, changes, monitor, calls>>
  /\ UpdateStatistics
  /\ GivesUp(u)

\* A start that raises puts the entry back to wait; it keeps its slot.
StartRaises(u) ==
  /\ at[u] = "starting"
  /\ sess' = [sess EXCEPT ![arg[u]] = "error"]
  /\ entry' = [entry EXCEPT ![arg[u]] = "queued"]
  /\ UNCHANGED <<prio, rank, down, seed, complete, changes, monitor, calls>>
  /\ UpdateStatistics
  /\ qlock' = "free"
  /\ GivesUp(u)

-----------------------------------------------------------------------------
(* What happens outside the queue, and the monitor.                           *)

\* The session manager pauses, resumes or removes a session; a download ends.
SessionChanges(h) ==
  /\ changes < MaxChanges /\ changes' = changes + 1
  /\ sess[h] # "none" /\ \A u \in Users : arg[u] = h => at[u] # "starting"
  /\ \/ sess' = [sess EXCEPT ![h] = "none"] /\ UNCHANGED complete
     \/ sess[h] = "downloading" /\ sess' = [sess EXCEPT ![h] = "paused"] /\ UNCHANGED complete
     \/ sess[h] = "paused" /\ sess' = [sess EXCEPT ![h] = "downloading"] /\ UNCHANGED complete
     \/ sess[h] = "downloading" /\ complete' = complete \cup {h} /\ UNCHANGED sess
  /\ UNCHANGED <<qData, qlock, monitor, at, arg, calls>>

\* _sync_active_sets: sessions that are gone, paused or stopped give their slot
\* up, complete ones move to the seeding set.
Lives(h) == sess[h] \notin {"none", "paused", "stopped"}
SyncActiveSets ==
  /\ down' = {h \in down \cup seed : Lives(h) /\ h \notin complete}
  /\ seed' = {h \in down \cup seed : Lives(h) /\ h \in complete}

\* The monitor takes the lock and then calls _enforce_queue_limits, which waits
\* for the same lock: it never gets it, and nobody else does.
MonitorTick ==
  /\ monitor = "asleep" /\ qlock = "free"
  /\ qlock' = "monitor"
  /\ monitor' = "enforcing"
  /\ SyncActiveSets
  /\ UNCHANGED <<entry, prio, rank, stats, sess, complete, changes, at, arg, calls>>

\* stop() cancels the monitor, which lets the lock go when it has it.
QueueStop ==
  /\ monitor \in {"asleep", "enforcing"}
  /\ monitor' = IF monitor = "asleep" THEN "ended" ELSE "cancelled"
  /\ qlock' = IF monitor = "asleep" THEN qlock ELSE "free"
  /\ UNCHANGED <<qData, sess, complete, changes, at, arg, calls>>

-----------------------------------------------------------------------------
UserCall(u) ==
  \E h \in Hashes :
    \/ \E p \in Priorities : SetPriority(u, h, p)
    \/ AddEntry(u, h) \/ RemoveEntry(u, h) \/ PauseEntry(u, h) \/ ResumeEntry(u, h)
UserStep(u) ==
  \/ SessionPaused(u) \/ TryNext(u) \/ TryIneligible(u) \/ TryNoSlot(u)
  \/ TryStart(u) \/ StartEnds(u) \/ StartRaises(u)

QueueNext ==
  \/ \E u \in Users : UserCall(u) \/ UserStep(u)
  \/ \E h \in Hashes : SessionChanges(h)
  \/ MonitorTick \/ QueueStop

QueueFairness == \A u \in Users : WF_queueVars(UserStep(u))

QueueSpec == QueueInit /\ [][QueueNext]_queueVars /\ QueueFairness

-----------------------------------------------------------------------------
\* A slot belongs to an entry of the queue and is of one kind: set_priority,
\* the monitor's sync and the starts move torrents between the sets in any
\* order (queue/manager.py:199, :320, :516, :529, :755).
SlotsAreOfEntries == down \cap seed = {} /\ down \cup seed \subseteq Queued

\* The counts that the limits are checked with are those of the active sets
\* whenever a caller has the lock, until the monitor has moved torrents between
\* the sets without counting (queue/manager.py:513, :520, :727).
StatisticsAreCurrent ==
  qlock = "free" /\ monitor # "cancelled" => stats = Counted(down, seed)

\* Starts never take more slots than there are; a start that is under way has
\* its slot before it is counted (queue/manager.py:508-532).
LimitsHold ==
  monitor \in {"asleep", "ended"}
    => /\ MaxDown = 0 \/ Cardinality(down) <= MaxDown
       /\ MaxSeed = 0 \/ Cardinality(seed) <= MaxSeed

\* A call that tries a start comes to its end, whatever becomes of the session,
\* unless the monitor has the lock (queue/manager.py:477-582).
TriesEnd == \A u \in Users : at[u] = "try" ~> at[u] = "idle" \/ monitor = "enforcing"

\* What the starts, the monitor and its cancellation leave of the limits and of
\* the queue is what TorrentSlots promises: a slot is taken only when the sets
\* themselves have room for it, also the download's room among all active
\* torrents (queue/manager.py:508-529); the first round freezes the queue, and
\* stop() in that round lets it go without its limits (:79-105, :724-733).
Mode ==
  IF monitor = "enforcing" THEN "frozen" ELSE IF monitor = "cancelled" THEN "loose" ELSE "kept"
Slots == INSTANCE TorrentSlots WITH queued <- Queued, mode <- Mode
ImplementsSlots == Slots!SlotsSpec

\* _monitor_loop's docstring (queue/manager.py:719): "Background task to monitor
\* queue and enforce limits."  A round of it that has begun comes to its end.
MonitorEnforces == monitor = "enforcing" ~> monitor = "asleep"

\* The queue's entries, active sets and counts go together wherever the lock is
\* free, and the sets keep to the limits until the monitor's first round (add,
\* remove, pause, resume, _try_start_torrent, the monitor).
QueueIsSound == QueueTypeOK /\ SlotsAreOfEntries /\ StatisticsAreCurrent /\ LimitsHold
=============================================================================
