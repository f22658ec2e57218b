---------------------------- MODULE TorrentSession ----------------------------
(***************************************************************************)
(* The life of torrent sessions under the session manager                   *)
(* (ccbt/session/session.py: AsyncTorrentSession and AsyncSessionManager).  *)
(* Each client coroutine makes one call of the manager: it adds a torrent,  *)
(* removes, pauses or resumes it.  The manager itself may be stopped, and   *)
(* its clean-up loop ticks.  A session is named after the client that added *)
(* it.  start, stop and pause of a session take no lock: each step from one *)
(* await to the next is one action, and those of several calls interleave.  *)
(***************************************************************************)
EXTENDS Naturals, FiniteSets

CONSTANTS
  Clients,    \* calls of the manager, and the sessions they create
  Torrents,   \* info hashes
  NoSession

ASSUME SessionAssumption ==
  /\ NoSession \notin Clients
  /\ "cleanup" \notin Clients /\ "manager" \notin Clients /\ "free" \notin Clients

VARIABLES
  torrents,   \* the manager's table: the session of each info hash
  lock,       \* who holds the manager's lock, or "free"
  pc,         \* of each coroutine: the await it is at
  on,         \* the session it works on
  todo,       \* sessions a housekeeping coroutine still has to stop
  status,     \* info.status of each session
  stopEvent,  \* _stop_event of each session: set by stop and pause
  peers,      \* whether download_manager.peer_manager has been made
  tracker,    \* whether the tracker client is open
  running,    \* background tasks of each session: <<kind, start that made it>>
  ref,        \* the one the session holds a reference to, of each kind
  orderly     \* ghost: one start, which no stop or pause overtook

sessVars == <<torrents, lock, pc, on, todo, status, stopEvent, peers, tracker, running, ref, orderly>>

Keepers == {"cleanup", "manager"}   \* the clean-up loop and manager.stop()
Coroutines == Clients \cup Keepers
Kinds == {"selector", "pex", "loops"}
Starting == {"loading", "peers", "restoring", "dht"}
Stopping == {"saving", "pieces", "tracker"}
Pausing == {"pausing", "pauseTracker"}
SessionStates == {"none", "starting", "downloading", "error", "paused", "stopped"}

SessionTypeOK ==
  /\ torrents \in [Torrents -> Clients \cup {NoSession}]
  /\ lock \in Keepers \cup {"free"}
  /\ pc \in [Coroutines -> {"idle", "next", "done"} \cup Starting \cup Stopping \cup Pausing]
  /\ on \in [Coroutines -> Clients \cup {NoSession}]
  /\ todo \in [Keepers -> SUBSET Clients]
  /\ status \in [Clients -> SessionStates]
  /\ stopEvent \in [Clients -> BOOLEAN]
  /\ peers \in [Clients -> BOOLEAN]
  /\ tracker \in [Clients -> BOOLEAN]
  /\ running \in [Clients -> SUBSET (Kinds \X Clients)]
  /\ ref \in [Clients -> [Kinds -> Clients \cup {NoSession}]]
  /\ orderly \in [Clients -> BOOLEAN]

SessionInit ==
  /\ torrents = [t \in Torrents |-> NoSession]
  /\ lock = "free"
  /\ pc = [k \in Coroutines |-> "idle"]
  /\ on = [k \in Coroutines |-> NoSession]
  /\ todo = [k \in Keepers |-> {}]
  /\ status = [s \in Clients |-> "none"]
  /\ stopEvent = [s \in Clients |-> FALSE]
  /\ peers = [s \in Clients |-> FALSE]
  /\ tracker = [s \in Clients |-> FALSE]
  /\ running = [s \in Clients |-> {}]
  /\ ref = [s \in Clients |-> [j \in Kinds |-> NoSession]]
  /\ orderly = [s \in Clients |-> TRUE]

Registered == {torrents[t] : t \in Torrents} \ {NoSession}
BeingStarted(s) == \E c \in Clients : on[c] = s /\ pc[c] \in Starting

\* A task is created and its reference overwrites the one of an earlier start.
Spawn(s, j, c) ==
  /\ running' = [running EXCEPT ![s] = @ \cup {<<j, c>>}]
  /\ ref' = [ref EXCEPT ![s][j] = c]

\* The task that is referred to is cancelled and awaited.
Cancel(s, j) == running' = [running EXCEPT ![s] = @ \ {<<j, ref[s][j]>>}]

-----------------------------------------------------------------------------
(* The calls of the manager.  Nothing is awaited while add, remove, pause and *)
(* resume hold the lock.                                                      *)

\* add_torrent registers the session and starts it.  A start that fails leaves
\* it registered: the call raises, and the next add of the torrent is refused.
Add(c, t) ==
  /\ pc[c] = "idle" /\ lock = "free" /\ torrents[t] = NoSession
  /\ torrents' = [torrents EXCEPT ![t] = c]
  /\ on' = [on EXCEPT ![c] = c]
  /\ status' = [status EXCEPT ![c] = "starting"]
  /\ pc' = [pc EXCEPT ![c] = "loading"]
  /\ UNCHANGED <<lock, todo, stopEvent, peers, tracker, running, ref, orderly>>

\* resume_torrent starts the session again, whatever its status is.
Resume(c, t) ==
  /\ pc[c] = "idle" /\ lock = "free" /\ torrents[t] # NoSession
  /\ on' = [on EXCEPT ![c] = torrents[t]]
  /\ status' = [status EXCEPT ![torrents[t]] = "starting"]
  /\ orderly' = [orderly EXCEPT ![torrents[t]] = FALSE]
  /\ pc' = [pc EXCEPT ![c] = "loading"]
  /\ UNCHANGED <<torrents, lock, todo, stopEvent, peers, tracker, running, ref>>

\* pause_torrent saves a checkpoint before anything else.
Pause(c, t) ==
  /\ pc[c] = "idle" /\ lock = "free" /\ torrents[t] # NoSession
  /\ on' = [on EXCEPT ![c] = torrents[t]]
  /\ pc' = [pc EXCEPT ![c] = "pausing"]
  /\ UNCHANGED <<torrents, lock, todo, status, stopEvent, peers, tracker, running, ref, orderly>>

\* session.stop() up to its first await: the loops are told to end, then the
\* last checkpoint is saved.
BeginStop(k, s) ==
  /\ on' = [on EXCEPT ![k] = s]
  /\ pc' = [pc EXCEPT ![k] = "saving"]
  /\ stopEvent' = [stopEvent EXCEPT ![s] = TRUE]
  /\ orderly' = [orderly EXCEPT ![s] = @ /\ ~BeingStarted(s)]
  /\ UNCHANGED <<status, peers, tracker, running, ref>>

Remove(c, t) ==
  /\ pc[c] = "idle" /\ lock = "free" /\ torrents[t] # NoSession
  /\ torrents' = [torrents EXCEPT ![t] = NoSession]
  /\ BeginStop(c, torrents[t])
  /\ UNCHANGED <<lock, todo>>

-----------------------------------------------------------------------------
(* session.start() *)

\* The checkpoint is read.  The tracker client is opened and the piece selector
\* created; the peer manager is made unless there is one, and then started.
Loaded(c) ==
  /\ pc[c] = "loading"
  /\ tracker' = [tracker EXCEPT ![on[c]] = TRUE]
  /\ Spawn(on[c], "selector", c)
  /\ peers' = [peers EXCEPT ![on[c]] = TRUE]
  /\ pc' = [pc EXCEPT ![c] = IF peers[on[c]] THEN "restoring" ELSE "peers"]
  /\ UNCHANGED <<torrents, lock, on, todo, status, stopEvent, orderly>>

\* The peer manager and the download are started; an error is only logged.
PeersStarted(c) ==
  /\ pc[c] = "peers"
  /\ pc' = [pc EXCEPT ![c] = "restoring"]
  /\ UNCHANGED <<torrents, lock, on, todo, status, stopEvent, peers, tracker, running, ref, orderly>>

\* The pieces of the checkpoint are restored; a new PEX manager is made and
\* started, and the DHT is asked.
Restored(c) ==
  /\ pc[c] = "restoring"
  /\ Spawn(on[c], "pex", c)
  /\ pc' = [pc EXCEPT ![c] = "dht"]
  /\ UNCHANGED <<torrents, lock, on, todo, status, stopEvent, peers, tracker, orderly>>

\* The announce, status and checkpoint loops are created.
Started(c) ==
  /\ pc[c] = "dht"
  /\ Spawn(on[c], "loops", c)
  /\ status' = [status EXCEPT ![on[c]] = "downloading"]
  /\ pc' = [pc EXCEPT ![c] = "done"]
  /\ UNCHANGED <<torrents, lock, on, todo, stopEvent, peers, tracker, orderly>>

\* Opening the tracker client or restoring the pieces raises.
StartFails(c) ==
  /\ pc[c] \in {"loading", "restoring"}
  /\ status' = [status EXCEPT ![on[c]] = "error"]
  /\ pc' = [pc EXCEPT ![c] = "done"]
  /\ UNCHANGED <<torrents, lock, on, todo, stopEvent, peers, tracker, running, ref, orderly>>

\* A loop looks at the event when it wakes up.  (stop and pause also cancel the
\* tasks they know of; they set the event before that.)
LoopsEnd(s, c) ==
  /\ stopEvent[s] /\ <<"loops", c>> \in running[s]
  /\ running' = [running EXCEPT ![s] = @ \ {<<"loops", c>>}]
  /\ UNCHANGED <<torrents, lock, pc, on, todo, status, stopEvent, peers, tracker, ref, orderly>>

-----------------------------------------------------------------------------
(* session.stop() and session.pause().  Neither stops the peer manager: the   *)
(* download manager of a session only closes its file assemblers.             *)

\* The checkpoint is saved, or that fails, which is logged; PEX is stopped.
FinalSaved(k) ==
  /\ pc[k] = "saving"
  /\ Cancel(on[k], "pex")
  /\ pc' = [pc EXCEPT ![k] = "pieces"]
  /\ UNCHANGED <<torrents, lock, on, todo, status, stopEvent, peers, tracker, ref, orderly>>

\* Mutant: the piece manager is left alone, as in pause.
SelectorKept(k) ==
  /\ pc[k] = "pieces"
  /\ pc' = [pc EXCEPT ![k] = "tracker"]
  /\ UNCHANGED <<torrents, lock, on, todo, status, stopEvent, peers, tracker, running, ref, orderly>>

SelectorStopped(k) ==
  /\ pc[k] = "pieces"
  /\ Cancel(on[k], "selector")
  /\ pc' = [pc EXCEPT ![k] = "tracker"]
  /\ UNCHANGED <<torrents, lock, on, todo, status, stopEvent, peers, tracker, ref, orderly>>

Stopped(k) ==
  /\ pc[k] = "tracker"
  /\ tracker' = [tracker EXCEPT ![on[k]] = FALSE]
  /\ status' = [status EXCEPT ![on[k]] = "stopped"]
  /\ pc' = [pc EXCEPT ![k] = IF k \in Keepers THEN "next" ELSE "done"]
  /\ UNCHANGED <<torrents, lock, on, todo, stopEvent, peers, running, ref, orderly>>

PauseSaved(c) ==
  /\ pc[c] = "pausing"
  /\ stopEvent' = [stopEvent EXCEPT ![on[c]] = TRUE]
  /\ orderly' = [orderly EXCEPT ![on[c]] = @ /\ ~BeingStarted(on[c])]
  /\ Cancel(on[c], "pex")
  /\ pc' = [pc EXCEPT ![c] = "pauseTracker"]
  /\ UNCHANGED <<torrents, lock, on, todo, status, peers, tracker, ref>>

Paused(c) ==
  /\ pc[c] = "pauseTracker"
  /\ tracker' = [tracker EXCEPT ![on[c]] = FALSE]
  /\ status' = [status EXCEPT ![on[c]] = "paused"]
  /\ pc' = [pc EXCEPT ![c] = "done"]
  /\ UNCHANGED <<torrents, lock, on, todo, stopEvent, peers, running, ref, orderly>>

-----------------------------------------------------------------------------
(* manager.stop() and the clean-up loop hold the lock while they stop         *)
(* sessions one after the other.                                              *)

\* manager.stop() stops every session of the table.
StopManager ==
  /\ pc["manager"] = "idle" /\ lock = "free"
  /\ lock' = "manager"
  /\ todo' = [todo EXCEPT !["manager"] = Registered]
  /\ pc' = [pc EXCEPT !["manager"] = "next"]
  /\ UNCHANGED <<torrents, on, status, stopEvent, peers, tracker, running, ref, orderly>>

\* The loop takes the sessions out of the table that have been stopped; it is
\* cancelled by the end of manager.stop().  (One tick of it.)
CleanupTick ==
  /\ pc["cleanup"] = "idle" /\ lock = "free" /\ pc["manager"] # "done"
  /\ lock' = "cleanup"
  /\ todo' = [todo EXCEPT !["cleanup"] = {s \in Registered : status[s] = "stopped"}]
  /\ pc' = [pc EXCEPT !["cleanup"] = "next"]
  /\ UNCHANGED <<torrents, on, status, stopEvent, peers, tracker, running, ref, orderly>>

KeeperStops(k) ==
  /\ pc[k] = "next"
  /\ \E s \in todo[k] :
       /\ BeginStop(k, s)
       /\ todo' = [todo EXCEPT ![k] = @ \ {s}]
       /\ torrents' = [t \in Torrents |->
            IF k = "cleanup" /\ torrents[t] = s THEN NoSession ELSE torrents[t]]
  /\ UNCHANGED lock

\* Mutant: the lock is not given back.
KeeperKeepsLock(k) ==
  /\ pc[k] = "next" /\ todo[k] = {}
  /\ pc' = [pc EXCEPT ![k] = "done"]
  /\ torrents' = IF k = "manager" THEN [t \in Torrents |-> NoSession] ELSE torrents
  /\ UNCHANGED <<lock, on, todo, status, stopEvent, peers, tracker, running, ref, orderly>>

KeeperDone(k) ==
  /\ pc[k] = "next" /\ todo[k] = {}
  /\ lock' = "free"
  /\ pc' = [pc EXCEPT ![k] = "done"]
  /\ torrents' = IF k = "manager" THEN [t \in Torrents |-> NoSession] ELSE torrents
  /\ UNCHANGED <<on, todo, status, stopEvent, peers, tracker, running, ref, orderly>>

-----------------------------------------------------------------------------
Call(c) == \E t \in Torrents : Add(c, t) \/ Resume(c, t) \/ Pause(c, t) \/ Remove(c, t)
StartStep(c) == Loaded(c) \/ PeersStarted(c) \/ Restored(c) \/ Started(c) \/ StartFails(c)
StopStep(k) == FinalSaved(k) \/ SelectorStopped(k) \/ Stopped(k)
PauseStep(c) == PauseSaved(c) \/ Paused(c)
KeeperStep(k) == KeeperStops(k) \/ KeeperDone(k)

SessionNext ==
  \/ \E c \in Clients : Call(c) \/ StartStep(c) \/ PauseStep(c)
  \/ \E k \in Coroutines : StopStep(k)
  \/ StopManager \/ CleanupTick
  \/ \E k \in Keepers : KeeperStep(k)
  \/ \E s, c \in Clients : LoopsEnd(s, c)

\* Every await of these calls ends: file and network operations have timeouts,
\* the tasks that are awaited have been cancelled, the loops wake up.
SessionFairness ==
  /\ \A c \in Clients : WF_sessVars(StartStep(c)) /\ WF_sessVars(PauseStep(c))
  /\ \A k \in Coroutines : WF_sessVars(StopStep(k))
  /\ \A k \in Keepers : WF_sessVars(KeeperStep(k))
  /\ \A s, c \in Clients : WF_sessVars(LoopsEnd(s, c))

SessionSpec == SessionInit /\ [][SessionNext]_sessVars /\ SessionFairness

-----------------------------------------------------------------------------
\* What the clean-up loop looks for is not there: a session of the table has
\* not been stopped, since remove takes it out of the table before it stops it
\* and manager.stop() keeps the lock until the table is empty (session.py:1807,
\* :1281, :1999).  Were it otherwise, the loop would stop a session twice.
RegisteredIsNotStopped ==
  lock # "manager" => \A s \in Registered : status[s] # "stopped"

\* What stop promises when nothing overtakes it: of a session that was started
\* once, and completely, before it was stopped, no task of the piece manager
\* and of PEX is left, and its tracker client is closed (session.py:487-532).
\* A second start (resume) or a start that is still under way leaves tasks
\* behind that nothing refers to.
OrderlyStopLeavesNothing ==
  \A s \in Clients : orderly[s] /\ status[s] = "stopped"
    => ~tracker[s] /\ \A r \in running[s] : r[1] = "loops"

\* The loops of a session that has been told to stop end, those too whose
\* references a second start has overwritten (session.py:582, :684, :862).
ToldLoopsEnd ==
  \A s \in Clients : stopEvent[s] ~> (\A c \in Clients : <<"loops", c>> \notin running[s])

\* No call of the manager keeps its lock for ever: whoever waits for it gets
\* it (session.py:1281, :1996).
LockIsGivenBack == lock # "free" ~> lock = "free"

\* The manager's table, the status of the sessions and what runs in them go
\* together (add_torrent, remove, start, stop).
SessionsAreSound == SessionTypeOK /\ RegisteredIsNotStopped /\ OrderlyStopLeavesNothing

\* Whoever was told to end ends, and the manager's lock is always given back.
SessionsProceed == ToldLoopsEnd /\ LockIsGivenBack
=============================================================================
