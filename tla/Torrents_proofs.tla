---------------------------- MODULE Torrents_proofs ----------------------------
(***************************************************************************)
(* What holds of the sessions for any number of calls and torrents, and of  *)
(* the queue for any number of users, torrents and any limits.              *)
(***************************************************************************)
EXTENDS TorrentSession, TorrentQueue, FiniteSetTheorems, TLAPS

-----------------------------------------------------------------------------
(* Sessions *)

LEMMA SessionTypeInit == SessionInit => SessionTypeOK
BY SessionAssumption DEF SessionInit, SessionTypeOK, Coroutines, Keepers, Kinds, SessionStates

\* A new task is of a known kind, and the session refers to it.
LEMMA SpawnType ==
  ASSUME SessionTypeOK, NEW s, NEW j \in Kinds, NEW c \in Clients, Spawn(s, j, c)
  PROVE  /\ running' \in [Clients -> SUBSET (Kinds \X Clients)]
         /\ ref' \in [Clients -> [Kinds -> Clients \cup {NoSession}]]
<1>1. <<j, c>> \in Kinds \X Clients
  OBVIOUS
<1>2. running' \in [Clients -> SUBSET (Kinds \X Clients)]
  BY <1>1 DEF Spawn, SessionTypeOK
<1>3. ref' \in [Clients -> [Kinds -> Clients \cup {NoSession}]]
  BY DEF Spawn, SessionTypeOK
<1>4. QED
  BY <1>2, <1>3

\* Every step of a session or of the manager keeps the types.
LEMMA SessionTypeStep == SessionTypeOK /\ [SessionNext]_sessVars => SessionTypeOK'
<1> SUFFICES ASSUME SessionTypeOK, [SessionNext]_sessVars PROVE SessionTypeOK'
  OBVIOUS
<1> USE SessionAssumption
    DEF SessionTypeOK, Coroutines, Keepers, Kinds, SessionStates, Starting, Stopping, Pausing
<1>1. CASE UNCHANGED sessVars
  BY <1>1 DEF sessVars
<1>2. ASSUME NEW c \in Clients, NEW t \in Torrents, Add(c, t) PROVE SessionTypeOK'
  BY <1>2 DEF Add
<1>3. ASSUME NEW c \in Clients, NEW t \in Torrents, Resume(c, t) PROVE SessionTypeOK'
  BY <1>3 DEF Resume
<1>4. ASSUME NEW c \in Clients, NEW t \in Torrents, Pause(c, t) PROVE SessionTypeOK'
  BY <1>4 DEF Pause
<1>5. ASSUME NEW c \in Clients, NEW t \in Torrents, Remove(c, t) PROVE SessionTypeOK'
  BY <1>5 DEF Remove, BeginStop, BeingStarted
<1>6. ASSUME NEW c \in Clients, Loaded(c) PROVE SessionTypeOK'
  <2>1. Spawn(on[c], "selector", c)
    BY <1>6 DEF Loaded
  <2>2. QED
    BY <1>6, <2>1, SpawnType DEF Loaded
<1>7. ASSUME NEW c \in Clients, PeersStarted(c) \/ StartFails(c) PROVE SessionTypeOK'
  BY <1>7 DEF PeersStarted, StartFails
<1>8. ASSUME NEW c \in Clients, Restored(c) PROVE SessionTypeOK'
  <2>1. Spawn(on[c], "pex", c)
    BY <1>8 DEF Restored
  <2>2. QED
    BY <1>8, <2>1, SpawnType DEF Restored
<1>9. ASSUME NEW c \in Clients, Started(c) PROVE SessionTypeOK'
  <2>1. Spawn(on[c], "loops", c)
    BY <1>9 DEF Started
  <2>2. QED
    BY <1>9, <2>1, SpawnType DEF Started
<1>10. ASSUME NEW c \in Clients, PauseSaved(c) PROVE SessionTypeOK'
  BY <1>10 DEF PauseSaved, Cancel, BeingStarted
<1>11. ASSUME NEW c \in Clients, Paused(c) PROVE SessionTypeOK'
  BY <1>11 DEF Paused
<1>12. ASSUME NEW k \in Coroutines, FinalSaved(k) \/ SelectorStopped(k) PROVE SessionTypeOK'
  BY <1>12 DEF FinalSaved, SelectorStopped, Cancel
<1>13. ASSUME NEW k \in Coroutines, Stopped(k) PROVE SessionTypeOK'
  BY <1>13 DEF Stopped
<1>14. CASE StopManager \/ CleanupTick
  BY <1>14 DEF StopManager, CleanupTick, Registered
<1>15. ASSUME NEW k \in Keepers, KeeperStops(k) PROVE SessionTypeOK'
  BY <1>15 DEF KeeperStops, BeginStop, BeingStarted
<1>16. ASSUME NEW k \in Keepers, KeeperDone(k) PROVE SessionTypeOK'
  BY <1>16 DEF KeeperDone
<1>17. ASSUME NEW s \in Clients, NEW c \in Clients, LoopsEnd(s, c) PROVE SessionTypeOK'
  BY <1>17 DEF LoopsEnd
<1>18. QED
  BY <1>1, <1>2, <1>3, <1>4, <1>5, <1>6, <1>7, <1>8, <1>9, <1>10, <1>11, <1>12, <1>13,
     <1>14, <1>15, <1>16, <1>17
  DEF SessionNext, Call, StartStep, PauseStep, StopStep, KeeperStep

\* Every reachable state of the manager and its sessions is well typed.
THEOREM SessionTypeCorrect == SessionSpec => []SessionTypeOK
BY SessionTypeInit, SessionTypeStep, PTL DEF SessionSpec

\* A client that has not called has no session; a housekeeper that works holds
\* the lock; what is being stopped is out of the table, unless the manager stops.
Untouched(c) ==
  /\ status[c] = "none" /\ c \notin Registered
  /\ \A k \in Coroutines : on[k] # c
  /\ \A k \in Keepers : c \notin todo[k]
TableInv ==
  /\ \A c \in Clients : pc[c] = "idle" => Untouched(c)
  /\ \A k \in Keepers : pc[k] \in Stopping \cup {"next"} => lock = k
  /\ lock \in Keepers => pc[lock] \in Stopping \cup {"next"}
  /\ \A t, u \in Torrents : torrents[t] = torrents[u] /\ torrents[t] # NoSession => t = u
  /\ \A k \in Coroutines \ {"manager"} : pc[k] \in Stopping => on[k] \notin Registered
  /\ \A k \in Keepers : pc[k] \notin Starting \cup Pausing
  /\ RegisteredIsNotStopped

LEMMA TableInit == SessionInit => TableInv
BY SessionAssumption
DEF SessionInit, TableInv, Untouched, Registered, RegisteredIsNotStopped, Coroutines, Keepers, Starting, Stopping, Pausing

LEMMA TableStep == SessionTypeOK /\ TableInv /\ [SessionNext]_sessVars => TableInv'
<1> SUFFICES ASSUME SessionTypeOK, TableInv, [SessionNext]_sessVars PROVE TableInv'
  OBVIOUS
<1> USE SessionAssumption
    DEF SessionTypeOK, TableInv, Untouched, Registered, RegisteredIsNotStopped, Coroutines, Keepers,
        Starting, Stopping, Pausing
<1>1. CASE UNCHANGED sessVars
  BY <1>1 DEF sessVars
<1>2. ASSUME NEW c \in Clients, NEW t \in Torrents, Add(c, t) PROVE TableInv'
  BY <1>2 DEF Add
<1>3. ASSUME NEW c \in Clients, NEW t \in Torrents, Resume(c, t) PROVE TableInv'
  BY <1>3 DEF Resume
<1>4. ASSUME NEW c \in Clients, NEW t \in Torrents, Pause(c, t) PROVE TableInv'
  BY <1>4 DEF Pause
<1>5. ASSUME NEW c \in Clients, NEW t \in Torrents, Remove(c, t) PROVE TableInv'
  BY <1>5 DEF Remove, BeginStop
<1>6. ASSUME NEW c \in Clients, Loaded(c) PROVE TableInv'
  BY <1>6 DEF Loaded
<1>7. ASSUME NEW c \in Clients, PeersStarted(c) \/ StartFails(c) PROVE TableInv'
  <2>1. CASE PeersStarted(c)
    BY <2>1 DEF PeersStarted
  <2>2. CASE StartFails(c)
    BY <2>2 DEF StartFails
  <2>3. QED
    BY <1>7, <2>1, <2>2
<1>8. ASSUME NEW c \in Clients, Restored(c) PROVE TableInv'
  BY <1>8 DEF Restored
<1>9. ASSUME NEW c \in Clients, Started(c) PROVE TableInv'
  BY <1>9 DEF Started
<1>10. ASSUME NEW c \in Clients, PauseSaved(c) PROVE TableInv'
  BY <1>10 DEF PauseSaved
<1>11. ASSUME NEW c \in Clients, Paused(c) PROVE TableInv'
  BY <1>11 DEF Paused
<1>12. ASSUME NEW k \in Coroutines, FinalSaved(k) \/ SelectorStopped(k) PROVE TableInv'
  <2>1. CASE FinalSaved(k)
    BY <2>1 DEF FinalSaved
  <2>2. CASE SelectorStopped(k)
    BY <2>2 DEF SelectorStopped
  <2>3. QED
    BY <1>12, <2>1, <2>2
<1>13. ASSUME NEW k \in Coroutines, Stopped(k) PROVE TableInv'
  BY <1>13 DEF Stopped
<1>14. CASE StopManager \/ CleanupTick
  BY <1>14 DEF StopManager, CleanupTick
<1>15. ASSUME NEW k \in Keepers, KeeperStops(k) PROVE TableInv'
  <2>1. PICK s \in todo[k] : /\ BeginStop(k, s)
                            /\ todo' = [todo EXCEPT ![k] = @ \ {s}]
                            /\ torrents' = [t \in Torrents |->
                                 IF k = "cleanup" /\ torrents[t] = s THEN NoSession ELSE torrents[t]]
    BY <1>15 DEF KeeperStops
  <2>2. s \in Clients /\ pc[k] = "next" /\ pc' = [pc EXCEPT ![k] = "saving"] /\ on' = [on EXCEPT ![k] = s]
        /\ UNCHANGED <<status, lock>>
    BY <1>15, <2>1 DEF KeeperStops, BeginStop
  <2>3. Registered' \subseteq Registered
    BY <2>1
  <2>4. \A c \in Clients : (pc[c] = "idle" => Untouched(c))'
    BY <2>1, <2>2, <2>3
  <2>5. \A j \in Coroutines \ {"manager"} : (pc[j] \in Stopping => on[j] \notin Registered)'
    BY <2>1, <2>2, <2>3
  <2>6. \A j \in Keepers : (pc[j] \in Stopping \cup {"next"} => lock = j)'
    BY <2>1, <2>2
  <2>7. \A t, u \in Torrents : (torrents[t] = torrents[u] /\ torrents[t] # NoSession => t = u)'
    BY <2>1
  <2>8. RegisteredIsNotStopped'
    BY <2>2, <2>3
  <2>9. QED
    BY <2>2, <2>4, <2>5, <2>6, <2>7, <2>8
<1>16. ASSUME NEW k \in Keepers, KeeperDone(k) PROVE TableInv'
  BY <1>16 DEF KeeperDone
<1>17. ASSUME NEW s \in Clients, NEW c \in Clients, LoopsEnd(s, c) PROVE TableInv'
  BY <1>17 DEF LoopsEnd
<1>18. QED
  BY <1>1, <1>2, <1>3, <1>4, <1>5, <1>6, <1>7, <1>8, <1>9, <1>10, <1>11, <1>12, <1>13,
     <1>14, <1>15, <1>16, <1>17
  DEF SessionNext, Call, StartStep, PauseStep, StopStep, KeeperStep

\* A session of the table has not been stopped: remove takes it out first, and
\* manager.stop() keeps the lock until the table is empty.
THEOREM TableHoldsLiveSessions == SessionSpec => []RegisteredIsNotStopped
<1>1. TableInv => RegisteredIsNotStopped
  BY DEF TableInv
<1>2. QED
  BY <1>1, TableInit, TableStep, SessionTypeCorrect, PTL DEF SessionSpec

\* The tasks of an orderly session are those its one start has made and refers
\* to; once it has been told to stop, no start is under way.
OrderlyOf(s) ==
  /\ \A r \in running[s] : r[2] = s /\ ref[s][r[1]] = s
  /\ \A c \in Clients : on[c] = s /\ pc[c] \in Starting => c = s
  /\ stopEvent[s] => ~BeingStarted(s)
  /\ \A k \in Coroutines : on[k] = s /\ pc[k] \in {"pieces", "tracker"} =>
       \A r \in running[s] : r[1] # "pex"
  /\ \A k \in Coroutines : on[k] = s /\ pc[k] = "tracker" =>
       \A r \in running[s] : r[1] # "selector"
  /\ status[s] = "stopped" => ~tracker[s] /\ \A r \in running[s] : r[1] = "loops"
OrderlyInv ==
  \A s \in Clients :
    /\ pc[s] = "idle" => ~stopEvent[s] /\ \A k \in Coroutines : on[k] # s
    /\ status[s] = "stopped" => stopEvent[s]
    /\ \A k \in Coroutines : on[k] = s /\ pc[k] \in Stopping => stopEvent[s]
    /\ orderly[s] => OrderlyOf(s)

LEMMA OrderlyInit == SessionInit => OrderlyInv
BY SessionAssumption
DEF SessionInit, OrderlyInv, OrderlyOf, BeingStarted, Coroutines, Keepers, Starting, Stopping

LEMMA OrderlyStep ==
  SessionTypeOK /\ TableInv /\ OrderlyInv /\ [SessionNext]_sessVars => OrderlyInv'
<1> SUFFICES ASSUME SessionTypeOK, TableInv, OrderlyInv, [SessionNext]_sessVars PROVE OrderlyInv'
  OBVIOUS
<1> USE SessionAssumption
    DEF SessionTypeOK, OrderlyInv, OrderlyOf, BeingStarted, Coroutines, Keepers, Kinds, Starting, Stopping, Pausing
<1>0. \A s \in Registered : s \in Clients /\ pc[s] # "idle"
  BY DEF TableInv, Untouched, Registered
<1>1. CASE UNCHANGED sessVars
  BY <1>1 DEF sessVars
<1>2. ASSUME NEW c \in Clients, NEW t \in Torrents, Add(c, t) PROVE OrderlyInv'
  BY <1>2 DEF Add
<1>3. ASSUME NEW c \in Clients, NEW t \in Torrents, Resume(c, t) PROVE OrderlyInv'
  BY <1>0, <1>3 DEF Resume, Registered
<1>4. ASSUME NEW c \in Clients, NEW t \in Torrents, Pause(c, t) PROVE OrderlyInv'
  BY <1>0, <1>4 DEF Pause, Registered
<1>5. ASSUME NEW c \in Clients, NEW t \in Torrents, Remove(c, t) PROVE OrderlyInv'
  BY <1>0, <1>5 DEF Remove, BeginStop, Registered
<1>6. ASSUME NEW c \in Clients, Loaded(c) PROVE OrderlyInv'
  BY <1>6 DEF Loaded, Spawn
<1>7. ASSUME NEW c \in Clients, PeersStarted(c) PROVE OrderlyInv'
  BY <1>7 DEF PeersStarted
<1>8. ASSUME NEW c \in Clients, StartFails(c) PROVE OrderlyInv'
  BY <1>8 DEF StartFails
<1>9. ASSUME NEW c \in Clients, Restored(c) PROVE OrderlyInv'
  BY <1>9 DEF Restored, Spawn
<1>10. ASSUME NEW c \in Clients, Started(c) PROVE OrderlyInv'
  BY <1>10 DEF Started, Spawn
<1>11. ASSUME NEW c \in Clients, PauseSaved(c) PROVE OrderlyInv'
  BY <1>11 DEF PauseSaved, Cancel
<1>12. ASSUME NEW c \in Clients, Paused(c) PROVE OrderlyInv'
  BY <1>12 DEF Paused
<1>13. ASSUME NEW k \in Coroutines, FinalSaved(k) PROVE OrderlyInv'
  BY <1>13 DEF FinalSaved, Cancel
<1>14. ASSUME NEW k \in Coroutines, SelectorStopped(k) PROVE OrderlyInv'
  BY <1>14 DEF SelectorStopped, Cancel
<1>15. ASSUME NEW k \in Coroutines, Stopped(k) PROVE OrderlyInv'
  BY <1>15 DEF Stopped
<1>16. CASE StopManager \/ CleanupTick
  BY <1>16 DEF StopManager, CleanupTick
<1>17. ASSUME NEW k \in Keepers, KeeperStops(k) PROVE OrderlyInv'
  BY <1>17 DEF KeeperStops, BeginStop, TableInv, Untouched
<1>18. ASSUME NEW k \in Keepers, KeeperDone(k) PROVE OrderlyInv'
  BY <1>18 DEF KeeperDone
<1>19. ASSUME NEW s \in Clients, NEW c \in Clients, LoopsEnd(s, c) PROVE OrderlyInv'
  BY <1>19 DEF LoopsEnd
<1> HIDE DEF SessionTypeOK, OrderlyInv, OrderlyOf, BeingStarted, Coroutines, Keepers, Kinds,
             Starting, Stopping, Pausing
<1>20. QED
  BY <1>1, <1>2, <1>3, <1>4, <1>5, <1>6, <1>7, <1>8, <1>9, <1>10, <1>11, <1>12, <1>13,
     <1>14, <1>15, <1>16, <1>17, <1>18, <1>19
  DEF SessionNext, Call, StartStep, PauseStep, StopStep, KeeperStep

\* A session that was started once, completely, before anything stopped it, is
\* left by stop without piece selector, PEX and tracker client.
THEOREM OrderlyStop == SessionSpec => []OrderlyStopLeavesNothing
<1>1. OrderlyInv => OrderlyStopLeavesNothing
  BY DEF OrderlyInv, OrderlyOf, OrderlyStopLeavesNothing
<1>2. SessionInit => TableInv /\ OrderlyInv
  BY TableInit, OrderlyInit
<1>3. SessionTypeOK /\ (TableInv /\ OrderlyInv) /\ [SessionNext]_sessVars => (TableInv /\ OrderlyInv)'
  BY TableStep, OrderlyStep
<1>4. QED
  BY <1>1, <1>2, <1>3, SessionTypeCorrect, PTL DEF SessionSpec

-----------------------------------------------------------------------------
(* The queue *)

\* A count of torrents is a number, and one torrent adds at most one to it.
LEMMA Counts1 ==
  ASSUME NEW D \in SUBSET Hashes, NEW h \in Hashes
  PROVE  /\ Cardinality(D) \in Nat
         /\ Cardinality(D \cup {h}) <= Cardinality(D) + 1
         /\ Cardinality(D \ {h}) <= Cardinality(D)
<1>1. IsFiniteSet(D)
  BY QueueAssumption, FS_Subset
<1>2. Cardinality(D \ {h}) <= Cardinality(D)
  BY <1>1, FS_Subset
<1>3. Cardinality(D) \in Nat
  BY <1>1, FS_CardinalityType
<1>4. Cardinality(D \cup {h}) <= Cardinality(D) + 1
  <2>1. CASE h \in D
    <3>1. D \cup {h} = D
      BY <2>1
    <3>2. Cardinality(D \cup {h}) = Cardinality(D)
      BY ONLY <3>1
    <3>3. QED
      BY <3>2, <1>3
  <2>2. CASE h \notin D
    <3>1. Cardinality(D \cup {h}) = Cardinality(D) + 1
      BY <2>2, <1>1, FS_AddElement
    <3>2. QED
      BY <3>1, <1>3
  <2>3. QED
    BY <2>1, <2>2
<1>5. QED
  BY <1>2, <1>3, <1>4

LEMMA CountedType ==
  ASSUME NEW D \in SUBSET Hashes, NEW S \in SUBSET Hashes
  PROVE  Counted(D, S) \in [down : Nat, seed : Nat]
BY QueueAssumption, FS_Subset, FS_CardinalityType DEF Counted

LEMMA QueueTypeInit == QueueInit => QueueTypeOK
BY QueueAssumption DEF QueueInit, QueueTypeOK, Priorities

\* Every step of the queue keeps the types.
LEMMA QueueTypeStep == QueueTypeOK /\ [QueueNext]_queueVars => QueueTypeOK'
<1> SUFFICES ASSUME QueueTypeOK, [QueueNext]_queueVars PROVE QueueTypeOK'
  OBVIOUS
<1> USE QueueAssumption, CountedType
    DEF QueueTypeOK, Priorities, qData, qSessions, Counts, Begins, UpdateStatistics, GivesUp
<1>0. Queued \subseteq Hashes /\ Cardinality(Queued) \in Nat
  BY FS_Subset, FS_CardinalityType DEF Queued
<1>1. CASE UNCHANGED queueVars
  BY <1>1 DEF queueVars
<1>2. ASSUME NEW u \in Users, NEW h \in Hashes, AddEntry(u, h) PROVE QueueTypeOK'
  <2>1. entry' \in [Hashes -> {"absent", "queued", "active", "paused"}] /\ rank' \in [Hashes -> Nat]
    BY <1>0, <1>2 DEF AddEntry
  <2>2. stats' \in [down : Nat, seed : Nat]
    BY <1>2 DEF AddEntry
  <2>3. QED
    BY <1>2, <2>1, <2>2 DEF AddEntry
<1>3. ASSUME NEW u \in Users, NEW h \in Hashes, RemoveEntry(u, h) PROVE QueueTypeOK'
  <2>1. rank' \in [Hashes -> Nat]
    BY <1>3 DEF RemoveEntry
  <2>2. down' \in SUBSET Hashes /\ seed' \in SUBSET Hashes
    BY <1>3 DEF RemoveEntry
  <2>3. QED
    BY <1>3, <2>1, <2>2 DEF RemoveEntry
<1>4. ASSUME NEW u \in Users, NEW h \in Hashes, NEW p \in Priorities, SetPriority(u, h, p) PROVE QueueTypeOK'
  BY <1>4 DEF SetPriority
<1>5. ASSUME NEW u \in Users, NEW h \in Hashes, PauseEntry(u, h) PROVE QueueTypeOK'
  BY <1>5 DEF PauseEntry
<1>6. ASSUME NEW u \in Users, NEW h \in Hashes, ResumeEntry(u, h) PROVE QueueTypeOK'
  BY <1>6 DEF ResumeEntry
<1>7. ASSUME NEW u \in Users, SessionPaused(u) PROVE QueueTypeOK'
  BY <1>7 DEF SessionPaused
<1>8. ASSUME NEW u \in Users, TryNext(u) PROVE QueueTypeOK'
  BY <1>8 DEF TryNext
<1>9. ASSUME NEW u \in Users, TryIneligible(u) PROVE QueueTypeOK'
  BY <1>9 DEF TryIneligible
<1>10. ASSUME NEW u \in Users, TryNoSlot(u) PROVE QueueTypeOK'
  BY <1>10 DEF TryNoSlot
<1>11. ASSUME NEW u \in Users, TryStart(u) PROVE QueueTypeOK'
  <2>1. arg[u] \in Hashes
    BY <1>11 DEF TryStart, Eligible, Queued
  <2>2. down' \in SUBSET Hashes /\ seed' \in SUBSET Hashes
    BY <1>11, <2>1 DEF TryStart, TakeSlot
  <2>3. QED
    BY <1>11, <2>1, <2>2 DEF TryStart, TakeSlot
<1>12. ASSUME NEW u \in Users, StartEnds(u) \/ StartRaises(u) PROVE QueueTypeOK'
  BY <1>12 DEF StartEnds, StartRaises
<1>13. ASSUME NEW h \in Hashes, SessionChanges(h) PROVE QueueTypeOK'
  BY <1>13 DEF SessionChanges
<1>14. CASE MonitorTick
  BY <1>14 DEF MonitorTick, SyncActiveSets
<1>15. CASE QueueStop
  BY <1>15 DEF QueueStop
<1>16. QED
  BY <1>1, <1>2, <1>3, <1>4, <1>5, <1>6, <1>7, <1>8, <1>9, <1>10, <1>11, <1>12, <1>13, <1>14, <1>15
  DEF QueueNext, UserCall, UserStep

\* Every reachable state of the queue is well typed.
THEOREM QueueTypeCorrect == QueueSpec => []QueueTypeOK
BY QueueTypeInit, QueueTypeStep, PTL DEF QueueSpec

\* Who is starting a session, and the monitor while it enforces, has the lock.
SlotInv ==
  /\ \A u \in Users : at[u] = "starting" => qlock = u
  /\ monitor = "enforcing" <=> qlock = "monitor"
  /\ SlotsAreOfEntries /\ StatisticsAreCurrent /\ LimitsHold

LEMMA SlotInit == QueueInit => SlotInv
BY QueueAssumption, FS_EmptySet
DEF QueueInit, SlotInv, SlotsAreOfEntries, StatisticsAreCurrent, LimitsHold, Counted

\* A step that gives slots up or leaves them, and counts if it changes them.
LEMMA FewerSlots ==
  ASSUME QueueTypeOK, SlotInv, QueueTypeOK', down' \subseteq down, seed' \subseteq seed,
         down' \cup seed' \subseteq Queued',
         stats' = Counted(down', seed') \/ (UNCHANGED <<down, seed, stats>> /\ qlock = "free"),
         UNCHANGED <<monitor, qlock>>,
         \A u \in Users : at'[u] = "starting" => at[u] = "starting"
  PROVE  SlotInv'
<1>1. Cardinality(down') <= Cardinality(down) /\ Cardinality(seed') <= Cardinality(seed)
      /\ Cardinality(down) \in Nat /\ Cardinality(seed) \in Nat
      /\ Cardinality(down') \in Nat /\ Cardinality(seed') \in Nat
  BY QueueAssumption, FS_Subset, FS_CardinalityType DEF QueueTypeOK
<1>2. LimitsHold'
  BY <1>1, QueueAssumption DEF SlotInv, LimitsHold
<1>3. QED
  BY <1>2 DEF SlotInv, SlotsAreOfEntries, StatisticsAreCurrent

LEMMA SlotStep == QueueTypeOK /\ QueueTypeOK' /\ SlotInv /\ [QueueNext]_queueVars => SlotInv'
<1> SUFFICES ASSUME QueueTypeOK, QueueTypeOK', SlotInv, [QueueNext]_queueVars PROVE SlotInv'
  OBVIOUS
<1> USE QueueAssumption DEF qData, qSessions, Counts, Begins, UpdateStatistics, GivesUp
<1>0. down \cup seed \subseteq Queued /\ down \cap seed = {}
  BY DEF SlotInv, SlotsAreOfEntries
<1>1. CASE UNCHANGED queueVars
  BY <1>1 DEF queueVars, SlotInv, SlotsAreOfEntries, StatisticsAreCurrent, LimitsHold, Queued
<1>2. ASSUME NEW u \in Users, NEW h \in Hashes, AddEntry(u, h) PROVE SlotInv'
  <2>1. Queued \subseteq Queued'
    BY <1>2 DEF AddEntry, Queued, QueueTypeOK
  <2>2. QED
    BY <1>0, <1>2, <2>1, FewerSlots DEF AddEntry, QueueTypeOK
<1>3. ASSUME NEW u \in Users, NEW h \in Hashes, RemoveEntry(u, h) PROVE SlotInv'
  <2>1. Queued' = Queued \ {h}
    BY <1>3 DEF RemoveEntry, Queued, QueueTypeOK
  <2>2. down' \cup seed' \subseteq Queued'
    BY <1>0, <1>3, <2>1 DEF RemoveEntry
  <2>3. QED
    BY <1>3, <2>2, FewerSlots DEF RemoveEntry, QueueTypeOK
<1>4. ASSUME NEW u \in Users, NEW h \in Hashes, NEW p \in Priorities, SetPriority(u, h, p) PROVE SlotInv'
  BY <1>0, <1>4, FewerSlots DEF SetPriority, QueueTypeOK, Queued
<1>5. ASSUME NEW u \in Users, NEW h \in Hashes, PauseEntry(u, h) PROVE SlotInv'
  <2>1. Queued' = Queued
    BY <1>5 DEF PauseEntry, Queued, QueueTypeOK
  <2>2. QED
    BY <1>0, <1>5, <2>1, FewerSlots DEF PauseEntry, QueueTypeOK
<1>6. ASSUME NEW u \in Users, NEW h \in Hashes, ResumeEntry(u, h) PROVE SlotInv'
  <2>1. Queued' = Queued
    BY <1>6 DEF ResumeEntry, Queued, QueueTypeOK
  <2>2. QED
    BY <1>0, <1>6, <2>1, FewerSlots DEF ResumeEntry, QueueTypeOK
<1>7. ASSUME NEW u \in Users, SessionPaused(u) PROVE SlotInv'
  BY <1>7 DEF SessionPaused, SlotInv, SlotsAreOfEntries, StatisticsAreCurrent, LimitsHold, Queued, QueueTypeOK
<1>8. ASSUME NEW u \in Users, TryNext(u) PROVE SlotInv'
  BY <1>8 DEF TryNext, SlotInv, SlotsAreOfEntries, StatisticsAreCurrent, LimitsHold, Queued, QueueTypeOK
<1>9. ASSUME NEW u \in Users, TryIneligible(u) PROVE SlotInv'
  BY <1>9 DEF TryIneligible, SlotInv, SlotsAreOfEntries, StatisticsAreCurrent, LimitsHold, Queued, QueueTypeOK
<1>10. ASSUME NEW u \in Users, TryNoSlot(u) PROVE SlotInv'
  <2>1. Queued' = Queued
    BY <1>10 DEF TryNoSlot, Eligible, Queued, QueueTypeOK
  <2>2. QED
    BY <1>0, <1>10, <2>1, FewerSlots DEF TryNoSlot, QueueTypeOK
<1>11. ASSUME NEW u \in Users, TryStart(u) PROVE SlotInv'
  <2> DEFINE h == arg[u]
  <2>1. h \in Queued /\ h \notin down \cup seed /\ qlock = "free" /\ TakeSlot(h) /\ HasSlot(h)
        /\ UNCHANGED monitor
    BY <1>11 DEF TryStart, Eligible, Active
  <2>2. Queued' = Queued /\ Queued \subseteq Hashes
    BY <2>1 DEF TakeSlot, Queued, QueueTypeOK
  <2>3. SlotsAreOfEntries'
    BY <1>0, <2>1, <2>2 DEF SlotsAreOfEntries, TakeSlot
  <2>4. monitor # "enforcing" /\ (monitor # "cancelled" => stats = Counted(down, seed))
    BY <2>1, QueueAssumption DEF SlotInv, StatisticsAreCurrent
  <2>5. /\ Cardinality(down) \in Nat /\ Cardinality(seed) \in Nat
        /\ Cardinality(down \cup {h}) \in Nat /\ Cardinality(seed \cup {h}) \in Nat
        /\ Cardinality(down \cup {h}) <= Cardinality(down) + 1
        /\ Cardinality(seed \cup {h}) <= Cardinality(seed) + 1
    <3> HIDE DEF h
    <3>1. down \in SUBSET Hashes /\ seed \in SUBSET Hashes /\ h \in Hashes
      BY <2>1, <2>2 DEF QueueTypeOK
    <3>2. down \cup {h} \in SUBSET Hashes /\ seed \cup {h} \in SUBSET Hashes
      BY <3>1
    <3>3. \A D \in SUBSET Hashes : /\ Cardinality(D) \in Nat
                                   /\ Cardinality(D \cup {h}) <= Cardinality(D) + 1
      BY <3>1, Counts1
    <3>4. QED
      BY <3>1, <3>2, <3>3
  <2>6. LimitsHold'
    <3> HIDE DEF h
    <3>1. SUFFICES ASSUME monitor \in {"asleep", "ended"}
                   PROVE  /\ MaxDown = 0 \/ Cardinality(down') <= MaxDown
                          /\ MaxSeed = 0 \/ Cardinality(seed') <= MaxSeed
      BY <2>1 DEF LimitsHold
    <3>2. /\ MaxDown = 0 \/ Cardinality(down) <= MaxDown
          /\ MaxSeed = 0 \/ Cardinality(seed) <= MaxSeed
      BY <3>1 DEF SlotInv, LimitsHold
    <3>3. stats.down = Cardinality(down) /\ stats.seed = Cardinality(seed)
      BY <2>4, <3>1 DEF Counted
    <3>4. MaxDown \in Nat /\ MaxSeed \in Nat
      OBVIOUS
    <3>5. CASE h \in complete
      <4>1. down' = down /\ seed' = seed \cup {h}
        BY <2>1, <3>5 DEF TakeSlot
      <4>2. MaxSeed = 0 \/ Cardinality(seed) < MaxSeed
        BY <2>1, <3>3, <3>5 DEF HasSlot, Below
      <4>3. QED
        BY <2>5, <3>2, <3>4, <4>1, <4>2
    <3>6. CASE h \notin complete
      <4>1. down' = down \cup {h} /\ seed' = seed
        BY <2>1, <3>6 DEF TakeSlot
      <4>2. MaxDown = 0 \/ Cardinality(down) < MaxDown
        BY <2>1, <3>3, <3>6 DEF HasSlot, Below
      <4>3. QED
        BY <2>5, <3>2, <3>4, <4>1, <4>2
    <3>7. QED
      BY <3>5, <3>6
  <2>7. StatisticsAreCurrent'
    BY <1>11 DEF TryStart, StatisticsAreCurrent
  <2>8. \A v \in Users : at'[v] = "starting" => qlock' = v
    BY <1>11, <2>1 DEF TryStart, SlotInv, QueueTypeOK
  <2>9. (monitor = "enforcing" <=> qlock = "monitor")'
    BY <1>11, <2>4 DEF TryStart, SlotInv
  <2>10. QED
    BY <2>3, <2>6, <2>7, <2>8, <2>9 DEF SlotInv
<1>12. ASSUME NEW u \in Users, StartEnds(u) \/ StartRaises(u) PROVE SlotInv'
  <2>1. Queued \subseteq Queued' /\ UNCHANGED <<down, seed, monitor>> /\ qlock = u /\ qlock' = "free"
        /\ stats' = Counted(down', seed')
    BY <1>12 DEF StartEnds, StartRaises, Queued, QueueTypeOK, SlotInv
  <2>2. at' = [at EXCEPT ![u] = "idle"]
    BY <1>12 DEF StartEnds, StartRaises
  <2>3. \A v \in Users : at'[v] # "starting"
    BY <2>1, <2>2 DEF SlotInv, QueueTypeOK
  <2>4. monitor # "enforcing"
    BY <2>1 DEF SlotInv
  <2>5. SlotsAreOfEntries' /\ StatisticsAreCurrent' /\ LimitsHold'
    BY <1>0, <2>1 DEF SlotsAreOfEntries, StatisticsAreCurrent, LimitsHold, SlotInv
  <2>6. QED
    BY <2>1, <2>3, <2>4, <2>5 DEF SlotInv
<1>13. ASSUME NEW h \in Hashes, SessionChanges(h) PROVE SlotInv'
  BY <1>13 DEF SessionChanges, SlotInv, SlotsAreOfEntries, StatisticsAreCurrent, LimitsHold, Queued
<1>14. CASE MonitorTick
  BY <1>0, <1>14 DEF MonitorTick, SyncActiveSets, SlotInv, SlotsAreOfEntries, StatisticsAreCurrent, LimitsHold, Queued
<1>15. CASE QueueStop
  BY <1>15 DEF QueueStop, SlotInv, SlotsAreOfEntries, StatisticsAreCurrent, LimitsHold, Queued
<1>16. QED
  BY <1>1, <1>2, <1>3, <1>4, <1>5, <1>6, <1>7, <1>8, <1>9, <1>10, <1>11, <1>12, <1>13, <1>14, <1>15
  DEF QueueNext, UserCall, UserStep

LEMMA SlotInvariant == QueueSpec => []SlotInv
BY SlotInit, SlotStep, QueueTypeCorrect, PTL DEF QueueSpec

\* Slots belong to entries of the queue, each to one set.
THEOREM SlotsBelongToEntries == QueueSpec => []SlotsAreOfEntries
<1>1. SlotInv => SlotsAreOfEntries
  BY DEF SlotInv
<1>2. QED
  BY <1>1, SlotInvariant, PTL

\* Whoever gets the lock finds the counts of the active sets, until the monitor
\* has been cancelled in the middle of its round.
THEOREM CountsAreCurrent == QueueSpec => []StatisticsAreCurrent
<1>1. SlotInv => StatisticsAreCurrent
  BY DEF SlotInv
<1>2. QED
  BY <1>1, SlotInvariant, PTL

\* Before the monitor's first round, the sets keep to the limits, however calls,
\* starts that raise and sessions that change by themselves interleave.
THEOREM StartsKeepToLimits == QueueSpec => []LimitsHold
<1>1. SlotInv => LimitsHold
  BY DEF SlotInv
<1>2. QED
  BY <1>1, SlotInvariant, PTL

\* While the monitor waits for the lock it holds, only callers that hold no lock
\* move, sessions change by themselves, or stop() cancels the monitor.
LEMMA RoundStep ==
  ASSUME SlotInv, monitor = "enforcing", [QueueNext]_queueVars
  PROVE  UNCHANGED qData /\ monitor' \in {"enforcing", "cancelled"}
<1> USE DEF qData, qSessions, Begins
<1>1. qlock # "free" /\ \A u \in Users : at[u] # "starting"
  BY QueueAssumption DEF SlotInv
<1>2. CASE \E u \in Users : UserCall(u)
  BY <1>1, <1>2 DEF UserCall, SetPriority, AddEntry, RemoveEntry, PauseEntry, ResumeEntry
<1>3. ASSUME NEW u \in Users, UserStep(u) PROVE UNCHANGED <<qData, monitor>>
  <2>1. SessionPaused(u)
    BY <1>1, <1>3 DEF UserStep, TryNext, TryIneligible, TryNoSlot, TryStart, StartEnds, StartRaises
  <2>2. QED
    BY <2>1 DEF SessionPaused
<1>4. CASE \E h \in Hashes : SessionChanges(h)
  BY <1>4 DEF SessionChanges
<1>5. CASE MonitorTick \/ QueueStop
  BY <1>5 DEF MonitorTick, QueueStop
<1>6. CASE UNCHANGED queueVars
  BY <1>6 DEF queueVars
<1>7. QED
  BY <1>2, <1>3, <1>4, <1>5, <1>6 DEF QueueNext

\* From the moment a round of the monitor begins until stop() cancels it, no entry,
\* priority, active set or count of the queue changes any more, whoever calls
\* (queue/manager.py:724-733 holds the lock that _enforce_queue_limits waits for).
THEOREM RoundFreezesQueue ==
  QueueSpec => [][monitor = "enforcing" => UNCHANGED qData]_queueVars
<1>1. SlotInv /\ [QueueNext]_queueVars => [monitor = "enforcing" => UNCHANGED qData]_queueVars
  BY RoundStep
<1>2. QED
  BY <1>1, SlotInvariant, PTL DEF QueueSpec

\* A round that has begun never comes to its end: no run in which the monitor
\* wakes even once keeps the promise of _monitor_loop's docstring.
THEOREM RoundsNeverEnd == QueueSpec /\ <>(monitor = "enforcing") => ~MonitorEnforces
<1> DEFINE Stuck == monitor \in {"enforcing", "cancelled"}
<1>1. SlotInv /\ Stuck /\ [QueueNext]_queueVars => Stuck'
  <2>1. CASE monitor = "enforcing"
    BY <2>1, RoundStep
  <2>2. ASSUME monitor = "cancelled", [QueueNext]_queueVars PROVE monitor' = monitor
    <3>1. ASSUME NEW u \in Users, UserCall(u) PROVE monitor' = monitor
      BY <3>1 DEF UserCall, SetPriority, AddEntry, RemoveEntry, PauseEntry, ResumeEntry, qSessions
    <3>2. ASSUME NEW u \in Users, UserStep(u) PROVE monitor' = monitor
      BY <3>2 DEF UserStep, SessionPaused, TryNext, TryIneligible, TryNoSlot, TryStart, StartEnds,
                  StartRaises, qSessions
    <3>3. ~MonitorTick /\ ~QueueStop
      BY <2>2 DEF MonitorTick, QueueStop
    <3>4. CASE (\E h \in Hashes : SessionChanges(h)) \/ UNCHANGED queueVars
      BY <3>4 DEF SessionChanges, queueVars
    <3>5. QED
      BY <2>2, <3>1, <3>2, <3>3, <3>4 DEF QueueNext
  <2>3. QED
    BY <2>1, <2>2
<1>2. monitor = "enforcing" => Stuck
  OBVIOUS
<1>3. Stuck => ~(monitor = "asleep")
  OBVIOUS
<1> HIDE DEF Stuck
<1>4. QED
  BY <1>1, <1>2, <1>3, SlotInvariant, PTL DEF QueueSpec, MonitorEnforces

-----------------------------------------------------------------------------
(* The queue implements TorrentSlots.                                         *)

LEMMA ModeOfMonitor ==
  ASSUME QueueTypeOK
  PROVE  /\ Mode = "frozen" <=> monitor = "enforcing"
         /\ Mode = "loose" <=> monitor = "cancelled"
         /\ Mode = "kept" <=> monitor \in {"asleep", "ended"}
BY DEF Mode, QueueTypeOK

\* A call that has the lock meets a queue that no round has frozen.
LEMMA LockIsOfNoRound ==
  ASSUME QueueTypeOK, SlotInv, qlock # "monitor"
  PROVE  Mode # "frozen"
BY ModeOfMonitor DEF SlotInv

\* Nobody removes the entry of a start that is under way: it has the lock.
StartedAreQueued == \A u \in Users : at[u] = "starting" => arg[u] \in Queued

LEMMA StartedStep ==
  ASSUME QueueTypeOK, SlotInv, StartedAreQueued, [QueueNext]_queueVars
  PROVE  StartedAreQueued'
<1> SUFFICES ASSUME NEW v \in Users, at'[v] = "starting" PROVE arg'[v] \in Queued'
  BY DEF StartedAreQueued
<1> USE QueueAssumption DEF qData, qSessions, Counts, Begins, GivesUp
<1>1. CASE at[v] = "starting"
  <2>1. qlock = v /\ qlock # "free" /\ arg[v] \in Queued
    BY <1>1 DEF SlotInv, StartedAreQueued
  <2>2. UNCHANGED entry /\ arg'[v] = arg[v]
    <3>1. CASE \E u \in Users : UserCall(u)
      BY <2>1, <3>1 DEF UserCall, SetPriority, AddEntry, RemoveEntry, PauseEntry, ResumeEntry
    <3>2. ASSUME NEW u \in Users, UserStep(u) PROVE UNCHANGED <<entry, arg>>
      <4>1. ~StartEnds(u) /\ ~StartRaises(u)
        BY <2>1 DEF StartEnds, StartRaises, SlotInv, QueueTypeOK
      <4>2. SessionPaused(u)
        BY <2>1, <3>2, <4>1 DEF UserStep, TryNext, TryIneligible, TryNoSlot, TryStart
      <4>3. QED
        BY <4>2 DEF SessionPaused
    <3>3. CASE (\E h \in Hashes : SessionChanges(h)) \/ MonitorTick \/ QueueStop \/ UNCHANGED queueVars
      BY <3>3 DEF SessionChanges, MonitorTick, QueueStop, queueVars
    <3>4. QED
      BY <3>1, <3>2, <3>3 DEF QueueNext
  <2>3. QED
    BY <2>1, <2>2 DEF Queued
<1>2. CASE at[v] # "starting"
  <2>1. TryStart(v)
    BY <1>2 DEF QueueNext, UserCall, UserStep, SetPriority, AddEntry, RemoveEntry, PauseEntry, ResumeEntry,
                SessionPaused, TryNext, TryIneligible, TryNoSlot, TryStart, StartEnds, StartRaises,
                SessionChanges, MonitorTick, QueueStop, queueVars, QueueTypeOK
  <2>2. QED
    BY <2>1 DEF TryStart, TakeSlot, Eligible, Queued, QueueTypeOK
<1>3. QED
  BY <1>1, <1>2

\* Both modules count alike.
LEMMA SlotsCount == \A S : Slots!Cardinality(S) = Cardinality(S)
BY DEF Slots!Cardinality, Cardinality

\* Every step of the queue is one of TorrentSlots or leaves the slots alone.
LEMMA SlotsFollowed ==
  ASSUME QueueTypeOK, QueueTypeOK', SlotInv, StartedAreQueued, [QueueNext]_queueVars
  PROVE  [Slots!SlotsNext]_(Slots!slotVars)
<1> USE QueueAssumption DEF qData, qSessions, Counts, Begins, GivesUp
<1> DEFINE Kept == UNCHANGED <<Queued, down, seed, Mode>>
<1>1. Kept => [Slots!SlotsNext]_(Slots!slotVars)
  BY DEF Slots!slotVars, Mode
<1>2. ASSUME NEW u \in Users, NEW h \in Hashes, AddEntry(u, h) PROVE Slots!SlotsNext
  <2>1. Queued' = Queued \cup {h} /\ UNCHANGED <<down, seed, monitor>> /\ qlock = "free"
    BY <1>2 DEF AddEntry, Queued, QueueTypeOK
  <2>2. h \notin Queued
    BY <1>2 DEF AddEntry, Queued
  <2>3. Mode' = Mode /\ Mode # "frozen"
    BY <2>1, LockIsOfNoRound DEF Mode
  <2>4. Slots!Join(h)
    BY <2>1, <2>2, <2>3 DEF Slots!Join, Mode
  <2>5. QED
    BY <2>4 DEF Slots!SlotsNext
<1>3. ASSUME NEW u \in Users, NEW h \in Hashes, RemoveEntry(u, h) \/ PauseEntry(u, h)
      PROVE Slots!SlotsNext
  <2>1. Queued' \in {Queued, Queued \ {h}}
    BY <1>3 DEF RemoveEntry, PauseEntry, Queued, QueueTypeOK
  <2>2. /\ h \in Queued /\ qlock = "free" /\ monitor' = monitor
        /\ down' = down \ {h} /\ seed' = seed \ {h}
    BY <1>3 DEF RemoveEntry, PauseEntry
  <2>3. Mode' = Mode /\ Mode # "frozen"
    BY <2>2, LockIsOfNoRound DEF Mode
  <2>4. Slots!GiveBack(h)
    BY <2>1, <2>2, <2>3 DEF Slots!GiveBack, Mode
  <2>5. QED
    BY <2>4 DEF Slots!SlotsNext
<1>4. ASSUME NEW u \in Users, TryStart(u) PROVE Slots!SlotsNext
  <2> DEFINE h == arg[u]
  <2>1. /\ h \in Queued /\ h \notin down \cup seed /\ qlock = "free"
        /\ TakeSlot(h) /\ HasSlot(h) /\ monitor' = monitor
    BY <1>4 DEF TryStart, Eligible, Active
  <2> HIDE DEF h
  <2>2. Queued' = Queued /\ h \in Hashes
    BY <2>1 DEF TakeSlot, Queued, QueueTypeOK
  <2>3. Mode' = Mode /\ Mode # "frozen"
    BY <2>1, LockIsOfNoRound DEF Mode
  <2>4. Mode = "kept" => stats.down = Cardinality(down) /\ stats.seed = Cardinality(seed)
    BY <2>1, ModeOfMonitor DEF SlotInv, StatisticsAreCurrent, Counted
  <2>5. CASE h \in complete
    <3>1. down' = down /\ seed' = seed \cup {h}
      BY <2>1, <2>5 DEF TakeSlot
    <3>2. Mode = "kept" => MaxSeed = 0 \/ Cardinality(seed) < MaxSeed
      BY <2>1, <2>4, <2>5 DEF HasSlot, Below
    <3>3. Slots!TakeSeed(h)
      BY <2>1, <2>2, <2>3, <3>1, <3>2, SlotsCount DEF Slots!TakeSeed, Slots!Room
    <3>4. QED
      BY <2>2, <3>3 DEF Slots!SlotsNext
  <2>6. CASE h \notin complete
    <3>1. down' = down \cup {h} /\ seed' = seed
      BY <2>1, <2>6 DEF TakeSlot
    <3>2. Mode = "kept" =>
            /\ MaxDown = 0 \/ Cardinality(down) < MaxDown
            /\ MaxActive = 0 \/ Cardinality(down) + Cardinality(seed) < MaxActive
      BY <2>1, <2>4, <2>6 DEF HasSlot, Below
    <3>3. Slots!TakeDownload(h)
      BY <2>1, <2>2, <2>3, <3>1, <3>2, SlotsCount DEF Slots!TakeDownload, Slots!Room
    <3>4. QED
      BY <2>2, <3>3 DEF Slots!SlotsNext
  <2>7. QED
    BY <2>5, <2>6
<1>5. ASSUME NEW u \in Users, UserStep(u), ~TryStart(u) PROVE Kept
  <2>1. UNCHANGED <<down, seed, monitor>>
    BY <1>5 DEF UserStep, SessionPaused, TryNext, TryIneligible, TryNoSlot, StartEnds, StartRaises
  <2>2. Queued' = Queued
    <3>1. CASE TryNoSlot(u)
      BY <3>1 DEF TryNoSlot, Eligible, Queued, QueueTypeOK
    <3>2. CASE StartRaises(u)
      BY <3>2 DEF StartRaises, StartedAreQueued, Queued, QueueTypeOK
    <3>3. CASE entry' = entry
      BY <3>3 DEF Queued
    <3>4. QED
      BY <1>5, <3>1, <3>2, <3>3 DEF UserStep, SessionPaused, TryNext, TryIneligible, StartEnds
  <2>3. QED
    BY <2>1, <2>2 DEF Mode
<1>6. ASSUME NEW u \in Users, UserCall(u) PROVE [Slots!SlotsNext]_(Slots!slotVars)
  <2>1. ASSUME NEW h \in Hashes, ResumeEntry(u, h) PROVE Kept
    BY <2>1 DEF ResumeEntry, Queued, QueueTypeOK, Mode
  <2>2. ASSUME NEW h \in Hashes, NEW p \in Priorities, SetPriority(u, h, p) PROVE Kept
    BY <2>2 DEF SetPriority, Queued, Mode
  <2>3. QED
    BY <1>1, <1>2, <1>3, <1>6, <2>1, <2>2 DEF UserCall
<1>7. CASE MonitorTick
  <2>1. Mode = "kept" /\ Mode' = "frozen" /\ Queued' = Queued
    BY <1>7 DEF MonitorTick, Mode, Queued
  <2>2. down' \cup seed' \subseteq down \cup seed /\ down' \cap seed' = {}
    BY <1>7 DEF MonitorTick, SyncActiveSets
  <2>3. QED
    BY <2>1, <2>2 DEF Slots!SlotsNext, Slots!Round, Mode
<1>8. CASE QueueStop
  <2>1. CASE monitor = "asleep"
    <3>1. Kept
      BY <1>8, <2>1 DEF QueueStop, Queued, Mode
    <3>2. QED
      BY <1>1, <3>1
  <2>2. CASE monitor # "asleep"
    <3>1. Mode = "frozen" /\ Mode' = "loose" /\ UNCHANGED <<Queued, down, seed>>
      BY <1>8, <2>2 DEF QueueStop, Queued, Mode
    <3>2. QED
      BY <3>1 DEF Slots!SlotsNext, Slots!Cancelled, Mode
  <2>3. QED
    BY <2>1, <2>2
<1>9. CASE (\E h \in Hashes : SessionChanges(h)) \/ UNCHANGED queueVars
  <2>1. Kept
    BY <1>9 DEF SessionChanges, queueVars, Queued, Mode
  <2>2. QED
    BY <1>1, <2>1
<1> HIDE DEF Kept
<1>10. QED
  BY <1>1, <1>4, <1>5, <1>6, <1>7, <1>8, <1>9 DEF QueueNext

\* The queue keeps what TorrentSlots promises: a slot is taken when there is room
\* among the sets themselves, not only among the counts, for any limits, users
\* and hashes; the monitor's first round freezes the queue, and its
\* cancellation ends the promise of limits.
THEOREM SlotsImplemented == QueueSpec => ImplementsSlots
<1>1. QueueInit => Slots!SlotsInit /\ StartedAreQueued
  BY DEF QueueInit, Slots!SlotsInit, Queued, Mode, StartedAreQueued
<1>2. QueueSpec => []StartedAreQueued
  BY <1>1, QueueTypeCorrect, SlotInvariant, StartedStep, PTL DEF QueueSpec
<1>3. QED
  BY <1>1, <1>2, QueueTypeCorrect, SlotInvariant, SlotsFollowed, PTL
  DEF QueueSpec, ImplementsSlots, Slots!SlotsSpec
-----------------------------------------------------------------------------
\* Unless the manager's stop() is at work no session of the table has been
\* stopped, and a session started once and stopped after that leaves no
\* selector or PEX task and no open tracker client.
THEOREM SoundSessions == SessionSpec => []SessionsAreSound
BY SessionTypeCorrect, TableHoldsLiveSessions, OrderlyStop, PTL DEF SessionsAreSound

\* The two active sets are disjoint and hold entries of the queue only, whoever
\* gets the queue's lock finds counts that are those of the sets, unless a round
\* of the monitor was cancelled, and the sets keep to the limits before it.
THEOREM SoundQueue == QueueSpec => []QueueIsSound
BY QueueTypeCorrect, SlotsBelongToEntries, CountsAreCurrent, StartsKeepToLimits, PTL DEF QueueIsSound
=============================================================================
