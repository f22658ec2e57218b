----------------------- MODULE ConnectionPool_proofs -----------------------
(***************************************************************************)
(* What holds of the pool for any number of coroutines, peers and permits.  *)
(***************************************************************************)
EXTENDS ConnectionPool, TLAPS

LEMMA PoolTypeInit == PoolInit => PoolTypeOK
BY PoolAssumption DEF PoolInit, PoolTypeOK, CallStates, Loops

\* Every step keeps the types; a permit is taken only when there is one.
LEMMA PoolTypeStep == PoolTypeOK /\ [PoolNext]_poolVars => PoolTypeOK'
<1> SUFFICES ASSUME PoolTypeOK, [PoolNext]_poolVars PROVE PoolTypeOK'
  OBVIOUS
<1> USE PoolAssumption DEF PoolTypeOK, CallStates, Loops
<1>1. CASE UNCHANGED poolVars
  BY <1>1 DEF poolVars
<1>2. ASSUME NEW c \in Callers, AcquireReuses(c) \/ AcquireFindsUnusable(c) \/ AcquireFindsNothing(c)
      PROVE  PoolTypeOK'
  BY <1>2 DEF AcquireReuses, AcquireFindsUnusable, AcquireFindsNothing
<1>3. ASSUME NEW c \in Callers, AcquireRemoved(c) PROVE PoolTypeOK'
  BY <1>3 DEF AcquireRemoved, Delete
<1>4. ASSUME NEW c \in Callers, TakePermit(c) \/ PermitTimeout(c) PROVE PoolTypeOK'
  BY <1>4 DEF TakePermit, PermitTimeout
<1>5. ASSUME NEW c \in Callers, Created(c) \/ CreateFails(c) PROVE PoolTypeOK'
  BY <1>5 DEF Created, CreateFails
<1>6. ASSUME NEW c \in Callers, Use(c) \/ GiveBack(c) PROVE PoolTypeOK'
  BY <1>6 DEF Use, GiveBack, Release
<1>7. ASSUME NEW k \in Loops, Tick(k) PROVE PoolTypeOK'
  BY <1>7 DEF Tick
<1>8. ASSUME NEW k \in Loops, NEW p \in Peers, RemoveAbsent(k, p) \/ RemoveStart(k, p) PROVE PoolTypeOK'
  BY <1>8 DEF RemoveAbsent, RemoveStart, Refund
<1>9. ASSUME NEW k \in Loops, NEW p \in Peers, RemoveEnd(k, p) PROVE PoolTypeOK'
  BY <1>9 DEF RemoveEnd, Refund, Delete
<1>10. CASE PoolStop \/ PoolStopTimeout
  BY <1>10 DEF PoolStop, PoolStopTimeout
<1>11. QED
  BY <1>1, <1>2, <1>3, <1>4, <1>5, <1>6, <1>7, <1>8, <1>9, <1>10 DEF PoolNext, Acquire, Sweep

\* Every step keeps the metrics of an entry: what deletes the one deletes the
\* other, and an entry is made only where the metrics still are.
LEMMA MetricsStep == PoolTypeOK /\ EntryHasMetrics /\ [PoolNext]_poolVars => EntryHasMetrics'
<1> SUFFICES ASSUME PoolTypeOK, EntryHasMetrics, [PoolNext]_poolVars PROVE EntryHasMetrics'
  OBVIOUS
<1> USE PoolAssumption DEF PoolTypeOK, EntryHasMetrics
<1>1. CASE UNCHANGED <<pool, metrics>>
  BY <1>1
<1>2. ASSUME NEW c \in Callers, AcquireRemoved(c) PROVE EntryHasMetrics'
  BY <1>2 DEF AcquireRemoved, Delete
<1>3. ASSUME NEW c \in Callers, TakePermit(c) PROVE EntryHasMetrics'
  BY <1>3 DEF TakePermit
<1>4. ASSUME NEW c \in Callers, Created(c) PROVE EntryHasMetrics'
  BY <1>4 DEF Created
<1>5. ASSUME NEW k \in Loops, Tick(k) PROVE EntryHasMetrics'
  BY <1>5 DEF Tick
<1>6. ASSUME NEW k \in Loops, NEW p \in Peers, RemoveEnd(k, p) PROVE EntryHasMetrics'
  BY <1>6 DEF RemoveEnd, Delete
<1>7. ASSUME NEW c \in Callers, Acquire(c) \/ Use(c) \/ GiveBack(c) PROVE EntryHasMetrics'
  BY <1>1, <1>2, <1>3, <1>4, <1>7
     DEF Acquire, AcquireReuses, AcquireFindsUnusable, AcquireFindsNothing, PermitTimeout, CreateFails, Use, GiveBack
<1>8. ASSUME NEW k \in Loops, Sweep(k) PROVE EntryHasMetrics'
  BY <1>1, <1>6, <1>8 DEF Sweep, RemoveAbsent, RemoveStart
<1>9. CASE PoolStop \/ PoolStopTimeout
  BY <1>1, <1>9 DEF PoolStop, PoolStopTimeout
<1>10. QED
  BY <1>1, <1>5, <1>7, <1>8, <1>9 DEF PoolNext, poolVars

-----------------------------------------------------------------------------
\* Every reachable state of the pool is well typed; permits never go negative.
THEOREM PoolTypeCorrect == PoolSpec => []PoolTypeOK
BY PoolTypeInit, PoolTypeStep, PTL DEF PoolSpec

\* An entry never outlives its metrics, nor is made without them.
THEOREM EntriesAreMeasured == PoolSpec => []EntryHasMetrics
<1>1. PoolInit => EntryHasMetrics
  BY DEF PoolInit, EntryHasMetrics
<1>2. QED
  BY <1>1, MetricsStep, PoolTypeCorrect, PTL DEF PoolSpec

\* The semaphore never goes below zero and no interleaving of acquires and
\* removals leaves an entry without metrics.
THEOREM SoundPool == PoolSpec => []PoolIsSound
BY PoolTypeCorrect, EntriesAreMeasured, PTL DEF PoolIsSound
=============================================================================
