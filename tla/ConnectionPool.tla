---------------------------- MODULE ConnectionPool ----------------------------
(***************************************************************************)
(* The pool of TCP connections to peers (ccbt/peer/connection_pool.py).     *)
(* Coroutines acquire a connection for a peer and release it; a pooled      *)
(* connection is named after the coroutine that opened it.  Two loops, the  *)
(* health check and the clean-up, remove entries.  Every step between two   *)
(* awaits is one action: a removal waits for the socket to close between    *)
(* reading the entry and deleting it, and the pool has no lock.             *)
(***************************************************************************)
EXTENDS Naturals, FiniteSets

CONSTANTS
  Callers,         \* coroutines that call acquire, and the connections they open
  WarmUps,         \* those that only warm the pool up
  Peers,
  PeerOf,          \* the peer each coroutine asks for
  NoSock,          \* stands where there is no pooled connection
  MaxConnections,  \* permits of the semaphore at the start
  MaxChecks        \* bound: how often each loop ticks

ASSUME PoolAssumption ==
  /\ WarmUps \subseteq Callers
  /\ PeerOf \in [Callers -> Peers]
  /\ NoSock \notin Callers
  /\ MaxConnections \in Nat /\ MaxChecks \in Nat

VARIABLES
  pool,     \* the entry of each peer
  metrics,  \* its ConnectionMetrics: "none", "healthy" or "unhealthy"
  permits,  \* value of the semaphore
  live,     \* pooled connections whose writer is open
  call,     \* of each coroutine: where its acquire or release is
  got,      \* what its acquire returned
  todo,     \* of each loop: the peers it still has to remove
  removing, \* the peers each loop is closing the connection of
  checks    \* how often each loop has ticked

poolVars == <<pool, metrics, permits, live, call, got, todo, removing, checks>>

Loops == {"health", "cleanup", "stop"}  \* pool.stop() removes every entry
CallStates == {"idle", "removing", "permit", "creating", "returned", "raised", "using", "done"}

PoolTypeOK ==
  /\ pool \in [Peers -> Callers \cup {NoSock}]
  /\ metrics \in [Peers -> {"none", "healthy", "unhealthy"}]
  /\ permits \in Nat
  /\ live \in SUBSET Callers
  /\ call \in [Callers -> CallStates]
  /\ got \in [Callers -> Callers \cup {NoSock}]
  /\ todo \in [Loops -> SUBSET Peers]
  /\ removing \in [Loops -> SUBSET Peers]
  /\ checks \in [Loops -> Nat]

PoolInit ==
  /\ pool = [p \in Peers |-> NoSock]
  /\ metrics = [p \in Peers |-> "none"]
  /\ permits = MaxConnections
  /\ live = {}
  /\ call = [c \in Callers |-> "idle"]
  /\ got = [c \in Callers |-> NoSock]
  /\ todo = [k \in Loops |-> {}]
  /\ removing = [k \in Loops |-> {}]
  /\ checks = [k \in Loops |-> 0]

-----------------------------------------------------------------------------
(* acquire *)

\* The entry of p may be handed out: healthy and its writer not closing.
Valid(p) == pool[p] # NoSock /\ metrics[p] = "healthy" /\ pool[p] \in live

\* A connection that was opened longer than max_idle_time ago is not handed
\* out either, whether somebody uses it or not.
AcquireReuses(c) ==
  /\ call[c] = "idle" /\ Valid(PeerOf[c])
  /\ call' = [call EXCEPT ![c] = "returned"]
  /\ got' = [got EXCEPT ![c] = pool[PeerOf[c]]]
  /\ UNCHANGED <<pool, metrics, permits, live, todo, removing, checks>>

AcquireFindsUnusable(c) ==
  /\ call[c] = "idle" /\ pool[PeerOf[c]] # NoSock
  /\ call' = [call EXCEPT ![c] = "removing"]
  /\ live' = live \ {pool[PeerOf[c]]}
  /\ UNCHANGED <<pool, metrics, permits, got, todo, removing, checks>>

AcquireFindsNothing(c) ==
  /\ call[c] = "idle" /\ pool[PeerOf[c]] = NoSock
  /\ call' = [call EXCEPT ![c] = "permit"]
  /\ UNCHANGED <<pool, metrics, permits, live, got, todo, removing, checks>>

\* The rest of _remove_connection, once the socket has closed: the entry that
\* is there now is deleted.
Delete(p) ==
  /\ pool' = [pool EXCEPT ![p] = NoSock]
  /\ metrics' = [metrics EXCEPT ![p] = "none"]

\* acquire removes the entry without giving its permit back; when another
\* coroutine has deleted it meanwhile, del raises KeyError.
AcquireRemoved(c) ==
  /\ call[c] = "removing"
  /\ IF pool[PeerOf[c]] = NoSock
       THEN call' = [call EXCEPT ![c] = "raised"] /\ UNCHANGED <<pool, metrics>>
       ELSE call' = [call EXCEPT ![c] = "permit"] /\ Delete(PeerOf[c])
  /\ UNCHANGED <<permits, live, got, todo, removing, checks>>

\* The semaphore is granted: metrics are made before the connection is.
TakePermit(c) ==
  /\ call[c] = "permit" /\ permits > 0
  /\ permits' = permits - 1
  /\ metrics' = [metrics EXCEPT ![PeerOf[c]] = IF @ = "none" THEN "healthy" ELSE @]
  /\ call' = [call EXCEPT ![c] = "creating"]
  /\ UNCHANGED <<pool, live, got, todo, removing, checks>>

\* No permit within 10 seconds: acquire returns None.
PermitTimeout(c) ==
  /\ call[c] = "permit" /\ permits = 0
  /\ call' = [call EXCEPT ![c] = "returned"]
  /\ got' = [got EXCEPT ![c] = NoSock]
  /\ UNCHANGED <<pool, metrics, permits, live, todo, removing, checks>>

\* Mutant: the entry is made although its metrics have gone meanwhile.
CreatedUnmeasured(c) ==
  /\ call[c] = "creating"
  /\ live' = live \cup {c}
  /\ call' = [call EXCEPT ![c] = "returned"]
  /\ pool' = [pool EXCEPT ![PeerOf[c]] = c]
  /\ got' = [got EXCEPT ![c] = c]
  /\ UNCHANGED <<permits, metrics, todo, removing, checks>>

\* The connection is open.  The metrics may be gone by now: then the entry
\* is not made, the permit goes back and the connection stays open unused.
Created(c) ==
  /\ call[c] = "creating"
  /\ live' = live \cup {c}
  /\ call' = [call EXCEPT ![c] = "returned"]
  /\ IF metrics[PeerOf[c]] = "none"
       THEN /\ permits' = permits + 1
            /\ got' = [got EXCEPT ![c] = NoSock]
            /\ UNCHANGED pool
       ELSE /\ pool' = [pool EXCEPT ![PeerOf[c]] = c]
            /\ got' = [got EXCEPT ![c] = c]
            /\ UNCHANGED permits
  /\ UNCHANGED <<metrics, todo, removing, checks>>

\* The peer refuses or does not answer: the permit goes back, the metrics stay.
CreateFails(c) ==
  /\ call[c] = "creating"
  /\ permits' = permits + 1
  /\ call' = [call EXCEPT ![c] = "returned"]
  /\ got' = [got EXCEPT ![c] = NoSock]
  /\ UNCHANGED <<pool, metrics, live, todo, removing, checks>>

Acquire(c) ==
  \/ AcquireReuses(c) \/ AcquireFindsUnusable(c) \/ AcquireFindsNothing(c)
  \/ AcquireRemoved(c) \/ TakePermit(c) \/ PermitTimeout(c)
  \/ Created(c) \/ CreateFails(c)

-----------------------------------------------------------------------------
(* release, the health check and the clean-up *)

\* release without an entry gives a permit back, whoever holds it; with an
\* entry it only notes the time.  (It also recycles an entry that was reused
\* 1000 times; the attempt that reuses an entry fails and closes it.)
Release(p) == permits' = IF pool[p] = NoSock THEN permits + 1 ELSE permits

\* An attempt releases the pooled connection at once, fails, and closes it.
Use(c) ==
  /\ call[c] = "returned" /\ got[c] # NoSock /\ c \notin WarmUps
  /\ Release(PeerOf[c])
  /\ live' = live \ {got[c]}
  /\ call' = [call EXCEPT ![c] = "using"]
  /\ UNCHANGED <<pool, metrics, got, todo, removing, checks>>

\* Its _disconnect_peer releases once more; so does the end of a connection
\* that was dialled without the pool.
GiveBack(c) ==
  /\ call[c] = "using" \/ (call[c] = "returned" /\ got[c] = NoSock /\ c \notin WarmUps)
  /\ Release(PeerOf[c])
  /\ call' = [call EXCEPT ![c] = "done"]
  /\ UNCHANGED <<pool, metrics, live, got, todo, removing, checks>>

\* The health check marks what has been idle for long; the clean-up only looks.
\* Both walk the metrics, which outlive a failed connection attempt.
Tick(k) ==
  /\ k \in {"health", "cleanup"} /\ checks["stop"] = 0
  /\ todo[k] = {} /\ removing[k] = {} /\ checks[k] < MaxChecks
  /\ checks' = [checks EXCEPT ![k] = @ + 1]
  /\ \E idle \in SUBSET {p \in Peers : metrics[p] # "none"} :
       IF k = "health"
         THEN /\ metrics' = [p \in Peers |-> IF p \in idle THEN "unhealthy" ELSE metrics[p]]
              /\ todo' = [todo EXCEPT ![k] = idle \cup {p \in Peers : metrics[p] = "unhealthy"}]
         ELSE todo' = [todo EXCEPT ![k] = idle] /\ UNCHANGED metrics
  /\ UNCHANGED <<pool, permits, live, call, got, removing>>

\* stop() cancels both loops and closes every entry.
PoolStop ==
  /\ checks["stop"] = 0
  /\ checks' = [checks EXCEPT !["stop"] = 1]
  /\ todo' = [k \in Loops |-> IF k = "stop" THEN {p \in Peers : pool[p] # NoSock} ELSE {}]
  /\ removing' = [k \in Loops |-> {}]
  /\ UNCHANGED <<pool, metrics, permits, live, call, got>>

\* The manager gives pool.stop() five seconds: what it has not closed stays.
PoolStopTimeout ==
  /\ removing["stop"] # {}
  /\ todo' = [todo EXCEPT !["stop"] = {}]
  /\ removing' = [removing EXCEPT !["stop"] = {}]
  /\ UNCHANGED <<pool, metrics, permits, live, call, got, checks>>

\* What a loop gives back for a peer it has removed.
Refund(k) == permits' = IF k = "stop" THEN permits ELSE permits + 1

\* A peer that has metrics but no entry costs nothing to remove and still
\* gives a permit back; its metrics stay for the next tick.
RemoveAbsent(k, p) ==
  /\ p \in todo[k] /\ removing[k] = {} /\ pool[p] = NoSock
  /\ todo' = [todo EXCEPT ![k] = @ \ {p}]
  /\ Refund(k)
  /\ UNCHANGED <<pool, metrics, live, call, got, removing, checks>>

RemoveStart(k, p) ==
  /\ p \in todo[k] /\ removing[k] = {} /\ pool[p] # NoSock
  /\ removing' = [removing EXCEPT ![k] = {p}]
  /\ live' = live \ {pool[p]}
  /\ UNCHANGED <<pool, metrics, permits, call, got, todo, checks>>

\* del of an entry that is gone raises KeyError: the loop logs it and leaves
\* the other peers of this tick.
RemoveEnd(k, p) ==
  /\ removing[k] = {p}
  /\ removing' = [removing EXCEPT ![k] = {}]
  /\ IF pool[p] = NoSock
       THEN todo' = [todo EXCEPT ![k] = {}] /\ UNCHANGED <<pool, metrics, permits>>
       ELSE /\ Delete(p)
            /\ todo' = [todo EXCEPT ![k] = @ \ {p}]
            /\ Refund(k)
  /\ UNCHANGED <<live, call, got, checks>>

Sweep(k) == \E p \in Peers : RemoveAbsent(k, p) \/ RemoveStart(k, p) \/ RemoveEnd(k, p)

PoolNext ==
  \/ \E c \in Callers : Acquire(c) \/ Use(c) \/ GiveBack(c)
  \/ \E k \in Loops : Tick(k) \/ Sweep(k)
  \/ PoolStop \/ PoolStopTimeout

PoolSpec == PoolInit /\ [][PoolNext]_poolVars

-----------------------------------------------------------------------------
\* An entry has its metrics at every moment: acquire reads metrics[peer] of an
\* entry it finds without looking first (connection_pool.py:171), while
\* removals and creations for the same peer overlap.
EntryHasMetrics == \A p \in Peers : pool[p] # NoSock => metrics[p] # "none"

\* The pool, its metrics and its semaphore go together (acquire, release,
\* remove_connection, the clean-up).
PoolIsSound == PoolTypeOK /\ EntryHasMetrics
=============================================================================
