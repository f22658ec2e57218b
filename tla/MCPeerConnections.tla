-------------------------- MODULE MCPeerConnections --------------------------
(* Connections and announces: the table of connections, with an attempt and  *)
(* an accepted socket of the same peer; the pool, with two attempts and a    *)
(* warm-up task for it; two calls to one UDP tracker.  They share no         *)
(* variable: each behaviour is one of one of them.                           *)
EXTENDS PeerConnections, ConnectionPool, UdpTracker, TLC

CONSTANTS o1, i1, c1, c2, w1, p1, a1, a2, t1
VARIABLE part

Host == [c \in Conns |-> p1]
Asked == [c \in Callers |-> p1]
Tracker == [a \in Askers |-> t1]
all == <<vars, poolVars, udpVars, part>>

MCInit ==
  /\ Init /\ PoolInit /\ UdpInit
  /\ part \in {"table", "pool", "tracker"}
MCNext ==
  /\ \/ part = "table" /\ Next /\ UNCHANGED <<poolVars, udpVars>>
     \/ part = "pool" /\ PoolNext /\ UNCHANGED <<vars, udpVars>>
     \/ part = "tracker" /\ UdpNext /\ UNCHANGED <<vars, poolVars>>
  /\ UNCHANGED part
\* In the behaviours of the one, no fair action of the other is ever enabled.
MCSpec == MCInit /\ [][MCNext]_all /\ Fairness /\ UdpFairness
=============================================================================
