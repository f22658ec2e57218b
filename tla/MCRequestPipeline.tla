-------------------------- MODULE MCRequestPipeline --------------------------
(* What is asked of peers: the blocks of one connection, by two coroutines,  *)
(* and the metadata of a magnet link, of two peers.  They share no variable: *)
(* each behaviour is one of one of them.                                     *)
EXTENDS RequestPipeline, MetadataExchange

VARIABLE part

all == <<vars, metaVars, part>>

MCInit == Init /\ MetaInit /\ part \in {"blocks", "metadata"}
MCNext ==
  /\ \/ part = "blocks" /\ Next /\ UNCHANGED metaVars
     \/ part = "metadata" /\ MetaNext /\ UNCHANGED vars
  /\ UNCHANGED part
\* In the behaviours of the one, no fair action of the other is ever enabled.
MCSpec == MCInit /\ [][MCNext]_all /\ Fairness /\ MetaFairness
=============================================================================
