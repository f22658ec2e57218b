------------------------------ MODULE MCTorrents ------------------------------
(* The sessions of one torrent under calls of two clients, and the queue   *)
(* with two torrents and two users.  They share no variable: each behaviour   *)
(* is one of one of them.                                                     *)
EXTENDS TorrentSession, TorrentQueue, TLC

CONSTANTS k1, k2, k3, t1, u1, u2, h1, h2
VARIABLE part

all == <<sessVars, queueVars, part>>

MCInit ==
  /\ part \in {"session", "queue"} /\ SessionInit /\ QueueInit
  /\ part = "session" => complete = {} /\ sess = [h \in Hashes |-> "paused"]
MCNext ==
  /\ \/ part = "session" /\ SessionNext /\ UNCHANGED queueVars
     \/ part = "queue" /\ QueueNext /\ UNCHANGED sessVars
  /\ UNCHANGED part
\* In the behaviours of the one, no fair action of the other is ever enabled.
MCSpec == MCInit /\ [][MCNext]_all /\ SessionFairness /\ QueueFairness
=============================================================================
