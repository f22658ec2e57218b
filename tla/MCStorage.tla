------------------------------ MODULE MCStorage ------------------------------
(* Three writes to two files, and the checkpoint files of one torrent.  They   *)
(* share no variable: each behaviour is one of one of them.                    *)
EXTENDS DiskIO, CheckpointFiles, TLC

CONSTANTS w1, w2, w3, f1, f2
VARIABLE part

\* The later block of f1 may be asked for first; the write to f2 goes first.
FileOfWrite == (w1 :> f1) @@ (w2 :> f1) @@ (w3 :> f2)
PlaceOfWrite == (w1 :> 0) @@ (w2 :> 1) @@ (w3 :> 0)
PriorityOfWrite == (w1 :> 0) @@ (w2 :> 0) @@ (w3 :> 50)
all == <<diskVars, ckptVars, part>>

MCInit ==
  /\ part \in {"disk", "checkpoint"} /\ DiskInit /\ CkptInit
  /\ part = "checkpoint" => exists = {}
MCNext ==
  /\ \/ part = "disk" /\ DiskNext /\ UNCHANGED ckptVars
     \/ part = "checkpoint" /\ CkptNext /\ UNCHANGED diskVars
  /\ UNCHANGED part
\* In the behaviours of the one, no fair action of the other is ever enabled.
MCSpec == MCInit /\ [][MCNext]_all /\ DiskFairness /\ CkptFairness
=============================================================================
