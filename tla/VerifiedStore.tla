---------------------------- MODULE VerifiedStore ---------------------------
(***************************************************************************)
(* What the piece manager promises the rest of the client: a set of pieces  *)
(* it vouches for.  A piece is vouched for only after all of its authentic  *)
(* data was obtained, or on the word of the last record when the client is  *)
(* resumed, and then only if all of its data is there; nothing else takes a *)
(* piece back while the process lives; and the end of the download is       *)
(* announced when the last piece is vouched for, and not taken back.        *)
(***************************************************************************)
CONSTANT Pieces

VARIABLES
  data,      \* what is in memory of each piece: not all, all and right, all and wrong
  vouched,   \* pieces announced to peers and served to them
  finished,  \* the end of the download was announced
  saved      \* pieces vouched for by the last record

vars == <<data, vouched, finished, saved>>

Init ==
  /\ data = [p \in Pieces |-> "none"]
  /\ vouched = {} /\ finished = FALSE /\ saved = {}

Obtain(p) ==
  /\ data[p] = "none"
  /\ \E d \in {"good", "bad"} : data' = [data EXCEPT ![p] = d]
  /\ UNCHANGED <<vouched, finished, saved>>

Vouch(p) ==
  /\ data[p] = "good"
  /\ vouched' = vouched \cup {p}
  /\ finished' = (finished \/ vouched' = Pieces)
  /\ UNCHANGED <<data, saved>>

Record == saved' = vouched /\ UNCHANGED <<data, vouched, finished>>

\* A piece of the record whose data is not all there is not vouched for; others
\* may be dropped too (a late request marks a verified piece DOWNLOADING).
Resume ==
  /\ vouched' \in SUBSET {p \in saved : data[p] # "none"}
  /\ UNCHANGED <<data, finished, saved>>

\* The process dies: what it held in memory is gone.
Forget ==
  /\ data' = [p \in Pieces |-> "none"]
  /\ vouched' = {} /\ finished' = FALSE
  /\ UNCHANGED saved

Next == Record \/ Resume \/ Forget \/ \E p \in Pieces : Obtain(p) \/ Vouch(p)

Spec == Init /\ [][Next]_vars
=============================================================================
