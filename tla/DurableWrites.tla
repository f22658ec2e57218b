---------------------------- MODULE DurableWrites ----------------------------
(***************************************************************************)
(* What the write path promises the callers of write_block: a write is      *)
(* confirmed only when its data is on disk or the kernel has left it out    *)
(* without an error, a confirmed one stays as it is, a future is set once,  *)
(* and nothing is written that nobody asked for.  A write that is not       *)
(* confirmed may be on disk or not.                                         *)
(***************************************************************************)
CONSTANT Writes

VARIABLES
  future,   \* [Writes -> what its future holds]
  durable,  \* writes whose data is on disk
  leftOut   \* writes a short os.write left out

vars == <<future, durable, leftOut>>

Init == future = [w \in Writes |-> "unasked"] /\ durable = {} /\ leftOut = {}

Ask(w) ==
  /\ future[w] = "unasked"
  /\ future' = [future EXCEPT ![w] = "pending"]
  /\ UNCHANGED <<durable, leftOut>>

Set(ws, result) ==
  /\ \A w \in ws : future[w] = "pending"
  /\ future' = [w \in Writes |-> IF w \in ws THEN result ELSE future[w]]
  /\ UNCHANGED <<durable, leftOut>>
Confirm(ws) == ws \subseteq durable \cup leftOut /\ Set(ws, "ok")
Cancel(ws) == Set(ws, "cancelled")

\* The data of writes asked for reaches the disk or is left out, or is emptied or
\* written over; what is confirmed and on disk stays.
Disturb ==
  /\ durable' \cup leftOut' \subseteq {w \in Writes : future[w] # "unasked"}
  /\ {w \in durable : future[w] = "ok"} \subseteq durable'
  /\ leftOut \subseteq leftOut'
  /\ UNCHANGED future

Next ==
  \/ \E w \in Writes : Ask(w)
  \/ \E ws \in SUBSET Writes : Confirm(ws) \/ Cancel(ws)
  \/ Disturb

Spec == Init /\ [][Next]_vars
=============================================================================
