---------------------------- MODULE RequestWindow ----------------------------
(***************************************************************************)
(* What the pipeline of one connection promises: a window of requests.  One *)
(* more is asked only while there is room, an answer frees the slot of its  *)
(* own request and of no other, the slot of a lost request is never freed,  *)
(* and when the connection is over there is room for nothing any more.      *)
(***************************************************************************)
EXTENDS Naturals, FiniteSets

CONSTANT Blocks

VARIABLES
  asked,   \* blocks that have a slot
  lost,    \* those of them whose answer will never come
  room,    \* slots there may be at this moment
  over     \* the connection has ended

vars == <<asked, lost, room, over>>

Init == asked = {} /\ lost = {} /\ room = 0 /\ over = FALSE

\* A request on a broken link is lost as it is made.
Ask(b) ==
  /\ b \notin asked /\ Cardinality(asked) < room
  /\ asked' = asked \cup {b}
  /\ lost' \in {lost, lost \cup {b}}
  /\ UNCHANGED <<room, over>>

Answer(b) ==
  /\ ~over /\ b \in asked \ lost
  /\ asked' = asked \ {b}
  /\ UNCHANGED <<lost, room, over>>

Lose ==
  /\ lost \subseteq lost' /\ lost' \subseteq asked
  /\ UNCHANGED <<asked, room, over>>

Resize ==
  /\ ~over /\ room' \in Nat
  /\ UNCHANGED <<asked, lost, over>>

End ==
  /\ ~over /\ over' = TRUE /\ room' = 0
  /\ UNCHANGED <<asked, lost>>

Next == (\E b \in Blocks : Ask(b) \/ Answer(b)) \/ Lose \/ Resize \/ End

Spec == Init /\ [][Next]_vars
=============================================================================
