-------------------------- MODULE MCPieceSelection --------------------------
(***************************************************************************)
(* PieceSelection on small instances.                                       *)
(***************************************************************************)
EXTENDS PieceSelection, TLC

SeedOrHalf == {Pieces, {0}}
FlatPriority == [p \in Pieces |-> 0]
\* So small that the counters of two peers can outweigh it.
FirstPreferred == [p \in Pieces |-> IF p = 0 THEN 1 ELSE 0]
TwoFiles == [p \in Pieces |-> IF p = 0 THEN 1 ELSE 0]
Symmetry == Permutations(Peers)
=============================================================================
