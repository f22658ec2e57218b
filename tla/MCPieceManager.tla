--------------------------- MODULE MCPieceManager ---------------------------
(***************************************************************************)
(* PieceManager on small instances.                                         *)
(***************************************************************************)
EXTENDS PieceManager, TLC

OnlySeeds == {Pieces}
Symmetry == Permutations(Pieces) \cup Permutations(Peers) \cup Permutations(Tasks)
=============================================================================
