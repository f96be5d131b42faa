------------------------------- MODULE MCSession -------------------------------
(* CadaverSession on two paths and four heap blocks. *)
EXTENDS CadaverSession, TLC

CONSTANTS p1, p2, b1, b2, b3, b4

MCPaths == {p1, p2}
MCBlocks == {b1, b2, b3, b4}
BlockSymmetry == Permutations(MCBlocks)
================================================================================
