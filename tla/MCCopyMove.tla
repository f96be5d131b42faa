------------------------------- MODULE MCCopyMove -------------------------------
(* CopyMove with two names, to a depth of three, and two files. *)
EXTENDS CopyMove, TLC

CONSTANTS x, y, f, g

MCNames == {x, y}
MCFiles == {f, g}
MCSymmetry == Permutations(MCNames) \cup Permutations(MCFiles)
================================================================================
