------------------------------ MODULE MCTransfers ------------------------------
(* Transfers with two file names. *)
EXTENDS Transfers, TLC

CONSTANTS a, b

MCNames == {a, b}
MCSymmetry == Permutations(MCNames)
================================================================================
