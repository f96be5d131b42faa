-------------------------------- MODULE MCLocks --------------------------------
(* LockCommands on one collection with a member and one file outside it. *)
EXTENDS LockCommands, TLC

CONSTANTS coll, inner, outer, t1, t2, c1, c2, c3

MCFiles == {inner, outer}
MCColls == {coll}
MCWithin == [f \in MCFiles |-> IF f = inner THEN coll ELSE NONE]
MCTokens == {t1, t2}
MCCells == {c1, c2, c3}
MCSymmetry == Permutations(MCTokens) \cup Permutations(MCCells)
================================================================================
