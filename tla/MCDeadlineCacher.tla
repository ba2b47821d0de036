-------------------------- MODULE MCDeadlineCacher --------------------------
(***************************************************************************)
(* Values for the constants of DeadlineCacher.                             *)
(***************************************************************************)
EXTENDS DeadlineCacherRefines

CONSTANTS r1, r2, r3, r4, k1, k2

Calls3    == {r1, r2, r3}
Calls4    == {r1, r2, r3, r4}
OneKey    == {k1}
TwoKeys   == {k1, k2}

Symmetry3 == Permutations(Calls3)
Symmetry4 == Permutations(Calls4) \union Permutations(TwoKeys)
=============================================================================
