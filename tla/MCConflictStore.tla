-------------------------- MODULE MCConflictStore --------------------------
(***************************************************************************)
(* Instances of ConflictStore for TLC.  The clients of R1 are              *)
(* interchangeable, and so are the keys.                                   *)
(***************************************************************************)
EXTENDS ConflictStore, TLC

CONSTANTS a, b, c, R1, R2, x, y

HomeOf == [p \in Client |-> IF p = c THEN R2 ELSE R1]

Symmetry == Permutations({a, b}) \cup Permutations(Key)
=============================================================================
