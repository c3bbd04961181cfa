----------------------------- MODULE MCEnsureDir -----------------------------
(* TLC instance of EnsureDir: two calls for one directory, a third for its *)
(* sibling, whose parents are all missing at first, or there in any form.  *)
EXTENDS EnsureDir, TLC

CONSTANTS c1, c2, c3, top, left, right

SharedPath == c1 :> <<top, left>> @@ c2 :> <<top, left>> @@ c3 :> <<top, right>>

\* Calls with the same path only occur in equality tests.
PairSymmetry == Permutations({c1, c2})
=============================================================================
