--------------------------- MODULE MCHarnessTools ---------------------------
(* HarnessTools on a small instance.                                       *)
EXTENDS HarnessTools, TLC
CONSTANTS c1, c2, k1, k2
MCCalls1 == {c1}
MCCalls2 == {c1, c2}
MCKeys1  == {k1}
CallSymmetry == Permutations({c1, c2})
=============================================================================
