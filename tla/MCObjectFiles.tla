---- MODULE MCObjectFiles ----
(***************************************************************************)
(* Values for the instances of ObjectFiles.                                *)
(***************************************************************************)
EXTENDS ObjectFiles, TLC

CONSTANTS d1, d2, f1, f2, f3, f4, p1, p2, p3

MCSymmetry == Permutations(Digests) \cup Permutations(Files) \cup Permutations(Callers)
====
