---- MODULE MCRowLocks ----
(***************************************************************************)
(* Sessions for the instances of RowLocks.                                 *)
(***************************************************************************)
EXTENDS RowLocks

CONSTANTS c1, c2
====
