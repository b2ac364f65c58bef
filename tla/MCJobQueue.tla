---- MODULE MCJobQueue ----
(***************************************************************************)
(* Values for the instances of JobQueue.                                   *)
(***************************************************************************)
EXTENDS JobQueue

CONSTANTS w1, w2

\* Job 2 is too slow for a lease of four ticks; the others take one or two.  With the
\* poisoned job 1 it asks for seven of the eight ticks two slots have in a lease.
MCDuration == [j \in Jobs |-> CASE j = 2 -> 5 [] j = 3 -> 2 [] OTHER -> 1]
====
