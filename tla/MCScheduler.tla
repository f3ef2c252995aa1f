----------------------------- MODULE MCScheduler ----------------------------
(***************************************************************************)
(* Small instances of Scheduler for TLC.                                   *)
(***************************************************************************)
EXTENDS Scheduler

CONSTANTS n1, n2, s1, s2

\* n1 is due from the start, n2 after one tick.
OneThenOther == [n \in Notification |-> IF n = n1 THEN 0 ELSE 1]
=============================================================================
