------------------------------- MODULE MCSched -------------------------------
(* Model checking of Sched on small numbers of programs.                     *)
EXTENDS Sched
=============================================================================
