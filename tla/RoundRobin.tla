----------------------------- MODULE RoundRobin -----------------------------
(***************************************************************************)
(* What the scheduler of sched/task.c promises, without lists, stacks or   *)
(* registers: a queue of tasks whose head is running.  A switch sends the  *)
(* head to the back; a new task is put right behind the head, so it is the *)
(* next one to run.  A fault in any program stops the machine.             *)
(* Task ids are handed out in order; task 0 is idle.                       *)
(***************************************************************************)
EXTENDS Naturals, Sequences

VARIABLES queue, stopped

vars == <<queue, stopped>>

Init == queue = <<0>> /\ stopped = FALSE

(* task_yield with more than one task: the head goes to the back.          *)
Rotate ==
    /\ ~stopped
    /\ Len(queue) > 1
    /\ queue' = Append(Tail(queue), Head(queue))
    /\ UNCHANGED stopped

(* A creation inserts the task after the running one.                      *)
Spawn ==
    /\ ~stopped
    /\ queue' = <<Head(queue), Len(queue)>> \o Tail(queue)
    /\ UNCHANGED stopped

Stop == ~stopped /\ stopped' = TRUE /\ UNCHANGED queue

Next == Rotate \/ Spawn \/ Stop

(* The timer never stops asking for a switch.                              *)
Spec == Init /\ [][Next]_vars /\ WF_vars(Rotate)
=============================================================================
