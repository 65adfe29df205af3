--------------------------- MODULE WorkerPromise ---------------------------
(***************************************************************************)
(* What the commander may expect of a worker: a task is announced when it  *)
(* is taken and reported once, finished or failed, before the next one is  *)
(* taken; and it is reported.  TaskGraph and Collaboration see no more of  *)
(* their workers than this.                                                *)
(***************************************************************************)
EXTENDS Naturals, Sequences

CONSTANT Task

VARIABLES taken, told   \* the tasks announced and reported, in order

Take(t) ==
  /\ taken = told
  /\ taken' = Append(taken, t)
  /\ UNCHANGED told

Tell ==
  /\ told # taken
  /\ told' = taken
  /\ UNCHANGED taken

Init == taken = <<>> /\ told = <<>>

Next == Tell \/ \E t \in Task : Take(t)

Spec == Init /\ [][Next]_<<taken, told>>

\* No task stays unreported.
Reports == []<>(told = taken)
=============================================================================
