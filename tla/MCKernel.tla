------------------------------- MODULE MCKernel -------------------------------
(***************************************************************************)
(* Kernel for TLC, with how long each process has waited.                  *)
(***************************************************************************)
EXTENDS Kernel

VARIABLE waited  \* the timer interrupts since each runnable process last ran

\* A full time slice of each other user process; waited counts no further.
TooLong == (MAX_PCB_NUM - 2) * (MAX_TIME_COUNT + 1)

TimerRan == current' # current \/ pcb'[current].timeCount # pcb[current].timeCount

MCInit == Init /\ waited = [p \in User |-> 0]

MCNext ==
  /\ Next
  /\ waited' = [p \in User |->
       IF pcb[p].state # "RUNNABLE" \/ pcb'[p].state # "RUNNABLE" THEN 0
       ELSE IF TimerRan /\ waited[p] < TooLong THEN waited[p] + 1 ELSE waited[p]]

MCSpec ==
  MCInit /\ [][MCNext]_<<vars, waited>> /\ WF_vars(Tick) /\ WF_vars(Handler)

\* Round robin: a runnable user process waits for less than one full time slice of each of
\* the others, whether they use their slice up or sleep, exit or fork in it.
WaitBounded == \A p \in User : waited[p] < TooLong
=============================================================================
