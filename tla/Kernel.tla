-------------------------------- MODULE Kernel --------------------------------
(***************************************************************************)
(* Processes of the teaching kernel, lab3: the process table of kvm.c, and *)
(* the timer and system call handlers of irqHandle.c.                      *)
(*                                                                         *)
(* Every gate of the IDT is an interrupt gate, so a handler runs with      *)
(* interrupts off; only fork enables them, while it copies the parent's    *)
(* memory.  sleep, exit and each copied byte execute int $0x20, which runs *)
(* the timer handler inside the system call, on the same kernel stack.     *)
(*                                                                         *)
(* A process in user mode has no trap frame on its kernel stack, one in a  *)
(* system call has one, one interrupted there has two.  A stack pointer    *)
(* into the kernel stack is the number of frames above it; 0 is            *)
(* &pcb[p].stackTop, where the processor pushes the first one.             *)
(***************************************************************************)
EXTENDS Integers

CONSTANTS
  MAX_PCB_NUM,
  MAX_TIME_COUNT,
  SleepTimes,   \* bound: the arguments of sleep
  CopySize      \* bound: the bytes fork copies, 0x100000 in the code

ASSUME SizeAssumption == MAX_PCB_NUM \in Nat \ {0, 1}
ASSUME TimeAssumption == MAX_TIME_COUNT \in Nat \ {0}
ASSUME ArgumentAssumption == SleepTimes \subseteq Nat \ {0} /\ CopySize \in Nat

Proc == 0 .. MAX_PCB_NUM - 1
User == Proc \ {0}

VARIABLES
  pcb,      \* state, timeCount, sleepTime, stackTop and prevStackTop of each slot
  current,
  esp0,     \* the process tss.esp0 points into, -1 while it is not set
  frames,   \* the trap frames on each kernel stack
  saved,    \* tmpStackTop of the system call each process is in
  call      \* what each process does in the kernel, and fork's slot and bytes to copy

vars == <<pcb, current, esp0, frames, saved, call>>

InUserMode == [at |-> "user", slot |-> 0, left |-> 0]

Returning == [at |-> "return", slot |-> 0, left |-> 0]

\* initProc: the kernel's own process, which then idles, and the user program in slot 1.
Init ==
  /\ pcb = [p \in Proc |->
       [state |-> IF p = 0 THEN "RUNNING" ELSE IF p = 1 THEN "RUNNABLE" ELSE "DEAD",
        timeCount |-> IF p = 0 THEN MAX_TIME_COUNT ELSE 0, sleepTime |-> 0,
        stackTop |-> IF p = 1 THEN 1 ELSE 0, prevStackTop |-> 0]]
  /\ current = 0
  /\ esp0 = -1
  /\ frames = [p \in Proc |-> IF p = 1 THEN 1 ELSE 0]
  /\ saved = [p \in Proc |-> 0]
  /\ call = [p \in Proc |-> InUserMode]

-----------------------------------------------------------------------------
(* The timer interrupt. *)

\* Each sleeper's time goes down by one; at zero it wakes.
Awakened(t) ==
  [p \in Proc |-> IF t[p].state = "BLOCKED"
                  THEN [t[p] EXCEPT !.sleepTime = @ - 1,
                                    !.state = IF t[p].sleepTime = 1 THEN "RUNNABLE" ELSE @]
                  ELSE t[p]]

\* Mutant of KeepsRunning: the slice is one tick longer.
KeepsRunningOnceMore(r) == r.timeCount <= MAX_TIME_COUNT /\ r.state = "RUNNING"

KeepsRunning(r) == r.timeCount < MAX_TIME_COUNT /\ r.state = "RUNNING"

Candidates(t) == {q \in User \ {current} : t[q].state = "RUNNABLE"}

\* Mutant of NextProcess: the search starts at slot 1.
LowestProcess(t) ==
  IF Candidates(t) = {} THEN current
  ELSE CHOOSE q \in Candidates(t) : \A r \in Candidates(t) : q <= r

\* The first runnable process met from current + 1 on; the idle process never is.
NextProcess(t) ==
  IF Candidates(t) = {} THEN current
  ELSE CHOOSE q \in Candidates(t) :
         \A r \in Candidates(t) : (q - current) % MAX_PCB_NUM <= (r - current) % MAX_PCB_NUM

\* Mutant of Preempted: only a process that was running goes back to the runnable ones.
PreemptedIfRunning(r, sf) ==
  [r EXCEPT !.timeCount = 0, !.state = IF @ = "RUNNING" THEN "RUNNABLE" ELSE @,
            !.prevStackTop = r.stackTop, !.stackTop = sf]

\* Mutant of Preempted: the process that gives way is still marked running.
PreemptedStaysRunning(r, sf) ==
  [r EXCEPT !.timeCount = 0, !.prevStackTop = r.stackTop, !.stackTop = sf]

\* The current process gives way, whatever its state, its trap frame at sf.
Preempted(r, sf) ==
  [r EXCEPT !.timeCount = 0, !.state = "RUNNABLE", !.prevStackTop = r.stackTop, !.stackTop = sf]

\* Mutant of Resumed: its kernel stack pointer stays where its frame was.
ResumedOnFrame(r) == [r EXCEPT !.state = "RUNNING"]

\* switch_process: the process goes on from its saved frame.
Resumed(r) == [r EXCEPT !.state = "RUNNING", !.stackTop = r.prevStackTop]

GivesWay(t, sf) == [t EXCEPT ![current] = Preempted(t[current], sf)]

\* switch_process to next, from a table t in which the current process has given way.
SwitchProcess(t, sf, next) ==
  /\ current' = next
  /\ esp0' = next
  /\ pcb' = [t EXCEPT ![next] = Resumed(t[next])]
  /\ frames' = [frames EXCEPT ![current] = sf, ![next] = t[next].stackTop - 1]

SliceGoesOn(t, fr) ==
  /\ pcb' = [t EXCEPT ![current].timeCount = @ + 1, ![current].prevStackTop = t[current].stackTop]
  /\ frames' = [frames EXCEPT ![current] = fr]
  /\ UNCHANGED <<current, esp0>>

\* irqHandle and timerHandle for int 0x20 or the timer, from a table t and fr frames on the
\* current process's kernel stack.
TimerInterrupt(t, fr) ==
  IF KeepsRunning(Awakened(t)[current])
  THEN SliceGoesOn(Awakened(t), fr)
  ELSE SwitchProcess(GivesWay(Awakened(t), fr + 1), fr + 1,
                     NextProcess(GivesWay(Awakened(t), fr + 1)))

\* The hardware timer: interrupts are on in user mode and while fork copies.
Tick ==
  /\ call[current].at # "return"
  /\ TimerInterrupt(pcb, frames[current])
  /\ UNCHANGED <<saved, call>>

-----------------------------------------------------------------------------
(* System calls.  irqHandle saves stackTop and puts it back when the handler returns. *)

CanCall == current # 0 /\ call[current].at = "user"

\* The table once irqHandle has stored the frame of int 0x80.
Entered == [pcb EXCEPT ![current].prevStackTop = pcb[current].stackTop, ![current].stackTop = 1]

Unused == {q \in Proc : pcb[q].state = "DEAD"}

\* fork with no free slot returns -1 at once.
ForkFails ==
  /\ CanCall
  /\ Unused = {}
  /\ pcb' = [pcb EXCEPT ![current].prevStackTop = pcb[current].stackTop]
  /\ UNCHANGED <<current, esp0, frames, saved, call>>

\* fork picks the first free slot, which stays marked free, and enables interrupts.
Fork ==
  /\ CanCall
  /\ \E q \in Unused :
       /\ \A r \in Unused : q <= r
       /\ call' = [call EXCEPT ![current] = [at |-> "copy", slot |-> q, left |-> CopySize]]
  /\ pcb' = Entered
  /\ saved' = [saved EXCEPT ![current] = pcb[current].stackTop]
  /\ frames' = [frames EXCEPT ![current] = 1]
  /\ UNCHANGED <<current, esp0>>

\* One byte, and int $0x20.
CopyByte ==
  /\ call[current].at = "copy" /\ call[current].left > 0
  /\ call' = [call EXCEPT ![current].left = @ - 1]
  /\ TimerInterrupt(pcb, frames[current])
  /\ UNCHANGED saved

\* What fork makes of the child's slot: a process about to return 0 from fork.
Child ==
  [state |-> "RUNNABLE", timeCount |-> 0, sleepTime |-> 0, stackTop |-> 1, prevStackTop |-> 0]

\* Interrupts are off again; the child is filled in and the parent returns its number.
ForkEnds ==
  /\ call[current].at = "copy" /\ call[current].left = 0
  /\ LET q == call[current].slot
     IN /\ pcb' = [pcb EXCEPT ![q] = Child, ![current].stackTop = saved[current]]
        /\ frames' = [frames EXCEPT ![q] = 1, ![current] = 0]
        /\ call' = [call EXCEPT ![q] = InUserMode, ![current] = InUserMode]
  /\ UNCHANGED <<current, esp0, saved>>

\* sleep(time), which asserts time > 0.
Sleep(time) ==
  /\ CanCall
  /\ saved' = [saved EXCEPT ![current] = pcb[current].stackTop]
  /\ call' = [call EXCEPT ![current] = Returning]
  /\ TimerInterrupt([Entered EXCEPT ![current].sleepTime = time, ![current].state = "BLOCKED"], 1)

Exit ==
  /\ CanCall
  /\ saved' = [saved EXCEPT ![current] = pcb[current].stackTop]
  /\ call' = [call EXCEPT ![current] = Returning]
  /\ TimerInterrupt([Entered EXCEPT ![current].state = "DEAD"], 1)

\* The process runs again after sleep's or exit's int $0x20, and returns to user mode.
Return ==
  /\ call[current].at = "return"
  /\ pcb' = [pcb EXCEPT ![current].stackTop = saved[current]]
  /\ frames' = [frames EXCEPT ![current] = 0]
  /\ call' = [call EXCEPT ![current] = InUserMode]
  /\ UNCHANGED <<current, esp0, saved>>

-----------------------------------------------------------------------------
SystemCall == ForkFails \/ Fork \/ (\E time \in SleepTimes : Sleep(time)) \/ Exit

Handler == CopyByte \/ ForkEnds \/ Return

Next == Tick \/ SystemCall \/ Handler

Spec == Init /\ [][Next]_vars

\* The timer keeps interrupting, its request pending while interrupts are off, and a
\* process in the kernel goes on when it has the processor.
FairSpec == Spec /\ WF_vars(Tick) /\ WF_vars(Handler)
-----------------------------------------------------------------------------
(* Properties. *)

TypeOK ==
  /\ pcb \in [Proc -> [state : {"RUNNABLE", "RUNNING", "BLOCKED", "DEAD"},
                       timeCount : 0 .. MAX_TIME_COUNT, sleepTime : Nat,
                       stackTop : 0 .. 2, prevStackTop : 0 .. 2]]
  /\ current \in Proc
  /\ esp0 \in Proc \cup {-1}
  /\ frames \in [Proc -> 0 .. 2]
  /\ saved \in [Proc -> 0 .. 2]
  /\ call \in [Proc -> [at : {"user", "copy", "return"}, slot : Proc, left : 0 .. CopySize]]

\* The process that has the processor, and no other, is marked running.
OneRunning == \A p \in Proc : pcb[p].state = "RUNNING" <=> p = current

\* The kernel stacks survive every nesting of system call, timer interrupt and switch: a
\* process that was switched away from will be resumed from its topmost frame, and one in
\* user mode has an empty kernel stack, which tss.esp0 points to when it next traps.
Suspended(p) == p # current /\ pcb[p].state # "DEAD"
KernelStacks ==
  /\ \A p \in Proc : Suspended(p) => /\ pcb[p].stackTop = frames[p]
                                     /\ pcb[p].prevStackTop = frames[p] - 1
  /\ \A p \in Proc : frames[p] = (IF call[p].at = "user" THEN 0 ELSE 1)
                                   + (IF Suspended(p) THEN 1 ELSE 0)
  /\ pcb[current].stackTop = frames[current]
  /\ current # 0 => esp0 = current

\* No process leaves the rotation: a slot once in use is runnable or running for good.
\* sleep and exit do no more than give up the rest of the time slice, because the timer
\* handler marks whatever process it preempts runnable.
NeverLeaves ==
  [][\A p \in Proc : pcb[p].state # "DEAD" =>
       pcb'[p].state \in {"RUNNABLE", "RUNNING"}]_vars

\* A process waiting for the processor gets it.
EveryoneRuns == \A p \in User : pcb[p].state = "RUNNABLE" ~> current = p

\* fork fails when no slot is free: the slot it fills is still free.
ForkSlotFree == \A p \in Proc : call[p].at = "copy" => pcb[call[p].slot].state = "DEAD"
=============================================================================
