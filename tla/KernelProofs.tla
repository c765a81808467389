----------------------------- MODULE KernelProofs -----------------------------
(***************************************************************************)
(* Proofs about Kernel, for any number of process slots, length of a time  *)
(* slice, sleeping times and size of the memory fork copies: type          *)
(* correctness, OneRunning, KernelStacks, NeverLeaves, and the WaitBounded *)
(* of MCKernel.                                                            *)
(***************************************************************************)
EXTENDS MCKernel, SharedFacts

-----------------------------------------------------------------------------
(* The scheduler's choice. *)

LEMMA Mod ==
  ASSUME NEW i \in Int, NEW n \in Nat \ {0}
  PROVE  i % n \in Nat
OBVIOUS

\* How far a slot is from another, going up and around.
LEMMA Around ==
  ASSUME NEW n \in Nat \ {0}, NEW p \in 0 .. n - 1, NEW q \in 0 .. n - 1
  PROVE  (q - p) % n = IF q >= p THEN q - p ELSE q - p + n
OBVIOUS

\* The user slots the search passes before it comes to p.
Ahead(p) == IF p > current THEN p - current - 1 ELSE MAX_PCB_NUM - 2 - current + p

\* The timer handler switches to the first runnable user process it comes to, or stays with
\* the current process when there is none.
LEMMA NextProcessFirst ==
  ASSUME NEW t, current \in Proc
  PROVE  \/ Candidates(t) = {} /\ NextProcess(t) = current
         \/ /\ NextProcess(t) \in Candidates(t)
            /\ \A r \in Candidates(t) : Ahead(NextProcess(t)) <= Ahead(r)
<1> DEFINE far(q) == (q - current) % MAX_PCB_NUM
<1>1. CASE Candidates(t) = {}
  BY <1>1 DEF NextProcess
<1>2. CASE Candidates(t) # {}
  <2> DEFINE D == {far(q) : q \in Candidates(t)}
  <2>1. \A q \in Candidates(t) : far(q) \in Nat
    <3>1. \A q \in Candidates(t) : q - current \in Int
      BY SizeAssumption DEF Candidates, User, Proc
    <3>2. QED
      BY <3>1, Mod, SizeAssumption
  <2>2. PICK m \in D : \A n \in D : m <= n
    <3>1. D \in SUBSET Nat /\ D # {}
      BY <1>2, <2>1
    <3> HIDE DEF D
    <3>2. QED
      BY <3>1, LeastNat
  <2>3. \E q \in Candidates(t) : \A r \in Candidates(t) : far(q) <= far(r)
    BY <2>2
  <2>4. NextProcess(t) =
          CHOOSE q \in Candidates(t) : \A r \in Candidates(t) : far(q) <= far(r)
    BY <1>2, Zenon DEF NextProcess
  <2>5. /\ NextProcess(t) \in Candidates(t)
        /\ \A r \in Candidates(t) : far(NextProcess(t)) <= far(r)
    BY <2>3, <2>4, Zenon
  <2>6. \A r \in Candidates(t) :
          far(r) = IF r > current THEN Ahead(r) + 1 ELSE Ahead(r) + 2
    <3> TAKE r \in Candidates(t)
    <3>1. r \in Proc /\ r # current
      BY DEF Candidates, User
    <3>2. far(r) = IF r >= current THEN r - current ELSE r - current + MAX_PCB_NUM
      BY <3>1, Around, SizeAssumption DEF Proc
    <3> HIDE DEF far
    <3>3. QED
      BY <3>1, <3>2, SizeAssumption DEF Ahead, Proc
  <2>7. \A r \in Candidates(t) : r \in User /\ r # current
    BY DEF Candidates
  <2>8. \A r \in Candidates(t) : far(NextProcess(t)) <= far(r) /\ Ahead(r) \in Int
    BY <2>5, <2>7, SizeAssumption DEF Ahead, User, Proc
  <2> DEFINE first == NextProcess(t)
  <2>9. first \in Candidates(t)
    BY <2>5
  <2>10. \A r \in Candidates(t) : far(first) <= far(r)
    BY <2>8
  <2> HIDE DEF far, first
  <2>11. \A r \in Candidates(t) : Ahead(first) <= Ahead(r)
    BY <2>6, <2>7, <2>9, <2>10, SizeAssumption DEF Ahead, User, Proc
  <2>12. QED
    BY <2>9, <2>11 DEF first
<1>3. QED
  BY <1>1, <1>2

-----------------------------------------------------------------------------
(* What the handlers make of a slot of the process table. *)

State == {"RUNNABLE", "RUNNING", "BLOCKED", "DEAD"}

ProcessTable == [state : State, timeCount : 0 .. MAX_TIME_COUNT, sleepTime : Nat,
                 stackTop : 0 .. 2, prevStackTop : 0 .. 2]

LEMMA Fields ==
  ASSUME NEW r \in ProcessTable
  PROVE  /\ r.state \in State /\ r.timeCount \in 0 .. MAX_TIME_COUNT /\ r.sleepTime \in Nat
         /\ r.stackTop \in 0 .. 2 /\ r.prevStackTop \in 0 .. 2
         /\ r = [state |-> r.state, timeCount |-> r.timeCount, sleepTime |-> r.sleepTime,
                 stackTop |-> r.stackTop, prevStackTop |-> r.prevStackTop]
BY DEF ProcessTable

\* The sleeper whose time goes down.
AwakeAs(r, st, time) == [r EXCEPT !.sleepTime = time, !.state = st]

LEMMA AwakeType ==
  ASSUME NEW r \in ProcessTable, NEW st \in State, NEW time \in Nat
  PROVE  /\ AwakeAs(r, st, time) \in ProcessTable
         /\ AwakeAs(r, st, time).stackTop = r.stackTop
         /\ AwakeAs(r, st, time).state = st
BY DEF ProcessTable, AwakeAs

\* The process whose time slice goes on.
LEMMA SliceType ==
  ASSUME NEW r \in ProcessTable, NEW ticks \in 0 .. MAX_TIME_COUNT, NEW top \in 0 .. 2
  PROVE  LET a == [r EXCEPT !.timeCount = ticks, !.prevStackTop = top]
         IN  a \in ProcessTable /\ a.stackTop = r.stackTop /\ a.state = r.state
BY DEF ProcessTable

\* The process that gives way.
LEMMA PreemptedType ==
  ASSUME NEW r \in ProcessTable, NEW sf \in 0 .. 2
  PROVE  /\ Preempted(r, sf) \in ProcessTable
         /\ Preempted(r, sf).state = "RUNNABLE"
         /\ Preempted(r, sf).stackTop = sf
         /\ Preempted(r, sf).prevStackTop = r.stackTop
<1> DEFINE P(ticks, st, top) ==
             [r EXCEPT !.timeCount = ticks, !.state = st, !.prevStackTop = top, !.stackTop = sf]
<1>1. ASSUME NEW ticks \in 0 .. MAX_TIME_COUNT, NEW st \in State, NEW top \in 0 .. 2
      PROVE  /\ P(ticks, st, top) \in ProcessTable /\ P(ticks, st, top).state = st
             /\ P(ticks, st, top).stackTop = sf /\ P(ticks, st, top).prevStackTop = top
  BY DEF ProcessTable
<1>2. 0 \in 0 .. MAX_TIME_COUNT /\ "RUNNABLE" \in State /\ r.stackTop \in 0 .. 2
  BY Fields, TimeAssumption DEF State
<1>3. Preempted(r, sf) = P(0, "RUNNABLE", r.stackTop)
  BY DEF Preempted
<1> HIDE DEF P
<1>4. QED
  BY <1>1, <1>2, <1>3

\* The process that enters or leaves a system call.
Stacked(r, prev, top) == [r EXCEPT !.prevStackTop = prev, !.stackTop = top]

LEMMA StackedType ==
  ASSUME NEW r \in ProcessTable, NEW prev \in 0 .. 2, NEW top \in 0 .. 2
  PROVE  /\ Stacked(r, prev, top) \in ProcessTable
         /\ Stacked(r, prev, top).stackTop = top
         /\ Stacked(r, prev, top).state = r.state
BY DEF ProcessTable, Stacked

-----------------------------------------------------------------------------
(* The inductive invariant. *)

Call == [at : {"user", "copy", "return"}, slot : Proc, left : 0 .. CopySize]

\* A process that sleeps is awake again at the end of its int $0x20.
NoSleeper == \A p \in Proc : pcb[p].state # "BLOCKED"

\* A system call was entered on an empty kernel stack, and no process forks into its own slot.
Calls ==
  \A p \in Proc :
    /\ call[p].at # "user" => saved[p] = 0
    /\ call[p].at = "copy" => call[p].slot # p

IInv == TypeOK /\ OneRunning /\ KernelStacks /\ NoSleeper /\ Calls

\* What a step does to the processes, with the invariant: the action of NeverLeaves.
NoneLeaves ==
  \A p \in Proc : pcb[p].state # "DEAD" => pcb'[p].state \in {"RUNNABLE", "RUNNING"}

-----------------------------------------------------------------------------
(* The timer handler, from a table t and fr frames on the current process's kernel stack.  *)

\* What the handler needs of them: the other processes are suspended or dead, and the
\* current one's stack pointer is at its topmost frame.
Ready(t, fr) ==
  /\ t \in [Proc -> ProcessTable]
  /\ fr \in {0, 1}
  /\ t[current].stackTop = fr
  /\ t[current].state = "BLOCKED" => t[current].sleepTime > 0
  /\ \A p \in Proc \ {current} : t[p].state \in {"RUNNABLE", "DEAD"}
  /\ \A p \in Proc \ {current} : t[p].state = "RUNNABLE" =>
       t[p].stackTop = frames[p] /\ t[p].prevStackTop = frames[p] - 1

\* What it establishes.
Switched(t, fr) ==
  /\ pcb' \in [Proc -> ProcessTable]
  /\ current' \in Proc /\ esp0' \in Proc \cup {-1}
  /\ frames' \in [Proc -> 0 .. 2]
  /\ \A p \in Proc : pcb'[p].state =
       IF p = current' THEN "RUNNING" ELSE IF p = current THEN "RUNNABLE" ELSE t[p].state
  /\ \A p \in Proc : p # current' /\ pcb'[p].state # "DEAD" =>
       pcb'[p].stackTop = frames'[p] /\ pcb'[p].prevStackTop = frames'[p] - 1
  /\ pcb'[current'].stackTop = frames'[current']
  /\ current' # 0 => esp0' = current'
  /\ \A p \in Proc \ {current} :
       frames'[p] = IF p = current' THEN frames[p] - 1 ELSE frames[p]
  /\ frames'[current] = IF current = current' THEN fr ELSE fr + 1
  /\ current' # current => t[current'].state = "RUNNABLE"

LEMMA AwakenedFacts ==
  ASSUME NEW t, NEW fr, current \in Proc, Ready(t, fr)
  PROVE  /\ Awakened(t) \in [Proc -> ProcessTable]
         /\ \A p \in Proc \ {current} : Awakened(t)[p] = t[p]
         /\ Awakened(t)[current].stackTop = fr
         /\ t[current].state # "BLOCKED" => Awakened(t)[current] = t[current]
         /\ t[current].state = "BLOCKED" => Awakened(t)[current].state # "RUNNING"
<1> DEFINE w == Awakened(t)
           awake(r) == [r EXCEPT !.sleepTime = @ - 1,
                                 !.state = IF r.sleepTime = 1 THEN "RUNNABLE" ELSE @]
<1>1. \A p \in Proc : w[p] = IF t[p].state = "BLOCKED" THEN awake(t[p]) ELSE t[p]
  BY DEF Awakened
<1>2. w = [p \in Proc |-> w[p]]
  BY DEF Awakened
<1>3. \A r \in ProcessTable : r.state = "BLOCKED" /\ r.sleepTime > 0 =>
        /\ awake(r) \in ProcessTable /\ awake(r).stackTop = r.stackTop
        /\ awake(r).state # "RUNNING"
  <2> TAKE r \in ProcessTable
  <2> HAVE r.state = "BLOCKED" /\ r.sleepTime > 0
  <2> DEFINE st == IF r.sleepTime = 1 THEN "RUNNABLE" ELSE r.state
  <2>1. st \in State /\ st # "RUNNING" /\ r.sleepTime - 1 \in Nat
    BY Fields DEF State
  <2>2. awake(r) = AwakeAs(r, st, r.sleepTime - 1)
    BY DEF AwakeAs
  <2> HIDE DEF awake, st
  <2>3. QED
    BY <2>1, <2>2, AwakeType
<1> HIDE DEF w, awake
<1>4. \A p \in Proc \ {current} : w[p] = t[p]
  BY <1>1 DEF Ready
<1>5. t[current] \in ProcessTable
  BY DEF Ready
<1>6. /\ w[current] \in ProcessTable
      /\ w[current].stackTop = fr
      /\ t[current].state # "BLOCKED" => w[current] = t[current]
      /\ t[current].state = "BLOCKED" => w[current].state # "RUNNING"
  BY <1>1, <1>3, <1>5 DEF Ready
<1>7. w \in [Proc -> ProcessTable]
  BY <1>2, <1>4, <1>6 DEF Ready
<1>8. QED
  BY <1>4, <1>6, <1>7 DEF w

LEMMA TimerFacts ==
  ASSUME NEW t, NEW fr, IInv, Ready(t, fr), TimerInterrupt(t, fr)
  PROVE  Switched(t, fr)
<1> DEFINE w == Awakened(t)
<1>1. /\ current \in Proc /\ esp0 \in Proc \cup {-1}
      /\ frames \in [Proc -> 0 .. 2]
      /\ current # 0 => esp0 = current
  BY DEF IInv, TypeOK, KernelStacks
<1>2. /\ w \in [Proc -> ProcessTable]
      /\ \A p \in Proc \ {current} : w[p] = t[p]
      /\ w[current].stackTop = fr
      /\ t[current].state # "BLOCKED" => w[current] = t[current]
      /\ t[current].state = "BLOCKED" => w[current].state # "RUNNING"
  BY <1>1, AwakenedFacts
<1> HIDE DEF w
<1>3. fr \in {0, 1} /\ t \in [Proc -> ProcessTable]
  BY DEF Ready
<1>5. CASE KeepsRunning(w[current])
  <2> DEFINE r == w[current]
             n == [r EXCEPT !.timeCount = @ + 1, !.prevStackTop = r.stackTop]
  <2>1. SliceGoesOn(w, fr)
    BY <1>5 DEF TimerInterrupt, w
  <2>2. r \in ProcessTable /\ n \in ProcessTable /\ r.state = "RUNNING"
    <3>1. r \in ProcessTable /\ r.state = "RUNNING"
      BY <1>1, <1>2, <1>5 DEF KeepsRunning
    <3>2. r.timeCount + 1 \in 0 .. MAX_TIME_COUNT /\ r.stackTop \in 0 .. 2
      BY <1>5, <3>1, Fields, TimeAssumption DEF KeepsRunning
    <3> HIDE DEF r
    <3>3. QED
      BY <3>1, <3>2, SliceType
  <2>3. n.state = "RUNNING" /\ n.stackTop = fr
    <3>1. r.timeCount + 1 \in 0 .. MAX_TIME_COUNT /\ r.stackTop \in 0 .. 2 /\ r.stackTop = fr
      BY <1>2, <1>5, <2>2, Fields, TimeAssumption DEF KeepsRunning
    <3> HIDE DEF r
    <3>2. QED
      BY <2>2, <3>1, SliceType
  <2>4. pcb' = [w EXCEPT ![current] = n]
    BY <1>1, <1>2, <2>1, <2>2 DEF SliceGoesOn, ProcessTable
  <2>5. current' = current /\ esp0' = esp0 /\ frames' = [frames EXCEPT ![current] = fr]
    BY <2>1 DEF SliceGoesOn
  <2> HIDE DEF n, r
  <2>6. /\ pcb' \in [Proc -> ProcessTable] /\ pcb'[current] = n
        /\ \A p \in Proc \ {current} : pcb'[p] = t[p]
    BY <1>1, <1>2, <2>2, <2>4
  <2>7. t[current].state # "BLOCKED" /\ t[current] = r
    BY <1>2, <2>2 DEF r
  <2>8. \A p \in Proc : pcb'[p].state =
          IF p = current THEN "RUNNING" ELSE t[p].state
    BY <2>3, <2>6
  <2>9. frames' \in [Proc -> 0 .. 2] /\ frames'[current] = fr
        /\ \A p \in Proc \ {current} : frames'[p] = frames[p]
    BY <1>1, <1>3, <2>5
  <2>10. \A p \in Proc \ {current} : pcb'[p].state # "DEAD" =>
           pcb'[p].stackTop = frames'[p] /\ pcb'[p].prevStackTop = frames'[p] - 1
    BY <2>6, <2>9 DEF Ready
  <2>11. QED
    BY <1>1, <2>3, <2>5, <2>6, <2>8, <2>9, <2>10 DEF Switched
<1>6. CASE ~KeepsRunning(w[current])
  <2> DEFINE g == GivesWay(w, fr + 1)
             next == NextProcess(g)
             r == Preempted(w[current], fr + 1)
             s == Resumed(g[next])
  <2>1. SwitchProcess(g, fr + 1, next)
    BY <1>6 DEF TimerInterrupt, w
  <2>2. /\ r \in ProcessTable /\ r.state = "RUNNABLE"
        /\ r.stackTop = fr + 1 /\ r.prevStackTop = fr
    <3>1. w[current] \in ProcessTable /\ w[current].stackTop = fr /\ fr + 1 \in 0 .. 2
      BY <1>1, <1>2, <1>3
    <3> HIDE DEF w
    <3>2. QED
      BY <3>1, PreemptedType
  <2>3. g = [w EXCEPT ![current] = r]
    BY DEF GivesWay
  <2>4. next = current \/ next \in Candidates(g)
    BY <1>1, NextProcessFirst
  <2>5. /\ pcb' = [g EXCEPT ![next] = s]
        /\ current' = next /\ esp0' = next
        /\ frames' = [frames EXCEPT ![current] = fr + 1, ![next] = g[next].stackTop - 1]
    BY <2>1 DEF SwitchProcess
  <2> HIDE DEF r, g, next, w
  <2>6. /\ g \in [Proc -> ProcessTable] /\ g[current] = r
        /\ \A p \in Proc \ {current} : g[p] = t[p]
    BY <1>1, <1>2, <2>2, <2>3
  <2>7. next \in Proc /\ g[next].state = "RUNNABLE"
    BY <1>1, <2>2, <2>4, <2>6 DEF Candidates, User
  <2>8. g[next].prevStackTop = g[next].stackTop - 1
    BY <1>3, <2>2, <2>6, <2>7 DEF Ready
  <2>9. g[next] \in ProcessTable
    BY <2>6, <2>7
  <2>10. s \in ProcessTable /\ s.state = "RUNNING" /\ s.stackTop = g[next].stackTop - 1
    BY <2>8, <2>9 DEF Resumed, ProcessTable, State
  <2>11. g[next].stackTop - 1 \in 0 .. 2
    BY <2>8, <2>9 DEF ProcessTable
  <2> HIDE DEF s
  <2>12. /\ pcb' \in [Proc -> ProcessTable] /\ pcb'[next] = s
         /\ \A p \in Proc \ {next} : pcb'[p] = g[p]
    BY <2>5, <2>6, <2>7, <2>10
  <2>13. /\ frames' \in [Proc -> 0 .. 2]
         /\ frames'[next] = g[next].stackTop - 1
         /\ next # current => frames'[current] = fr + 1
         /\ \A p \in Proc \ {current, next} : frames'[p] = frames[p]
    BY <1>1, <1>3, <2>5, <2>7, <2>11
  <2>14. next # current => g[next] = t[next] /\ t[next].stackTop = frames[next]
    BY <2>6, <2>7 DEF Ready
  <2>15. \A p \in Proc : pcb'[p].state =
           IF p = next THEN "RUNNING" ELSE IF p = current THEN "RUNNABLE" ELSE t[p].state
    BY <2>2, <2>6, <2>10, <2>12
  <2>16. \A p \in Proc : p # next /\ pcb'[p].state # "DEAD" =>
           pcb'[p].stackTop = frames'[p] /\ pcb'[p].prevStackTop = frames'[p] - 1
    <3> TAKE p \in Proc
    <3>1. CASE p = next
      BY <3>1
    <3>2. CASE p # next /\ p = current
      BY <1>3, <2>2, <2>6, <2>12, <2>13, <3>2
    <3>3. CASE p # next /\ p # current
      BY <2>6, <2>12, <2>13, <3>3 DEF Ready
    <3>4. QED
      BY <3>1, <3>2, <3>3
  <2>17. /\ \A p \in Proc \ {current} :
              frames'[p] = IF p = next THEN frames[p] - 1 ELSE frames[p]
         /\ frames'[current] = IF current = next THEN fr ELSE fr + 1
    BY <1>1, <1>3, <2>2, <2>6, <2>13, <2>14
  <2>18. QED
    BY <2>5, <2>7, <2>10, <2>12, <2>13, <2>14, <2>15, <2>16, <2>17 DEF Switched
<1>7. QED
  BY <1>5, <1>6

\* What the invariant says of the current process and of the others.
LEMMA InvFacts ==
  ASSUME IInv
  PROVE  /\ current \in Proc /\ current \in Int
         /\ pcb \in [Proc -> ProcessTable] /\ frames \in [Proc -> 0 .. 2]
         /\ pcb[current].state = "RUNNING"
         /\ pcb[current].stackTop = frames[current]
         /\ frames[current] = IF call[current].at = "user" THEN 0 ELSE 1
         /\ \A p \in Proc \ {current} : pcb[p].state \in {"RUNNABLE", "DEAD"}
         /\ \A p \in Proc \ {current} : pcb[p].state = "RUNNABLE" =>
              pcb[p].stackTop = frames[p] /\ pcb[p].prevStackTop = frames[p] - 1
<1>1. current \in Proc /\ pcb \in [Proc -> ProcessTable] /\ frames \in [Proc -> 0 .. 2]
  BY DEF IInv, TypeOK, ProcessTable, State
<1>2. current \in Int
  BY <1>1 DEF Proc
<1>3. \A p \in Proc : pcb[p].state \in State
  BY <1>1, Fields
<1>4. \A p \in Proc \ {current} : pcb[p].state \in {"RUNNABLE", "DEAD"}
  BY <1>3 DEF IInv, OneRunning, NoSleeper, State
<1>5. pcb[current].state = "RUNNING"
  BY <1>1 DEF IInv, OneRunning
<1>6. frames[current] = IF call[current].at = "user" THEN 0 ELSE 1
  BY <1>1 DEF IInv, KernelStacks, Suspended
<1>7. \A p \in Proc \ {current} : pcb[p].state = "RUNNABLE" =>
        pcb[p].stackTop = frames[p] /\ pcb[p].prevStackTop = frames[p] - 1
  BY DEF IInv, KernelStacks, Suspended
<1>8. pcb[current].stackTop = frames[current]
  BY DEF IInv, KernelStacks
<1>9. QED
  BY <1>1, <1>2, <1>4, <1>5, <1>6, <1>7, <1>8

\* The invariant after any handler that ends with the timer handler.
LEMMA SwitchKeepsInvariant ==
  ASSUME NEW t, NEW fr, IInv, Ready(t, fr), Switched(t, fr),
         \A p \in Proc \ {current} : t[p] = pcb[p] /\ call'[p].at = call[p].at,
         fr = IF call'[current].at = "user" THEN 0 ELSE 1,
         saved' \in [Proc -> 0 .. 2],
         call' \in [Proc -> Call],
         Calls'
  PROVE  IInv' /\ NoneLeaves
<1>1. TypeOK'
  BY DEF Switched, TypeOK, ProcessTable, State, Call
<1>2. \A p \in Proc : pcb'[p].state =
        IF p = current' THEN "RUNNING" ELSE IF p = current THEN "RUNNABLE" ELSE pcb[p].state
  BY DEF Switched
<1>3. \A p \in Proc \ {current} : pcb[p].state \in {"RUNNABLE", "DEAD"}
  BY InvFacts
<1>4. OneRunning' /\ NoSleeper'
  BY <1>2, <1>3 DEF OneRunning, NoSleeper
<1>5. ASSUME NEW p \in Proc
      PROVE  frames'[p] = (IF call'[p].at = "user" THEN 0 ELSE 1)
                            + (IF p # current' /\ pcb'[p].state # "DEAD" THEN 1 ELSE 0)
  <2>1. CASE p = current
    <3>1. frames'[p] = IF p = current' THEN fr ELSE fr + 1
      BY <2>1 DEF Switched
    <3>2. p # current' => pcb'[p].state # "DEAD"
      BY <1>2, <2>1
    <3>3. QED
      BY <2>1, <3>1, <3>2
  <2>2. CASE p # current
    <3>1. frames'[p] = IF p = current' THEN frames[p] - 1 ELSE frames[p]
      BY <2>2 DEF Switched
    <3>2. frames[p] = (IF call[p].at = "user" THEN 0 ELSE 1)
                        + (IF pcb[p].state # "DEAD" THEN 1 ELSE 0)
      BY <2>2 DEF IInv, KernelStacks, Suspended
    <3>3. call'[p].at = call[p].at
      BY <2>2
    <3>4. p = current' => pcb[p].state = "RUNNABLE"
      BY <2>2 DEF Switched
    <3>5. p # current' => pcb'[p].state = pcb[p].state
      BY <1>2, <2>2
    <3>6. QED
      BY <3>1, <3>2, <3>3, <3>4, <3>5
  <2>3. QED
    BY <2>1, <2>2
<1>6. KernelStacks'
  BY <1>5 DEF KernelStacks, Suspended, Switched
<1>7. QED
  BY <1>1, <1>2, <1>3, <1>4, <1>6 DEF IInv, NoneLeaves

-----------------------------------------------------------------------------
(* Every step. *)

\* The timer handler outside sleep and exit finds the table as it is.
LEMMA TableReady ==
  ASSUME IInv
  PROVE  Ready(pcb, frames[current])
BY InvFacts DEF Ready

LEMMA TickStep ==
  ASSUME IInv, Tick
  PROVE  IInv' /\ NoneLeaves
<1>1. Ready(pcb, frames[current]) /\ Switched(pcb, frames[current])
  BY TableReady, TimerFacts DEF Tick
<1>2. saved' = saved /\ call' = call
  BY DEF Tick
<1>3. Calls'
  BY <1>2 DEF IInv, Calls
<1>4. saved \in [Proc -> 0 .. 2] /\ call \in [Proc -> Call]
  BY DEF IInv, TypeOK, Call
<1>5. QED
  BY <1>1, <1>2, <1>3, <1>4, InvFacts, SwitchKeepsInvariant

LEMMA CopyByteStep ==
  ASSUME IInv, CopyByte
  PROVE  IInv' /\ NoneLeaves
<1>1. Ready(pcb, frames[current]) /\ Switched(pcb, frames[current])
  BY TableReady, TimerFacts DEF CopyByte
<1>2. saved' = saved /\ call[current].at = "copy" /\ call[current].left > 0
      /\ call' = [call EXCEPT ![current].left = @ - 1]
  BY DEF CopyByte
<1>3. saved \in [Proc -> 0 .. 2] /\ call \in [Proc -> Call] /\ current \in Proc
  BY DEF IInv, TypeOK, Call
<1>4. \A c \in Call, n \in 0 .. CopySize :
        /\ [c EXCEPT !.left = n] \in Call
        /\ [c EXCEPT !.left = n].at = c.at /\ [c EXCEPT !.left = n].slot = c.slot
  BY DEF Call
<1>5. call[current].left - 1 \in 0 .. CopySize /\ call[current] \in Call
  BY <1>2, <1>3, ArgumentAssumption DEF Call
<1> DEFINE d == [call[current] EXCEPT !.left = call[current].left - 1]
<1>6. d \in Call /\ d.at = "copy" /\ d.slot = call[current].slot
  BY <1>2, <1>4, <1>5
<1>7. call' = [call EXCEPT ![current] = d]
  BY <1>2
<1> HIDE DEF d
<1>8. /\ call' \in [Proc -> Call] /\ call'[current].at = "copy"
      /\ \A p \in Proc : call'[p].at = call[p].at /\ call'[p].slot = call[p].slot
  BY <1>2, <1>3, <1>6, <1>7
<1>9. Calls'
  BY <1>2, <1>8 DEF IInv, Calls
<1>10. QED
  BY <1>1, <1>2, <1>3, <1>8, <1>9, InvFacts, SwitchKeepsInvariant

\* A process that enters a system call has one frame on its kernel stack.
LEMMA EnteredFacts ==
  ASSUME IInv, CanCall
  PROVE  /\ Entered \in [Proc -> ProcessTable]
         /\ Entered[current].stackTop = 1 /\ Entered[current].state = "RUNNING"
         /\ \A p \in Proc \ {current} : Entered[p] = pcb[p]
         /\ pcb[current].stackTop = 0 /\ frames[current] = 0
<1>1. pcb[current].stackTop = 0 /\ frames[current] = 0
  BY InvFacts DEF CanCall
<1>2. pcb[current] \in ProcessTable /\ pcb[current].state = "RUNNING"
  BY InvFacts
<1> DEFINE e == Stacked(pcb[current], 0, 1)
<1>3. e \in ProcessTable /\ e.stackTop = 1 /\ e.state = "RUNNING"
  BY <1>2, StackedType
<1>4. Entered = [pcb EXCEPT ![current] = e]
  BY <1>1, InvFacts DEF Entered, Stacked
<1> HIDE DEF e
<1>5. QED
  BY <1>1, <1>3, <1>4, InvFacts

\* The process that sleeps or exits: the timer handler runs with its call about to return.
LEMMA GivingUpStep ==
  ASSUME IInv, CanCall,
         NEW e \in ProcessTable, e.stackTop = 1, e.state = "BLOCKED" => e.sleepTime > 0,
         saved' = [saved EXCEPT ![current] = pcb[current].stackTop],
         call' = [call EXCEPT ![current] = Returning],
         TimerInterrupt([Entered EXCEPT ![current] = e], 1)
  PROVE  IInv' /\ NoneLeaves
<1> DEFINE t == [Entered EXCEPT ![current] = e]
<1>1. /\ t \in [Proc -> ProcessTable] /\ t[current] = e
      /\ \A p \in Proc \ {current} : t[p] = pcb[p]
  BY EnteredFacts, InvFacts
<1>2. TimerInterrupt(t, 1)
  OBVIOUS
<1> HIDE DEF t
<1>3. Ready(t, 1)
  BY <1>1, InvFacts DEF Ready
<1>4. Switched(t, 1)
  BY <1>2, <1>3, TimerFacts
<1>5. saved \in [Proc -> 0 .. 2] /\ call \in [Proc -> Call] /\ current \in Proc
  BY DEF IInv, TypeOK, Call
<1>6. Returning \in Call /\ Returning.at = "return"
  BY SizeAssumption, ArgumentAssumption DEF Returning, Call, Proc
<1>7. /\ call' \in [Proc -> Call] /\ call'[current] = Returning
      /\ \A p \in Proc \ {current} : call'[p] = call[p]
  BY <1>5, <1>6
<1>8. /\ saved' \in [Proc -> 0 .. 2] /\ saved'[current] = 0
      /\ \A p \in Proc \ {current} : saved'[p] = saved[p]
  BY <1>5, EnteredFacts
<1>9. Calls'
  BY <1>6, <1>7, <1>8 DEF IInv, Calls
<1>10. QED
  BY <1>1, <1>3, <1>4, <1>6, <1>7, <1>8, <1>9, SwitchKeepsInvariant

LEMMA SleepStep ==
  ASSUME IInv, NEW time \in SleepTimes, Sleep(time)
  PROVE  IInv' /\ NoneLeaves
<1> DEFINE e == AwakeAs(Entered[current], "BLOCKED", time)
<1>1. CanCall /\ current \in Proc /\ Entered \in [Proc -> ProcessTable]
  BY EnteredFacts, InvFacts DEF Sleep
<1>2. time \in Nat /\ time > 0
  BY ArgumentAssumption
<1>3. e \in ProcessTable /\ e.stackTop = 1 /\ e.sleepTime > 0
  <2>1. Entered[current] \in ProcessTable /\ "BLOCKED" \in State
    BY <1>1 DEF State
  <2>2. e.sleepTime = time
    BY <2>1 DEF AwakeAs, ProcessTable
  <2> HIDE DEF e
  <2>3. e \in ProcessTable /\ e.stackTop = Entered[current].stackTop
    BY <1>2, <2>1, AwakeType DEF e
  <2>4. QED
    BY <1>1, <1>2, <2>2, <2>3, EnteredFacts
<1>4. [Entered EXCEPT ![current].sleepTime = time, ![current].state = "BLOCKED"]
        = [Entered EXCEPT ![current] = e]
  BY <1>1 DEF AwakeAs
<1> HIDE DEF e
<1>5. QED
  BY <1>1, <1>3, <1>4, GivingUpStep DEF Sleep

LEMMA ExitStep ==
  ASSUME IInv, Exit
  PROVE  IInv' /\ NoneLeaves
<1> DEFINE e == [Entered[current] EXCEPT !.state = "DEAD"]
<1>1. CanCall /\ current \in Proc /\ Entered \in [Proc -> ProcessTable]
  BY EnteredFacts, InvFacts DEF Exit
<1>2. e \in ProcessTable /\ e.stackTop = 1 /\ e.state = "DEAD"
  <2>1. Entered[current] \in ProcessTable /\ Entered[current].stackTop = 1
    BY <1>1, EnteredFacts
  <2>2. QED
    BY <2>1 DEF ProcessTable, State
<1>3. [Entered EXCEPT ![current].state = "DEAD"] = [Entered EXCEPT ![current] = e]
  BY <1>1
<1> HIDE DEF e
<1>4. QED
  BY <1>1, <1>2, <1>3, GivingUpStep DEF Exit

\* The steps after which the same process has the processor, and no other process's slot,
\* kernel stack or call has changed, but that of the child in slot q.
LEMMA CurrentGoesOn ==
  ASSUME IInv, NEW r \in ProcessTable, r.state = "RUNNING",
         r.stackTop = IF call'[current].at = "user" THEN 0 ELSE 1,
         pcb' \in [Proc -> ProcessTable], pcb'[current] = r,
         frames' \in [Proc -> 0 .. 2], frames'[current] = r.stackTop,
         saved' \in [Proc -> 0 .. 2], call' \in [Proc -> Call],
         UNCHANGED <<current, esp0>>,
         \A p \in Proc \ {current} :
           \/ pcb'[p] = pcb[p] /\ frames'[p] = frames[p] /\ call'[p].at = call[p].at
           \/ pcb'[p] = Child /\ frames'[p] = 1 /\ call'[p] = InUserMode,
         Calls'
  PROVE  IInv' /\ NoneLeaves
<1>1. TypeOK'
  BY DEF IInv, TypeOK, ProcessTable, State, Call
<1>2. current \in Proc /\ current' = current /\ esp0' = esp0
  BY InvFacts
<1>3. /\ Child.state = "RUNNABLE" /\ Child.stackTop = 1 /\ Child.prevStackTop = 0
      /\ InUserMode.at = "user"
  BY DEF Child, InUserMode
<1>4. OneRunning' /\ NoSleeper'
  BY <1>2, <1>3, InvFacts DEF OneRunning, NoSleeper
<1>5. ASSUME NEW p \in Proc
      PROVE  /\ Suspended(p)' => /\ pcb'[p].stackTop = frames'[p]
                                 /\ pcb'[p].prevStackTop = frames'[p] - 1
             /\ frames'[p] = (IF call'[p].at = "user" THEN 0 ELSE 1)
                               + (IF Suspended(p)' THEN 1 ELSE 0)
  <2>1. CASE p = current
    BY <1>2, <2>1 DEF Suspended
  <2>2. CASE p # current /\ pcb'[p] = pcb[p] /\ frames'[p] = frames[p]
             /\ call'[p].at = call[p].at
    BY <1>2, <2>2 DEF IInv, KernelStacks, Suspended
  <2>3. CASE p # current /\ pcb'[p] = Child /\ frames'[p] = 1 /\ call'[p] = InUserMode
    BY <1>2, <1>3, <2>3 DEF Suspended
  <2>4. QED
    BY <2>1, <2>2, <2>3
<1>6. KernelStacks'
  <2>1. pcb'[current'].stackTop = frames'[current'] /\ (current' # 0 => esp0' = current')
    BY <1>2 DEF IInv, KernelStacks
  <2>2. QED
    BY <1>5, <2>1 DEF KernelStacks
<1>7. NoneLeaves
  BY <1>2, <1>3, InvFacts DEF NoneLeaves
<1>8. QED
  BY <1>1, <1>4, <1>6, <1>7 DEF IInv
LEMMA ForkFailsStep ==
  ASSUME IInv, ForkFails
  PROVE  IInv' /\ NoneLeaves
<1>1. CanCall /\ current \in Proc /\ pcb \in [Proc -> ProcessTable]
  BY InvFacts DEF ForkFails
<1>2. /\ pcb[current] \in ProcessTable /\ pcb[current].state = "RUNNING"
      /\ pcb[current].stackTop = 0 /\ frames[current] = 0 /\ call[current].at = "user"
  BY <1>1, EnteredFacts, InvFacts DEF CanCall
<1>3. UNCHANGED <<current, esp0, frames, saved, call>>
  BY DEF ForkFails
<1> DEFINE r == [pcb[current] EXCEPT !.prevStackTop = 0]
<1>4. r \in ProcessTable /\ r.state = "RUNNING" /\ r.stackTop = 0
  BY <1>2 DEF ProcessTable
<1>5. pcb' = [pcb EXCEPT ![current] = r]
  BY <1>1, <1>2 DEF ForkFails
<1> HIDE DEF r
<1>6. /\ pcb' \in [Proc -> ProcessTable] /\ pcb'[current] = r
      /\ \A p \in Proc \ {current} : pcb'[p] = pcb[p]
  BY <1>1, <1>4, <1>5
<1>7. /\ saved' \in [Proc -> 0 .. 2] /\ call' \in [Proc -> Call]
      /\ frames' \in [Proc -> 0 .. 2] /\ Calls'
  BY <1>3 DEF IInv, TypeOK, Calls, Call
<1>8. QED
  BY <1>2, <1>3, <1>4, <1>6, <1>7, CurrentGoesOn

LEMMA ForkStep ==
  ASSUME IInv, Fork
  PROVE  IInv' /\ NoneLeaves
<1>1. CanCall /\ current \in Proc
  BY InvFacts DEF Fork
<1>2. PICK q \in Unused :
        call' = [call EXCEPT ![current] = [at |-> "copy", slot |-> q, left |-> CopySize]]
  BY DEF Fork
<1>3. q \in Proc /\ q # current
  BY InvFacts DEF Unused
<1> DEFINE c == [at |-> "copy", slot |-> q, left |-> CopySize]
<1>4. c \in Call /\ c.at = "copy" /\ c.slot = q
  BY <1>3, ArgumentAssumption DEF Call
<1>5. call' = [call EXCEPT ![current] = c]
  BY <1>2
<1> HIDE DEF c
<1>6. /\ pcb' = Entered /\ frames' = [frames EXCEPT ![current] = 1]
      /\ saved' = [saved EXCEPT ![current] = pcb[current].stackTop]
      /\ UNCHANGED <<current, esp0>>
  BY DEF Fork
<1>7. frames \in [Proc -> 0 .. 2] /\ saved \in [Proc -> 0 .. 2] /\ call \in [Proc -> Call]
  BY DEF IInv, TypeOK, Call
<1>8. /\ call' \in [Proc -> Call] /\ call'[current] = c
      /\ \A p \in Proc \ {current} : call'[p] = call[p]
  BY <1>1, <1>4, <1>5, <1>7
<1>9. /\ saved' \in [Proc -> 0 .. 2] /\ saved'[current] = 0
      /\ \A p \in Proc \ {current} : saved'[p] = saved[p]
  BY <1>1, <1>6, <1>7, EnteredFacts
<1>10. Calls'
  BY <1>3, <1>4, <1>8, <1>9 DEF IInv, Calls
<1>11. /\ frames' \in [Proc -> 0 .. 2] /\ frames'[current] = 1
       /\ \A p \in Proc \ {current} : frames'[p] = frames[p]
  BY <1>1, <1>6, <1>7
<1>12. /\ pcb' \in [Proc -> ProcessTable]
       /\ pcb'[current] \in ProcessTable
       /\ pcb'[current].stackTop = 1 /\ pcb'[current].state = "RUNNING"
       /\ \A p \in Proc \ {current} : pcb'[p] = pcb[p]
  BY <1>1, <1>6, EnteredFacts
<1>13. QED
  BY <1>4, <1>6, <1>8, <1>9, <1>10, <1>11, <1>12, CurrentGoesOn

\* A system call ends: the current process is back in user mode, on an empty kernel stack.
LEMMA LeavingFacts ==
  ASSUME IInv, call[current].at # "user"
  PROVE  /\ saved[current] = 0
         /\ [pcb[current] EXCEPT !.stackTop = 0] \in ProcessTable
         /\ [pcb[current] EXCEPT !.stackTop = 0].stackTop = 0
         /\ [pcb[current] EXCEPT !.stackTop = 0].state = "RUNNING"
<1>1. saved[current] = 0
  BY InvFacts DEF IInv, Calls
<1>2. pcb[current] \in ProcessTable /\ pcb[current].state = "RUNNING"
  BY InvFacts
<1>3. QED
  BY <1>1, <1>2 DEF ProcessTable

LEMMA ReturnStep ==
  ASSUME IInv, Return
  PROVE  IInv' /\ NoneLeaves
<1> DEFINE r == [pcb[current] EXCEPT !.stackTop = 0]
<1>1. /\ current \in Proc /\ pcb \in [Proc -> ProcessTable]
      /\ frames \in [Proc -> 0 .. 2] /\ saved \in [Proc -> 0 .. 2] /\ call \in [Proc -> Call]
  BY InvFacts DEF IInv, TypeOK, Call
<1>2. r \in ProcessTable /\ r.stackTop = 0 /\ r.state = "RUNNING"
  BY LeavingFacts DEF Return
<1>3. /\ pcb' = [pcb EXCEPT ![current] = r]
      /\ frames' = [frames EXCEPT ![current] = 0]
      /\ call' = [call EXCEPT ![current] = InUserMode]
      /\ UNCHANGED <<current, esp0, saved>>
  BY <1>1, LeavingFacts DEF Return
<1>4. InUserMode \in Call /\ InUserMode.at = "user"
  BY SizeAssumption, ArgumentAssumption DEF InUserMode, Call, Proc
<1> HIDE DEF r
<1>5. /\ pcb' \in [Proc -> ProcessTable] /\ pcb'[current] = r
      /\ frames' \in [Proc -> 0 .. 2] /\ frames'[current] = 0
      /\ call' \in [Proc -> Call] /\ call'[current] = InUserMode
      /\ \A p \in Proc \ {current} :
           pcb'[p] = pcb[p] /\ frames'[p] = frames[p] /\ call'[p] = call[p]
  BY <1>1, <1>2, <1>3, <1>4
<1>6. Calls'
  BY <1>3, <1>4, <1>5 DEF IInv, Calls
<1>7. QED
  BY <1>1, <1>2, <1>3, <1>4, <1>5, <1>6, CurrentGoesOn

LEMMA ForkEndsStep ==
  ASSUME IInv, ForkEnds
  PROVE  IInv' /\ NoneLeaves
<1> DEFINE r == [pcb[current] EXCEPT !.stackTop = 0]
           q == call[current].slot
<1>1. /\ current \in Proc /\ pcb \in [Proc -> ProcessTable]
      /\ frames \in [Proc -> 0 .. 2] /\ saved \in [Proc -> 0 .. 2] /\ call \in [Proc -> Call]
  BY InvFacts DEF IInv, TypeOK, Call
<1>2. r \in ProcessTable /\ r.stackTop = 0 /\ r.state = "RUNNING"
  BY LeavingFacts DEF ForkEnds
<1>3. q \in Proc /\ q # current
  BY <1>1 DEF ForkEnds, IInv, Calls, Call
<1>4. /\ pcb' = [pcb EXCEPT ![q] = Child, ![current] = r]
      /\ frames' = [frames EXCEPT ![q] = 1, ![current] = 0]
      /\ call' = [call EXCEPT ![q] = InUserMode, ![current] = InUserMode]
      /\ UNCHANGED <<current, esp0, saved>>
  BY <1>1, <1>3, LeavingFacts DEF ForkEnds
<1>5. InUserMode \in Call /\ InUserMode.at = "user" /\ Child \in ProcessTable
  BY SizeAssumption, TimeAssumption, ArgumentAssumption
     DEF InUserMode, Call, Proc, Child, ProcessTable, State
<1> HIDE DEF r, q
<1>6. /\ pcb' \in [Proc -> ProcessTable] /\ pcb'[current] = r /\ pcb'[q] = Child
      /\ frames' \in [Proc -> 0 .. 2] /\ frames'[current] = 0 /\ frames'[q] = 1
      /\ call' \in [Proc -> Call] /\ call'[current] = InUserMode /\ call'[q] = InUserMode
      /\ \A p \in Proc \ {current, q} :
           pcb'[p] = pcb[p] /\ frames'[p] = frames[p] /\ call'[p] = call[p]
  BY <1>1, <1>2, <1>3, <1>4, <1>5
<1>7. Calls'
  BY <1>4, <1>5, <1>6 DEF IInv, Calls
<1>8. QED
  BY <1>1, <1>2, <1>4, <1>5, <1>6, <1>7, CurrentGoesOn

-----------------------------------------------------------------------------
(* The theorems. *)

LEMMA InitHolds == Init => IInv
<1> SUFFICES ASSUME Init
             PROVE  IInv
  OBVIOUS
<1>1. 0 \in Proc /\ 1 \in Proc
  BY SizeAssumption DEF Proc
<1>2. \A p \in Proc : pcb[p] =
       [state |-> IF p = 0 THEN "RUNNING" ELSE IF p = 1 THEN "RUNNABLE" ELSE "DEAD",
        timeCount |-> IF p = 0 THEN MAX_TIME_COUNT ELSE 0, sleepTime |-> 0,
        stackTop |-> IF p = 1 THEN 1 ELSE 0, prevStackTop |-> 0]
  BY DEF Init
<1>3. /\ frames = [p \in Proc |-> IF p = 1 THEN 1 ELSE 0]
      /\ saved = [p \in Proc |-> 0] /\ call = [p \in Proc |-> InUserMode]
      /\ current = 0 /\ esp0 = -1
  BY DEF Init
<1>4. InUserMode \in Call /\ InUserMode.at = "user"
  BY <1>1, ArgumentAssumption DEF InUserMode, Call
<1>5. TypeOK
  <2>1. pcb \in [Proc -> ProcessTable]
    BY TimeAssumption DEF Init, ProcessTable, State
  <2>2. QED
    BY <1>1, <1>3, <1>4, <2>1 DEF TypeOK, ProcessTable, State, Call
<1>6. /\ \A p \in Proc : pcb[p].state =
              IF p = 0 THEN "RUNNING" ELSE IF p = 1 THEN "RUNNABLE" ELSE "DEAD"
      /\ pcb[0].stackTop = 0 /\ pcb[1].stackTop = 1 /\ pcb[1].prevStackTop = 0
      /\ frames[0] = 0 /\ frames[1] = 1
      /\ \A p \in Proc \ {1} : frames[p] = 0
      /\ \A p \in Proc : call[p].at = "user"
  <2>1. \A p \in Proc :
          /\ pcb[p].state = IF p = 0 THEN "RUNNING" ELSE IF p = 1 THEN "RUNNABLE" ELSE "DEAD"
          /\ pcb[p].stackTop = IF p = 1 THEN 1 ELSE 0
          /\ pcb[p].prevStackTop = 0
    <3> DEFINE st(p) == IF p = 0 THEN "RUNNING" ELSE IF p = 1 THEN "RUNNABLE" ELSE "DEAD"
               ticks(p) == IF p = 0 THEN MAX_TIME_COUNT ELSE 0
               top(p) == IF p = 1 THEN 1 ELSE 0
    <3> DEFINE slot(p) == [state |-> st(p), timeCount |-> ticks(p), sleepTime |-> 0,
                           stackTop |-> top(p), prevStackTop |-> 0]
    <3>1. \A p \in Proc : pcb[p] = slot(p)
      BY <1>2
    <3> HIDE DEF st, ticks, top
    <3>2. \A p \in Proc :
            slot(p).state = st(p) /\ slot(p).stackTop = top(p) /\ slot(p).prevStackTop = 0
      OBVIOUS
    <3> HIDE DEF slot
    <3>3. \A p \in Proc :
            pcb[p].state = st(p) /\ pcb[p].stackTop = top(p) /\ pcb[p].prevStackTop = 0
      BY <3>1, <3>2
    <3>4. QED
      BY <3>3 DEF st, top
  <2>2. /\ \A p \in Proc : frames[p] = IF p = 1 THEN 1 ELSE 0
        /\ \A p \in Proc : call[p].at = "user"
    BY <1>3, <1>4
  <2>3. QED
    BY <1>1, <2>1, <2>2
<1>7. OneRunning /\ NoSleeper
  BY <1>3, <1>6 DEF OneRunning, NoSleeper
<1>8. KernelStacks
  BY <1>1, <1>3, <1>6 DEF KernelStacks, Suspended
<1>9. Calls
  BY <1>3, <1>4 DEF Calls
<1>10. QED
  BY <1>5, <1>7, <1>8, <1>9 DEF IInv

LEMMA StepHolds == IInv /\ [Next]_vars => IInv' /\ (NoneLeaves \/ UNCHANGED vars)
<1> SUFFICES ASSUME IInv, [Next]_vars
             PROVE  IInv' /\ (NoneLeaves \/ UNCHANGED vars)
  OBVIOUS
<1>1. CASE Tick
  BY <1>1, TickStep
<1>2. CASE ForkFails
  BY <1>2, ForkFailsStep
<1>3. CASE Fork
  BY <1>3, ForkStep
<1>4. ASSUME NEW time \in SleepTimes, Sleep(time)
      PROVE  IInv' /\ NoneLeaves
  BY <1>4, SleepStep
<1>5. CASE Exit
  BY <1>5, ExitStep
<1>6. CASE CopyByte
  BY <1>6, CopyByteStep
<1>7. CASE ForkEnds
  BY <1>7, ForkEndsStep
<1>8. CASE Return
  BY <1>8, ReturnStep
<1>9. CASE UNCHANGED vars
  BY <1>9 DEF vars, IInv, TypeOK, OneRunning, KernelStacks, Suspended, NoSleeper, Calls
<1>10. QED
  BY <1>1, <1>2, <1>3, <1>4, <1>5, <1>6, <1>7, <1>8, <1>9 DEF Next, SystemCall, Handler

LEMMA Invariance == Spec => []IInv
<1>1. IInv /\ [Next]_vars => IInv'
  BY StepHolds
<1>2. QED
  BY InitHolds, <1>1, PTL DEF Spec

\* The process table, the kernel stacks and the calls of kvm.c and irqHandle.c keep their types.
THEOREM TypeCorrect == Spec => []TypeOK
BY Invariance, PTL DEF IInv

\* Whatever the timer interrupts, exactly the process that has the processor is marked running.
THEOREM RunsAlone == Spec => []OneRunning
BY Invariance, PTL DEF IInv

\* Kernel stacks survive every nesting of system call, timer interrupt and process switch.
THEOREM StacksSurvive == Spec => []KernelStacks
BY Invariance, PTL DEF IInv

\* No slot of the process table ever leaves the rotation, through sleep and exit included.
THEOREM StaysInRotation == Spec => NeverLeaves
<1>1. IInv /\ [Next]_vars =>
        [\A p \in Proc : pcb[p].state # "DEAD" =>
           pcb'[p].state \in {"RUNNABLE", "RUNNING"}]_vars
  BY StepHolds DEF NoneLeaves
<1>2. QED
  BY Invariance, <1>1, PTL DEF Spec, NeverLeaves

-----------------------------------------------------------------------------
(* How long a process waits. *)

Slice == MAX_TIME_COUNT + 1

\* The timer interrupts a runnable process may still see before it runs: a whole slice of each
\* process ahead of it, and what is left of the current one's.
StillToWait(p) == Ahead(p) * Slice + (Slice - pcb[current].timeCount)

Waits ==
  \A p \in User :
    IF pcb[p].state = "RUNNABLE"
    THEN waited[p] \in Nat /\ waited[p] + StillToWait(p) <= TooLong
    ELSE waited[p] = 0

\* While the idle process has the processor, nothing has happened since initProc.
AtBoot ==
  current = 0 =>
    /\ pcb[0].timeCount = MAX_TIME_COUNT /\ call[0].at = "user"
    /\ \A p \in User : pcb[p].state = IF p = 1 THEN "RUNNABLE" ELSE "DEAD"

WInv == IInv /\ AtBoot /\ Waits

\* Who waits for the processor.
Waiting == {p \in User \ {current} : pcb[p].state = "RUNNABLE"}

\* What a step does to the rotation: the slice goes on, the first of the waiting processes is
\* resumed, the only runnable process is, or no timer interrupt ran.
OthersStay == \A p \in Proc \ {current, current'} : pcb'[p].state = pcb[p].state

SliceTurn ==
  /\ current' = current
  /\ pcb'[current].timeCount = pcb[current].timeCount + 1

NextTurn == current' \in Waiting /\ \A p \in Waiting : Ahead(current') <= Ahead(p)

AloneTurn == current' = current /\ Waiting = {}

TimerTurn == OthersStay /\ (SliceTurn \/ NextTurn \/ AloneTurn)

SameTurn ==
  /\ current' = current /\ current # 0
  /\ pcb'[current].timeCount = pcb[current].timeCount
  /\ \A p \in Proc \ {current} : pcb'[p].state \in {pcb[p].state, "RUNNABLE"}

\* The timer handler takes one of the first three turns.
LEMMA TimerTurns ==
  ASSUME NEW t, NEW fr, IInv, Ready(t, fr), TimerInterrupt(t, fr),
         \A p \in Proc \ {current} : t[p] = pcb[p],
         t[current].state = "RUNNING" => t[current].timeCount = pcb[current].timeCount
  PROVE  TimerTurn
<1> DEFINE w == Awakened(t)
<1>1. current \in Proc
  BY InvFacts
<1>2. /\ w \in [Proc -> ProcessTable]
      /\ \A p \in Proc \ {current} : w[p] = t[p]
      /\ t[current].state # "BLOCKED" => w[current] = t[current]
      /\ t[current].state = "BLOCKED" => w[current].state # "RUNNING"
  BY <1>1, AwakenedFacts
<1> HIDE DEF w
<1>3. OthersStay
  BY TimerFacts DEF Switched, OthersStay
<1>4. CASE KeepsRunning(w[current])
  <2>1. SliceGoesOn(w, fr)
    BY <1>4 DEF TimerInterrupt, w
  <2>2. w[current] = t[current] /\ t[current].state = "RUNNING"
    BY <1>2, <1>4 DEF KeepsRunning
  <2>3. w[current] \in ProcessTable
    BY <1>1, <1>2
  <2>4. pcb'[current].timeCount = w[current].timeCount + 1
    BY <1>1, <1>2, <2>1, <2>3 DEF SliceGoesOn, ProcessTable
  <2>5. current' = current
    BY <2>1 DEF SliceGoesOn
  <2>6. QED
    BY <1>3, <2>2, <2>4, <2>5 DEF TimerTurn, SliceTurn
<1>5. CASE ~KeepsRunning(w[current])
  <2> DEFINE g == GivesWay(w, fr + 1)
  <2>1. current' = NextProcess(g)
    BY <1>5 DEF TimerInterrupt, SwitchProcess, w
  <2>2. Candidates(g) = Waiting
    <3>1. \A p \in Proc \ {current} : g[p] = pcb[p]
      BY <1>2 DEF GivesWay
    <3> HIDE DEF g
    <3>2. QED
      BY <3>1 DEF Candidates, Waiting, User
  <2> HIDE DEF g
  <2>3. NextTurn \/ AloneTurn
    BY <1>1, <2>1, <2>2, NextProcessFirst DEF NextTurn, AloneTurn
  <2>4. QED
    BY <1>3, <2>3 DEF TimerTurn
<1>6. QED
  BY <1>4, <1>5

LEMMA GivingUpTurn ==
  ASSUME IInv, CanCall,
         NEW e \in ProcessTable, e.stackTop = 1, e.state # "RUNNING",
         e.state = "BLOCKED" => e.sleepTime > 0,
         TimerInterrupt([Entered EXCEPT ![current] = e], 1)
  PROVE  TimerTurn
<1> DEFINE t == [Entered EXCEPT ![current] = e]
<1>1. /\ t \in [Proc -> ProcessTable] /\ t[current] = e
      /\ \A p \in Proc \ {current} : t[p] = pcb[p]
  BY EnteredFacts, InvFacts
<1>2. TimerInterrupt(t, 1)
  OBVIOUS
<1> HIDE DEF t
<1>3. Ready(t, 1)
  BY <1>1, InvFacts DEF Ready
<1>4. QED
  BY <1>1, <1>2, <1>3, TimerTurns

\* Every step takes one of the four turns.
LEMMA StepTurns ==
  ASSUME IInv, AtBoot, Next
  PROVE  TimerTurn \/ SameTurn
<1>1. /\ current \in Proc /\ pcb \in [Proc -> ProcessTable]
      /\ pcb[current] \in ProcessTable
      /\ \A p \in Proc : pcb[p].state \in State
  BY InvFacts, Fields
<1>2. \A r \in ProcessTable, n \in 0 .. 2, m \in 0 .. 2 :
        /\ [r EXCEPT !.stackTop = n].timeCount = r.timeCount
        /\ [r EXCEPT !.prevStackTop = n].timeCount = r.timeCount
        /\ Stacked(r, n, m).timeCount = r.timeCount
  BY DEF ProcessTable, Stacked
<1>3. call[current].at # "user" => current # 0
  BY DEF AtBoot
<1>4. CASE Tick
  BY <1>4, TableReady, TimerTurns DEF Tick
<1>5. CASE CopyByte
  BY <1>5, TableReady, TimerTurns DEF CopyByte
<1>6. ASSUME NEW time \in SleepTimes, Sleep(time)
      PROVE  TimerTurn
  <2> DEFINE e == AwakeAs(Entered[current], "BLOCKED", time)
  <2>1. CanCall /\ Entered \in [Proc -> ProcessTable]
    BY <1>6, EnteredFacts DEF Sleep
  <2>2. time \in Nat /\ time > 0
    BY ArgumentAssumption
  <2>3. Entered[current] \in ProcessTable /\ Entered[current].stackTop = 1
        /\ "BLOCKED" \in State
    BY <1>1, <2>1, EnteredFacts DEF State
  <2>4. e \in ProcessTable /\ e.stackTop = 1 /\ e.state = "BLOCKED"
    BY <2>2, <2>3, AwakeType
  <2>5. e.sleepTime = time
    BY <2>3 DEF AwakeAs, ProcessTable
  <2>6. [Entered EXCEPT ![current].sleepTime = time, ![current].state = "BLOCKED"]
          = [Entered EXCEPT ![current] = e]
    BY <1>1, <2>1 DEF AwakeAs
  <2> HIDE DEF e
  <2>7. TimerInterrupt([Entered EXCEPT ![current] = e], 1)
    BY <1>6, <2>6 DEF Sleep
  <2>8. QED
    BY <2>1, <2>2, <2>4, <2>5, <2>7, GivingUpTurn
<1>7. CASE Exit
  <2> DEFINE e == [Entered[current] EXCEPT !.state = "DEAD"]
  <2>1. CanCall /\ Entered \in [Proc -> ProcessTable]
    BY <1>7, EnteredFacts DEF Exit
  <2>2. e \in ProcessTable /\ e.stackTop = 1 /\ e.state = "DEAD"
    <3>1. Entered[current] \in ProcessTable /\ Entered[current].stackTop = 1
      BY <1>1, <2>1, EnteredFacts
    <3>2. QED
      BY <3>1 DEF ProcessTable, State
  <2>3. [Entered EXCEPT ![current].state = "DEAD"] = [Entered EXCEPT ![current] = e]
    BY <1>1, <2>1
  <2> HIDE DEF e
  <2>4. TimerInterrupt([Entered EXCEPT ![current] = e], 1)
    BY <1>7, <2>3 DEF Exit
  <2>5. QED
    BY <2>1, <2>2, <2>4, GivingUpTurn
<1>8. CASE ForkFails
  <2>1. CanCall /\ pcb' = [pcb EXCEPT ![current].prevStackTop = pcb[current].stackTop]
        /\ current' = current
    BY <1>8 DEF ForkFails
  <2>2. pcb[current].stackTop \in 0 .. 2
    BY <1>1, Fields
  <2>3. /\ pcb'[current].timeCount = pcb[current].timeCount
        /\ \A p \in Proc \ {current} : pcb'[p] = pcb[p]
    BY <1>1, <1>2, <2>1, <2>2
  <2>4. QED
    BY <2>1, <2>3 DEF SameTurn, CanCall
<1>9. CASE Fork
  <2>1. CanCall /\ pcb' = Entered /\ current' = current
    BY <1>9 DEF Fork
  <2>2. pcb[current].stackTop \in 0 .. 2
    BY <1>1, Fields
  <2>3. Entered = [pcb EXCEPT ![current] = Stacked(pcb[current], pcb[current].stackTop, 1)]
    BY <1>1 DEF Entered, Stacked
  <2>4. /\ Entered[current].timeCount = pcb[current].timeCount
        /\ \A p \in Proc \ {current} : Entered[p] = pcb[p]
    BY <1>1, <1>2, <2>2, <2>3
  <2>5. QED
    BY <2>1, <2>4 DEF SameTurn, CanCall
<1>10. CASE ForkEnds
  <2> DEFINE q == call[current].slot
  <2>1. /\ call[current].at = "copy" /\ current' = current
        /\ pcb' = [pcb EXCEPT ![q] = Child, ![current].stackTop = saved[current]]
    BY <1>10 DEF ForkEnds
  <2>2. q \in Proc /\ q # current
    BY <1>1, <2>1 DEF IInv, TypeOK, Calls
  <2>3. saved[current] \in 0 .. 2
    BY <1>1 DEF IInv, TypeOK
  <2> HIDE DEF q
  <2>4. /\ pcb'[current].timeCount = pcb[current].timeCount
        /\ pcb'[q] = Child
        /\ \A p \in Proc \ {current, q} : pcb'[p] = pcb[p]
    BY <1>1, <1>2, <2>1, <2>2, <2>3
  <2>5. Child.state = "RUNNABLE"
    BY DEF Child
  <2>6. QED
    BY <1>3, <2>1, <2>4, <2>5 DEF SameTurn
<1>11. CASE Return
  <2>1. /\ call[current].at = "return" /\ current' = current
        /\ pcb' = [pcb EXCEPT ![current].stackTop = saved[current]]
    BY <1>11 DEF Return
  <2>2. saved[current] \in 0 .. 2
    BY <1>1 DEF IInv, TypeOK
  <2>3. /\ pcb'[current].timeCount = pcb[current].timeCount
        /\ \A p \in Proc \ {current} : pcb'[p] = pcb[p]
    BY <1>1, <1>2, <2>1, <2>2
  <2>4. QED
    BY <1>3, <2>1, <2>3 DEF SameTurn
<1>12. QED
  BY <1>4, <1>5, <1>6, <1>7, <1>8, <1>9, <1>10, <1>11 DEF Next, SystemCall, Handler

LEMMA Slices ==
  /\ Slice \in Nat /\ TooLong = (MAX_PCB_NUM - 2) * Slice
  /\ \A a, b \in Int : a < b => a * Slice + Slice <= b * Slice
  /\ \A a \in Int : a * Slice \in Int
<1>1. \A n \in Nat : \A a, b \in Int : a < b => a * n + n <= b * n
  <2> TAKE n \in Nat
  <2> TAKE a, b \in Int
  <2> HAVE a < b
  <2>1. b = (a + 1) + (b - a - 1) /\ b - a - 1 \in Nat
    OBVIOUS
  <2>2. \A k \in Nat, i \in Int : (i + k) * n = i * n + k * n /\ k * n >= 0
    OBVIOUS
  <2>3. b * n >= (a + 1) * n
    BY <2>1, <2>2
  <2>4. QED
    BY <2>3
<1>2. Slice \in Nat
  BY TimeAssumption DEF Slice
<1>3. TooLong = (MAX_PCB_NUM - 2) * Slice
  BY DEF TooLong, Slice
<1>4. \A a \in Int : a * Slice \in Int
  BY <1>2
<1>5. QED
  BY <1>1, <1>2, <1>3, <1>4

\* At most every other user process but one is ahead of a user process that waits.
LEMMA AheadBounds ==
  ASSUME current \in Proc, NEW p \in User \ {current}
  PROVE  /\ Ahead(p) \in Int /\ Ahead(p) >= 0
         /\ current # 0 => Ahead(p) < MAX_PCB_NUM - 2
         /\ current = 0 /\ p = 1 => Ahead(p) = 0
BY SizeAssumption DEF Ahead, User, Proc

\* The process that is resumed was the first: one slot fewer is ahead of the others.
LEMMA AheadFalls ==
  ASSUME current \in Proc, current' \in User \ {current},
         NEW p \in User \ {current, current'}, Ahead(current') <= Ahead(p)
  PROVE  Ahead(p)' < Ahead(p)
<1> DEFINE from(c, q) == IF q > c THEN q - c - 1 ELSE MAX_PCB_NUM - 2 - c + q
<1>1. \A c \in Proc, q \in User, r \in User :
        q # c /\ r # c /\ r # q /\ from(c, q) <= from(c, r) => from(q, r) < from(c, r)
  BY SizeAssumption DEF User, Proc
<1>2. Ahead(p) = from(current, p) /\ Ahead(current') = from(current, current')
      /\ Ahead(p)' = from(current', p)
  BY DEF Ahead
<1> HIDE DEF from
<1>3. QED
  BY <1>1, <1>2

LEMMA CurrentTicks ==
  IInv => current \in Proc /\ pcb[current].timeCount \in 0 .. MAX_TIME_COUNT
BY InvFacts, Fields

\* What is left to wait before and after a turn, whatever the products are.
LEMMA Remaining ==
  ASSUME NEW x \in Int, NEW y \in Int,
         NEW u \in 0 .. MAX_TIME_COUNT, NEW v \in 0 .. MAX_TIME_COUNT
  PROVE  /\ x + (Slice - u) \in Int
         /\ x + Slice <= y => x + (Slice - u) <= y
         /\ x + Slice <= y => x + (Slice - u) < y + (Slice - v)
         /\ x = y /\ u = v + 1 => x + (Slice - u) < y + (Slice - v)
BY TimeAssumption DEF Slice

\* Whoever waits, and has not waited yet, will not wait too long.
TurnsCome ==
  \A p \in User \ {current} : StillToWait(p) \in Int /\ StillToWait(p) <= TooLong

LEMMA FreshTurn == IInv /\ current # 0 => TurnsCome
<1> SUFFICES ASSUME IInv, current # 0, NEW p \in User \ {current}
             PROVE  StillToWait(p) \in Int /\ StillToWait(p) <= TooLong
  BY DEF TurnsCome
<1>1. current \in Proc /\ pcb[current].timeCount \in 0 .. MAX_TIME_COUNT
  BY CurrentTicks
<1>2. Ahead(p) \in Int /\ Ahead(p) < MAX_PCB_NUM - 2
  BY <1>1, AheadBounds
<1>3. Ahead(p) * Slice + Slice <= TooLong /\ Ahead(p) * Slice \in Int
  BY <1>2, Slices, SizeAssumption
<1>4. TooLong \in Int
  BY Slices, SizeAssumption
<1>5. QED
  BY <1>1, <1>3, <1>4, Remaining DEF StillToWait

\* One turn, for a process that waits before it and after it: what waited grows by is what
\* there is less to wait.
LEMMA TurnCounts ==
  ASSUME IInv, IInv', TimerTurn \/ SameTurn,
         NEW p \in User, pcb[p].state = "RUNNABLE", pcb'[p].state = "RUNNABLE"
  PROVE  /\ StillToWait(p) \in Int /\ StillToWait(p)' \in Int
         /\ SameTurn => StillToWait(p)' = StillToWait(p)
         /\ ~SameTurn => StillToWait(p)' < StillToWait(p)
<1> DEFINE tc == pcb[current].timeCount
           a == Ahead(p) * Slice
<1>1. /\ current \in Proc /\ tc \in 0 .. MAX_TIME_COUNT
      /\ current' \in Proc /\ tc' \in 0 .. MAX_TIME_COUNT
      /\ p # current /\ p # current'
  <2>1. current \in Proc /\ tc \in 0 .. MAX_TIME_COUNT
    BY CurrentTicks
  <2>2. (IInv => current \in Proc /\ pcb[current].timeCount \in 0 .. MAX_TIME_COUNT)'
    BY CurrentTicks, PTL
  <2>3. p # current /\ p # current'
    BY DEF IInv, OneRunning, User
  <2>4. QED
    BY <2>1, <2>2, <2>3
<1>2. /\ Ahead(p) \in Int /\ Ahead(p)' \in Int
  <2>1. p \in Proc
    BY DEF User
  <2>2. QED
    BY <1>1, <2>1, SizeAssumption DEF Ahead, Proc
<1>3. a \in Int /\ a' \in Int
  BY <1>2, Slices
<1>4. StillToWait(p) = a + (Slice - tc) /\ StillToWait(p)' = a' + (Slice - tc')
  BY DEF StillToWait
<1>5. current' = current => a' = a
  BY DEF Ahead
<1>6. CASE SameTurn
  <2>1. a' = a /\ tc' = tc
    BY <1>5, <1>6 DEF SameTurn
  <2> HIDE DEF a, tc
  <2>2. QED
    BY <1>1, <1>3, <1>4, <1>6, <2>1, Remaining
<1>7. CASE SliceTurn /\ ~SameTurn
  <2>1. a' = a /\ tc' = tc + 1
    BY <1>5, <1>7 DEF SliceTurn
  <2> HIDE DEF a, tc
  <2>2. QED
    BY <1>1, <1>3, <1>4, <1>7, <2>1, Remaining
<1>8. CASE NextTurn /\ ~SameTurn
  <2>1. p \in Waiting
    BY <1>1 DEF Waiting
  <2>2. current' \in User \ {current} /\ Ahead(current') <= Ahead(p)
    BY <1>8, <2>1 DEF NextTurn, Waiting
  <2>3. Ahead(p)' < Ahead(p)
    BY <1>1, <2>2, AheadFalls
  <2>4. a' + Slice <= a
    BY <1>2, <2>3, Slices
  <2> HIDE DEF a, tc
  <2>5. QED
    BY <1>1, <1>3, <1>4, <1>8, <2>4, Remaining
<1>9. ~AloneTurn
  BY <1>1 DEF AloneTurn, Waiting
<1>10. QED
  BY <1>6, <1>7, <1>8, <1>9 DEF TimerTurn

\* The idle process has the processor until the first timer interrupt only.
LEMMA BootStep ==
  ASSUME IInv, IInv', AtBoot, TimerTurn \/ SameTurn
  PROVE  current' # 0
<1>1. /\ current \in Proc
      /\ pcb[current].timeCount \in 0 .. MAX_TIME_COUNT
      /\ current' \in Proc /\ pcb'[current'].timeCount \in 0 .. MAX_TIME_COUNT
  <2>1. (IInv => current \in Proc /\ pcb[current].timeCount \in 0 .. MAX_TIME_COUNT)'
    BY CurrentTicks, PTL
  <2>2. QED
    BY <2>1, CurrentTicks
<1>2. CASE SameTurn
  BY <1>2 DEF SameTurn
<1>3. CASE NextTurn
  BY <1>3 DEF NextTurn, Waiting, User
<1>4. CASE SliceTurn
  BY <1>1, <1>4, TimeAssumption DEF SliceTurn, AtBoot
<1>5. CASE AloneTurn
  <2>1. 1 \in User
    BY SizeAssumption DEF User, Proc
  <2>2. QED
    BY <1>5, <2>1 DEF AloneTurn, Waiting, AtBoot
<1>6. QED
  BY <1>2, <1>3, <1>4, <1>5 DEF TimerTurn

LEMMA WaitStep ==
  ASSUME WInv, MCNext
  PROVE  WInv'
<1>1. IInv /\ IInv' /\ (TimerTurn \/ SameTurn)
  BY StepHolds, StepTurns DEF MCNext, WInv
<1>2. current' # 0
  BY <1>1, BootStep DEF WInv
<1>3. ASSUME NEW p \in User
      PROVE  IF pcb'[p].state = "RUNNABLE"
             THEN waited'[p] \in Nat /\ waited'[p] + StillToWait(p)' <= TooLong
             ELSE waited'[p] = 0
  <2>1. waited'[p] = IF pcb[p].state # "RUNNABLE" \/ pcb'[p].state # "RUNNABLE" THEN 0
                     ELSE IF TimerRan /\ waited[p] < TooLong THEN waited[p] + 1
                     ELSE waited[p]
    BY DEF MCNext
  <2>2. CASE pcb'[p].state # "RUNNABLE"
    BY <2>1, <2>2
  <2>3. CASE pcb'[p].state = "RUNNABLE" /\ pcb[p].state # "RUNNABLE"
    <3>1. waited'[p] = 0
      BY <2>1, <2>3
    <3>2. p # current'
      BY <1>1, <2>3 DEF IInv, OneRunning, User
    <3>3. (IInv /\ current # 0 => TurnsCome)'
      BY FreshTurn, PTL
    <3>4. QED
      BY <1>1, <1>2, <2>3, <3>1, <3>2, <3>3 DEF TurnsCome
  <2>4. CASE pcb'[p].state = "RUNNABLE" /\ pcb[p].state = "RUNNABLE"
    <3>1. /\ StillToWait(p) \in Int /\ StillToWait(p)' \in Int
          /\ SameTurn => StillToWait(p)' = StillToWait(p)
          /\ ~SameTurn => StillToWait(p)' < StillToWait(p)
      BY <1>1, <2>4, TurnCounts
    <3>2. waited[p] \in Nat /\ waited[p] + StillToWait(p) <= TooLong
      BY <2>4 DEF WInv, Waits
    <3>3. SameTurn => ~TimerRan
      BY DEF SameTurn, TimerRan
    <3>4. waited'[p] = IF TimerRan /\ waited[p] < TooLong THEN waited[p] + 1 ELSE waited[p]
      BY <2>1, <2>4
    <3>5. TooLong \in Int
      BY Slices, SizeAssumption
    <3>6. QED
      <4>1. \A n \in Nat, x, y, z \in Int :
              /\ n + x <= z /\ y = x => n + y <= z
              /\ n + x <= z /\ y < x => n + 1 + y <= z /\ n + y <= z
        OBVIOUS
      <4>2. waited'[p] \in {waited[p], waited[p] + 1} /\ (SameTurn => waited'[p] = waited[p])
        BY <3>3, <3>4
      <4>3. QED
        BY <2>4, <3>1, <3>2, <3>5, <4>1, <4>2
  <2>5. QED
    BY <2>2, <2>3, <2>4
<1>4. Waits'
  BY <1>3 DEF Waits
<1>5. AtBoot'
  BY <1>2 DEF AtBoot
<1>6. QED
  BY <1>1, <1>4, <1>5 DEF WInv

LEMMA TooLongPositive ==
  ASSUME MAX_PCB_NUM > 2
  PROVE  TooLong \in Int /\ TooLong >= 1
<1>1. Slice \in Nat /\ Slice >= 1 /\ 0 * Slice = 0
  BY TimeAssumption DEF Slice
<1>2. 0 * Slice + Slice <= TooLong /\ TooLong \in Int
  BY Slices, SizeAssumption
<1>3. QED
  BY <1>1, <1>2

\* With two slots TooLong is 0: the only user process waits for nobody, and WaitBounded says
\* nothing of it.
LEMMA WaitInit ==
  ASSUME MAX_PCB_NUM > 2, MCInit
  PROVE  WInv
<1>1. Init /\ waited = [p \in User |-> 0]
  BY DEF MCInit
<1>2. current = 0 /\ 0 \in Proc /\ 1 \in User /\ User \subseteq Proc
  BY <1>1, SizeAssumption DEF Init, User, Proc
<1>3. /\ pcb[0].timeCount = MAX_TIME_COUNT
      /\ \A p \in User : pcb[p].state = IF p = 1 THEN "RUNNABLE" ELSE "DEAD"
  BY <1>1, <1>2 DEF Init, User
<1>4. call[0].at = "user"
  BY <1>1, <1>2 DEF Init, InUserMode
<1>5. AtBoot
  BY <1>3, <1>4 DEF AtBoot
<1>6. StillToWait(1) = 1
  <2>1. Ahead(1) = 0
    BY <1>2, SizeAssumption DEF Ahead
  <2>2. QED
    BY <1>2, <1>3, <2>1, TimeAssumption DEF StillToWait, Slice
<1>7. TooLong \in Int /\ TooLong >= 1
  BY TooLongPositive
<1>8. Waits
  BY <1>1, <1>3, <1>6, <1>7 DEF Waits
<1>9. QED
  BY <1>1, <1>5, <1>8, InitHolds DEF WInv

LEMMA WaitBound ==
  ASSUME MAX_PCB_NUM > 2, WInv
  PROVE  WaitBounded
<1> SUFFICES ASSUME NEW p \in User
             PROVE  waited[p] < TooLong
  BY DEF WaitBounded
<1>1. TooLong \in Int /\ TooLong >= 1
  BY TooLongPositive
<1>2. CASE pcb[p].state = "RUNNABLE"
  <2>1. waited[p] \in Nat /\ waited[p] + StillToWait(p) <= TooLong
    BY <1>2 DEF WInv, Waits
  <2>2. StillToWait(p) \in Int /\ StillToWait(p) >= 1
    <3>1. p \in User \ {current} /\ current \in Proc
          /\ pcb[current].timeCount \in 0 .. MAX_TIME_COUNT
      BY <1>2, CurrentTicks, InvFacts DEF WInv
    <3>2. Ahead(p) \in Nat
      BY <3>1, AheadBounds
    <3>3. Ahead(p) * Slice \in Nat
      BY <3>2, TimeAssumption DEF Slice
    <3>4. QED
      BY <3>1, <3>3, TimeAssumption DEF StillToWait, Slice
  <2>3. QED
    BY <1>1, <2>1, <2>2
<1>3. CASE pcb[p].state # "RUNNABLE"
  BY <1>1, <1>3 DEF WInv, Waits
<1>4. QED
  BY <1>2, <1>3

\* Round robin in irqHandle.c: a runnable user process waits for less than one full time slice
\* of each other user process, however they use their slices up, sleep, exit and fork.
THEOREM WaitsBounded ==
  ASSUME MAX_PCB_NUM > 2
  PROVE  MCSpec => []WaitBounded
<1>1. MCInit => WInv
  BY WaitInit
<1>2. WInv /\ [MCNext]_<<vars, waited>> => WInv'
  <2>1. ASSUME WInv, UNCHANGED <<vars, waited>>
        PROVE  WInv'
    <3>1. IInv'
      BY <2>1, StepHolds DEF WInv
    <3>2. UNCHANGED <<pcb, current, call, waited>>
      BY <2>1 DEF vars
    <3>3. AtBoot' /\ Waits'
      BY <2>1, <3>2 DEF WInv, AtBoot, Waits, StillToWait, Ahead
    <3>4. QED
      BY <3>1, <3>3 DEF WInv
  <2>2. QED
    BY <2>1, WaitStep
<1>3. WInv => WaitBounded
  BY WaitBound
<1>4. QED
  BY <1>1, <1>2, <1>3, PTL DEF MCSpec
=============================================================================
