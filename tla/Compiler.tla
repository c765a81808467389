------------------------------- MODULE Compiler -------------------------------
(***************************************************************************)
(* The compiler of lab 4 (lab4/Code/main.c), from the syntax tree to MIPS  *)
(* code, the optimizer of lab 5 (lab5/Code/src/main.c), which takes lab    *)
(* 4's intermediate code, and the run of what either of them made.  One    *)
(* step is one external definition or one instruction of a pass, the visit *)
(* of one block by an analysis, or one instruction of the program.         *)
(***************************************************************************)
EXTENDS Integers, Sequences
LOCAL INSTANCE SequencesExt

CONSTANTS
  Programs,    \* the names of the programs
  Source(_),   \* the syntax tree of each
  Inputs(_)    \* the inputs each is run with, sequences of numbers

VARIABLES
  program,  \* the name of the program
  stray,    \* the uninitialised field after write's parameter is not NULL
  stage,    \* the pass the compiler makes, or where the program has got to
  reading,  \* what the pass goes through: definitions or intermediate code
  next,     \* the element of it that is next
  state,    \* the state of the pass
  sizes,    \* the sizes of the operands of the intermediate code
  errors,   \* the types of the semantic errors reported
  code,     \* the machine code and its labels
  input,    \* what the program is given
  machine   \* the machine that runs it

vars == <<program, stray, stage, reading, next, state, sizes, errors, code, input, machine>>

L == INSTANCE CMinus
C == INSTANCE Checker
T == INSTANCE Translator
G == INSTANCE CodeGen
M == INSTANCE Machine
O == INSTANCE Optimizer
I == INSTANCE Interpreter

None == <<>>

Init ==
  /\ program \in Programs
  /\ stray \in BOOLEAN
  /\ stage = "check"
  /\ reading = Source(program)
  /\ next = 1
  /\ state = C!init_symbol_table(stray)
  /\ sizes = None
  /\ errors = {}
  /\ code = None
  /\ input = None
  /\ machine = None

More(pass) == stage = pass /\ next <= Len(reading)
Over(pass) == stage = pass /\ next > Len(reading)

\* The next pass, over what, from which state.
Start(pass, over, from) ==
  /\ stage' = pass
  /\ reading' = over
  /\ next' = 1
  /\ state' = from

\* The next element of this pass.
Go(to) ==
  /\ state' = to
  /\ next' = next + 1
  /\ UNCHANGED <<program, stray, stage, reading, sizes, errors, code, input, machine>>

\* Semantic analysis, one external definition at a time.
Check == More("check") /\ Go(C!ExtDef(state, reading[next]))

\* No report counts as an error (Berrors): only array_flag keeps the compiler from going on.
Checked ==
  /\ Over("check")
  /\ errors' = state.errors
  /\ IF state.array_flag THEN Start("rejected", None, None)
     ELSE Start("translate", reading, T!initializeReadWriteFunctions(stray))
  /\ UNCHANGED <<program, stray, sizes, code, input, machine>>

Translate == More("translate") /\ Go(T!ExtDef(state, reading[next]))

Translated ==
  /\ Over("translate")
  /\ IF state.stopped THEN Start("crashed", None, None)
     ELSE Start("format", state.code, [state EXCEPT !.code = <<>>])
  /\ UNCHANGED <<program, stray, sizes, errors, code, input, machine>>

Format == More("format") /\ Go(T!formatCode(state, reading[next]))

Formatted ==
  /\ Over("format")
  /\ \/ Start("layout", state.code, G!Begin) /\ sizes' = state.sizes
     \/ Start("read", state.code, O!Reader) /\ UNCHANGED sizes
  /\ UNCHANGED <<program, stray, errors, code, input, machine>>

\* The optimizer of lab 5 reads the intermediate code that lab 4 writes to a file.
Read == More("read") /\ Go(O!IR_parse(state, reading[next]))

ReadAll ==
  /\ Over("read")
  /\ Start("optimize", None, O!IR_optimize(state))
  /\ UNCHANGED <<program, stray, sizes, errors, code, input, machine>>

Optimizing(to) ==
  /\ state' = to
  /\ UNCHANGED <<program, stray, stage, reading, next, sizes, errors, code, input, machine>>

Solve == stage = "optimize" /\ O!Solving(state) /\ Optimizing(O!worklistDoSolve(state))

Rewrite == stage = "optimize" /\ O!Rewriting(state) /\ Optimizing(O!RewriteBlock(state))

Follow == stage = "optimize" /\ O!Done(state) /\ Optimizing(O!Following(state))

Optimized ==
  /\ stage = "optimize"
  /\ O!Finished(state)
  /\ Start("optimized", None, None)
  /\ code' = O!IR_program_print(state)
  /\ UNCHANGED <<program, stray, sizes, errors, input, machine>>

\* The first pass of the generator gives every variable its slot.
Layout == More("layout") /\ Go(G!initFrames(state, reading[next], sizes))

LaidOut ==
  /\ Over("layout")
  /\ Start("generate", reading, state)
  /\ UNCHANGED <<program, stray, sizes, errors, code, input, machine>>

\* The second prints the code.
Generate == More("generate") /\ Go(G!Generate(state, reading, next))

Generated ==
  /\ Over("generate")
  /\ Start("compiled", None, None)
  /\ code' = [asm |-> state.asm, labels |-> state.labels]
  /\ sizes' = None
  /\ UNCHANGED <<program, stray, errors, input, machine>>

\* A program is run only when nothing is reported, or nothing but the error a stray field causes.
Accepted == errors \subseteq (IF stray THEN {9} ELSE {})

Boot ==
  /\ stage = "compiled"
  /\ Accepted
  /\ stage' = "running"
  /\ input' \in Inputs(program)
  /\ machine' = M!Boot(code, input')
  /\ UNCHANGED <<program, stray, reading, next, state, sizes, errors, code>>

Execute ==
  /\ stage = "running"
  /\ ~M!Halted(machine)
  /\ machine' = M!Step(machine, code)
  /\ UNCHANGED <<program, stray, stage, reading, next, state, sizes, errors, code, input>>

Load ==
  /\ stage = "optimized"
  /\ Accepted
  /\ stage' = "interpreting"
  /\ input' \in Inputs(program)
  /\ machine' = I!Load(code, input')
  /\ UNCHANGED <<program, stray, reading, next, state, sizes, errors, code>>

Interpret ==
  /\ stage = "interpreting"
  /\ ~I!Ended(machine)
  /\ machine' = I!Interpret(machine, code)
  /\ UNCHANGED <<program, stray, stage, reading, next, state, sizes, errors, code, input>>

\* Nothing is left to do: the compiler gave up, the program is not run, or it has run to its end.
Ended ==
  \/ stage \in {"rejected", "crashed"}
  \/ stage \in {"compiled", "optimized"} /\ ~Accepted
  \/ stage = "running" /\ M!Halted(machine)
  \/ stage = "interpreting" /\ I!Ended(machine)

Rest == Ended /\ UNCHANGED vars

Next ==
  \/ Check \/ Checked \/ Translate \/ Translated \/ Format \/ Formatted
  \/ Layout \/ LaidOut \/ Generate \/ Generated \/ Boot \/ Execute
  \/ Read \/ ReadAll \/ Solve \/ Rewrite \/ Follow \/ Optimized \/ Load \/ Interpret \/ Rest

\* One thread, which goes on until it ends: weak fairness of Next, with Ended in the place of
\* ~ENABLED Next (TLC's deadlock check shows that there is a next step whenever it is false).
Fairness == []<>Ended \/ []<><<Next>>_vars

Spec == Init /\ [][Next]_vars /\ Fairness
=============================================================================
