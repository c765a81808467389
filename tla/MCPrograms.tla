------------------------------ MODULE MCPrograms ------------------------------
(***************************************************************************)
(* Compiler for TLC: the programs it is given, and what it must do.        *)
(***************************************************************************)
EXTENDS Compiler, TLC, SequencesExt

S == INSTANCE Solver WITH o <- state, Compute <- L!Compute

(* How the programs are written: abbreviations for their syntax trees. *)

n(k) == <<"int", k>>
v(x) == <<"id", x>>
ar(o, e, f) == <<"arith", o, e, f>>
rel(o, e, f) == <<"rel", o, e, f>>
and(e, f) == <<"and", e, f>>
or(e, f) == <<"or", e, f>>
not(e) == <<"not", e>>
neg(e) == <<"neg", e>>
par(e) == <<"paren", e>>
call(f, es) == <<"call", f, es>>
at(e, f) == <<"index", e, f>>
dot(e, x) == <<"dot", e, x>>

do(e) == <<"exp", e>>
set(x, e) == do(<<"assign", v(x), e>>)
put(l, e) == do(<<"assign", l, e>>)
get(x) == set(x, call("read", <<>>))
write(e) == do(call("write", <<e>>))
return(e) == <<"return", e>>
block(ds, ss) == <<"block", [defs |-> ds, stmts |-> ss]>>
while(e, ss) == <<"while", e, block(<<>>, ss)>>
if(e, ss) == <<"if", e, block(<<>>, ss)>>
ifelse(e, ss, ts) == <<"ifelse", e, block(<<>>, ss), block(<<>>, ts)>>

var(x) == [name |-> x, dims |-> <<>>, init |-> <<>>]
ini(x, e) == [name |-> x, dims |-> <<>>, init |-> <<e>>]
arr(x, k) == [name |-> x, dims |-> <<k>>, init |-> <<>>]
def(sp, ds) == [spec |-> sp, decs |-> ds]
int == <<"int">>
float == <<"float">>
tag(x) == <<"tag", x>>
ints(xs) == def(int, [i \in DOMAIN xs |-> var(xs[i])])
p(x) == [spec |-> int, name |-> x, dims |-> <<>>, init |-> <<>>]
of(sp, x) == [spec |-> sp, name |-> x, dims |-> <<>>, init |-> <<>>]
ext(sp, ds) == [kind |-> "decl", spec |-> sp, decs |-> ds]
fun(f, ps, ds, ss) ==
  [kind |-> "fun", spec |-> int, name |-> f, params |-> ps, body |-> [defs |-> ds, stmts |-> ss]]
main(ds, ss) == fun("main", <<>>, ds, Append(ss, return(n(0))))
struct(x, ds) == ext(<<"new", x, ds>>, <<>>)

Recursion ==  \* a function that calls itself, a loop that fills an array
  << fun("fact", <<p("k")>>, <<>>,
       << <<"if", rel("<=", v("k"), n(1)), return(n(1))>>,
          return(ar("*", v("k"), call("fact", <<ar("-", v("k"), n(1))>>))) >>),
     main(<<ints(<<"x", "y">>), def(int, <<arr("z", 3)>>)>>,
       << get("x"), get("y"),
          while(rel(">", v("x"), n(0)),
            << write(call("fact", <<v("x")>>)), set("x", ar("-", v("x"), n(1))), put(at(v("z"), v("x")), v("x")) >>),
          if(rel("!=", v("y"), n(0)), <<write(at(v("z"), n(0)))>>) >>) >>

Structures ==  \* passed by reference, in arrays, with an array inside; a fifth argument
  << struct("A", <<ints(<<"f", "g">>), def(int, <<arr("h", 2)>>)>>),
     fun("sum", <<of(tag("A"), "s"), p("b1"), p("b2"), p("b3"), p("b4")>>, <<>>,
       << put(dot(v("s"), "g"), ar("+", dot(v("s"), "f"), ar("*", v("b4"), at(dot(v("s"), "h"), n(1))))),
          return(ar("-", v("b3"), ar("/", v("b2"), neg(v("b1"))))) >>),
     main(<<def(tag("A"), <<var("q"), arr("w", 2)>>)>>,
       << put(dot(v("q"), "f"), n(3)), put(at(dot(v("q"), "h"), n(1)), n(5)),
          write(call("sum", <<v("q"), n(2), n(7), n(0), neg(n(9))>>)), write(dot(v("q"), "g")),
          put(dot(at(v("w"), n(1)), "f"), call("read", <<>>)),
          put(at(dot(at(v("w"), n(1)), "h"), n(1)), n(6)),
          write(call("sum", <<at(v("w"), n(1)), n(2), n(7), n(0), dot(v("q"), "g")>>)),
          write(dot(at(v("w"), n(1)), "g")), write(dot(v("q"), "f")) >>) >>

Expressions ==  \* the same expressions on several paths, copies, constants that meet
  << main(<<ints(<<"a", "b", "c", "x", "y", "z">>)>>,
       << get("a"), get("b"), set("c", n(5)),
          set("x", ar("+", v("a"), v("b"))),
          ifelse(rel("<", v("a"), v("b")),
            << set("y", ar("-", v("a"), v("b"))), set("z", n(1)) >>,
            << set("y", ar("+", v("b"), v("a"))), set("z", n(2)), set("c", n(5)) >>),
          write(ar("-", v("a"), v("b"))), write(v("x")), write(v("y")),
          write(ar("*", v("z"), v("c"))),
          set("a", ar("*", n(1), par(ar("+", n(0), v("y"))))), set("z", ar("/", v("c"), n(2))),
          write(v("a")), write(v("z")), set("x", ar("+", v("a"), v("b"))), write(v("x")) >>) >>

Swap ==  \* variables that change places in a loop, a value carried round it
  << main(<<ints(<<"a", "b", "t", "k", "s">>)>>,
       << get("k"), get("a"), set("b", n(1)), set("s", n(0)), set("t", v("s")),
          while(rel(">", v("k"), n(0)),
            << set("t", v("a")), set("a", v("b")), set("b", v("t")),
               set("s", ar("+", v("s"), ar("*", v("a"), v("k")))), set("k", ar("-", v("k"), n(1))) >>),
          write(v("a")), write(v("b")), write(v("s")), write(v("t")) >>) >>

Arguments ==  \* calls as arguments, more of them than argument registers, reserved names
  << fun("add", <<p("a1"), p("a2")>>, <<>>, <<return(ar("+", v("a1"), v("a2")))>>),
     fun("six", <<p("c1"), p("c2"), p("c3"), p("c4"), p("c5"), p("c6")>>, <<>>,
       << write(v("c5")), write(v("c6")),
          return(ar("-", call("add", <<v("c1"), v("c6")>>), ar("*", v("c2"), v("c5")))) >>),
     main(<<def(int, <<ini("x", call("read", <<>>)), ini("y", n(3))>>)>>,
       << write(call("six", <<v("x"), v("y"), n(7), n(8), call("add", <<v("x"), v("y")>>),
                              call("six", <<n(1), n(2), n(3), n(4), v("y"), v("x")>>)>>)),
          do(call("add", <<v("x"), n(1)>>)), write(v("x")) >>) >>

Logic ==  \* conditions as values and in jumps, and what they must not evaluate
  << fun("say", <<p("k")>>, <<>>, <<write(v("k")), return(v("k"))>>),
     main(<<ints(<<"a", "b">>)>>,
       << get("a"), set("b", or(v("a"), call("say", <<n(0)>>))), write(v("b")),
          ifelse(and(not(par(rel("==", v("a"), n(0)))), par(or(call("say", <<v("b")>>), call("say", <<n(2)>>)))),
            <<write(n(10))>>, <<write(n(20))>>),
          write(not(par(and(v("a"), v("b"))))), write(ar("+", n(1), par(rel(">=", v("a"), n(2))))),
          while(and(rel("<", v("b"), n(3)), v("b")), <<set("b", ar("+", v("b"), n(1)))>>), write(v("b")) >>) >>

Scopes ==  \* the same name in two blocks, a return out of a loop, a block after it
  << fun("find", <<p("k")>>, <<ints(<<"i">>)>>,
       << set("i", n(0)),
          <<"while", rel("<", v("i"), n(9)),
            block(<<ints(<<"j">>)>>,
              << set("j", ar("*", v("i"), v("i"))), if(rel(">=", v("j"), v("k")), <<return(v("j"))>>),
                 set("i", ar("+", v("i"), n(1))) >>)>>,
          return(neg(v("i"))) >>),
     main(<<ints(<<"x">>)>>,
       << get("x"), block(<<def(int, <<ini("y", call("find", <<v("x")>>))>>)>>, <<write(v("y"))>>),
          block(<<def(int, <<ini("y", n(4))>>)>>, <<set("x", ar("+", v("x"), v("y")))>>), write(v("x")) >>) >>

Unused ==  \* definitions nobody reads, some because others go; code after a return
  << main(<<ints(<<"a", "b", "c">>)>>,
       << get("a"), set("b", ar("+", v("a"), n(1))), set("c", ar("*", v("b"), n(2))), set("b", v("a")),
          get("c"), write(ar("-", v("b"), n(0))),
          if(rel(">", v("a"), n(100)), <<return(n(1)), write(v("c"))>>) >>) >>

Arrays ==  \* elements read and written through variables, in a loop
  << main(<<def(int, <<arr("z", 3), var("i"), var("s")>>)>>,
       << set("i", n(0)), while(rel("<", v("i"), n(3)),
            << put(at(v("z"), v("i")), ar("+", v("i"), call("read", <<>>))), set("i", ar("+", v("i"), n(1))) >>),
          set("s", ar("-", at(v("z"), n(0)), at(v("z"), n(2)))), put(at(v("z"), n(1)), at(v("z"), n(2))),
          write(v("s")), write(at(v("z"), ar("/", v("i"), n(3)))) >>) >>

Twins ==  \* two copies of y when y changes: after copy propagation the optimizer loses one of them
  << main(<<ints(<<"a", "y">>)>>,
       << get("y"), set("a", ar("*", n(1), par(ar("+", n(0), v("y"))))), get("y"), write(v("a")), write(v("y")) >>) >>

Table ==  \* an array of two dimensions, which lab 4 does not translate
  << main(<<def(int, <<[arr("z", 2) EXCEPT !.dims = <<2, 3>>]>>), ints(<<"x">>)>>,
       << get("x"), put(at(at(v("z"), n(1)), v("x")), n(5)), write(at(at(v("z"), n(1)), n(0))) >>) >>

(* Programs with an error, by the type of it; x is an int of main's, A a structure, f a function. *)
With(ds, ss) ==
  << struct("A", <<ints(<<"m">>)>>), fun("f", <<p("q")>>, <<>>, <<return(v("q"))>>),
     main(<<ints(<<"x">>), def(tag("A"), <<var("a")>>), def(int, <<arr("z", 2)>>), def(float, <<var("r")>>)>> \o ds, ss) >>

Wrong ==
  [ e1 |-> With(<<>>, <<write(v("u"))>>),
    e2 |-> With(<<>>, <<write(call("g", <<>>))>>),
    e3 |-> With(<<ints(<<"x">>)>>, <<>>),
    e4 |-> <<fun("g", <<>>, <<>>, <<return(n(0))>>)>> \o <<fun("g", <<>>, <<>>, <<return(n(1))>>)>> \o With(<<>>, <<>>),
    e5 |-> With(<<>>, <<set("r", v("x"))>>),
    e6 |-> With(<<>>, <<put(ar("+", v("x"), n(1)), n(2))>>),
    e7 |-> With(<<>>, <<write(ar("+", v("x"), v("r")))>>),
    e8 |-> With(<<>>, <<return(v("r"))>>),
    e9 |-> With(<<>>, <<write(call("f", <<n(1), n(2)>>))>>),
    e10 |-> With(<<>>, <<write(at(v("x"), n(0)))>>),
    e11 |-> With(<<>>, <<write(call("x", <<>>))>>),
    e12 |-> With(<<>>, <<write(at(v("z"), v("r")))>>),
    e13 |-> With(<<>>, <<write(dot(v("x"), "m"))>>),
    e14 |-> With(<<>>, <<write(dot(v("a"), "k"))>>),
    e15 |-> <<struct("B", <<ints(<<"k", "k">>)>>)>> \o With(<<>>, <<>>),
    e16 |-> <<struct("A", <<ints(<<"k">>)>>)>> \o With(<<>>, <<>>),
    e17 |-> With(<<def(tag("B"), <<var("b")>>)>>, <<>>) ]

Right ==
  [ recursion |-> Recursion, structures |-> Structures, expressions |-> Expressions, swap |-> Swap,
    arguments |-> Arguments, logic |-> Logic, scopes |-> Scopes, unused |-> Unused, arrays |-> Arrays,
    twins |-> Twins, table |-> Table ]

Tree == Right @@ Wrong
MCPrograms == DOMAIN Tree
MCSource(x) == Tree[x]

Given ==
  [x \in MCPrograms |->
     CASE x \in DOMAIN Wrong -> {<<0, 0>>}
       [] x = "recursion" -> {<<1, 0>>, <<3, 1>>}
       [] x = "arrays" -> {<<4, 5, 9>>}
       [] OTHER -> {<<0, 2>>, <<3, 1>>}]
MCInputs(x) == Given[x]

(* What the programs mean. *)
Meant == [x \in MCPrograms |-> [i \in Given[x] |-> LET m == L!Meaning(Tree[x], i) IN [out |-> m.out, wrong |-> m.wrong]]]

(* The programs the optimizer is known to change the meaning of. *)
Miscompiled == {"twins"}

(***************************************************************************)
(* Properties.                                                             *)
(***************************************************************************)

\* The machine has written nothing but what the program means, and all of that when it halts.
Follows(m) ==
  LET out == Meant[program][input].out
  IN  IsPrefix(m.out, out) /\ (m.pc = 0 => m.out = out)

\* The MIPS code of a program does what the program means, whatever the passes between them did:
\* labels, temporaries, frames, argument registers and the order of evaluation all have a part in it.
Computes == stage = "running" /\ program \in DOMAIN Right => Follows(machine)

\* So does the intermediate code that the four analyses of lab 5 have rewritten.
OptimizedComputes ==
  stage = "interpreting" /\ program \in DOMAIN Right \ Miscompiled => Follows(machine)

\* Semantic analysis reports an error exactly for the programs that go wrong: no false alarm,
\* and nothing that the rest of the compiler trusts it to have refused gets through.
ErrorsFound ==
  stage # "check" /\ ~stray => (errors # {} <=> \E i \in Given[program] : Meant[program][i].wrong)

\* The translator fails no assertion and follows no NULL for a program without an error:
\* every symbol it looks for is there although its symbol table is another one, without layers.
NeverStops == stage = "crashed" => errors \ {9} # {}

Running == stage = "running" /\ ~M!Halted(machine)

\* No code stores below the stack pointer, where the next call would overwrite it; the slots that
\* constants get while the code is printed are below the frame that the prologue reserves.
StoresInFrame ==
  Running =>
    LET i == code.asm[machine.pc]
    IN  i[1] = "sw" => machine.regs[i[4]] + i[3] >= machine.regs[G!sp]

\* A call comes back to the instruction after it with the stack and the frame it left.
CallsReturn ==
  [][Running /\ code.asm[machine.pc][1] = "jr" /\ machine.calls # <<>> =>
       LET c == Head(machine.calls)
       IN  machine'.pc = c.pc /\ machine'.regs[G!sp] = c.sp /\ machine'.regs[G!fp] = c.fp]_vars

\* The worklist solver starts from a graph whose edges match, and stops with a solution, the one the
\* other solver finds: it visits a block again whenever a fact that it depends on has changed, in
\* both directions.
SolversAgree ==
  stage = "optimize" /\ O!Rewriting(state) /\ state.block = 1 =>
    LET other == O!iterativeDoSolve(O!Initialize(state))
    IN  /\ S!Ready(state)
        /\ S!Solved(state)
        /\ state.in = other.in /\ state.out = other.out

\* What reads, writes, calls and returns do to the world: a trace of them, by which the numbers vary.
Does(kind, op, x, world) == <<Len(world) % 3, Append(world, <<kind, op, x>>)>>

P == INSTANCE Passes WITH o <- state, old <- state, Compute <- L!Compute, Compare <- L!Compare

\* The variables that hold addresses.
Addressed(f) ==
  LET Closer(A) == A \cup {s.rd : s \in {t \in P!Stmts(f) : t.kind \in {"assign", "op"} /\ P!Uses(t) \cap A # {}}}
  IN  P!Through(LAMBDA A, i : Closer(A), {f.dec[d].addr : d \in DOMAIN f.dec}, [i \in 1 .. Cardinality(P!Stmts(f)) |-> i])

\* The bound on the steps of a run.
MaxSteps == 60

RunTo(f, m) == P!Through(LAMBDA x, i : IF P!Able(f, x) THEN P!Step(f, x) ELSE x, m, [i \in 1 .. MaxSteps |-> i])

\* Each analysis of each function starts from what the proof about the passes relies on (Prepared),
\* and what its rewriting makes of the function does to the world what the function did, and ends
\* when it ended: a fact that is wrong on one path, or used one statement too late, changes it.
PassesKeep ==
  stage = "optimize" /\ O!Rewriting(state) /\ state.block = 1 =>
    LET f == O!Func(state)
        g == [f EXCEPT !.blocks = [b \in DOMAIN @ |-> [@[b] EXCEPT !.stmts = O!Rewritten(state, b)]]]
    IN  /\ P!Prepared(state, Addressed(f))
        /\ P!Traced(state) => \A k \in 0 .. 2 :
             LET m == [at |-> 1, done |-> 0, env |-> [z \in P!Given(f) |-> k], world |-> <<>>]
                 x == RunTo(f, m)
                 y == RunTo(g, m)
             IN  /\ IsPrefix(x.world, y.world)
                 /\ P!Ended(f, x) => P!Ended(g, y) /\ y.world = x.world
\* The compiler, the optimizer and the compiled program come to an end: no analysis goes on for ever,
\* nor does the removal of dead code, which starts again after each round that finds some.
Ends == <>Ended
=============================================================================
