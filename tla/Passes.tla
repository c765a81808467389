-------------------------------- MODULE Passes --------------------------------
(***************************************************************************)
(* One pass of lab 5's optimizer over a function: an analysis, solved by   *)
(* the worklist, and the rewriting it is for; and what the function does   *)
(* when it is run, before and after.                                       *)
(***************************************************************************)
EXTENDS Solver, Rewriting

CONSTANTS
  Compare(_, _, _),  \* whether two numbers are in a relation
  Does(_, _, _, _)   \* the number that a statement other than arithmetic gives, and the world after it

VARIABLE old  \* the optimizer before it began to rewrite

-----------------------------------------------------------------------------
(* The runs of a function.  A run is at the statement after the first done *)
(* ones of block at, with a number in each variable of env.  The world is  *)
(* all the rest: memory, other functions, input and output, the result.    *)

Value(env, x) == IF IsVar(x) THEN env[x[2]] ELSE x[2]
Values(env, s) == [j \in DOMAIN s.use |-> Value(env, s.use[j])]

\* Nothing is read that was never written, and nothing divided by zero.
Defined(env, s) ==
  /\ Uses(s) \subseteq DOMAIN env
  /\ s.kind = "op" /\ s.op = "/" => Value(env, s.use[2]) # 0

\* The number a statement gives, and the world after it.
Outcome(env, world, s) ==
  LET x == Values(env, s)
  IN  CASE s.kind = "assign" -> <<x[1], world>>
        [] s.kind = "op" -> <<Compute(s.op, x[1], x[2]), world>>
        [] s.kind = "goto" -> <<0, world>>
        [] OTHER -> Does(s.kind, s.op, x, world)

Defines(s) == s.kind \in {"assign", "op"} \/ s.rd # NONE

Execute(m, s) ==
  LET y == Outcome(m.env, m.world, s)
  IN  [m EXCEPT !.done = @ + 1, !.env = IF Defines(s) THEN With(@, s.rd, y[1]) ELSE @, !.world = y[2]]

\* The edge that an if takes.
Branch(env, s) == IF Compare(s.op, Value(env, s.use[1]), Value(env, s.use[2])) THEN 1 ELSE 2

Leave(f, m, k) == [m EXCEPT !.at = f.succ[m.at][k], !.done = 0]

\* Every statement but an if, which is the last of its block, is followed by the next one, and the
\* last by the only block there is to go to.
Able(f, m) ==
  LET ss == f.blocks[m.at].stmts
      s == ss[m.done + 1]
  IN  IF m.done = Len(ss) THEN f.succ[m.at] # <<>>
      ELSE Defined(m.env, s) /\ (s.kind = "if" => Branch(m.env, s) \in DOMAIN f.succ[m.at])

Step(f, m) ==
  LET ss == f.blocks[m.at].stmts
      s == ss[m.done + 1]
  IN  IF m.done = Len(ss) THEN Leave(f, m, 1)
      ELSE IF s.kind = "if" THEN Leave(f, m, Branch(m.env, s))
      ELSE Execute(m, s)

Ended(f, m) == m.done = Len(f.blocks[m.at].stmts) /\ f.succ[m.at] = <<>>

\* The variables that have a value when a function begins: parameters, and the addresses of its arrays.
Given(f) == {f.params[j] : j \in DOMAIN f.params} \cup {f.dec[d].addr : d \in DOMAIN f.dec}

Starts(f, m) == \E env \in [Given(f) -> Int] : \E w : m = [at |-> 1, done |-> 0, env |-> env, world |-> w]

IsRun(f, s, n) == Starts(f, s[0]) /\ \A i \in 1 .. n : Able(f, s[i - 1]) /\ s[i] = Step(f, s[i - 1])

\* Whatever f has done to the world, g can do too, and g comes to an end with f.
Keeps(f, g) ==
  \A n \in Nat : \A s : IsRun(f, s, n) =>
    \E m \in Nat : \E t :
      /\ IsRun(g, t, m)
      /\ t[0] = s[0]
      /\ t[m].world = s[n].world
      /\ Ended(f, s[n]) => Ended(g, t[m])

-----------------------------------------------------------------------------
(* What the passes rely on. *)

OPS == {"+", "-", "*", "/"}

\* Numbers are integers, on which + and * commute.
Arithmetic ==
  /\ \A x, y \in Int : \A op \in OPS : (op = "/" => y # 0) => Compute(op, x, y) \in Int
  /\ \A x, y \in Int : \A op \in {"+", "*"} : Compute(op, x, y) = Compute(op, y, x)
  /\ \A kind, op, x, w : Does(kind, op, x, w)[1] \in Int

Operand(x) == x = <<x[1], x[2]>> /\ (x[1] = "var" \/ (x[1] = "const" /\ x[2] \in Int))

Shaped(s) ==
  /\ {"kind", "op", "rd", "use", "to"} \subseteq DOMAIN s
  /\ \A j \in DOMAIN s.use : Operand(s.use[j])
  /\ s.kind = "assign" => DOMAIN s.use = {1}
  /\ s.kind \in {"op", "if"} => DOMAIN s.use = {1, 2}
  /\ s.kind = "op" => s.op \in OPS
  /\ s.kind \in {"if", "goto"} => s.rd = NONE

Stmts(f) == UNION {{f.blocks[b].stmts[k] : k \in DOMAIN f.blocks[b].stmts} : b \in DOMAIN f.blocks}

\* The first block is empty, and an if is the last statement of its block.
Formed(f) ==
  /\ {"params", "dec", "blocks", "succ", "pred"} \subseteq DOMAIN f
  /\ 1 \in DOMAIN f.blocks /\ f.blocks[1].stmts = <<>>
  /\ \A b \in DOMAIN f.blocks :
       /\ "stmts" \in DOMAIN f.blocks[b]
       /\ \A k \in DOMAIN f.blocks[b].stmts :
            LET s == f.blocks[b].stmts[k]
            IN  Shaped(s) /\ NONE \notin Uses(s) /\ (s.kind = "if" => k = Len(f.blocks[b].stmts))

\* The variables in A are those that hold addresses: of the arrays, and what is computed from one.
Addresses(f, A) ==
  /\ \A d \in DOMAIN f.dec : f.dec[d].addr \in A
  /\ \A s \in Stmts(f) : s.kind \in {"assign", "op"} => (s.rd \in A <=> Uses(s) \cap A # {})

SameExpr(s, t) ==
  /\ s.op = t.op
  /\ \/ s.use[1] = t.use[1] /\ s.use[2] = t.use[2]
     \/ s.op \in {"+", "*"} /\ s.use[1] = t.use[2] /\ s.use[2] = t.use[1]

\* A variable that an operation defines holds that one expression only, and whatever defines one
\* of the expression's variables is known to end it.
Merged(p) ==
  \A s \in Stmts(Func(p)) : s.kind = "op" =>
    /\ \A u \in Uses(s) : u \in DOMAIN p.kills /\ s.rd \in p.kills[u]
    /\ s.rd \notin Uses(s)
    /\ \A t \in Stmts(Func(p)) : t.rd = s.rd => t.kind = "op" /\ SameExpr(s, t)

Prepared(p, A) ==
  /\ Ready(p)
  /\ p.f \in DOMAIN p.funcs
  /\ Formed(Func(p))
  /\ Analysis(p) = "constant" => Addresses(Func(p), A)
  /\ Analysis(p) = "available" => Merged(p)

\* The fact at each point of block b, by the statements the analysis saw.
Points(p, b) ==
  LET a == Analysis(p)
      ss == InOrder(a, Func(p).blocks[b].stmts)
      start == meetInto(a, IF isForward(a) THEN p.in[b] ELSE p.out[b], newInitialFact(a))
      at[k \in 0 .. Len(ss)] == IF k = 0 THEN start
                                ELSE Apply(LAMBDA x, s : transferStmt(a, p.kills, s, x), at[k - 1], ss[k])
  IN  at

\* The copies of the variable that s defines can all be found from it.
Findable(s, x) == \A d \in DOMAIN x.use : x.use[d] = s.rd => s.rd \in DOMAIN x.def /\ x.def[s.rd] = d

\* No variable is defined while it has two copies, of which the code would find one
\* (copy_propagation.c:105), neither in what is analysed nor in what is rewritten.
Traced(p) ==
  Analysis(p) = "copy" =>
    \A b \in Blocks(p) : \A k \in 1 .. Len(Func(p).blocks[b].stmts) :
      LET s == Func(p).blocks[b].stmts[k]
      IN  Findable(s, Points(p, b)[k - 1]) /\ Findable(s, Rewritings(p, b)[k - 1][1])

-----------------------------------------------------------------------------
(* The pass. *)

PassInit == \E p, A : Prepared(p, A) /\ o = Initialize(p) /\ old = o

Solve == Next /\ old' = o'

Rewrite ==
  /\ o.queue = <<>>
  /\ o.block \in Blocks(o)
  /\ o' = RewriteBlock(o)
  /\ UNCHANGED old

PassSpec == PassInit /\ [][Solve \/ Rewrite]_<<o, old>>

\* Once every block has been rewritten with the facts found, each run of the function as it was has
\* a run of the new one that does the same to the world and ends when it ends.
PassKeeps == [](o.block \notin Blocks(o) /\ Traced(old) => Keeps(Func(old), Func(o)))
=============================================================================
