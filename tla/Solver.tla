--------------------------------- MODULE Solver ---------------------------------
(***************************************************************************)
(* One analysis of one function by the worklist solver of lab 5's          *)
(* optimizer (lab5/Code/src/IR_optimize/solver.c), and what a solution of  *)
(* the data-flow equations is.  The state is the optimizer's, whose other  *)
(* parts stay as they are.                                                 *)
(***************************************************************************)
EXTENDS DataFlow

VARIABLE o  \* the state of the optimizer

Analyses == {"constant", "available", "copy", "live"}

-----------------------------------------------------------------------------
(* What an analysis starts from. *)

IsList(s) == s \in Seq({s[i] : i \in DOMAIN s})

\* An edge that leaves a block enters another.
Linked(f) ==
  /\ IsList(f.blocks)
  /\ \A b \in DOMAIN f.blocks : f.succ[b] \in Seq(DOMAIN f.blocks) /\ f.pred[b] \in Seq(DOMAIN f.blocks)
  /\ \A b, c \in DOMAIN f.blocks :
       (\E k \in DOMAIN f.succ[b] : f.succ[b][k] = c) <=> (\E k \in DOMAIN f.pred[c] : f.pred[c][k] = b)

\* Every label that is jumped to is the label of a block.
Labelled(f) ==
  \A b \in DOMAIN f.blocks :
    LET ss == f.blocks[b].stmts
        s == Last(ss)
        Known(l) == \E c \in DOMAIN f.blocks : f.blocks[c].label = l
    IN  ss # <<>> =>
          /\ s.kind \in {"if", "goto"} => Known(s.to[1])
          /\ s.kind = "if" /\ s.to[2] # NONE => Known(s.to[2])

\* The parts of the state that the solver reads or writes.
Parts == {"funcs", "f", "todo", "in", "out", "queue", "block", "kills", "updated"}

Ready(p) ==
  /\ Parts \subseteq DOMAIN p
  /\ Analysis(p) \in Analyses
  /\ Linked(Func(p))
  /\ \A b \in Blocks(p) : IsList(Func(p).blocks[b].stmts)

Init == \E p : Ready(p) /\ o = Initialize(p)
Next == o.queue # <<>> /\ o' = worklistDoSolve(o)
Spec == Init /\ [][Next]_o

-----------------------------------------------------------------------------
(* Facts flow from the blocks next to a block into it, and on to those     *)
(* that depend on it.                                                      *)

Before(p) == IF isForward(Analysis(p)) THEN p.in ELSE p.out
After(p) == IF isForward(Analysis(p)) THEN p.out ELSE p.in
Sources(p, b) == IF isForward(Analysis(p)) THEN Func(p).pred[b] ELSE Func(p).succ[b]
Dependents(p, b) == IF isForward(Analysis(p)) THEN Func(p).succ[b] ELSE Func(p).pred[b]
Edge(p) == IF isForward(Analysis(p)) THEN 1 ELSE Len(Func(p).blocks)

IsMap(x) == x = [v \in DOMAIN x |-> x[v]]

Fact(a, x) ==
  /\ a = "constant" => IsMap(x)
  /\ a = "available" => x \in [top : BOOLEAN, set : {x.set}]
  /\ a = "copy" => /\ x \in [top : BOOLEAN, use : {x.use}, def : {x.def}]
                   /\ IsMap(x.use) /\ IsMap(x.def)

\* A fact kept for a block: all expressions are available without a list of them.
Stored(a, x) == Fact(a, x) /\ (a = "available" /\ x.top => x.set = {})

\* The fact has flowed into target: it would change nothing more.
Absorbed(a, fact, target) == meetInto(a, fact, target) = target

\* The facts next to b have flowed into it, and what b makes of them has flowed on.
Settled(p, b) ==
  /\ \A k \in 1 .. Len(Sources(p, b)) : Absorbed(Analysis(p), After(p)[Sources(p, b)[k]], Before(p)[b])
  /\ Absorbed(Analysis(p), transferBlock(p, b, Before(p)[b]), After(p)[b])

Solved(p) == \A b \in Blocks(p) : Settled(p, b)

\* Facts that solve the equations of the function and analysis of p, and hold at the edge of its graph.
Solution(s, p) ==
  /\ DOMAIN s = DOMAIN p /\ s.funcs = p.funcs /\ s.f = p.f /\ s.todo = p.todo /\ s.kills = p.kills
  /\ \A b \in Blocks(p) : Stored(Analysis(p), s.in[b]) /\ Stored(Analysis(p), s.out[b])
  /\ Solved(s)
  /\ Absorbed(Analysis(p), newBoundaryFact(Analysis(p), Func(p)), After(s)[Edge(p)])

\* The analyses of which every step is monotone.  Constant propagation is not: when a becomes
\* known not to be a constant, a / 0 goes back from nothing known to undefined.
Monotone == {"available", "live"}

\* What x has become when it is y now: a variable never gets from one constant to another, copies
\* and available expressions only go, live variables only come.
Lower(a, x, y) ==
  /\ a = "constant" =>
       \A v \in DOMAIN y : v \in DOMAIN x /\ (y[v] # UNDEF => x[v] \in {y[v], NAC})
  /\ a = "available" => y.top \/ (~x.top /\ x.set \subseteq y.set)
  /\ a = "copy" =>
       y.top \/ (~x.top /\ \A d \in DOMAIN x.use : d \in DOMAIN y.use /\ x.use[d] = y.use[d])
  /\ a = "live" => y \subseteq x

-----------------------------------------------------------------------------
(* Properties. *)

\* When the worklist is empty, no block is left whose facts do not agree with those of its
\* neighbours: a block is queued again whenever a fact it depends on has changed after its visit.
SolvedAtEnd == [](o.queue = <<>> => Solved(o))

\* No visit makes a fact stronger again, whatever order the blocks come in.
FactsFall ==
  [][\A b \in Blocks(o) : /\ Lower(Analysis(o), o'.in[b], o.in[b])
                          /\ Lower(Analysis(o), o'.out[b], o.out[b])]_o

\* Nothing is given up that some solution keeps: the facts of every solution are below those found
\* so far, so that what the worklist ends with is the one best solution, in whatever order it went.
Necessary(p) ==
  Analysis(p) \in Monotone =>
    \A s : Solution(s, p) =>
      \A b \in Blocks(p) : Absorbed(Analysis(p), p.in[b], s.in[b]) /\ Absorbed(Analysis(p), p.out[b], s.out[b])

=============================================================================
