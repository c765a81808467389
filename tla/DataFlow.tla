-------------------------------- MODULE DataFlow --------------------------------
(***************************************************************************)
(* The data-flow analyses of lab 5's optimizer (lab5/Code/src): the graph  *)
(* of a function's blocks, the facts of the four analyses, and the         *)
(* worklist solver that finds them (IR_optimize/solver.c).                 *)
(*                                                                         *)
(* A value is <<"const", n>> or <<"var", v>>, where v > 0 is a variable.   *)
(* A statement is [kind, op, rd, use, to]: what it computes, the variable  *)
(* it defines (0 if none), the values it uses and the labels it goes to.   *)
(* A function is [name, params, dec, blocks, succ, pred], where a block is *)
(* [label, stmts], the first one the entry and the last one the exit.      *)
(***************************************************************************)
EXTENDS Integers, Sequences, SequencesExt, Walk

CONSTANT Compute(_, _, _)  \* the result of an operation on two numbers

NONE == 0
Val(v) == <<"var", v>>
IsVar(x) == x[1] = "var"
Stmt(kind, op, rd, use, to) == [kind |-> kind, op |-> op, rd |-> rd, use |-> use, to |-> to]
Uses(s) == {s.use[j][2] : j \in {k \in DOMAIN s.use : IsVar(s.use[k])}}
Block(label) == [label |-> label, stmts |-> <<>>]

\* The blocks that may follow each block, in the order of the edges.
IR_function_build_graph(f) ==
  LET n == Len(f.blocks)
      At(l) == CHOOSE b \in 1 .. n : f.blocks[b].label = l
      Succ(b) == LET ss == f.blocks[b].stmts
                 IN  CASE b = n -> <<>>
                       [] b < n /\ ss = <<>> -> <<b + 1>>
                       [] b < n /\ ss # <<>> ->
                            LET s == Last(ss)
                            IN  CASE s.kind = "if" -> <<At(s.to[1]), IF s.to[2] = NONE THEN b + 1 ELSE At(s.to[2])>>
                                  [] s.kind = "goto" -> <<At(s.to[1])>>
                                  [] s.kind = "return" -> <<n>>
                                  [] OTHER -> <<b + 1>>
      succ == [b \in 1 .. n |-> Succ(b)]
      pred == [b \in 1 .. n |->
                 FlattenSeq([a \in 1 .. n |->
                               [k \in 1 .. Cardinality({j \in DOMAIN succ[a] : succ[a][j] = b}) |-> a]])]
  IN  [f EXCEPT !.succ = succ, !.pred = pred]

(***************************************************************************)
(* The analyses.  A fact is, for                                           *)
(*   constant    a map of variables to <<"const", n>> or NAC;              *)
(*   available   [top, set], the set of the variables that hold the value  *)
(*               of their expression;                                      *)
(*   copy        [top, use, def]: what a variable is a copy of, and the    *)
(*               other way round;                                          *)
(*   live        a set of variables.                                       *)
(***************************************************************************)
NAC == <<"nac">>
UNDEF == <<"undef">>
Nothing == [v \in {} |-> NAC]

With(f, v, x) == [w \in DOMAIN f \cup {v} |-> IF w = v THEN x ELSE f[w]]
Without(f, v) == [w \in DOMAIN f \ {v} |-> f[w]]

meetValue(v1, v2) ==
  CASE NAC \in {v1, v2} -> NAC
    [] NAC \notin {v1, v2} /\ v1 = UNDEF -> v2
    [] NAC \notin {v1, v2} /\ v1 # UNDEF -> IF v2 \in {UNDEF, v1} THEN v1 ELSE NAC

calculateValue(op, v1, v2) ==
  CASE op = "/" /\ v2 = <<"const", 0>> -> UNDEF
    [] ~(op = "/" /\ v2 = <<"const", 0>>) ->
         IF NAC \in {v1, v2} THEN NAC
         ELSE IF UNDEF \in {v1, v2} THEN UNDEF
         ELSE <<"const", Compute(op, v1[2], v2[2])>>

Fact_get_value(fact, x) ==
  IF ~IsVar(x) THEN x ELSE IF x[2] \in DOMAIN fact THEN fact[x[2]] ELSE UNDEF

Fact_update_value(fact, v, val) == IF val = UNDEF THEN Without(fact, v) ELSE With(fact, v, val)

isForward(a) == a # "live"

newInitialFact(a) ==
  CASE a = "constant" -> Nothing
    [] a = "available" -> [top |-> TRUE, set |-> {}]
    [] a = "copy" -> [top |-> TRUE, use |-> Nothing, def |-> Nothing]
    [] a = "live" -> {}

newBoundaryFact(a, f) ==
  CASE a = "constant" -> [v \in {f.params[j] : j \in DOMAIN f.params} |-> NAC]
    [] a \in {"available", "copy"} -> [newInitialFact(a) EXCEPT !.top = FALSE]
    [] a = "live" -> {}

\* The copies that fact holds too stay in target; the first copy of a variable is found from it.
CopyMeet(fact, target) ==
  LET gone == {d \in DOMAIN target.use : d \notin DOMAIN fact.use \/ fact.use[d] # target.use[d]}
      lost == {target.use[d] : d \in gone}
      used == {fact.use[d] : d \in DOMAIN fact.use}
  IN  CASE fact.top -> target
        [] ~fact.top /\ target.top ->
             [top |-> FALSE, use |-> fact.use,
              def |-> [u \in used |-> Min({d \in DOMAIN fact.use : fact.use[d] = u})]]
        [] ~fact.top /\ ~target.top ->
             [target EXCEPT !.use = [d \in DOMAIN @ \ gone |-> @[d]], !.def = [u \in DOMAIN @ \ lost |-> @[u]]]

\* What target becomes when fact flows into it.
meetInto(a, fact, target) ==
  CASE a = "constant" ->
         [v \in DOMAIN fact \cup DOMAIN target |-> meetValue(Fact_get_value(target, Val(v)), Fact_get_value(fact, Val(v)))]
    [] a = "available" ->
         IF fact.top THEN target
         ELSE [top |-> FALSE, set |-> IF target.top THEN target.set \cup fact.set ELSE target.set \cap fact.set]
    [] a = "copy" -> CopyMeet(fact, target)
    [] a = "live" -> target \cup fact

ConstantTransfer(s, fact) ==
  LET Value(j) == Fact_get_value(fact, s.use[j])
  IN  CASE s.kind = "assign" -> Fact_update_value(fact, s.rd, Value(1))
        [] s.kind = "op" -> Fact_update_value(fact, s.rd, calculateValue(s.op, Value(1), Value(2)))
        [] OTHER -> IF s.rd = NONE THEN fact ELSE Fact_update_value(fact, s.rd, NAC)

\* Mutant of AvailableTransfer: a definition kills no expression.
NeverKilled(kills, s, fact) == [fact EXCEPT !.set = @ \cup (IF s.kind = "op" THEN {s.rd} ELSE {})]

AvailableTransfer(kills, s, fact) ==
  [fact EXCEPT !.set = (IF s.rd \in DOMAIN kills THEN @ \ kills[s.rd] ELSE @)
                       \cup (IF s.kind = "op" THEN {s.rd} ELSE {})]

\* A definition ends the copy it is and the one copy that is found from it; then an assignment is a copy.
CopyTransfer(s, fact) ==
  LET v == s.rd
      f1 == IF v \notin DOMAIN fact.use THEN fact
            ELSE [fact EXCEPT !.use = Without(@, v), !.def = Without(@, fact.use[v])]
      f2 == IF v \notin DOMAIN f1.def THEN f1
            ELSE [f1 EXCEPT !.use = Without(@, f1.def[v]), !.def = Without(@, v)]
  IN  IF s.kind = "assign" /\ IsVar(s.use[1])
      THEN [f2 EXCEPT !.use = With(@, v, s.use[1][2]), !.def = With(@, s.use[1][2], v)]
      ELSE f2

LiveTransfer(s, fact) == (fact \ {s.rd}) \cup Uses(s)

transferStmt(a, kills, s, fact) ==
  CASE a = "constant" -> ConstantTransfer(s, fact)
    [] a = "available" -> AvailableTransfer(kills, s, fact)
    [] a = "copy" -> CopyTransfer(s, fact)
    [] a = "live" -> LiveTransfer(s, fact)

(***************************************************************************)
(* The solver.  Its state o has the functions, the one at work o.f, the    *)
(* analyses left for it, the first one at work; the facts before and after *)
(* each block; the blocks to visit; the expression variables a variable's  *)
(* definition kills.                                                       *)
(***************************************************************************)
Func(o) == o.funcs[o.f]
Blocks(o) == DOMAIN Func(o).blocks
Analysis(o) == Head(o.todo)

\* Mutant of Initialize: it still says that a definition was removed.
UpdatedKept(o) ==
  LET a == Analysis(o)
      first == newInitialFact(a)
      edge == newBoundaryFact(a, Func(o))
      n == Len(Func(o).blocks)
  IN  [o EXCEPT !.in = [b \in Blocks(o) |-> IF ~isForward(a) /\ b = n THEN edge ELSE first],
                !.out = [b \in Blocks(o) |-> IF isForward(a) /\ b = 1 THEN edge ELSE first],
                !.queue = [b \in Blocks(o) |-> b], !.block = 1]

\* The facts before the first visit: every block is to be visited.
Initialize(o) ==
  LET a == Analysis(o)
      first == newInitialFact(a)
      edge == newBoundaryFact(a, Func(o))
      n == Len(Func(o).blocks)
  IN  [o EXCEPT !.in = [b \in Blocks(o) |-> IF ~isForward(a) /\ b = n THEN edge ELSE first],
                !.out = [b \in Blocks(o) |-> IF isForward(a) /\ b = 1 THEN edge ELSE first],
                !.queue = [b \in Blocks(o) |-> b], !.block = 1, !.updated = FALSE]

transferBlock(o, b, fact) ==
  LET a == Analysis(o)
      ss == Func(o).blocks[b].stmts
  IN  Through(LAMBDA x, s : transferStmt(a, o.kills, s, x), meetInto(a, fact, newInitialFact(a)),
               IF isForward(a) THEN ss ELSE Reverse(ss))

\* What fact becomes when the facts of the blocks bs flow into it.
MeetAll(a, facts, bs, fact) == Through(LAMBDA x, c : meetInto(a, facts[c], x), fact, bs)

\* The facts around block b, from those of the blocks next to it.
Visit(o, b) ==
  LET a == Analysis(o)
      before == MeetAll(a, o.out, Func(o).pred[b], o.in[b])
      after == MeetAll(a, o.in, Func(o).succ[b], o.out[b])
  IN  IF isForward(a)
      THEN [o EXCEPT !.in[b] = before, !.out[b] = meetInto(a, transferBlock(o, b, before), @)]
      ELSE [o EXCEPT !.out[b] = after, !.in[b] = meetInto(a, transferBlock(o, b, after), @)]

\* Mutant of worklistDoSolve: the blocks that follow are queued, whichever way the facts flow.
QueuesForward(o) ==
  LET b == Head(o.queue)
      q == Visit(o, b)
      changed == IF isForward(Analysis(o)) THEN q.out[b] # o.out[b] ELSE q.in[b] # o.in[b]
  IN  [q EXCEPT !.queue = Tail(@) \o (IF changed THEN Func(o).succ[b] ELSE <<>>)]

\* The next block of the worklist; when its fact changes, the blocks that depend on it are queued.
worklistDoSolve(o) ==
  LET b == Head(o.queue)
      q == Visit(o, b)
      more == IF isForward(Analysis(o)) THEN IF q.out[b] # o.out[b] THEN Func(o).succ[b] ELSE <<>>
              ELSE IF q.in[b] # o.in[b] THEN Func(o).pred[b] ELSE <<>>
  IN  [q EXCEPT !.queue = Tail(@) \o more]
=============================================================================
