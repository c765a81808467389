------------------------------ MODULE Rewriting ------------------------------
(***************************************************************************)
(* How lab 5's optimizer (lab5/Code/src/IR_optimize) rewrites a function   *)
(* with the facts that an analysis has found: constants and copies are put *)
(* in the place of variables, operations whose value is there already and  *)
(* definitions that nothing uses are taken out.                            *)
(***************************************************************************)
EXTENDS DataFlow

\* Uses of a constant become the constant.
constant_folding(s, fact) ==
  [s EXCEPT !.use = [j \in DOMAIN @ |-> LET v == Fact_get_value(fact, @[j])
                                        IN  IF v \in {NAC, UNDEF} THEN @[j] ELSE v]]

\* Uses of a copy become uses of what it is a copy of.
replace_available_use_copy(s, fact) ==
  [s EXCEPT !.use = [j \in DOMAIN @ |-> IF IsVar(@[j]) /\ @[j][2] \in DOMAIN fact.use
                                        THEN Val(fact.use[@[j][2]]) ELSE @[j]]]

Replaced(a, s, fact) ==
  CASE a = "constant" -> constant_folding(s, fact)
    [] a = "copy" -> replace_available_use_copy(s, fact)
    [] OTHER -> s

\* An operation whose variable holds its value already.
Available(s, fact) == s.kind = "op" /\ s.rd \in fact.set

\* A definition that nothing uses.
Dead(s, fact) == s.kind \in {"op", "assign"} /\ s.rd \notin fact

Removed(a, s, fact) == (a = "available" /\ Available(s, fact)) \/ (a = "live" /\ Dead(s, fact))

\* Mutant of RewriteStmt: the statement goes through the fact before it is looked at.
RewriteStmtLate(a, kills, s0, r) ==
  LET s == Replaced(a, s0, r[1])
      x == transferStmt(a, kills, s, r[1])
  IN  <<x, IF Removed(a, s, x) THEN r[2] ELSE Append(r[2], s)>>

\* One statement: r is the fact before it (for live, after it) and the statements kept so far.
RewriteStmt(a, kills, s0, r) ==
  LET s == Replaced(a, s0, r[1])
  IN  <<transferStmt(a, kills, s, r[1]), IF Removed(a, s, r[1]) THEN r[2] ELSE Append(r[2], s)>>

\* The statements of a block in the order in which facts go through them.
InOrder(a, ss) == IF isForward(a) THEN ss ELSE Reverse(ss)

\* What block b has become after each of its statements.
Rewritings(o, b) ==
  LET a == Analysis(o)
      ss == InOrder(a, Func(o).blocks[b].stmts)
      start == meetInto(a, IF isForward(a) THEN o.in[b] ELSE o.out[b], newInitialFact(a))
      at[k \in 0 .. Len(ss)] == IF k = 0 THEN <<start, <<>>>>
                                ELSE Apply(LAMBDA r, s : RewriteStmt(a, o.kills, s, r), at[k - 1], ss[k])
  IN  at

Rewritten(o, b) == InOrder(Analysis(o), Rewritings(o, b)[Len(Func(o).blocks[b].stmts)][2])

\* Rewrites the next block with the facts found; it and the facts inside it go forth, or back for live.
RewriteBlock(o) ==
  LET b == o.block
      kept == Rewritten(o, b)
  IN  [o EXCEPT !.funcs[o.f].blocks[b].stmts = kept,
                !.block = @ + 1,
                !.updated = @ \/ (Analysis(o) = "live" /\ Len(kept) < Len(Func(o).blocks[b].stmts))]
=============================================================================
