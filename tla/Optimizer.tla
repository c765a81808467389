------------------------------- MODULE Optimizer -------------------------------
(***************************************************************************)
(* The optimizer of lab 5 (lab5/Code/src): intermediate code is read into  *)
(* the basic blocks of its functions, four data-flow analyses are solved   *)
(* over them and the code is rewritten after each (Rewriting).             *)
(*                                                                         *)
(* A value is <<"const", n>> or <<"var", v>>, where v > 0 is a variable.   *)
(* A statement is [kind, op, rd, use, to]: what it computes, the variable  *)
(* it defines (0 if none), the values it uses and the labels it goes to.   *)
(* A function is [name, params, dec, blocks, succ, pred], where a block is *)
(* [label, stmts], the first one the entry and the last one the exit.      *)
(* The reader's state is [names, count, funcs, args].                      *)
(***************************************************************************)
LOCAL INSTANCE Integers
LOCAL INSTANCE Sequences
LOCAL INSTANCE Walk
LOCAL INSTANCE SequencesExt
LOCAL INSTANCE FiniteSetsExt
LOCAL INSTANCE TLC
L == INSTANCE CMinus
INSTANCE Rewriting WITH Compute <- L!Compute

(****************************** the reader ******************************)

ir_var_generator(p) == [p EXCEPT !.count = @ + 1]

get_IR_var(p, x) ==
  IF x \in DOMAIN p.names THEN p
  ELSE [ir_var_generator(p) EXCEPT !.names = (x :> p.count + 1) @@ @]

\* The reader's label of a label: a number of its own that is not NONE.
get_IR_label(l) == l + 1

\* The last function read, changed.
Now(p) == Last(p.funcs)
Change(p, f) == [p EXCEPT !.funcs[Len(p.funcs)] = f]

\* A goto after an if without one is the if's other label; any other statement after a jump is in a new block.
IR_function_push_stmt(f, s) ==
  LET b == Len(f.blocks)
      ss == f.blocks[b].stmts
      jumped == ss # <<>> /\ Last(ss).kind \in {"goto", "if", "return"}
  IN  IF jumped /\ s.kind = "goto" /\ Last(ss).kind = "if" /\ Last(ss).to[2] = NONE
      THEN [f EXCEPT !.blocks[b].stmts[Len(ss)].to[2] = s.to[1]]
      ELSE IF jumped THEN [f EXCEPT !.blocks = Append(@, [Block(NONE) EXCEPT !.stmts = <<s>>])]
      ELSE [f EXCEPT !.blocks[b].stmts = Append(@, s)]

IR_RELOP_NEG(op) ==
  CASE op = "==" -> "!=" [] op = "!=" -> "==" [] op = "<" -> ">="
    [] op = ">" -> "<=" [] op = "<=" -> ">" [] op = ">=" -> "<"

IR_if_stmt_flip(s) == [s EXCEPT !.op = IR_RELOP_NEG(@), !.to = <<@[2], @[1]>>]

RECURSIVE IR_block_strip_goto_stmt(_, _)
\* A jump to the label that follows the block is left out.
IR_block_strip_goto_stmt(ss, label) ==
  IF ss = <<>> THEN ss
  ELSE LET s == Last(ss)
           t == IF s.kind = "if" /\ s.to[1] = label THEN IR_if_stmt_flip(s) ELSE s
       IN  IF s.kind = "goto" /\ s.to[1] = label THEN IR_block_strip_goto_stmt(Front(ss), label)
           ELSE IF s.kind = "if" /\ t.to[2] = label THEN Append(Front(ss), [t EXCEPT !.to[2] = NONE])
           ELSE Append(Front(ss), t)

IR_function_push_label(f, label) ==
  [f EXCEPT !.blocks = Append(Front(@), [Last(@) EXCEPT !.stmts = IR_block_strip_goto_stmt(@, label)])
                       \o <<Block(label)>>]

\* The value of an operand: the reader and the value; a dereference is first loaded to a new variable.
IR_val(p, x) ==
  CASE x[1] = "const" -> <<p, x>>
    [] x[1] = "addr" -> LET q == get_IR_var(p, x[2]) IN <<q, Val(Now(q).dec[q.names[x[2]]].addr)>>
    [] OTHER -> LET q == get_IR_var(p, x) IN <<q, Val(q.names[x])>>

IR_val_rs(p, x) ==
  IF x[1] # "val" THEN IR_val(p, x)
  ELSE LET a == IR_val(p, x[2])
           q == ir_var_generator(a[1])
       IN  <<Change(q, IR_function_push_stmt(Now(q), Stmt("load", "", q.count, <<a[2]>>, <<>>))), Val(q.count)>>

\* A statement that defines rd (an operand, or none) and uses the operands xs, which are read in this order.
Statement(p, kind, op, rd, xs, to) ==
  LET q == Through(get_IR_var, p, rd)
      r == Through(LAMBDA a, x : LET v == IR_val_rs(a[1], x) IN <<v[1], Append(a[2], v[2])>>, <<q, <<>>>>, xs)
      d == IF rd = <<>> THEN NONE ELSE q.names[rd[1]]
  IN  Change(r[1], IR_function_push_stmt(Now(r[1]), Stmt(kind, op, d, r[2], to)))

Function(f) == [name |-> f, params |-> <<>>, dec |-> <<>>, blocks |-> <<Block(NONE)>>, succ |-> <<>>, pred |-> <<>>]

\* One line of intermediate code.
IR_parse(p, i) ==
  CASE i[1] = "function" -> [p EXCEPT !.funcs = Append(@, Function(i[2]))]
    [] i[1] = "param" ->
         LET q == get_IR_var(p, i[2]) IN Change(q, [Now(q) EXCEPT !.params = Append(@, q.names[i[2]])])
    [] i[1] = "dec" ->
         LET q == get_IR_var(p, i[2])
             d == q.names[i[2]] :> [addr |-> q.count + 1, size |-> i[3]]
         IN  Change(ir_var_generator(q), [Now(q) EXCEPT !.dec = @ @@ d])
    [] i[1] = "arg" -> LET a == IR_val_rs(p, i[2]) IN [a[1] EXCEPT !.args = Append(@, a[2])]
    [] i[1] = "label" -> Change(p, IR_function_push_label(Now(p), get_IR_label(i[2])))
    [] i[1] = ":=" /\ i[2][1] = "val" ->
         LET a == IR_val(p, i[2][2])
             r == IR_val_rs(a[1], i[3])
         IN  Change(r[1], IR_function_push_stmt(Now(r[1]), Stmt("store", "", NONE, <<r[2], a[2]>>, <<>>)))
    [] i[1] = ":=" /\ i[2][1] # "val" ->
         IF i[3][1] = "val" THEN Statement(p, "load", "", <<i[2]>>, <<i[3][2]>>, <<>>)
         ELSE Statement(p, "assign", "", <<i[2]>>, <<i[3]>>, <<>>)
    [] i[1] = "arith" -> Statement(p, "op", i[2], <<i[3]>>, <<i[4], i[5]>>, <<>>)
    [] i[1] = "goto" -> Statement(p, "goto", "", <<>>, <<>>, <<get_IR_label(i[2])>>)
    [] i[1] = "if" -> Statement(p, "if", i[2], <<>>, <<i[3], i[4]>>, <<get_IR_label(i[5]), NONE>>)
    [] i[1] \in {"return", "write"} -> Statement(p, i[1], "", <<>>, <<i[2]>>, <<>>)
    [] i[1] = "read" -> Statement(p, "read", "", <<i[2]>>, <<>>, <<>>)
    [] i[1] = "call" ->
         LET q == get_IR_var(p, i[2])
         IN  Change([q EXCEPT !.args = <<>>],
                    IR_function_push_stmt(Now(q), Stmt("call", i[3], q.names[i[2]], q.args, <<>>)))

IR_function_closure(f) ==
  LET empty == Last(f.blocks) = Block(NONE)
  IN  IR_function_build_graph(
        [f EXCEPT !.blocks = <<Block(NONE)>> \o (IF empty THEN Front(@) ELSE @) \o <<Block(NONE)>>])

(***************************************************************************)
(* The state o of the optimizer: the functions; the last variable made;    *)
(* the function f at work and the analyses left for it, the first one at   *)
(* work; the facts before and after each block; the blocks to visit; the   *)
(* next block to rewrite; the variable of each expression, the expression  *)
(* variables a variable's definition kills; whether a definition was       *)
(* removed.                                                                *)
(***************************************************************************)
PASSES == <<"constant", "available", "copy", "constant", "live">>

\* A statement that leaves an operand as it is, or multiplies or divides it by one.
simple_expr_optimize(s) ==
  LET Is(j, n) == s.use[j] = <<"const", n>>
      Copy(j) == [s EXCEPT !.kind = "assign", !.op = "", !.use = <<s.use[j]>>]
      zero == s.op = "+" /\ Is(1, 0)
      one == s.op = "*" /\ Is(1, 1)
      none == \/ s.op \in {"+", "-"} /\ Is(2, 0)
              \/ s.op \in {"*", "/"} /\ Is(2, 1)
  IN  IF zero \/ one THEN Copy(2) ELSE IF none THEN Copy(1) ELSE s

\* The order of two values: variables first.
Below(x, y) == IF x[1] # y[1] THEN IsVar(x) ELSE x[2] < y[2]

\* One operation: its expression gets a variable, which the statement's own variable becomes a copy of.
Merge(o, s0) ==
  LET s == IF s0.kind = "op" THEN simple_expr_optimize(s0) ELSE s0
      swapped == s.op \in {"+", "*"} /\ s.use[1] # s.use[2] /\ ~Below(s.use[1], s.use[2])
      e == IF swapped THEN <<s.op, s.use[2], s.use[1]>> ELSE <<s.op, s.use[1], s.use[2]>>
      new == e \notin DOMAIN o.exprs
      v == IF new THEN o.count + 1 ELSE o.exprs[e]
      killed == [u \in Uses(s) |-> {v} \cup IF u \in DOMAIN o.kills THEN o.kills[u] ELSE {}]
  IN  IF s.kind # "op" THEN [o EXCEPT !.done = Append(@, s)]
      ELSE [o EXCEPT !.done = @ \o <<[s EXCEPT !.rd = v], Stmt("assign", "", s.rd, <<Val(v)>>, <<>>)>>,
                     !.count = IF new THEN @ + 1 ELSE @,
                     !.exprs = IF new THEN (e :> v) @@ @ ELSE @,
                     !.kills = IF new THEN killed @@ @ ELSE @]

merge_common_expr(o) ==
  LET InBlock(q, b) == LET r == Through(Merge, [q EXCEPT !.done = <<>>], Func(q).blocks[b].stmts)
                       IN  [r EXCEPT !.funcs[r.f].blocks[b].stmts = r.done]
  IN  Through(InBlock, [o EXCEPT !.exprs = Nothing, !.kills = Nothing], [b \in Blocks(o) |-> b])

\* The first analysis left for this function begins.
Begin(o) == Initialize(IF Analysis(o) = "available" THEN merge_common_expr(o) ELSE o)

RECURSIVE iterativeDoSolve(_)
\* The other solver: every block in turn, until nothing changes.
iterativeDoSolve(o) ==
  LET q == Through(Visit, o, [b \in Blocks(o) |-> b])
      same == IF isForward(Analysis(o)) THEN q.out = o.out ELSE q.in = o.in
  IN  IF same THEN q ELSE iterativeDoSolve(q)

\* Dead code goes until none is found; then the next analysis, or the next function, or the end.
Following(o) ==
  LET rest == IF Analysis(o) = "live" /\ o.updated THEN o.todo ELSE Tail(o.todo)
  IN  IF rest # <<>> THEN Begin([o EXCEPT !.todo = rest])
      ELSE IF o.f < Len(o.funcs) THEN Begin([o EXCEPT !.f = @ + 1, !.todo = PASSES])
      ELSE [o EXCEPT !.todo = <<>>]

Finished(o) == o.todo = <<>>
Solving(o) == ~Finished(o) /\ o.queue # <<>>
Rewriting(o) == ~Finished(o) /\ o.queue = <<>> /\ o.block \in Blocks(o)
Done(o) == ~Finished(o) /\ o.queue = <<>> /\ o.block \notin Blocks(o)

Reader == [names |-> Nothing, count |-> 0, funcs |-> <<>>, args |-> <<>>]

\* The whole program is read: the optimizer starts with its first function.
IR_optimize(p) ==
  Begin([funcs |-> [f \in DOMAIN p.funcs |-> IR_function_closure(p.funcs[f])], count |-> p.count, f |-> 1,
         todo |-> PASSES, in |-> <<>>, out |-> <<>>, queue |-> <<>>, block |-> 1,
         exprs |-> Nothing, kills |-> Nothing, done |-> <<>>, updated |-> FALSE])

(****************************** printing ********************************)

IR_stmt_print(s) ==
  LET rd == Val(s.rd)
  IN  CASE s.kind = "assign" -> <<<<":=", rd, s.use[1]>>>>
        [] s.kind = "op" -> <<<<"arith", s.op, rd, s.use[1], s.use[2]>>>>
        [] s.kind = "load" -> <<<<":=", rd, <<"val", s.use[1]>>>>>>
        [] s.kind = "store" -> <<<<":=", <<"val", s.use[2]>>, s.use[1]>>>>
        [] s.kind = "call" -> [j \in DOMAIN s.use |-> <<"arg", s.use[j]>>] \o <<<<"call", rd, s.op>>>>
        [] s.kind = "if" -> <<<<"if", s.op, s.use[1], s.use[2], s.to[1]>>>>
                            \o (IF s.to[2] = NONE THEN <<>> ELSE <<<<"goto", s.to[2]>>>>)
        [] s.kind = "goto" -> <<<<"goto", s.to[1]>>>>
        [] s.kind \in {"return", "write"} -> <<<<s.kind, s.use[1]>>>>
        [] s.kind = "read" -> <<<<"read", rd>>>>

IR_block_print(b) ==
  (IF b.label = NONE THEN <<>> ELSE <<<<"label", b.label>>>>) \o FlattenSeq([j \in DOMAIN b.stmts |-> IR_stmt_print(b.stmts[j])])

\* A variable with space of its own is declared, and its address kept in another.
IR_function_print(f) ==
  LET decs == SetToSortSeq(DOMAIN f.dec, LAMBDA v, w : v < w)
  IN  <<<<"function", f.name>>>> \o [j \in DOMAIN f.params |-> <<"param", Val(f.params[j])>>]
      \o FlattenSeq([j \in DOMAIN decs |-> <<<<"dec", Val(decs[j]), f.dec[decs[j]].size>>,
                                            <<":=", Val(f.dec[decs[j]].addr), <<"addr", Val(decs[j])>>>>>>])
      \o FlattenSeq([j \in DOMAIN f.blocks |-> IR_block_print(f.blocks[j])])

IR_program_print(o) == FlattenSeq([f \in DOMAIN o.funcs |-> IR_function_print(o.funcs[f])])
=============================================================================
