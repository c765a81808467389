------------------------------ MODULE Translator ------------------------------
(***************************************************************************)
(* Translation of a C-- program into intermediate code (lab4/Code/ir.c).   *)
(*                                                                         *)
(* Operands: <<"var", x>>, <<"temp", n>>, <<"const", n>>, <<"addr", op>>,  *)
(* <<"val", op>>, <<"func", f>>, and labels as numbers.                    *)
(* Instructions: <<"function", f>>, <<"param", x>>, <<"dec", x, size>>,    *)
(* <<":=", x, y>>, <<"arith", o, x, y, z>>, <<"label", l>>, <<"goto", l>>, *)
(* <<"if", o, x, y, l>>, <<"return", x>>, <<"arg", x>>, <<"call", x, f>>,  *)
(* <<"read", x>>, <<"write", x>>.  The NULL_ placeholders are left out.    *)
(*                                                                         *)
(* A state s is the checker's, with the operand of each symbol that has    *)
(* one, the two counters, the function and the code so far, the sizes of   *)
(* the types of its operands (4 when there is none), the place (operand,   *)
(* type and is_addr) of the expression just translated, and whether the    *)
(* compiler has stopped: an assertion failed, a NULL was dereferenced or a *)
(* type was read as one of another kind, from which nothing definite       *)
(* follows.  Nothing more is done.                                         *)
(***************************************************************************)
LOCAL INSTANCE Integers
LOCAL INSTANCE Sequences
LOCAL INSTANCE Walk
LOCAL INSTANCE SequencesExt
LOCAL INSTANCE TLC
C == INSTANCE Checker

Temp(s, i) == <<"temp", s.temps + i>>
newTemps(s, n) == [s EXCEPT !.temps = @ + n]
newLabels(s, n) == [s EXCEPT !.labels = @ + n]
newConst(n) == <<"const", n>>

Code(s, i) == [s EXCEPT !.code = Append(@, i)]
Stop(s) == [s EXCEPT !.stopped = TRUE]

Operand(o, t, addr) == [op |-> o, type |-> t, is_addr |-> addr]
Place(s, o, t, addr) == [s EXCEPT !.place = Operand(o, t, addr)]
Plain(s, o) == Place(s, o, C!NULL, FALSE)

is_memop(o) == o[1] \in {"addr", "val"}

RECURSIVE getSizeof(_)
getSizeof(t) ==
  CASE t[1] = "array" -> FoldLeft(LAMBDA n, k : n * k, 1, t[3]) * getSizeof(t[2])
    [] t[1] \in {"struct", "structdef"} -> FoldLeft(LAMBDA n, f : n + getSizeof(f.type), 0, t[3])
    [] OTHER -> 4

\* The first operand of a name gives its slot in the frame its size.
Sized(s, o, t) == [s EXCEPT !.sizes = @ @@ (<<s.function, o>> :> getSizeof(t))]

\* The operand of a variable: the symbol's own, made when it is first needed.
getOperand(s, x) ==
  IF ~C!Found(s, x) THEN Stop(s)
  ELSE LET i == C!search_symbol_all(s, x)
           o == IF s.syms[i].op = <<>> THEN Operand(<<"var", x>>, s.syms[i].type, FALSE)
                ELSE s.syms[i].op[1]
       IN  [Sized(s, o.op, o.type) EXCEPT !.syms[i].op = <<o>>, !.place = o]

\* What is passed for a structure or an array: its address.
handleAddressOperand(p) ==
  IF p.is_addr \/ p.type[1] \notin {"struct", "array"} THEN p
  ELSE Operand(IF p.op[1] = "val" THEN p.op[2] ELSE <<"addr", p.op>>, p.type, TRUE)

\* A dereference or an address is first copied to a temporary.
transform_addr(s, o) ==
  IF is_memop(o) THEN Plain(Code(newTemps(s, 1), <<":=", Temp(s, 0), o>>), Temp(s, 0))
  ELSE Plain(s, o)

BothCopied(dst, op, l, r) == Code(r, <<"arith", op, dst, l.place.op, r.place.op>>)
FirstCopied(dst, op, l, b) == BothCopied(dst, op, l, transform_addr(l, b))
arithmetic(s, dst, a, b, op) == FirstCopied(dst, op, transform_addr(s, a), b)

RECURSIVE Exp(_, _, _), Condition(_, _, _, _)

\* The states after two operands, whose places are the first two of the next temporaries.
Then(f, place, a) == <<a, Exp(f, place, a)>>
Both(e, f, s) == Then(f, Temp(s, 1), Exp(e, Temp(s, 0), newTemps(s, 2)))

If(s, op, a, b, lt, lf) == Code(Code(s, <<"if", op, a.place.op, b, lt>>), <<"goto", lf>>)
IfCompare(ab, op, lt, lf) == If(ab[2], op, ab[1], ab[2].place.op, lt, lf)
IfNonzero(a, lt, lf) == If(a, "!=", a, newConst(0), lt, lf)

\* A jump to lt when the expression holds, and else to lf.
Condition(e, lt, lf, s) ==
  CASE s.stopped -> s
    [] e[1] = "not" -> Condition(e[2], lf, lt, s)
    [] e[1] = "rel" -> IfCompare(Both(e[3], e[4], s), e[2], lt, lf)
    [] e[1] \in {"and", "or"} ->
         LET tmp == s.labels
             first == Condition(e[2], IF e[1] = "and" THEN tmp ELSE lt,
                                IF e[1] = "and" THEN lf ELSE tmp, newLabels(s, 1))
         IN  Condition(e[3], lt, lf, Code(first, <<"label", tmp>>))
    [] OTHER -> IfNonzero(Exp(e, Temp(s, 0), newTemps(s, 1)), lt, lf)

\* r, in state b, is assigned to l and l to place.
Assigned(b, l, r, place) == Plain(Code(Code(b, <<":=", l, r>>), <<":=", place, l>>), place)

\* An assignment of arrays copies the address, and the left one is an address from then on.
Assign(x, l, b, place) ==
  LET r == b.place
      array == r.type[1] = "array" /\ ~r.is_addr
      i == C!search_symbol_all(b, x[2])
      marked == IF array /\ l.type[1] = "array" /\ ~l.is_addr /\ x[1] = "id"
                THEN [b EXCEPT !.syms[i].op[1].is_addr = TRUE] ELSE b
  IN  Assigned(marked, l.op, IF array THEN handleAddressOperand(r).op ELSE r.op, place)

AssignExp(e, place, ab) == Assign(e[2], ab[1].place, ab[2], place)

LogicalExp(e, place, s) ==
  LET l1 == s.labels
      l2 == s.labels + 1
      c == Condition(e, l1, l2, Code(newLabels(s, 2), <<":=", place, newConst(0)>>))
  IN  Plain(Code(Code(Code(c, <<"label", l1>>), <<":=", place, newConst(1)>>), <<"label", l2>>), place)

ArithExp(op, place, ab) ==
  Plain(arithmetic(ab[2], place, ab[1].place.op, ab[2].place.op, op), place)

Negated(a, place) == Plain(arithmetic(a, place, newConst(0), a.place.op, "-"), place)

RECURSIVE Args(_, _)
\* Every argument is evaluated before the first ARG; the last argument's ARG comes first.
Arg(es, a) == Code(Args(es, a), <<"arg", handleAddressOperand(a.place).op>>)
Args(es, s) ==
  IF es = <<>> THEN s ELSE Arg(Tail(es), Exp(Head(es), Temp(s, 0), newTemps(s, 1)))

Write(a, place) == Plain(Code(a, <<"write", a.place.op>>), place)

\* A call, by the name of its operand; what write returns is never assigned to its place.
CallExp(e, place, s) ==
  IF ~C!Found(s, e[2]) THEN Stop(s)
  ELSE IF s.syms[C!search_symbol_all(s, e[2])].op = <<>> THEN Stop(s)
  ELSE IF e[2] = "read" THEN Plain(Code(s, <<"read", place>>), place)
  ELSE IF e[2] = "write" THEN Write(Exp(e[3][1], Temp(s, 0), newTemps(s, 1)), place)
  ELSE Plain(Code(Args(e[3], s), <<"call", place, e[2]>>), place)

\* The address of the array or structure in s.place: a dereference's own, a variable's address,
\* or a parameter's value.  A temporary that holds one takes the type of what is there.
Base(s) ==
  LET p == s.place
      o == p.op[2]
  IN  CASE p.op[1] = "val" /\ o[1] = "temp" ->
             Plain([s EXCEPT !.sizes = (<<s.function, o>> :> getSizeof(p.type)) @@ @], o)
        [] p.op[1] = "val" /\ o[1] # "temp" -> Plain(s, o)
        [] p.op[1] # "val" /\ ~p.is_addr -> Plain(s, <<"addr", p.op>>)
        [] OTHER -> Plain(s, p.op)

\* The place is what is stored at addr, an address of its own being first copied to a temporary.
Dereference(s, addr, t) ==
  IF addr[1] = "addr"
  THEN Place(Code(newTemps(s, 1), <<":=", Temp(s, 0), addr>>), <<"val", Temp(s, 0)>>, t, FALSE)
  ELSE Place(s, <<"val", addr>>, t, FALSE)

\* The element of type t at the index i.place, of the array whose address is base.
Element(t, i, base, temp) ==
  LET addr == Temp(i, 0)
      offset == arithmetic(newTemps(i, 1), temp, i.place.op, newConst(getSizeof(t)), "*")
  IN  IF i.place.op = newConst(0) THEN Dereference(i, base.place.op, t)
      ELSE Dereference(arithmetic(offset, addr, base.place.op, temp, "+"), addr, t)

\* The array is in a; those of several dimensions never get here (array_flag).
Indexed(e, s, t, base) == Element(t, Exp(e[3], Temp(s, 1), base), base, Temp(s, 2))
IndexExp(e, s, a) == IF a.place.type[1] # "array" THEN Stop(a) ELSE Indexed(e, s, a.place.type[2], Base(a))

\* The field x of the structure in a, whose address is base: the fields before it are skipped.
Member(x, fields, base, a) ==
  LET k == SelectInSeq(fields, LAMBDA f : f.name = x)
      t == IF k = 0 THEN C!NULL ELSE fields[k].type
      skipped == IF k = 0 THEN fields ELSE SubSeq(fields, 1, k - 1)
      offset == FoldLeft(LAMBDA n, f : n + getSizeof(f.type), 0, skipped)
      addr == Temp(a, 0)
      moved == arithmetic(newTemps(base, 1), addr, base.place.op, newConst(offset), "+")
  IN  IF offset # 0 THEN Dereference(moved, addr, t) ELSE Dereference(base, base.place.op, t)

DotExp(x, a) ==
  IF a.place.type[1] \in {"struct", "structdef"} THEN Member(x, a.place.type[3], Base(a), a) ELSE Stop(a)

Exp(e, place, s) ==
  CASE s.stopped -> s
    [] e[1] = "assign" -> AssignExp(e, place, Both(e[2], e[3], s))
    [] e[1] \in {"not", "and", "or", "rel"} -> LogicalExp(e, place, s)
    [] e[1] = "arith" -> ArithExp(e[2], place, Both(e[3], e[4], s))
    [] e[1] = "paren" -> Exp(e[2], place, s)
    [] e[1] = "neg" -> Negated(Exp(e[2], Temp(s, 0), newTemps(s, 1)), place)
    [] e[1] = "call" -> CallExp(e, place, s)
    [] e[1] = "index" -> IndexExp(e, s, Exp(e[2], Temp(s, 0), newTemps(s, 3)))
    [] e[1] = "dot" -> DotExp(e[3], Exp(e[2], Temp(s, 0), newTemps(s, 1)))
    [] e[1] = "id" -> getOperand(s, e[2])
    [] e[1] \in {"int", "float"} -> Plain(s, newConst(e[2]))

insert_symbol(s, x, t, op) ==
  [s EXCEPT !.syms = <<[name |-> x, type |-> t, op |-> op]>> \o @]

Kept(s) == [s EXCEPT !.syms = [i \in DOMAIN @ |->
              [name |-> @[i].name, type |-> @[i].type, op |-> IF "op" \in DOMAIN @[i] THEN @[i].op ELSE <<>>]]]

\* The translator uses the checker's Specifier, whose new symbols have no operand yet.
Specifier(sp, s) == Kept(C!Specifier(sp, s))

\* The variable's symbol; an array or a structure is given its storage.
VarDec(x, type, s) ==
  LET var == Operand(<<"var", x>>, type, FALSE)
  IN  IF type[1] \in {"array", "struct"}
      THEN Code(Sized(insert_symbol(s, x, type, <<var>>), var.op, type), <<"dec", var.op, getSizeof(type)>>)
      ELSE insert_symbol(s, x, type, <<>>)

\* The initial value is in r, the variable's operand in v.
Initialised(v, r) == Code(r, <<":=", v.place.op, r.place.op>>)
Initialise(e, v) == Initialised(v, Exp(e, Temp(v, 0), newTemps(v, 1)))

Dec(d, t, s) ==
  LET v == VarDec(d.name, IF d.dims = <<>> THEN t ELSE <<"array", t, Reverse(d.dims)>>, s)
  IN  IF d.init = <<>> THEN v ELSE Initialise(d.init[1], getOperand(v, d.name))

\* The variables of one definition, its specifier's type being s.type.
DecList(decs, s) ==
  IF s.type = C!NULL THEN Stop(s) ELSE Through(LAMBDA r, d : Dec(d, s.type, r), s, decs)

DefList(defs, s) == Through(LAMBDA r, def : DecList(def.decs, Specifier(def.spec, r)), s, defs)

RECURSIVE Stmt(_, _)

\* A body; its variables stay in the symbol table when it ends, which has no layers here.
CompSt(body, s) == Through(LAMBDA r, c : Stmt(c, r), DefList(body.defs, s), body.stmts)

WhileStmt(c, s) ==
  LET l == s.labels
      cond == Condition(c[2], l + 1, l + 2, Code(newLabels(s, 3), <<"label", l>>))
      body == Stmt(c[3], Code(cond, <<"label", l + 1>>))
  IN  Code(Code(body, <<"goto", l>>), <<"label", l + 2>>)

IfStmt(c, s) ==
  LET l == s.labels
      cond == Condition(c[2], l, l + 1, newLabels(s, 2))
  IN  Code(Stmt(c[3], Code(cond, <<"label", l>>)), <<"label", l + 1>>)

IfElseStmt(c, s) ==
  LET l == s.labels
      cond == Condition(c[2], l, l + 1, newLabels(s, 3))
      then == Code(Stmt(c[3], Code(cond, <<"label", l>>)), <<"goto", l + 2>>)
  IN  Code(Stmt(c[4], Code(then, <<"label", l + 1>>)), <<"label", l + 2>>)

Return(a) == Code(a, <<"return", a.place.op>>)

Stmt(c, s) ==
  CASE s.stopped -> s
    [] c[1] = "exp" -> Exp(c[2], Temp(s, 0), newTemps(s, 1))
    [] c[1] = "block" -> CompSt(c[2], s)
    [] c[1] = "return" -> Return(Exp(c[2], Temp(s, 0), newTemps(s, 1)))
    [] c[1] = "while" -> WhileStmt(c, s)
    [] c[1] = "if" -> IfStmt(c, s)
    [] c[1] = "ifelse" -> IfElseStmt(c, s)

\* The parameters FunDec returned; an array or a structure is passed as an address.
ParamDec(s, p) ==
  LET o == Operand(<<"var", p.name>>, p.type, p.type[1] \in {"struct", "array"})
  IN  Code(Sized(insert_symbol(s, p.name, p.type, <<o>>), o.op, p.type), <<"param", o.op>>)

\* The function d, of type ret, is declared in f, which holds its parameters.
ParamList(f, d) == Through(ParamDec, Code([f EXCEPT !.function = d.name], <<"function", d.name>>), f.list)
FuncSymbol(s, d, f, ret) ==
  LET type == <<"func", d.name, ret, f.list>>
  IN  insert_symbol(s, d.name, type, <<Operand(<<"func", d.name>>, type, FALSE)>>)
FunDec(d, r) == Kept(C!FunDec(d.params, r))

\* Mutant of Function: a function gets its symbol after its body.
FunctionLate(d, ret, f) == FuncSymbol(CompSt(d.body, ParamList(f, d)), d, f, ret)

Function(d, ret, f) == CompSt(d.body, FuncSymbol(ParamList(f, d), d, f, ret))

\* A function; a global variable has no code and no symbol.
External(d, r) == IF d.kind = "decl" THEN r ELSE Function(d, r.type, FunDec(d, r))
ExtDef(s, d) == External(d, Specifier(d.spec, s))

initializeReadWriteFunctions(stray) ==
  LET c == C!init_symbol_table(stray)
  IN  [syms |-> [i \in DOMAIN c.syms |->
                   [name |-> c.syms[i].name, type |-> c.syms[i].type,
                    op |-> <<Operand(<<"func", c.syms[i].name>>, c.syms[i].type, FALSE)>>]],
       layers |-> c.layers, errors |-> {}, array_flag |-> FALSE, stray |-> stray, type |-> C!NULL,
       list |-> <<>>, temps |-> 0, labels |-> 0, function |-> "", code |-> <<>>,
       sizes |-> [k \in {} |-> 4], place |-> Operand(newConst(0), C!NULL, FALSE),
       stopped |-> FALSE]

\* The instruction i with every operand that a machine instruction cannot take copied first.
formatCode(s, i) ==
  LET copied(o) == Plain(Code(newTemps(s, 1), <<":=", Temp(s, 0), o>>), Temp(s, 0))
  IN  CASE i[1] = ":=" ->
             LET r == IF is_memop(i[2]) THEN transform_addr(s, i[3]) ELSE Plain(s, i[3])
             IN  Code(r, <<":=", i[2], r.place.op>>)
        [] i[1] = "if" ->
             LET a == transform_addr(s, i[3])
                 b == transform_addr(a, i[4])
             IN  Code(b, <<"if", i[2], a.place.op, b.place.op, i[5]>>)
        [] i[1] = "return" -> LET a == transform_addr(s, i[2]) IN Code(a, <<"return", a.place.op>>)
        [] i[1] \in {"read", "write"} /\ (is_memop(i[2]) \/ i[2][1] = "const") ->
             LET a == copied(i[2]) IN Code(a, <<i[1], a.place.op>>)
        [] OTHER -> Code(s, i)

=============================================================================
