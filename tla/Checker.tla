-------------------------------- MODULE Checker --------------------------------
(***************************************************************************)
(* Semantic analysis of a C-- program (lab4/Code/semantic.c): the symbol   *)
(* table with its layers, the types, and which errors are reported.        *)
(*                                                                         *)
(* A state c of the analysis holds the symbols, newest first (the hash     *)
(* chains: a search finds the newest of a name), the layers, innermost     *)
(* first, each with its names, the reported error types, array_flag, and   *)
(* what the last call returned: a type or a field list.                    *)
(***************************************************************************)
LOCAL INSTANCE Integers
LOCAL INSTANCE Sequences
LOCAL INSTANCE Walk
LOCAL INSTANCE SequencesExt

(* Types: <<"int">>, <<"float">>, <<"array", element, sizes>> with the last
   dimension first, <<"struct", tag, members>>, <<"structdef", tag, members>>,
   <<"func", name, return type, parameters>>, and NULL. *)

NULL == <<"null">>
INT == <<"int">>
BASIC(t) == t[1] \in {"int", "float"}
Field(x, t) == [name |-> x, type |-> t]

Error(c, n) == [c EXCEPT !.errors = @ \cup {n}]
Returns(c, t) == [c EXCEPT !.type = t]

search_symbol_all(c, x) == SelectInSeq(c.syms, LAMBDA y : y.name = x)  \* 0: none
Found(c, x) == search_symbol_all(c, x) # 0
SymbolType(c, x) == c.syms[search_symbol_all(c, x)].type
FunctionOf(c, x) == c.syms[SelectInSeq(c.syms, LAMBDA y : y.name = x /\ y.type[1] = "func")].type

insert_symbol(c, x, t) ==
  [c EXCEPT !.syms = <<Field(x, t)>> \o @, !.layers[1] = <<x>> \o @]

del_single_symbol(c, x) ==
  IF Found(c, x) THEN [c EXCEPT !.syms = RemoveAt(@, search_symbol_all(c, x))] ELSE c

\* Mutant of exit_layer: the layer goes, the names stay.
exit_layer_only(c) == [c EXCEPT !.layers = Tail(@)]

enter_layer(c) == [c EXCEPT !.layers = <<<<>>>> \o @]
exit_layer(c) ==
  Through(del_single_symbol, [c EXCEPT !.layers = Tail(@)], c.layers[1])

\* The field after write's one parameter is never initialised: stray says it is not NULL.
init_symbol_table(stray) ==
  LET c == [syms |-> <<>>, layers |-> <<<<>>>>, errors |-> {}, array_flag |-> FALSE,
            stray |-> stray, type |-> NULL, list |-> <<>>]
      write == <<Field("", INT)>> \o (IF stray THEN <<Field("", NULL)>> ELSE <<>>)
  IN  insert_symbol(insert_symbol(c, "read", <<"func", "read", INT, <<>>>>),
                    "write", <<"func", "write", INT, write>>)

RECURSIVE typeEqual(_, _)
fieldEqual(l, k) == Len(l) = Len(k) /\ \A i \in DOMAIN l : typeEqual(l[i].type, k[i].type)
typeEqual(t, u) ==
  \/ t = NULL \/ u = NULL
  \/ /\ t[1] = u[1]
     /\ t[1] = "array" => typeEqual(t[2], u[2]) /\ Len(t[3]) = Len(u[3])
     /\ t[1] = "func" => t[2] = u[2] /\ typeEqual(t[3], u[3]) /\ fieldEqual(t[4], u[4])
     /\ t[1] \in {"struct", "structdef"} => t[2] = u[2] /\ fieldEqual(t[3], u[3])

\* The list without the fields whose name an earlier field has.
Deduped(l) ==
  FoldLeft(LAMBDA r, f : IF \E i \in DOMAIN r : r[i].name = f.name THEN r ELSE Append(r, f), <<>>, l)

check_dup_in_struct(c) ==
  LET l == Deduped(c.list) IN [(IF l = c.list THEN c ELSE Error(c, 15)) EXCEPT !.list = l]

\* A declarator: the variable in c.list, and in the table unless it is a field of a structure.
VarDec(d, in_struct, t, c) ==
  LET f == Field(d.name, IF d.dims = <<>> THEN t ELSE <<"array", t, Reverse(d.dims)>>)
      c1 == [c EXCEPT !.array_flag = @ \/ Len(d.dims) > 1, !.list = <<f>>]
  IN  IF Found(c, d.name) THEN [Error(c1, 3) EXCEPT !.list = IF in_struct THEN @ ELSE <<>>]
      ELSE IF in_struct THEN c1 ELSE insert_symbol(c1, f.name, f.type)

RECURSIVE Exp(_, _), DefList(_, _, _)

Args(es, c) ==
  Through(LAMBDA r, e : LET a == Exp(e, r) IN [a EXCEPT !.list = Append(r.list, Field("", a.type))],
           [c EXCEPT !.list = <<>>], es)

\* The initial value r of the variable declared in v.
Initialised(v, r) ==
  [(IF typeEqual(v.list[1].type, r.type) THEN r ELSE Error(r, 5)) EXCEPT !.list = v.list]

Dec(d, in_struct, t, c) ==
  LET v == VarDec(d, in_struct, t, c)
      w == IF in_struct /\ d.init # <<>> THEN Error(v, 15) ELSE v
  IN  IF d.init = <<>> \/ v.list = <<>> THEN w ELSE Initialised(w, Exp(d.init[1], w))

\* The type a tag stands for.
Tag(tag, c) ==
  IF ~Found(c, tag) THEN Returns(Error(c, 17), NULL)
  ELSE IF SymbolType(c, tag)[1] # "structdef" THEN Returns(Error(c, 17), NULL)
  ELSE Returns(c, <<"struct">> \o Tail(SymbolType(c, tag)))

\* A structure's type: of a tag that is defined, or a new one, which its tag then names.
NewStruct(tag, c, body) ==
  IF tag = "" THEN Returns(exit_layer(body), <<"struct", tag, body.list>>)
  ELSE IF Found(c, tag) THEN Returns(Error(c, 16), NULL)
  ELSE Returns(insert_symbol(body, tag, <<"structdef", tag, body.list>>), <<"struct", tag, body.list>>)

StructSpecifier(sp, c) ==
  IF sp[1] = "tag" THEN Tag(sp[2], c)
  ELSE NewStruct(sp[2], c, check_dup_in_struct(DefList(sp[3], TRUE, IF sp[2] = "" THEN enter_layer(c) ELSE c)))

Specifier(sp, c) ==
  IF sp[1] \in {"int", "float"} THEN Returns(c, sp) ELSE StructSpecifier(sp, c)

\* One definition, its specifier's type being s.type.
DecList(decs, in_struct, s) ==
  IF s.type = NULL THEN s
  ELSE Through(LAMBDA c, d : [Dec(d, in_struct, s.type, c) EXCEPT !.list = c.list \o @], s, decs)

\* The definitions of a body or a structure: every declarator's fields, in order, in c.list.
DefList(defs, in_struct, c0) ==
  Through(LAMBDA c, def : DecList(def.decs, in_struct, [Specifier(def.spec, c) EXCEPT !.list = c.list]),
           [c0 EXCEPT !.list = <<>>], defs)

\* Both operands have the basic type asked for: of && and ||, int; of the others, the same.
Operator(e, a, c) ==
  LET t == a.type
      u == c.type
      ok == IF e[1] \in {"and", "or"} THEN t = INT /\ u = INT ELSE BASIC(t) /\ t = u
  IN  IF t = NULL \/ u = NULL THEN Returns(c, NULL)
      ELSE IF ~ok THEN Returns(Error(c, 7), NULL)
      ELSE Returns(c, IF e[1] = "rel" THEN INT ELSE t)

CallExp(e, c) ==
  LET f == SymbolType(c, e[2])
      a == Args(e[3], c)
  IN  IF ~Found(c, e[2]) THEN Returns(Error(c, 2), NULL)
      ELSE IF f[1] # "func" THEN Returns(Error(c, 11), NULL)
      ELSE Returns(IF fieldEqual(a.list, f[4]) THEN a ELSE Error(a, 9), f[3])

AssignExp(e, c) ==
  LET r == Exp(e[3], c)
      l == Exp(e[2], r)
      mismatched == /\ l.type # NULL /\ r.type # NULL
                    /\ ~typeEqual(l.type, r.type) \/ l.type[1] = "func"
  IN  IF e[2][1] \notin {"id", "dot", "index"} THEN Returns(Error(l, 6), NULL)
      ELSE IF mismatched THEN Returns(Error(l, 5), NULL)
      ELSE l

DotExp(e, c) ==
  LET s == Exp(e[2], c)
      i == SelectInSeq(s.type[3], LAMBDA f : f.name = e[3])
  IN  IF s.type = NULL THEN s
      ELSE IF s.type[1] \notin {"struct", "structdef"} THEN Returns(Error(s, 13), NULL)
      ELSE IF i = 0 THEN Returns(Error(s, 14), NULL)
      ELSE Returns(s, s.type[3][i].type)

IndexExp(e, c) ==
  LET b == Exp(e[2], c)
      i == Exp(e[3], b)
      t == b.type
  IN  IF t = NULL \/ i.type = NULL THEN Returns(i, NULL)
      ELSE IF t[1] # "array" THEN Returns(Error(i, 10), NULL)
      ELSE IF i.type # INT THEN Returns(Error(i, 12), t[2])
      ELSE Returns(i, IF Len(t[3]) = 1 THEN t[2] ELSE <<"array", t[2], Front(t[3])>>)

UnaryExp(e, c) ==
  LET a == Exp(e[2], c)
      bad == a.type # NULL /\ (IF e[1] = "neg" THEN ~BASIC(a.type) ELSE a.type # INT)
  IN  IF bad THEN Returns(Error(a, 7), NULL) ELSE a

Exp(e, c) ==
  CASE e[1] = "id" -> IF Found(c, e[2]) THEN Returns(c, SymbolType(c, e[2])) ELSE Returns(Error(c, 1), NULL)
    [] e[1] = "call" -> CallExp(e, c)
    [] e[1] \in {"int", "float"} -> Returns(c, <<e[1]>>)
    [] e[1] = "paren" -> Exp(e[2], c)
    [] e[1] \in {"neg", "not"} -> UnaryExp(e, c)
    [] e[1] = "assign" -> AssignExp(e, c)
    [] e[1] = "dot" -> DotExp(e, c)
    [] e[1] = "index" -> IndexExp(e, c)
    [] e[1] \in {"and", "or"} -> LET a == Exp(e[2], c) IN Operator(e, a, Exp(e[3], a))
    [] e[1] \in {"rel", "arith"} -> LET a == Exp(e[3], c) IN Operator(e, a, Exp(e[4], a))

RECURSIVE Stmt(_, _, _)

CompSt(body, ret, c) ==
  Through(LAMBDA r, s : Stmt(s, ret, r), DefList(body.defs, FALSE, c), body.stmts)

\* The value returned is in e.
Returned(e, ret) == IF typeEqual(e.type, ret) THEN e ELSE Error(e, 8)

Stmt(s, ret, c) ==
  CASE s[1] = "exp" -> Exp(s[2], c)
    [] s[1] = "block" -> exit_layer(CompSt(s[2], ret, enter_layer(c)))
    [] s[1] = "return" -> Returned(Exp(s[2], c), ret)
    [] s[1] \in {"while", "if"} -> Stmt(s[3], ret, Exp(s[2], c))
    [] s[1] = "ifelse" -> Stmt(s[4], ret, Stmt(s[3], ret, Exp(s[2], c)))

\* A parameter of the type s.type, after those in l: left out if its type or name is in error.
ParamDec(p, s, l) ==
  IF s.type = NULL THEN [s EXCEPT !.list = l]
  ELSE [VarDec(p, FALSE, s.type, s) EXCEPT !.list = l \o @]

\* The parameters, in c.list.
FunDec(ps, c) ==
  IF ps = <<>> THEN [c EXCEPT !.list = <<>>]
  ELSE exit_layer(Through(LAMBDA r, p : ParamDec(p, Specifier(p.spec, r), r.list),
                           [enter_layer(c) EXCEPT !.list = <<>>], ps))

\* The body of a function, in the layer its parameters are inserted in.
Body(d, ret, c) ==
  LET Param(r, p) == [insert_symbol(r, p.name, p.type) EXCEPT !.array_flag = @ \/ p.type[1] = "array"]
      params == FunctionOf(c, d.name)[4]
  IN  exit_layer(CompSt(d.body, ret, Through(Param, enter_layer(c), params)))

\* A function whose parameters are in f.list.
FunctionDef(d, ret, f) ==
  IF Found(f, d.name) THEN Error(f, 4)
  ELSE Body(d, ret, insert_symbol(f, d.name, <<"func", d.name, ret, f.list>>))

ExtDecList(d, s) == Through(LAMBDA c, v : VarDec(v, FALSE, s.type, c), s, d.decs)

ExtDef(c, d) ==
  LET s == Specifier(d.spec, c)
  IN  IF s.type = NULL THEN s
      ELSE IF d.kind = "decl" THEN ExtDecList(d, s) ELSE FunctionDef(d, s.type, FunDec(d.params, s))

=============================================================================
