-------------------------------- MODULE CMinus --------------------------------
(***************************************************************************)
(* What a C-- program means: the abstract specification of the compiler of *)
(* labs 2 to 5.  A program is its syntax tree, a sequence of external      *)
(* definitions; its meaning is what it writes for what it reads, and       *)
(* whether it goes wrong: uses a name out of scope, or a value at a type   *)
(* the language does not allow.                                            *)
(*                                                                         *)
(*   expression  <<"int", n>>, <<"float", n>>, <<"id", x>>, <<"paren", e>>,*)
(*               <<"neg", e>>, <<"not", e>>, <<"assign", e, f>>,           *)
(*               <<"and", e, f>>, <<"or", e, f>>, <<"rel", op, e, f>>,     *)
(*               <<"arith", op, e, f>>, <<"call", f, args>>,               *)
(*               <<"index", e, f>>, <<"dot", e, x>>                        *)
(*   statement   <<"exp", e>>, <<"block", body>>, <<"return", e>>,         *)
(*               <<"while", e, s>>, <<"if", e, s>>, <<"ifelse", e, s, t>>  *)
(*   specifier   <<"int">>, <<"float">>, <<"tag", x>>, <<"new", x, defs>>  *)
(*   body        [defs, stmts]; definition [spec, decs];                   *)
(*   declarator  [name, dims, init]; parameter [spec, name, dims]          *)
(*   external    [kind |-> "decl", spec, decs]                             *)
(*               [kind |-> "fun", spec, name, params, body]                *)
(***************************************************************************)
LOCAL INSTANCE Integers
LOCAL INSTANCE Sequences
LOCAL INSTANCE Walk
LOCAL INSTANCE SequencesExt
LOCAL INSTANCE TLC

\* Signed division, which rounds towards zero as C and the MIPS do (TLA+'s \div rounds down).
Quotient(a, b) ==
  LET Abs(n) == IF n < 0 THEN -n ELSE n
      q == Abs(a) \div Abs(b)
  IN  IF (a < 0) = (b < 0) THEN q ELSE -q

Compare(op, a, b) ==
  CASE op = "==" -> a = b [] op = "!=" -> a # b [] op = "<" -> a < b
    [] op = ">" -> a > b [] op = "<=" -> a <= b [] op = ">=" -> a >= b

Compute(op, a, b) ==
  CASE op = "+" -> a + b [] op = "-" -> a - b [] op = "*" -> a * b
    [] op = "/" -> IF b = 0 THEN 0 ELSE Quotient(a, b)

(* Types: <<"int">>, <<"float">>, <<"array", element, dimensions>>,
   <<"struct", tag, members>>; the entry of a function is <<"fun", definition,
   environment>>, that of a tag <<"tag", type>>, and <<"wrong">> is no type. *)

IntType == <<"int">>
Wrong == <<"wrong">>
Basic(t) == t[1] \in {"int", "float"}

\* Two arrays agree when their elements do and they have as many dimensions, whatever the sizes.
RECURSIVE Agree(_, _)
Agree(t, u) ==
  /\ t[1] = u[1]
  /\ t[1] = "array" => Agree(t[2], u[2]) /\ Len(t[3]) = Len(u[3])
  /\ t[1] = "struct" => /\ t[2] = u[2] /\ Len(t[3]) = Len(u[3])
                        /\ \A i \in DOMAIN t[3] : Agree(t[3][i].type, u[3][i].type)
  /\ t[1] \notin {"wrong", "fun", "tag"}

RECURSIVE Words(_)
Words(t) ==
  CASE t[1] = "array" -> FoldLeft(LAMBDA w, n : n * w, Words(t[2]), t[3])
    [] t[1] = "struct" -> FoldLeft(LAMBDA w, m : w + Words(m.type), 0, t[3])
    [] OTHER -> 1

Element(t) == IF Len(t[3]) = 1 THEN t[2] ELSE <<"array", t[2], Tail(t[3])>>

Shaped(t, dims) == IF dims = <<>> \/ t = Wrong THEN t ELSE <<"array", t, dims>>

Distinct(names) == \A i, j \in DOMAIN names : names[i] = names[j] => i = j

(***************************************************************************)
(* A state of a running program: the environment, which maps a visible     *)
(* name to its type and its first cell; the store and the first free cell; *)
(* the input left, the output, what return gave, whether it went wrong;    *)
(* and the value, the cell and the type of the expression just evaluated.  *)
(***************************************************************************)
Entry(t, a) == [type |-> t, at |-> a]

Start(input) ==
  [env |-> [x \in {} |-> Entry(IntType, 0)], mem |-> [a \in {} |-> 0], top |-> 0,
   in |-> input, out |-> <<>>, ret |-> <<>>, wrong |-> FALSE,
   val |-> 0, at |-> 0, type |-> IntType]

Visible(s, x) == x \in DOMAIN s.env

Load(s, a) == IF a \in DOMAIN s.mem THEN s.mem[a] ELSE 0
Value(s, v, t) == [s EXCEPT !.val = v, !.type = t]
Cell(s, a, t) == [s EXCEPT !.val = Load(s, a), !.at = a, !.type = t]
GoWrong(s) == [s EXCEPT !.val = 0, !.type = Wrong, !.wrong = TRUE]

\* Copies the value of the expression in r, of type t, to the cells from a on.
Store(r, a, t) ==
  [r EXCEPT !.mem = IF Basic(t) THEN (a :> r.val) @@ @
                    ELSE [i \in a .. a + Words(t) - 1 |-> Load(r, r.at + i - a)] @@ @,
            !.at = a, !.type = t]

Bind(s, x, t, a) == [s EXCEPT !.env = (x :> Entry(t, a)) @@ @]

\* The type of a tag.
Tagged(tag, s) ==
  IF Visible(s, tag) /\ s.env[tag].type[1] = "tag" THEN Value(s, 0, s.env[tag].type[2]) ELSE GoWrong(s)

\* A structure of the members ms, which s has room for; its tag becomes visible in r.
Structure(tag, ms, s, r) ==
  LET t == <<"struct", tag, ms>>
  IN  IF \/ tag # "" /\ Visible(s, tag)
         \/ ~Distinct([i \in DOMAIN ms |-> ms[i].name])
         \/ \E i \in DOMAIN ms : ms[i].type = Wrong \/ Visible(s, ms[i].name)
      THEN GoWrong(s)
      ELSE Value(IF tag = "" THEN r ELSE Bind(r, tag, <<"tag", t>>, 0), 0, t)

\* The members of one definition of a structure, after those before it: initialised, they are wrong.
Members(ms, decs, v) ==
  <<IF \E i \in DOMAIN decs : decs[i].init # <<>> THEN GoWrong(v) ELSE v,
    ms \o [i \in DOMAIN decs |-> [name |-> decs[i].name, type |-> Shaped(v.type, decs[i].dims)]]>>

NewStructure(tag, s, r) == IF r[1].wrong THEN GoWrong(s) ELSE Structure(tag, r[2], s, r[1])

RECURSIVE Resolve(_, _)
\* The type a specifier names, in s.type; a new tag becomes visible.
Resolve(spec, s) ==
  CASE spec[1] \in {"int", "float"} -> Value(s, 0, <<spec[1]>>)
    [] spec[1] = "tag" -> Tagged(spec[2], s)
    [] spec[1] = "new" ->
         NewStructure(spec[2], s,
           Through(LAMBDA r, d : Members(r[2], d.decs, Resolve(d.spec, r[1])), <<s, <<>>>>, spec[3]))

\* A new variable of type t, with cells of its own.
Fresh(s, x, t) ==
  IF Visible(s, x) \/ t = Wrong THEN GoWrong(s)
  ELSE [Bind(s, x, t, s.top) EXCEPT !.top = @ + Words(t)]

RECURSIVE Eval(_, _), Exec(_, _, _), Loop(_, _, _, _)

Latest(s, states) == IF states = <<>> THEN s ELSE states[Len(states)]

\* Evaluates expressions, the first first: the states they leave.
EvalAll(es, s) == Through(LAMBDA r, e : Append(r, Eval(e, Latest(s, r))), <<>>, es)

\* The initial value in r of the variable x, declared in v.
Initialised(v, x, r) ==
  IF ~Agree(r.type, v.env[x].type) THEN GoWrong(r) ELSE Store(r, v.env[x].at, r.type)

Dec(d, v) ==
  IF d.init = <<>> \/ v.wrong THEN v ELSE Initialised(v, d.name, Eval(d.init[1], v))

DecList(decs, v) ==
  Through(LAMBDA r, d : Dec(d, Fresh(r, d.name, Shaped(v.type, d.dims))), v, decs)

Declare(defs, s) == Through(LAMBDA r, d : DecList(d.decs, Resolve(d.spec, r)), s, defs)

\* A parameter of type t gets its argument, left in the state a: an int is copied to a cell of its
\* own, an array or a structure is passed by reference.
Pass(r, x, t, a) ==
  IF Visible(r, x) \/ ~Agree(t, a.type) THEN GoWrong(r)
  ELSE IF Basic(t) THEN Store([Fresh(r, x, t) EXCEPT !.val = a.val], r.top, t)
  ELSE Bind(r, x, t, a.at)

Param(p, v, a) == Pass(v, p.name, Shaped(v.type, p.dims), a)
Params(ps, as, s) == Through(LAMBDA r, i : Param(ps[i], Resolve(ps[i].spec, r), as[i]), s, [i \in DOMAIN ps |-> i])

\* Back from a function of type t, in the environment of its caller.
Back(done, env, t) ==
  Value([done EXCEPT !.env = env, !.ret = <<>>], IF done.ret = <<>> THEN 0 ELSE done.ret[1], t)

\* Runs the body in c, where the parameters are declared.
Run(def, c, env, t) == IF c.wrong THEN GoWrong(c) ELSE Back(Exec(<<"block", def.body>>, c, t), env, t)

\* A call of f, whose arguments left the states as, the last one s.
Enter(f, as, s) ==
  LET def == s.env[f].type[2]
      outer == [s EXCEPT !.env = (f :> s.env[f]) @@ s.env[f].type[3]]
  IN  IF Len(as) # Len(def.params) THEN GoWrong(s)
      ELSE Run(def, Params(def.params, as, outer), s.env, Resolve(def.spec, outer).type)

Arguments(f, s, as) == Enter(f, as, Latest(s, as))
Invoke(f, args, s) == Arguments(f, s, EvalAll(args, s))

Truth(b) == IF b THEN 1 ELSE 0

Unary(op, a) ==
  IF op = "neg" THEN IF Basic(a.type) THEN Value(a, -a.val, a.type) ELSE GoWrong(a)
  ELSE IF a.type = IntType THEN Value(a, Truth(a.val = 0), IntType) ELSE GoWrong(a)

\* The operators of two operands, which left the states ab[1] and ab[2].
Assign(ab) == IF ~Agree(ab[1].type, ab[2].type) THEN GoWrong(ab[2]) ELSE Store(ab[2], ab[1].at, ab[1].type)

Logical(op, ab) ==
  LET r == IF (ab[1].val = 0) = (op = "and") THEN ab[1] ELSE ab[2]
  IN  IF ab[1].type # IntType \/ ab[2].type # IntType THEN GoWrong(ab[2])
      ELSE Value(r, Truth(r.val # 0), IntType)

Binary(kind, op, ab) ==
  LET a == ab[1]
      b == ab[2]
  IN  IF ~Basic(a.type) \/ a.type # b.type THEN GoWrong(b)
      ELSE IF kind = "arith" THEN Value(b, Compute(op, a.val, b.val), a.type)
      ELSE Value(b, Truth(Compare(op, a.val, b.val)), IntType)

Index(ab) ==
  LET t == ab[1].type
  IN  IF t[1] # "array" \/ ab[2].type # IntType THEN GoWrong(ab[2])
      ELSE Cell(ab[2], ab[1].at + ab[2].val * Words(Element(t)), Element(t))

Dot(x, a) ==
  LET ms == a.type[3]
      k == CHOOSE i \in DOMAIN ms : ms[i].name = x
  IN  IF a.type[1] # "struct" THEN GoWrong(a)
      ELSE IF \A i \in DOMAIN ms : ms[i].name # x THEN GoWrong(a)
      ELSE Cell(a, a.at + Words(<<"struct", "", SubSeq(ms, 1, k - 1)>>), ms[k].type)

Write(a) ==
  IF a.type = IntType THEN Value([a EXCEPT !.out = Append(@, a.val)], 0, IntType) ELSE GoWrong(a)

Call(f, args, s) ==
  IF f = "read" /\ args = <<>> THEN Value([s EXCEPT !.in = Tail(@)], Head(s.in), IntType)
  ELSE IF f = "write" /\ Len(args) = 1 THEN Write(Eval(args[1], s))
  ELSE IF ~Visible(s, f) THEN GoWrong(s)
  ELSE IF s.env[f].type[1] # "fun" THEN GoWrong(s)
  ELSE Invoke(f, args, s)

Eval(e, s) ==
  CASE s.wrong -> s
    [] e[1] = "int" -> Value(s, e[2], IntType)
    [] e[1] = "float" -> Value(s, e[2], <<"float">>)
    [] e[1] = "id" -> IF Visible(s, e[2]) THEN Cell(s, s.env[e[2]].at, s.env[e[2]].type) ELSE GoWrong(s)
    [] e[1] = "paren" -> Eval(e[2], s)
    [] e[1] \in {"neg", "not"} -> Unary(e[1], Eval(e[2], s))
    [] e[1] = "assign" ->
         IF e[2][1] \in {"id", "index", "dot"} THEN Assign(EvalAll(Tail(e), s)) ELSE GoWrong(s)
    [] e[1] \in {"and", "or"} -> Logical(e[1], EvalAll(Tail(e), s))
    [] e[1] \in {"rel", "arith"} -> Binary(e[1], e[2], EvalAll(SubSeq(e, 3, 4), s))
    [] e[1] = "index" -> Index(EvalAll(Tail(e), s))
    [] e[1] = "dot" -> Dot(e[3], Eval(e[2], s))
    [] e[1] = "call" -> Call(e[2], e[3], s)

\* The value returned is in a.
Return(a, t) == [IF Agree(a.type, t) THEN a ELSE GoWrong(a) EXCEPT !.ret = <<a.val>>]

Branch(c, a, t) ==
  IF a.val # 0 THEN Exec(c[3], a, t) ELSE IF c[1] = "if" THEN a ELSE Exec(c[4], a, t)

\* Runs a statement of a function whose return type is t.
Exec(c, s, t) ==
  IF s.ret # <<>> \/ s.wrong THEN s
  ELSE CASE c[1] = "exp" -> Eval(c[2], s)
         [] c[1] = "return" -> Return(Eval(c[2], s), t)
         [] c[1] = "block" ->
              [Through(LAMBDA r, d : Exec(d, r, t), Declare(c[2].defs, s), c[2].stmts) EXCEPT !.env = s.env]
         [] c[1] = "while" -> Loop(c[2], c[3], s, t)
         [] c[1] \in {"if", "ifelse"} -> Branch(c, Eval(c[2], s), t)

\* The condition of the loop is in a.
Again(e, c, a, t) == IF a.val = 0 \/ a.ret # <<>> \/ a.wrong THEN a ELSE Loop(e, c, Exec(c, a, t), t)
Loop(e, c, s, t) == Again(e, c, Eval(e, s), t)

Builtin == [type |-> <<"fun">>, at |-> 0]

Function(d, r) == IF Visible(r, d.name) THEN GoWrong(r) ELSE Bind(r, d.name, <<"fun", d, r.env>>, 0)

External(s, d) ==
  IF d.kind = "decl" THEN DecList(d.decs, Resolve(d.spec, s)) ELSE Function(d, Resolve(d.spec, s))

Main(s) == IF s.wrong THEN s ELSE Invoke("main", <<>>, s)

\* The whole program: every definition in order, then main with the given input.
Meaning(program, input) ==
  Main(Through(External, [Start(input) EXCEPT !.env = ("read" :> Builtin) @@ ("write" :> Builtin) @@ @], program))
=============================================================================
