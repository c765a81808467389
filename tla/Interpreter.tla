------------------------------ MODULE Interpreter ------------------------------
(***************************************************************************)
(* What intermediate code does when it is run: the simulator that the      *)
(* output of lab 5 is made for.  A state holds the program counter, the    *)
(* variables of the function that runs and the addresses of those with     *)
(* space of their own, the memory, the arguments not yet taken, the calls  *)
(* that have not returned, the input left and the output.                  *)
(***************************************************************************)
LOCAL INSTANCE Integers
LOCAL INSTANCE Sequences
LOCAL INSTANCE TLC
L == INSTANCE CMinus

\* What a variable or a cell that was never written holds.
Junk == 77

FunctionAt(code, f) == CHOOSE i \in DOMAIN code : code[i] = <<"function", f>>
LabelAt(code, l) == CHOOSE i \in DOMAIN code : code[i] = <<"label", l>>

Load(code, input) ==
  [pc |-> FunctionAt(code, "main"), vars |-> [x \in {} |-> 0], addrs |-> [x \in {} |-> 0],
   mem |-> [a \in {} |-> 0], top |-> 0, args |-> <<>>, calls |-> <<>>, in |-> input, out |-> <<>>]

Ended(m) == m.pc = 0

At(f, x) == IF x \in DOMAIN f THEN f[x] ELSE Junk

Value(m, x) ==
  CASE x[1] = "const" -> x[2]
    [] x[1] = "addr" -> m.addrs[x[2]]
    [] x[1] = "val" -> At(m.mem, At(m.vars, x[2]))
    [] OTHER -> At(m.vars, x)

Set(m, x, v) ==
  IF x[1] = "val" THEN [m EXCEPT !.mem = (At(m.vars, x[2]) :> v) @@ @, !.pc = @ + 1]
  ELSE [m EXCEPT !.vars = (x :> v) @@ @, !.pc = @ + 1]

Return(m, v) ==
  IF m.calls = <<>> THEN [m EXCEPT !.pc = 0]
  ELSE LET c == Head(m.calls)
       IN  [m EXCEPT !.pc = c.pc, !.vars = (c.rd :> v) @@ c.vars, !.addrs = c.addrs, !.calls = Tail(@)]

Interpret(m, code) ==
  LET i == code[m.pc]
      V(j) == Value(m, i[j])
  IN  CASE i[1] \in {"function", "label"} -> [m EXCEPT !.pc = @ + 1]
        [] i[1] = "param" -> [Set(m, i[2], Head(m.args)) EXCEPT !.args = Tail(@)]
        [] i[1] = "dec" -> [m EXCEPT !.addrs = (i[2] :> m.top) @@ @, !.top = @ + i[3], !.pc = @ + 1]
        [] i[1] = ":=" -> Set(m, i[2], V(3))
        [] i[1] = "arith" -> Set(m, i[3], L!Compute(i[2], V(4), V(5)))
        [] i[1] = "goto" -> [m EXCEPT !.pc = LabelAt(code, i[2])]
        [] i[1] = "if" -> [m EXCEPT !.pc = IF L!Compare(i[2], V(3), V(4)) THEN LabelAt(code, i[5]) ELSE @ + 1]
        [] i[1] = "return" -> Return(m, V(2))
        [] i[1] = "arg" -> [m EXCEPT !.args = <<V(2)>> \o @, !.pc = @ + 1]
        [] i[1] = "call" ->
             [m EXCEPT !.pc = FunctionAt(code, i[3]), !.vars = [x \in {} |-> 0], !.addrs = [x \in {} |-> 0],
                       !.calls = <<[pc |-> m.pc + 1, vars |-> m.vars, addrs |-> m.addrs, rd |-> i[2]]>> \o @]
        [] i[1] = "read" -> [Set(m, i[2], Head(m.in)) EXCEPT !.in = Tail(@)]
        [] i[1] = "write" -> [m EXCEPT !.out = Append(@, V(2)), !.pc = @ + 1]
=============================================================================
