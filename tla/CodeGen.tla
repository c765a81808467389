-------------------------------- MODULE CodeGen --------------------------------
(***************************************************************************)
(* MIPS code from intermediate code (lab4/Code/code.c): a frame with a     *)
(* slot for every variable of a function, laid out before any code is      *)
(* printed, and registers that hold values only within one instruction of  *)
(* the intermediate code.                                                  *)
(*                                                                         *)
(* Machine instructions: <<"li", r, n>>, <<"lw", r, n, b>> and             *)
(* <<"sw", r, n, b>> (n(b)), <<"addi", r, a, n>>, <<"move", r, a>>,        *)
(* <<"op", o, r, a, b>>, <<"div", a, b>>, <<"mflo", r>>, <<"j", l>>,       *)
(* <<"b", o, a, b, l>>, <<"jal", l>>, <<"jr", r>>; r, a and b are register *)
(* numbers, and a label is <<"label", n>> or <<"fun", f>>.                 *)
(*                                                                         *)
(* A state g of the generator holds the registers, the frames, the name of *)
(* the current frame, the machine code so far, where its labels are, and   *)
(* the register handleOp returned.                                         *)
(***************************************************************************)
LOCAL INSTANCE Integers
LOCAL INSTANCE Sequences
LOCAL INSTANCE Walk
LOCAL INSTANCE SequencesExt
LOCAL INSTANCE FiniteSetsExt
LOCAL INSTANCE TLC

zero == 0
v0 == 2
a(i) == i + 3  \* $a0 is a(1)
t0 == 8
sp == 29
fp == 30
ra == 31
REGS == 8 .. 25  \* REG_START up to REG_END

reserved == {"add", "sub", "mul", "div", "rem", "neg", "and", "or", "xor", "nor", "not"}
changename(f) == IF f \in reserved THEN f \o "_" ELSE f

Emit(g, is) == [g EXCEPT !.asm = @ \o is]
Mark(g, l) == [g EXCEPT !.labels = @ @@ (l :> Len(g.asm) + 1)]

Register == [isInUse |-> FALSE, var |-> <<>>, lastUse |-> 0]
initRegisters == [i \in REGS |-> Register]
freeRegisters(g) == [g EXCEPT !.regs = [i \in REGS |-> [@[i] EXCEPT !.isInUse = FALSE]]]

(***************************************************************************)
(* Frames.  A slot is the offset of a variable below the frame pointer;    *)
(* the latest slot ends the frame.                                         *)
(***************************************************************************)
Frame == [slots |-> [o \in {} |-> 0], offset |-> 0]

handleVariable(frame, o, size) ==
  IF o \in DOMAIN frame.slots THEN frame
  ELSE [slots |-> frame.slots @@ (o :> frame.offset + size), offset |-> frame.offset + size]

\* Mutant of Operands: a call's place is forgotten.
OperandsButCalls(i) ==
  CASE i[1] \in {"return", "dec", "arg", "param", "read", "write"} -> <<i[2]>>
    [] i[1] = ":=" -> <<i[2], i[3]>>
    [] i[1] = "if" -> <<i[3], i[4]>>
    [] i[1] = "arith" -> <<i[3], i[4], i[5]>>
    [] i[1] \in {"label", "goto", "function", "call"} -> <<>>

\* The operands initFrames looks at: those of the kinds in brackets are never variables.
Operands(i) ==
  CASE i[1] \in {"return", "dec", "arg", "call", "param", "read", "write"} -> <<i[2]>>
    [] i[1] = ":=" -> <<i[2], i[3]>>
    [] i[1] = "if" -> <<i[3], i[4]>>
    [] i[1] = "arith" -> <<i[3], i[4], i[5]>>
    [] i[1] \in {"label", "goto", "function"} -> <<>>

SizeIn(sizes, f, o) == IF <<f, o>> \in DOMAIN sizes THEN sizes[<<f, o>>] ELSE 4

\* The slots for one instruction; g.current is the newest frame.
initFrames(g, i, sizes) ==
  LET Enter(h, o) ==
        IF o[1] \notin {"var", "temp"} THEN h
        ELSE [h EXCEPT !.frames[h.current] = handleVariable(@, o, SizeIn(sizes, h.current, o))]
  IN  IF i[1] = "function" THEN [g EXCEPT !.current = i[2], !.frames = (i[2] :> Frame) @@ @]
      ELSE Through(Enter, g, Operands(i))

Slot(g, o) == g.frames[g.current].slots[o]

\* A constant that is held in a register gets a slot too, below the frame the prologue reserved.
Slotted(g, o) == [g EXCEPT !.frames[g.current] = handleVariable(@, o, 4)]

(***************************************************************************)
(* Registers.                                                              *)
(***************************************************************************)
updateRound(g, n) ==
  [g EXCEPT !.reg = n,
            !.regs = [i \in REGS |-> [@[i] EXCEPT !.lastUse = IF i = n THEN 0 ELSE @ + 1]]]

Take(g, n, o) == updateRound([g EXCEPT !.regs[n].isInUse = TRUE, !.regs[n].var = o], n)

\* The first register that is free or already the variable's; the least recently used otherwise.
getRegForVar(g, o) ==
  LET fit == {i \in REGS : ~g.regs[i].isInUse \/ g.regs[i].var = o}
      oldest == {i \in REGS : \A j \in REGS : g.regs[j].lastUse <= g.regs[i].lastUse}
      i == IF fit # {} THEN Min(fit) ELSE Min(oldest)
  IN  IF fit # {} THEN Take(g, i, o)
      ELSE Take(Emit(g, <<<<"sw", i, -Slot(g, g.regs[i].var), fp>>>>), i, o)

RECURSIVE handleOp(_, _, _)
\* The register for an operand; its value is loaded into it if load.
handleOp(g, o, load) ==
  LET kept == getRegForVar(Slotted(g, o), o)
  IN  CASE o = <<"const", 0>> -> [g EXCEPT !.reg = zero]
        [] o[1] = "const" /\ o[2] # 0 ->
             IF load THEN Emit(kept, <<<<"li", kept.reg, o[2]>>>>) ELSE kept
        [] o[1] \in {"var", "temp"} ->
             IF load THEN Emit(kept, <<<<"lw", kept.reg, -Slot(kept, o), fp>>>>) ELSE kept
        [] o[1] = "val" ->
             LET r == handleOp(g, o[2], load) IN Emit(r, <<<<"lw", r.reg, 0, r.reg>>>>)
        [] o[1] = "addr" ->
             LET r == Slotted(handleOp(g, o[2], load), o[2])
             IN  Emit(r, <<<<"addi", r.reg, fp, -Slot(r, o[2])>>>>)

Loaded(g, o) == handleOp(g, o, TRUE)

\* Stores register r at an operand: in its slot, or where it points.
StoreTo(g, r, o) ==
  CASE o[1] \in {"var", "temp"} ->
         LET h == Slotted(g, o) IN Emit(h, <<<<"sw", r, -Slot(h, o), fp>>>>)
    [] o[1] = "val" -> LET h == Loaded(g, o[2]) IN Emit(h, <<<<"sw", r, 0, h.reg>>>>)
    [] OTHER -> g

(***************************************************************************)
(* One instruction of the intermediate code.                               *)
(***************************************************************************)
SaveRa == <<<<"addi", sp, sp, -4>>, <<"sw", ra, 0, sp>>>>
RestoreRa == <<<<"lw", ra, 0, sp>>, <<"addi", sp, sp, 4>>>>
\* Mutant of Called: the return address is not saved.
CalledUnsaved(f) == <<<<"jal", <<"fun", f>>>>>>

Called(f) == SaveRa \o <<<<"jal", <<"fun", f>>>>>> \o RestoreRa

RECURSIVE ArgsBefore(_, _)
ArgsBefore(code, k) ==
  IF k > 1 /\ code[k - 1][1] = "arg" THEN <<code[k - 1][2]>> \o ArgsBefore(code, k - 1) ELSE <<>>

\* The ARGs before the call, the first argument's being the nearest: four in $a0 to $a3, the
\* others in registers until all are loaded, and then on the stack.
GenCall(g, code, k) ==
  LET args == ArgsBefore(code, k)
      Pass(h, j) == LET r == Loaded(h, args[j])
                    IN  IF j <= 4 THEN Emit(r, <<<<"move", a(j), r.reg>>>>)
                        ELSE [r EXCEPT !.arg_reg = Append(@, r.reg)]
      p == Through(Pass, [g EXCEPT !.arg_reg = <<>>], [j \in DOMAIN args |-> j])
      n == Len(p.arg_reg)
      pushed == IF n = 0 THEN p
                ELSE Emit(p, <<<<"addi", sp, sp, -4 * n>>>> \o
                              [i \in 1 .. n |-> <<"sw", p.arg_reg[n + 1 - i], 4 * (n - i), sp>>])
      popped == Emit(pushed, Called(changename(code[k][3])) \o
                              (IF n = 0 THEN <<>> ELSE <<<<"addi", sp, sp, 4 * n>>>>))
  IN  StoreTo(popped, v0, code[k][2])

RECURSIVE ParamsAfter(_, _)
ParamsAfter(code, k) ==
  IF k < Len(code) /\ code[k + 1][1] = "param"
  THEN <<code[k + 1][2]>> \o ParamsAfter(code, k + 1) ELSE <<>>

\* The prologue: a frame, registers of no variable, and the parameters in their slots.
GenFunction(g, code, k) ==
  LET f == code[k][2]
      params == ParamsAfter(code, k)
      size == g.frames[f].offset
      h == Emit([Mark(g, <<"fun", changename(f)>>) EXCEPT !.current = f, !.regs = initRegisters],
                 <<<<"addi", sp, sp, -4>>, <<"sw", fp, 0, sp>>, <<"move", fp, sp>>>> \o
                 (IF size = 0 THEN <<>> ELSE <<<<"addi", sp, sp, -size>>>>))
      Param(r, i) ==
        LET s == Slotted(r, params[i])
        IN  Emit(s, IF i <= 4 THEN <<<<"sw", a(i), -Slot(s, params[i]), fp>>>>
                     ELSE <<<<"lw", t0, 4 * (i - 4) + 4, fp>>, <<"sw", t0, -Slot(s, params[i]), fp>>>>)
  IN  Through(Param, h, [i \in DOMAIN params |-> i])

\* Mutant of GenReturn: the caller's frame pointer is not restored.
ReturnKeepsFrame(g, i) ==
  LET r == Loaded(g, i[2])
  IN  Emit(r, <<<<"move", v0, r.reg>>, <<"move", sp, fp>>, <<"addi", sp, sp, 4>>, <<"jr", ra>>>>)

GenReturn(g, i) ==
  LET o == i[2]
      r == Loaded(g, IF o[1] = "val" THEN o[2] ELSE o)
  IN  Emit(r, <<IF o[1] = "val" THEN <<"lw", v0, 0, r.reg>> ELSE <<"move", v0, r.reg>>,
                 <<"move", sp, fp>>, <<"lw", fp, 0, fp>>, <<"addi", sp, sp, 4>>, <<"jr", ra>>>>)

GenRead(g, i) ==
  LET o == i[2]
      r == Emit(g, Called("read"))
      h == handleOp(r, o, FALSE)
  IN  IF o[1] \in {"var", "temp"}
      THEN Emit(h, <<<<"move", h.reg, v0>>, <<"sw", h.reg, -Slot(h, o), fp>>>>)
      ELSE StoreTo(r, v0, o)

GenWrite(g, i) ==
  LET r == Loaded(g, i[2]) IN Emit(r, <<<<"move", a(1), r.reg>>>> \o Called("write"))

GenAssign(g, i) == LET r == Loaded(g, i[3]) IN StoreTo(r, r.reg, i[2])

GenArith(g, i) ==
  LET o == i[3]
      x == Loaded(g, i[4])
      y == Loaded(x, i[5])
      z == handleOp(y, o, FALSE)
      at == Loaded(y, o[2])
      again == handleOp(at, o[2], FALSE)
      By(r) == IF i[2] = "/" THEN <<<<"div", x.reg, y.reg>>, <<"mflo", r>>>>
               ELSE <<<<"op", i[2], r, x.reg, y.reg>>>>
  IN  CASE o[1] \in {"var", "temp"} -> Emit(z, By(z.reg) \o <<<<"sw", z.reg, -Slot(z, o), fp>>>>)
        [] o[1] = "val" /\ i[2] = "/" -> Emit(again, By(again.reg) \o <<<<"sw", again.reg, 0, at.reg>>>>)
        [] o[1] = "val" /\ i[2] # "/" -> Emit(at, By(x.reg) \o <<<<"sw", x.reg, 0, at.reg>>>>)

GenIf(g, i) ==
  LET x == Loaded(g, i[3])
      y == Loaded(x, i[4])
  IN  Emit(y, <<<<"b", i[2], x.reg, y.reg, <<"label", i[5]>>>>>>)

GenOne(g, code, k) ==
  LET i == code[k]
  IN  CASE i[1] = "call" -> GenCall(g, code, k)
        [] i[1] = "function" -> GenFunction(g, code, k)
        [] i[1] = "return" -> GenReturn(g, i)
        [] i[1] = "read" -> GenRead(g, i)
        [] i[1] = "write" -> GenWrite(g, i)
        [] i[1] = ":=" -> GenAssign(g, i)
        [] i[1] = "arith" -> GenArith(g, i)
        [] i[1] = "label" -> Mark(g, <<"label", i[2]>>)
        [] i[1] = "goto" -> Emit(g, <<<<"j", <<"label", i[2]>>>>>>)
        [] i[1] = "if" -> GenIf(g, i)
        [] i[1] \in {"param", "dec", "arg"} -> g

\* The registers are freed after each instruction.
Generate(g, code, k) == freeRegisters(GenOne(g, code, k))

Begin ==
  [regs |-> initRegisters, frames |-> [f \in {} |-> Frame], current |-> "",
   asm |-> <<>>, labels |-> [l \in {} |-> 0], reg |-> zero, arg_reg |-> <<>>]
=============================================================================
