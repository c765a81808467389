-------------------------------- MODULE Machine --------------------------------
(***************************************************************************)
(* The MIPS that the generated code runs on, as CodeGen's instructions use *)
(* it, with the two library routines printed before the code (initObject-  *)
(* Code in lab4/Code/code.c).  A state m holds the program counter, the    *)
(* registers, the memory, the input left and the output; calls records the *)
(* calls that have not returned, for the properties only.                  *)
(***************************************************************************)
LOCAL INSTANCE Integers
LOCAL INSTANCE Sequences
LOCAL INSTANCE TLC
L == INSTANCE CMinus
G == INSTANCE CodeGen

\* What a register or a cell that was never written holds.
Junk == 77

\* The start of main, which returns to 0.
Boot(p, input) ==
  [pc |-> p.labels[<<"fun", "main">>],
   regs |-> [r \in 0 .. 31 |-> IF r \in {G!zero, G!sp, G!fp, G!ra} THEN 0 ELSE Junk],
   mem |-> [i \in {} |-> 0], in |-> input, out |-> <<>>, lo |-> Junk,
   calls |-> <<>>]

Halted(m) == m.pc = 0

Set(m, r, v) == [m EXCEPT !.regs[r] = v, !.pc = @ + 1]
Go(m, pc) == [m EXCEPT !.pc = pc]
Cell(m, i) == IF i \in DOMAIN m.mem THEN m.mem[i] ELSE Junk

\* The routine read: a prompt, then the number in $v0.
read(m) ==
  [Set(Set(m, G!a(1), Junk), G!v0, Head(m.in)) EXCEPT !.pc = m.pc + 1, !.in = Tail(@),
                                                      !.regs[G!ra] = m.pc + 1]

\* The routine write: the number in $a0, then a newline; it returns 0.
write(m) ==
  [Set(m, G!a(1), Junk) EXCEPT !.out = Append(@, m.regs[G!a(1)]), !.regs[G!v0] = 0,
                               !.regs[G!ra] = m.pc + 1]

Call(m, pc) ==
  [m EXCEPT !.pc = pc, !.regs[G!ra] = m.pc + 1,
            !.calls = <<[pc |-> m.pc + 1, sp |-> m.regs[G!sp], fp |-> m.regs[G!fp]]>> \o @]

Step(m, p) ==
  LET i == p.asm[m.pc]
      R(r) == m.regs[r]
  IN  CASE i[1] = "li" -> Set(m, i[2], i[3])
        [] i[1] = "move" -> Set(m, i[2], R(i[3]))
        [] i[1] = "addi" -> Set(m, i[2], R(i[3]) + i[4])
        [] i[1] = "lw" -> Set(m, i[2], Cell(m, R(i[4]) + i[3]))
        [] i[1] = "sw" -> [m EXCEPT !.mem = (R(i[4]) + i[3] :> R(i[2])) @@ @, !.pc = @ + 1]
        [] i[1] = "op" -> Set(m, i[3], L!Compute(i[2], R(i[4]), R(i[5])))
        [] i[1] = "div" -> [m EXCEPT !.lo = L!Compute("/", R(i[2]), R(i[3])), !.pc = @ + 1]
        [] i[1] = "mflo" -> Set(m, i[2], m.lo)
        [] i[1] = "j" -> Go(m, p.labels[i[2]])
        [] i[1] = "b" -> Go(m, IF L!Compare(i[2], R(i[3]), R(i[4])) THEN p.labels[i[5]] ELSE m.pc + 1)
        [] i[1] = "jal" /\ i[2][2] = "read" -> read(m)
        [] i[1] = "jal" /\ i[2][2] = "write" -> write(m)
        [] i[1] = "jal" /\ i[2][2] \notin {"read", "write"} -> Call(m, p.labels[i[2]])
        [] i[1] = "jr" -> [Go(m, R(i[2])) EXCEPT !.calls = IF @ = <<>> THEN @ ELSE Tail(@)]
=============================================================================
