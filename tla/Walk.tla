---------------------------------- MODULE Walk ----------------------------------
(***************************************************************************)
(* How the passes of the compiler go through a list of the program's parts *)
(* or of its code.                                                         *)
(***************************************************************************)
LOCAL INSTANCE Integers
LOCAL INSTANCE Sequences

\* What c becomes when Op takes the elements of seq in turn: each result is known before the next.
Through(Op(_, _), c, seq) ==
  LET after[i \in 0 .. Len(seq)] == IF i = 0 THEN {c} ELSE {Op(r, seq[i]) : r \in after[i - 1]}
  IN  CHOOSE r \in after[Len(seq)] : TRUE

\* What Op makes of c and an element, c being known first.
Apply(Op(_, _), c, e) == CHOOSE r \in {Op(b, e) : b \in {c}} : TRUE

=============================================================================
