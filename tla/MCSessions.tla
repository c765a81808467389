------------------------------ MODULE MCSessions ------------------------------
(***************************************************************************)
(* Sessions for TLC.                                                       *)
(***************************************************************************)
EXTENDS Sessions, TLC

CONSTANTS c1, c2, t1, t2, f1, f2

TwoConns == {c1, c2}
TwoNames == {t1, t2}
TwoFids  == {f1, f2}

Interchangeable == Permutations(TwoConns) \cup Permutations(TwoNames) \cup Permutations(TwoFids)
=============================================================================
