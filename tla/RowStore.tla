------------------------------- MODULE RowStore -------------------------------
(***************************************************************************)
(* What a wsdb table promises: rows at places of their own.  INSERT takes  *)
(* a place no row has; UPDATE and DELETE act on a row that is there.       *)
(***************************************************************************)
CONSTANTS RowId, Value, None

VARIABLE rows  \* the row at each place, or None

Init == rows = [r \in RowId |-> None]

Put(r, v) ==
  /\ rows[r] = None
  /\ rows' = [rows EXCEPT ![r] = v]

Change(r, v) ==
  /\ rows[r] # None
  /\ rows' = [rows EXCEPT ![r] = v]

Remove(r) ==
  /\ rows[r] # None
  /\ rows' = [rows EXCEPT ![r] = None]

Next == \E r \in RowId :
  \/ \E v \in Value : Put(r, v) \/ Change(r, v)
  \/ Remove(r)

Spec == Init /\ [][Next]_rows
=============================================================================
