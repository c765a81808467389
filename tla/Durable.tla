-------------------------------- MODULE Durable --------------------------------
(***************************************************************************)
(* What wsdb promises of its tables over connections, closing, reopening   *)
(* and crashes: a table changes only by a statement on it, and a crash     *)
(* takes away no more than the changes of tables that are not yet saved.   *)
(***************************************************************************)
CONSTANTS
  Tab,       \* the tables' names
  Contents,  \* what a table may hold
  New,       \* what a new table holds
  None       \* no such table

VARIABLES
  tables,  \* what each table holds, or None
  unsaved  \* the tables a crash may take something away from

Init ==
  /\ tables = [t \in Tab |-> None]
  /\ unsaved = {}

Create(t) ==
  /\ tables[t] = None
  /\ tables' = [tables EXCEPT ![t] = New]
  /\ unsaved' = unsaved \cup {t}

\* A change that takes back an earlier one may leave the table as it is saved.
Change(t, v) ==
  /\ tables[t] # None
  /\ tables' = [tables EXCEPT ![t] = v]
  /\ unsaved' \in {unsaved \cup {t}, unsaved \ {t}}

Drop(t) ==
  /\ tables[t] # None
  /\ tables' = [tables EXCEPT ![t] = None]
  /\ unsaved' = unsaved \ {t}

Save ==
  /\ unsaved' \in SUBSET unsaved
  /\ UNCHANGED tables

Crash ==
  /\ tables' \in [Tab -> Contents \cup {None}]
  /\ \A t \in Tab \ unsaved : tables'[t] = tables[t]
  /\ unsaved' = {}

Next ==
  \/ \E t \in Tab : Create(t) \/ Drop(t) \/ \E v \in Contents : Change(t, v)
  \/ Save
  \/ Crash

Spec == Init /\ [][Next]_<<tables, unsaved>>
=============================================================================
