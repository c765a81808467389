----------------------------- MODULE MCTableHeap -----------------------------
(***************************************************************************)
(* TableHeap for TLC, with a history of what each scan has to return.      *)
(***************************************************************************)
EXTENDS TableHeap, TLC

CONSTANTS c1, c2

OneClient  == {c1}
TwoClients == {c1, c2}
Threads    == Permutations(TwoClients)

RID == PageId \X Slot

Rids == {r \in RID : r[2] \in pages[r[1]].bits}

VARIABLES
  owed,  \* the rows that have been there since each client's scan began
  seen   \* the rows each client's scan has read

Reading == {"check read", "read"}

Scanning(st) == st # None /\ st.kind # "insert"

MCInit ==
  /\ Init
  /\ owed = [c \in Client |-> {}]
  /\ seen = [c \in Client |-> {}]

MCNext ==
  /\ Next
  /\ owed' = [c \in Client |-> IF ~Scanning(stmt'[c]) THEN {}
                               ELSE IF ~Scanning(stmt[c]) THEN Rids
                               ELSE owed[c] \cap Rids']
  /\ seen' = [c \in Client |->
                IF ~Scanning(stmt'[c]) THEN {}
                ELSE IF stmt[c] # None /\ stmt[c].at \in Reading /\ stmt'[c].at \notin Reading
                     THEN seen[c] \cup {<<stmt[c].pid, stmt[c].slot>>}
                     ELSE seen[c]]

MCSpec == MCInit /\ [][MCNext]_<<vars, owed, seen>>

\* Still before a scan: on a later page, or on its page after its slot, or the row it is
\* about to read.
Ahead(st) ==
  {r \in RID : /\ r[1] < page_num
               /\ \/ r[1] > st.pid
                  \/ r[1] = st.pid /\ (r[2] > st.slot \/ (st.at \in Reading /\ r[2] = st.slot))}

\* A scan reads every row that is there from its start to its end, whatever rows another
\* client inserts and deletes meanwhile, on the scan's page or on pages new since; so a
\* DELETE or UPDATE that ends normally has treated them all.
ScanComplete ==
  \A c \in Client : Scanning(stmt[c]) => owed[c] \subseteq seen[c] \cup Ahead(stmt[c])

\* A scan never returns to a row it has read.
ScanOnce ==
  \A c \in Client : Scanning(stmt[c]) => seen[c] \cap Ahead(stmt[c]) = {}
=============================================================================
