---------------------------- MODULE SessionsProofs ----------------------------
(***************************************************************************)
(* Proofs about Sessions, for any number of connections, databases, names, *)
(* file descriptors and values: type correctness, HeldIsOpen, IdsInUse and *)
(* that the databases implement Durable, also when the server crashes.     *)
(***************************************************************************)
EXTENDS Sessions, FiniteSetTheorems, TLAPS

File  == [hdr : Value, page : Value]
Table == [tab : Tab, hdr : Value]
Page  == [page : Value, dirty : BOOLEAN]

LEMMA Nothing ==
  /\ NoFile \notin File /\ NoTable \notin Table /\ NoPage \notin Page
  /\ None \notin Database /\ None \notin Fid /\ None \notin Value
BY NoneAssumption DEF NoFile, NoTable, NoPage, File, Table, Page

-----------------------------------------------------------------------------
(* The inductive invariant, in parts. *)

Types ==
  /\ databases \in SUBSET Database
  /\ meta \in [Database -> SUBSET Name]
  /\ file \in [Tab -> File \cup {NoFile}]
  /\ ref_cnt \in [Database -> 0 .. MaxRef]
  /\ fid \in [Tab -> Fid \cup {None}]
  /\ tables \in [Fid -> Table \cup {NoTable}]
  /\ pool \in [Fid -> Page \cup {NoPage}]
  /\ db \in [Conn -> Database \cup {None}]
  /\ at \in [Conn -> {"idle", "begun", "fetched", "written"} \cup Managing]
  /\ use \in [Conn -> Fid \cup {None}]
  /\ todo \in SUBSET Name

Is(f) == tables[f] # NoTable

Accessing == {"begun", "fetched", "written"}
Leaving   == {"flushing", "closing"}

\* One connection at a time manages.
Alone == \A b, c \in Conn : at[b] \in Managing /\ at[c] \in Managing => b = c

\* A table that a closing connection has dealt with.
Closed(t) == \E c \in Conn : at[c] = "closing" /\ db[c] = t[1] /\ t[2] \notin todo

\* name_fid_map_ and tables_ agree on a table's id, but for the tables closed already,
\* whose header is saved.
Ids ==
  /\ \A t \in Tab : fid[t] # None => Is(fid[t]) /\ tables[fid[t]].tab = t
  /\ \A f \in Fid : Is(f) => IF Closed(tables[f].tab)
                             THEN fid[tables[f].tab] = None /\ tables[f].hdr = file[tables[f].tab].hdr
                             ELSE fid[tables[f].tab] = f

Unique == \A f, g \in Fid : Is(f) /\ Is(g) /\ tables[f].tab = tables[g].tab => f = g

Files ==
  /\ \A f \in Fid : Is(f) => file[tables[f].tab] # NoFile /\ tables[f].tab[1] \in databases
  /\ \A t \in Tab : IsListed(t) =>
       file[t] # NoFile \/ \E c \in Conn : at[c] = "dropping" /\ db[c] = t[1]

Pages == \A f \in Fid : pool[f] # NoPage => Is(f) /\ fid[tables[f].tab] = f

\* A page of the pool differs from the file only while it is marked dirty or about to be.
Clean ==
  \A f \in Fid : pool[f] # NoPage /\ ~pool[f].dirty =>
    \/ pool[f].page = file[tables[f].tab].page
    \/ \E c \in Conn : use[c] = f /\ at[c] = "written"

Uses ==
  /\ \A c \in Conn : use[c] # None <=> at[c] \in Accessing
  /\ \A c \in Conn : use[c] # None =>
       Is(use[c]) /\ tables[use[c]].tab[1] = db[c] /\ fid[tables[use[c]].tab] = use[c]
  /\ \A c \in Conn : at[c] \in {"fetched", "written"} => pool[use[c]] # NoPage
  /\ \A c \in Conn : at[c] # "idle" => db[c] # None
  /\ \A c \in Conn : db[c] # None => db[c] \in databases

\* ref_cnt_ counts at least the connections that have the database open.
Holders(d) == {c \in Conn : db[c] = d /\ at[c] \notin Leaving}

Counted == \A d \in Database : Cardinality(Holders(d)) <= ref_cnt[d]

\* What a connection that opens or closes a database knows of it.
Phases ==
  /\ \A c \in Conn : at[c] = "loading" => ref_cnt[db[c]] = 1
  /\ \A c \in Conn : at[c] \in Leaving => ref_cnt[db[c]] = 0
  /\ \A d \in Database : ref_cnt[d] = 0 =>
       \/ \A f \in Fid : Is(f) => tables[f].tab[1] # d
       \/ \E c \in Conn : at[c] \in Leaving /\ db[c] = d

\* A table is listed and not loaded, or loaded and not listed, only for a reason.
Lists ==
  /\ \A t \in Tab : IsListed(t) /\ ~IsLoaded(t) =>
       \/ ref_cnt[t[1]] = 0 /\ \A c \in Conn : at[c] \in Leaving => db[c] # t[1]
       \/ \E c \in Conn : at[c] = "loading" /\ db[c] = t[1] /\ t[2] \in todo
       \/ file[t] = NoFile /\ \E c \in Conn : at[c] = "dropping" /\ db[c] = t[1]
  /\ \A t \in Tab : IsLoaded(t) /\ ~IsListed(t) =>
       \E c \in Conn : at[c] = "creating" /\ db[c] = t[1]
  /\ \A c \in Conn, n \in Name : at[c] = "loading" /\ n \in todo =>
       IsListed(<<db[c], n>>) /\ ~IsLoaded(<<db[c], n>>)

Sound == Alone /\ Ids /\ Unique /\ Files /\ Pages /\ Clean /\ Uses /\ Phases /\ Lists

Inv == Types /\ Sound /\ Counted

-----------------------------------------------------------------------------
(* Types. *)

LEMMA Names ==
  /\ \A t \in Tab : t = <<t[1], t[2]>> /\ t[1] \in Database /\ t[2] \in Name
  /\ \A d \in Database, n \in Name : <<d, n>> \in Tab /\ <<d, n>>[1] = d /\ <<d, n>>[2] = n
BY DEF Tab

LEMMA SameName == \A t, u \in Tab : t[1] = u[1] /\ t[2] = u[2] => t = u
<1>1. SUFFICES ASSUME NEW t \in Tab, NEW u \in Tab, t[1] = u[1], t[2] = u[2]
               PROVE  t = u
  OBVIOUS
<1>2. t = <<t[1], t[2]>> /\ u = <<u[1], u[2]>>
  BY Names
<1>3. QED
  BY <1>1, <1>2

LEMMA Entries ==
  /\ \A t \in Tab, v \in Value : [tab |-> t, hdr |-> v] \in Table /\ [tab |-> t, hdr |-> v] # NoTable
  /\ \A u, v \in Value : [hdr |-> u, page |-> v] \in File /\ [hdr |-> u, page |-> v] # NoFile
  /\ \A v \in Value, b \in BOOLEAN : [page |-> v, dirty |-> b] \in Page /\ [page |-> v, dirty |-> b] # NoPage
BY Nothing DEF Table, File, Page

LEMMA Fields ==
  ASSUME Types
  PROVE  /\ \A t \in Tab : file[t] # NoFile => file[t].hdr \in Value /\ file[t].page \in Value
         /\ \A f \in Fid : Is(f) => tables[f].tab \in Tab /\ tables[f].hdr \in Value
         /\ \A f \in Fid : pool[f] # NoPage => pool[f].page \in Value /\ pool[f].dirty \in BOOLEAN
BY DEF Types, File, Table, Page, Is

\* What a file is when it has been written to.
LEMMA FlushedIs ==
  ASSUME Inv
  PROVE  \A f \in Fid : Is(f) =>
           /\ file[tables[f].tab] # NoFile
           /\ file[tables[f].tab].hdr \in Value /\ FlushedPage(f) \in Value
           /\ Written(f) = [hdr |-> tables[f].hdr, page |-> FlushedPage(f)]
           /\ Written(f) \in File /\ Written(f) # NoFile
<1> SUFFICES ASSUME NEW f \in Fid, Is(f)
             PROVE  /\ file[tables[f].tab] # NoFile
                    /\ file[tables[f].tab].hdr \in Value /\ FlushedPage(f) \in Value
                    /\ Written(f) = [hdr |-> tables[f].hdr, page |-> FlushedPage(f)]
                    /\ Written(f) \in File /\ Written(f) # NoFile
  OBVIOUS
<1>1. tables[f].tab \in Tab /\ tables[f].hdr \in Value /\ file[tables[f].tab] # NoFile
  BY Fields DEF Inv, Sound, Files
<1>2. file[tables[f].tab].hdr \in Value /\ FlushedPage(f) \in Value
  BY <1>1, Fields DEF Inv, FlushedPage
<1>3. QED
  BY <1>1, <1>2, Entries DEF Written

LEMMA LoadedFile ==
  ASSUME Inv, NEW c \in Conn, NEW n \in Name, at[c] = "loading", n \in todo
  PROVE  /\ db[c] \in Database /\ <<db[c], n>> \in Tab
         /\ file[<<db[c], n>>] # NoFile /\ file[<<db[c], n>>].hdr \in Value
<1>1. db[c] \in Database /\ <<db[c], n>> \in Tab
  BY Names DEF Inv, Types, Sound, Uses
<1>2. IsListed(<<db[c], n>>)
  BY DEF Inv, Sound, Lists
<1>3. \A b \in Conn : at[b] # "dropping"
  BY DEF Inv, Sound, Alone, Managing
<1>4. file[<<db[c], n>>] # NoFile
  BY <1>1, <1>2, <1>3 DEF Inv, Sound, Files
<1>5. QED
  BY <1>1, <1>4, Fields DEF Inv

\* What the statement of a connection works on.
LEMMA UsedIs ==
  ASSUME Inv, NEW c \in Conn, at[c] \in Accessing
  PROVE  /\ use[c] \in Fid /\ Is(use[c])
         /\ tables[use[c]].tab \in Tab /\ tables[use[c]].tab[1] = db[c]
         /\ db[c] \in Database /\ fid[tables[use[c]].tab] = use[c]
         /\ file[tables[use[c]].tab] # NoFile
         /\ at[c] # "begun" =>
              pool[use[c]] # NoPage /\ pool[use[c]].page \in Value /\ pool[use[c]].dirty \in BOOLEAN
<1>1. use[c] # None
  BY DEF Inv, Sound, Uses
<1>2. use[c] \in Fid /\ db[c] \in Database
  BY <1>1 DEF Inv, Sound, Types, Uses, Accessing
<1>3. /\ Is(use[c]) /\ tables[use[c]].tab[1] = db[c] /\ fid[tables[use[c]].tab] = use[c]
      /\ at[c] # "begun" => pool[use[c]] # NoPage
  BY <1>1 DEF Inv, Sound, Uses, Accessing
<1>4. file[tables[use[c]].tab] # NoFile
  BY <1>2, <1>3 DEF Inv, Sound, Files
<1>5. QED
  BY <1>2, <1>3, <1>4, Fields DEF Inv

LEMMA OneLess ==
  \A m \in 0 .. MaxRef : (IF m = 0 THEN 0 ELSE m - 1) \in 0 .. MaxRef
BY RefAssumption

LEMMA TypesStep ==
  ASSUME Inv, Next
  PROVE  Types'
<1> USE Nothing, Names, Entries, ValueAssumption, RefAssumption DEF Inv, Types, Managing
<1>1. ASSUME NEW c \in Conn, NEW d \in Database, CreateDatabase(c, d)
      PROVE  Types'
  BY <1>1 DEF CreateDatabase, memory
<1>2. ASSUME NEW c \in Conn, NEW d \in Database, OpenDatabase(c, d)
      PROVE  Types'
  BY <1>2 DEF OpenDatabase, memory, Goes
<1>3. ASSUME NEW c \in Conn, NEW n \in Name, NEW f \in Fid, LoadTable(c, n, f)
      PROVE  Types'
  BY <1>3, LoadedFile DEF LoadTable, memory
<1>4. ASSUME NEW c \in Conn, LoadEnds(c)
      PROVE  Types'
  BY <1>4 DEF LoadEnds, memory, Goes
<1>5. ASSUME NEW c \in Conn, NEW n \in Name, NEW f \in Fid, CreateTable(c, n, f)
      PROVE  Types'
  BY <1>5 DEF CreateTable, memory, Goes
<1>6. ASSUME NEW c \in Conn, NEW f \in Fid, DropTable(c, f)
      PROVE  Types'
  BY <1>6 DEF DropTable, memory, Goes, PoolWithout
<1>7. ASSUME NEW c \in Conn, TableDone(c)
      PROVE  Types'
  BY <1>7 DEF TableDone, memory, Goes, FlushMeta, Loaded
<1>8. ASSUME NEW c \in Conn, Disconnect(c)
      PROVE  Types'
  <2>1. UNCHANGED <<databases, meta, file, fid, tables, pool, use, todo>>
    BY <1>8 DEF Disconnect
  <2>2. at' \in [Conn -> {"idle", "begun", "fetched", "written"} \cup Managing]
    BY <1>8 DEF Disconnect, Goes
  <2>3. db' \in [Conn -> Database \cup {None}]
    BY <1>8 DEF Disconnect
  <2>4. ref_cnt[db[c]] \in 0 .. MaxRef
    BY <1>8 DEF Disconnect
  <2>5. (IF ref_cnt[db[c]] = 0 THEN 0 ELSE ref_cnt[db[c]] - 1) \in 0 .. MaxRef
    BY <2>4, OneLess
  <2>6. ref_cnt' \in [Database -> 0 .. MaxRef]
    BY <1>8, <2>5 DEF Disconnect, CountDown
  <2>7. QED
    BY <2>1, <2>2, <2>3, <2>6
<1>9. ASSUME NEW c \in Conn, CloseFlushes(c)
      PROVE  Types'
  BY <1>9 DEF CloseFlushes, memory, Goes, FlushMeta, Loaded
<1>10. ASSUME NEW c \in Conn, NEW f \in Fid, CloseTable(c, f)
      PROVE  Types'
  BY <1>10, FlushedIs, Fields DEF CloseTable, memory, PoolWithout, Is
<1>11. ASSUME NEW c \in Conn, CloseEnds(c)
      PROVE  Types'
  BY <1>11 DEF CloseEnds, memory, Goes
<1>12. ASSUME NEW c \in Conn, NEW n \in Name, Begin(c, n)
      PROVE  Types'
  BY <1>12 DEF Begin, memory, Goes
<1>13. ASSUME NEW c \in Conn, FetchPage(c)
      PROVE  Types'
  <2>1. UNCHANGED <<databases, meta, file, ref_cnt, fid, tables, db, use, todo>>
        /\ at' = [at EXCEPT ![c] = "fetched"]
    BY <1>13 DEF FetchPage, Goes
  <2>2. use[c] \in Fid /\ Is(use[c])
    BY <1>13, UsedIs DEF FetchPage, Accessing
  <2>3. \A t \in Tab : fid[t] = use[c] => file[t] # NoFile /\ file[t].page \in Value
    BY <2>2, Fields DEF Sound, Ids, Files
  <2>4. pool' \in [Fid -> Page \cup {NoPage}]
    <3>1. CASE pool[use[c]] # NoPage
      BY <1>13, <3>1 DEF FetchPage
    <3>2. CASE pool[use[c]] = NoPage
      <4>1. PICK t \in Tab : /\ fid[t] = use[c]
                             /\ pool' = [pool EXCEPT ![use[c]] = [page |-> file[t].page, dirty |-> FALSE]]
        BY <1>13, <3>2 DEF FetchPage
      <4>2. [page |-> file[t].page, dirty |-> FALSE] \in Page
        BY <2>3, <4>1, Entries
      <4>3. QED
        BY <2>2, <4>1, <4>2
    <3>3. QED
      BY <3>1, <3>2
  <2>5. QED
    BY <2>1, <2>4
<1>14. ASSUME NEW c \in Conn, NEW v \in Value, Write(c, v)
      PROVE  Types'
  <2>1. UNCHANGED <<databases, meta, file, ref_cnt, fid, db, use, todo>>
        /\ at' = [at EXCEPT ![c] = "written"]
    BY <1>14 DEF Write, Goes
  <2>2. pool' \in [Fid -> Page \cup {NoPage}]
    BY <1>14, UsedIs DEF Write, Accessing
  <2>3. tables' \in [Fid -> Table \cup {NoTable}]
    BY <1>14, UsedIs DEF Write, Accessing
  <2>4. QED
    BY <2>1, <2>2, <2>3
<1>15. ASSUME NEW c \in Conn, UnpinPage(c)
      PROVE  Types'
  <2>1. UNCHANGED <<databases, meta, file, ref_cnt, fid, tables, db, use, todo>>
        /\ at' = [at EXCEPT ![c] = "begun"]
    BY <1>15 DEF UnpinPage, Goes
  <2>2. pool' \in [Fid -> Page \cup {NoPage}]
    <3>1. CASE at[c] = "written"
      <4>1. [page |-> pool[use[c]].page, dirty |-> TRUE] \in Page /\ use[c] \in Fid
        BY <3>1, UsedIs, Entries DEF Accessing
      <4>2. pool' = [pool EXCEPT ![use[c]] = [page |-> pool[use[c]].page, dirty |-> TRUE]]
        BY <1>15, <3>1 DEF UnpinPage
      <4>3. QED
        BY <4>1, <4>2
    <3>2. CASE at[c] # "written"
      BY <1>15, <3>2 DEF UnpinPage
    <3>3. QED
      BY <3>1, <3>2
  <2>3. QED
    BY <2>1, <2>2
<1>16. ASSUME NEW c \in Conn, End(c)
      PROVE  Types'
  BY <1>16 DEF End, memory, Goes
<1>17. ASSUME NEW f \in Fid, Evict(f)
      PROVE  Types'
  BY <1>17, FlushedIs, Fields DEF Evict, memory, Is
<1>18. ASSUME Crash
      PROVE  Types'
  BY <1>18 DEF Crash, memory
<1>19. QED
  BY <1>1, <1>2, <1>3, <1>4, <1>5, <1>6, <1>7, <1>8, <1>9, <1>10, <1>11, <1>12, <1>13, <1>14, <1>15, <1>16, <1>17, <1>18 DEF Next, ConnStep

-----------------------------------------------------------------------------
(* Connections counted. *)

LEMMA HoldersFinite == \A d \in Database : IsFiniteSet(Holders(d)) /\ Cardinality(Holders(d)) \in Nat
<1>1. \A d \in Database : IsFiniteSet(Holders(d))
  BY FS_Subset, ConnAssumption DEF Holders
<1>2. QED
  BY <1>1, FS_CardinalityType

\* A database that a connection has open is counted.
LEMMA HeldCounts ==
  ASSUME Inv
  PROVE  \A d \in Database : ref_cnt[d] = 0 => Holders(d) = {}
<1>1. SUFFICES ASSUME NEW d \in Database, ref_cnt[d] = 0
               PROVE  Holders(d) = {}
  OBVIOUS
<1>2. Cardinality(Holders(d)) <= 0
  BY <1>1 DEF Inv, Counted
<1>3. Cardinality(Holders(d)) = 0
  BY <1>2, HoldersFinite
<1>4. QED
  BY <1>3, HoldersFinite, FS_EmptySet

-----------------------------------------------------------------------------
(* Statements on rows. *)

\* A step that opens, closes, counts and lists nothing.
Quiet ==
  /\ UNCHANGED <<meta, ref_cnt, fid, db, todo>> /\ databases \subseteq databases'
  /\ \A c \in Conn : at'[c] = at[c] \/ (at[c] \notin Managing /\ at'[c] \notin Managing)
  /\ \A f \in Fid : Is(f)' = Is(f) /\ (Is(f) => tables'[f].tab = tables[f].tab)
  /\ \A f \in Fid : Is(f) /\ Closed(tables[f].tab) => tables'[f].hdr = tables[f].hdr
  /\ \A t \in Tab : (file'[t] = NoFile <=> file[t] = NoFile) /\ file'[t].hdr = file[t].hdr

LEMMA QuietKeeps ==
  ASSUME Inv, Types', Quiet
  PROVE  (Alone /\ Ids /\ Unique /\ Files /\ Phases /\ Lists)'
<1> USE Fields DEF Inv, Sound
<1>1. \A c \in Conn : /\ at'[c] \in Managing <=> at[c] \in Managing
                      /\ at'[c] = "loading" <=> at[c] = "loading"
                      /\ at'[c] = "creating" <=> at[c] = "creating"
                      /\ at'[c] = "dropping" <=> at[c] = "dropping"
                      /\ at'[c] = "closing" <=> at[c] = "closing"
                      /\ at'[c] \in Leaving <=> at[c] \in Leaving
  BY DEF Quiet, Managing, Leaving
<1>2. \A t \in Tab : Closed(t)' <=> Closed(t)
  BY <1>1 DEF Quiet, Closed
<1>3. \A t \in Tab : (IsLoaded(t)' <=> IsLoaded(t)) /\ (IsListed(t)' <=> IsListed(t))
  BY DEF Quiet, IsLoaded, IsListed, Is
<1>4. Alone'
  BY <1>1 DEF Alone
<1>5. Ids'
  <2>1. ASSUME NEW t \in Tab, fid'[t] # None
        PROVE  Is(fid[t])' /\ tables'[fid'[t]].tab = t
    BY <2>1 DEF Quiet, Ids, Types
  <2>2. ASSUME NEW f \in Fid, Is(f)'
        PROVE  (IF Closed(tables[f].tab)
                THEN fid[tables[f].tab] = None /\ tables[f].hdr = file[tables[f].tab].hdr
                ELSE fid[tables[f].tab] = f)'
    <3>1. Is(f) /\ tables'[f].tab = tables[f].tab /\ tables[f].tab \in Tab
      BY <2>2 DEF Quiet
    <3>2. QED
      BY <1>2, <3>1 DEF Quiet, Ids
  <2>3. QED
    BY <2>1, <2>2 DEF Ids, Quiet
<1>6. Unique'
  BY DEF Quiet, Unique
<1>7. Files'
  BY <1>1, <1>3 DEF Quiet, Files
<1>8. Phases'
  BY <1>1 DEF Quiet, Phases
<1>9. Lists'
  <2>1. ASSUME NEW t \in Tab, IsListed(t)', ~IsLoaded(t)'
        PROVE  \/ ref_cnt'[t[1]] = 0 /\ \A c \in Conn : at'[c] \in Leaving => db'[c] # t[1]
               \/ \E c \in Conn : at'[c] = "loading" /\ db'[c] = t[1] /\ t[2] \in todo'
               \/ file'[t] = NoFile /\ \E c \in Conn : at'[c] = "dropping" /\ db'[c] = t[1]
    BY <1>1, <1>3, <2>1 DEF Quiet, Lists
  <2>2. ASSUME NEW t \in Tab, IsLoaded(t)', ~IsListed(t)'
        PROVE  \E c \in Conn : at'[c] = "creating" /\ db'[c] = t[1]
    BY <1>1, <1>3, <2>2 DEF Quiet, Lists
  <2>3. ASSUME NEW c \in Conn, NEW n \in Name, at'[c] = "loading", n \in todo'
        PROVE  IsListed(<<db[c], n>>)' /\ ~IsLoaded(<<db[c], n>>)'
    <3>1. at[c] = "loading" /\ n \in todo /\ <<db[c], n>> \in Tab
      BY <1>1, <2>3, LoadedFile DEF Quiet
    <3>2. QED
      BY <1>3, <3>1 DEF Lists, Quiet
  <2>4. QED
    BY <2>1, <2>2, <2>3 DEF Lists, Quiet
<1>10. QED
  BY <1>4, <1>5, <1>6, <1>7, <1>8, <1>9

LEMMA BeginKeeps ==
  ASSUME Inv, Types', NEW c \in Conn, NEW n \in Name, Begin(c, n)
  PROVE  Sound'
<1> USE Nothing, Names, Fields DEF Inv, Sound, Types
<1>1. Quiet
  BY DEF Begin, Quiet, Goes, Managing, Is
<1>2. Pages'
  BY DEF Begin, Pages, Is
<1>3. Clean'
  BY DEF Begin, Goes, Clean
<1>4. Uses'
  <2>1. /\ use' = [use EXCEPT ![c] = fid[<<db[c], n>>]] /\ at' = [at EXCEPT ![c] = "begun"]
        /\ at[c] = "idle"
        /\ UNCHANGED <<databases, tables, pool, db, fid>>
    BY DEF Begin, Goes
  <2>2. db[c] \in Database /\ db[c] # None /\ <<db[c], n>> \in Tab /\ fid[<<db[c], n>>] # None
    BY DEF Begin
  <2>3. use'[c] # None /\ use'[c] \in Fid /\ Is(use'[c]) /\ tables[use'[c]].tab = <<db[c], n>>
    <3>1. PICK t \in Tab : t = <<db[c], n>>
      BY <2>2
    <3>2. use'[c] = fid[t] /\ fid[t] # None /\ fid[t] \in Fid
      BY <2>1, <2>2, <3>1
    <3>3. Is(fid[t]) /\ tables[fid[t]].tab = t
      BY <3>2 DEF Ids
    <3>4. QED
      BY <3>1, <3>2, <3>3
  <2>4. \A b \in Conn \ {c} : use'[b] = use[b] /\ at'[b] = at[b]
    BY <2>1
  <2>5. at'[c] = "begun" /\ fid[tables[use'[c]].tab] = use'[c]
    BY <2>1, <2>2, <2>3
  <2>6. QED
    <3>1. /\ Is(use[c])' /\ tables'[use'[c]].tab[1] = db'[c]
          /\ fid'[tables'[use'[c]].tab] = use'[c]
      <4>1. tables[use'[c]].tab[1] = db[c]
        BY <2>2, <2>3
      <4>2. QED
        BY <2>1, <2>3, <2>5, <4>1 DEF Is
    <3>2. \A b \in Conn \ {c} : Is(use[b])' <=> Is(use[b])
      BY <2>1, <2>4 DEF Is
    <3>3. \A b \in Conn : (use[b] # None <=> at[b] \in Accessing)'
      BY <2>3, <2>4, <2>5 DEF Uses, Accessing
    <3>4. \A b \in Conn : (at[b] \in {"fetched", "written"} => pool[use[b]] # NoPage)'
      BY <2>1, <2>4, <2>5 DEF Uses
    <3>5. \A b \in Conn : ((at[b] # "idle" => db[b] # None) /\ (db[b] # None => db[b] \in databases))'
      BY <2>1, <2>2, <2>4 DEF Uses
    <3>6. QED
      <4>1. ASSUME NEW b \in Conn, use'[b] # None
            PROVE  /\ Is(use[b])' /\ tables'[use'[b]].tab[1] = db'[b]
                   /\ fid'[tables'[use'[b]].tab] = use'[b]
        <5>1. CASE b = c
          BY <3>1, <5>1
        <5>2. CASE b # c
          BY <2>1, <2>4, <3>2, <4>1, <5>2 DEF Uses
        <5>3. QED
          BY <5>1, <5>2
      <4>2. QED
        BY <3>3, <3>4, <3>5, <4>1 DEF Uses
<1>5. QED
  BY <1>1, <1>2, <1>3, <1>4, QuietKeeps

LEMMA FetchPageKeeps ==
  ASSUME Inv, Types', NEW c \in Conn, FetchPage(c)
  PROVE  Sound'
<1> USE Nothing, Names, Fields DEF Inv, Sound, Types
<1>1. Quiet
  BY DEF FetchPage, Quiet, Goes, Managing, Is
<1>2. /\ at[c] = "begun" /\ at' = [at EXCEPT ![c] = "fetched"]
      /\ UNCHANGED <<databases, file, tables, db, fid, use>>
  BY DEF FetchPage, Goes
<1>3. \/ pool[use[c]] # NoPage /\ pool' = pool
      \/ /\ pool[use[c]] = NoPage
         /\ pool' = [pool EXCEPT ![use[c]] =
                       [page |-> file[tables[use[c]].tab].page, dirty |-> FALSE]]
  BY UsedIs DEF FetchPage, Ids, Accessing
<1>4. use[c] \in Fid /\ Is(use[c]) /\ fid[tables[use[c]].tab] = use[c]
  BY <1>2, UsedIs DEF Accessing
<1>5. tables[use[c]].tab \in Tab /\ file[tables[use[c]].tab].page \in Value
  BY <1>2, <1>4, UsedIs DEF Accessing
<1>6. pool'[use[c]] # NoPage /\ \A f \in Fid : f # use[c] => pool'[f] = pool[f]
  <2>1. [page |-> file[tables[use[c]].tab].page, dirty |-> FALSE] # NoPage
    BY <1>5, Entries
  <2>2. QED
    BY <1>3, <1>4, <2>1
<1>7. Pages'
  BY <1>2, <1>3, <1>4, <1>6 DEF Pages, Is
<1>8. Clean'
  BY <1>2, <1>3, <1>4, <1>6 DEF Clean
<1>9. Uses'
  BY <1>2, <1>4, <1>6 DEF Uses, Is, Accessing
<1>10. QED
  BY <1>1, <1>7, <1>8, <1>9, QuietKeeps

LEMMA WriteKeeps ==
  ASSUME Inv, Types', NEW c \in Conn, NEW v \in Value, Write(c, v)
  PROVE  Sound'
<1> USE Nothing, Names, Fields DEF Inv, Sound, Types
<1>1. /\ at[c] = "fetched" /\ at' = [at EXCEPT ![c] = "written"]
      /\ pool' = [pool EXCEPT ![use[c]] = [page |-> v, dirty |-> pool[use[c]].dirty]]
      /\ \/ tables' = tables
         \/ tables' = [tables EXCEPT ![use[c]] = [tab |-> tables[use[c]].tab, hdr |-> v]]
      /\ UNCHANGED <<databases, meta, file, ref_cnt, fid, db, use, todo>>
  BY DEF Write, Goes
<1>2. /\ use[c] \in Fid /\ Is(use[c]) /\ fid[tables[use[c]].tab] = use[c]
      /\ tables[use[c]].tab \in Tab
      /\ pool[use[c]] # NoPage /\ pool[use[c]].dirty \in BOOLEAN
  BY <1>1, UsedIs DEF Accessing
<1>3. \A f \in Fid : /\ Is(f)' = Is(f) /\ (Is(f) => tables'[f].tab = tables[f].tab)
                     /\ f # use[c] => tables'[f] = tables[f]
  BY <1>1, <1>2, Entries DEF Is
<1>4. ~Closed(tables[use[c]].tab)
  BY <1>2 DEF Ids
<1>5. Quiet
  BY <1>1, <1>3, <1>4 DEF Quiet, Managing
<1>6. pool'[use[c]] # NoPage /\ \A f \in Fid : f # use[c] => pool'[f] = pool[f]
  <2>1. [page |-> v, dirty |-> pool[use[c]].dirty] # NoPage
    BY <1>2, Entries
  <2>2. QED
    BY <1>1, <1>2, <2>1
<1>7. Pages'
  BY <1>1, <1>2, <1>3, <1>6 DEF Pages
<1>8. Clean'
  <2>1. at'[c] = "written" /\ \A b \in Conn : at[b] = "written" => at'[b] = "written"
    BY <1>1
  <2>2. QED
    BY <1>1, <1>3, <1>6, <2>1 DEF Clean, Pages
<1>9. Uses'
  BY <1>1, <1>2, <1>3, <1>6 DEF Uses, Accessing
<1>10. QED
  BY <1>5, <1>7, <1>8, <1>9, QuietKeeps

LEMMA UnpinPageKeeps ==
  ASSUME Inv, Types', NEW c \in Conn, UnpinPage(c)
  PROVE  Sound'
<1> USE Nothing, Names, Fields DEF Inv, Sound, Types
<1>1. /\ at[c] \in {"fetched", "written"} /\ at' = [at EXCEPT ![c] = "begun"]
      /\ UNCHANGED <<databases, meta, file, ref_cnt, tables, fid, db, use, todo>>
  BY DEF UnpinPage, Goes
<1>2. /\ use[c] \in Fid /\ Is(use[c]) /\ fid[tables[use[c]].tab] = use[c]
      /\ pool[use[c]] # NoPage /\ pool[use[c]].page \in Value
  BY <1>1, UsedIs DEF Accessing
<1>3. \/ at[c] = "fetched" /\ pool' = pool
      \/ at[c] = "written" /\ pool' = [pool EXCEPT ![use[c]] = [page |-> pool[use[c]].page, dirty |-> TRUE]]
  BY DEF UnpinPage
<1>4. Quiet
  BY <1>1 DEF Quiet, Is, Managing
<1>5. /\ pool'[use[c]] # NoPage /\ \A f \in Fid : f # use[c] => pool'[f] = pool[f]
      /\ at[c] = "written" => pool'[use[c]].dirty
  <2>1. [page |-> pool[use[c]].page, dirty |-> TRUE] # NoPage
    BY <1>2, Entries
  <2>2. QED
    BY <1>2, <1>3, <2>1
<1>6. Pages'
  BY <1>1, <1>2, <1>5 DEF Pages, Is
<1>7. Clean'
  BY <1>1, <1>2, <1>3, <1>5 DEF Clean
<1>8. Uses'
  BY <1>1, <1>2, <1>5 DEF Uses, Is, Accessing
<1>9. QED
  BY <1>4, <1>6, <1>7, <1>8, QuietKeeps

LEMMA EndKeeps ==
  ASSUME Inv, Types', NEW c \in Conn, End(c)
  PROVE  Sound'
<1> USE Nothing, Names, Fields DEF Inv, Sound, Types
<1>1. Quiet
  BY DEF End, Quiet, Is, Goes, Managing
<1>2. Pages'
  BY DEF End, Pages, Is
<1>3. Clean'
  BY DEF End, Goes, Clean
<1>4. Uses'
  BY DEF End, Goes, Uses, Is, Accessing
<1>5. QED
  BY <1>1, <1>2, <1>3, <1>4, QuietKeeps

LEMMA EvictKeeps ==
  ASSUME Inv, Types', NEW f \in Fid, Evict(f)
  PROVE  Sound'
<1> USE Nothing, Names, Fields DEF Inv, Sound, Types
<1> DEFINE t == tables[f].tab
<1>1. /\ pool[f] # NoPage /\ ~Pinned(f) /\ Is(f)
      /\ file' = [file EXCEPT ![t] = [hdr |-> file[t].hdr, page |-> FlushedPage(f)]]
      /\ pool' = [pool EXCEPT ![f] = NoPage]
      /\ UNCHANGED <<databases, meta, ref_cnt, fid, tables, db, at, use, todo>>
  BY DEF Evict, Is
<1>2. t \in Tab /\ file[t] # NoFile /\ [hdr |-> file[t].hdr, page |-> FlushedPage(f)] # NoFile
  BY <1>1, FlushedIs, Entries
<1>3. Quiet
  BY <1>1, <1>2 DEF Quiet, Is
<1>4. Pages'
  BY <1>1 DEF Pages, Is
<1>5. Clean'
  <2>1. \A g \in Fid : Is(g) /\ g # f => tables[g].tab # t
    BY <1>1 DEF Unique
  <2>2. QED
    BY <1>1, <1>2, <2>1 DEF Clean, Pages
<1>6. Uses'
  BY <1>1 DEF Uses, Is, Pinned
<1>7. QED
  BY <1>3, <1>4, <1>5, <1>6, QuietKeeps

-----------------------------------------------------------------------------
(* Opening, closing, creating and dropping. *)

\* While no connection manages, what is listed and what is loaded agree.
LEMMA Free ==
  ASSUME Inv, NEW c \in Conn, MayManage(c)
  PROVE  /\ at[c] = "idle" /\ \A b \in Conn : at[b] \notin Managing
         /\ \A t \in Tab : ~Closed(t) /\ (IsListed(t) => file[t] # NoFile)
         /\ \A t \in Tab : IsListed(t) /\ ~IsLoaded(t) => ref_cnt[t[1]] = 0
         /\ \A t \in Tab : IsLoaded(t) => IsListed(t)
         /\ \A f \in Fid : Is(f) => fid[tables[f].tab] = f
         /\ \A d \in Database : ref_cnt[d] = 0 => \A f \in Fid : Is(f) => tables[f].tab[1] # d
<1> USE DEF Inv, Sound
<1>1. at[c] = "idle" /\ \A b \in Conn : at[b] \notin Managing
  BY DEF MayManage
<1>2. \A t \in Tab : ~Closed(t)
  BY <1>1 DEF Closed, Managing
<1>3. \A t \in Tab : IsListed(t) => file[t] # NoFile
  BY <1>1 DEF Files, Managing
<1>4. \A t \in Tab : IsListed(t) /\ ~IsLoaded(t) => ref_cnt[t[1]] = 0
  BY <1>1 DEF Lists, Managing
<1>5. \A t \in Tab : IsLoaded(t) => IsListed(t)
  BY <1>1 DEF Lists, Managing
<1>6. \A f \in Fid : Is(f) => fid[tables[f].tab] = f
  BY <1>2, Fields DEF Ids
<1>7. \A d \in Database : ref_cnt[d] = 0 => \A f \in Fid : Is(f) => tables[f].tab[1] # d
  BY <1>1 DEF Phases, Leaving, Managing
<1>8. QED
  BY <1>1, <1>2, <1>3, <1>4, <1>5, <1>6, <1>7

LEMMA Only ==
  ASSUME Inv, NEW c \in Conn, at[c] \in Managing
  PROVE  /\ \A b \in Conn \ {c} : at[b] \notin Managing
         /\ at[c] # "idle" /\ db[c] \in Database
         /\ \A t \in Tab : Closed(t) <=> at[c] = "closing" /\ db[c] = t[1] /\ t[2] \notin todo
<1>1. \A b \in Conn \ {c} : at[b] \notin Managing
  BY DEF Inv, Sound, Alone
<1>2. at[c] # "idle" /\ db[c] \in Database
  BY DEF Inv, Sound, Uses, Types, Managing
<1>3. QED
  BY <1>1, <1>2 DEF Closed, Managing

LEMMA CreateDatabaseKeeps ==
  ASSUME Inv, Types', NEW c \in Conn, NEW d \in Database, CreateDatabase(c, d)
  PROVE  Sound'
<1> USE Fields DEF Inv, Sound
<1>1. Quiet
  BY DEF CreateDatabase, memory, Quiet, Is
<1>2. Pages' /\ Clean'
  BY DEF CreateDatabase, memory, Pages, Clean, Is
<1>3. Uses'
  BY DEF CreateDatabase, memory, Uses, Is
<1>4. QED
  BY <1>1, <1>2, <1>3, QuietKeeps

LEMMA OneMore == \A m \in Nat : m + 1 = 1 => m = 0
OBVIOUS

LEMMA OpenDatabaseKeeps ==
  ASSUME Inv, Types', NEW c \in Conn, NEW d \in Database, OpenDatabase(c, d)
  PROVE  Sound'
<1> USE Nothing, Names, Fields DEF Inv, Sound, Types
<1>1. Alone'
  BY DEF OpenDatabase, Goes, MayManage, Alone, Managing
<1>2. Ids'
  BY DEF OpenDatabase, Goes, MayManage, Managing, Ids, Is, Closed, Files
<1>3. Unique'
  BY DEF OpenDatabase, Unique, Is
<1>4. Files'
  BY DEF OpenDatabase, Goes, MayManage, Managing, Files, Is, IsListed
<1>5. Pages'
  BY DEF OpenDatabase, Pages, Is
<1>6. Clean'
  BY DEF OpenDatabase, Goes, MayManage, Managing, Clean, Is, Pages
<1>7. Uses'
  BY DEF OpenDatabase, Goes, MayManage, Managing, Uses, Is, Accessing
<1>8. /\ MayManage(c) /\ ref_cnt[d] < MaxRef
      /\ db' = [db EXCEPT ![c] = d]
      /\ ref_cnt' = [ref_cnt EXCEPT ![d] = ref_cnt[d] + 1]
      /\ UNCHANGED <<databases, meta, file, fid, tables, pool, use>>
  BY DEF OpenDatabase
<1>9. /\ ref_cnt'[d] = ref_cnt[d] + 1 /\ ref_cnt[d] \in Nat
      /\ \A e \in Database : e # d => ref_cnt'[e] = ref_cnt[e]
  BY <1>8, RefAssumption
<1>10. \A b \in Conn : at'[b] \in Managing => b = c /\ at'[b] = "loading" /\ ref_cnt'[d] = 1 /\ todo' = meta[d]
  BY Free DEF OpenDatabase, Goes, MayManage
<1>11. ref_cnt'[d] = 1 => at'[c] = "loading" /\ todo' = meta[d]
  BY DEF OpenDatabase, Goes
<1>12. db'[c] = d /\ \A t \in Tab : (IsLoaded(t)' <=> IsLoaded(t)) /\ (IsListed(t)' <=> IsListed(t))
  BY <1>8 DEF IsLoaded, IsListed
<1>13. Phases'
  <2>1. \A b \in Conn : at'[b] = "loading" => ref_cnt'[db'[b]] = 1
    BY <1>10, <1>12 DEF Managing
  <2>2. \A b \in Conn : at'[b] \notin Leaving
    BY <1>10 DEF Managing, Leaving
  <2>3. ASSUME NEW e \in Database, ref_cnt'[e] = 0
        PROVE  \A f \in Fid : Is(f)' => tables'[f].tab[1] # e
    <3>1. e # d /\ ref_cnt[e] = 0
      BY <1>9, <2>3
    <3>2. QED
      BY <1>8, <3>1, Free DEF Is
  <2>4. QED
    BY <2>1, <2>2, <2>3 DEF Phases
<1>14. Lists'
  <2>1. ASSUME NEW t \in Tab, IsListed(t), ~IsLoaded(t)
        PROVE  \/ ref_cnt'[t[1]] = 0
               \/ at'[c] = "loading" /\ db'[c] = t[1] /\ t[2] \in todo'
    <3>1. ref_cnt[t[1]] = 0
      BY <1>8, <2>1, Free
    <3>2. CASE t[1] # d
      BY <1>9, <3>1, <3>2
    <3>3. CASE t[1] = d
      <4>1. ref_cnt'[d] = 1
        BY <1>9, <3>1, <3>3
      <4>2. QED
        BY <1>11, <1>12, <2>1, <3>3, <4>1 DEF IsListed
    <3>4. QED
      BY <3>2, <3>3
  <2>2. \A t \in Tab : IsLoaded(t) => IsListed(t)
    BY <1>8, Free
  <2>3. ASSUME NEW b \in Conn, NEW n \in Name, at'[b] = "loading", n \in todo'
        PROVE  (IsListed(<<db[b], n>>) /\ ~IsLoaded(<<db[b], n>>))'
    <3>1. b = c /\ todo' = meta[d] /\ ref_cnt'[d] = 1 /\ db'[b] = d
      BY <1>10, <1>12, <2>3 DEF Managing
    <3>2. ref_cnt[d] = 0
      BY <1>9, <3>1, OneMore
    <3>3. \A f \in Fid : Is(f) => tables[f].tab[1] # d
      BY <1>8, <3>2, Free
    <3>4. ~IsLoaded(<<d, n>>) /\ IsListed(<<d, n>>)
      BY <2>3, <3>1, <3>3 DEF IsLoaded, IsListed, Is
    <3>5. QED
      BY <1>12, <3>1, <3>4
  <2>4. \A b \in Conn : at'[b] \notin Leaving
    BY <1>10 DEF Managing, Leaving
  <2>5. QED
    BY <1>12, <2>1, <2>2, <2>3, <2>4 DEF Lists
<1>15. QED
  BY <1>1, <1>2, <1>3, <1>4, <1>5, <1>6, <1>7, <1>13, <1>14

\* A table becomes loaded under a descriptor that was unused.
LEMMA AddKeeps ==
  ASSUME Inv, Types', NEW t \in Tab, NEW f \in Unused, NEW v \in Value,
         ~IsLoaded(t), t[1] \in databases,
         \A b \in Conn : at[b] \notin {"closing", "dropping"} /\ at'[b] # "closing",
         \A b \in Conn : at'[b] = at[b] \/ (at[b] = "idle" /\ at'[b] \in Managing /\ db[b] # None),
         fid' = [fid EXCEPT ![t] = f],
         tables' = [tables EXCEPT ![f] = [tab |-> t, hdr |-> v]],
         file'[t] # NoFile, \A u \in Tab : u # t => file'[u] = file[u],
         UNCHANGED <<databases, meta, pool, db, use>>
  PROVE  /\ (Ids /\ Unique /\ Files /\ Pages /\ Clean /\ Uses)'
         /\ \A g \in Fid : Is(g)' <=> Is(g) \/ g = f
         /\ \A u \in Tab : (IsLoaded(u)' <=> IsLoaded(u) \/ u = t) /\ (IsListed(u)' <=> IsListed(u))
         /\ tables'[f].tab = t /\ \A g \in Fid : Is(g) => tables'[g] = tables[g]
<1> USE Nothing, Fields DEF Inv, Sound, Types
<1>1. f \in Fid /\ \A u \in Tab : fid[u] # f /\ ~Closed(u) /\ ~Closed(u)'
  BY DEF Unused, Closed
<1>2. ~Is(f)
  BY <1>1 DEF Ids
<1>3. [tab |-> t, hdr |-> v] # NoTable
  BY Entries
<1>4. /\ Is(f)' /\ tables'[f].tab = t
      /\ \A g \in Fid \ {f} : tables'[g] = tables[g] /\ (Is(g)' <=> Is(g))
  BY <1>1, <1>3 DEF Is
<1>5. fid'[t] = f /\ \A u \in Tab : u # t => fid'[u] = fid[u]
  BY <1>1
<1>6. \A g \in Fid : Is(g) => tables[g].tab # t
  BY DEF IsLoaded, Is
<1>7. pool[f] = NoPage /\ \A b \in Conn : use[b] # f
  BY <1>1, <1>2 DEF Pages, Uses
<1>8. Ids'
  <2>1. ASSUME NEW u \in Tab, fid'[u] # None
        PROVE  Is(fid[u])' /\ tables'[fid'[u]].tab = u
    <3>1. CASE u = t
      <4>1. fid'[u] = f
        BY <1>5, <3>1
      <4>2. Is(fid[u])' <=> tables'[f] # NoTable
        BY <4>1 DEF Is
      <4>3. QED
        BY <1>4, <3>1, <4>1, <4>2 DEF Is
    <3>2. CASE u # t
      <4>1. fid'[u] = fid[u] /\ fid[u] \in Fid \ {f} /\ Is(fid[u]) /\ tables[fid[u]].tab = u
        BY <1>1, <1>5, <2>1, <3>2 DEF Ids
      <4>2. QED
        BY <1>4, <4>1 DEF Is
    <3>3. QED
      BY <3>1, <3>2
  <2>2. \A g \in Fid : Is(g)' => fid'[tables'[g].tab] = g
    BY <1>1, <1>4, <1>5, <1>6 DEF Ids
  <2>3. QED
    BY <1>1, <1>4, <2>1, <2>2 DEF Ids
<1>9. Unique'
  BY <1>4, <1>6 DEF Unique
<1>10. Files'
  BY <1>4, <1>6 DEF Files, IsListed
<1>11. Pages'
  BY <1>1, <1>4, <1>5, <1>6, <1>7 DEF Pages
<1>12. Clean'
  BY <1>4, <1>6, <1>7 DEF Clean, Pages, Managing
<1>13. Uses'
  <2>1. \A b \in Conn : use[b] # None => use[b] \in Fid \ {f}
    BY <1>7
  <2>2. \A b \in Conn : at'[b] \in Accessing <=> at[b] \in Accessing
    BY DEF Managing, Accessing
  <2>3. \A b \in Conn : use'[b] # None =>
          (Is(use[b]) /\ tables[use[b]].tab[1] = db[b] /\ fid[tables[use[b]].tab] = use[b])'
    BY <1>1, <1>4, <1>5, <1>6, <2>1 DEF Uses, Is
  <2>4. \A b \in Conn : at'[b] \in {"fetched", "written"} => at'[b] = at[b]
    BY DEF Managing
  <2>5. QED
    BY <2>2, <2>3, <2>4 DEF Uses
<1>14. \A u \in Tab : (IsLoaded(u)' <=> IsLoaded(u) \/ u = t) /\ (IsListed(u)' <=> IsListed(u))
  BY <1>1, <1>2, <1>4 DEF IsLoaded, IsListed, Is
<1>15. QED
  BY <1>1, <1>2, <1>4, <1>8, <1>9, <1>10, <1>11, <1>12, <1>13, <1>14

LEMMA LoadTableKeeps ==
  ASSUME Inv, Types', NEW c \in Conn, NEW n \in Name, NEW f \in Fid, LoadTable(c, n, f)
  PROVE  Sound'
<1> USE Nothing, Names DEF Inv, Sound
<1> DEFINE t == <<db[c], n>>
<1>1. /\ at[c] = "loading" /\ n \in todo /\ f \in Unused
      /\ fid' = [fid EXCEPT ![t] = f]
      /\ tables' = [tables EXCEPT ![f] = [tab |-> t, hdr |-> file[t].hdr]]
      /\ todo' = todo \ {n}
      /\ UNCHANGED <<databases, meta, file, ref_cnt, pool, db, at, use>>
  BY DEF LoadTable
<1>2. t \in Tab /\ t[1] = db[c] /\ t[2] = n /\ file[t] # NoFile /\ file[t].hdr \in Value
  BY <1>1, LoadedFile
<1>3. ~IsLoaded(t) /\ IsListed(t)
  BY <1>1 DEF Lists
<1>4. /\ at[c] = "loading" /\ db[c] \in Database
      /\ \A b \in Conn : at[b] \notin {"creating", "dropping", "flushing", "closing"}
      /\ \A b \in Conn : at[b] = "loading" => b = c
  BY <1>1, Only DEF Managing
<1>5. t[1] \in databases
  BY <1>2, <1>4 DEF Uses
<1> HIDE DEF t
<1>6. /\ (Ids /\ Unique /\ Files /\ Pages /\ Clean /\ Uses)'
      /\ \A g \in Fid : Is(g)' <=> Is(g) \/ g = f
      /\ \A u \in Tab : (IsLoaded(u)' <=> IsLoaded(u) \/ u = t) /\ (IsListed(u)' <=> IsListed(u))
      /\ tables'[f].tab = t /\ \A g \in Fid : Is(g) => tables'[g] = tables[g]
  <2>1. \A b \in Conn : /\ at[b] \notin {"closing", "dropping"} /\ at'[b] # "closing"
                        /\ at'[b] = at[b]
    BY <1>1, <1>4
  <2>2. file'[t] # NoFile /\ \A u \in Tab : u # t => file'[u] = file[u]
    BY <1>1, <1>2
  <2>3. UNCHANGED <<databases, meta, pool, db, use>>
    BY <1>1
  <2>4. QED
    BY <1>1, <1>2, <1>3, <1>5, <2>1, <2>2, <2>3, AddKeeps
<1>7. Alone'
  BY <1>1 DEF Alone
<1>8. Phases'
  <2>1. ref_cnt[t[1]] # 0
    BY <1>2, <1>4 DEF Phases
  <2>2. QED
    BY <1>1, <1>6, <2>1 DEF Phases
<1>9. Lists'
  <2>1. ASSUME NEW u \in Tab, IsListed(u)', ~IsLoaded(u)'
        PROVE  \/ ref_cnt'[u[1]] = 0 /\ \A b \in Conn : at'[b] \in Leaving => db'[b] # u[1]
               \/ \E b \in Conn : at'[b] = "loading" /\ db'[b] = u[1] /\ u[2] \in todo'
    <3>1. IsListed(u) /\ ~IsLoaded(u) /\ u # t
      BY <1>6, <2>1
    <3>2. u[1] # t[1] \/ u[2] # n
      BY <1>2, <3>1
    <3>3. QED
      BY <1>1, <1>2, <1>4, <3>1, <3>2 DEF Lists
  <2>2. \A u \in Tab : IsLoaded(u)' => IsListed(u)'
    BY <1>3, <1>4, <1>6 DEF Lists
  <2>3. ASSUME NEW b \in Conn, NEW m \in Name, at'[b] = "loading", m \in todo'
        PROVE  (IsListed(<<db[b], m>>) /\ ~IsLoaded(<<db[b], m>>))'
    <3>1. b = c /\ m \in todo /\ m # n /\ db'[b] = db[c] /\ <<db[c], m>> \in Tab
      BY <1>1, <1>4, <2>3
    <3>2. <<db[c], m>> # t
      BY <1>2, <3>1
    <3>3. IsListed(<<db[c], m>>) /\ ~IsLoaded(<<db[c], m>>)
      BY <1>1, <3>1 DEF Lists
    <3>4. QED
      BY <1>6, <3>1, <3>2, <3>3
  <2>4. QED
    BY <2>1, <2>2, <2>3 DEF Lists
<1>10. QED
  BY <1>6, <1>7, <1>8, <1>9

LEMMA LoadEndsKeeps ==
  ASSUME Inv, Types', NEW c \in Conn, LoadEnds(c)
  PROVE  Sound'
<1> USE Nothing, Names, Fields DEF Inv, Sound, Types
<1>1. Alone' /\ Unique' /\ Pages'
  BY DEF LoadEnds, Goes, Alone, Managing, Unique, Pages, Is
<1>2. Ids'
  BY DEF LoadEnds, Goes, Ids, Is, Closed, Files
<1>3. Files'
  BY DEF LoadEnds, Goes, Files, Is, IsListed
<1>4. Clean'
  BY DEF LoadEnds, Goes, Clean, Is, Pages
<1>5. Uses'
  BY DEF LoadEnds, Goes, Uses, Is, Accessing
<1>6. Phases'
  BY DEF LoadEnds, Goes, Phases, Is, Leaving
<1>7. Lists'
  BY DEF LoadEnds, Goes, Lists, IsListed, IsLoaded, Is, Leaving, Files
<1>8. QED
  BY <1>1, <1>2, <1>3, <1>4, <1>5, <1>6, <1>7

LEMMA CreateTableKeeps ==
  ASSUME Inv, Types', NEW c \in Conn, NEW n \in Name, NEW f \in Fid, CreateTable(c, n, f)
  PROVE  Sound'
<1> USE Nothing, Names DEF Inv, Sound
<1> DEFINE t == <<db[c], n>>
<1>1. /\ MayManage(c) /\ db[c] # None /\ f \in Unused
      /\ fid[t] = None
      /\ file' = [file EXCEPT ![t] = [hdr |-> 0, page |-> 0]]
      /\ fid' = [fid EXCEPT ![t] = f]
      /\ tables' = [tables EXCEPT ![f] = [tab |-> t, hdr |-> 0]]
      /\ at' = [at EXCEPT ![c] = "creating"]
      /\ UNCHANGED <<databases, meta, ref_cnt, pool, db, use, todo>>
  BY DEF CreateTable, Goes
<1>2. t \in Tab /\ t[1] = db[c] /\ t[1] \in databases /\ db[c] \in Database
  BY <1>1 DEF Uses, Types
<1> HIDE DEF t
<1>3. \A b \in Conn : at[b] \notin Managing
  BY <1>1, Free
<1>4. at'[c] = "creating" /\ at[c] = "idle" /\ \A b \in Conn : b # c => at'[b] = at[b]
  BY <1>1, Free DEF Types
<1>5. ~IsLoaded(t)
  BY <1>1, <1>2, Free DEF IsLoaded, Is
<1>6. file'[t] # NoFile /\ \A u \in Tab : u # t => file'[u] = file[u]
  BY <1>1, <1>2, Entries, ValueAssumption DEF Types
<1>7. /\ (Ids /\ Unique /\ Files /\ Pages /\ Clean /\ Uses)'
      /\ \A g \in Fid : Is(g)' <=> Is(g) \/ g = f
      /\ \A u \in Tab : (IsLoaded(u)' <=> IsLoaded(u) \/ u = t) /\ (IsListed(u)' <=> IsListed(u))
      /\ tables'[f].tab = t /\ \A g \in Fid : Is(g) => tables'[g] = tables[g]
  <2>1. /\ \A b \in Conn : at[b] \notin {"closing", "dropping"} /\ at'[b] # "closing"
        /\ \A b \in Conn : at'[b] = at[b] \/ (at[b] = "idle" /\ at'[b] \in Managing /\ db[b] # None)
    BY <1>1, <1>3, <1>4 DEF Managing
  <2>2. UNCHANGED <<databases, meta, pool, db, use>>
    BY <1>1
  <2>3. QED
    BY <1>1, <1>2, <1>5, <1>6, <2>1, <2>2, AddKeeps, ValueAssumption
<1>8. Alone'
  BY <1>3, <1>4 DEF Alone
<1>9. \A b \in Conn : at'[b] \notin Leaving \cup {"loading"}
  BY <1>3, <1>4 DEF Managing, Leaving
<1>10. Phases'
  <2>1. ref_cnt[t[1]] # 0
    <3>1. Holders(db[c]) # {}
      BY <1>1, <1>4 DEF Holders, Leaving
    <3>2. QED
      BY <1>1, <1>2, <3>1, HeldCounts
  <2>2. QED
    BY <1>1, <1>7, <1>9, <2>1, Free DEF Phases, Leaving
<1>11. Lists'
  <2>1. ASSUME NEW u \in Tab, IsListed(u)', ~IsLoaded(u)'
        PROVE  ref_cnt'[u[1]] = 0
    BY <1>1, <1>7, <2>1, Free
  <2>2. ASSUME NEW u \in Tab, IsLoaded(u)', ~IsListed(u)'
        PROVE  at'[c] = "creating" /\ db'[c] = u[1]
    BY <1>1, <1>2, <1>4, <1>7, <2>2, Free
  <2>3. QED
    BY <1>9, <2>1, <2>2 DEF Lists, Leaving
<1>12. QED
  BY <1>7, <1>8, <1>10, <1>11

LEMMA DropTableKeeps ==
  ASSUME Inv, Types', NEW c \in Conn, NEW f \in Fid, DropTable(c, f)
  PROVE  Sound'
<1> USE Nothing, Names, Fields DEF Inv, Sound, Types
<1> DEFINE t == tables[f].tab
<1>1. /\ MayManage(c) /\ Is(f) /\ t[1] = db[c]
      /\ \A b \in Conn : use[b] # f
      /\ file' = [file EXCEPT ![t] = NoFile]
      /\ fid' = [fid EXCEPT ![t] = None]
      /\ tables' = [tables EXCEPT ![f] = NoTable]
      /\ at' = [at EXCEPT ![c] = "dropping"]
      /\ UNCHANGED <<databases, meta, ref_cnt, db, use, todo>>
  BY DEF DropTable, Goes, Is
<1>2. pool' = [pool EXCEPT ![f] = NoPage]
  BY <1>1 DEF DropTable, PoolWithout, Pinned
<1>3. t \in Tab
  BY <1>1
<1>4. \A b \in Conn : at[b] \notin Managing
  BY <1>1, Free
<1>5. at'[c] = "dropping" /\ at[c] = "idle" /\ \A b \in Conn : b # c => at'[b] = at[b]
  BY <1>1, Free
<1>6. ~Is(f)' /\ \A g \in Fid : g # f => (Is(g)' <=> Is(g)) /\ tables'[g] = tables[g]
  BY <1>1 DEF Is
<1>7. \A g \in Fid : Is(g) /\ g # f => tables[g].tab # t
  BY <1>1 DEF Unique
<1>8. file'[t] = NoFile /\ \A u \in Tab : u # t => file'[u] = file[u] /\ fid'[u] = fid[u]
  BY <1>1, <1>3
<1>9. \A u \in Tab : (IsListed(u)' <=> IsListed(u)) /\ (IsLoaded(u)' <=> IsLoaded(u) /\ u # t)
  BY <1>1, <1>6, <1>7 DEF IsListed, IsLoaded, Is
<1> HIDE DEF t
<1>10. Alone'
  BY SMTT(30), <1>4, <1>5 DEF Alone
<1>11. Ids'
  <2>1. \A u \in Tab : ~Closed(u)'
    BY <1>4, <1>5 DEF Closed, Managing
  <2>2. \A u \in Tab : fid'[u] # None => u # t /\ fid'[u] = fid[u] /\ fid[u] \in Fid
    BY <1>1, <1>3
  <2>3. \A u \in Tab : fid'[u] # None => Is(fid[u]) /\ tables[fid[u]].tab = u /\ fid[u] # f
    BY <1>1, <2>2 DEF Ids, t
  <2>4. ASSUME NEW u \in Tab, fid'[u] # None
        PROVE  (Is(fid[u]) /\ tables[fid[u]].tab = u)'
    <3>1. fid'[u] = fid[u] /\ fid[u] \in Fid /\ Is(fid[u])' /\ tables'[fid[u]].tab = u
      BY <1>6, <2>2, <2>3, <2>4
    <3>2. QED
      BY <3>1 DEF Is
  <2>5. \A g \in Fid : Is(g)' => fid'[tables'[g].tab] = g
    BY <1>1, <1>6, <1>7, <1>8, Free DEF Ids
  <2>6. QED
    BY <1>6, <2>1, <2>4, <2>5 DEF Ids
<1>12. Unique'
  BY SMTT(30), <1>6 DEF Unique
<1>13. Files'
  BY <1>1, <1>5, <1>6, <1>7, <1>8, <1>9, Free DEF Files
<1>14. Pages'
  BY <1>1, <1>2, <1>6, <1>7, <1>8 DEF Pages
<1>15. Clean'
  BY <1>1, <1>2, <1>5, <1>6, <1>7, <1>8 DEF Clean, Pages
<1>16. Uses'
  <2>1. \A b \in Conn : use[b] # None => use[b] \in Fid \ {f}
    BY <1>1
  <2>2. \A b \in Conn : use'[b] # None =>
          (Is(use[b]) /\ tables[use[b]].tab[1] = db[b] /\ fid[tables[use[b]].tab] = use[b])'
    BY <1>1, <1>6, <1>7, <1>8, <2>1 DEF Uses, Is
  <2>3. \A b \in Conn : at'[b] \in {"fetched", "written"} => at'[b] = at[b] /\ pool'[use'[b]] = pool[use[b]]
    BY <1>1, <1>2, <1>5, <2>1
  <2>4. at'[c] \notin Accessing /\ at[c] \notin Accessing
    BY <1>5 DEF Accessing
  <2>5. db[c] # None
    BY <1>1, <1>3
  <2>6. QED
    BY <1>1, <1>5, <2>2, <2>3, <2>4, <2>5 DEF Uses
<1>17. \A b \in Conn : at'[b] \notin Leaving \cup {"loading"}
  BY <1>4, <1>5 DEF Managing, Leaving
<1>18. Phases'
  BY SMTT(30), <1>1, <1>6, <1>17, Free DEF Phases
<1>19. Lists'
  <2>1. ASSUME NEW u \in Tab, IsListed(u)', ~IsLoaded(u)'
        PROVE  \/ ref_cnt'[u[1]] = 0
               \/ file'[u] = NoFile /\ at'[c] = "dropping" /\ db'[c] = u[1]
    BY <1>1, <1>5, <1>8, <1>9, <2>1, Free
  <2>2. \A u \in Tab : IsLoaded(u)' => IsListed(u)'
    BY <1>1, <1>9, Free
  <2>3. QED
    BY <1>17, <2>1, <2>2 DEF Lists
<1>20. QED
  BY <1>10, <1>11, <1>12, <1>13, <1>14, <1>15, <1>16, <1>18, <1>19

\* FlushMeta lists what is loaded.
LEMMA MetaFlushed ==
  ASSUME Types, NEW d \in Database, FlushMeta(d), UNCHANGED tables
  PROVE  \A u \in Tab : /\ IsLoaded(u)' <=> IsLoaded(u)
                        /\ IsListed(u)' <=> IF u[1] = d THEN IsLoaded(u) ELSE IsListed(u)
<1>1. \A u \in Tab : IsLoaded(u)' <=> IsLoaded(u)
  BY DEF IsLoaded
<1>2. ASSUME NEW u \in Tab
      PROVE  IsListed(u)' <=> IF u[1] = d THEN IsLoaded(u) ELSE IsListed(u)
  <2>1. meta' = [meta EXCEPT ![d] = Loaded(d)] /\ meta \in [Database -> SUBSET Name]
    BY DEF FlushMeta, Types
  <2>2. u = <<u[1], u[2]>> /\ u[1] \in Database /\ u[2] \in Name
    BY Names
  <2>3. CASE u[1] = d
    <3>1. u[2] \in Loaded(d) <=> IsLoaded(u)
      BY <2>2, <2>3 DEF Loaded
    <3>2. QED
      BY <2>1, <2>3, <3>1 DEF IsListed
  <2>4. CASE u[1] # d
    BY <2>1, <2>2, <2>4 DEF IsListed
  <2>5. QED
    BY <2>3, <2>4
<1>3. QED
  BY <1>1, <1>2

LEMMA TableDoneKeeps ==
  ASSUME Inv, Types', NEW c \in Conn, TableDone(c)
  PROVE  Sound'
<1> USE Nothing, Names, Fields DEF Inv, Sound, Types
<1>1. /\ at[c] \in {"creating", "dropping"} /\ at' = [at EXCEPT ![c] = "idle"]
      /\ meta' = [meta EXCEPT ![db[c]] = Loaded(db[c])]
      /\ UNCHANGED <<databases, file, ref_cnt, fid, tables, pool, db, use, todo>>
  BY DEF TableDone, Goes, FlushMeta
<1>2. /\ db[c] \in Database /\ at'[c] = "idle"
      /\ \A b \in Conn : at'[b] \notin Managing
      /\ \A b \in Conn \ {c} : at'[b] = at[b] /\ at[b] \notin Managing
  BY <1>1, Only DEF Managing
<1>3. \A u \in Tab : /\ IsLoaded(u)' <=> IsLoaded(u)
                     /\ IsListed(u)' <=> IF u[1] = db[c] THEN IsLoaded(u) ELSE IsListed(u)
  BY <1>1, <1>2, MetaFlushed DEF FlushMeta
<1>4. Alone' /\ Unique' /\ Pages'
  BY <1>1, <1>2 DEF Alone, Unique, Pages, Is
<1>5. Ids'
  BY DEF TableDone, Goes, Ids, Is, Closed, Files
<1>6. Files'
  <2>1. ASSUME NEW u \in Tab, IsListed(u)'
        PROVE  file[u] # NoFile
    <3>1. CASE u[1] = db[c]
      <4>1. IsLoaded(u)
        BY <1>3, <2>1, <3>1
      <4>2. QED
        BY <4>1 DEF IsLoaded, Files, Is
    <3>2. CASE u[1] # db[c]
      BY <1>1, <1>2, <1>3, <2>1, <3>2 DEF Files, Managing
    <3>3. QED
      BY <3>1, <3>2
  <2>2. QED
    BY <1>1, <2>1 DEF Files, Is
<1>7. Clean' /\ Uses'
  BY DEF TableDone, Goes, Clean, Is, Pages, Uses, Accessing
<1>8. Phases'
  BY SMTT(30) DEF TableDone, Goes, Phases, Is, Leaving
<1>9. Lists'
  <2>1. ASSUME NEW u \in Tab, IsListed(u)', ~IsLoaded(u)'
        PROVE  ref_cnt'[u[1]] = 0 /\ \A b \in Conn : at'[b] \notin Leaving
    <3>1. u[1] # db[c] /\ IsListed(u) /\ ~IsLoaded(u)
      BY <1>3, <2>1
    <3>2. QED
      BY <1>1, <1>2, <3>1 DEF Lists, Managing, Leaving
  <2>2. ASSUME NEW u \in Tab, IsLoaded(u)', ~IsListed(u)'
        PROVE  FALSE
    <3>1. u[1] # db[c] /\ IsLoaded(u) /\ ~IsListed(u)
      BY <1>3, <2>2
    <3>2. QED
      BY <1>1, <1>2, <3>1 DEF Lists, Managing
  <2>3. QED
    BY <1>2, <2>1, <2>2 DEF Lists, Managing
<1>10. QED
  BY <1>4, <1>5, <1>6, <1>7, <1>8, <1>9

LEMMA DisconnectKeeps ==
  ASSUME Inv, Types', NEW c \in Conn, Disconnect(c)
  PROVE  Sound'
<1> USE Nothing, Names, Fields DEF Inv, Sound, Types
<1>1. /\ MayManage(c) /\ db[c] # None /\ db[c] \in Database
      /\ ref_cnt' = [ref_cnt EXCEPT ![db[c]] = IF ref_cnt[db[c]] = 0 THEN 0 ELSE ref_cnt[db[c]] - 1]
      /\ \/ ref_cnt[db[c]] = 1 /\ at' = [at EXCEPT ![c] = "flushing"] /\ db' = db
         \/ ref_cnt[db[c]] # 1 /\ at' = at /\ db' = [db EXCEPT ![c] = None]
      /\ UNCHANGED <<databases, meta, file, fid, tables, pool, use, todo>>
  BY DEF Disconnect, CountDown, LastOut, Goes
<1>2. Alone' /\ Unique' /\ Pages'
  BY DEF Disconnect, Goes, Alone, MayManage, Managing, Unique, Pages, Is
<1>3. Ids'
  BY DEF Disconnect, Goes, MayManage, Managing, Ids, Is, Closed, Files
<1>4. Files'
  BY DEF Disconnect, Goes, MayManage, Managing, Files, Is, IsListed
<1>5. Clean'
  BY DEF Disconnect, Goes, MayManage, Managing, Clean, Is, Pages
<1>6. Uses'
  BY SMTT(30) DEF Disconnect, Goes, MayManage, Managing, Uses, Is, Accessing
<1>7. Phases'
  BY DEF Disconnect, Goes, CountDown, LastOut, MayManage, Managing, Phases, Is, Leaving
<1>8. Lists'
  <2>1. \A t \in Tab : (IsLoaded(t)' <=> IsLoaded(t)) /\ (IsListed(t)' <=> IsListed(t))
    BY <1>1 DEF IsLoaded, IsListed
  <2>2. \A b \in Conn : at'[b] \in Managing => b = c /\ at'[b] = "flushing" /\ ref_cnt[db[c]] = 1 /\ db' = db
    BY <1>1, Free
  <2>3. ASSUME NEW t \in Tab, IsListed(t)', ~IsLoaded(t)'
        PROVE  ref_cnt'[t[1]] = 0 /\ \A b \in Conn : at'[b] \in Leaving => db'[b] # t[1]
    <3>1. ref_cnt[t[1]] = 0
      BY <1>1, <2>1, <2>3, Free
    <3>2. ref_cnt'[t[1]] = 0
      BY <1>1, <3>1
    <3>3. ASSUME NEW b \in Conn, at'[b] \in Leaving
          PROVE  db'[b] # t[1]
      <4>1. b = c /\ ref_cnt[db[c]] = 1 /\ db'[b] = db[c]
        BY <2>2, <3>3 DEF Managing, Leaving
      <4>2. QED
        BY <3>1, <4>1
    <3>4. QED
      BY <3>2, <3>3
  <2>4. \A t \in Tab : IsLoaded(t)' => IsListed(t)'
    BY <1>1, <2>1, Free
  <2>5. QED
    BY <2>2, <2>3, <2>4 DEF Lists, Managing
<1>9. QED
  BY <1>2, <1>3, <1>4, <1>5, <1>6, <1>7, <1>8

\* While the last connection leaves, no statement is on its database's tables.
LEMMA NoneLeft ==
  ASSUME Inv, NEW c \in Conn, at[c] \in Leaving
  PROVE  /\ \A b \in Conn : use[b] # None => tables[use[b]].tab[1] # db[c]
         /\ \A f \in Fid : Is(f) /\ tables[f].tab[1] = db[c] => ~Pinned(f)
<1>1. db[c] \in Database /\ ref_cnt[db[c]] = 0
  BY Only DEF Inv, Sound, Phases, Managing, Leaving
<1>2. Holders(db[c]) = {}
  BY <1>1, HeldCounts
<1>3. \A b \in Conn : use[b] # None => tables[use[b]].tab[1] = db[b] /\ at[b] \notin Leaving
  BY DEF Inv, Sound, Uses, Leaving, Accessing
<1>4. \A b \in Conn : use[b] # None => db[b] # db[c]
  BY <1>2, <1>3 DEF Holders
<1>5. QED
  BY <1>3, <1>4, Nothing DEF Pinned

LEMMA CloseFlushesKeeps ==
  ASSUME Inv, Types', NEW c \in Conn, CloseFlushes(c)
  PROVE  Sound'
<1> USE Nothing, Names, Fields DEF Inv, Sound, Types
<1>1. /\ at[c] = "flushing" /\ at' = [at EXCEPT ![c] = "closing"]
      /\ FlushMeta(db[c]) /\ todo' = Loaded(db[c])
      /\ UNCHANGED <<databases, file, ref_cnt, fid, tables, pool, db, use>>
  BY DEF CloseFlushes, Goes
<1>2. /\ db[c] \in Database /\ at'[c] = "closing"
      /\ \A b \in Conn \ {c} : at'[b] = at[b] /\ at[b] \notin Managing
  BY <1>1, Only DEF Managing
<1>3. \A u \in Tab : /\ IsLoaded(u)' <=> IsLoaded(u)
                     /\ IsListed(u)' <=> IF u[1] = db[c] THEN IsLoaded(u) ELSE IsListed(u)
  BY <1>1, <1>2, MetaFlushed
<1>4. Alone' /\ Unique' /\ Pages'
  BY <1>1, <1>2 DEF Alone, Managing, Unique, Pages, Is
<1>5. Ids'
  <2>1. \A f \in Fid : Is(f) => ~Closed(tables[f].tab)
    BY <1>1, <1>2 DEF Closed, Managing
  <2>2. ASSUME NEW f \in Fid, Is(f)
        PROVE  ~Closed(tables[f].tab)'
    <3>1. tables[f].tab[1] = db[c] => tables[f].tab[2] \in Loaded(db[c])
      <4>1. ASSUME tables[f].tab[1] = db[c]
            PROVE  tables[f].tab[2] \in Loaded(db[c])
        <5>1. IsLoaded(tables[f].tab) /\ tables[f].tab \in Tab
          BY <2>2 DEF IsLoaded, Is
        <5>2. tables[f].tab = <<db[c], tables[f].tab[2]>> /\ tables[f].tab[2] \in Name
          BY <4>1, <5>1, Names
        <5>3. IsLoaded(<<db[c], tables[f].tab[2]>>)
          BY ZenonT(30), <5>1, <5>2
        <5>4. QED
          BY <5>2, <5>3 DEF Loaded
      <4>2. QED
        BY <4>1
    <3>2. QED
      BY <1>1, <1>2, <3>1 DEF Closed, Managing
  <2>3. QED
    BY <1>1, <2>1, <2>2 DEF Ids, Is
<1>6. Files'
  <2>1. ASSUME NEW u \in Tab, IsListed(u)'
        PROVE  file[u] # NoFile
    <3>1. CASE u[1] = db[c]
      <4>1. IsLoaded(u)
        BY <1>3, <2>1, <3>1
      <4>2. QED
        BY <4>1 DEF IsLoaded, Files, Is
    <3>2. CASE u[1] # db[c]
      BY <1>1, <1>2, <1>3, <2>1, <3>2 DEF Files, Managing
    <3>3. QED
      BY <3>1, <3>2
  <2>2. QED
    BY <1>1, <2>1 DEF Files, Is
<1>7. Clean' /\ Uses'
  BY DEF CloseFlushes, Goes, Clean, Is, Pages, Uses, Accessing
<1>8. Phases'
  <2>1. \A b \in Conn : (at'[b] \in Leaving <=> at[b] \in Leaving) /\ at'[b] # "loading"
    BY <1>1, <1>2 DEF Leaving, Managing
  <2>2. QED
    BY SMTT(30), <1>1, <2>1 DEF Phases, Is
<1>9. Lists'
  <2>1. ASSUME NEW u \in Tab, IsListed(u)', ~IsLoaded(u)'
        PROVE  ref_cnt'[u[1]] = 0 /\ \A b \in Conn : at'[b] \in Leaving => db'[b] # u[1]
    <3>1. u[1] # db[c] /\ IsListed(u) /\ ~IsLoaded(u)
      BY <1>3, <2>1
    <3>2. QED
      BY <1>1, <1>2, <3>1 DEF Lists, Managing, Leaving
  <2>2. ASSUME NEW u \in Tab, IsLoaded(u)', ~IsListed(u)'
        PROVE  FALSE
    <3>1. u[1] # db[c] /\ IsLoaded(u) /\ ~IsListed(u)
      BY <1>3, <2>2
    <3>2. QED
      BY <1>1, <1>2, <3>1 DEF Lists, Managing
  <2>3. QED
    BY <1>2, <2>1, <2>2 DEF Lists, Managing
<1>10. QED
  BY <1>4, <1>5, <1>6, <1>7, <1>8, <1>9

LEMMA CloseTableKeeps ==
  ASSUME Inv, Types', NEW c \in Conn, NEW f \in Fid, CloseTable(c, f)
  PROVE  Sound'
<1> USE Nothing, Names, Fields DEF Inv, Sound, Types
<1> DEFINE t == tables[f].tab
<1>1. /\ at[c] = "closing" /\ Is(f) /\ t[1] = db[c] /\ t[2] \in todo
      /\ file' = [file EXCEPT ![t] = Written(f)]
      /\ fid' = [fid EXCEPT ![t] = None]
      /\ todo' = todo \ {t[2]}
      /\ UNCHANGED <<databases, meta, ref_cnt, tables, db, at, use>>
  BY DEF CloseTable, Is
<1>2. pool' = [pool EXCEPT ![f] = NoPage]
  BY <1>1, NoneLeft DEF CloseTable, PoolWithout, Leaving
<1>3. t \in Tab /\ Written(f) # NoFile /\ Written(f).hdr = tables[f].hdr
  BY <1>1, FlushedIs
<1>4. \A u \in Tab : Closed(u)' <=> Closed(u) \/ u = t
  <2>1. \A u \in Tab : Closed(u)' <=> at'[c] = "closing" /\ db'[c] = u[1] /\ u[2] \notin todo'
    BY <1>1, Only DEF Closed, Managing
  <2>2. QED
    <3>1. \A u \in Tab : u[1] = t[1] /\ u[2] = t[2] => u = t
      BY <1>3, SameName
    <3>2. \A u \in Tab : Closed(u) <=> db[c] = u[1] /\ u[2] \notin todo
      BY <1>1, Only DEF Managing
    <3>3. at'[c] = "closing" /\ db'[c] = t[1] /\ db[c] = t[1] /\ todo' = todo \ {t[2]}
      BY <1>1
    <3>4. QED
      BY <2>1, <3>1, <3>2, <3>3
<1>5. \A g \in Fid : Is(g) /\ g # f => tables[g].tab # t
  BY <1>1 DEF Unique
<1>6. file'[t] = Written(f) /\ \A u \in Tab : u # t => file'[u] = file[u] /\ fid'[u] = fid[u]
  BY <1>1, <1>3
<1>7. fid'[t] = None
  BY <1>1, <1>3
<1>8. \A g \in Fid : Is(g)' <=> Is(g)
  BY <1>1 DEF Is
<1>9. \A u \in Tab : (IsListed(u)' <=> IsListed(u)) /\ (IsLoaded(u)' <=> IsLoaded(u))
  BY <1>1 DEF IsListed, IsLoaded
<1> HIDE DEF t
<1>10. Alone' /\ Unique'
  BY <1>1 DEF Alone, Unique, Is
<1>11. Ids'
  <2>1. ASSUME NEW u \in Tab, fid'[u] # None
        PROVE  (Is(fid[u]) /\ tables[fid[u]].tab = u)'
    BY <1>1, <1>6, <1>7, <2>1 DEF Ids, Is
  <2>2. ASSUME NEW g \in Fid, Is(g)
        PROVE  (IF Closed(tables[g].tab)
                THEN fid[tables[g].tab] = None /\ tables[g].hdr = file[tables[g].tab].hdr
                ELSE fid[tables[g].tab] = g)'
    <3>1. CASE g = f
      <4>1. tables'[g].tab = t /\ tables'[g].hdr = tables[f].hdr
        BY <1>1, <3>1 DEF t
      <4>2. Closed(tables[g].tab)'
        BY <1>1, <1>3, <1>4, <3>1 DEF t
      <4>3. QED
        BY <1>3, <1>6, <1>7, <4>1, <4>2
    <3>2. CASE g # f
      <4>1. tables'[g] = tables[g] /\ tables[g].tab # t /\ tables[g].tab \in Tab
        BY <1>1, <1>5, <2>2, <3>2
      <4>2. Closed(tables[g].tab)' <=> Closed(tables[g].tab)
        BY <1>1, <1>4, <4>1
      <4>3. QED
        BY <1>6, <2>2, <4>1, <4>2 DEF Ids
    <3>3. QED
      BY <3>1, <3>2
  <2>3. QED
    BY <1>8, <2>1, <2>2 DEF Ids
<1>12. Files'
  BY <1>1, <1>3, <1>6, <1>8, <1>9 DEF Files
<1>13. Pages'
  BY <1>1, <1>2, <1>5, <1>6, <1>8 DEF Pages
<1>14. Clean'
  BY <1>1, <1>2, <1>5, <1>6, <1>8 DEF Clean, Pages
<1>15. Uses'
  <2>1. \A b \in Conn : use[b] # None => use[b] \in Fid \ {f}
    BY <1>1, NoneLeft DEF Leaving, t
  <2>2. \A b \in Conn : use'[b] # None =>
          (Is(use[b]) /\ tables[use[b]].tab[1] = db[b] /\ fid[tables[use[b]].tab] = use[b])'
    BY <1>1, <1>5, <1>6, <1>8, <2>1 DEF Uses, Is
  <2>3. \A b \in Conn : at'[b] \in {"fetched", "written"} => pool'[use'[b]] = pool[use[b]] /\ use[b] # None
    BY <1>1, <1>2, <2>1 DEF Uses, Accessing
  <2>4. QED
    BY <1>1, <2>2, <2>3 DEF Uses
<1>16. Phases'
  BY <1>1, <1>8 DEF Phases
<1>17. Lists'
  <2>1. \A b \in Conn : at[b] # "loading"
    BY <1>1, Only DEF Managing
  <2>2. \A u \in Tab : IsListed(u) /\ ~IsLoaded(u) => file'[u] = file[u]
    BY <1>1, <1>6 DEF IsLoaded, Is, t
  <2>3. QED
    BY <1>1, <1>9, <2>1, <2>2 DEF Lists
<1>18. QED
  BY <1>10, <1>11, <1>12, <1>13, <1>14, <1>15, <1>16, <1>17

LEMMA CloseEndsKeeps ==
  ASSUME Inv, Types', NEW c \in Conn, CloseEnds(c)
  PROVE  Sound'
<1> USE Nothing, Names, Fields DEF Inv, Sound, Types
<1>1. /\ at[c] = "closing" /\ todo = {} /\ at' = [at EXCEPT ![c] = "idle"]
      /\ db' = [db EXCEPT ![c] = None]
      /\ tables' = [f \in Fid |-> IF tables[f] # NoTable /\ tables[f].tab[1] = db[c] THEN NoTable
                                  ELSE tables[f]]
      /\ UNCHANGED <<databases, meta, file, ref_cnt, fid, pool, use, todo>>
  BY DEF CloseEnds, Goes
<1>2. /\ db[c] \in Database /\ at'[c] = "idle" /\ db'[c] = None
      /\ \A b \in Conn \ {c} : at'[b] = at[b] /\ db'[b] = db[b] /\ at[b] \notin Managing
  BY <1>1, Only DEF Managing
<1>3. \A t \in Tab : Closed(t) <=> t[1] = db[c]
  BY <1>1, Only DEF Managing
<1>4. \A f \in Fid : /\ Is(f)' <=> Is(f) /\ tables[f].tab[1] # db[c]
                     /\ Is(f)' => tables'[f] = tables[f]
  BY <1>1 DEF Is
<1>5. Alone'
  BY <1>2 DEF Alone
<1>6. Ids'
  BY DEF CloseEnds, Goes, Ids, Is, Closed, Files
<1>7. Unique'
  BY <1>4 DEF Unique
<1>8. Files'
  BY DEF CloseEnds, Goes, Files, Is, IsListed
<1>9. \A f \in Fid : Is(f) /\ fid[tables[f].tab] = f => Is(f)' /\ tables'[f] = tables[f]
  <2>1. \A f \in Fid : Is(f) /\ fid[tables[f].tab] = f => ~Closed(tables[f].tab)
    BY DEF Ids
  <2>2. QED
    BY <1>3, <1>4, <2>1
<1>10. Pages'
  BY <1>1, <1>9 DEF Pages
<1>11. Clean'
  BY <1>1, <1>2, <1>9 DEF Clean, Pages
<1>12. Uses'
  <2>1. \A b \in Conn : use[b] # None => (at[b] \in Accessing /\ b # c)
    BY <1>1 DEF Uses, Accessing
  <2>2. ASSUME NEW b \in Conn, use'[b] # None
        PROVE  (Is(use[b]) /\ tables[use[b]].tab[1] = db[b] /\ fid[tables[use[b]].tab] = use[b])'
    <3>1. use'[b] = use[b] /\ db'[b] = db[b] /\ use[b] \in Fid
      BY <1>1, <1>2, <2>1, <2>2
    <3>2. Is(use[b]) /\ tables[use[b]].tab[1] = db[b] /\ fid[tables[use[b]].tab] = use[b]
      BY <2>2, <3>1 DEF Uses
    <3>3. Is(use[b])' /\ tables'[use[b]] = tables[use[b]]
      BY <1>1, <1>9, <3>1, <3>2 DEF Is
    <3>4. QED
      BY <1>1, <3>1, <3>2, <3>3
  <2>3. \A b \in Conn : use'[b] # None <=> at'[b] \in Accessing
    BY <1>1, <1>2, <2>1 DEF Uses, Accessing
  <2>4. QED
    <3>1. \A b \in Conn : (at[b] \in {"fetched", "written"} => pool[use[b]] # NoPage)'
      BY <1>1, <1>2 DEF Uses
    <3>2. \A b \in Conn : ((at[b] # "idle" => db[b] # None) /\ (db[b] # None => db[b] \in databases))'
      BY <1>1, <1>2 DEF Uses
    <3>3. QED
      BY <2>2, <2>3, <3>1, <3>2 DEF Uses
<1>13. Phases'
  <2>1. \A b \in Conn : at'[b] \notin Managing
    BY <1>2 DEF Managing
  <2>2. ASSUME NEW d \in Database, ref_cnt'[d] = 0
        PROVE  \A f \in Fid : Is(f)' => tables'[f].tab[1] # d
    <3>1. CASE d = db[c]
      BY <1>4, <3>1
    <3>2. CASE d # db[c]
      BY <1>1, <1>2, <1>4, <2>2, <3>2 DEF Phases, Managing, Leaving
    <3>3. QED
      BY <3>1, <3>2
  <2>3. QED
    BY <2>1, <2>2 DEF Phases, Managing, Leaving
<1>14. Lists'
  <2>1. \A b \in Conn : at'[b] \notin Managing
    BY <1>2 DEF Managing
  <2>2. ref_cnt[db[c]] = 0
    BY <1>1 DEF Phases, Leaving
  <2>3. \A u \in Tab : /\ IsListed(u)' <=> IsListed(u)
                       /\ IsLoaded(u)' <=> IsLoaded(u) /\ u[1] # db[c]
    BY <1>1, <1>4 DEF IsLoaded, IsListed, Is
  <2>4. ASSUME NEW u \in Tab, IsListed(u)', ~IsLoaded(u)'
        PROVE  ref_cnt'[u[1]] = 0
    <3>1. CASE u[1] = db[c]
      BY <1>1, <2>2, <3>1
    <3>2. CASE u[1] # db[c]
      BY <1>1, <1>2, <2>3, <2>4, <3>2 DEF Lists, Managing
    <3>3. QED
      BY <3>1, <3>2
  <2>5. \A u \in Tab : IsLoaded(u)' => IsListed(u)'
    BY <1>1, <1>2, <2>3 DEF Lists, Managing
  <2>6. QED
    BY <2>1, <2>4, <2>5 DEF Lists, Managing, Leaving
<1>15. QED
  BY <1>5, <1>6, <1>7, <1>8, <1>10, <1>11, <1>12, <1>13, <1>14

LEMMA CrashKeeps ==
  ASSUME Inv, Types', Crash
  PROVE  Sound'
<1> USE Nothing, Names, Fields DEF Inv, Sound, Types
<1>1. /\ \A b \in Conn : at[b] # "dropping"
      /\ \A d \in Database : ref_cnt'[d] = 0
      /\ \A t \in Tab : fid'[t] = None
      /\ \A f \in Fid : ~Is(f)' /\ pool'[f] = NoPage
      /\ \A b \in Conn : db'[b] = None /\ at'[b] = "idle" /\ use'[b] = None
      /\ UNCHANGED <<databases, meta, file>>
  BY DEF Crash, Is
<1>2. Alone' /\ Ids' /\ Unique' /\ Pages' /\ Clean'
  BY <1>1 DEF Alone, Ids, Unique, Pages, Clean, Managing
<1>3. Files'
  BY <1>1 DEF Files, IsListed
<1>4. Uses'
  BY <1>1 DEF Uses, Accessing
<1>5. Phases' /\ Lists'
  BY <1>1 DEF Phases, Lists, Leaving, IsLoaded, Is
<1>6. QED
  BY <1>2, <1>3, <1>4, <1>5

-----------------------------------------------------------------------------
(* The count. *)

\* A step that changes no count and gives no connection a database.
NoneJoins == ref_cnt' = ref_cnt /\ \A d \in Database : Holders(d)' \subseteq Holders(d)

LEMMA CountedKept ==
  ASSUME Inv, Types', NoneJoins
  PROVE  Counted'
<1> USE DEF NoneJoins
<1>1. ASSUME NEW d \in Database
      PROVE  Cardinality(Holders(d)') <= Cardinality(Holders(d)) /\ Cardinality(Holders(d)') \in Nat
  BY HoldersFinite, FS_Subset, FS_CardinalityType
<1>2. QED
  <2>1. ASSUME NEW d \in Database
        PROVE  Cardinality(Holders(d)') <= ref_cnt'[d]
    <3>1. Cardinality(Holders(d)) <= ref_cnt[d] /\ ref_cnt[d] \in Nat /\ Cardinality(Holders(d)) \in Nat
      BY HoldersFinite, RefAssumption DEF Inv, Counted, Types
    <3>2. QED
      BY <1>1, <3>1
  <2>2. QED
    BY <2>1 DEF Counted

LEMMA OpenCounts ==
  ASSUME Inv, Types', NEW c \in Conn, NEW d \in Database, OpenDatabase(c, d)
  PROVE  Counted'
<1>1. /\ db' = [db EXCEPT ![c] = d] /\ ref_cnt' = [ref_cnt EXCEPT ![d] = ref_cnt[d] + 1]
      /\ MayManage(c) /\ \A b \in Conn : at'[b] = at[b] \/ b = c
  BY DEF OpenDatabase, Goes, Inv, Types
<1>2. ASSUME NEW e \in Database
      PROVE  Cardinality(Holders(e)') <= ref_cnt'[e]
  <2>1. Cardinality(Holders(e)) <= ref_cnt[e] /\ ref_cnt[e] \in Nat /\ Cardinality(Holders(e)) \in Nat
    BY HoldersFinite, RefAssumption DEF Inv, Counted, Types
  <2>2. CASE e = d
    <3>1. Holders(e)' \subseteq Holders(e) \cup {c}
      BY <1>1 DEF Holders, Inv, Types
    <3>2. IsFiniteSet(Holders(e) \cup {c}) /\ Cardinality(Holders(e) \cup {c}) <= Cardinality(Holders(e)) + 1
      <4>1. /\ IsFiniteSet(Holders(e) \cup {c})
            /\ Cardinality(Holders(e) \cup {c}) =
                 IF c \in Holders(e) THEN Cardinality(Holders(e)) ELSE Cardinality(Holders(e)) + 1
        BY HoldersFinite, FS_AddElement
      <4>2. QED
        BY <2>1, <4>1
    <3>3. Cardinality(Holders(e)') <= Cardinality(Holders(e) \cup {c})
      BY <3>1, <3>2, FS_Subset
    <3>4. Cardinality(Holders(e)') \in Nat /\ Cardinality(Holders(e) \cup {c}) \in Nat
      BY <3>1, <3>2, FS_Subset, FS_CardinalityType
    <3>5. ref_cnt'[e] = ref_cnt[e] + 1
      BY <1>1, <2>2 DEF Inv, Types
    <3>6. QED
      BY <2>1, <3>2, <3>3, <3>4, <3>5
  <2>3. CASE e # d
    <3>1. Holders(e)' \subseteq Holders(e) /\ ref_cnt'[e] = ref_cnt[e]
      BY <1>1, <2>3 DEF Holders, Inv, Types
    <3>2. Cardinality(Holders(e)') <= Cardinality(Holders(e)) /\ Cardinality(Holders(e)') \in Nat
      BY <3>1, HoldersFinite, FS_Subset, FS_CardinalityType
    <3>3. QED
      BY <2>1, <3>1, <3>2
  <2>4. QED
    BY <2>2, <2>3
<1>3. QED
  BY <1>2 DEF Counted

LEMMA DisconnectCounts ==
  ASSUME Inv, Types', NEW c \in Conn, Disconnect(c)
  PROVE  Counted'
<1> DEFINE d == db[c]
<1>1. /\ MayManage(c) /\ at[c] = "idle" /\ d # None /\ d \in Database
      /\ ref_cnt' = [ref_cnt EXCEPT ![d] = IF ref_cnt[d] = 0 THEN 0 ELSE ref_cnt[d] - 1]
      /\ \/ at' = [at EXCEPT ![c] = "flushing"] /\ db' = db
         \/ at' = at /\ db' = [db EXCEPT ![c] = None]
  BY DEF Disconnect, CountDown, Goes, MayManage, Inv, Types
<1>2. \A e \in Database : Holders(e)' = Holders(e) \ {c}
  BY <1>1, Nothing DEF Holders, Leaving, Inv, Types
<1>3. c \in Holders(d) /\ \A e \in Database : e # d => Holders(e)' \subseteq Holders(e)
  BY <1>1, <1>2 DEF Holders, Leaving
<1> HIDE DEF d
<1>4. ASSUME NEW e \in Database
      PROVE  Cardinality(Holders(e)') <= ref_cnt'[e]
  <2>1. Cardinality(Holders(e)) <= ref_cnt[e] /\ ref_cnt[e] \in Nat /\ Cardinality(Holders(e)) \in Nat
    BY HoldersFinite, RefAssumption DEF Inv, Counted, Types
  <2>2. CASE e = d
    <3>1. Cardinality(Holders(e)') = Cardinality(Holders(e)) - 1
      BY <1>2, <1>3, <2>2, HoldersFinite, FS_RemoveElement
    <3>2. ref_cnt[e] # 0
      BY <1>3, <2>2, HeldCounts
    <3>3. ref_cnt'[e] = ref_cnt[e] - 1
      BY <1>1, <2>2, <3>2 DEF Inv, Types
    <3>4. QED
      BY <2>1, <3>1, <3>3
  <2>3. CASE e # d
    <3>1. ref_cnt'[e] = ref_cnt[e] /\ Holders(e)' \subseteq Holders(e)
      BY <1>1, <1>3, <2>3 DEF Inv, Types
    <3>2. Cardinality(Holders(e)') <= Cardinality(Holders(e)) /\ Cardinality(Holders(e)') \in Nat
      BY <3>1, HoldersFinite, FS_Subset, FS_CardinalityType
    <3>3. QED
      BY <2>1, <3>1, <3>2
  <2>4. QED
    BY <2>2, <2>3
<1>5. QED
  BY <1>4 DEF Counted

LEMMA CrashCounts ==
  ASSUME Inv, Types', Crash
  PROVE  Counted'
<1>1. ASSUME NEW d \in Database
      PROVE  Cardinality(Holders(d)') <= ref_cnt'[d]
  <2>1. Holders(d)' = {} /\ ref_cnt'[d] = 0
    BY Nothing DEF Crash, Holders
  <2>2. QED
    BY <2>1, FS_EmptySet
<1>2. QED
  BY <1>1 DEF Counted

-----------------------------------------------------------------------------
(* Every state. *)

LEMMA InvInit ==
  ASSUME Init
  PROVE  Inv
<1> USE Nothing DEF Init
<1>1. Types
  BY RefAssumption DEF Types, Managing
<1>2. Alone /\ Ids /\ Unique /\ Pages /\ Clean
  BY DEF Alone, Managing, Ids, Is, Unique, Pages, Clean
<1>3. Files /\ Lists
  BY Names DEF Files, Is, IsListed, Lists, IsLoaded
<1>4. Uses /\ Phases
  BY DEF Uses, Accessing, Phases, Leaving, Is
<1>5. Counted
  <2>1. \A d \in Database : Holders(d) = {} /\ ref_cnt[d] = 0
    BY DEF Holders
  <2>2. QED
    BY SMTT(30), <2>1, FS_EmptySet DEF Counted
<1>6. QED
  BY <1>1, <1>2, <1>3, <1>4, <1>5 DEF Inv, Sound

LEMMA InvStep ==
  ASSUME Inv, Next
  PROVE  Inv'
<1>1. Types'
  BY TypesStep
<1>2. ASSUME NEW c \in Conn, NEW d \in Database, CreateDatabase(c, d)
      PROVE  Inv'
  <2>1. NoneJoins
    BY <1>2, Nothing DEF NoneJoins, CreateDatabase, memory, Holders, Leaving, Managing, Inv, Types
  <2>2. QED
    BY <1>1, <1>2, <2>1, CreateDatabaseKeeps, CountedKept DEF Inv
<1>3. ASSUME NEW c \in Conn, NEW d \in Database, OpenDatabase(c, d)
      PROVE  Inv'
  BY <1>1, <1>3, OpenDatabaseKeeps, OpenCounts DEF Inv
<1>4. ASSUME NEW c \in Conn, NEW n \in Name, NEW f \in Fid, LoadTable(c, n, f)
      PROVE  Inv'
  <2>1. NoneJoins
    BY <1>4, Nothing DEF NoneJoins, LoadTable, memory, Holders, Leaving, Managing, Inv, Types
  <2>2. QED
    BY <1>1, <1>4, <2>1, LoadTableKeeps, CountedKept DEF Inv
<1>5. ASSUME NEW c \in Conn, LoadEnds(c)
      PROVE  Inv'
  <2>1. NoneJoins
    BY <1>5, Nothing DEF NoneJoins, LoadEnds, memory, Goes, Holders, Leaving, Managing, Inv, Types
  <2>2. QED
    BY <1>1, <1>5, <2>1, LoadEndsKeeps, CountedKept DEF Inv
<1>6. ASSUME NEW c \in Conn, NEW n \in Name, NEW f \in Fid, CreateTable(c, n, f)
      PROVE  Inv'
  <2>1. NoneJoins
    BY <1>6, Nothing DEF NoneJoins, CreateTable, memory, Goes, MayManage, Holders, Leaving, Managing, Inv, Types
  <2>2. QED
    BY <1>1, <1>6, <2>1, CreateTableKeeps, CountedKept DEF Inv
<1>7. ASSUME NEW c \in Conn, NEW f \in Fid, DropTable(c, f)
      PROVE  Inv'
  <2>1. NoneJoins
    BY <1>7, Nothing DEF NoneJoins, DropTable, memory, Goes, MayManage, Holders, Leaving, Managing, Inv, Types
  <2>2. QED
    BY <1>1, <1>7, <2>1, DropTableKeeps, CountedKept DEF Inv
<1>8. ASSUME NEW c \in Conn, TableDone(c)
      PROVE  Inv'
  <2>1. NoneJoins
    BY <1>8, Nothing DEF NoneJoins, TableDone, memory, Goes, Holders, Leaving, Managing, Inv, Types
  <2>2. QED
    BY <1>1, <1>8, <2>1, TableDoneKeeps, CountedKept DEF Inv
<1>9. ASSUME NEW c \in Conn, Disconnect(c)
      PROVE  Inv'
  BY <1>1, <1>9, DisconnectKeeps, DisconnectCounts DEF Inv
<1>10. ASSUME NEW c \in Conn, CloseFlushes(c)
      PROVE  Inv'
  <2>1. NoneJoins
    BY <1>10, Nothing DEF NoneJoins, CloseFlushes, memory, Goes, Holders, Leaving, Managing, Inv, Types
  <2>2. QED
    BY <1>1, <1>10, <2>1, CloseFlushesKeeps, CountedKept DEF Inv
<1>11. ASSUME NEW c \in Conn, NEW f \in Fid, CloseTable(c, f)
      PROVE  Inv'
  <2>1. NoneJoins
    BY <1>11, Nothing DEF NoneJoins, CloseTable, memory, Holders, Leaving, Managing, Inv, Types
  <2>2. QED
    BY <1>1, <1>11, <2>1, CloseTableKeeps, CountedKept DEF Inv
<1>12. ASSUME NEW c \in Conn, CloseEnds(c)
      PROVE  Inv'
  <2>1. NoneJoins
    BY <1>12, Nothing DEF NoneJoins, CloseEnds, memory, Goes, Holders, Leaving, Managing, Inv, Types
  <2>2. QED
    BY <1>1, <1>12, <2>1, CloseEndsKeeps, CountedKept DEF Inv
<1>13. ASSUME NEW c \in Conn, NEW n \in Name, Begin(c, n)
      PROVE  Inv'
  <2>1. NoneJoins
    BY <1>13, Nothing DEF NoneJoins, Begin, memory, Goes, Holders, Leaving, Managing, Inv, Types
  <2>2. QED
    BY <1>1, <1>13, <2>1, BeginKeeps, CountedKept DEF Inv
<1>14. ASSUME NEW c \in Conn, FetchPage(c)
      PROVE  Inv'
  <2>1. NoneJoins
    BY <1>14, Nothing DEF NoneJoins, FetchPage, memory, Goes, Holders, Leaving, Managing, Inv, Types
  <2>2. QED
    BY <1>1, <1>14, <2>1, FetchPageKeeps, CountedKept DEF Inv
<1>15. ASSUME NEW c \in Conn, NEW v \in Value, Write(c, v)
      PROVE  Inv'
  <2>1. NoneJoins
    BY <1>15, Nothing DEF NoneJoins, Write, memory, Goes, Holders, Leaving, Managing, Inv, Types
  <2>2. QED
    BY <1>1, <1>15, <2>1, WriteKeeps, CountedKept DEF Inv
<1>16. ASSUME NEW c \in Conn, UnpinPage(c)
      PROVE  Inv'
  <2>1. NoneJoins
    BY <1>16, Nothing DEF NoneJoins, UnpinPage, memory, Goes, Holders, Leaving, Managing, Inv, Types
  <2>2. QED
    BY <1>1, <1>16, <2>1, UnpinPageKeeps, CountedKept DEF Inv
<1>17. ASSUME NEW c \in Conn, End(c)
      PROVE  Inv'
  <2>1. NoneJoins
    BY <1>17, Nothing DEF NoneJoins, End, memory, Goes, Holders, Leaving, Managing, Inv, Types
  <2>2. QED
    BY <1>1, <1>17, <2>1, EndKeeps, CountedKept DEF Inv
<1>18. ASSUME NEW f \in Fid, Evict(f)
      PROVE  Inv'
  <2>1. NoneJoins
    BY <1>18, Nothing DEF NoneJoins, Evict, memory, Holders, Leaving, Managing, Inv, Types
  <2>2. QED
    BY <1>1, <1>18, <2>1, EvictKeeps, CountedKept DEF Inv
<1>19. ASSUME Crash
      PROVE  Inv'
  BY <1>1, <1>19, CrashKeeps, CrashCounts DEF Inv
<1>20. QED
  BY <1>2, <1>3, <1>4, <1>5, <1>6, <1>7, <1>8, <1>9, <1>10, <1>11, <1>12, <1>13, <1>14, <1>15, <1>16, <1>17, <1>18, <1>19 DEF Next, ConnStep

LEMMA InvStays ==
  ASSUME Inv, UNCHANGED vars
  PROVE  Inv'
<1>1. UNCHANGED <<databases, meta, file, ref_cnt, fid, tables, pool, db, at, use, todo>>
  BY DEF vars, memory
<1>2. QED
  BY <1>1 DEF Inv, Types, Sound, Counted, Holders, Alone, Ids, Closed, Unique, Files, IsListed, Pages,
              Clean, Uses, Phases, Lists, IsLoaded, Is

\* The invariant: holds in every state, whatever the connections do and whenever the server dies.
THEOREM Invariance == Spec => []Inv
<1>1. Init => Inv
  BY InvInit
<1>2. Inv /\ [Next]_vars => Inv'
  BY InvStep, InvStays
<1>3. QED
  BY <1>1, <1>2, PTL DEF Spec

\* TypeOK: every variable keeps its type; no count exceeds its bound.
THEOREM TypeCorrect == Spec => []TypeOK
<1>1. Inv => TypeOK
  BY DEF Inv, Types, TypeOK, File, Table, Page
<1>2. QED
  BY <1>1, Invariance, PTL

\* HeldIsOpen: DoDBPlan and ClientHandler count the connections so that nobody who has a
\* database open finds its tables closed.
THEOREM HeldStaysOpen == Spec => []HeldIsOpen
<1>1. Inv => HeldIsOpen
  <2>1. SUFFICES ASSUME Inv, NEW c \in Conn, db[c] # None,
                        at[c] \notin {"loading", "flushing", "closing"},
                        NEW n \in meta[db[c]], n \notin Loaded(db[c])
                 PROVE  \E b \in Conn : at[b] = "dropping"
    BY DEF HeldIsOpen
  <2> DEFINE d == db[c]
             t == <<d, n>>
  <2>2. d \in Database /\ n \in Name /\ t \in Tab /\ t[1] = d /\ t[2] = n
    BY <2>1, Names DEF Inv, Types
  <2>3. IsListed(t) /\ ~IsLoaded(t)
    BY <2>1, <2>2 DEF IsListed, Loaded
  <2>4. c \in Holders(d)
    BY <2>1 DEF Holders, Leaving
  <2>5. ref_cnt[d] # 0
    BY <2>1, <2>2, <2>4, HeldCounts
  <2>6. ASSUME NEW b \in Conn, at[b] = "loading", db[b] = d
        PROVE  FALSE
    <3>1. ref_cnt[d] = 1 /\ b # c /\ {b, c} \subseteq Holders(d)
      BY <2>1, <2>4, <2>6 DEF Inv, Sound, Phases, Holders, Leaving
    <3>2. Cardinality({b, c}) = 2
      <4>1. Cardinality({b}) = 1 /\ IsFiniteSet({b})
        BY FS_Singleton
      <4>2. {b, c} = {b} \cup {c} /\ c \notin {b}
        BY <3>1
      <4>3. Cardinality({b, c}) = Cardinality({b}) + 1
        BY <4>1, <4>2, FS_AddElement
      <4>4. QED
        BY <4>1, <4>3
    <3>3. Cardinality({b, c}) <= Cardinality(Holders(d))
      BY <2>2, <3>1, HoldersFinite, FS_Subset
    <3>4. Cardinality(Holders(d)) <= 1 /\ Cardinality(Holders(d)) \in Nat
      BY <2>1, <2>2, <3>1, HoldersFinite DEF Inv, Counted
    <3>5. QED
      BY <3>2, <3>3, <3>4
  <2>7. QED
    BY <2>1, <2>2, <2>3, <2>5, <2>6 DEF Inv, Sound, Lists
<1>2. QED
  BY <1>1, Invariance, PTL

\* IdsInUse: CloseTable takes a table's pages out of the pool before its descriptor can be
\* another table's, and no statement outlives its table.
THEOREM IdsHold == Spec => []IdsInUse
<1>1. Inv => IdsInUse
  <2>1. ASSUME Inv, NEW f \in Fid \cap Unused
        PROVE  pool[f] = NoPage
    BY <2>1, Fields DEF Inv, Sound, Pages, Unused
  <2>2. ASSUME Inv, NEW c \in Conn, use[c] # None
        PROVE  use[c] \notin Unused /\ tables[use[c]] # NoTable
    <3>1. Is(use[c]) /\ fid[tables[use[c]].tab] = use[c] /\ use[c] \in Fid
      BY <2>2 DEF Inv, Sound, Uses, Types
    <3>2. tables[use[c]].tab \in Tab
      BY <2>2, <3>1, Fields DEF Inv
    <3>3. QED
      BY <3>1, <3>2 DEF Is, Unused
  <2>3. QED
    BY <2>1, <2>2 DEF IdsInUse
<1>2. QED
  BY <1>1, Invariance, PTL

-----------------------------------------------------------------------------
(* What the tables hold. *)

\* What a loaded table holds, by its id.
Mem(f) == [hdr  |-> tables[f].hdr,
           page |-> IF pool[f] # NoPage THEN pool[f].page ELSE file[tables[f].tab].page]

OnDisk(t) == IF IsListed(t) THEN file[t] ELSE NoFile

View ==
  /\ \A f \in Fid : Is(f) =>
       /\ Holds(tables[f].tab) = Mem(f)
       /\ IsUnsaved(tables[f].tab) <=>
            fid[tables[f].tab] = f /\ (~IsListed(tables[f].tab) \/ Mem(f) # file[tables[f].tab])
  /\ \A t \in Tab : ~IsLoaded(t) => Holds(t) = OnDisk(t) /\ ~IsUnsaved(t)

LEMMA ViewIs == Inv => View
<1> SUFFICES ASSUME Inv
             PROVE  View
  OBVIOUS
<1> USE Nothing, Fields DEF Inv, Sound
<1>1. ASSUME NEW f \in Fid, Is(f)
      PROVE  /\ Holds(tables[f].tab) = Mem(f)
             /\ IsUnsaved(tables[f].tab) <=>
                  fid[tables[f].tab] = f /\ (~IsListed(tables[f].tab) \/ Mem(f) # file[tables[f].tab])
  <2> DEFINE t == tables[f].tab
  <2>1. t \in Tab /\ file[t] # NoFile /\ IsLoaded(t)
    BY <1>1 DEF Files, IsLoaded, Is
  <2>2. IdOf(t) = f
    <3>1. \A g \in Fid : tables[g] # NoTable /\ tables[g].tab = t <=> g = f
      BY <1>1 DEF Unique, Is
    <3>2. IdOf(t) = CHOOSE g \in Fid : tables[g] # NoTable /\ tables[g].tab = t
      BY DEF IdOf
    <3>3. QED
      BY <3>1, <3>2
  <2>3. fid[t] = f \/ fid[t] = None
    BY <1>1 DEF Ids
  <2>4. pool[f] # NoPage => fid[t] = f
    BY DEF Pages
  <2>5. InMemory(t) = Mem(f)
    BY <2>2, <2>4 DEF InMemory, Mem
  <2>6. Holds(t) = Mem(f)
    BY <2>1, <2>5 DEF Holds
  <2>7. IsUnsaved(t) <=> fid[t] = f /\ (~IsListed(t) \/ Mem(f) # file[t])
    BY <2>3, <2>5 DEF IsUnsaved
  <2>8. QED
    BY <2>6, <2>7
<1>2. ASSUME NEW t \in Tab, ~IsLoaded(t)
      PROVE  Holds(t) = OnDisk(t) /\ ~IsUnsaved(t)
  <2>1. fid[t] = None
    BY <1>2 DEF Ids, IsLoaded, Is, Types
  <2>2. QED
    BY <1>2, <2>1 DEF Holds, OnDisk, IsUnsaved
<1>3. QED
  BY <1>1, <1>2 DEF View

LEMMA Viewed ==
  ASSUME Inv, Inv'
  PROVE  View /\ View'
<1>1. View
  BY ViewIs
<1>2. View'
  BY ViewIs, PTL
<1>3. QED
  BY <1>1, <1>2

\* A step that changes no table and leaves no more unsaved.
Saves == \A t \in Tab : Holds(t)' = Holds(t) /\ (IsUnsaved(t)' => IsUnsaved(t))

LEMMA SaveMaps ==
  ASSUME Saves
  PROVE  Tables!Save
<1>1. [t \in Tab |-> Holds(t)'] = [t \in Tab |-> Holds(t)]
  BY DEF Saves
<1>2. {t \in Tab : IsUnsaved(t)'} \in SUBSET {t \in Tab : IsUnsaved(t)}
  BY DEF Saves
<1>3. QED
  BY <1>1, <1>2 DEF Tables!Save

\* It is enough that what is loaded stays so, with its contents, and the others stay on disk.
LEMMA SavesIf ==
  ASSUME Inv, Inv',
         \A f \in Fid : Is(f) =>
           /\ Is(f)' /\ tables'[f].tab = tables[f].tab /\ Mem(f)' = Mem(f)
           /\ (fid[tables[f].tab] = f /\ (~IsListed(tables[f].tab) \/ Mem(f) # file[tables[f].tab]))' =>
                fid[tables[f].tab] = f /\ (~IsListed(tables[f].tab) \/ Mem(f) # file[tables[f].tab]),
         \A t \in Tab : ~IsLoaded(t) => ~IsLoaded(t)' /\ OnDisk(t)' = OnDisk(t)
  PROVE  Saves
<1>1. ASSUME NEW t \in Tab, IsLoaded(t)
      PROVE  Holds(t)' = Holds(t) /\ (IsUnsaved(t)' => IsUnsaved(t))
  <2>1. PICK f \in Fid : Is(f) /\ tables[f].tab = t
    BY <1>1 DEF IsLoaded, Is
  <2>2. Is(f)' /\ tables'[f].tab = t
    BY <2>1
  <2>3. Holds(t) = Mem(f) /\ Holds(t)' = Mem(f)'
    BY <2>1, <2>2, Viewed DEF View
  <2>4. QED
    BY <2>1, <2>2, <2>3, Viewed DEF View
<1>2. ASSUME NEW t \in Tab, ~IsLoaded(t)
      PROVE  Holds(t)' = Holds(t) /\ (IsUnsaved(t)' => IsUnsaved(t))
  BY <1>2, Viewed DEF View
<1>3. QED
  BY <1>1, <1>2 DEF Saves

\* The page of a table that nobody is writing is what is written back.
LEMMA FlushedSame ==
  ASSUME Inv, NEW f \in Fid, Is(f), ~Pinned(f)
  PROVE  Mem(f) = [hdr |-> tables[f].hdr, page |-> FlushedPage(f)]
<1>1. pool[f] # NoPage /\ ~pool[f].dirty => pool[f].page = file[tables[f].tab].page
  BY DEF Inv, Sound, Clean, Pinned
<1>2. QED
  BY <1>1 DEF Mem, FlushedPage

\* A table whose file, header and page are as they were.
LEMMA ClosedSame ==
  ASSUME Inv, NEW f \in Fid, Is(f), Closed(tables[f].tab)
  PROVE  /\ Mem(f) = file[tables[f].tab] /\ OnDisk(tables[f].tab) = file[tables[f].tab]
         /\ fid[tables[f].tab] = None
<1> DEFINE t == tables[f].tab
<1>1. t \in Tab /\ file[t] # NoFile /\ file[t] \in File /\ IsLoaded(t)
  BY Fields DEF Inv, Sound, Files, Types, IsLoaded, Is
<1>2. fid[t] = None /\ tables[f].hdr = file[t].hdr
  BY DEF Inv, Sound, Ids
<1>3. pool[f] = NoPage
  BY <1>2, Nothing DEF Inv, Sound, Pages
<1>4. file[t] = [hdr |-> file[t].hdr, page |-> file[t].page]
  BY <1>1 DEF File
<1>5. IsListed(t)
  <2>1. \A b \in Conn : at[b] # "creating"
    <3>1. PICK c \in Conn : at[c] = "closing"
      BY DEF Closed
    <3>2. QED
      BY <3>1, Only DEF Managing
  <2>2. QED
    BY <1>1, <2>1 DEF Inv, Sound, Lists
<1>6. QED
  BY <1>2, <1>3, <1>4, <1>5 DEF Mem, OnDisk

Whole == \A f \in Fid : Is(f) => Mem(f) \in File /\ Mem(f) # NoFile

LEMMA MemIs == Inv => Whole
<1> SUFFICES ASSUME Inv, NEW f \in Fid, Is(f)
             PROVE  Mem(f) \in File /\ Mem(f) # NoFile
  BY DEF Whole
<1>1. /\ tables[f].hdr \in Value /\ file[tables[f].tab].page \in Value
      /\ pool[f] # NoPage => pool[f].page \in Value
  BY Fields DEF Inv, Sound, Files
<1>2. QED
  BY <1>1, Entries DEF Mem

LEMMA SavesQuietly ==
  ASSUME Inv, Inv', UNCHANGED <<meta, file, fid, tables, pool>>
  PROVE  Saves
<1>1. \A f \in Fid : Is(f)' = Is(f) /\ Mem(f)' = Mem(f)
  BY DEF Is, Mem
<1>2. \A t \in Tab : IsListed(t)' = IsListed(t) /\ IsLoaded(t)' = IsLoaded(t) /\ OnDisk(t)' = OnDisk(t)
  BY DEF IsListed, IsLoaded, OnDisk
<1>3. QED
  BY <1>1, <1>2, SavesIf, Fields DEF Inv

LEMMA LoadTableSaves ==
  ASSUME Inv, Inv', NEW c \in Conn, NEW n \in Name, NEW f \in Fid, LoadTable(c, n, f)
  PROVE  Saves
<1> USE Nothing DEF Inv
<1>0. PICK t \in Tab : t = <<db[c], n>>
  BY LoadedFile DEF LoadTable
<1>1. /\ f \in Unused
      /\ fid' = [fid EXCEPT ![t] = f]
      /\ tables' = [tables EXCEPT ![f] = [tab |-> t, hdr |-> file[t].hdr]]
      /\ UNCHANGED <<databases, meta, file, pool, db, at>>
      /\ at[c] = "loading" /\ n \in todo
  BY <1>0 DEF LoadTable
<1>2. t \in Tab /\ file[t] # NoFile /\ file[t] \in File
  BY <1>0, <1>1, LoadedFile DEF Types
<1>3. IsListed(t) /\ ~IsLoaded(t)
  BY <1>0, <1>1 DEF Sound, Lists
<1>4. ~Is(f)
  <2>1. ~Is(f) \/ Closed(tables[f].tab)
    BY <1>1, Fields DEF Sound, Ids, Unused
  <2>2. \A u \in Tab : ~Closed(u)
    BY <1>1, Only DEF Managing
  <2>3. QED
    BY <2>1, <2>2, Fields
<1>5. [tab |-> t, hdr |-> file[t].hdr] # NoTable
  BY <1>2, Entries, Fields
<1>6. /\ Is(f)' /\ tables'[f].tab = t /\ tables'[f].hdr = file[t].hdr
      /\ \A g \in Fid \ {f} : tables'[g] = tables[g] /\ (Is(g)' <=> Is(g))
  BY <1>1, <1>5 DEF Types, Is
<1>7. fid'[t] = f /\ \A u \in Tab : u # t => fid'[u] = fid[u]
  BY <1>1, <1>2 DEF Types
<1>8. \A g \in Fid : Is(g) => tables[g].tab # t
  BY <1>3 DEF IsLoaded, Is
<1>9. ASSUME NEW u \in Tab, IsLoaded(u)
      PROVE  Holds(u)' = Holds(u) /\ (IsUnsaved(u)' => IsUnsaved(u))
  <2>1. PICK g \in Fid : Is(g) /\ tables[g].tab = u
    BY <1>9 DEF IsLoaded, Is
  <2>2. g # f /\ u # t /\ Is(g)' /\ tables'[g] = tables[g] /\ fid'[u] = fid[u]
    BY <1>4, <1>6, <1>7, <1>8, <2>1
  <2>3. Mem(g)' = Mem(g) /\ IsListed(u)' = IsListed(u) /\ file' = file
    BY <1>1, <2>2 DEF Mem, IsListed
  <2>4. QED
    BY <2>1, <2>2, <2>3, Viewed DEF View
<1>10. Holds(t)' = Holds(t) /\ ~IsUnsaved(t)'
  <2>1. pool[f] = NoPage
    BY <1>4 DEF Sound, Pages
  <2>2. Mem(f)' = [hdr |-> file[t].hdr, page |-> file[t].page]
    BY <1>1, <1>6, <2>1 DEF Mem
  <2>3. Mem(f)' = file'[t] /\ file' = file
    BY <1>1, <1>2, <2>2 DEF File
  <2>4. IsListed(t)'
    BY <1>1, <1>3 DEF IsListed
  <2>5. Holds(t)' = Mem(f)' /\ ~IsUnsaved(t)'
    BY <1>6, <2>3, <2>4, Viewed DEF View
  <2>6. Holds(t) = file[t]
    BY <1>2, <1>3, Viewed DEF View, OnDisk
  <2>7. QED
    BY <2>3, <2>5, <2>6
<1>11. ASSUME NEW u \in Tab, ~IsLoaded(u), u # t
       PROVE  Holds(u)' = Holds(u) /\ ~IsUnsaved(u)'
  <2>1. ~IsLoaded(u)' /\ OnDisk(u)' = OnDisk(u)
    BY <1>1, <1>4, <1>6, <1>11 DEF IsLoaded, Is, OnDisk, IsListed
  <2>2. QED
    BY <1>11, <2>1, Viewed DEF View
<1>12. QED
  BY <1>9, <1>10, <1>11 DEF Saves

LEMMA FetchPageSaves ==
  ASSUME Inv, Inv', NEW c \in Conn, FetchPage(c)
  PROVE  Saves
<1> USE Nothing DEF Inv
<1>1. at[c] = "begun" /\ UNCHANGED <<meta, file, fid, tables>>
  BY DEF FetchPage
<1>2. use[c] \in Fid /\ Is(use[c]) /\ file[tables[use[c]].tab].page \in Value
  BY <1>1, UsedIs, Fields DEF Accessing
<1>3. \/ pool' = pool
      \/ /\ pool[use[c]] = NoPage
         /\ pool' = [pool EXCEPT ![use[c]] =
                       [page |-> file[tables[use[c]].tab].page, dirty |-> FALSE]]
  BY <1>2, UsedIs DEF FetchPage, Sound, Ids, Accessing, Types
<1>4. ASSUME NEW f \in Fid
      PROVE  Mem(f)' = Mem(f)
  <2>1. CASE f # use[c] \/ pool' = pool
    <3>1. pool'[f] = pool[f]
      BY <1>3, <2>1 DEF Types
    <3>2. QED
      BY <1>1, <3>1 DEF Mem
  <2>2. CASE f = use[c] /\ pool' # pool
    <3>1. pool[f] = NoPage /\ pool'[f] = [page |-> file[tables[f].tab].page, dirty |-> FALSE]
      BY <1>2, <1>3, <2>2 DEF Types
    <3>2. pool'[f] # NoPage /\ pool'[f].page = file[tables[f].tab].page
      <4>1. [page |-> file[tables[f].tab].page, dirty |-> FALSE] # NoPage
        BY <1>2, <2>2, Entries
      <4>2. QED
        BY <3>1, <4>1
    <3>3. QED
      BY <1>1, <3>1, <3>2 DEF Mem
  <2>3. QED
    BY <2>1, <2>2
<1>5. \A f \in Fid : Is(f)' = Is(f)
  BY <1>1 DEF Is
<1>6. \A t \in Tab : IsListed(t)' = IsListed(t) /\ IsLoaded(t)' = IsLoaded(t) /\ OnDisk(t)' = OnDisk(t)
  BY <1>1 DEF IsListed, IsLoaded, OnDisk
<1>7. QED
  BY <1>1, <1>4, <1>5, <1>6, SavesIf, Fields

LEMMA UnpinPageSaves ==
  ASSUME Inv, Inv', NEW c \in Conn, UnpinPage(c)
  PROVE  Saves
<1> USE Nothing DEF Inv
<1>1. at[c] \in {"fetched", "written"} /\ UNCHANGED <<meta, file, fid, tables>>
  BY DEF UnpinPage
<1>2. use[c] \in Fid /\ pool[use[c]] # NoPage /\ pool[use[c]].page \in Value
  BY <1>1, UsedIs DEF Accessing
<1>3. \/ pool' = pool
      \/ pool' = [pool EXCEPT ![use[c]] = [page |-> pool[use[c]].page, dirty |-> TRUE]]
  BY DEF UnpinPage
<1>4. [page |-> pool[use[c]].page, dirty |-> TRUE] # NoPage
  BY <1>2, Entries
<1>5. ASSUME NEW f \in Fid
      PROVE  Mem(f)' = Mem(f)
  <2>1. (pool'[f] = NoPage <=> pool[f] = NoPage) /\ (pool[f] # NoPage => pool'[f].page = pool[f].page)
    BY <1>2, <1>3, <1>4 DEF Types
  <2>2. QED
    BY <1>1, <2>1 DEF Mem
<1>6. \A f \in Fid : Is(f)' = Is(f)
  BY <1>1 DEF Is
<1>7. \A t \in Tab : IsListed(t)' = IsListed(t) /\ IsLoaded(t)' = IsLoaded(t) /\ OnDisk(t)' = OnDisk(t)
  BY <1>1 DEF IsListed, IsLoaded, OnDisk
<1>8. QED
  BY <1>1, <1>5, <1>6, <1>7, SavesIf, Fields

LEMMA EvictSaves ==
  ASSUME Inv, Inv', NEW f \in Fid, Evict(f)
  PROVE  Saves
<1> USE Nothing, Fields DEF Inv
<1> DEFINE t == tables[f].tab
<1>1. /\ Is(f) /\ ~Pinned(f)
      /\ file' = [file EXCEPT ![t] = [hdr |-> file[t].hdr, page |-> FlushedPage(f)]]
      /\ pool' = [pool EXCEPT ![f] = NoPage]
      /\ UNCHANGED <<meta, fid, tables>>
  BY DEF Evict, Is
<1>2. t \in Tab /\ file[t] \in File /\ file[t] # NoFile /\ FlushedPage(f) \in Value
  BY <1>1, FlushedIs DEF Types
<1>3. /\ file'[t].hdr = file[t].hdr /\ file'[t].page = FlushedPage(f) /\ file'[t] \in File
      /\ \A u \in Tab : u # t => file'[u] = file[u]
  BY <1>1, <1>2, Entries DEF Types
<1>4. \A g \in Fid : Is(g) /\ g # f => tables[g].tab # t
  BY <1>1 DEF Sound, Unique
<1>5. \A g \in Fid : Is(g)' = Is(g)
  BY <1>1 DEF Is
<1>6. Mem(f)' = Mem(f)
  <2>1. Mem(f)' = [hdr |-> tables[f].hdr, page |-> FlushedPage(f)]
    BY <1>1, <1>3 DEF Mem, Types
  <2>2. QED
    BY <1>1, <2>1, FlushedSame
<1>7. Mem(f)' # file'[t] => Mem(f) # file[t]
  <2>1. Mem(f) = [hdr |-> tables[f].hdr, page |-> FlushedPage(f)]
    BY <1>1, FlushedSame
  <2>2. file'[t] = [hdr |-> file[t].hdr, page |-> FlushedPage(f)]
    BY <1>1, <1>2 DEF Types
  <2>3. Mem(f) = file[t] => tables[f].hdr = file[t].hdr
    BY <2>1
  <2>4. QED
    BY <1>6, <2>1, <2>2, <2>3
<1>8. \A u \in Tab : IsListed(u)' = IsListed(u) /\ IsLoaded(u)' = IsLoaded(u)
  BY <1>1 DEF IsListed, IsLoaded
<1>9. ASSUME NEW g \in Fid, Is(g), g # f
      PROVE  Mem(g)' = Mem(g) /\ file'[tables[g].tab] = file[tables[g].tab]
  BY <1>1, <1>3, <1>4, <1>9 DEF Mem, Types
<1>10. ASSUME NEW u \in Tab, ~IsLoaded(u)
       PROVE  OnDisk(u)' = OnDisk(u)
  BY <1>1, <1>3, <1>8, <1>10 DEF OnDisk, IsLoaded, Is
<1> HIDE DEF t
<1>11. ASSUME NEW g \in Fid, Is(g)
       PROVE  /\ Is(g)' /\ tables'[g].tab = tables[g].tab /\ Mem(g)' = Mem(g)
              /\ (fid[tables[g].tab] = g /\ (~IsListed(tables[g].tab) \/ Mem(g) # file[tables[g].tab]))' =>
                   fid[tables[g].tab] = g /\ (~IsListed(tables[g].tab) \/ Mem(g) # file[tables[g].tab])
  <2>1. CASE g = f
    BY <1>1, <1>2, <1>5, <1>6, <1>7, <1>8, <1>11, <2>1 DEF t
  <2>2. CASE g # f
    BY <1>1, <1>5, <1>8, <1>9, <1>11, <2>2
  <2>3. QED
    BY <2>1, <2>2
<1>12. QED
  BY <1>8, <1>10, <1>11, SavesIf

LEMMA CloseTableSaves ==
  ASSUME Inv, Inv', NEW c \in Conn, NEW f \in Fid, CloseTable(c, f)
  PROVE  Saves
<1> USE Nothing, Fields DEF Inv
<1> DEFINE t == tables[f].tab
<1>1. /\ at[c] = "closing" /\ Is(f) /\ t[1] = db[c]
      /\ file' = [file EXCEPT ![t] = Written(f)]
      /\ fid' = [fid EXCEPT ![t] = None]
      /\ UNCHANGED <<meta, tables>>
  BY DEF CloseTable, Is
<1>2. ~Pinned(f) /\ pool' = [pool EXCEPT ![f] = NoPage]
  BY <1>1, NoneLeft DEF CloseTable, PoolWithout, Leaving
<1>3. t \in Tab /\ Written(f) = [hdr |-> tables[f].hdr, page |-> FlushedPage(f)]
  BY <1>1, FlushedIs
<1>4. file'[t] = Written(f) /\ fid'[t] = None /\ \A u \in Tab : u # t => file'[u] = file[u] /\ fid'[u] = fid[u]
  BY <1>1, <1>3 DEF Types
<1>5. \A g \in Fid : Is(g) /\ g # f => tables[g].tab # t
  BY <1>1 DEF Sound, Unique
<1>6. \A g \in Fid : Is(g)' = Is(g)
  BY <1>1 DEF Is
<1>7. Mem(f)' = Mem(f)
  <2>1. Mem(f)' = [hdr |-> tables[f].hdr, page |-> FlushedPage(f)]
    BY <1>1, <1>2, <1>3, <1>4 DEF Mem, Types
  <2>2. QED
    BY <1>1, <1>2, <2>1, FlushedSame
<1>8. \A u \in Tab : IsListed(u)' = IsListed(u) /\ IsLoaded(u)' = IsLoaded(u)
  BY <1>1 DEF IsListed, IsLoaded
<1>9. ASSUME NEW g \in Fid, Is(g), g # f
      PROVE  /\ Mem(g)' = Mem(g) /\ file'[tables[g].tab] = file[tables[g].tab]
             /\ fid'[tables[g].tab] = fid[tables[g].tab]
  BY <1>1, <1>2, <1>4, <1>5, <1>9 DEF Mem, Types
<1>10. ASSUME NEW u \in Tab, ~IsLoaded(u)
       PROVE  OnDisk(u)' = OnDisk(u)
  BY <1>1, <1>4, <1>8, <1>10 DEF OnDisk, IsLoaded, Is
<1> HIDE DEF t
<1>11. ASSUME NEW g \in Fid, Is(g)
       PROVE  /\ Is(g)' /\ tables'[g].tab = tables[g].tab /\ Mem(g)' = Mem(g)
              /\ (fid[tables[g].tab] = g /\ (~IsListed(tables[g].tab) \/ Mem(g) # file[tables[g].tab]))' =>
                   fid[tables[g].tab] = g /\ (~IsListed(tables[g].tab) \/ Mem(g) # file[tables[g].tab])
  <2>1. CASE g = f
    BY <1>1, <1>4, <1>6, <1>7, <1>11, <2>1 DEF t
  <2>2. CASE g # f
    BY <1>1, <1>6, <1>8, <1>9, <1>11, <2>2
  <2>3. QED
    BY <2>1, <2>2
<1>12. QED
  BY <1>8, <1>10, <1>11, SavesIf

LEMMA CloseEndsSaves ==
  ASSUME Inv, Inv', NEW c \in Conn, CloseEnds(c)
  PROVE  Saves
<1> USE Nothing DEF Inv
<1>1. /\ at[c] = "closing" /\ todo = {}
      /\ tables' = [f \in Fid |-> IF tables[f] # NoTable /\ tables[f].tab[1] = db[c] THEN NoTable
                                  ELSE tables[f]]
      /\ UNCHANGED <<meta, file, fid, pool>>
  BY DEF CloseEnds
<1>2. \A t \in Tab : Closed(t) <=> t[1] = db[c]
  BY <1>1, Only DEF Managing
<1>3. \A f \in Fid : /\ Is(f)' <=> Is(f) /\ tables[f].tab[1] # db[c]
                     /\ Is(f)' => tables'[f] = tables[f]
  BY <1>1 DEF Is
<1>4. \A t \in Tab : /\ IsListed(t)' = IsListed(t) /\ OnDisk(t)' = OnDisk(t)
                     /\ IsLoaded(t)' <=> IsLoaded(t) /\ t[1] # db[c]
  BY <1>1, <1>3 DEF IsListed, OnDisk, IsLoaded, Is
<1>5. ASSUME NEW t \in Tab, IsLoaded(t)
      PROVE  Holds(t)' = Holds(t) /\ (IsUnsaved(t)' => IsUnsaved(t))
  <2>1. PICK f \in Fid : Is(f) /\ tables[f].tab = t
    BY <1>5 DEF IsLoaded, Is
  <2>2. CASE t[1] # db[c]
    <3>1. Is(f)' /\ tables'[f] = tables[f]
      BY <1>3, <2>1, <2>2
    <3>2. Mem(f)' = Mem(f)
      BY <1>1, <3>1 DEF Mem
    <3>3. QED
      BY <1>1, <1>4, <2>1, <3>1, <3>2, Viewed DEF View
  <2>3. CASE t[1] = db[c]
    <3>1. Mem(f) = file[t] /\ OnDisk(t) = file[t]
      BY <1>2, <2>1, <2>3, ClosedSame
    <3>2. Holds(t)' = OnDisk(t) /\ ~IsUnsaved(t)'
      BY <1>4, <2>3, Viewed DEF View
    <3>3. QED
      BY <2>1, <3>1, <3>2, Viewed DEF View
  <2>4. QED
    BY <2>2, <2>3
<1>6. ASSUME NEW t \in Tab, ~IsLoaded(t)
      PROVE  Holds(t)' = Holds(t) /\ (IsUnsaved(t)' => IsUnsaved(t))
  BY <1>4, <1>6, Viewed DEF View
<1>7. QED
  BY <1>5, <1>6 DEF Saves

\* What FlushMeta no longer lists has no file.
LEMMA FlushSaves ==
  ASSUME Inv, Inv', NEW c \in Conn, FlushMeta(db[c]), UNCHANGED <<file, fid, tables, pool>>,
         at[c] \in {"creating", "dropping", "flushing"}
  PROVE  Saves
<1> USE DEF Inv
<1>1. db[c] \in Database /\ at[c] \in Managing /\ \A b \in Conn \ {c} : at[b] \notin Managing
  BY Only DEF Managing
<1>2. \A u \in Tab : /\ IsLoaded(u)' <=> IsLoaded(u)
                     /\ IsListed(u)' <=> IF u[1] = db[c] THEN IsLoaded(u) ELSE IsListed(u)
  BY <1>1, MetaFlushed
<1>3. ASSUME NEW u \in Tab, u[1] = db[c], IsListed(u), ~IsLoaded(u)
      PROVE  file[u] = NoFile
  <2>1. ~(ref_cnt[u[1]] = 0 /\ \A b \in Conn : at[b] \in Leaving => db[b] # u[1])
    <3>1. CASE at[c] = "flushing"
      BY <1>3, <3>1 DEF Leaving
    <3>2. CASE at[c] # "flushing"
      <4>1. c \in Holders(db[c])
        BY <3>2 DEF Holders, Leaving
      <4>2. QED
        BY <1>1, <1>3, <4>1, HeldCounts
    <3>3. QED
      BY <3>1, <3>2
  <2>2. \A b \in Conn : at[b] # "loading"
    BY <1>1 DEF Managing
  <2>3. QED
    BY <1>3, <2>1, <2>2 DEF Sound, Lists
<1>4. ASSUME NEW u \in Tab, ~IsLoaded(u)
      PROVE  ~IsLoaded(u)' /\ OnDisk(u)' = OnDisk(u)
  BY <1>2, <1>3, <1>4 DEF OnDisk
<1>5. \A f \in Fid : Is(f)' = Is(f) /\ Mem(f)' = Mem(f)
  BY DEF Is, Mem
<1>6. \A f \in Fid : Is(f) => tables[f].tab \in Tab /\ IsLoaded(tables[f].tab)
  BY Fields DEF IsLoaded, Is
<1>7. \A f \in Fid : Is(f) /\ ~IsListed(tables[f].tab)' => ~IsListed(tables[f].tab)
  <2>1. \A u \in Tab : IsLoaded(u) /\ ~IsListed(u)' => ~IsListed(u)
    BY <1>2
  <2>2. \A f \in Fid : IsListed(tables[f].tab)' <=> tables[f].tab[2] \in meta'[tables[f].tab[1]]
    BY DEF IsListed
  <2>3. QED
    BY <1>6, <2>1, <2>2 DEF IsListed
<1>8. QED
  BY <1>4, <1>5, <1>7, SavesIf

-----------------------------------------------------------------------------
(* Steps that change a table, and crashes. *)

LEMMA OthersSame ==
  ASSUME Inv, Inv', NEW t \in Tab,
         \A u \in Tab : u # t => file'[u] = file[u] /\ fid'[u] = fid[u] /\ (IsListed(u)' <=> IsListed(u)),
         \A g \in Fid : Is(g) /\ tables[g].tab # t => tables'[g] = tables[g] /\ pool'[g] = pool[g],
         \A g \in Fid : Is(g)' /\ tables'[g].tab # t => Is(g) /\ tables'[g].tab = tables[g].tab
  PROVE  \A u \in Tab : u # t => Holds(u)' = Holds(u) /\ (IsUnsaved(u)' <=> IsUnsaved(u))
<1>1. ASSUME NEW u \in Tab, u # t, IsLoaded(u)
      PROVE  Holds(u)' = Holds(u) /\ (IsUnsaved(u)' <=> IsUnsaved(u))
  <2>1. PICK g \in Fid : Is(g) /\ tables[g].tab = u
    BY <1>1 DEF IsLoaded, Is
  <2>2. Is(g)' /\ tables'[g] = tables[g] /\ pool'[g] = pool[g] /\ file'[u] = file[u]
    BY <1>1, <2>1 DEF Is
  <2>3. Mem(g)' = Mem(g)
    BY <2>1, <2>2 DEF Mem
  <2>4. QED
    BY <1>1, <2>1, <2>2, <2>3, Viewed DEF View
<1>2. ASSUME NEW u \in Tab, u # t, ~IsLoaded(u)
      PROVE  Holds(u)' = Holds(u) /\ (IsUnsaved(u)' <=> IsUnsaved(u))
  <2>1. ~IsLoaded(u)'
    BY <1>2 DEF IsLoaded, Is
  <2>2. OnDisk(u)' = OnDisk(u)
    BY <1>2 DEF OnDisk
  <2>3. QED
    BY <1>2, <2>1, <2>2, Viewed DEF View
<1>3. QED
  BY <1>1, <1>2

LEMMA OneMapped ==
  ASSUME NEW t \in Tab,
         \A u \in Tab : u # t => Holds(u)' = Holds(u) /\ (IsUnsaved(u)' <=> IsUnsaved(u))
  PROVE  /\ [u \in Tab |-> Holds(u)'] = [[u \in Tab |-> Holds(u)] EXCEPT ![t] = Holds(t)']
         /\ {u \in Tab : IsUnsaved(u)'} = IF IsUnsaved(t)' THEN {u \in Tab : IsUnsaved(u)} \cup {t}
                                                          ELSE {u \in Tab : IsUnsaved(u)} \ {t}
OBVIOUS

LEMMA CreateTableMaps ==
  ASSUME Inv, Inv', NEW c \in Conn, NEW n \in Name, NEW f \in Fid, CreateTable(c, n, f)
  PROVE  \E t \in Tab : Tables!Create(t)
<1> USE Nothing DEF Inv
<1>1. MayManage(c) /\ db[c] # None /\ db[c] \in Database
  BY DEF CreateTable, Types
<1>2. PICK t \in Tab : t = <<db[c], n>>
  BY <1>1, Names
<1>3. /\ f \in Unused /\ fid[t] = None /\ file[t] = NoFile
      /\ file' = [file EXCEPT ![t] = [hdr |-> 0, page |-> 0]]
      /\ fid' = [fid EXCEPT ![t] = f]
      /\ tables' = [tables EXCEPT ![f] = [tab |-> t, hdr |-> 0]]
      /\ UNCHANGED <<meta, pool>>
  BY <1>2 DEF CreateTable
<1>4. ~Is(f) /\ ~IsListed(t) /\ \A g \in Fid : Is(g) => tables[g].tab # t
  <2>1. ~Is(f)
    BY <1>1, <1>3, Free, Fields DEF Unused
  <2>2. ~IsListed(t)
    BY <1>1, <1>3, Free
  <2>3. \A g \in Fid : Is(g) => tables[g].tab # t
    BY <1>1, <1>3, Free
  <2>4. QED
    BY <2>1, <2>2, <2>3
<1>5. [tab |-> t, hdr |-> 0] # NoTable /\ [hdr |-> 0, page |-> 0] # NoFile
  BY Entries, ValueAssumption
<1>6. /\ Is(f)' /\ tables'[f].tab = t /\ tables'[f].hdr = 0
      /\ \A g \in Fid \ {f} : tables'[g] = tables[g] /\ (Is(g)' <=> Is(g))
  BY <1>3, <1>5 DEF Types, Is
<1>7. /\ file'[t] = [hdr |-> 0, page |-> 0] /\ fid'[t] = f
      /\ \A u \in Tab : u # t => file'[u] = file[u] /\ fid'[u] = fid[u]
  BY <1>3 DEF Types
<1>8. \A u \in Tab : IsListed(u)' <=> IsListed(u)
  BY <1>3 DEF IsListed
<1>9. \A u \in Tab : u # t => Holds(u)' = Holds(u) /\ (IsUnsaved(u)' <=> IsUnsaved(u))
  <2>1. \A g \in Fid : Is(g) /\ tables[g].tab # t => tables'[g] = tables[g] /\ pool'[g] = pool[g]
    BY <1>3, <1>4, <1>6
  <2>2. \A g \in Fid : Is(g)' /\ tables'[g].tab # t => Is(g) /\ tables'[g].tab = tables[g].tab
    BY <1>6
  <2>3. QED
    BY <1>7, <1>8, <2>1, <2>2, OthersSame
<1>10. Holds(t) = NoFile
  BY <1>3 DEF Holds
<1>11. Holds(t)' = [hdr |-> 0, page |-> 0] /\ IsUnsaved(t)'
  <2>1. pool'[f] = NoPage
    BY <1>3, <1>4 DEF Sound, Pages
  <2>2. Mem(f)' = [hdr |-> 0, page |-> 0]
    BY <1>6, <1>7, <2>1 DEF Mem
  <2>3. QED
    BY <1>4, <1>6, <1>7, <1>8, <2>2, Viewed DEF View
<1>12. Tables!Create(t)
  BY <1>9, <1>10, <1>11, OneMapped DEF Tables!Create
<1>13. QED
  BY <1>12

LEMMA DropTableMaps ==
  ASSUME Inv, Inv', NEW c \in Conn, NEW f \in Fid, DropTable(c, f)
  PROVE  \E t \in Tab : Tables!Drop(t)
<1> USE Nothing DEF Inv
<1>1. Is(f) /\ tables[f].tab \in Tab
  BY Fields DEF DropTable, Is
<1>2. PICK t \in Tab : t = tables[f].tab
  BY <1>1
<1>3. /\ file' = [file EXCEPT ![t] = NoFile]
      /\ fid' = [fid EXCEPT ![t] = None]
      /\ tables' = [tables EXCEPT ![f] = NoTable]
      /\ pool' = [pool EXCEPT ![f] = NoPage]
      /\ UNCHANGED meta
  BY <1>2 DEF DropTable, PoolWithout, Pinned
<1>4. \A g \in Fid : Is(g) /\ g # f => tables[g].tab # t
  BY <1>1, <1>2 DEF Sound, Unique
<1>5. ~Is(f)' /\ \A g \in Fid \ {f} : tables'[g] = tables[g] /\ (Is(g)' <=> Is(g)) /\ pool'[g] = pool[g]
  BY <1>3 DEF Types, Is
<1>6. /\ file'[t] = NoFile /\ fid'[t] = None
      /\ \A u \in Tab : u # t => file'[u] = file[u] /\ fid'[u] = fid[u]
  BY <1>3 DEF Types
<1>7. \A u \in Tab : IsListed(u)' <=> IsListed(u)
  BY <1>3 DEF IsListed
<1>8. \A u \in Tab : u # t => Holds(u)' = Holds(u) /\ (IsUnsaved(u)' <=> IsUnsaved(u))
  <2>1. \A g \in Fid : Is(g) /\ tables[g].tab # t => tables'[g] = tables[g] /\ pool'[g] = pool[g]
    BY <1>2, <1>5
  <2>2. \A g \in Fid : Is(g)' /\ tables'[g].tab # t => Is(g) /\ tables'[g].tab = tables[g].tab
    BY <1>5
  <2>3. QED
    BY <1>6, <1>7, <2>1, <2>2, OthersSame
<1>9. Holds(t) # NoFile
  <2>1. Holds(t) = Mem(f)
    BY <1>1, <1>2, Viewed DEF View
  <2>2. QED
    BY <1>1, <2>1, MemIs DEF Whole
<1>10. Holds(t)' = NoFile
  BY <1>6 DEF Holds
<1>11. ~IsUnsaved(t)'
  BY <1>6 DEF IsUnsaved
<1>12. Tables!Drop(t)
  BY <1>8, <1>9, <1>10, <1>11, OneMapped DEF Tables!Drop
<1>13. QED
  BY <1>12

LEMMA WriteMaps ==
  ASSUME Inv, Inv', NEW c \in Conn, NEW v \in Value, Write(c, v)
  PROVE  \E t \in Tab, w \in [hdr : Value, page : Value] : Tables!Change(t, w)
<1> USE Nothing DEF Inv
<1>1. /\ at[c] = "fetched"
      /\ pool' = [pool EXCEPT ![use[c]] = [page |-> v, dirty |-> pool[use[c]].dirty]]
      /\ \/ tables' = tables
         \/ tables' = [tables EXCEPT ![use[c]] = [tab |-> tables[use[c]].tab, hdr |-> v]]
      /\ UNCHANGED <<meta, file, fid>>
  BY DEF Write
<1>2. PICK f \in Fid : f = use[c] /\ Is(f) /\ tables[f].tab \in Tab
  BY <1>1, UsedIs DEF Accessing
<1>3. PICK t \in Tab : t = tables[f].tab
  BY <1>2
<1>4. /\ Is(f)' /\ tables'[f].tab = t
      /\ \A g \in Fid \ {f} : tables'[g] = tables[g] /\ (Is(g)' <=> Is(g)) /\ pool'[g] = pool[g]
  <2>1. [tab |-> t, hdr |-> v] # NoTable
    BY Entries
  <2>2. QED
    BY <1>1, <1>2, <1>3, <2>1 DEF Types, Is
<1>5. \A g \in Fid : Is(g) /\ g # f => tables[g].tab # t
  BY <1>2, <1>3 DEF Sound, Unique
<1>6. \A u \in Tab : IsListed(u)' <=> IsListed(u)
  BY <1>1 DEF IsListed
<1>7. \A u \in Tab : u # t => Holds(u)' = Holds(u) /\ (IsUnsaved(u)' <=> IsUnsaved(u))
  <2>1. \A g \in Fid : Is(g) /\ tables[g].tab # t => tables'[g] = tables[g] /\ pool'[g] = pool[g]
    BY <1>3, <1>4
  <2>2. \A g \in Fid : Is(g)' /\ tables'[g].tab # t => Is(g) /\ tables'[g].tab = tables[g].tab
    BY <1>4
  <2>3. \A u \in Tab : u # t => file'[u] = file[u] /\ fid'[u] = fid[u]
    BY <1>1
  <2>4. QED
    BY <1>6, <2>1, <2>2, <2>3, OthersSame
<1>8. Holds(t) = Mem(f) /\ Holds(t)' = Mem(f)'
  BY <1>2, <1>3, <1>4, Viewed DEF View
<1>9. Mem(f) # NoFile /\ Mem(f)' \in [hdr : Value, page : Value]
  <2>1. Mem(f) # NoFile
    BY <1>2, MemIs DEF Whole
  <2>2. Mem(f)' \in File
    <3>1. Whole'
      BY MemIs, PTL
    <3>2. QED
      BY <1>2, <1>4, <3>1 DEF Whole
  <2>3. QED
    BY <2>1, <2>2 DEF File
<1>10. Tables!Change(t, Holds(t)')
  BY <1>7, <1>8, <1>9, OneMapped DEF Tables!Change
<1>11. QED
  BY <1>8, <1>9, <1>10

LEMMA CrashMaps ==
  ASSUME Inv, Inv', Crash
  PROVE  Tables!Crash
<1> USE Nothing DEF Inv
<1>1. /\ \A f \in Fid : ~Is(f)'
      /\ \A t \in Tab : fid'[t] = None
      /\ UNCHANGED <<meta, file>>
  BY DEF Crash, Is
<1>2. \A t \in Tab : ~IsLoaded(t)' /\ (IsListed(t)' <=> IsListed(t)) /\ OnDisk(t)' = OnDisk(t)
  BY <1>1 DEF IsLoaded, Is, IsListed, OnDisk
<1>3. \A t \in Tab : Holds(t)' = OnDisk(t) /\ ~IsUnsaved(t)'
  BY <1>2, Viewed DEF View
<1>4. \A t \in Tab : OnDisk(t) \in File \cup {NoFile}
  BY DEF OnDisk, Types
<1>5. ASSUME NEW t \in Tab, ~IsUnsaved(t)
      PROVE  Holds(t)' = Holds(t)
  <2>1. CASE IsLoaded(t)
    <3>1. PICK f \in Fid : Is(f) /\ tables[f].tab = t
      BY <2>1 DEF IsLoaded, Is
    <3>2. Holds(t) = Mem(f)
      BY <3>1, Viewed DEF View
    <3>3. CASE Closed(t)
      BY <1>3, <3>1, <3>2, <3>3, ClosedSame
    <3>4. CASE ~Closed(t)
      <4>1. fid[t] = f
        BY <3>1, <3>4 DEF Sound, Ids
      <4>2. IsListed(t) /\ Mem(f) = file[t]
        BY <1>5, <3>1, <4>1, Viewed DEF View
      <4>3. QED
        BY <1>3, <3>2, <4>2 DEF OnDisk
    <3>5. QED
      BY <3>3, <3>4
  <2>2. CASE ~IsLoaded(t)
    BY <1>3, <2>2, Viewed DEF View
  <2>3. QED
    BY <2>1, <2>2
<1>6. [t \in Tab |-> Holds(t)'] \in [Tab -> [hdr : Value, page : Value] \cup {NoFile}]
  BY <1>3, <1>4 DEF File
<1>7. {t \in Tab : IsUnsaved(t)'} = {}
  BY <1>3
<1>8. QED
  BY <1>5, <1>6, <1>7 DEF Tables!Crash

-----------------------------------------------------------------------------
(* The tables as Durable describes them. *)

LEMMA TablesInit ==
  ASSUME Init
  PROVE  Tables!Init
<1>1. \A t \in Tab : Holds(t) = NoFile /\ ~IsUnsaved(t)
  BY DEF Init, Holds, IsUnsaved
<1>2. QED
  BY <1>1 DEF Tables!Init

TablesVars == <<[t \in Tab |-> Holds(t)], {t \in Tab : IsUnsaved(t)}>>

LEMMA TablesStep ==
  ASSUME Inv, Inv', Next
  PROVE  Tables!Next
<1>1. Saves => Tables!Next
  BY SaveMaps DEF Tables!Next
<1>2. CASE Crash
  BY <1>2, CrashMaps DEF Tables!Next
<1>3. CASE \E f \in Fid : Evict(f)
  BY <1>1, <1>3, EvictSaves
<1>4. ASSUME NEW c \in Conn, ConnStep(c)
      PROVE  Tables!Next
  <2>1. CASE \E n \in Name, f \in Fid : CreateTable(c, n, f)
    BY <2>1, CreateTableMaps DEF Tables!Next
  <2>2. CASE \E f \in Fid : DropTable(c, f)
    BY <2>2, DropTableMaps DEF Tables!Next
  <2>3. CASE \E v \in Value : Write(c, v)
    BY <2>3, WriteMaps DEF Tables!Next
  <2>4. CASE \/ \E d \in Database : CreateDatabase(c, d) \/ OpenDatabase(c, d)
             \/ LoadEnds(c) \/ Disconnect(c) \/ End(c) \/ \E n \in Name : Begin(c, n)
    <3>1. UNCHANGED <<meta, file, fid, tables, pool>>
      BY <2>4 DEF CreateDatabase, OpenDatabase, LoadEnds, Disconnect, End, Begin, memory
    <3>2. QED
      BY <1>1, <3>1, SavesQuietly
  <2>5. CASE TableDone(c) \/ CloseFlushes(c)
    <3>1. /\ FlushMeta(db[c]) /\ UNCHANGED <<file, fid, tables, pool>>
          /\ at[c] \in {"creating", "dropping", "flushing"}
      BY <2>5 DEF TableDone, CloseFlushes
    <3>2. QED
      BY <1>1, <3>1, FlushSaves
  <2>6. CASE \E n \in Name, f \in Fid : LoadTable(c, n, f)
    BY <1>1, <2>6, LoadTableSaves
  <2>7. CASE \E f \in Fid : CloseTable(c, f)
    BY <1>1, <2>7, CloseTableSaves
  <2>8. CASE CloseEnds(c) \/ FetchPage(c) \/ UnpinPage(c)
    BY <1>1, <2>8, CloseEndsSaves, FetchPageSaves, UnpinPageSaves
  <2>9. QED
    BY <1>4, <2>1, <2>2, <2>3, <2>4, <2>5, <2>6, <2>7, <2>8 DEF ConnStep
<1>5. QED
  BY <1>2, <1>3, <1>4 DEF Next

LEMMA TablesStays ==
  ASSUME UNCHANGED vars
  PROVE  UNCHANGED TablesVars
<1>1. UNCHANGED <<meta, file, fid, tables, pool>>
  BY DEF vars, memory
<1>2. QED
  BY <1>1 DEF TablesVars, Holds, IsUnsaved, InMemory, IdOf, IsLoaded, IsListed

\* SavedSpec: opening, closing, eviction and FlushMeta change no table, and what a crash takes
\* away had not been saved: the databases implement Durable.
THEOREM Implements == Spec => SavedSpec
<1>1. Init => Tables!Init
  BY TablesInit
<1>2. Inv /\ Inv' /\ [Next]_vars => [Tables!Next]_TablesVars
  BY TablesStep, TablesStays
<1>3. QED
  BY <1>1, <1>2, Invariance, PTL DEF Spec, SavedSpec, Tables!Spec, TablesVars
===============================================================================
