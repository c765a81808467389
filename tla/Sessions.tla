-------------------------------- MODULE Sessions --------------------------------
(***************************************************************************)
(* wsdb's connections and the databases they have open: ClientHandler and  *)
(* DoDBPlan of system/system.cpp, database_handle.cpp, table_manager.cpp,  *)
(* the files of disk_manager.cpp, CREATE TABLE and DROP TABLE of           *)
(* executor_ddl.cpp.                                                       *)
(*                                                                         *)
(* The connections that have a database open are counted; the first one    *)
(* opens its tables, the last one to leave saves and closes them.  A       *)
(* table's id is the descriptor of its file, which another table gets      *)
(* after it is closed.  A table is its header, which is in memory while    *)
(* the table is open, and one page, which goes through the buffer pool     *)
(* (BufferPool, here what PageStore promises of it).  The server may die   *)
(* and be started again at any time; nothing is logged.                    *)
(***************************************************************************)
EXTENDS Integers, FiniteSets

CONSTANTS
  Conn,      \* the connections; one that has left is connected anew
  Database,
  Name,      \* the names of tables
  Fid,       \* bound: the file descriptors of tables
  Value,     \* what a header or a page may hold, 0 when it is new
  MaxRef,    \* bound: ref_cnt_
  None

Tab == Database \X Name

ASSUME ConnAssumption  == IsFiniteSet(Conn)
ASSUME ValueAssumption == 0 \in Value
ASSUME RefAssumption   == MaxRef \in Nat
ASSUME NoneAssumption  == None \notin Database \cup Fid \cup Value

NoFile  == [hdr |-> None, page |-> None]
NoTable == [tab |-> None, hdr |-> None]
NoPage  == [page |-> None, dirty |-> FALSE]

VARIABLES
  \* on disk
  databases, \* databases_: the directories found, or made since
  meta,     \* the tables listed in each database's .db file
  file,     \* the header and the page in each table's file, or NoFile
  \* in memory
  ref_cnt,  \* the connections counted for each database
  fid,      \* name_fid_map_: the descriptor of each table's file, None when it is not open
  tables,   \* tables_ of all databases: the table and the header of each table id, or NoTable
  pool,     \* the page of each table id in the buffer pool, or NoPage
  db,       \* db_ of each connection's context
  at,       \* what each connection is doing
  use,      \* the table id each connection's statement works on, or None
  todo      \* the tables still to be opened, or closed, with a database

memory == <<ref_cnt, fid, tables, pool, db, at, use, todo>>
vars   == <<databases, meta, file, memory>>

Init ==
  /\ databases = {}
  /\ meta = [d \in Database |-> {}]
  /\ file = [t \in Tab |-> NoFile]
  /\ ref_cnt = [d \in Database |-> 0]
  /\ fid = [t \in Tab |-> None]
  /\ tables = [f \in Fid |-> NoTable]
  /\ pool = [f \in Fid |-> NoPage]
  /\ db = [c \in Conn |-> None]
  /\ at = [c \in Conn |-> "idle"]
  /\ use = [c \in Conn |-> None]
  /\ todo = {}

-----------------------------------------------------------------------------
(* Connections.  Each runs one statement at a time. *)

Goes(c, step) == at' = [at EXCEPT ![c] = step]

Managing == {"loading", "creating", "dropping", "flushing", "closing"}

\* Bound: one connection at a time opens, closes, creates or drops.  Nothing in the code keeps
\* two from racing on ref_cnt_, tables_ and the .db file.
MayManage(c) == at[c] = "idle" /\ \A b \in Conn : at[b] \notin Managing

Unused == {f \in Fid : \A t \in Tab : fid[t] # f}

\* The tables of a database in its tables_.
IsLoaded(t) == \E f \in Fid : tables[f] # NoTable /\ tables[f].tab = t
Loaded(d)   == {n \in Name : IsLoaded(<<d, n>>)}

Pinned(f) == \E c \in Conn : use[c] = f /\ at[c] \in {"fetched", "written"}

-----------------------------------------------------------------------------
(* CREATE DATABASE and OPEN. *)

CreateDatabase(c, d) ==
  /\ MayManage(c)
  /\ d \notin databases
  /\ databases' = databases \cup {d}
  /\ UNCHANGED <<meta, file, memory>>

\* DoDBPlan does not close what the connection had open before.
OpenDatabase(c, d) ==
  /\ MayManage(c)
  /\ d \in databases
  /\ ref_cnt[d] < MaxRef
  /\ db' = [db EXCEPT ![c] = d]
  /\ ref_cnt' = [ref_cnt EXCEPT ![d] = @ + 1]
  /\ IF ref_cnt'[d] = 1 THEN Goes(c, "loading") /\ todo' = meta[d]
                        ELSE UNCHANGED <<at, todo>>
  /\ UNCHANGED <<databases, meta, file, fid, tables, pool, use>>

\* Open: OpenTable for each name in the .db file.
LoadTable(c, n, f) ==
  /\ at[c] = "loading" /\ n \in todo
  /\ f \in Unused
  /\ LET t == <<db[c], n>>
     IN /\ fid' = [fid EXCEPT ![t] = f]
        /\ tables' = [tables EXCEPT ![f] = [tab |-> t, hdr |-> file[t].hdr]]
  /\ todo' = todo \ {n}
  /\ UNCHANGED <<databases, meta, file, ref_cnt, pool, db, at, use>>

LoadEnds(c) ==
  /\ at[c] = "loading" /\ todo = {}
  /\ Goes(c, "idle")
  /\ UNCHANGED <<databases, meta, file, ref_cnt, fid, tables, pool, db, use, todo>>

-----------------------------------------------------------------------------
(* CREATE TABLE and DROP TABLE, which FlushMeta ends. *)

\* CreateFile throws when the file is there, although no such table may be.
CreateTable(c, n, f) ==
  /\ MayManage(c) /\ db[c] # None
  /\ f \in Unused
  /\ LET t == <<db[c], n>>
     IN /\ fid[t] = None /\ file[t] = NoFile
        /\ file' = [file EXCEPT ![t] = [hdr |-> 0, page |-> 0]]
        /\ fid' = [fid EXCEPT ![t] = f]
        /\ tables' = [tables EXCEPT ![f] = [tab |-> t, hdr |-> 0]]
  /\ Goes(c, "creating")
  /\ UNCHANGED <<databases, meta, ref_cnt, pool, db, use, todo>>

\* Mutant of PoolWithout: the pages of a closed table stay in the pool.
PoolWith(f) ==
  IF pool[f] = NoPage THEN pool ELSE [pool EXCEPT ![f] = [page |-> @.page, dirty |-> FALSE]]

\* DeleteAllPages leaves a page that is in use, and CloseTable does not ask.
PoolWithout(f) == IF Pinned(f) THEN pool ELSE [pool EXCEPT ![f] = NoPage]

\* Bound: no connection has a statement on the table that is dropped.
DropTable(c, f) ==
  /\ MayManage(c)
  /\ tables[f] # NoTable /\ tables[f].tab[1] = db[c]
  /\ \A b \in Conn : use[b] # f
  /\ file' = [file EXCEPT ![tables[f].tab] = NoFile]
  /\ fid' = [fid EXCEPT ![tables[f].tab] = None]
  /\ pool' = PoolWithout(f)
  /\ tables' = [tables EXCEPT ![f] = NoTable]
  /\ Goes(c, "dropping")
  /\ UNCHANGED <<databases, meta, ref_cnt, db, use, todo>>

FlushMeta(d) == meta' = [meta EXCEPT ![d] = Loaded(d)]

TableDone(c) ==
  /\ at[c] \in {"creating", "dropping"}
  /\ FlushMeta(db[c])
  /\ Goes(c, "idle")
  /\ UNCHANGED <<databases, file, ref_cnt, fid, tables, pool, db, use, todo>>

-----------------------------------------------------------------------------
(* The end of a connection: Close. *)

\* Mutant of LastOut: whoever leaves closes the database.
AnyOut(d) == ref_cnt[d] # 0

LastOut(d) == ref_cnt[d] = 1

\* Close of a database that is not open returns at once.
CountDown(d) == ref_cnt' = [ref_cnt EXCEPT ![d] = IF @ = 0 THEN 0 ELSE @ - 1]

Disconnect(c) ==
  /\ MayManage(c) /\ db[c] # None
  /\ CountDown(db[c])
  /\ IF LastOut(db[c]) THEN Goes(c, "flushing") /\ UNCHANGED db
                        ELSE db' = [db EXCEPT ![c] = None] /\ UNCHANGED at
  /\ UNCHANGED <<databases, meta, file, fid, tables, pool, use, todo>>

CloseFlushes(c) ==
  /\ at[c] = "flushing"
  /\ FlushMeta(db[c])
  /\ todo' = Loaded(db[c])
  /\ Goes(c, "closing")
  /\ UNCHANGED <<databases, file, ref_cnt, fid, tables, pool, db, use>>

\* The page in the file once FlushAllPages has written it back.
FlushedPage(f) ==
  IF pool[f] # NoPage /\ pool[f].dirty THEN pool[f].page ELSE file[tables[f].tab].page

\* Mutant of Written: the header is not written.
WrittenWithoutHeader(f) == [hdr |-> file[tables[f].tab].hdr, page |-> FlushedPage(f)]

Written(f) == [hdr |-> tables[f].hdr, page |-> FlushedPage(f)]

\* CloseTable of TableManager.
CloseTable(c, f) ==
  /\ at[c] = "closing"
  /\ tables[f] # NoTable /\ tables[f].tab[1] = db[c] /\ tables[f].tab[2] \in todo
  /\ file' = [file EXCEPT ![tables[f].tab] = Written(f)]
  /\ pool' = PoolWithout(f)
  /\ fid' = [fid EXCEPT ![tables[f].tab] = None]
  /\ todo' = todo \ {tables[f].tab[2]}
  /\ UNCHANGED <<databases, meta, ref_cnt, tables, db, at, use>>

\* tables_ is cleared; the connection's thread ends.
CloseEnds(c) ==
  /\ at[c] = "closing" /\ todo = {}
  /\ tables' = [f \in Fid |-> IF tables[f] # NoTable /\ tables[f].tab[1] = db[c] THEN NoTable
                              ELSE tables[f]]
  /\ db' = [db EXCEPT ![c] = None]
  /\ Goes(c, "idle")
  /\ UNCHANGED <<databases, meta, file, ref_cnt, fid, pool, use, todo>>

-----------------------------------------------------------------------------
(* Statements on the rows of a table: TableHeap, here on one page. *)

\* Translate asks GetTable once, and the statement keeps what it returned.
Begin(c, n) ==
  /\ at[c] = "idle" /\ db[c] # None
  /\ fid[<<db[c], n>>] # None /\ tables[fid[<<db[c], n>>]] # NoTable
  /\ use' = [use EXCEPT ![c] = fid[<<db[c], n>>]]
  /\ Goes(c, "begun")
  /\ UNCHANGED <<databases, meta, file, ref_cnt, fid, tables, pool, db, todo>>

\* FetchPage, from the file that the table id is the descriptor of.
FetchPage(c) ==
  /\ at[c] = "begun"
  /\ IF pool[use[c]] # NoPage THEN UNCHANGED pool
     ELSE \E t \in Tab :
            /\ fid[t] = use[c]
            /\ pool' = [pool EXCEPT ![use[c]] = [page |-> file[t].page, dirty |-> FALSE]]
  /\ Goes(c, "fetched")
  /\ UNCHANGED <<databases, meta, file, ref_cnt, fid, tables, db, use, todo>>

\* INSERT, UPDATE and DELETE change the page; the header as well when a page is added or the
\* chain of free pages changes.
Write(c, v) ==
  /\ at[c] = "fetched"
  /\ pool' = [pool EXCEPT ![use[c]] = [page |-> v, dirty |-> @.dirty]]
  /\ \/ UNCHANGED tables
     \/ tables' = [tables EXCEPT ![use[c]] = [tab |-> @.tab, hdr |-> v]]
  /\ Goes(c, "written")
  /\ UNCHANGED <<databases, meta, file, ref_cnt, fid, db, use, todo>>

\* UnpinPage; only now is the page dirty.  A SELECT has written nothing.  Another access to
\* the page may follow.
UnpinPage(c) ==
  /\ at[c] \in {"fetched", "written"}
  /\ IF at[c] = "written" THEN pool' = [pool EXCEPT ![use[c]] = [page |-> @.page, dirty |-> TRUE]]
                           ELSE UNCHANGED pool
  /\ Goes(c, "begun")
  /\ UNCHANGED <<databases, meta, file, ref_cnt, fid, tables, db, use, todo>>

\* No row is left, or FetchPage found no free frame.
End(c) ==
  /\ at[c] = "begun"
  /\ use' = [use EXCEPT ![c] = None]
  /\ Goes(c, "idle")
  /\ UNCHANGED <<databases, meta, file, ref_cnt, fid, tables, pool, db, todo>>

\* The pool takes the frame for another page.
Evict(f) ==
  /\ pool[f] # NoPage /\ ~Pinned(f)
  /\ tables[f] # NoTable
  /\ file' = [file EXCEPT ![tables[f].tab] = [hdr |-> @.hdr, page |-> FlushedPage(f)]]
  /\ pool' = [pool EXCEPT ![f] = NoPage]
  /\ UNCHANGED <<databases, meta, ref_cnt, fid, tables, db, at, use, todo>>

\* The process ends, by "shutdown;" or otherwise, and is started again.  Bound: not while
\* DROP TABLE has removed the file and not yet written the .db file.
Crash ==
  /\ \A c \in Conn : at[c] # "dropping"
  /\ ref_cnt' = [d \in Database |-> 0]
  /\ fid' = [t \in Tab |-> None]
  /\ tables' = [f \in Fid |-> NoTable]
  /\ pool' = [f \in Fid |-> NoPage]
  /\ db' = [c \in Conn |-> None]
  /\ at' = [c \in Conn |-> "idle"]
  /\ use' = [c \in Conn |-> None]
  /\ todo' = {}
  /\ UNCHANGED <<databases, meta, file>>
-----------------------------------------------------------------------------
ConnStep(c) ==
  \/ \E d \in Database : CreateDatabase(c, d) \/ OpenDatabase(c, d)
  \/ \E n \in Name, f \in Fid : LoadTable(c, n, f) \/ CreateTable(c, n, f)
  \/ \E f \in Fid : DropTable(c, f) \/ CloseTable(c, f)
  \/ LoadEnds(c) \/ TableDone(c) \/ Disconnect(c) \/ CloseFlushes(c) \/ CloseEnds(c)
  \/ \E n \in Name : Begin(c, n)
  \/ FetchPage(c) \/ (\E v \in Value : Write(c, v)) \/ UnpinPage(c) \/ End(c)

Next == (\E c \in Conn : ConnStep(c)) \/ (\E f \in Fid : Evict(f)) \/ Crash

Spec == Init /\ [][Next]_vars
-----------------------------------------------------------------------------
(* Properties. *)

TypeOK ==
  /\ databases \in SUBSET Database
  /\ meta \in [Database -> SUBSET Name]
  /\ file \in [Tab -> [hdr : Value, page : Value] \cup {NoFile}]
  /\ ref_cnt \in [Database -> 0 .. MaxRef]
  /\ fid \in [Tab -> Fid \cup {None}]
  /\ tables \in [Fid -> [tab : Tab, hdr : Value] \cup {NoTable}]
  /\ pool \in [Fid -> [page : Value, dirty : BOOLEAN] \cup {NoPage}]
  /\ db \in [Conn -> Database \cup {None}]
  /\ at \in [Conn -> {"idle", "begun", "fetched", "written"} \cup Managing]
  /\ use \in [Conn -> Fid \cup {None}]
  /\ todo \in SUBSET Name

\* Whoever has a database open finds its tables open: each table of the .db file has its
\* handle, except one being dropped.
HeldIsOpen ==
  \A c \in Conn : db[c] # None /\ at[c] \notin {"loading", "flushing", "closing"} =>
    \/ meta[db[c]] \subseteq Loaded(db[c])
    \/ \E b \in Conn : at[b] = "dropping"

\* The pool has pages of open files only, so that a table whose id another table had before
\* never sees that table's page; and a statement's table stays open until it ends.
IdsInUse ==
  /\ \A f \in Fid \cap Unused : pool[f] = NoPage
  /\ \A c \in Conn : use[c] # None => use[c] \notin Unused /\ tables[use[c]] # NoTable

\* What a table holds: in memory while it is open, else in its file.
IdOf(t)     == CHOOSE f \in Fid : tables[f] # NoTable /\ tables[f].tab = t
InMemory(t) == [hdr  |-> tables[IdOf(t)].hdr,
                page |-> IF fid[t] = IdOf(t) /\ pool[IdOf(t)] # NoPage THEN pool[IdOf(t)].page
                         ELSE file[t].page]
IsListed(t) == t[2] \in meta[t[1]]
Holds(t)    == IF file[t] = NoFile \/ (~IsLoaded(t) /\ ~IsListed(t)) THEN NoFile
               ELSE IF IsLoaded(t) THEN InMemory(t) ELSE file[t]

\* Whatever is not yet in its file, once that is closed, is lost.
IsUnsaved(t) == fid[t] # None /\ (~IsListed(t) \/ InMemory(t) # file[t])

Tables == INSTANCE Durable WITH
  Tab      <- Tab,
  Contents <- [hdr : Value, page : Value],
  New      <- [hdr |-> 0, page |-> 0],
  None     <- NoFile,
  tables   <- [t \in Tab |-> Holds(t)],
  unsaved  <- {t \in Tab : IsUnsaved(t)}

\* Opening, closing, evicting and the statements and DDL of others never change a table, and
\* a crash at most one that has changed since it was last saved: once the last connection has
\* left, everything is on disk.
SavedSpec == Tables!Spec
=============================================================================
