------------------------------ MODULE TableHeap ------------------------------
(***************************************************************************)
(* The records of one wsdb table, system/handle/table_handle.cpp, and the  *)
(* statements that read and change them row by row: executor_seqscan.cpp   *)
(* under executor_delete.cpp and executor_update.cpp, and                  *)
(* executor_insert.cpp.                                                    *)
(*                                                                         *)
(* A table has no latch, and every connection's thread runs its statements *)
(* on the same TableHandle.  Each look at a page's bitmap, and what is then *)
(* done to the page, are steps of their own; what is done to one page is   *)
(* one step, of which other clients see the bitmap only.  Pages are plain  *)
(* memory: BufferPool implements PageStore.                                *)
(***************************************************************************)
EXTENDS Integers, FiniteSets, FiniteSetsExt

CONSTANTS
  Client,        \* the threads; a row's contents are named by the client that wrote it
  REC_PER_PAGE,  \* tab_hdr_.rec_per_page_
  MaxPages,      \* bound: the file's pages, the header page 0 included
  Statements,    \* bound: the statements run, of "insert", "select", "update", "delete"
  Rows,          \* bound: the records of one INSERT
  Writers,       \* bound: the statements other than "select" that run at once; with two, the
                 \* assertions of WriteSlot and ReadSlot fail
  None           \* no record, and no statement

ASSUME SizeAssumption ==
  REC_PER_PAGE \in Nat \ {0} /\ MaxPages \in Nat \ {0} /\ Rows \in Nat \ {0}
ASSUME ClientAssumption == IsFiniteSet(Client) /\ None \notin Client

INVALID_PAGE_ID == -1
FILE_HEADER_PAGE_ID == 0

Slot   == 0 .. REC_PER_PAGE - 1
PageId == 1 .. MaxPages - 1

VARIABLES
  page_num, first_free_page,  \* tab_hdr_
  pages,  \* per page: the bitmap, the record count, the next free page, and the slots
  stmt    \* the statement each client runs, and where it is

vars == <<page_num, first_free_page, pages, stmt>>

EmptyPage == [bits |-> {}, record_num |-> 0, next |-> 0, rec |-> [s \in Slot |-> None]]

Init ==
  /\ page_num = FILE_HEADER_PAGE_ID + 1
  /\ first_free_page = INVALID_PAGE_ID
  /\ pages = [p \in PageId |-> EmptyPage]
  /\ stmt = [c \in Client |-> None]

-----------------------------------------------------------------------------
(* TableHandle: what an operation makes of the page it fetched. *)

\* Mutant of Filled: the record is not counted.
FilledUncounted(p, s, v) ==
  [p EXCEPT !.rec[s] = v, !.bits = @ \cup {s}]

\* Mutant of Filled: the record runs into the next slot.
FilledOverlapping(p, s, v) ==
  [p EXCEPT !.rec = [t \in Slot |-> IF t \in {s, s + 1} THEN v ELSE @[t]],
            !.bits = @ \cup {s}, !.record_num = @ + 1]

\* WriteSlot, SetBit and SetRecordNum.
Filled(p, s, v) ==
  [p EXCEPT !.rec[s] = v, !.bits = @ \cup {s}, !.record_num = @ + 1]

Full(p) == p.record_num = REC_PER_PAGE

FreeSlots(p) == Slot \ p.bits

\* BitMap::FindFirst from slot 0 for a clear bit.
FindFree(p) == Min(FreeSlots(p))

\* A page that is full is taken out of the chain of free pages, from the head.
PutRecord(pid, s, v) ==
  LET p == Filled(pages[pid], s, v)
  IN IF Full(p)
     THEN /\ first_free_page' = p.next
          /\ pages' = [pages EXCEPT ![pid] = [p EXCEPT !.next = INVALID_PAGE_ID]]
     ELSE /\ pages' = [pages EXCEPT ![pid] = p]
          /\ UNCHANGED first_free_page

\* DeleteRecord puts the page at the head of the chain.  What the slot still holds is not
\* looked at again.
DeleteRecord(pid, s) ==
  LET p == [pages[pid] EXCEPT !.bits = @ \ {s}, !.record_num = @ - 1, !.rec[s] = None]
  IN IF Full(p)
     THEN /\ pages' = [pages EXCEPT ![pid] = p]
          /\ UNCHANGED first_free_page
     ELSE /\ pages' = [pages EXCEPT ![pid] = [p EXCEPT !.next = first_free_page]]
          /\ first_free_page' = pid

\* UpdateRecord.
UpdateRecord(pid, s, v) ==
  /\ pages' = [pages EXCEPT ![pid].rec[s] = v]
  /\ UNCHANGED first_free_page

-----------------------------------------------------------------------------
(* Statements: a client runs one at a time.  WSDB_ASSERT, whose definition is not in the
   repository, ends the statement as an exception does. *)

At(c, step) == stmt[c] # None /\ stmt[c].at = step

Ended(c) == stmt' = [stmt EXCEPT ![c] = None]

MayBegin(c, kind) ==
  /\ stmt[c] = None
  /\ kind \in Statements
  /\ kind # "select" =>
       Cardinality({d \in Client : stmt[d] # None /\ stmt[d].kind # "select"}) < Writers

-----------------------------------------------------------------------------
(* INSERT: InsertRecord for each row. *)

BeginInsert(c) ==
  /\ MayBegin(c, "insert")
  /\ stmt' = [stmt EXCEPT ![c] = [kind |-> "insert", at |-> "page", left |-> Rows,
                                  pid |-> FILE_HEADER_PAGE_ID, slot |-> -1]]
  /\ UNCHANGED <<page_num, first_free_page, pages>>

\* CreatePageHandle: the first free page, or the next page of the file.
CreatePageHandle(c) ==
  /\ At(c, "page")
  /\ IF first_free_page # INVALID_PAGE_ID
     THEN /\ stmt' = [stmt EXCEPT ![c].at = "find", ![c].pid = first_free_page]
          /\ UNCHANGED page_num
     ELSE /\ page_num < MaxPages
          /\ page_num' = page_num + 1
          /\ stmt' = [stmt EXCEPT ![c].at = "link", ![c].pid = page_num]
  /\ UNCHANGED <<first_free_page, pages>>

\* CreateNewPageHandle once the new page is in memory.
LinkNewPage(c) ==
  /\ At(c, "link")
  /\ pages' = [pages EXCEPT ![stmt[c].pid].next = first_free_page]
  /\ first_free_page' = stmt[c].pid
  /\ stmt' = [stmt EXCEPT ![c].at = "find"]
  /\ UNCHANGED page_num

\* "No free slot in page" ends the statement; the rows inserted before stay.
FindSlot(c) ==
  /\ At(c, "find")
  /\ LET p == pages[stmt[c].pid]
     IN IF FreeSlots(p) = {} THEN Ended(c)
        ELSE stmt' = [stmt EXCEPT ![c].at = "put", ![c].slot = FindFree(p)]
  /\ UNCHANGED <<page_num, first_free_page, pages>>

\* WriteSlot asserts that the slot is free.
InsertRecord(c) ==
  /\ At(c, "put")
  /\ LET st == stmt[c]
     IN IF st.slot \in pages[st.pid].bits
        THEN Ended(c) /\ UNCHANGED <<first_free_page, pages>>
        ELSE /\ PutRecord(st.pid, st.slot, c)
             /\ IF st.left = 1 THEN Ended(c)
                ELSE stmt' = [stmt EXCEPT ![c].at = "page", ![c].left = @ - 1, ![c].slot = -1]
  /\ UNCHANGED page_num

-----------------------------------------------------------------------------
(* SELECT, UPDATE and DELETE: a sequential scan, and what is done to each row. *)

BeginScan(c, kind) ==
  /\ MayBegin(c, kind)
  /\ stmt' = [stmt EXCEPT ![c] = [kind |-> kind, at |-> "seek", left |-> 0,
                                  pid |-> FILE_HEADER_PAGE_ID + 1, slot |-> -1]]
  /\ UNCHANGED <<page_num, first_free_page, pages>>

\* Mutant of NextPage: GetNextRID does not restart at the first slot of a page.
NextPageKeepsSlot(st) == [st EXCEPT !.pid = @ + 1]

\* The scan moves on to the next page.
NextPage(st) == [st EXCEPT !.pid = @ + 1, !.slot = -1]

\* Mutant of SlotsAhead: the search starts at the slot of the record just read.
SlotsFromHere(st) == {s \in pages[st.pid].bits : s >= st.slot}

\* The records FindFirst meets from slot_id + 1 on.
SlotsAhead(st) == {s \in pages[st.pid].bits : s > st.slot}

\* One page of GetFirstRID or GetNextRID.  When there is no record left, Next ends the
\* statement, and Init's GetRecord(INVALID_RID) throws: the statement ends as well.
Seek(c) ==
  /\ At(c, "seek")
  /\ LET st == stmt[c]
     IN IF st.pid >= page_num THEN Ended(c)
        ELSE stmt' = [stmt EXCEPT ![c] =
                        IF SlotsAhead(st) = {} THEN NextPage(st)
                        ELSE [st EXCEPT !.at = "check read", !.slot = Min(SlotsAhead(st))]]
  /\ UNCHANGED <<page_num, first_free_page, pages>>

\* GetRecord, UpdateRecord and DeleteRecord look at the bitmap first: WSDB_RECORD_MISS,
\* when the record was deleted since, ends the statement.
Check(c) ==
  /\ LET st == stmt[c]
         to(step) == IF st.slot \notin pages[st.pid].bits THEN Ended(c)
                     ELSE stmt' = [stmt EXCEPT ![c].at = step]
     IN \/ At(c, "check read") /\ to("read")
        \/ At(c, "check apply") /\ to("apply")
  /\ UNCHANGED <<page_num, first_free_page, pages>>

\* ReadSlot asserts that the slot is in use.  The WHERE clause may hold of the record or not.
ReadSlot(c) ==
  /\ At(c, "read")
  /\ LET st == stmt[c]
     IN IF st.slot \notin pages[st.pid].bits THEN Ended(c)
        ELSE \E step \in {"seek", "check apply"} :
               /\ st.kind = "select" => step = "seek"
               /\ stmt' = [stmt EXCEPT ![c].at = step]
  /\ UNCHANGED <<page_num, first_free_page, pages>>

\* The rest of DeleteRecord and UpdateRecord, whose WriteSlot asserts that the slot is in
\* use.
Apply(c) ==
  /\ At(c, "apply")
  /\ LET st == stmt[c]
     IN IF st.kind = "update" /\ st.slot \notin pages[st.pid].bits
        THEN Ended(c) /\ UNCHANGED <<first_free_page, pages>>
        ELSE /\ IF st.kind = "delete" THEN DeleteRecord(st.pid, st.slot)
                                      ELSE UpdateRecord(st.pid, st.slot, c)
             /\ stmt' = [stmt EXCEPT ![c].at = "seek"]
  /\ UNCHANGED page_num

-----------------------------------------------------------------------------
ClientStep(c) ==
  \/ BeginInsert(c)
  \/ \E kind \in {"select", "update", "delete"} : BeginScan(c, kind)
  \/ CreatePageHandle(c) \/ LinkNewPage(c) \/ FindSlot(c) \/ InsertRecord(c)
  \/ Seek(c) \/ Check(c) \/ ReadSlot(c) \/ Apply(c)

Next == \E c \in Client : ClientStep(c)

Spec == Init /\ [][Next]_vars
-----------------------------------------------------------------------------
(* Properties. *)

TypeOK ==
  /\ page_num \in 1 .. MaxPages
  /\ first_free_page \in PageId \cup {INVALID_PAGE_ID}
  /\ pages \in [PageId -> [bits : SUBSET Slot, record_num : 0 .. REC_PER_PAGE,
                           next : -1 .. MaxPages - 1, rec : [Slot -> Client \cup {None}]]]
  /\ stmt \in [Client -> {None} \cup
                 [kind : Statements, at : {"page", "link", "find", "put", "seek", "check read",
                                          "read", "check apply", "apply"},
                  left : 0 .. Rows, pid : 0 .. MaxPages, slot : -1 .. REC_PER_PAGE - 1]]

\* With one writer at a time, each page's record count is the number of set bits, which
\* the full-page test and with it the chain of free pages rest on.
CountsAgree == \A p \in PageId : pages[p].record_num = Cardinality(pages[p].bits)

\* CreatePageHandle returns a page with a free slot, as its comment says.
InsertFindsSlot == \A c \in Client : At(c, "find") => FreeSlots(pages[stmt[c].pid]) # {}

\* What the table holds changes only row by row: a row is put where there was none, and a
\* row that is changed or removed is there at that moment; no other row is touched.  So it
\* is as long as one statement at a time writes.
Table == INSTANCE RowStore WITH
  RowId <- PageId \X Slot,
  Value <- Client,
  rows  <- [r \in PageId \X Slot |-> IF r[2] \in pages[r[1]].bits THEN pages[r[1]].rec[r[2]]
                                     ELSE None]

RowsSpec == Table!Spec
=============================================================================
