---------------------------- MODULE TableHeapProofs ----------------------------
(***************************************************************************)
(* Proofs about TableHeap and the scans of MCTableHeap, for any number of  *)
(* clients, pages, records of a page and rows of an INSERT, when one       *)
(* statement at a time writes: type correctness, CountsAgree, that a table *)
(* implements RowStore, ScanComplete and ScanOnce.                         *)
(***************************************************************************)
EXTENDS MCTableHeap, FiniteSetTheorems, SharedFacts

Page == [bits : SUBSET Slot, record_num : 0 .. REC_PER_PAGE,
         next : -1 .. MaxPages - 1, rec : [Slot -> Client \cup {None}]]

Insertion == {"page", "link", "find", "put"}
Scan      == {"seek", "check read", "read", "check apply", "apply"}

Statement ==
  [kind : Statements, at : Insertion \cup Scan,
   left : 0 .. Rows, pid : 0 .. MaxPages, slot : -1 .. REC_PER_PAGE - 1]

-----------------------------------------------------------------------------
(* Pages. *)

LEMMA MinIn ==
  ASSUME NEW D \in SUBSET Nat, D # {}
  PROVE  Min(D) \in D /\ \A n \in D : Min(D) <= n
BY LeastNat DEF Min

LEMMA SlotNat == Slot \subseteq Nat
BY SizeAssumption DEF Slot

LEMMA SlotCount ==
  ASSUME NEW B \in SUBSET Slot
  PROVE  /\ IsFiniteSet(B) /\ Cardinality(B) \in 0 .. REC_PER_PAGE
         /\ \A s \in Slot \ B : Cardinality(B \cup {s}) = Cardinality(B) + 1
         /\ \A s \in B : Cardinality(B \ {s}) = Cardinality(B) - 1
<1>1. IsFiniteSet(Slot) /\ Cardinality(Slot) = REC_PER_PAGE
  <2>1. IsFiniteSet(0 .. REC_PER_PAGE - 1)
        /\ Cardinality(0 .. REC_PER_PAGE - 1)
           = IF 0 > REC_PER_PAGE - 1 THEN 0 ELSE REC_PER_PAGE - 1 - 0 + 1
    BY SizeAssumption, FS_Interval
  <2>2. QED
    BY <2>1, SizeAssumption DEF Slot
<1>2. IsFiniteSet(B) /\ Cardinality(B) <= REC_PER_PAGE
  BY <1>1, FS_Subset
<1>3. Cardinality(B) \in Nat
  BY <1>2, FS_CardinalityType
<1>4. \A s \in Slot \ B : Cardinality(B \cup {s}) = Cardinality(B) + 1
  BY <1>2, FS_AddElement
<1>5. \A s \in B : Cardinality(B \ {s}) = Cardinality(B) - 1
  BY <1>2, FS_RemoveElement
<1>6. QED
  BY <1>2, <1>3, <1>4, <1>5, SizeAssumption

\* A page whose count is the number of its set bits, each of them of a record that is there.
PageOK(p) ==
  /\ p \in Page
  /\ p.record_num = Cardinality(p.bits)
  /\ \A s \in p.bits : p.rec[s] \in Client

PageOf(bits, record_num, next, rec) ==
  [bits |-> bits, record_num |-> record_num, next |-> next, rec |-> rec]

LEMMA PageIs ==
  ASSUME NEW bits \in SUBSET Slot, NEW next \in -1 .. MaxPages - 1,
         NEW rec \in [Slot -> Client \cup {None}], \A s \in bits : rec[s] \in Client
  PROVE  PageOK(PageOf(bits, Cardinality(bits), next, rec))
<1>1. Cardinality(bits) \in 0 .. REC_PER_PAGE
  BY SlotCount
<1>2. QED
  BY <1>1 DEF PageOK, PageOf, Page

LEMMA PageParts ==
  ASSUME NEW p \in Page
  PROVE  p = PageOf(p.bits, p.record_num, p.next, p.rec)
BY DEF Page, PageOf

SetAt(r, s, v)   == [r EXCEPT ![s] = v]
WithRec(p, s, v) == [p EXCEPT !.rec[s] = v]
WithBits(p, b)   == [p EXCEPT !.bits = b]
WithCount(p, n)  == [p EXCEPT !.record_num = n]

LEMMA Parts ==
  ASSUME NEW b, NEW n, NEW x, NEW r, NEW s, NEW v, NEW c, NEW m
  PROVE  /\ WithRec(PageOf(b, n, x, r), s, v) = PageOf(b, n, x, SetAt(r, s, v))
         /\ WithBits(PageOf(b, n, x, r), c) = PageOf(c, n, x, r)
         /\ WithCount(PageOf(b, n, x, r), m) = PageOf(b, m, x, r)
<1>1. WithRec(PageOf(b, n, x, r), s, v) = PageOf(b, n, x, SetAt(r, s, v))
  BY DEF WithRec, PageOf, SetAt
<1>2. WithBits(PageOf(b, n, x, r), c) = PageOf(c, n, x, r)
  BY DEF WithBits, PageOf
<1>3. WithCount(PageOf(b, n, x, r), m) = PageOf(b, m, x, r)
  BY DEF WithCount, PageOf
<1>4. QED
  BY <1>1, <1>2, <1>3

LEMMA FilledParts ==
  ASSUME NEW p \in Page, NEW s, NEW v
  PROVE  Filled(p, s, v) = PageOf(p.bits \cup {s}, p.record_num + 1, p.next, SetAt(p.rec, s, v))
<1>1. Filled(p, s, v) = WithCount(WithBits(WithRec(p, s, v), p.bits \cup {s}), p.record_num + 1)
  BY DEF Filled, WithRec, WithBits, WithCount
<1>2. PICK b, n, x, r : p = PageOf(b, n, x, r)
  BY PageParts
<1>3. p.bits = b /\ p.record_num = n /\ p.next = x /\ p.rec = r
  BY <1>2 DEF PageOf
<1>4. WithRec(p, s, v) = PageOf(b, n, x, SetAt(r, s, v))
  BY <1>2, Parts
<1>5. WithBits(WithRec(p, s, v), b \cup {s}) = PageOf(b \cup {s}, n, x, SetAt(r, s, v))
  BY <1>4, Parts
<1>6. WithCount(WithBits(WithRec(p, s, v), b \cup {s}), n + 1)
      = PageOf(b \cup {s}, n + 1, x, SetAt(r, s, v))
  BY <1>5, Parts
<1>7. QED
  BY <1>1, <1>3, <1>6

LEMMA FilledIs ==
  ASSUME NEW p, PageOK(p), NEW s \in Slot \ p.bits, NEW v \in Client
  PROVE  /\ PageOK(Filled(p, s, v))
         /\ Filled(p, s, v) = PageOf(p.bits \cup {s}, p.record_num + 1, p.next, SetAt(p.rec, s, v))
<1>1. p \in Page
  BY DEF PageOK
<1>2. Filled(p, s, v) = PageOf(p.bits \cup {s}, p.record_num + 1, p.next, SetAt(p.rec, s, v))
  BY <1>1, FilledParts
<1>3. p.record_num + 1 = Cardinality(p.bits \cup {s})
  BY <1>1, SlotCount DEF PageOK, Page
<1>4. /\ p.bits \cup {s} \in SUBSET Slot /\ p.next \in -1 .. MaxPages - 1
      /\ SetAt(p.rec, s, v) \in [Slot -> Client \cup {None}]
      /\ \A t \in p.bits \cup {s} : SetAt(p.rec, s, v)[t] \in Client
  BY <1>1 DEF PageOK, Page, SetAt
<1>5. QED
  BY <1>2, <1>3, <1>4, PageIs

Relinked(p, next) == [p EXCEPT !.next = next]

LEMMA RelinkedIs ==
  ASSUME NEW p, PageOK(p), NEW next \in -1 .. MaxPages - 1
  PROVE  /\ PageOK(Relinked(p, next))
         /\ Relinked(p, next) = PageOf(p.bits, p.record_num, next, p.rec)
<1>1. p \in Page
  BY DEF PageOK
<1>2. Relinked(p, next) = PageOf(p.bits, p.record_num, next, p.rec)
  BY <1>1 DEF Relinked, PageOf, Page
<1>3. QED
  BY <1>1, <1>2, PageIs DEF PageOK, Page

Emptied(p, s) == [p EXCEPT !.bits = @ \ {s}, !.record_num = @ - 1, !.rec[s] = None]

LEMMA EmptiedParts ==
  ASSUME NEW p \in Page, NEW s
  PROVE  Emptied(p, s) = PageOf(p.bits \ {s}, p.record_num - 1, p.next, SetAt(p.rec, s, None))
<1>1. Emptied(p, s) = WithRec(WithCount(WithBits(p, p.bits \ {s}), p.record_num - 1), s, None)
  BY DEF Emptied, WithRec, WithBits, WithCount
<1>2. PICK b, n, x, r : p = PageOf(b, n, x, r)
  BY PageParts
<1>3. p.bits = b /\ p.record_num = n /\ p.next = x /\ p.rec = r
  BY <1>2 DEF PageOf
<1>4. WithBits(p, b \ {s}) = PageOf(b \ {s}, n, x, r)
  BY <1>2, Parts
<1>5. WithCount(WithBits(p, b \ {s}), n - 1) = PageOf(b \ {s}, n - 1, x, r)
  BY <1>4, Parts
<1>6. WithRec(WithCount(WithBits(p, b \ {s}), n - 1), s, None)
      = PageOf(b \ {s}, n - 1, x, SetAt(r, s, None))
  BY <1>5, Parts
<1>7. QED
  BY <1>1, <1>3, <1>6

LEMMA EmptiedIs ==
  ASSUME NEW p, PageOK(p), NEW s \in p.bits
  PROVE  /\ PageOK(Emptied(p, s))
         /\ Emptied(p, s) = PageOf(p.bits \ {s}, p.record_num - 1, p.next, SetAt(p.rec, s, None))
<1>1. p \in Page
  BY DEF PageOK
<1>2. Emptied(p, s) = PageOf(p.bits \ {s}, p.record_num - 1, p.next, SetAt(p.rec, s, None))
  BY <1>1, EmptiedParts
<1>3. p.record_num - 1 = Cardinality(p.bits \ {s})
  BY <1>1, SlotCount DEF PageOK, Page
<1>4. /\ p.bits \ {s} \in SUBSET Slot /\ p.next \in -1 .. MaxPages - 1
      /\ SetAt(p.rec, s, None) \in [Slot -> Client \cup {None}]
      /\ \A t \in p.bits \ {s} : SetAt(p.rec, s, None)[t] \in Client
  BY <1>1 DEF PageOK, Page, SetAt
<1>5. QED
  BY <1>2, <1>3, <1>4, PageIs

Updated(p, s, v) == [p EXCEPT !.rec[s] = v]

LEMMA UpdatedIs ==
  ASSUME NEW p, PageOK(p), NEW s \in Slot, NEW v \in Client
  PROVE  /\ PageOK(Updated(p, s, v))
         /\ Updated(p, s, v) = PageOf(p.bits, p.record_num, p.next, SetAt(p.rec, s, v))
<1>1. p \in Page
  BY DEF PageOK
<1>2. Updated(p, s, v) = PageOf(p.bits, p.record_num, p.next, SetAt(p.rec, s, v))
  <2>1. PICK b, n, x, r : p = PageOf(b, n, x, r)
    BY <1>1, PageParts
  <2>2. p.bits = b /\ p.record_num = n /\ p.next = x /\ p.rec = r
    BY <2>1 DEF PageOf
  <2>3. WithRec(p, s, v) = PageOf(b, n, x, SetAt(r, s, v))
    BY <2>1, Parts
  <2>4. Updated(p, s, v) = WithRec(p, s, v)
    BY DEF Updated, WithRec
  <2>5. QED
    BY <2>2, <2>3, <2>4
<1>3. /\ p.next \in -1 .. MaxPages - 1 /\ p.bits \in SUBSET Slot
      /\ SetAt(p.rec, s, v) \in [Slot -> Client \cup {None}]
      /\ \A t \in p.bits : SetAt(p.rec, s, v)[t] \in Client
  BY <1>1 DEF PageOK, Page, SetAt
<1>4. QED
  BY <1>2, <1>3, PageIs DEF PageOK
-----------------------------------------------------------------------------
(* Statements. *)

LEMMA SetAtIs ==
  ASSUME NEW S, NEW T, NEW f \in [S -> T], NEW s \in S, NEW v \in T
  PROVE  /\ SetAt(f, s, v) \in [S -> T]
         /\ SetAt(f, s, v)[s] = v
         /\ \A t \in S : t # s => SetAt(f, s, v)[t] = f[t]
BY DEF SetAt

StmtOf(kind, at, left, pid, slot) ==
  [kind |-> kind, at |-> at, left |-> left, pid |-> pid, slot |-> slot]

WithAt(st, at)     == [st EXCEPT !.at = at]
WithLeft(st, left) == [st EXCEPT !.left = left]
WithPid(st, pid)   == [st EXCEPT !.pid = pid]
WithSlot(st, slot) == [st EXCEPT !.slot = slot]

LEMMA StmtParts ==
  ASSUME NEW st \in Statement, NEW x
  PROVE  /\ WithAt(st, x)   = StmtOf(st.kind, x, st.left, st.pid, st.slot)
         /\ WithLeft(st, x) = StmtOf(st.kind, st.at, x, st.pid, st.slot)
         /\ WithPid(st, x)  = StmtOf(st.kind, st.at, st.left, x, st.slot)
         /\ WithSlot(st, x) = StmtOf(st.kind, st.at, st.left, st.pid, x)
<1>1. WithAt(st, x) = StmtOf(st.kind, x, st.left, st.pid, st.slot)
  BY DEF WithAt, StmtOf, Statement
<1>2. WithLeft(st, x) = StmtOf(st.kind, st.at, x, st.pid, st.slot)
  BY DEF WithLeft, StmtOf, Statement
<1>3. WithPid(st, x) = StmtOf(st.kind, st.at, st.left, x, st.slot)
  BY DEF WithPid, StmtOf, Statement
<1>4. WithSlot(st, x) = StmtOf(st.kind, st.at, st.left, st.pid, x)
  BY DEF WithSlot, StmtOf, Statement
<1>5. QED
  BY <1>1, <1>2, <1>3, <1>4

To(f, c, at)             == [f EXCEPT ![c].at = at]
ToPage(f, c, at, pid)    == [f EXCEPT ![c].at = at, ![c].pid = pid]
ToSlot(f, c, at, slot)   == [f EXCEPT ![c].at = at, ![c].slot = slot]
ToNext(f, c)             == [f EXCEPT ![c].at = "page", ![c].left = @ - 1, ![c].slot = -1]

LEMMA ToIs ==
  ASSUME NEW f \in [Client -> {None} \cup Statement], NEW c \in Client, f[c] \in Statement,
         NEW at \in Insertion \cup Scan
  PROVE  To(f, c, at) = SetAt(f, c, StmtOf(f[c].kind, at, f[c].left, f[c].pid, f[c].slot))
<1>1. To(f, c, at) = SetAt(f, c, WithAt(f[c], at))
  BY DEF To, SetAt, WithAt
<1>2. QED
  BY <1>1, StmtParts

LEMMA SetTwice ==
  ASSUME NEW f, NEW s \in DOMAIN f, NEW u, NEW v
  PROVE  SetAt(f, s, u)[s] = u /\ SetAt(SetAt(f, s, u), s, v) = SetAt(f, s, v)
BY DEF SetAt

LEMMA StmtOfIs ==
  ASSUME NEW st \in Statement, NEW at \in Insertion \cup Scan,
         NEW left \in 0 .. Rows, NEW pid \in 0 .. MaxPages, NEW slot \in -1 .. REC_PER_PAGE - 1
  PROVE  StmtOf(st.kind, at, left, pid, slot) \in Statement
BY DEF StmtOf, Statement

LEMMA ToPageIs ==
  ASSUME NEW f \in [Client -> {None} \cup Statement], NEW c \in Client, f[c] \in Statement,
         NEW at \in Insertion \cup Scan, NEW pid \in 0 .. MaxPages
  PROVE  ToPage(f, c, at, pid) = SetAt(f, c, StmtOf(f[c].kind, at, f[c].left, pid, f[c].slot))
<1>1. PICK st \in Statement : st = f[c]
  OBVIOUS
<1> c \in DOMAIN f
  OBVIOUS
<1>2. PICK s1 : s1 = WithAt(st, at)
  OBVIOUS
<1>3. s1 = StmtOf(st.kind, at, st.left, st.pid, st.slot)
  BY <1>2, StmtParts
<1>4. s1 \in Statement
  BY <1>3, StmtOfIs DEF Statement
<1>5. WithPid(s1, pid) = StmtOf(st.kind, at, st.left, pid, st.slot)
  BY <1>3, <1>4, StmtParts DEF StmtOf
<1>6. PICK g : g = SetAt(f, c, s1)
  OBVIOUS
<1>7. ToPage(f, c, at, pid) = SetAt(g, c, WithPid(g[c], pid))
  BY <1>1, <1>2, <1>6 DEF ToPage, SetAt, WithAt, WithPid
<1>8. g[c] = s1 /\ SetAt(g, c, WithPid(s1, pid)) = SetAt(f, c, WithPid(s1, pid))
  BY <1>6, SetTwice
<1>9. QED
  BY <1>1, <1>5, <1>7, <1>8

LEMMA ToSlotIs ==
  ASSUME NEW f \in [Client -> {None} \cup Statement], NEW c \in Client, f[c] \in Statement,
         NEW at \in Insertion \cup Scan, NEW slot \in -1 .. REC_PER_PAGE - 1
  PROVE  ToSlot(f, c, at, slot) = SetAt(f, c, StmtOf(f[c].kind, at, f[c].left, f[c].pid, slot))
<1>1. PICK st \in Statement : st = f[c]
  OBVIOUS
<1> c \in DOMAIN f
  OBVIOUS
<1>2. PICK s1 : s1 = WithAt(st, at)
  OBVIOUS
<1>3. s1 = StmtOf(st.kind, at, st.left, st.pid, st.slot)
  BY <1>2, StmtParts
<1>4. s1 \in Statement
  BY <1>3, StmtOfIs DEF Statement
<1>5. WithSlot(s1, slot) = StmtOf(st.kind, at, st.left, st.pid, slot)
  BY <1>3, <1>4, StmtParts DEF StmtOf
<1>6. PICK g : g = SetAt(f, c, s1)
  OBVIOUS
<1>7. ToSlot(f, c, at, slot) = SetAt(g, c, WithSlot(g[c], slot))
  BY <1>1, <1>2, <1>6 DEF ToSlot, SetAt, WithAt, WithSlot
<1>8. g[c] = s1 /\ SetAt(g, c, WithSlot(s1, slot)) = SetAt(f, c, WithSlot(s1, slot))
  BY <1>6, SetTwice
<1>9. QED
  BY <1>1, <1>5, <1>7, <1>8

LEMMA ToNextIs ==
  ASSUME NEW f \in [Client -> {None} \cup Statement], NEW c \in Client, f[c] \in Statement,
         f[c].left - 1 \in 0 .. Rows
  PROVE  ToNext(f, c) = SetAt(f, c, StmtOf(f[c].kind, "page", f[c].left - 1, f[c].pid, -1))
<1>1. PICK st \in Statement : st = f[c]
  OBVIOUS
<1> c \in DOMAIN f
  OBVIOUS
<1>2. PICK s1 : s1 = WithAt(st, "page")
  OBVIOUS
<1>3. s1 = StmtOf(st.kind, "page", st.left, st.pid, st.slot)
  BY <1>2, StmtParts DEF Insertion
<1>4. s1 \in Statement
  BY <1>3, StmtOfIs DEF Statement, Insertion
<1>5. PICK s2 : s2 = WithLeft(s1, s1.left - 1)
  OBVIOUS
<1>6. s2 = StmtOf(st.kind, "page", st.left - 1, st.pid, st.slot)
  BY <1>3, <1>4, <1>5, StmtParts DEF StmtOf
<1>7. s2 \in Statement
  BY <1>1, <1>6, StmtOfIs DEF Statement, Insertion
<1>8. WithSlot(s2, -1) = StmtOf(st.kind, "page", st.left - 1, st.pid, -1)
  BY <1>6, <1>7, StmtParts DEF StmtOf
<1>9. PICK g : g = SetAt(f, c, s1)
  OBVIOUS
<1>10. PICK h : h = SetAt(g, c, WithLeft(g[c], g[c].left - 1))
  OBVIOUS
<1>11. ToNext(f, c) = SetAt(h, c, WithSlot(h[c], -1))
  BY <1>1, <1>2, <1>9, <1>10 DEF ToNext, SetAt, WithAt, WithLeft, WithSlot
<1>12. g[c] = s1
  BY <1>9, SetTwice
<1>13. h = SetAt(f, c, s2)
  BY <1>5, <1>9, <1>10, <1>12, SetTwice
<1>14. h[c] = s2 /\ SetAt(h, c, WithSlot(s2, -1)) = SetAt(f, c, WithSlot(s2, -1))
  BY <1>13, SetTwice
<1>15. QED
  BY <1>1, <1>8, <1>11, <1>14
-----------------------------------------------------------------------------
(* The inductive invariant, in parts that name the state they speak of. *)

\* The end of the chain of free pages, or a page of the file that is linked in it.
Chained(q, n, pg) == q = INVALID_PAGE_ID \/ (q \in PageId /\ q < n /\ pg[q].next # 0)

PagesOK(n, pg) ==
  /\ pg \in [PageId -> Page]
  /\ \A p \in PageId : PageOK(pg[p]) /\ (p >= n \/ pg[p].next = 0 => pg[p].bits = {})

ChainOK(head, n, pg) ==
  Chained(head, n, pg) /\ \A p \in PageId : pg[p].next = 0 \/ Chained(pg[p].next, n, pg)

InsertOK(st, n, pg) ==
  /\ st.kind = "insert" /\ st.at \in Insertion /\ st.left # 0
  /\ st.at # "page" => st.pid \in PageId /\ st.pid < n
  /\ st.at \in {"find", "put"} => pg[st.pid].next # 0
  /\ st.at = "put" => st.slot \in Slot

ScanOK(st, n, pg) ==
  /\ st.kind # "insert" /\ st.at \in Scan /\ st.pid >= 1
  /\ st.at # "seek" => st.pid \in PageId /\ st.pid < n /\ st.slot \in Slot
  /\ st.at \in {"check apply", "apply"} => st.kind # "select"
  /\ st.at = "apply" => st.slot \in pg[st.pid].bits

StOK(st, n, pg) == st \in Statement /\ (InsertOK(st, n, pg) \/ ScanOK(st, n, pg))

StmtsOK(f, n, pg) ==
  /\ f \in [Client -> {None} \cup Statement]
  /\ \A c \in Client : f[c] # None => StOK(f[c], n, pg)

Writing(f, c) == f[c] # None /\ f[c].kind # "select"

OneWriter(f) == \A c, d \in Client : Writing(f, c) /\ Writing(f, d) => c = d

TInv ==
  /\ page_num \in 1 .. MaxPages
  /\ PagesOK(page_num, pages)
  /\ ChainOK(first_free_page, page_num, pages)
  /\ StmtsOK(stmt, page_num, pages)
  /\ OneWriter(stmt)

\* No page leaves the chain of the pages that were linked at some time.
Linked(pg, qg) == \A p \in PageId : pg[p].next # 0 => qg[p].next # 0

LEMMA ChainKept ==
  ASSUME NEW n \in Int, NEW m \in Int, n <= m, NEW pg, NEW qg, Linked(pg, qg),
         NEW q, Chained(q, n, pg)
  PROVE  Chained(q, m, qg)
BY SizeAssumption DEF Chained, Linked, PageId

LEMMA StKept ==
  ASSUME NEW n \in Int, NEW m \in Int, n <= m, NEW pg, NEW qg, Linked(pg, qg),
         NEW st, StOK(st, n, pg),
         st.kind = "select" \/ \A p \in PageId : qg[p].bits = pg[p].bits
  PROVE  StOK(st, m, qg)
<1>1. CASE InsertOK(st, n, pg)
  BY <1>1, SizeAssumption DEF StOK, InsertOK, Linked, PageId
<1>2. CASE ScanOK(st, n, pg)
  <2>1. st.at # "seek" => st.pid \in PageId /\ st.pid < m /\ st.slot \in Slot
    <3>1. ASSUME NEW p \in PageId, p < n
          PROVE  p < m
      BY <3>1, SizeAssumption DEF PageId
    <3>2. QED
      BY <1>2, <3>1 DEF ScanOK
  <2>2. st.at = "apply" => st.slot \in qg[st.pid].bits
    BY <1>2, <2>1 DEF ScanOK
  <2>3. QED
    BY <1>2, <2>1, <2>2 DEF StOK, ScanOK
<1>3. QED
  BY <1>1, <1>2 DEF StOK

LEMMA StmtsSet ==
  ASSUME NEW n, NEW m, NEW pg, NEW qg, NEW f, StmtsOK(f, n, pg), NEW c \in Client, NEW st,
         st = None \/ StOK(st, m, qg),
         \A d \in Client : d # c /\ f[d] # None => StOK(f[d], m, qg)
  PROVE  StmtsOK(SetAt(f, c, st), m, qg)
<1>1. f \in [Client -> {None} \cup Statement] /\ st \in {None} \cup Statement
  BY DEF StmtsOK, StOK
<1>2. /\ SetAt(f, c, st) \in [Client -> {None} \cup Statement]
      /\ SetAt(f, c, st)[c] = st
      /\ \A d \in Client : d # c => SetAt(f, c, st)[d] = f[d]
  BY <1>1 DEF SetAt
<1>3. ASSUME NEW d \in Client, SetAt(f, c, st)[d] # None
      PROVE  StOK(SetAt(f, c, st)[d], m, qg)
  <2>1. CASE d = c
    BY <1>2, <1>3, <2>1
  <2>2. CASE d # c
    BY <1>2, <1>3, <2>2
  <2>3. QED
    BY <2>1, <2>2
<1>4. QED
  BY <1>2, <1>3 DEF StmtsOK

\* A step of a statement that has begun leaves one writer.
LEMMA WriterKept ==
  ASSUME NEW f \in [Client -> {None} \cup Statement], OneWriter(f), NEW c \in Client,
         NEW st \in {None} \cup Statement,
         st = None \/ (f[c] # None /\ st.kind = f[c].kind)
  PROVE  OneWriter(SetAt(f, c, st))
<1>1. /\ SetAt(f, c, st)[c] = st
      /\ \A d \in Client : d # c => SetAt(f, c, st)[d] = f[d]
  BY DEF SetAt
<1>2. \A d \in Client : Writing(SetAt(f, c, st), d) => Writing(f, d)
  BY <1>1 DEF Writing
<1>3. QED
  BY <1>2 DEF OneWriter

\* A page is replaced by one of the same file.
LEMMA PagesSet ==
  ASSUME NEW n \in Int, NEW pg, PagesOK(n, pg), NEW h, ChainOK(h, n, pg),
         NEW pid \in PageId, pid < n, NEW q, PageOK(q),
         q.next # 0,
         NEW g, Chained(g, n, SetAt(pg, pid, q)),
         Chained(q.next, n, SetAt(pg, pid, q))
  PROVE  /\ PagesOK(n, SetAt(pg, pid, q))
         /\ ChainOK(g, n, SetAt(pg, pid, q))
         /\ Linked(pg, SetAt(pg, pid, q))
<1>1. PICK qg : qg = SetAt(pg, pid, q)
  OBVIOUS
<1>2. q \in Page /\ pg \in [PageId -> Page]
  BY DEF PageOK, PagesOK
<1>3. /\ qg \in [PageId -> Page] /\ qg[pid] = q
      /\ \A p \in PageId : p # pid => qg[p] = pg[p]
  BY <1>1, <1>2, SetAtIs
<1>4. Linked(pg, qg)
  BY <1>3 DEF Linked
<1>5. \A p \in PageId : ~(pid >= n) /\ PageOK(qg[p])
                         /\ (p >= n \/ qg[p].next = 0 => qg[p].bits = {})
  BY <1>3, SizeAssumption DEF PagesOK, PageId
<1>6. \A p \in PageId : qg[p].next = 0 \/ Chained(qg[p].next, n, qg)
  <2>1. TAKE p \in PageId
  <2>2. CASE p = pid
    BY <1>1, <1>3, <2>2
  <2>3. CASE p # pid
    BY <1>3, <1>4, <2>3, ChainKept DEF ChainOK
  <2>4. QED
    BY <2>2, <2>3
<1>7. QED
  BY <1>1, <1>3, <1>4, <1>5, <1>6 DEF PagesOK, ChainOK
-----------------------------------------------------------------------------
(* What the steps of a statement do, in full. *)

LEMMA Running ==
  ASSUME TInv, NEW c \in Client, NEW step, At(c, step)
  PROVE  /\ stmt[c] # None /\ stmt[c] \in Statement /\ stmt[c].at = step
         /\ StOK(stmt[c], page_num, pages)
BY DEF TInv, StmtsOK, At

\* Where the statement is after its step: the same statement, further on.
Moved(f, g, c, at, left, pid, slot) ==
  g = SetAt(f, c, StmtOf(f[c].kind, at, left, pid, slot))

LEMMA CreateMoves ==
  ASSUME TInv, NEW c \in Client, CreatePageHandle(c)
  PROVE  /\ UNCHANGED <<first_free_page, pages>>
         /\ \/ /\ first_free_page \in PageId /\ UNCHANGED page_num
               /\ Moved(stmt, stmt', c, "find", stmt[c].left, first_free_page, stmt[c].slot)
            \/ /\ page_num \in PageId /\ page_num' = page_num + 1
               /\ Moved(stmt, stmt', c, "link", stmt[c].left, page_num, stmt[c].slot)
<1>1. stmt[c] \in Statement /\ stmt \in [Client -> {None} \cup Statement]
  BY Running DEF CreatePageHandle, TInv, StmtsOK
<1>2. CASE first_free_page # INVALID_PAGE_ID
  <2>1. first_free_page \in PageId
    BY <1>2 DEF TInv, ChainOK, Chained
  <2>2. first_free_page \in 0 .. MaxPages
    BY <2>1, SizeAssumption DEF PageId
  <2>3. stmt' = ToPage(stmt, c, "find", first_free_page)
    BY <1>2 DEF CreatePageHandle, ToPage
  <2>4. Moved(stmt, stmt', c, "find", stmt[c].left, first_free_page, stmt[c].slot)
    BY <1>1, <2>2, <2>3, ToPageIs DEF Moved, Insertion
  <2>5. QED
    BY <1>2, <2>1, <2>4 DEF CreatePageHandle
<1>3. CASE first_free_page = INVALID_PAGE_ID
  <2>1. page_num \in PageId /\ page_num \in 0 .. MaxPages /\ page_num' = page_num + 1
    BY <1>3, SizeAssumption DEF CreatePageHandle, PageId, TInv
  <2>2. stmt' = ToPage(stmt, c, "link", page_num)
    BY <1>3 DEF CreatePageHandle, ToPage
  <2>3. Moved(stmt, stmt', c, "link", stmt[c].left, page_num, stmt[c].slot)
    BY <1>1, <2>1, <2>2, ToPageIs DEF Moved, Insertion
  <2>4. QED
    BY <2>1, <2>3 DEF CreatePageHandle
<1>4. QED
  BY <1>2, <1>3

LEMMA LinkMoves ==
  ASSUME TInv, NEW c \in Client, LinkNewPage(c)
  PROVE  /\ first_free_page' = stmt[c].pid /\ UNCHANGED page_num
         /\ pages' = SetAt(pages, stmt[c].pid, Relinked(pages[stmt[c].pid], first_free_page))
         /\ Moved(stmt, stmt', c, "find", stmt[c].left, stmt[c].pid, stmt[c].slot)
<1>1. stmt[c] \in Statement /\ stmt \in [Client -> {None} \cup Statement]
  BY Running DEF LinkNewPage, TInv, StmtsOK
<1>2. stmt' = To(stmt, c, "find")
  BY DEF LinkNewPage, To
<1>3. Moved(stmt, stmt', c, "find", stmt[c].left, stmt[c].pid, stmt[c].slot)
  BY <1>1, <1>2, ToIs DEF Moved, Insertion
<1>4. pages' = SetAt(pages, stmt[c].pid, Relinked(pages[stmt[c].pid], first_free_page))
  BY DEF LinkNewPage, SetAt, Relinked
<1>5. QED
  BY <1>3, <1>4 DEF LinkNewPage

LEMMA FindMoves ==
  ASSUME TInv, NEW c \in Client, FindSlot(c)
  PROVE  /\ UNCHANGED <<page_num, first_free_page, pages>>
         /\ \/ stmt' = SetAt(stmt, c, None)
            \/ \E s \in Slot : /\ s \notin pages[stmt[c].pid].bits
                               /\ Moved(stmt, stmt', c, "put", stmt[c].left, stmt[c].pid, s)
<1>1. stmt[c] \in Statement /\ stmt \in [Client -> {None} \cup Statement]
  BY Running DEF FindSlot, TInv, StmtsOK
<1> DEFINE p == pages[stmt[c].pid]
<1>2. CASE FreeSlots(p) = {}
  BY <1>2 DEF FindSlot, Ended, SetAt
<1>3. CASE FreeSlots(p) # {}
  <2>1. FreeSlots(p) \in SUBSET Nat
    BY SlotNat DEF FreeSlots
  <2>2. FindFree(p) \in FreeSlots(p)
    BY <1>3, <2>1, MinIn DEF FindFree
  <2>3. FindFree(p) \in Slot /\ FindFree(p) \notin p.bits
    BY <2>2 DEF FreeSlots
  <2>4. FindFree(p) \in -1 .. REC_PER_PAGE - 1
    BY <2>3, SizeAssumption DEF Slot
  <2>5. stmt' = ToSlot(stmt, c, "put", FindFree(p))
    BY <1>3 DEF FindSlot, ToSlot
  <2>6. Moved(stmt, stmt', c, "put", stmt[c].left, stmt[c].pid, FindFree(p))
    BY <1>1, <2>4, <2>5, ToSlotIs DEF Moved, Insertion
  <2>7. QED
    BY <2>3, <2>6 DEF FindSlot
<1>4. QED
  BY <1>2, <1>3

LEMMA PutIs ==
  ASSUME TInv, NEW pid \in PageId, NEW s \in Slot \ pages[pid].bits, NEW v \in Client,
         PutRecord(pid, s, v)
  PROVE  \E q : /\ PageOK(q) /\ pages' = SetAt(pages, pid, q)
                /\ q.bits = pages[pid].bits \cup {s} /\ q.rec = SetAt(pages[pid].rec, s, v)
                /\ \/ q.next = INVALID_PAGE_ID /\ first_free_page' = pages[pid].next
                   \/ q.next = pages[pid].next /\ UNCHANGED first_free_page
<1>1. PICK p : p = Filled(pages[pid], s, v)
  OBVIOUS
<1>2. PageOK(pages[pid])
  BY DEF TInv, PagesOK
<1>3. /\ PageOK(p)
      /\ p = PageOf(pages[pid].bits \cup {s}, pages[pid].record_num + 1, pages[pid].next,
                    SetAt(pages[pid].rec, s, v))
  BY <1>1, <1>2, FilledIs
<1>4. /\ p.bits = pages[pid].bits \cup {s} /\ p.rec = SetAt(pages[pid].rec, s, v)
      /\ p.next = pages[pid].next
  BY <1>3 DEF PageOf
<1>5. CASE Full(p)
  <2>1. first_free_page' = p.next /\ pages' = SetAt(pages, pid, Relinked(p, INVALID_PAGE_ID))
    BY <1>1, <1>5 DEF PutRecord, SetAt, Relinked
  <2>2. INVALID_PAGE_ID \in -1 .. MaxPages - 1
    BY SizeAssumption DEF INVALID_PAGE_ID
  <2>3. PICK q : q = Relinked(p, INVALID_PAGE_ID)
    OBVIOUS
  <2>4. PageOK(q) /\ q = PageOf(p.bits, p.record_num, INVALID_PAGE_ID, p.rec)
    BY <1>3, <2>2, <2>3, RelinkedIs
  <2>5. q.bits = p.bits /\ q.rec = p.rec /\ q.next = INVALID_PAGE_ID
    BY <2>4 DEF PageOf
  <2>6. QED
    BY <1>4, <2>1, <2>3, <2>4, <2>5
<1>6. CASE ~Full(p)
  <2>1. UNCHANGED first_free_page /\ pages' = SetAt(pages, pid, p)
    BY <1>1, <1>6 DEF PutRecord, SetAt
  <2>2. QED
    BY <1>3, <1>4, <2>1
<1>7. QED
  BY <1>5, <1>6

LEMMA DeleteIs ==
  ASSUME TInv, NEW pid \in PageId, NEW s \in pages[pid].bits, DeleteRecord(pid, s)
  PROVE  \E q : /\ PageOK(q) /\ pages' = SetAt(pages, pid, q)
                /\ q.bits = pages[pid].bits \ {s} /\ q.rec = SetAt(pages[pid].rec, s, None)
                /\ \/ q.next = first_free_page /\ first_free_page' = pid
                   \/ q.next = pages[pid].next /\ UNCHANGED first_free_page
<1>1. PICK p : p = Emptied(pages[pid], s)
  OBVIOUS
<1>2. PageOK(pages[pid])
  BY DEF TInv, PagesOK
<1>3. /\ PageOK(p)
      /\ p = PageOf(pages[pid].bits \ {s}, pages[pid].record_num - 1, pages[pid].next,
                    SetAt(pages[pid].rec, s, None))
  BY <1>1, <1>2, EmptiedIs
<1>4. /\ p.bits = pages[pid].bits \ {s} /\ p.rec = SetAt(pages[pid].rec, s, None)
      /\ p.next = pages[pid].next
  BY <1>3 DEF PageOf
<1>5. /\ Full(p) => pages' = SetAt(pages, pid, p) /\ UNCHANGED first_free_page
      /\ ~Full(p) => pages' = SetAt(pages, pid, Relinked(p, first_free_page))
                     /\ first_free_page' = pid
  BY <1>1 DEF DeleteRecord, SetAt, Relinked, Emptied
<1>6. CASE Full(p)
  BY <1>3, <1>4, <1>5, <1>6
<1>7. CASE ~Full(p)
  <2>1. first_free_page \in -1 .. MaxPages - 1
    BY SizeAssumption DEF TInv, ChainOK, Chained, PageId, INVALID_PAGE_ID
  <2>2. PICK q : q = Relinked(p, first_free_page)
    OBVIOUS
  <2>3. PageOK(q) /\ q = PageOf(p.bits, p.record_num, first_free_page, p.rec)
    BY <1>3, <2>1, <2>2, RelinkedIs
  <2>4. q.bits = p.bits /\ q.rec = p.rec /\ q.next = first_free_page
    BY <2>3 DEF PageOf
  <2>5. QED
    BY <1>4, <1>5, <1>7, <2>2, <2>3, <2>4
<1>8. QED
  BY <1>6, <1>7

LEMMA UpdateIs ==
  ASSUME TInv, NEW pid \in PageId, NEW s \in Slot, NEW v \in Client, UpdateRecord(pid, s, v)
  PROVE  \E q : /\ PageOK(q) /\ pages' = SetAt(pages, pid, q)
                /\ q.bits = pages[pid].bits /\ q.rec = SetAt(pages[pid].rec, s, v)
                /\ q.next = pages[pid].next /\ UNCHANGED first_free_page
<1>1. PICK q : q = Updated(pages[pid], s, v)
  OBVIOUS
<1>2. PageOK(pages[pid])
  BY DEF TInv, PagesOK
<1>3. /\ PageOK(q)
      /\ q = PageOf(pages[pid].bits, pages[pid].record_num, pages[pid].next,
                    SetAt(pages[pid].rec, s, v))
  BY <1>1, <1>2, UpdatedIs
<1>4. q.bits = pages[pid].bits /\ q.rec = SetAt(pages[pid].rec, s, v) /\ q.next = pages[pid].next
  BY <1>3 DEF PageOf
<1>5. pages' = SetAt(pages, pid, q) /\ UNCHANGED first_free_page
  BY <1>1 DEF UpdateRecord, SetAt, Updated
<1>6. QED
  BY <1>3, <1>4, <1>5

LEMMA InsertMoves ==
  ASSUME TInv, NEW c \in Client, InsertRecord(c)
  PROVE  /\ UNCHANGED page_num
         /\ \/ stmt' = SetAt(stmt, c, None) /\ UNCHANGED <<first_free_page, pages>>
            \/ /\ stmt[c].slot \in Slot \ pages[stmt[c].pid].bits
               /\ PutRecord(stmt[c].pid, stmt[c].slot, c)
               /\ \/ stmt' = SetAt(stmt, c, None)
                  \/ /\ stmt[c].left - 1 \in 1 .. Rows
                     /\ Moved(stmt, stmt', c, "page", stmt[c].left - 1, stmt[c].pid, -1)
<1>1. /\ stmt[c] \in Statement /\ stmt \in [Client -> {None} \cup Statement]
      /\ StOK(stmt[c], page_num, pages) /\ stmt[c].at = "put"
  BY Running DEF InsertRecord, TInv, StmtsOK
<1>2. InsertOK(stmt[c], page_num, pages)
  BY <1>1 DEF StOK, ScanOK, Scan
<1>3. stmt[c].slot \in Slot /\ stmt[c].left # 0 /\ stmt[c].left \in 0 .. Rows
  BY <1>1, <1>2 DEF InsertOK, Statement
<1>4. CASE stmt[c].slot \in pages[stmt[c].pid].bits
  BY <1>4 DEF InsertRecord, Ended, SetAt
<1>5. CASE stmt[c].slot \notin pages[stmt[c].pid].bits /\ stmt[c].left = 1
  BY <1>3, <1>5 DEF InsertRecord, Ended, SetAt
<1>6. CASE stmt[c].slot \notin pages[stmt[c].pid].bits /\ stmt[c].left # 1
  <2>1. stmt[c].left - 1 \in 1 .. Rows /\ stmt[c].left - 1 \in 0 .. Rows
    BY <1>3, <1>6, SizeAssumption
  <2>2. stmt' = ToNext(stmt, c)
    BY <1>6 DEF InsertRecord, ToNext
  <2>3. Moved(stmt, stmt', c, "page", stmt[c].left - 1, stmt[c].pid, -1)
    BY <1>1, <2>1, <2>2, ToNextIs DEF Moved
  <2>4. QED
    BY <1>3, <1>6, <2>1, <2>3 DEF InsertRecord
<1>7. QED
  BY <1>4, <1>5, <1>6

LEMMA BeginIs ==
  ASSUME Writers = 1, NEW c \in Client, NEW kind, MayBegin(c, kind)
  PROVE  /\ stmt[c] = None /\ kind \in Statements
         /\ kind # "select" => \A d \in Client : ~Writing(stmt, d)
<1> DEFINE W == {d \in Client : stmt[d] # None /\ stmt[d].kind # "select"}
<1>1. IsFiniteSet(W)
  BY ClientAssumption, FS_Subset
<1>2. ASSUME kind # "select"
      PROVE  \A d \in Client : ~Writing(stmt, d)
  <2>1. Cardinality(W) < 1
    BY <1>2 DEF MayBegin
  <2>2. Cardinality(W) \in Nat
    BY <1>1, FS_CardinalityType
  <2>3. Cardinality(W) = 0
    BY <2>1, <2>2
  <2>4. W = {}
    BY <1>1, <2>3, FS_EmptySet
  <2>5. QED
    BY <2>4 DEF Writing
<1>3. QED
  BY <1>2 DEF MayBegin

LEMMA SeekMoves ==
  ASSUME TInv, NEW c \in Client, Seek(c)
  PROVE  /\ UNCHANGED <<page_num, first_free_page, pages>>
         /\ \/ stmt' = SetAt(stmt, c, None)
            \/ /\ stmt[c].pid < page_num /\ SlotsAhead(stmt[c]) = {}
               /\ Moved(stmt, stmt', c, "seek", stmt[c].left, stmt[c].pid + 1, -1)
            \/ \E s \in SlotsAhead(stmt[c]) :
                 /\ stmt[c].pid < page_num /\ \A t \in SlotsAhead(stmt[c]) : s <= t
                 /\ Moved(stmt, stmt', c, "check read", stmt[c].left, stmt[c].pid, s)
<1>1. stmt[c] \in Statement /\ stmt[c].at = "seek" /\ StOK(stmt[c], page_num, pages)
  BY Running DEF Seek
<1>2. PICK st \in Statement : st = stmt[c]
  BY <1>1
<1>3. st.pid \in PageId \/ st.pid >= page_num
  BY <1>1, <1>2, SizeAssumption DEF StOK, InsertOK, ScanOK, Insertion, Statement, PageId, TInv
<1>4. CASE st.pid >= page_num
  BY <1>2, <1>4 DEF Seek, Ended, SetAt
<1>5. CASE ~(st.pid >= page_num)
  <2>1. st.pid < page_num /\ st.pid \in PageId /\ st.pid + 1 \in 0 .. MaxPages
    BY <1>2, <1>3, <1>5, SizeAssumption DEF TInv, Statement, PageId
  <2>2. stmt' = SetAt(stmt, c, IF SlotsAhead(st) = {} THEN NextPage(st)
                               ELSE [st EXCEPT !.at = "check read", !.slot = Min(SlotsAhead(st))])
    BY <1>2, <1>5 DEF Seek, SetAt
  <2>3. SlotsAhead(st) \in SUBSET Slot
    BY <2>1 DEF SlotsAhead, TInv, PagesOK, PageOK, Page
  <2>4. CASE SlotsAhead(st) = {}
    <3>1. NextPage(st) = WithSlot(WithPid(st, st.pid + 1), -1)
      BY DEF NextPage, WithSlot, WithPid
    <3>2. PICK s1 : s1 = WithPid(st, st.pid + 1)
      OBVIOUS
    <3>3. s1 = StmtOf(st.kind, st.at, st.left, st.pid + 1, st.slot)
      BY <3>2, StmtParts
    <3>4. s1 \in Statement
      BY <2>1, <3>3, StmtOfIs DEF Statement
    <3>5. WithSlot(s1, -1) = StmtOf(st.kind, st.at, st.left, st.pid + 1, -1)
      BY <3>3, <3>4, StmtParts DEF StmtOf
    <3>6. QED
      BY <1>1, <1>2, <2>1, <2>2, <2>4, <3>1, <3>2, <3>5 DEF Seek, Moved
  <2>5. CASE SlotsAhead(st) # {}
    <3>1. PICK s : s = Min(SlotsAhead(st))
      OBVIOUS
    <3>2. s \in SlotsAhead(st) /\ \A t \in SlotsAhead(st) : s <= t
      BY <2>3, <2>5, <3>1, MinIn, SlotNat
    <3>3. [st EXCEPT !.at = "check read", !.slot = s] = WithSlot(WithAt(st, "check read"), s)
      BY DEF WithSlot, WithAt
    <3>4. PICK s1 : s1 = WithAt(st, "check read")
      OBVIOUS
    <3>5. s1 = StmtOf(st.kind, "check read", st.left, st.pid, st.slot)
      BY <3>4, StmtParts
    <3>6. s1 \in Statement
      BY <3>5, StmtOfIs DEF Statement, Scan
    <3>7. WithSlot(s1, s) = StmtOf(st.kind, "check read", st.left, st.pid, s)
      BY <3>5, <3>6, StmtParts DEF StmtOf
    <3>8. stmt' = SetAt(stmt, c, WithSlot(s1, s))
      BY <2>2, <2>5, <3>1, <3>3, <3>4
    <3>9. QED
      BY <1>2, <2>1, <3>2, <3>7, <3>8 DEF Seek, Moved
  <2>6. QED
    BY <2>4, <2>5
<1>6. QED
  BY <1>4, <1>5

\* The steps of a scan that only go on with the row: its page and slot stay.
Goes(c, at) ==
  Moved(stmt, stmt', c, at, stmt[c].left, stmt[c].pid, stmt[c].slot)

LEMMA GoesIs ==
  ASSUME TInv, NEW c \in Client, stmt[c] \in Statement, NEW at \in Insertion \cup Scan,
         stmt' = [stmt EXCEPT ![c].at = at]
  PROVE  Goes(c, at)
<1>1. stmt' = To(stmt, c, at)
  BY DEF To
<1>2. QED
  BY <1>1, ToIs DEF TInv, StmtsOK, Goes, Moved

LEMMA CheckMoves ==
  ASSUME TInv, NEW c \in Client, Check(c)
  PROVE  /\ UNCHANGED <<page_num, first_free_page, pages>>
         /\ \/ stmt' = SetAt(stmt, c, None)
            \/ /\ stmt[c].slot \in pages[stmt[c].pid].bits
               /\ \/ At(c, "check read") /\ Goes(c, "read")
                  \/ At(c, "check apply") /\ Goes(c, "apply")
<1>1. stmt[c] \in Statement
  BY Running DEF Check
<1>2. {"read", "apply"} \subseteq Insertion \cup Scan
  BY DEF Scan
<1>3. CASE stmt[c].slot \notin pages[stmt[c].pid].bits
  BY <1>3 DEF Check, Ended, SetAt
<1>4. CASE stmt[c].slot \in pages[stmt[c].pid].bits
  <2>1. \/ At(c, "check read") /\ stmt' = [stmt EXCEPT ![c].at = "read"]
        \/ At(c, "check apply") /\ stmt' = [stmt EXCEPT ![c].at = "apply"]
    BY <1>4 DEF Check
  <2>2. QED
    BY <1>1, <1>2, <1>4, <2>1, GoesIs DEF Check
<1>5. QED
  BY <1>3, <1>4

LEMMA ReadMoves ==
  ASSUME TInv, NEW c \in Client, ReadSlot(c)
  PROVE  /\ UNCHANGED <<page_num, first_free_page, pages>>
         /\ \/ stmt' = SetAt(stmt, c, None)
            \/ Goes(c, "seek")
            \/ stmt[c].kind # "select" /\ Goes(c, "check apply")
<1>1. stmt[c] \in Statement
  BY Running DEF ReadSlot
<1>2. {"seek", "check apply"} \subseteq Insertion \cup Scan
  BY DEF Scan
<1>3. CASE stmt[c].slot \notin pages[stmt[c].pid].bits
  BY <1>3 DEF ReadSlot, Ended, SetAt
<1>4. CASE stmt[c].slot \in pages[stmt[c].pid].bits
  <2>1. PICK step \in {"seek", "check apply"} :
          /\ stmt[c].kind = "select" => step = "seek"
          /\ stmt' = [stmt EXCEPT ![c].at = step]
    BY <1>4 DEF ReadSlot
  <2>2. Goes(c, step)
    BY <1>1, <1>2, <2>1, GoesIs
  <2>3. QED
    BY <2>1, <2>2 DEF ReadSlot
<1>5. QED
  BY <1>3, <1>4

LEMMA ApplyMoves ==
  ASSUME TInv, NEW c \in Client, Apply(c)
  PROVE  /\ UNCHANGED page_num
         /\ \/ stmt' = SetAt(stmt, c, None) /\ UNCHANGED <<first_free_page, pages>>
            \/ /\ Goes(c, "seek")
               /\ \/ DeleteRecord(stmt[c].pid, stmt[c].slot)
                  \/ UpdateRecord(stmt[c].pid, stmt[c].slot, c)
<1>1. stmt[c] \in Statement
  BY Running DEF Apply
<1>2. "seek" \in Insertion \cup Scan
  BY DEF Scan
<1>3. CASE stmt[c].kind = "update" /\ stmt[c].slot \notin pages[stmt[c].pid].bits
  BY <1>3 DEF Apply, Ended, SetAt
<1>4. CASE ~(stmt[c].kind = "update" /\ stmt[c].slot \notin pages[stmt[c].pid].bits)
  <2>1. stmt' = [stmt EXCEPT ![c].at = "seek"]
    BY <1>4 DEF Apply
  <2>2. Goes(c, "seek")
    BY <1>1, <1>2, <2>1, GoesIs
  <2>3. QED
    BY <1>4, <2>2 DEF Apply
<1>5. QED
  BY <1>3, <1>4
-----------------------------------------------------------------------------
(* The invariant holds initially, and every step keeps it. *)

LEMMA TInit == Init => TInv
<1> SUFFICES ASSUME Init PROVE TInv
  OBVIOUS
<1>1. page_num = 1 /\ page_num \in 1 .. MaxPages
  BY SizeAssumption DEF Init, FILE_HEADER_PAGE_ID
<1>2. \A p \in PageId : pages[p] = EmptyPage
  BY DEF Init
<1>3. EmptyPage = PageOf({}, Cardinality({}), 0, [s \in Slot |-> None])
  BY FS_EmptySet DEF EmptyPage, PageOf
<1>4. 0 \in -1 .. MaxPages - 1
  BY SizeAssumption
<1>5. PageOK(EmptyPage)
  <2>1. [s \in Slot |-> None] \in [Slot -> Client \cup {None}]
    OBVIOUS
  <2>2. PICK r \in [Slot -> Client \cup {None}] : r = [s \in Slot |-> None]
    BY <2>1
  <2>3. PageOK(PageOf({}, Cardinality({}), 0, r))
    BY <1>4, PageIs
  <2>4. QED
    BY <1>3, <2>2, <2>3
<1>6. EmptyPage.bits = {} /\ EmptyPage.next = 0
  BY DEF EmptyPage
<1>7. PagesOK(page_num, pages)
  <2>1. EmptyPage \in Page
    BY <1>5 DEF PageOK
  <2>2. pages \in [PageId -> Page]
    BY <2>1 DEF Init
  <2>3. QED
    BY <1>2, <1>5, <1>6, <2>2 DEF PagesOK
<1>8. ChainOK(first_free_page, page_num, pages)
  BY <1>2, <1>6 DEF Init, ChainOK, Chained
<1>9. StmtsOK(stmt, page_num, pages) /\ OneWriter(stmt)
  BY DEF Init, StmtsOK, OneWriter, Writing
<1>10. QED
  BY <1>1, <1>7, <1>8, <1>9 DEF TInv

LEMMA StepKeeps ==
  ASSUME TInv, NEW c \in Client, NEW st, stmt' = SetAt(stmt, c, st),
         page_num' \in 1 .. MaxPages, page_num <= page_num',
         PagesOK(page_num', pages'), ChainOK(first_free_page', page_num', pages'),
         Linked(pages, pages'),
         Writing(stmt, c) \/ \A p \in PageId : pages'[p].bits = pages[p].bits,
         st = None \/ StOK(st, page_num', pages'),
         OneWriter(SetAt(stmt, c, st))
  PROVE  TInv'
<1>1. /\ StmtsOK(stmt, page_num, pages) /\ OneWriter(stmt)
      /\ page_num \in Int /\ page_num' \in Int
  BY DEF TInv
<1>2. ASSUME NEW d \in Client, d # c, stmt[d] # None
      PROVE  StOK(stmt[d], page_num', pages')
  <2>1. StOK(stmt[d], page_num, pages)
    BY <1>1, <1>2 DEF StmtsOK
  <2>2. stmt[d].kind = "select" \/ \A p \in PageId : pages'[p].bits = pages[p].bits
    BY <1>1, <1>2 DEF OneWriter, Writing
  <2>3. QED
    BY <1>1, <2>1, <2>2, StKept
<1>3. StmtsOK(stmt', page_num', pages')
  BY <1>1, <1>2, StmtsSet
<1>4. QED
  BY <1>3 DEF TInv

\* A step that leaves the pages alone.
LEMMA QuietKeeps ==
  ASSUME TInv, NEW c \in Client, NEW st, stmt' = SetAt(stmt, c, st),
         page_num' \in 1 .. MaxPages, page_num <= page_num', UNCHANGED <<first_free_page, pages>>,
         st = None \/ StOK(st, page_num', pages),
         OneWriter(SetAt(stmt, c, st))
  PROVE  TInv'
<1>1. page_num \in Int /\ page_num' \in Int /\ Linked(pages, pages)
  BY DEF TInv, Linked
<1>2. PagesOK(page_num', pages)
  BY <1>1, SizeAssumption DEF TInv, PagesOK, PageId
<1>3. ChainOK(first_free_page, page_num', pages)
  BY <1>1, ChainKept DEF TInv, ChainOK
<1>4. QED
  BY <1>1, <1>2, <1>3, StepKeeps

\* A step of a statement that has begun, and goes on or ends.
LEMMA SameWriter ==
  ASSUME TInv, NEW c \in Client, stmt[c] # None, NEW st,
         st = None \/ (st \in Statement /\ st.kind = stmt[c].kind)
  PROVE  OneWriter(SetAt(stmt, c, st))
BY WriterKept DEF TInv, StmtsOK

\* A client that begins is the only writer, if it writes.
LEMMA FirstWriter ==
  ASSUME TInv, NEW c \in Client, NEW st \in Statement,
         st.kind # "select" => \A d \in Client : ~Writing(stmt, d)
  PROVE  OneWriter(SetAt(stmt, c, st))
<1>1. stmt \in [Client -> {None} \cup Statement]
  BY DEF TInv, StmtsOK
<1>2. /\ SetAt(stmt, c, st)[c] = st
      /\ \A d \in Client : d # c => SetAt(stmt, c, st)[d] = stmt[d]
  BY <1>1 DEF SetAt
<1>3. \A d \in Client : Writing(SetAt(stmt, c, st), d) =>
        IF d = c THEN st.kind # "select" ELSE Writing(stmt, d)
  BY <1>2 DEF Writing
<1>4. QED
  BY <1>3 DEF TInv, OneWriter

LEMMA BeginKeeps ==
  ASSUME TInv, Writers = 1, NEW c \in Client, NEW kind, MayBegin(c, kind), NEW st \in Statement,
         stmt' = SetAt(stmt, c, st), st.kind = kind, StOK(st, page_num, pages),
         UNCHANGED <<page_num, first_free_page, pages>>
  PROVE  TInv'
<1>1. kind # "select" => \A d \in Client : ~Writing(stmt, d)
  BY BeginIs
<1>2. OneWriter(SetAt(stmt, c, st))
  BY <1>1, FirstWriter
<1>3. page_num' \in 1 .. MaxPages /\ page_num <= page_num'
  BY DEF TInv
<1>4. QED
  BY <1>2, <1>3, QuietKeeps

LEMMA BeginInsertIs ==
  ASSUME NEW c \in Client, BeginInsert(c)
  PROVE  /\ MayBegin(c, "insert") /\ UNCHANGED <<page_num, first_free_page, pages>>
         /\ StmtOf("insert", "page", Rows, 0, -1) \in Statement
         /\ stmt' = SetAt(stmt, c, StmtOf("insert", "page", Rows, 0, -1))
<1>1. /\ 0 \in 0 .. MaxPages /\ -1 \in -1 .. REC_PER_PAGE - 1 /\ Rows \in 0 .. Rows
      /\ "page" \in Insertion \cup Scan
  BY SizeAssumption DEF Insertion
<1>2. "insert" \in Statements
  BY DEF BeginInsert, MayBegin
<1>3. StmtOf("insert", "page", Rows, 0, -1) \in Statement
  BY <1>1, <1>2 DEF Statement, StmtOf
<1>4. QED
  BY <1>3 DEF BeginInsert, StmtOf, SetAt, FILE_HEADER_PAGE_ID

LEMMA BeginScanIs ==
  ASSUME NEW c \in Client, NEW kind \in {"select", "update", "delete"}, BeginScan(c, kind)
  PROVE  /\ MayBegin(c, kind) /\ UNCHANGED <<page_num, first_free_page, pages>>
         /\ StmtOf(kind, "seek", 0, 1, -1) \in Statement
         /\ stmt' = SetAt(stmt, c, StmtOf(kind, "seek", 0, 1, -1))
<1>1. /\ 1 \in 0 .. MaxPages /\ -1 \in -1 .. REC_PER_PAGE - 1 /\ 0 \in 0 .. Rows
      /\ "seek" \in Insertion \cup Scan
  BY SizeAssumption DEF Scan
<1>2. kind \in Statements
  BY DEF BeginScan, MayBegin
<1>3. StmtOf(kind, "seek", 0, 1, -1) \in Statement
  BY <1>1, <1>2 DEF Statement, StmtOf
<1>4. FILE_HEADER_PAGE_ID + 1 = 1
  BY DEF FILE_HEADER_PAGE_ID
<1>5. QED
  BY <1>3, <1>4 DEF BeginScan, StmtOf, SetAt

LEMMA StatementHas ==
  ASSUME NEW st \in Statement
  PROVE  /\ st.kind \in Statements /\ st.at \in Insertion \cup Scan
         /\ st.left \in 0 .. Rows /\ st.pid \in 0 .. MaxPages /\ st.slot \in -1 .. REC_PER_PAGE - 1
BY DEF Statement

LEMMA InsertHas ==
  ASSUME NEW n, NEW pg, NEW st, StOK(st, n, pg), st.at \in Insertion
  PROVE  InsertOK(st, n, pg) /\ st.left \in 1 .. Rows /\ st.slot \in -1 .. REC_PER_PAGE - 1
<1>1. InsertOK(st, n, pg)
  BY DEF StOK, ScanOK, Insertion, Scan
<1>2. st.left \in 0 .. Rows /\ st.slot \in -1 .. REC_PER_PAGE - 1
  BY StatementHas DEF StOK
<1>3. st.left # 0
  BY <1>1 DEF InsertOK
<1>4. st.left \in 1 .. Rows
  BY <1>2, <1>3, SizeAssumption
<1>5. QED
  BY <1>1, <1>2, <1>4

LEMMA ScanHas ==
  ASSUME NEW n, NEW pg, NEW st, StOK(st, n, pg), st.at \in Scan
  PROVE  ScanOK(st, n, pg) /\ st.pid \in 1 .. MaxPages /\ st.slot \in -1 .. REC_PER_PAGE - 1
<1>1. ScanOK(st, n, pg)
  BY DEF StOK, InsertOK, Insertion, Scan
<1>2. st.pid \in 0 .. MaxPages /\ st.slot \in -1 .. REC_PER_PAGE - 1
  BY StatementHas DEF StOK
<1>3. st.pid >= 1
  BY <1>1 DEF ScanOK
<1>4. st.pid \in 1 .. MaxPages
  BY <1>2, <1>3, SizeAssumption
<1>5. QED
  BY <1>1, <1>2, <1>4

LEMMA PageIds ==
  /\ PageId \subseteq 0 .. MaxPages /\ PageId \subseteq 1 .. MaxPages
  /\ \A p \in 1 .. MaxPages : p \in 0 .. MaxPages /\ p >= 1
BY SizeAssumption DEF PageId

\* A step of an INSERT, and of a scan, to a place where its invariant holds.
LEMMA MovedInsert ==
  ASSUME TInv, NEW c \in Client, stmt[c] # None, NEW n \in Int, NEW pg,
         NEW at \in Insertion, NEW left \in 1 .. Rows,
         NEW pid \in 0 .. MaxPages, NEW slot \in -1 .. REC_PER_PAGE - 1,
         stmt[c].at \in Insertion, Moved(stmt, stmt', c, at, left, pid, slot),
         at # "page" => pid \in PageId /\ pid < n,
         at \in {"find", "put"} => pg[pid].next # 0,
         at = "put" => slot \in Slot
  PROVE  \E st \in Statement : /\ stmt' = SetAt(stmt, c, st) /\ OneWriter(SetAt(stmt, c, st))
                               /\ StOK(st, n, pg)
<1>1. PICK st : st = StmtOf(stmt[c].kind, at, left, pid, slot)
  OBVIOUS
<1>2. stmt[c] \in Statement /\ StOK(stmt[c], page_num, pages)
  BY DEF TInv, StmtsOK
<1>3. left \in 0 .. Rows /\ left # 0
  BY SizeAssumption
<1>4. st \in Statement
  BY <1>1, <1>2, <1>3, StmtOfIs
<1>5. st.kind = stmt[c].kind /\ st.at = at /\ st.left = left /\ st.pid = pid /\ st.slot = slot
  BY <1>1 DEF StmtOf
<1>6. stmt[c].kind = "insert"
  BY <1>2 DEF StOK, InsertOK, ScanOK, Insertion, Scan
<1>7. InsertOK(st, n, pg)
  BY <1>3, <1>5, <1>6 DEF InsertOK
<1>8. OneWriter(SetAt(stmt, c, st))
  BY <1>4, <1>5, SameWriter
<1>9. QED
  BY <1>1, <1>4, <1>7, <1>8 DEF StOK, Moved

LEMMA MovedScan ==
  ASSUME TInv, NEW c \in Client, stmt[c] # None, NEW n \in Int, NEW pg,
         NEW at \in Scan, NEW pid \in 1 .. MaxPages, NEW slot \in -1 .. REC_PER_PAGE - 1,
         stmt[c].at \in Scan, Moved(stmt, stmt', c, at, stmt[c].left, pid, slot),
         at # "seek" => pid \in PageId /\ pid < n /\ slot \in Slot,
         at \in {"check apply", "apply"} => stmt[c].kind # "select",
         at = "apply" => slot \in pg[pid].bits
  PROVE  \E st \in Statement : /\ stmt' = SetAt(stmt, c, st) /\ OneWriter(SetAt(stmt, c, st))
                               /\ StOK(st, n, pg)
<1>1. PICK st : st = StmtOf(stmt[c].kind, at, stmt[c].left, pid, slot)
  OBVIOUS
<1>2. stmt[c] \in Statement /\ StOK(stmt[c], page_num, pages)
  BY DEF TInv, StmtsOK
<1>3. stmt[c].left \in 0 .. Rows /\ pid \in 0 .. MaxPages /\ pid >= 1
  <2>1. pid \in 0 .. MaxPages /\ pid >= 1
    BY PageIds
  <2>2. QED
    BY <1>2, <2>1, StatementHas
<1>4. st \in Statement
  BY <1>1, <1>2, <1>3, StmtOfIs
<1>5. st.kind = stmt[c].kind /\ st.at = at /\ st.pid = pid /\ st.slot = slot
  BY <1>1 DEF StmtOf
<1>6. stmt[c].kind # "insert"
  BY <1>2 DEF StOK, InsertOK, ScanOK, Insertion, Scan
<1>7. ScanOK(st, n, pg)
  BY <1>3, <1>5, <1>6 DEF ScanOK
<1>8. OneWriter(SetAt(stmt, c, st))
  BY <1>4, <1>5, SameWriter
<1>9. QED
  BY <1>1, <1>4, <1>7, <1>8 DEF StOK, Moved

LEMMA EndKeeps ==
  ASSUME TInv, NEW c \in Client, stmt[c] # None, stmt' = SetAt(stmt, c, None),
         UNCHANGED <<page_num, first_free_page, pages>>
  PROVE  TInv'
<1>1. page_num' \in 1 .. MaxPages /\ page_num <= page_num'
  BY DEF TInv
<1>2. QED
  BY <1>1, SameWriter, QuietKeeps

LEMMA CreateKeeps ==
  ASSUME TInv, NEW c \in Client, CreatePageHandle(c)
  PROVE  TInv'
<1>1. /\ stmt[c] # None /\ stmt[c] \in Statement /\ stmt[c].at = "page"
      /\ StOK(stmt[c], page_num, pages)
  BY Running DEF CreatePageHandle
<1>2. stmt[c].at \in Insertion /\ {"find", "link"} \subseteq Insertion
  BY <1>1 DEF Insertion
<1>3. stmt[c].left \in 1 .. Rows /\ stmt[c].slot \in -1 .. REC_PER_PAGE - 1
  BY <1>1, <1>2, InsertHas
<1>4. PageId \subseteq 0 .. MaxPages
  BY SizeAssumption DEF PageId
<1>5. CASE /\ first_free_page \in PageId /\ UNCHANGED page_num
           /\ Moved(stmt, stmt', c, "find", stmt[c].left, first_free_page, stmt[c].slot)
  <2>1. /\ first_free_page < page_num /\ pages[first_free_page].next # 0 /\ page_num \in Int
        /\ page_num' \in 1 .. MaxPages /\ page_num <= page_num'
    BY <1>5, SizeAssumption DEF TInv, ChainOK, Chained, INVALID_PAGE_ID, PageId
  <2>2. \E st \in Statement : /\ stmt' = SetAt(stmt, c, st) /\ OneWriter(SetAt(stmt, c, st))
                              /\ StOK(st, page_num, pages)
    BY <1>1, <1>2, <1>3, <1>4, <1>5, <2>1, MovedInsert
  <2>3. QED
    BY <1>5, <2>1, <2>2, CreateMoves, QuietKeeps
<1>6. CASE /\ page_num \in PageId /\ page_num' = page_num + 1
           /\ Moved(stmt, stmt', c, "link", stmt[c].left, page_num, stmt[c].slot)
  <2>1. /\ page_num < page_num + 1 /\ page_num + 1 \in 1 .. MaxPages /\ page_num + 1 \in Int
        /\ page_num <= page_num'
    BY <1>6, SizeAssumption DEF PageId, TInv
  <2>2. \E st \in Statement : /\ stmt' = SetAt(stmt, c, st) /\ OneWriter(SetAt(stmt, c, st))
                              /\ StOK(st, page_num + 1, pages)
    BY <1>1, <1>2, <1>3, <1>4, <1>6, <2>1, MovedInsert
  <2>3. QED
    BY <1>6, <2>1, <2>2, CreateMoves, QuietKeeps
<1>7. QED
  BY <1>5, <1>6, CreateMoves

LEMMA LinkKeeps ==
  ASSUME TInv, NEW c \in Client, LinkNewPage(c)
  PROVE  TInv'
<1>1. /\ stmt[c] # None /\ stmt[c] \in Statement /\ stmt[c].at = "link"
      /\ StOK(stmt[c], page_num, pages)
  BY Running DEF LinkNewPage
<1>2. stmt[c].at \in Insertion /\ "find" \in Insertion /\ page_num \in Int
  BY <1>1 DEF Insertion, TInv
<1>3. /\ stmt[c].left \in 1 .. Rows /\ stmt[c].slot \in -1 .. REC_PER_PAGE - 1
      /\ stmt[c].pid \in PageId /\ stmt[c].pid < page_num /\ stmt[c].pid \in 0 .. MaxPages
  BY <1>1, <1>2, InsertHas, PageIds DEF InsertOK
<1>4. PICK pid \in PageId : pid = stmt[c].pid /\ pid < page_num
  BY <1>3
<1>5. PICK q : q = Relinked(pages[pid], first_free_page)
  OBVIOUS
<1>6. first_free_page \in -1 .. MaxPages - 1 /\ first_free_page # 0
  BY SizeAssumption DEF TInv, ChainOK, Chained, PageId, INVALID_PAGE_ID
<1>7. PageOK(pages[pid])
  BY DEF TInv, PagesOK
<1>8. /\ PageOK(q)
      /\ q = PageOf(pages[pid].bits, pages[pid].record_num, first_free_page, pages[pid].rec)
  BY <1>5, <1>6, <1>7, RelinkedIs
<1>9. q.next = first_free_page /\ q.bits = pages[pid].bits
  BY <1>8 DEF PageOf
<1>10. PICK qg : qg = SetAt(pages, pid, q)
  OBVIOUS
<1>11. qg[pid] = q /\ \A p \in PageId : p # pid => qg[p] = pages[p]
  BY <1>10 DEF SetAt, TInv, PagesOK
<1>12. Linked(pages, qg)
  BY <1>6, <1>9, <1>11 DEF Linked
<1>13. Chained(pid, page_num, qg) /\ Chained(first_free_page, page_num, qg)
  <2>1. Chained(pid, page_num, qg)
    BY <1>4, <1>6, <1>9, <1>11 DEF Chained
  <2>2. Chained(first_free_page, page_num, pages)
    BY DEF TInv, ChainOK
  <2>3. QED
    BY <1>2, <1>12, <2>1, <2>2, ChainKept
<1>14. PagesOK(page_num, qg) /\ ChainOK(pid, page_num, qg)
  BY <1>2, <1>4, <1>6, <1>8, <1>9, <1>10, <1>13, PagesSet DEF TInv
<1>15. /\ first_free_page' = pid /\ UNCHANGED page_num /\ pages' = qg
       /\ Moved(stmt, stmt', c, "find", stmt[c].left, stmt[c].pid, stmt[c].slot)
  BY <1>4, <1>5, <1>10, LinkMoves
<1>16. \E st \in Statement : /\ stmt' = SetAt(stmt, c, st) /\ OneWriter(SetAt(stmt, c, st))
                             /\ StOK(st, page_num, qg)
  BY <1>1, <1>2, <1>3, <1>4, <1>6, <1>9, <1>11, <1>15, MovedInsert
<1>17. \A p \in PageId : qg[p].bits = pages[p].bits
  BY <1>9, <1>11
<1>18. page_num' \in 1 .. MaxPages /\ page_num <= page_num'
  BY <1>15 DEF TInv
<1>19. QED
  BY <1>12, <1>14, <1>15, <1>16, <1>17, <1>18, StepKeeps

LEMMA FindKeeps ==
  ASSUME TInv, NEW c \in Client, FindSlot(c)
  PROVE  TInv'
<1>1. /\ stmt[c] # None /\ stmt[c] \in Statement /\ stmt[c].at = "find"
      /\ StOK(stmt[c], page_num, pages)
  BY Running DEF FindSlot
<1>2. stmt[c].at \in Insertion /\ "put" \in Insertion /\ page_num \in Int
  BY <1>1 DEF Insertion, TInv
<1>3. /\ stmt[c].left \in 1 .. Rows /\ stmt[c].pid \in PageId /\ stmt[c].pid < page_num
      /\ stmt[c].pid \in 0 .. MaxPages /\ pages[stmt[c].pid].next # 0
  BY <1>1, <1>2, InsertHas, PageIds DEF InsertOK
<1>4. Slot \subseteq -1 .. REC_PER_PAGE - 1
  BY SizeAssumption DEF Slot
<1>5. UNCHANGED <<page_num, first_free_page, pages>>
  BY FindMoves
<1>6. CASE stmt' = SetAt(stmt, c, None)
  BY <1>1, <1>5, <1>6, EndKeeps
<1>7. CASE \E s \in Slot : Moved(stmt, stmt', c, "put", stmt[c].left, stmt[c].pid, s)
  <2>1. \E st \in Statement : /\ stmt' = SetAt(stmt, c, st) /\ OneWriter(SetAt(stmt, c, st))
                              /\ StOK(st, page_num, pages)
    BY <1>1, <1>2, <1>3, <1>4, <1>7, MovedInsert
  <2>2. page_num' \in 1 .. MaxPages /\ page_num <= page_num' /\ page_num' = page_num
    BY <1>5 DEF TInv
  <2>3. QED
    BY <1>5, <2>1, <2>2, QuietKeeps
<1>8. QED
  BY <1>6, <1>7, FindMoves

\* A page is replaced by one with another record, or one record less or more.
LEMMA PageKeeps ==
  ASSUME TInv, NEW pid \in PageId, pid < page_num, pages[pid].next # 0, NEW q, PageOK(q),
         pages' = SetAt(pages, pid, q), UNCHANGED page_num,
         \/ q.next = INVALID_PAGE_ID /\ first_free_page' = pages[pid].next
         \/ q.next = first_free_page /\ first_free_page' = pid
         \/ q.next = pages[pid].next /\ UNCHANGED first_free_page
  PROVE  /\ PagesOK(page_num', pages') /\ ChainOK(first_free_page', page_num', pages')
         /\ Linked(pages, pages') /\ page_num' \in 1 .. MaxPages /\ page_num <= page_num'
<1>1. PICK qg : qg = SetAt(pages, pid, q)
  OBVIOUS
<1>2. qg[pid] = q /\ \A p \in PageId : p # pid => qg[p] = pages[p]
  BY <1>1 DEF SetAt, TInv, PagesOK
<1>3. /\ Chained(first_free_page, page_num, pages) /\ Chained(pages[pid].next, page_num, pages)
      /\ Chained(INVALID_PAGE_ID, page_num, pages)
  BY DEF TInv, ChainOK, Chained
<1>4. first_free_page # 0 /\ INVALID_PAGE_ID # 0
  BY <1>3, SizeAssumption DEF Chained, INVALID_PAGE_ID, PageId
<1>5. q.next # 0
  BY <1>4
<1>6. Linked(pages, qg)
  BY <1>2, <1>5 DEF Linked
<1>7. page_num \in Int
  BY DEF TInv
<1>8. \A x : Chained(x, page_num, pages) => Chained(x, page_num, qg)
  BY <1>6, <1>7, ChainKept
<1>9. Chained(pid, page_num, qg)
  BY <1>2, <1>5 DEF Chained
<1>10. Chained(first_free_page', page_num, qg) /\ Chained(q.next, page_num, qg)
  BY <1>3, <1>8, <1>9
<1>11. PICK g : g = first_free_page'
  OBVIOUS
<1>12. PagesOK(page_num, qg) /\ ChainOK(g, page_num, qg)
  BY <1>1, <1>5, <1>7, <1>10, <1>11, PagesSet DEF TInv
<1>13. page_num' \in 1 .. MaxPages /\ page_num <= page_num'
  BY DEF TInv
<1>14. QED
  BY <1>1, <1>6, <1>11, <1>12, <1>13

LEMMA InsertKeeps ==
  ASSUME TInv, NEW c \in Client, InsertRecord(c)
  PROVE  TInv'
<1>1. /\ stmt[c] # None /\ stmt[c] \in Statement /\ stmt[c].at = "put"
      /\ StOK(stmt[c], page_num, pages)
  BY Running DEF InsertRecord
<1>2. stmt[c].at \in Insertion /\ "page" \in Insertion /\ page_num \in Int
  BY <1>1 DEF Insertion, TInv
<1>3. /\ stmt[c].pid \in PageId /\ stmt[c].pid < page_num /\ pages[stmt[c].pid].next # 0
      /\ stmt[c].pid \in 0 .. MaxPages /\ stmt[c].kind = "insert"
  BY <1>1, <1>2, InsertHas, PageIds DEF InsertOK
<1>4. CASE stmt' = SetAt(stmt, c, None) /\ UNCHANGED <<first_free_page, pages>>
  BY <1>1, <1>4, InsertMoves, EndKeeps
<1>5. CASE /\ stmt[c].slot \in Slot \ pages[stmt[c].pid].bits
           /\ PutRecord(stmt[c].pid, stmt[c].slot, c)
           /\ \/ stmt' = SetAt(stmt, c, None)
              \/ /\ stmt[c].left - 1 \in 1 .. Rows
                 /\ Moved(stmt, stmt', c, "page", stmt[c].left - 1, stmt[c].pid, -1)
  <2>1. PICK pid \in PageId, s \in Slot : pid = stmt[c].pid /\ s = stmt[c].slot
    BY <1>3, <1>5
  <2>2. PICK q : /\ PageOK(q) /\ pages' = SetAt(pages, pid, q)
                 /\ \/ q.next = INVALID_PAGE_ID /\ first_free_page' = pages[pid].next
                    \/ q.next = pages[pid].next /\ UNCHANGED first_free_page
    BY <1>5, <2>1, PutIs
  <2>3. UNCHANGED page_num
    BY InsertMoves
  <2>4. /\ PagesOK(page_num', pages') /\ ChainOK(first_free_page', page_num', pages')
        /\ Linked(pages, pages') /\ page_num' \in 1 .. MaxPages /\ page_num <= page_num'
    BY <1>3, <2>1, <2>2, <2>3, PageKeeps
  <2>5. Writing(stmt, c)
    BY <1>1, <1>3 DEF Writing
  <2>6. CASE stmt' = SetAt(stmt, c, None)
    <3>1. OneWriter(SetAt(stmt, c, None))
      BY <1>1, SameWriter
    <3>2. QED
      BY <2>4, <2>5, <2>6, <3>1, StepKeeps
  <2>7. CASE /\ stmt[c].left - 1 \in 1 .. Rows
             /\ Moved(stmt, stmt', c, "page", stmt[c].left - 1, stmt[c].pid, -1)
    <3>1. -1 \in -1 .. REC_PER_PAGE - 1
      BY SizeAssumption
    <3>2. PICK qg : qg = SetAt(pages, pid, q)
      OBVIOUS
    <3>3. \E st \in Statement : /\ stmt' = SetAt(stmt, c, st) /\ OneWriter(SetAt(stmt, c, st))
                                /\ StOK(st, page_num, qg)
      BY <1>1, <1>2, <1>3, <2>7, <3>1, MovedInsert
    <3>4. QED
      BY <2>2, <2>3, <2>4, <2>5, <3>2, <3>3, StepKeeps
  <2>8. QED
    BY <1>5, <2>6, <2>7
<1>6. QED
  BY <1>4, <1>5, InsertMoves

LEMMA ScanRunning ==
  ASSUME TInv, NEW c \in Client, NEW step \in Scan, At(c, step)
  PROVE  /\ stmt[c] # None /\ stmt[c] \in Statement /\ stmt[c].at = step
         /\ ScanOK(stmt[c], page_num, pages) /\ stmt[c].pid \in 1 .. MaxPages
         /\ stmt[c].slot \in -1 .. REC_PER_PAGE - 1 /\ page_num \in Int
<1>1. /\ stmt[c] # None /\ stmt[c] \in Statement /\ stmt[c].at = step
      /\ StOK(stmt[c], page_num, pages)
  BY Running
<1>2. QED
  BY <1>1, ScanHas DEF TInv

LEMMA MovedKeeps ==
  ASSUME TInv, NEW c \in Client, UNCHANGED <<page_num, first_free_page, pages>>,
         \E st \in Statement : /\ stmt' = SetAt(stmt, c, st) /\ OneWriter(SetAt(stmt, c, st))
                               /\ StOK(st, page_num, pages)
  PROVE  TInv'
<1>1. page_num' \in 1 .. MaxPages /\ page_num <= page_num'
  BY DEF TInv
<1>2. QED
  BY <1>1, QuietKeeps

LEMMA SeekKeeps ==
  ASSUME TInv, NEW c \in Client, Seek(c)
  PROVE  TInv'
<1>1. {"seek", "check read"} \subseteq Scan /\ At(c, "seek")
  BY DEF Scan, Seek
<1>2. /\ stmt[c] # None /\ stmt[c].at = "seek" /\ ScanOK(stmt[c], page_num, pages)
      /\ stmt[c].pid \in 1 .. MaxPages /\ page_num \in 1 .. MaxPages /\ page_num \in Int
  BY <1>1, ScanRunning DEF TInv
<1>3. -1 \in -1 .. REC_PER_PAGE - 1 /\ Slot \subseteq -1 .. REC_PER_PAGE - 1
  BY SizeAssumption DEF Slot
<1>4. UNCHANGED <<page_num, first_free_page, pages>>
  BY SeekMoves
<1>5. stmt[c].pid < page_num => stmt[c].pid + 1 \in 1 .. MaxPages /\ stmt[c].pid \in PageId
  BY <1>2, SizeAssumption DEF PageId
<1>6. CASE stmt' = SetAt(stmt, c, None)
  BY <1>2, <1>4, <1>6, EndKeeps
<1>7. CASE /\ stmt[c].pid < page_num
           /\ Moved(stmt, stmt', c, "seek", stmt[c].left, stmt[c].pid + 1, -1)
  <2>1. \E st \in Statement : /\ stmt' = SetAt(stmt, c, st) /\ OneWriter(SetAt(stmt, c, st))
                              /\ StOK(st, page_num, pages)
    BY <1>1, <1>2, <1>3, <1>5, <1>7, MovedScan
  <2>2. QED
    BY <1>4, <2>1, MovedKeeps
<1>8. CASE \E s \in SlotsAhead(stmt[c]) :
             /\ stmt[c].pid < page_num
             /\ Moved(stmt, stmt', c, "check read", stmt[c].left, stmt[c].pid, s)
  <2>1. PICK s \in SlotsAhead(stmt[c]) :
             /\ stmt[c].pid < page_num
             /\ Moved(stmt, stmt', c, "check read", stmt[c].left, stmt[c].pid, s)
    BY <1>8
  <2>2. s \in Slot
    BY <1>5, <2>1 DEF SlotsAhead, TInv, PagesOK, Page
  <2>3. \E st \in Statement : /\ stmt' = SetAt(stmt, c, st) /\ OneWriter(SetAt(stmt, c, st))
                              /\ StOK(st, page_num, pages)
    BY <1>1, <1>2, <1>3, <1>5, <2>1, <2>2, MovedScan
  <2>4. QED
    BY <1>4, <2>3, MovedKeeps
<1>9. QED
  BY <1>6, <1>7, <1>8, SeekMoves

LEMMA CheckKeeps ==
  ASSUME TInv, NEW c \in Client, Check(c)
  PROVE  TInv'
<1>1. {"check read", "read", "check apply", "apply"} \subseteq Scan
      /\ (At(c, "check read") \/ At(c, "check apply"))
  BY DEF Scan, Check
<1>2. /\ stmt[c] # None /\ ScanOK(stmt[c], page_num, pages) /\ stmt[c].at \in Scan
      /\ stmt[c].pid \in 1 .. MaxPages /\ page_num \in Int
      /\ stmt[c].slot \in -1 .. REC_PER_PAGE - 1
      /\ stmt[c].at = "check read" \/ stmt[c].at = "check apply"
  BY <1>1, ScanRunning
<1>3. stmt[c].pid \in PageId /\ stmt[c].pid < page_num /\ stmt[c].slot \in Slot
  BY <1>2 DEF ScanOK
<1>4. UNCHANGED <<page_num, first_free_page, pages>>
  BY CheckMoves
<1>5. CASE stmt' = SetAt(stmt, c, None)
  BY <1>2, <1>4, <1>5, EndKeeps
<1>6. CASE At(c, "check read") /\ Goes(c, "read")
  <2>1. \E st \in Statement : /\ stmt' = SetAt(stmt, c, st) /\ OneWriter(SetAt(stmt, c, st))
                              /\ StOK(st, page_num, pages)
    BY <1>1, <1>2, <1>3, <1>6, MovedScan DEF Goes
  <2>2. QED
    BY <1>4, <2>1, MovedKeeps
<1>7. CASE /\ At(c, "check apply") /\ Goes(c, "apply")
           /\ stmt[c].slot \in pages[stmt[c].pid].bits
  <2>1. stmt[c].kind # "select"
    BY <1>2, <1>7 DEF ScanOK, At
  <2>2. \E st \in Statement : /\ stmt' = SetAt(stmt, c, st) /\ OneWriter(SetAt(stmt, c, st))
                              /\ StOK(st, page_num, pages)
    BY <1>1, <1>2, <1>3, <1>7, <2>1, MovedScan DEF Goes
  <2>3. QED
    BY <1>4, <2>2, MovedKeeps
<1>8. QED
  BY <1>5, <1>6, <1>7, CheckMoves

LEMMA ReadKeeps ==
  ASSUME TInv, NEW c \in Client, ReadSlot(c)
  PROVE  TInv'
<1>1. {"read", "seek", "check apply"} \subseteq Scan /\ At(c, "read")
  BY DEF Scan, ReadSlot
<1>2. /\ stmt[c] # None /\ ScanOK(stmt[c], page_num, pages) /\ stmt[c].at \in Scan
      /\ stmt[c].pid \in 1 .. MaxPages /\ page_num \in Int
      /\ stmt[c].slot \in -1 .. REC_PER_PAGE - 1
      /\ stmt[c].at = "read"
  BY <1>1, ScanRunning
<1>3. stmt[c].pid \in PageId /\ stmt[c].pid < page_num /\ stmt[c].slot \in Slot
  BY <1>2 DEF ScanOK
<1>4. UNCHANGED <<page_num, first_free_page, pages>>
  BY ReadMoves
<1>5. CASE stmt' = SetAt(stmt, c, None)
  BY <1>2, <1>4, <1>5, EndKeeps
<1>6. CASE Goes(c, "seek")
  <2>1. \E st \in Statement : /\ stmt' = SetAt(stmt, c, st) /\ OneWriter(SetAt(stmt, c, st))
                              /\ StOK(st, page_num, pages)
    BY <1>1, <1>2, <1>3, <1>6, MovedScan DEF Goes
  <2>2. QED
    BY <1>4, <2>1, MovedKeeps
<1>7. CASE stmt[c].kind # "select" /\ Goes(c, "check apply")
  <2>1. \E st \in Statement : /\ stmt' = SetAt(stmt, c, st) /\ OneWriter(SetAt(stmt, c, st))
                              /\ StOK(st, page_num, pages)
    BY <1>1, <1>2, <1>3, <1>7, MovedScan DEF Goes
  <2>2. QED
    BY <1>4, <2>1, MovedKeeps
<1>8. QED
  BY <1>5, <1>6, <1>7, ReadMoves

\* A statement that applies is the writer, and the row it read is still there.
LEMMA ApplyIs ==
  ASSUME TInv, NEW c \in Client, Apply(c)
  PROVE  /\ stmt[c] # None /\ ScanOK(stmt[c], page_num, pages) /\ stmt[c].at \in Scan
         /\ stmt[c].pid \in PageId /\ stmt[c].pid < page_num /\ stmt[c].pid \in 1 .. MaxPages
         /\ stmt[c].slot \in pages[stmt[c].pid].bits /\ stmt[c].slot \in Slot
         /\ stmt[c].slot \in -1 .. REC_PER_PAGE - 1 /\ page_num \in Int
         /\ Writing(stmt, c)
<1>1. "apply" \in Scan /\ At(c, "apply")
  BY DEF Scan, Apply
<1>2. /\ stmt[c] # None /\ ScanOK(stmt[c], page_num, pages) /\ stmt[c].at \in Scan
      /\ stmt[c].pid \in 1 .. MaxPages /\ page_num \in Int
      /\ stmt[c].slot \in -1 .. REC_PER_PAGE - 1
      /\ stmt[c].at = "apply"
  BY <1>1, ScanRunning
<1>3. QED
  BY <1>2 DEF ScanOK, Writing

LEMMA ApplyPage ==
  ASSUME TInv, NEW c \in Client, Apply(c),
         \/ DeleteRecord(stmt[c].pid, stmt[c].slot)
         \/ UpdateRecord(stmt[c].pid, stmt[c].slot, c)
  PROVE  \E q : /\ PageOK(q) /\ pages' = SetAt(pages, stmt[c].pid, q)
                /\ \/ q.next = first_free_page /\ first_free_page' = stmt[c].pid
                   \/ q.next = pages[stmt[c].pid].next /\ UNCHANGED first_free_page
                /\ \/ /\ q.bits = pages[stmt[c].pid].bits \ {stmt[c].slot}
                      /\ q.rec = SetAt(pages[stmt[c].pid].rec, stmt[c].slot, None)
                   \/ /\ q.bits = pages[stmt[c].pid].bits
                      /\ q.rec = SetAt(pages[stmt[c].pid].rec, stmt[c].slot, c)
<1>1. PICK pid \in PageId, s \in Slot :
        /\ pid = stmt[c].pid /\ s = stmt[c].slot /\ s \in pages[pid].bits
  BY ApplyIs
<1>2. CASE DeleteRecord(pid, s)
  <2>1. PICK q : /\ PageOK(q) /\ pages' = SetAt(pages, pid, q)
                 /\ q.bits = pages[pid].bits \ {s} /\ q.rec = SetAt(pages[pid].rec, s, None)
                 /\ \/ q.next = first_free_page /\ first_free_page' = pid
                    \/ q.next = pages[pid].next /\ UNCHANGED first_free_page
    BY <1>1, <1>2, DeleteIs
  <2>2. QED
    BY <1>1, <2>1
<1>3. CASE UpdateRecord(pid, s, c)
  <2>1. PICK q : /\ PageOK(q) /\ pages' = SetAt(pages, pid, q)
                 /\ q.bits = pages[pid].bits /\ q.rec = SetAt(pages[pid].rec, s, c)
                 /\ q.next = pages[pid].next /\ UNCHANGED first_free_page
    BY <1>1, <1>3, UpdateIs
  <2>2. QED
    BY <1>1, <2>1
<1>4. QED
  BY <1>1, <1>2, <1>3, ApplyMoves
LEMMA ApplyKeeps ==
  ASSUME TInv, NEW c \in Client, Apply(c)
  PROVE  TInv'
<1>1. /\ stmt[c] # None /\ ScanOK(stmt[c], page_num, pages) /\ stmt[c].at \in Scan
      /\ stmt[c].pid \in PageId /\ stmt[c].pid < page_num /\ stmt[c].pid \in 1 .. MaxPages
      /\ stmt[c].slot \in pages[stmt[c].pid].bits /\ stmt[c].slot \in Slot
      /\ stmt[c].slot \in -1 .. REC_PER_PAGE - 1 /\ page_num \in Int
      /\ Writing(stmt, c) /\ "seek" \in Scan
  BY ApplyIs DEF Scan
<1>2. UNCHANGED page_num
  BY ApplyMoves
<1>3. CASE stmt' = SetAt(stmt, c, None) /\ UNCHANGED <<first_free_page, pages>>
  BY <1>1, <1>2, <1>3, EndKeeps
<1>4. CASE /\ Goes(c, "seek")
           /\ \/ DeleteRecord(stmt[c].pid, stmt[c].slot)
              \/ UpdateRecord(stmt[c].pid, stmt[c].slot, c)
  <2>1. PICK pid \in PageId : pid = stmt[c].pid
    BY <1>1
  <2>2. PICK q : /\ PageOK(q) /\ pages' = SetAt(pages, pid, q)
                 /\ \/ q.next = first_free_page /\ first_free_page' = pid
                    \/ q.next = pages[pid].next /\ UNCHANGED first_free_page
    BY <1>4, <2>1, ApplyPage
  <2>3. pages[pid].next # 0
    BY <1>1, <2>1 DEF TInv, PagesOK
  <2>4. /\ PagesOK(page_num', pages') /\ ChainOK(first_free_page', page_num', pages')
        /\ Linked(pages, pages') /\ page_num' \in 1 .. MaxPages /\ page_num <= page_num'
    BY <1>1, <1>2, <2>1, <2>2, <2>3, PageKeeps
  <2>5. PICK qg : qg = SetAt(pages, pid, q)
    OBVIOUS
  <2>6. \E st \in Statement : /\ stmt' = SetAt(stmt, c, st) /\ OneWriter(SetAt(stmt, c, st))
                              /\ StOK(st, page_num, qg)
    BY <1>1, <1>4, MovedScan DEF Goes
  <2>7. QED
    BY <1>1, <1>2, <2>2, <2>4, <2>5, <2>6, StepKeeps
<1>5. QED
  BY <1>3, <1>4, ApplyMoves

LEMMA BeginInsertKeeps ==
  ASSUME TInv, Writers = 1, NEW c \in Client, BeginInsert(c)
  PROVE  TInv'
<1>1. PICK st : st = StmtOf("insert", "page", Rows, 0, -1)
  OBVIOUS
<1>2. /\ MayBegin(c, "insert") /\ UNCHANGED <<page_num, first_free_page, pages>>
      /\ st \in Statement /\ stmt' = SetAt(stmt, c, st)
  BY <1>1, BeginInsertIs
<1>3. st.kind = "insert" /\ st.at = "page" /\ st.left = Rows
  BY <1>1 DEF StmtOf
<1>4. Rows # 0
  BY SizeAssumption
<1>5. StOK(st, page_num, pages)
  BY <1>2, <1>3, <1>4 DEF StOK, InsertOK, Insertion
<1>6. QED
  BY <1>2, <1>3, <1>5, BeginKeeps

LEMMA BeginScanKeeps ==
  ASSUME TInv, Writers = 1, NEW c \in Client, NEW kind \in {"select", "update", "delete"},
         BeginScan(c, kind)
  PROVE  TInv'
<1>1. PICK st : st = StmtOf(kind, "seek", 0, 1, -1)
  OBVIOUS
<1>2. /\ MayBegin(c, kind) /\ UNCHANGED <<page_num, first_free_page, pages>>
      /\ st \in Statement /\ stmt' = SetAt(stmt, c, st)
  BY <1>1, BeginScanIs
<1>3. st.kind = kind /\ st.at = "seek" /\ st.pid = 1
  BY <1>1 DEF StmtOf
<1>4. st.kind # "insert" /\ st.pid >= 1
  BY <1>3
<1>5. StOK(st, page_num, pages)
  BY <1>2, <1>3, <1>4 DEF StOK, ScanOK, Scan
<1>6. QED
  BY <1>2, <1>3, <1>5, BeginKeeps

LEMMA TStep == TInv /\ Writers = 1 /\ [Next]_vars => TInv'
<1> SUFFICES ASSUME TInv, Writers = 1, [Next]_vars PROVE TInv'
  OBVIOUS
<1>1. CASE UNCHANGED vars
  <2>1. /\ page_num' = page_num /\ first_free_page' = first_free_page
        /\ pages' = pages /\ stmt' = stmt
    BY <1>1 DEF vars
  <2>2. QED
    BY <2>1 DEF TInv
<1>2. ASSUME NEW c \in Client, ClientStep(c)
      PROVE  TInv'
  <2>1. CASE BeginInsert(c)
    BY <2>1, BeginInsertKeeps
  <2>2. CASE \E kind \in {"select", "update", "delete"} : BeginScan(c, kind)
    BY <2>2, BeginScanKeeps
  <2>3. CASE CreatePageHandle(c)
    BY <2>3, CreateKeeps
  <2>4. CASE LinkNewPage(c)
    BY <2>4, LinkKeeps
  <2>5. CASE FindSlot(c)
    BY <2>5, FindKeeps
  <2>6. CASE InsertRecord(c)
    BY <2>6, InsertKeeps
  <2>7. CASE Seek(c)
    BY <2>7, SeekKeeps
  <2>8. CASE Check(c)
    BY <2>8, CheckKeeps
  <2>9. CASE ReadSlot(c)
    BY <2>9, ReadKeeps
  <2>10. CASE Apply(c)
    BY <2>10, ApplyKeeps
  <2>11. QED
    BY <1>2, <2>1, <2>2, <2>3, <2>4, <2>5, <2>6, <2>7, <2>8, <2>9, <2>10 DEF ClientStep
<1>3. QED
  BY <1>1, <1>2 DEF Next

\* Whatever the number of clients, pages, slots and rows, the invariant holds while one
\* statement at a time writes.
THEOREM Invariant ==
  ASSUME Writers = 1
  PROVE  Spec => []TInv
<1>1. TInv /\ [Next]_vars => TInv'
  BY TStep
<1>2. QED
  BY <1>1, TInit, PTL DEF Spec

\* Every number the handle keeps stays in its range: no page counts more records than it
\* has slots, or less than none, and the chain of free pages never leads to a page that was
\* not linked into it (table_handle.cpp).
THEOREM TypeCorrect ==
  ASSUME Writers = 1
  PROVE  Spec => []TypeOK
<1>1. ASSUME TInv
      PROVE  TypeOK
  <2>1. page_num \in 1 .. MaxPages /\ first_free_page \in PageId \cup {INVALID_PAGE_ID}
    BY <1>1 DEF TInv, ChainOK, Chained
  <2>2. pages \in [PageId -> Page]
    BY <1>1 DEF TInv, PagesOK
  <2>3. stmt \in [Client -> {None} \cup Statement]
    BY <1>1 DEF TInv, StmtsOK
  <2>4. Insertion \cup Scan = {"page", "link", "find", "put", "seek", "check read", "read",
                               "check apply", "apply"}
    BY DEF Insertion, Scan
  <2>5. QED
    BY <2>1, <2>2, <2>3, <2>4 DEF TypeOK, Page, Statement
<1>2. QED
  BY <1>1, Invariant, PTL

\* The record count of a page, which the full-page test reads, is the number of its set bits
\* (SetRecordNum against BitMap::SetBit in InsertRecord and DeleteRecord).
THEOREM CountsCorrect ==
  ASSUME Writers = 1
  PROVE  Spec => []CountsAgree
<1>1. TInv => CountsAgree
  BY DEF TInv, PagesOK, PageOK, CountsAgree
<1>2. QED
  BY <1>1, Invariant, PTL
-----------------------------------------------------------------------------
(* A table implements RowStore. *)

RowsOf(pg) == [r \in PageId \X Slot |-> IF r[2] \in pg[r[1]].bits THEN pg[r[1]].rec[r[2]]
                                        ELSE None]

LEMMA RowSet ==
  ASSUME NEW pg \in [PageId -> Page], NEW pid \in PageId, NEW s \in Slot, NEW q \in Page,
         \A t \in Slot : t # s => /\ t \in q.bits <=> t \in pg[pid].bits
                                  /\ q.rec[t] = pg[pid].rec[t]
  PROVE  RowsOf(SetAt(pg, pid, q))
         = SetAt(RowsOf(pg), <<pid, s>>, IF s \in q.bits THEN q.rec[s] ELSE None)
<1> DEFINE v == IF s \in q.bits THEN q.rec[s] ELSE None
<1> DEFINE qg == SetAt(pg, pid, q)
<1>1. qg[pid] = q /\ \A p \in PageId : p # pid => qg[p] = pg[p]
  BY DEF SetAt
<1> HIDE DEF qg
<1>2. ASSUME NEW p \in PageId, NEW t \in Slot
      PROVE  (IF t \in qg[p].bits THEN qg[p].rec[t] ELSE None)
             = IF <<p, t>> = <<pid, s>> THEN v
               ELSE IF t \in pg[p].bits THEN pg[p].rec[t] ELSE None
  <2>1. CASE p # pid
    BY <1>1, <2>1
  <2>2. CASE p = pid /\ t # s
    BY <1>1, <2>2
  <2>3. CASE p = pid /\ t = s
    BY <1>1, <2>3
  <2>4. QED
    BY <2>1, <2>2, <2>3
<1> HIDE DEF v
<1>3. ASSUME NEW r \in PageId \X Slot
      PROVE  RowsOf(qg)[r] = SetAt(RowsOf(pg), <<pid, s>>, v)[r]
  <2>1. PICK p \in PageId, t \in Slot : r = <<p, t>>
    OBVIOUS
  <2>2. RowsOf(qg)[r] = IF t \in qg[p].bits THEN qg[p].rec[t] ELSE None
    BY <2>1 DEF RowsOf
  <2>3. RowsOf(pg)[r] = IF t \in pg[p].bits THEN pg[p].rec[t] ELSE None
    BY <2>1 DEF RowsOf
  <2>4. SetAt(RowsOf(pg), <<pid, s>>, v)[r] = IF r = <<pid, s>> THEN v ELSE RowsOf(pg)[r]
    BY DEF SetAt, RowsOf
  <2>5. QED
    BY <1>2, <2>1, <2>2, <2>3, <2>4
<1>4. RowsOf(qg) = SetAt(RowsOf(pg), <<pid, s>>, v)
  <2>1. /\ RowsOf(qg) = [r \in PageId \X Slot |-> RowsOf(qg)[r]]
        /\ SetAt(RowsOf(pg), <<pid, s>>, v)
           = [r \in PageId \X Slot |-> SetAt(RowsOf(pg), <<pid, s>>, v)[r]]
    BY DEF RowsOf, SetAt
  <2>2. QED
    BY <1>3, <2>1
<1>5. QED
  BY <1>4 DEF qg, v

LEMMA RowsSame ==
  ASSUME NEW pg \in [PageId -> Page], NEW pid \in PageId, NEW q,
         q.bits = pg[pid].bits, q.rec = pg[pid].rec
  PROVE  RowsOf(SetAt(pg, pid, q)) = RowsOf(pg)
<1> DEFINE qg == SetAt(pg, pid, q)
<1>1. \A p \in PageId : qg[p].bits = pg[p].bits /\ qg[p].rec = pg[p].rec
  BY DEF SetAt
<1> HIDE DEF qg
<1>2. \A r \in PageId \X Slot : r[1] \in PageId
  OBVIOUS
<1>3. RowsOf(qg) = RowsOf(pg)
  BY <1>1, <1>2 DEF RowsOf
<1>4. QED
  BY <1>3 DEF qg

\* The step of one row.
RowStep(r, v) ==
  /\ r \in PageId \X Slot
  /\ RowsOf(pages') = SetAt(RowsOf(pages), r, v)
  /\ \/ RowsOf(pages)[r] = None /\ v \in Client
     \/ RowsOf(pages)[r] # None /\ v \in Client \cup {None}

LEMMA LinkRows ==
  ASSUME TInv, NEW c \in Client, LinkNewPage(c)
  PROVE  RowsOf(pages') = RowsOf(pages)
<1>1. /\ stmt[c].at = "link" /\ StOK(stmt[c], page_num, pages) /\ "link" \in Insertion
  BY Running DEF LinkNewPage, Insertion
<1>2. stmt[c].pid \in PageId
  BY <1>1, InsertHas DEF InsertOK
<1>3. PICK pid \in PageId : pid = stmt[c].pid
  BY <1>2
<1>4. PICK q : q = Relinked(pages[pid], first_free_page)
  OBVIOUS
<1>5. first_free_page \in -1 .. MaxPages - 1
  BY SizeAssumption DEF TInv, ChainOK, Chained, PageId, INVALID_PAGE_ID
<1>6. PageOK(pages[pid]) /\ pages \in [PageId -> Page]
  BY DEF TInv, PagesOK
<1>7. q = PageOf(pages[pid].bits, pages[pid].record_num, first_free_page, pages[pid].rec)
  BY <1>4, <1>5, <1>6, RelinkedIs
<1>8. q.bits = pages[pid].bits /\ q.rec = pages[pid].rec
  BY <1>7 DEF PageOf
<1>9. QED
  BY <1>3, <1>4, <1>6, <1>8, LinkMoves, RowsSame

LEMMA InsertRows ==
  ASSUME TInv, NEW c \in Client, InsertRecord(c)
  PROVE  pages' = pages \/ \E r, v : RowStep(r, v)
<1>1. stmt[c].at = "put" /\ StOK(stmt[c], page_num, pages) /\ "put" \in Insertion
  BY Running DEF InsertRecord, Insertion
<1>2. stmt[c].pid \in PageId
  BY <1>1, InsertHas DEF InsertOK
<1>3. CASE UNCHANGED pages
  BY <1>3
<1>4. CASE /\ stmt[c].slot \in Slot \ pages[stmt[c].pid].bits
           /\ PutRecord(stmt[c].pid, stmt[c].slot, c)
  <2>1. PICK pid \in PageId, s \in Slot :
          /\ pid = stmt[c].pid /\ s = stmt[c].slot /\ s \notin pages[pid].bits
    BY <1>2, <1>4
  <2>2. PICK q : /\ PageOK(q) /\ pages' = SetAt(pages, pid, q)
                 /\ q.bits = pages[pid].bits \cup {s} /\ q.rec = SetAt(pages[pid].rec, s, c)
    BY <1>4, <2>1, PutIs
  <2>3. pages \in [PageId -> Page] /\ q \in Page /\ pages[pid].rec \in [Slot -> Client \cup {None}]
    BY <2>2 DEF TInv, PagesOK, PageOK, Page
  <2>4. /\ s \in q.bits /\ q.rec[s] = c
        /\ \A t \in Slot : t # s => /\ t \in q.bits <=> t \in pages[pid].bits
                                    /\ q.rec[t] = pages[pid].rec[t]
    BY <2>2, <2>3 DEF SetAt
  <2>5. RowsOf(pages') = SetAt(RowsOf(pages), <<pid, s>>, c)
    BY <2>2, <2>3, <2>4, RowSet
  <2>6. RowsOf(pages)[<<pid, s>>] = None
    BY <2>1 DEF RowsOf
  <2>7. RowStep(<<pid, s>>, c)
    BY <2>5, <2>6 DEF RowStep
  <2>8. QED
    BY <2>7
<1>5. QED
  BY <1>3, <1>4, InsertMoves

LEMMA ApplyRows ==
  ASSUME TInv, NEW c \in Client, Apply(c)
  PROVE  pages' = pages \/ \E r, v : RowStep(r, v)
<1>1. PICK pid \in PageId, s \in Slot :
        /\ pid = stmt[c].pid /\ s = stmt[c].slot /\ s \in pages[pid].bits
  BY ApplyIs
<1>2. CASE UNCHANGED pages
  BY <1>2
<1>3. CASE \/ DeleteRecord(stmt[c].pid, stmt[c].slot)
           \/ UpdateRecord(stmt[c].pid, stmt[c].slot, c)
  <2>1. PICK q : /\ PageOK(q) /\ pages' = SetAt(pages, pid, q)
                 /\ \/ /\ q.bits = pages[pid].bits \ {s}
                       /\ q.rec = SetAt(pages[pid].rec, s, None)
                    \/ /\ q.bits = pages[pid].bits
                       /\ q.rec = SetAt(pages[pid].rec, s, c)
    BY <1>1, <1>3, ApplyPage
  <2>2. /\ pages \in [PageId -> Page] /\ q \in Page
        /\ pages[pid].rec \in [Slot -> Client \cup {None}] /\ PageOK(pages[pid])
    BY <2>1 DEF TInv, PagesOK, PageOK, Page
  <2>3. /\ \A t \in Slot : t # s => /\ t \in q.bits <=> t \in pages[pid].bits
                                    /\ q.rec[t] = pages[pid].rec[t]
        /\ (s \notin q.bits) \/ q.rec[s] = c
    BY <1>1, <2>1, <2>2 DEF SetAt
  <2>4. PICK v : v = IF s \in q.bits THEN q.rec[s] ELSE None
    OBVIOUS
  <2>5. RowsOf(pages') = SetAt(RowsOf(pages), <<pid, s>>, v)
    BY <2>1, <2>2, <2>3, <2>4, RowSet
  <2>6. v \in Client \cup {None}
    BY <2>3, <2>4
  <2>7. RowsOf(pages)[<<pid, s>>] = pages[pid].rec[s]
    BY <1>1 DEF RowsOf
  <2>8. pages[pid].rec[s] # None
    BY <1>1, <2>2, ClientAssumption DEF PageOK
  <2>9. RowStep(<<pid, s>>, v)
    BY <2>5, <2>6, <2>7, <2>8 DEF RowStep
  <2>10. QED
    BY <2>9
<1>4. QED
  BY <1>2, <1>3, ApplyMoves

LEMMA EveryRowStep ==
  ASSUME TInv, NEW c \in Client, ClientStep(c)
  PROVE  RowsOf(pages') = RowsOf(pages) \/ \E r, v : RowStep(r, v)
<1>1. CASE BeginInsert(c) \/ \E kind \in {"select", "update", "delete"} : BeginScan(c, kind)
  <2>1. UNCHANGED pages
    BY <1>1 DEF BeginInsert, BeginScan
  <2>2. QED
    BY <2>1
<1>2. CASE CreatePageHandle(c) \/ FindSlot(c) \/ Seek(c) \/ Check(c) \/ ReadSlot(c)
  <2>1. UNCHANGED pages
    BY <1>2 DEF CreatePageHandle, FindSlot, Seek, Check, ReadSlot
  <2>2. QED
    BY <2>1
<1>3. CASE LinkNewPage(c)
  BY <1>3, LinkRows
<1>4. CASE InsertRecord(c)
  BY <1>4, InsertRows
<1>5. CASE Apply(c)
  BY <1>5, ApplyRows
<1>6. QED
  BY <1>1, <1>2, <1>3, <1>4, <1>5 DEF ClientStep

\* A table is a store of rows as long as one statement at a time writes: each step of a
\* statement puts one row where there was none, or changes or removes one that is there, or
\* leaves every row alone.
THEOREM Implements ==
  ASSUME Writers = 1
  PROVE  Spec => RowsSpec
<1>1. Init => Table!Init
  <2>1. EmptyPage.bits = {}
    BY DEF EmptyPage
  <2>2. ASSUME Init, NEW r \in PageId \X Slot
        PROVE  pages[r[1]].bits = {}
    BY <2>1, <2>2 DEF Init
  <2>3. QED
    BY <2>2 DEF Table!Init
<1>2. ASSUME TInv, [Next]_vars
      PROVE  [Table!Next]_(RowsOf(pages))
  <2>1. CASE UNCHANGED vars
    BY <2>1 DEF vars
  <2>2. ASSUME NEW c \in Client, ClientStep(c), NEW r, NEW v, RowStep(r, v)
        PROVE  Table!Next
    <3>1. RowsOf(pages') = [RowsOf(pages) EXCEPT ![r] = v]
      BY <2>2 DEF RowStep, SetAt
    <3>2. CASE RowsOf(pages)[r] = None /\ v \in Client
      <4>1. Table!Put(r, v)
        BY <3>1, <3>2 DEF Table!Put, RowsOf
      <4>2. QED
        BY <2>2, <3>2, <4>1 DEF Table!Next, RowStep
    <3>3. CASE RowsOf(pages)[r] # None /\ v \in Client
      <4>1. Table!Change(r, v)
        BY <3>1, <3>3 DEF Table!Change, RowsOf
      <4>2. QED
        BY <2>2, <3>3, <4>1 DEF Table!Next, RowStep
    <3>4. CASE RowsOf(pages)[r] # None /\ v = None
      <4>1. Table!Remove(r)
        BY <3>1, <3>4 DEF Table!Remove, RowsOf
      <4>2. QED
        BY <2>2, <4>1 DEF Table!Next, RowStep
    <3>5. QED
      BY <2>2, <3>2, <3>3, <3>4 DEF RowStep
  <2>3. QED
    BY <1>2, <2>1, <2>2, EveryRowStep DEF Next
<1>3. QED
  BY <1>1, <1>2, Invariant, PTL DEF Spec, RowsSpec, Table!Spec, RowsOf
-----------------------------------------------------------------------------
(* The scans of MCTableHeap. *)

RidsOf(pg) == {r \in RID : r[2] \in pg[r[1]].bits}

AheadOf(st, n) ==
  {r \in RID : /\ r[1] < n
               /\ \/ r[1] > st.pid
                  \/ r[1] = st.pid /\ (r[2] > st.slot \/ (st.at \in Reading /\ r[2] = st.slot))}

\* What a scan is past: earlier pages, and its page up to its slot.
Behind(st) ==
  {r \in RID : \/ r[1] < st.pid
               \/ r[1] = st.pid /\ (r[2] < st.slot \/ (st.at \notin Reading /\ r[2] = st.slot))}

SInv ==
  \A c \in Client :
    /\ ~Scanning(stmt[c]) => seen[c] = {}
    /\ Scanning(stmt[c]) => /\ owed[c] \subseteq RidsOf(pages)
                            /\ seen[c] \subseteq Behind(stmt[c])
                            /\ owed[c] \subseteq seen[c] \cup AheadOf(stmt[c], page_num)

LEMMA RidNat ==
  ASSUME NEW r \in RID
  PROVE  r[1] \in Int /\ r[2] \in Int /\ r[1] \in PageId /\ r[2] \in Slot /\ r[1] >= 1 /\ r[2] > -1
         /\ r = <<r[1], r[2]>>
<1>1. \A p \in PageId, t \in Slot : p \in Int /\ t \in Int /\ p >= 1 /\ t > -1
  BY SizeAssumption DEF PageId, Slot
<1>2. r[1] \in PageId /\ r[2] \in Slot /\ r = <<r[1], r[2]>>
  BY DEF RID
<1>3. QED
  BY <1>1, <1>2

LEMMA ApartIs ==
  ASSUME NEW st, st.pid \in Int, st.slot \in Int, NEW n \in Int
  PROVE  AheadOf(st, n) \cap Behind(st) = {}
BY RidNat DEF AheadOf, Behind

\* One step of a scan that goes on.
ScanStep(st, t) ==
  \/ /\ st.at = "seek" /\ t.at = "seek" /\ SlotsAhead(st) = {}
     /\ t.pid = st.pid + 1 /\ t.slot = -1
  \/ /\ st.at = "seek" /\ t.at = "check read" /\ t.pid = st.pid
     /\ t.slot \in SlotsAhead(st) /\ \A s \in SlotsAhead(st) : t.slot <= s
  \/ /\ st.at \in Reading <=> t.at \in Reading
     /\ t.pid = st.pid /\ t.slot = st.slot
  \/ /\ st.at \in Reading /\ t.at \notin Reading
     /\ t.pid = st.pid /\ t.slot = st.slot

LEMMA MovedTo ==
  ASSUME TInv, NEW c \in Client, NEW at, NEW left, NEW pid, NEW slot,
         Moved(stmt, stmt', c, at, left, pid, slot)
  PROVE  /\ stmt'[c].kind = stmt[c].kind /\ stmt'[c].at = at
         /\ stmt'[c].pid = pid /\ stmt'[c].slot = slot
         /\ \A d \in Client : d # c => stmt'[d] = stmt[d]
<1>1. /\ stmt'[c] = StmtOf(stmt[c].kind, at, left, pid, slot)
      /\ \A d \in Client : d # c => stmt'[d] = stmt[d]
  BY DEF Moved, SetAt, TInv, StmtsOK
<1>2. QED
  BY <1>1 DEF StmtOf

LEMMA Ends ==
  ASSUME TInv, NEW c \in Client, stmt' = SetAt(stmt, c, None)
  PROVE  ~Scanning(stmt'[c]) /\ \A d \in Client : d # c => stmt'[d] = stmt[d]
BY DEF SetAt, TInv, StmtsOK, Scanning

\* An INSERT is no scan, before and after its step.
LEMMA InsertsScanNot ==
  ASSUME TInv, NEW c \in Client,
         CreatePageHandle(c) \/ LinkNewPage(c) \/ FindSlot(c) \/ InsertRecord(c)
  PROVE  /\ ~Scanning(stmt[c]) /\ ~Scanning(stmt'[c]) /\ page_num <= page_num'
         /\ \A d \in Client : d # c => stmt'[d] = stmt[d]
<1>1. stmt[c].kind = "insert" /\ ~Scanning(stmt[c])
  <2>1. StOK(stmt[c], page_num, pages) /\ stmt[c].at \in Insertion
    BY Running DEF CreatePageHandle, LinkNewPage, FindSlot, InsertRecord, Insertion
  <2>2. QED
    BY <2>1, InsertHas DEF InsertOK, Scanning
<1>2. \/ stmt' = SetAt(stmt, c, None)
      \/ \E at, left, pid, slot : Moved(stmt, stmt', c, at, left, pid, slot)
  BY CreateMoves, LinkMoves, FindMoves, InsertMoves
<1>3. page_num <= page_num'
  <2>1. page_num' = page_num \/ page_num' = page_num + 1
    BY CreateMoves, LinkMoves, FindMoves, InsertMoves
  <2>2. page_num \in Int
    BY DEF TInv
  <2>3. QED
    BY <2>1, <2>2
<1>4. CASE stmt' = SetAt(stmt, c, None)
  BY <1>1, <1>3, <1>4, Ends
<1>5. CASE \E at, left, pid, slot : Moved(stmt, stmt', c, at, left, pid, slot)
  <2>1. stmt'[c].kind = stmt[c].kind /\ \A d \in Client : d # c => stmt'[d] = stmt[d]
    BY <1>5, MovedTo
  <2>2. QED
    BY <1>1, <1>3, <2>1 DEF Scanning
<1>6. QED
  BY <1>2, <1>4, <1>5

LEMMA ScanGoesOn ==
  ASSUME TInv, NEW c \in Client, Seek(c) \/ Check(c) \/ ReadSlot(c) \/ Apply(c)
  PROVE  /\ page_num' = page_num
         /\ \A d \in Client : d # c => stmt'[d] = stmt[d]
         /\ Scanning(stmt'[c]) => Scanning(stmt[c]) /\ ScanStep(stmt[c], stmt'[c])
<1>1. /\ stmt[c] # None /\ stmt[c].kind # "insert"
      /\ Seek(c) => stmt[c].at = "seek"
      /\ Check(c) => stmt[c].at \in {"check read", "check apply"}
      /\ ReadSlot(c) => stmt[c].at = "read"
      /\ Apply(c) => stmt[c].at = "apply"
  <2>1. /\ StOK(stmt[c], page_num, pages) /\ stmt[c].at \in Scan /\ stmt[c] # None
        /\ Seek(c) => stmt[c].at = "seek"
        /\ Check(c) => stmt[c].at \in {"check read", "check apply"}
        /\ ReadSlot(c) => stmt[c].at = "read"
        /\ Apply(c) => stmt[c].at = "apply"
    BY Running DEF Seek, Check, ReadSlot, Apply, Scan, At
  <2>2. QED
    BY <2>1, ScanHas DEF ScanOK
<1>2. page_num' = page_num
  BY SeekMoves, CheckMoves, ReadMoves, ApplyMoves
<1>3. CASE stmt' = SetAt(stmt, c, None)
  BY <1>2, <1>3, Ends
<1>4. CASE /\ Seek(c) /\ SlotsAhead(stmt[c]) = {}
           /\ Moved(stmt, stmt', c, "seek", stmt[c].left, stmt[c].pid + 1, -1)
  <2>1. /\ stmt'[c].at = "seek" /\ stmt'[c].pid = stmt[c].pid + 1 /\ stmt'[c].slot = -1
        /\ \A d \in Client : d # c => stmt'[d] = stmt[d]
    BY <1>4, MovedTo
  <2>2. QED
    BY <1>1, <1>2, <1>4, <2>1 DEF Scanning, ScanStep
<1>5. CASE /\ Seek(c)
           /\ \E s \in SlotsAhead(stmt[c]) :
                /\ \A t \in SlotsAhead(stmt[c]) : s <= t
                /\ Moved(stmt, stmt', c, "check read", stmt[c].left, stmt[c].pid, s)
  <2>1. PICK s \in SlotsAhead(stmt[c]) :
                /\ \A t \in SlotsAhead(stmt[c]) : s <= t
                /\ Moved(stmt, stmt', c, "check read", stmt[c].left, stmt[c].pid, s)
    BY <1>5
  <2>2. /\ stmt'[c].at = "check read" /\ stmt'[c].pid = stmt[c].pid /\ stmt'[c].slot = s
        /\ \A d \in Client : d # c => stmt'[d] = stmt[d]
    BY <2>1, MovedTo
  <2>3. QED
    BY <1>1, <1>2, <1>5, <2>1, <2>2 DEF Scanning, ScanStep
<1>6. ASSUME NEW at, Goes(c, at)
      PROVE  /\ stmt'[c].at = at /\ stmt'[c].pid = stmt[c].pid /\ stmt'[c].slot = stmt[c].slot
             /\ \A d \in Client : d # c => stmt'[d] = stmt[d]
  <2>1. Moved(stmt, stmt', c, at, stmt[c].left, stmt[c].pid, stmt[c].slot)
    BY <1>6 DEF Goes
  <2>2. QED
    BY <2>1, MovedTo
<1>7. CASE Check(c) /\ \/ At(c, "check read") /\ Goes(c, "read")
                       \/ At(c, "check apply") /\ Goes(c, "apply")
  <2>1. CASE At(c, "check read") /\ Goes(c, "read")
    BY <1>1, <1>2, <1>6, <2>1 DEF Scanning, ScanStep, Reading, At
  <2>2. CASE At(c, "check apply") /\ Goes(c, "apply")
    <3>1. /\ stmt[c].at = "check apply" /\ stmt'[c].at = "apply"
          /\ stmt'[c].pid = stmt[c].pid /\ stmt'[c].slot = stmt[c].slot
          /\ \A d \in Client : d # c => stmt'[d] = stmt[d]
      BY <1>6, <2>2 DEF At
    <3>2. ScanStep(stmt[c], stmt'[c])
      BY <3>1 DEF ScanStep, Reading
    <3>3. QED
      BY <1>1, <1>2, <3>1, <3>2 DEF Scanning
  <2>3. QED
    BY <1>7, <2>1, <2>2
<1>8. CASE ReadSlot(c) /\ (Goes(c, "seek") \/ Goes(c, "check apply"))
  BY <1>1, <1>2, <1>6, <1>8 DEF Scanning, ScanStep, Reading
<1>9. CASE Apply(c) /\ Goes(c, "seek")
  <2>1. /\ stmt[c].at = "apply" /\ stmt'[c].at = "seek"
        /\ stmt'[c].pid = stmt[c].pid /\ stmt'[c].slot = stmt[c].slot
        /\ \A d \in Client : d # c => stmt'[d] = stmt[d]
    BY <1>1, <1>6, <1>9
  <2>2. ScanStep(stmt[c], stmt'[c])
    BY <2>1 DEF ScanStep, Reading
  <2>3. QED
    BY <1>1, <1>2, <2>1, <2>2 DEF Scanning
<1>10. QED
  BY <1>3, <1>4, <1>5, <1>7, <1>8, <1>9, SeekMoves, CheckMoves, ReadMoves, ApplyMoves

LEMMA ScanBegins ==
  ASSUME TInv, NEW c \in Client, NEW kind \in {"select", "update", "delete"}, BeginScan(c, kind)
  PROVE  /\ UNCHANGED <<page_num, pages>> /\ stmt[c] = None
         /\ \A d \in Client : d # c => stmt'[d] = stmt[d]
         /\ stmt'[c].pid = 1 /\ stmt'[c].slot = -1
<1>1. /\ MayBegin(c, kind) /\ UNCHANGED <<page_num, pages>>
      /\ stmt' = SetAt(stmt, c, StmtOf(kind, "seek", 0, 1, -1))
  BY BeginScanIs
<1>2. /\ stmt'[c] = StmtOf(kind, "seek", 0, 1, -1)
      /\ \A d \in Client : d # c => stmt'[d] = stmt[d]
  BY <1>1 DEF SetAt, TInv, StmtsOK
<1>3. QED
  BY <1>1, <1>2 DEF StmtOf, MayBegin

LEMMA InsertBegins ==
  ASSUME TInv, NEW c \in Client, BeginInsert(c)
  PROVE  /\ page_num' = page_num /\ ~Scanning(stmt'[c])
         /\ \A d \in Client : d # c => stmt'[d] = stmt[d]
<1>1. /\ page_num' = page_num
      /\ stmt' = SetAt(stmt, c, StmtOf("insert", "page", Rows, 0, -1))
  BY BeginInsertIs
<1>2. /\ stmt'[c] = StmtOf("insert", "page", Rows, 0, -1)
      /\ \A d \in Client : d # c => stmt'[d] = stmt[d]
  BY <1>1 DEF SetAt, TInv, StmtsOK
<1>3. stmt'[c].kind = "insert"
  BY <1>2 DEF StmtOf
<1>4. QED
  BY <1>1, <1>2, <1>3 DEF Scanning

\* What one step does to a scan: it is not concerned, it goes on, or it begins.
LEMMA EveryScan ==
  ASSUME TInv, NEW c \in Client, ClientStep(c), NEW d \in Client, Scanning(stmt'[d])
  PROVE  /\ page_num <= page_num'
         /\ \/ stmt'[d] = stmt[d]
            \/ Scanning(stmt[d]) /\ ScanStep(stmt[d], stmt'[d]) /\ page_num' = page_num
            \/ /\ stmt[d] = None /\ stmt'[d].pid = 1 /\ stmt'[d].slot = -1
               /\ UNCHANGED <<page_num, pages>>
<1>1. page_num <= page_num
  BY DEF TInv
<1>2. CASE BeginInsert(c)
  BY <1>1, <1>2, InsertBegins
<1>3. CASE \E kind \in {"select", "update", "delete"} : BeginScan(c, kind)
  BY <1>1, <1>3, ScanBegins DEF Scanning
<1>4. CASE CreatePageHandle(c) \/ LinkNewPage(c) \/ FindSlot(c) \/ InsertRecord(c)
  BY <1>4, InsertsScanNot
<1>5. CASE Seek(c) \/ Check(c) \/ ReadSlot(c) \/ Apply(c)
  BY <1>1, <1>5, ScanGoesOn
<1>6. QED
  BY <1>2, <1>3, <1>4, <1>5 DEF ClientStep

\* What a scan has read, once it has made a step.
Noted(e, st, t) ==
  IF st.at \in Reading /\ t.at \notin Reading THEN e \cup {<<st.pid, st.slot>>} ELSE e

\* The scan's books stay right over its own step.
LEMMA BooksKept ==
  ASSUME NEW st, NEW t, ScanStep(st, t), NEW n \in Int,
         st.pid \in Int, st.slot \in Int, t.slot \in Int,
         st.at \in Reading => st.pid \in PageId /\ st.slot \in Slot,
         NEW o, NEW e, o \subseteq RidsOf(pages), e \subseteq Behind(st),
         o \subseteq e \cup AheadOf(st, n)
  PROVE  Noted(e, st, t) \subseteq Behind(t) /\ o \subseteq Noted(e, st, t) \cup AheadOf(t, n)
<1>0. PICK e2 : e2 = Noted(e, st, t)
  OBVIOUS
<1>1. e \subseteq RID /\ o \subseteq RID
  BY DEF Behind, RidsOf
<1>2. ASSUME /\ st.at = "seek" /\ t.at = "seek" /\ SlotsAhead(st) = {}
             /\ t.pid = st.pid + 1 /\ t.slot = -1
      PROVE  e2 \subseteq Behind(t) /\ o \subseteq e2 \cup AheadOf(t, n)
  <2>1. e2 = e
    BY <1>0, <1>2 DEF Reading, Noted
  <2>2. ASSUME NEW r \in e
        PROVE  r \in Behind(t)
    <3>1. r[1] \in Int /\ r[1] <= st.pid /\ r \in RID
      BY <1>1, <2>2, RidNat DEF Behind
    <3>2. QED
      BY <1>2, <3>1 DEF Behind
  <2>3. ASSUME NEW r \in o
        PROVE  r \in e \cup AheadOf(t, n)
    <3>1. /\ r \in RID /\ r[1] \in Int /\ r[2] \in Int /\ r[2] > -1
          /\ r[2] \in pages[r[1]].bits
      BY <1>1, <2>3, RidNat DEF RidsOf
    <3>2. r[1] = st.pid => ~(r[2] > st.slot)
      BY <1>2, <3>1 DEF SlotsAhead
    <3>3. r \in e \/ (r[1] < n /\ r[1] > st.pid)
      BY <1>2, <2>3, <3>2 DEF AheadOf, Reading
    <3>4. r[1] > st.pid => r[1] > t.pid \/ (r[1] = t.pid /\ r[2] > t.slot)
      BY <1>2, <3>1
    <3>5. QED
      BY <3>1, <3>3, <3>4 DEF AheadOf
  <2>4. QED
    BY <2>1, <2>2, <2>3
<1>3. ASSUME /\ st.at = "seek" /\ t.at = "check read" /\ t.pid = st.pid
             /\ t.slot \in SlotsAhead(st) /\ \A s \in SlotsAhead(st) : t.slot <= s
      PROVE  e2 \subseteq Behind(t) /\ o \subseteq e2 \cup AheadOf(t, n)
  <2>1. e2 = e
    BY <1>0, <1>3 DEF Reading, Noted
  <2>2. t.slot > st.slot
    BY <1>3 DEF SlotsAhead
  <2>3. QED
    <3>1. ASSUME NEW r \in e
          PROVE  r \in Behind(t)
      <4>1. /\ r[1] \in Int /\ r[2] \in Int /\ r \in RID
            /\ r[1] < st.pid \/ (r[1] = st.pid /\ r[2] <= st.slot)
        BY <1>1, <3>1, RidNat DEF Behind
      <4>2. r[2] <= st.slot => r[2] < t.slot
        BY <2>2, <4>1
      <4>3. QED
        BY <1>3, <4>1, <4>2 DEF Behind
    <3>2. ASSUME NEW r \in o
          PROVE  r \in e \cup AheadOf(t, n)
      <4>1. /\ r \in RID /\ r[1] \in Int /\ r[2] \in Int
            /\ r[2] \in pages[r[1]].bits
        BY <1>1, <3>2, RidNat DEF RidsOf
      <4>2. r[1] = st.pid /\ r[2] > st.slot => t.slot <= r[2]
        BY <1>3, <4>1 DEF SlotsAhead
      <4>3. \/ r \in e
            \/ r[1] < n /\ r[1] > st.pid
            \/ r[1] < n /\ r[1] = st.pid /\ r[2] > st.slot
        BY <1>3, <3>2 DEF AheadOf, Reading
      <4>4. t.slot <= r[2] => r[2] > t.slot \/ r[2] = t.slot
        BY <4>1
      <4>5. t.at \in Reading
        BY <1>3 DEF Reading
      <4>6. QED
        BY <1>3, <4>1, <4>2, <4>3, <4>4, <4>5 DEF AheadOf
    <3>3. QED
      BY <2>1, <3>1, <3>2
<1>4. ASSUME /\ st.at \in Reading <=> t.at \in Reading
             /\ t.pid = st.pid /\ t.slot = st.slot
      PROVE  e2 \subseteq Behind(t) /\ o \subseteq e2 \cup AheadOf(t, n)
  <2>1. e2 = e /\ Behind(t) = Behind(st) /\ AheadOf(t, n) = AheadOf(st, n)
    BY <1>0, <1>4 DEF Behind, AheadOf, Noted
  <2>2. QED
    BY <2>1
<1>5. ASSUME /\ st.at \in Reading /\ t.at \notin Reading
             /\ t.pid = st.pid /\ t.slot = st.slot
      PROVE  e2 \subseteq Behind(t) /\ o \subseteq e2 \cup AheadOf(t, n)
  <2>1. e2 = e \cup {<<st.pid, st.slot>>} /\ <<st.pid, st.slot>> \in RID
    BY <1>0, <1>5 DEF RID, Noted
  <2>2. <<st.pid, st.slot>> \in Behind(t) /\ Behind(st) \subseteq Behind(t)
    BY <1>5, <2>1 DEF Behind
  <2>3. ASSUME NEW r \in AheadOf(st, n)
        PROVE  r \in AheadOf(t, n) \cup {<<st.pid, st.slot>>}
    <3>1. r \in RID /\ r = <<r[1], r[2]>>
      BY <2>3, RidNat DEF AheadOf
    <3>2. QED
      BY <1>5, <2>3, <3>1 DEF AheadOf
  <2>4. QED
    BY <2>1, <2>2, <2>3
<1>6. e2 \subseteq Behind(t) /\ o \subseteq e2 \cup AheadOf(t, n)
  BY <1>2, <1>3, <1>4, <1>5 DEF ScanStep
<1>7. QED
  BY <1>0, <1>6

LEMMA SInit == MCInit => SInv
BY DEF MCInit, Init, SInv, Scanning

LEMMA SStep ==
  TInv /\ TInv' /\ Writers = 1 /\ SInv /\ [MCNext]_<<vars, owed, seen>> => SInv'
<1> SUFFICES ASSUME TInv, TInv', SInv, [MCNext]_<<vars, owed, seen>> PROVE SInv'
  OBVIOUS
<1>1. CASE UNCHANGED <<vars, owed, seen>>
  <2>1. page_num' = page_num /\ pages' = pages /\ stmt' = stmt /\ owed' = owed /\ seen' = seen
    BY <1>1 DEF vars
  <2>2. QED
    BY <2>1 DEF SInv
<1>2. ASSUME MCNext, NEW d \in Client, Scanning(stmt'[d])
      PROVE  /\ owed'[d] \subseteq RidsOf(pages')
             /\ seen'[d] \subseteq Behind(stmt'[d])
             /\ owed'[d] \subseteq seen'[d] \cup AheadOf(stmt'[d], page_num')
  <2>1. PICK c \in Client : ClientStep(c)
    BY <1>2 DEF MCNext, Next
  <2>2. /\ Scanning(stmt[d]) => owed'[d] = owed[d] \cap RidsOf(pages')
        /\ ~Scanning(stmt[d]) => owed'[d] = RidsOf(pages)
    BY <1>2 DEF MCNext, RidsOf, Rids
  <2>3. seen'[d] = IF stmt[d] # None /\ stmt[d].at \in Reading /\ stmt'[d].at \notin Reading
                   THEN seen[d] \cup {<<stmt[d].pid, stmt[d].slot>>} ELSE seen[d]
    BY <1>2 DEF MCNext
  <2>4. page_num \in Int /\ page_num' \in Int /\ page_num <= page_num'
    BY <1>2, <2>1, EveryScan DEF TInv
  <2>5. CASE Scanning(stmt[d]) /\ stmt'[d] = stmt[d]
    <3>1. /\ owed[d] \subseteq RidsOf(pages) /\ seen[d] \subseteq Behind(stmt[d])
          /\ owed[d] \subseteq seen[d] \cup AheadOf(stmt[d], page_num)
      BY <2>5 DEF SInv
    <3>2. AheadOf(stmt[d], page_num) \subseteq AheadOf(stmt[d], page_num')
      BY <2>4, RidNat DEF AheadOf
    <3>3. seen'[d] = seen[d]
      BY <2>3, <2>5
    <3>4. QED
      BY <2>2, <2>5, <3>1, <3>2, <3>3
  <2>6. CASE Scanning(stmt[d]) /\ ScanStep(stmt[d], stmt'[d]) /\ page_num' = page_num
    <3>1. /\ owed[d] \subseteq RidsOf(pages) /\ seen[d] \subseteq Behind(stmt[d])
          /\ owed[d] \subseteq seen[d] \cup AheadOf(stmt[d], page_num)
      BY <2>6 DEF SInv
    <3>2. /\ stmt[d].pid \in Int /\ stmt[d].slot \in Int /\ stmt'[d].slot \in Int
          /\ stmt[d].at \in Reading => stmt[d].pid \in PageId /\ stmt[d].slot \in Slot
      <4>1. stmt[d] \in Statement /\ stmt'[d] \in Statement /\ StOK(stmt[d], page_num, pages)
        BY <1>2, <2>6 DEF TInv, StmtsOK, Scanning
      <4>2. \A st \in Statement : st.pid \in Int /\ st.slot \in Int
        BY StatementHas, SizeAssumption
      <4>3. ScanOK(stmt[d], page_num, pages)
        BY <2>6, <4>1 DEF StOK, InsertOK, Scanning
      <4>4. stmt[d].at \in Reading => stmt[d].at # "seek"
        BY DEF Reading
      <4>5. QED
        BY <4>1, <4>2, <4>3, <4>4 DEF ScanOK
    <3>3. PICK e2 : e2 = seen'[d]
      OBVIOUS
    <3>4. e2 = IF stmt[d].at \in Reading /\ stmt'[d].at \notin Reading
               THEN seen[d] \cup {<<stmt[d].pid, stmt[d].slot>>} ELSE seen[d]
      BY <2>3, <2>6, <3>3 DEF Scanning
    <3>5. PICK st, t, o, e : st = stmt[d] /\ t = stmt'[d] /\ o = owed[d] /\ e = seen[d]
      OBVIOUS
    <3>6. ScanStep(st, t) /\ page_num \in Int
      BY <2>4, <2>6, <3>5
    <3>7. /\ st.pid \in Int /\ st.slot \in Int /\ t.slot \in Int
          /\ st.at \in Reading => st.pid \in PageId /\ st.slot \in Slot
      BY <3>2, <3>5
    <3>8. o \subseteq RidsOf(pages) /\ e \subseteq Behind(st) /\ o \subseteq e \cup AheadOf(st, page_num)
      BY <3>1, <3>5
    <3>9. e2 = Noted(e, st, t)
      BY <3>4, <3>5 DEF Noted
    <3>10. e2 \subseteq Behind(t) /\ o \subseteq e2 \cup AheadOf(t, page_num)
      BY <3>6, <3>7, <3>8, <3>9, BooksKept
    <3>11. QED
      BY <2>2, <2>6, <3>3, <3>5, <3>10
  <2>7. CASE /\ stmt[d] = None /\ stmt'[d].pid = 1 /\ stmt'[d].slot = -1
             /\ UNCHANGED <<page_num, pages>>
    <3>1. ~Scanning(stmt[d])
      BY <2>7 DEF Scanning
    <3>2. seen'[d] = {} /\ owed'[d] = RidsOf(pages)
      BY <2>2, <2>3, <2>7, <3>1 DEF SInv
    <3>3. ASSUME NEW r \in RidsOf(pages)
          PROVE  r \in AheadOf(stmt'[d], page_num')
      <4>1. /\ r \in RID /\ r[1] \in Int /\ r[2] \in Int /\ r[1] >= 1 /\ r[2] > -1
            /\ r[1] \in PageId /\ pages[r[1]].bits # {}
        BY <3>3, RidNat DEF RidsOf
      <4>2. ~(r[1] >= page_num)
        BY <4>1 DEF TInv, PagesOK
      <4>3. r[1] < page_num'
        BY <2>4, <2>7, <4>1, <4>2
      <4>4. r[1] > 1 \/ r[1] = 1
        BY <4>1
      <4>5. QED
        BY <2>7, <4>1, <4>3, <4>4 DEF AheadOf
    <3>4. QED
      BY <2>7, <3>2, <3>3
  <2>8. QED
    BY <1>2, <2>1, <2>5, <2>6, <2>7, EveryScan
<1>3. ASSUME MCNext, NEW d \in Client, ~Scanning(stmt'[d])
      PROVE  seen'[d] = {}
  BY <1>3 DEF MCNext
<1>4. QED
  BY <1>1, <1>2, <1>3 DEF SInv

LEMMA ScanInvariant ==
  ASSUME Writers = 1
  PROVE  MCSpec => [](TInv /\ SInv)
<1>1. MCInit => TInv /\ SInv
  BY TInit, SInit DEF MCInit
<1>2. TInv /\ [MCNext]_<<vars, owed, seen>> => TInv'
  BY TStep DEF MCNext
<1>3. TInv /\ TInv' /\ SInv /\ [MCNext]_<<vars, owed, seen>> => SInv'
  BY SStep
<1>4. QED
  BY <1>1, <1>2, <1>3, PTL DEF MCSpec

\* A scan reads every row that is there from its start to its end, whatever the others insert,
\* delete and change meanwhile, as long as one of them at a time writes (GetFirstRID and
\* GetNextRID).
THEOREM ScansComplete ==
  ASSUME Writers = 1
  PROVE  MCSpec => []ScanComplete
<1>1. SInv => ScanComplete
  BY DEF SInv, ScanComplete, AheadOf, Ahead
<1>2. QED
  BY <1>1, ScanInvariant, PTL

\* No scan comes back to a row it has read, though UPDATE and DELETE change the page under
\* it and INSERT adds pages behind it.
THEOREM ScansOnce ==
  ASSUME Writers = 1
  PROVE  MCSpec => []ScanOnce
<1>1. ASSUME TInv, SInv, NEW c \in Client, Scanning(stmt[c])
      PROVE  seen[c] \cap AheadOf(stmt[c], page_num) = {}
  <2>1. stmt[c] \in Statement /\ page_num \in Int
    BY <1>1 DEF TInv, StmtsOK, Scanning
  <2>2. \A st \in Statement : st.pid \in Int /\ st.slot \in Int
    BY StatementHas, SizeAssumption
  <2>3. AheadOf(stmt[c], page_num) \cap Behind(stmt[c]) = {}
    BY <2>1, <2>2, ApartIs
  <2>4. QED
    BY <1>1, <2>3 DEF SInv
<1>2. \A c \in Client : AheadOf(stmt[c], page_num) = Ahead(stmt[c])
  BY DEF AheadOf, Ahead
<1>3. TInv /\ SInv => ScanOnce
  BY <1>1, <1>2 DEF ScanOnce
<1>4. QED
  BY <1>3, ScanInvariant, PTL
=============================================================================
