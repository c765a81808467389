------------------------------ MODULE BufferPool ------------------------------
(***************************************************************************)
(* The buffer pool manager of wsdb,                                        *)
(* wsdb/storage/buffer/buffer_pool_manager.{h,cpp} with frame.h and the    *)
(* page I/O of storage/disk/disk_manager.cpp, used by several client       *)
(* threads (system/system.cpp starts one per connection).                  *)
(*                                                                         *)
(* FetchPage, UnpinPage, DeletePage and FlushPage run under latch_ and are *)
(* one action each.  DeleteAllPages and FlushAllPages take no latch: they  *)
(* walk page_frame_lookup_ in one step per page.  A client holds the       *)
(* memory FetchPage returned and writes to it without the pool.            *)
(***************************************************************************)
EXTENDS Integers, Sequences, FiniteSets

CONSTANTS
  BUFFER_POOL_SIZE,
  Page,         \* the pages <<fid, pid>> of the open files
  Client,       \* the threads
  Value, Zero,  \* page contents, and that of a cleared page or a page past end of file
  REPLACER,     \* the policy the constructor instantiates
  K,            \* replacer_lru_k
  SweepOps,     \* bound: the sweeps clients start, of "delete" and "flush"
  MaxIOErrors,  \* bound: how many reads and writes may fail
  MaxTs,        \* bound: where LRU-K's clock stops
  None          \* no frame, no page, no pin

ASSUME PolicyAssumption ==
  /\ REPLACER \in {"LRUReplacer", "LRUKReplacer"}
  /\ K \in Nat \ {0}
ASSUME SizeAssumption == BUFFER_POOL_SIZE \in Nat \ {0}
ASSUME DataAssumption ==
  /\ Zero \in Value
  /\ None \notin Nat /\ None \notin Page
ASSUME ClientAssumption == IsFiniteSet(Client)
ASSUME BoundAssumption == MaxIOErrors \in Nat /\ MaxTs \in Nat

Frame == 0 .. BUFFER_POOL_SIZE - 1

VARIABLES
  frames,     \* frames_: the page in the frame, its data, is_dirty_ and pin_count_
  free_list,  \* free_list_
  lookup,     \* page_frame_lookup_, None where the map has no entry
  replacer,   \* replacer_
  disk,       \* the contents of the files
  pin,        \* the pin each client holds: the page, the frame it got, whether it wrote
  sweep,      \* a client's DeleteAllPages or FlushAllPages in progress
  ioErrors    \* failed reads and writes so far

vars == <<frames, free_list, lookup, replacer, disk, pin, sweep, ioErrors>>

LRU  == INSTANCE LRUReplacer
LRUK == INSTANCE LRUKReplacer

-----------------------------------------------------------------------------
(* The replacer the constructor chose. *)

IsLRU == REPLACER = "LRUReplacer"

RFresh           == IF IsLRU THEN LRU!Fresh ELSE LRUK!Fresh
RPin(r, f)       == IF IsLRU THEN LRU!Pin(r, f) ELSE LRUK!Pin(r, f)
RUnpin(r, f)     == IF IsLRU THEN LRU!Unpin(r, f) ELSE LRUK!Unpin(r, f)
RVictims(r)      == IF IsLRU THEN LRU!Victims(r) ELSE LRUK!Victims(r)
REvict(r, f)     == IF IsLRU THEN LRU!Evict(r, f) ELSE LRUK!Evict(r, f)
RUnpinThrows(r, f) == IF IsLRU THEN LRU!UnpinThrows(r, f) ELSE LRUK!UnpinThrows(r, f)

-----------------------------------------------------------------------------
(* Frames, pins and sweeps. *)

\* Frame::Reset, which clears the page: no page id and zeroed data.
ResetFrame == [page |-> None, data |-> Zero, dirty |-> FALSE, pins |-> 0]

NoPin == [page |-> None, frame |-> None, wrote |-> FALSE]

NoSweep == [op |-> "none", fid |-> None, todo |-> {}, raced |-> FALSE]

Fid(p) == p[1]

Cached == {p \in Page : lookup[p] # None}

InUse(f) == frames[f].pins > 0

Idle(c) == pin[c] = NoPin /\ sweep[c] = NoSweep

\* page_frame_lookup_ changes under an unlatched sweep of another client.
Race(c) ==
  [d \in Client |-> IF d # c /\ sweep[d] # NoSweep THEN [sweep[d] EXCEPT !.raced = TRUE]
                    ELSE sweep[d]]

ClockRuns == IF IsLRU THEN TRUE ELSE replacer.ts < MaxTs

IOError == ioErrors < MaxIOErrors /\ ioErrors' = ioErrors + 1

Init ==
  /\ frames = [f \in Frame |-> ResetFrame]
  /\ free_list = [i \in 1 .. BUFFER_POOL_SIZE |-> i - 1]
  /\ lookup = [p \in Page |-> None]
  /\ replacer = RFresh
  /\ disk = [p \in Page |-> Zero]
  /\ pin = [c \in Client |-> NoPin]
  /\ sweep = [c \in Client |-> NoSweep]
  /\ ioErrors = 0

-----------------------------------------------------------------------------
(* FetchPage. *)

GivePin(c, p, f) == pin' = [pin EXCEPT ![c] = [page |-> p, frame |-> f, wrote |-> FALSE]]

FetchCached(c, p) ==
  /\ Idle(c) /\ ClockRuns
  /\ lookup[p] # None
  /\ LET f == lookup[p]
     IN /\ frames' = [frames EXCEPT ![f].pins = @ + 1]
        /\ replacer' = RPin(replacer, f)
        /\ GivePin(c, p, f)
  /\ UNCHANGED <<free_list, lookup, disk, sweep, ioErrors>>

\* Mutant of AvailableFrames: the free list loses two frames at a time.
PoppedTwice ==
  IF free_list # <<>>
  THEN {[id |-> Head(free_list), free |-> SubSeq(free_list, 3, Len(free_list)),
         rep |-> replacer]}
  ELSE {[id |-> f, free |-> free_list, rep |-> REvict(replacer, f)] : f \in RVictims(replacer)}

\* Mutant of AvailableFrames: the replacer is asked before the free list.
ReplacerFirst ==
  IF RVictims(replacer) = {} /\ free_list # <<>>
  THEN {[id |-> Head(free_list), free |-> Tail(free_list), rep |-> replacer]}
  ELSE {[id |-> f, free |-> free_list, rep |-> REvict(replacer, f)] : f \in RVictims(replacer)}

\* GetAvailableFrame: the frames it may return, each with the free list and the
\* replacer it leaves.  The free list is used up before the replacer is asked; with
\* neither there is no frame and WSDB_NO_FREE_FRAME is thrown.
AvailableFrames ==
  IF free_list # <<>>
  THEN {[id |-> Head(free_list), free |-> Tail(free_list), rep |-> replacer]}
  ELSE {[id |-> f, free |-> free_list, rep |-> REvict(replacer, f)] : f \in RVictims(replacer)}

\* Mutant of WithoutPageOf: the entry of the evicted page stays.
StaleEntryKept(f) == lookup

\* The lookup entry UpdateFrame erases is that of the page the frame holds.
WithoutPageOf(f) == [p \in Page |-> IF p = frames[f].page THEN None ELSE lookup[p]]

\* Mutant of WrittenBack: a dirty page is dropped.
DirtyDropped(f, p) == disk

\* The files once WritePage has written frame f, if dirty, as page p.
WrittenBack(f, p) == IF frames[f].dirty THEN [disk EXCEPT ![p] = frames[f].data] ELSE disk

\* GetAvailableFrame and UpdateFrame: the frame found is written back if dirty, then
\* filled.  WritePage may throw when the frame has only lost its place in the replacer;
\* ReadPage may throw when the frame is already empty.
FetchMiss(c, p) ==
  /\ Idle(c) /\ ClockRuns
  /\ lookup[p] = None
  /\ \E a \in AvailableFrames :
       LET f == a.id
       IN /\ free_list' = a.free
          /\ \/ /\ disk' = WrittenBack(f, frames[f].page)
                /\ frames' = [frames EXCEPT ![f] =
                                [page |-> p, data |-> disk'[p], dirty |-> FALSE, pins |-> 1]]
                /\ lookup' = [WithoutPageOf(f) EXCEPT ![p] = f]
                /\ replacer' = RPin(a.rep, f)
                /\ GivePin(c, p, f)
                /\ sweep' = Race(c)
                /\ UNCHANGED ioErrors
             \/ /\ frames[f].dirty
                /\ IOError
                /\ replacer' = a.rep
                /\ UNCHANGED <<frames, lookup, disk, pin, sweep>>
             \/ /\ IOError
                /\ disk' = WrittenBack(f, frames[f].page)
                /\ frames' = [frames EXCEPT ![f] = ResetFrame]
                /\ lookup' = WithoutPageOf(f)
                /\ replacer' = a.rep
                /\ sweep' = Race(c)
                /\ UNCHANGED pin

-----------------------------------------------------------------------------
(* The client writes to the memory it was given, then unpins it. *)

Write(c, v) ==
  /\ pin[c] # NoPin
  /\ v # frames[pin[c].frame].data
  /\ frames' = [frames EXCEPT ![pin[c].frame].data = v]
  /\ pin' = [pin EXCEPT ![c].wrote = TRUE]
  /\ UNCHANGED <<free_list, lookup, replacer, disk, sweep, ioErrors>>

\* Mutant of UnpinPage: a dirty page keeps its pin.
UnpinKeepsDirtyPin(c, is_dirty) ==
  /\ pin[c] # NoPin
  /\ LET f == pin[c].frame
     IN IF is_dirty THEN UNCHANGED <<frames, replacer>>
        ELSE /\ frames' = [frames EXCEPT ![f].pins = @ - 1]
             /\ replacer' = IF frames[f].pins = 1 THEN RUnpin(replacer, f) ELSE replacer
  /\ pin' = [pin EXCEPT ![c] = NoPin]
  /\ UNCHANGED <<free_list, lookup, disk, sweep, ioErrors>>

\* UnpinPage is false, and changes nothing, for a page that is not in the pool or not
\* in use.  The replacer's Unpin may throw before the dirty flag is set.  A client that
\* wrote passes is_dirty, one that did not may pass it too.
UnpinPage(c, is_dirty) ==
  LET p == pin[c].page
      f == lookup[p]
      last == frames[f].pins = 1
      throws == last /\ RUnpinThrows(replacer, f)
  IN /\ pin[c] # NoPin
     /\ pin[c].wrote => is_dirty
     /\ IF f = None \/ ~InUse(f)
        THEN UNCHANGED <<frames, replacer>>
        ELSE /\ frames' = [frames EXCEPT ![f].pins = @ - 1,
                                         ![f].dirty = @ \/ (is_dirty /\ ~throws)]
             /\ replacer' = IF last /\ ~throws THEN RUnpin(replacer, f) ELSE replacer
     /\ pin' = [pin EXCEPT ![c] = NoPin]
     /\ UNCHANGED <<free_list, lookup, disk, sweep, ioErrors>>

-----------------------------------------------------------------------------
(* DeletePage and FlushPage, each with what it leaves of the calling sweep. *)

\* DeletePage(fid, pid).  after[r] is the caller's sweep when it returns r; when
\* WritePage or the replacer's Unpin throws, the sweep is over.
DeletePage(c, p, after) ==
  LET f == lookup[p]
  IN \/ /\ f = None
        /\ sweep' = [sweep EXCEPT ![c] = after[TRUE]]
        /\ UNCHANGED <<frames, free_list, lookup, replacer, disk, ioErrors>>
     \/ /\ f # None /\ InUse(f)
        /\ sweep' = [sweep EXCEPT ![c] = after[FALSE]]
        /\ UNCHANGED <<frames, free_list, lookup, replacer, disk, ioErrors>>
     \/ /\ f # None /\ ~InUse(f) /\ frames[f].dirty
        /\ IOError
        /\ sweep' = [sweep EXCEPT ![c] = NoSweep]
        /\ UNCHANGED <<frames, free_list, lookup, replacer, disk>>
     \/ /\ f # None /\ ~InUse(f)
        /\ disk' = WrittenBack(f, p)
        /\ frames' = [frames EXCEPT ![f] = ResetFrame]
        /\ free_list' = Append(free_list, f)
        /\ IF RUnpinThrows(replacer, f)
           THEN /\ sweep' = [sweep EXCEPT ![c] = NoSweep]
                /\ UNCHANGED <<lookup, replacer>>
           ELSE /\ replacer' = RUnpin(replacer, f)
                /\ lookup' = [lookup EXCEPT ![p] = None]
                /\ sweep' = [Race(c) EXCEPT ![c] = after[TRUE]]
        /\ UNCHANGED ioErrors

\* FlushPage(fid, pid): false for a page not in the pool, and the write may throw.
FlushPage(c, p, after) ==
  LET f == lookup[p]
      write == f # None /\ frames[f].dirty
  IN \/ /\ ~write
        /\ sweep' = [sweep EXCEPT ![c] = after[f # None]]
        /\ UNCHANGED <<frames, disk, ioErrors>>
     \/ /\ write
        /\ disk' = WrittenBack(f, p)
        /\ frames' = [frames EXCEPT ![f].dirty = FALSE]
        /\ sweep' = [sweep EXCEPT ![c] = after[TRUE]]
        /\ UNCHANGED ioErrors
     \/ /\ write
        /\ IOError
        /\ sweep' = [sweep EXCEPT ![c] = NoSweep]
        /\ UNCHANGED <<frames, disk>>

Delete(c, p) ==
  /\ Idle(c)
  /\ DeletePage(c, p, [ok \in BOOLEAN |-> NoSweep])
  /\ UNCHANGED pin

Flush(c, p) ==
  /\ Idle(c)
  /\ FlushPage(c, p, [ok \in BOOLEAN |-> NoSweep])
  /\ UNCHANGED <<free_list, lookup, replacer, pin>>

-----------------------------------------------------------------------------
(* DeleteAllPages(fid) and FlushAllPages(fid). *)

StartSweep(c, op, fid) ==
  /\ Idle(c)
  /\ sweep' = [sweep EXCEPT ![c] = [op |-> op, fid |-> fid, raced |-> FALSE,
                                    todo |-> {p \in Cached : Fid(p) = fid}]]
  /\ UNCHANGED <<frames, free_list, lookup, replacer, disk, pin, ioErrors>>

\* Mutant of SweepStep: DeleteAllPages goes on past a page it cannot delete.
SweepPassesPinned(c) ==
  \E p \in sweep[c].todo :
    LET rest == [sweep[c] EXCEPT !.todo = @ \ {p}]
    IN /\ sweep[c].op = "delete"
       /\ DeletePage(c, p, [ok \in BOOLEAN |-> rest])
       /\ UNCHANGED pin

\* One turn of the loop.  DeleteAllPages stops at the first page it cannot delete.
SweepStep(c) ==
  \E p \in sweep[c].todo :
    LET rest == [sweep[c] EXCEPT !.todo = @ \ {p}]
    IN \/ /\ sweep[c].op = "delete"
          /\ DeletePage(c, p, [ok \in BOOLEAN |-> IF ok THEN rest ELSE NoSweep])
          /\ UNCHANGED pin
       \/ /\ sweep[c].op = "flush"
          /\ FlushPage(c, p, [ok \in BOOLEAN |-> rest])
          /\ UNCHANGED <<free_list, lookup, replacer, pin>>

\* Undefined behaviour: the map changed under the iteration, which may pass pages over.
SweepSkip(c) ==
  /\ sweep[c].raced
  /\ \E p \in sweep[c].todo : sweep' = [sweep EXCEPT ![c].todo = @ \ {p}]
  /\ UNCHANGED <<frames, free_list, lookup, replacer, disk, pin, ioErrors>>

\* The loop has seen every page: true, unless a page could not be flushed.
SweepEnd(c) ==
  /\ sweep[c] # NoSweep /\ sweep[c].todo = {}
  /\ sweep' = [sweep EXCEPT ![c] = NoSweep]
  /\ UNCHANGED <<frames, free_list, lookup, replacer, disk, pin, ioErrors>>

-----------------------------------------------------------------------------
ClientStep(c) ==
  \/ \E p \in Page : \/ FetchCached(c, p) \/ FetchMiss(c, p)
                     \/ Delete(c, p) \/ Flush(c, p)
  \/ \E v \in Value : Write(c, v)
  \/ \E is_dirty \in BOOLEAN : UnpinPage(c, is_dirty)
  \/ \E op \in SweepOps : \E p \in Page : StartSweep(c, op, Fid(p))
  \/ SweepStep(c) \/ SweepSkip(c) \/ SweepEnd(c)

Next == \E c \in Client : ClientStep(c)

Spec == Init /\ [][Next]_vars
-----------------------------------------------------------------------------
(* Properties. *)

TypeOK ==
  /\ frames \in [Frame -> [page : Page \cup {None}, data : Value, dirty : BOOLEAN,
                           pins : 0 .. Cardinality(Client)]]
  /\ free_list \in Seq(Frame)
  /\ lookup \in [Page -> Frame \cup {None}]
  /\ disk \in [Page -> Value]
  /\ pin \in [Client -> [page : Page \cup {None}, frame : Frame \cup {None}, wrote : BOOLEAN]]
  /\ sweep \in [Client -> [op : {"none"} \cup SweepOps, fid : {Fid(p) : p \in Page} \cup {None},
                            todo : SUBSET Page, raced : BOOLEAN]]
  /\ ioErrors \in 0 .. MaxIOErrors

\* page_frame_lookup_ and the pages in the frames agree both ways, so no frame serves
\* two pages; and a frame on the free list is cleared, serves no page and is listed once.
FrameOwnership ==
  /\ \A p \in Cached : frames[lookup[p]].page = p
  /\ \A f \in Frame : frames[f].page # None => lookup[frames[f].page] = f
  /\ \A i \in DOMAIN free_list : frames[free_list[i]] = ResetFrame
  /\ \A i, j \in DOMAIN free_list : free_list[i] = free_list[j] => i = j

\* A page a client holds stays in the frame whose memory the client was given, whatever
\* other clients fetch, delete or sweep; and pin_count_ counts exactly the clients that
\* hold the frame, so the last UnpinPage and no other makes it evictable.
PinProtects ==
  /\ \A c \in Client : pin[c].page # None => lookup[pin[c].page] = pin[c].frame
  /\ \A f \in Frame : frames[f].pins = Cardinality({c \in Client : pin[c].frame = f})

\* GetAvailableFrame throws WSDB_NO_FREE_FRAME only when every cached page is in use.
NoSpuriousFull ==
  AvailableFrames = {} => \A p \in Cached : InUse(lookup[p])

\* A frame that is neither free, nor serving a page, nor known to the replacer as
\* evictable never comes back; each failed read or write costs one such frame at most.
Evictable(f) ==
  IF IsLRU THEN f \in replacer.evictable ELSE replacer.node[f].evictable
Lost == {f \in Frame : /\ \A i \in DOMAIN free_list : free_list[i] # f
                       /\ frames[f].page = None
                       /\ ~Evictable(f)}
LossBounded == Cardinality(Lost) <= ioErrors

\* A DeleteAllPages whose map nobody else changed has deleted, or still has before it,
\* every page of its file that is in the pool: when it returns true none is left.
SweepComplete ==
  \A c \in Client :
    sweep[c].op = "delete" /\ ~sweep[c].raced =>
      {p \in Cached : Fid(p) = sweep[c].fid} \subseteq sweep[c].todo

\* Under LRU-K, a node that Victim's node_store_[i] made by accident (k = 0, for which
\* the distance reads an empty history) is never made evictable: the pool pins every
\* frame before it first asks for a victim, or loses it.
DefaultNodeUnused ==
  ~IsLRU => \A f \in Frame :
    replacer.node[f].known /\ replacer.node[f].k = 0 => ~replacer.node[f].evictable

\* The pool is a page store: no fetch, eviction, flush, deletion, sweep or I/O error
\* changes the contents of a page or what a client that holds one sees; only a client's
\* own write does.  In particular a write is never lost with its frame.
Store == INSTANCE PageStore WITH
  store  <- [p \in Page |-> IF lookup[p] = None THEN disk[p] ELSE frames[lookup[p]].data],
  holder <- [c \in Client |-> pin[c].page],
  view   <- [c \in Client |-> IF pin[c].page = None THEN None ELSE frames[pin[c].frame].data]

StoreSpec == Store!Spec
=============================================================================
