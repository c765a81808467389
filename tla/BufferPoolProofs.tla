--------------------------- MODULE BufferPoolProofs ---------------------------
(***************************************************************************)
(* Proofs about BufferPool, for a pool, a set of pages and a set of client *)
(* threads of any size and either replacement policy: type correctness,    *)
(* FrameOwnership, PinProtects, SweepComplete, and that a pool implements  *)
(* PageStore: what a client wrote is never lost, whichever frame, file or  *)
(* cache it is in.                                                         *)
(*                                                                         *)
(* With the LRU policy a failed write takes a cached page out of lru_hash_ *)
(* and a later DeletePage throws halfway, so the results are for a pool    *)
(* under LRU-K, or one whose reads and writes do not fail.                 *)
(*                                                                         *)
(* The second half is about what the pool relies on its replacers for:     *)
(* that LRU finds a frame whenever there is one (NoSpuriousFull) and       *)
(* evicts the page unused for longest (EvictsLeastRecent), that a failed   *)
(* read or write costs one frame at most (LossBounded), and that LRU-K     *)
(* never evicts a node it made by accident (DefaultNodeUnused).            *)
(***************************************************************************)
EXTENDS MCBufferPool, FiniteSetTheorems, SequenceTheorems, SharedFacts

Reliable == IsLRU => MaxIOErrors = 0

-----------------------------------------------------------------------------
(* What the pool relies on in either replacer. *)

Known(r, f) == IF IsLRU THEN f \in r.hash ELSE r.node[f].known
CanEvict(r, f) == IF IsLRU THEN f \in r.evictable ELSE r.node[f].evictable

Node == [known : BOOLEAN, k : Nat, history : Seq(Nat), evictable : BOOLEAN]

LRUOK(r) ==
  /\ r \in [list : {r.list}, hash : SUBSET Frame, evictable : SUBSET Frame, size : Int]
  /\ r.evictable \subseteq r.hash

\* cur_size_ may be less than the number of evictable frames, never more.
LRUKOK(r) ==
  /\ r \in [node : [Frame -> Node], ts : Nat, size : Nat]
  /\ \A f \in Frame : r.node[f].evictable => r.node[f].known
  /\ r.size <= Cardinality(LRUK!EvictableFrames(r))

ReplacerOK(r) == IF IsLRU THEN LRUOK(r) ELSE LRUKOK(r)

LEMMA NodeFacts ==
  /\ LRUK!DefaultNode \in Node
  /\ [LRUK!DefaultNode EXCEPT !.k = K] \in Node
  /\ \A n \in Node, b \in BOOLEAN :
       /\ [n EXCEPT !.evictable = b] \in Node
       /\ [n EXCEPT !.evictable = b].known = n.known
       /\ [n EXCEPT !.evictable = b].evictable = b
  /\ \A n \in Node, t \in Nat : /\ LRUK!AddHistory(n, t) \in Node
                                /\ LRUK!AddHistory(n, t).known = n.known
<1>1. LRUK!DefaultNode \in Node
  <2>1. <<>> \in Seq(Nat)
    OBVIOUS
  <2>2. QED
    BY <2>1 DEF LRUK!DefaultNode, Node
<1>2. [LRUK!DefaultNode EXCEPT !.k = K] \in Node
  BY <1>1, PolicyAssumption DEF Node
<1>3. ASSUME NEW n \in Node, NEW t \in Nat
      PROVE  /\ LRUK!AddHistory(n, t) \in Node
             /\ LRUK!AddHistory(n, t).known = n.known
  <2> DEFINE h == Append(n.history, t)
  <2>1. h \in Seq(Nat) /\ h # <<>>
    BY AppendProperties DEF Node
  <2>2. Tail(h) \in Seq(Nat)
    BY <2>1, HeadTailProperties
  <2> HIDE DEF h
  <2>3. \A g \in Seq(Nat) : /\ [n EXCEPT !.history = g] \in Node
                            /\ [n EXCEPT !.history = g].known = n.known
    BY DEF Node
  <2>4. QED
    <3> DEFINE g == IF Len(h) > n.k THEN Tail(h) ELSE h
    <3>1. LRUK!AddHistory(n, t) = [n EXCEPT !.history = g]
      BY DEF LRUK!AddHistory, h
    <3>2. g \in Seq(Nat)
      BY <2>1, <2>2
    <3> HIDE DEF g
    <3>3. QED
      BY <2>3, <3>1, <3>2
<1>4. \A n \in Node, b \in BOOLEAN :
       /\ [n EXCEPT !.evictable = b] \in Node
       /\ [n EXCEPT !.evictable = b].known = n.known
       /\ [n EXCEPT !.evictable = b].evictable = b
  BY DEF Node
<1>5. QED
  BY <1>1, <1>2, <1>3, <1>4

LEMMA FrameFinite == IsFiniteSet(Frame)
  BY FS_Interval, SizeAssumption DEF Frame

\* The number of evictable frames of a node table that differs in one frame.
LEMMA EvictableCount ==
  ASSUME NEW r, NEW s, LRUKOK(r),
         s \in [node : [Frame -> Node], ts : Nat, size : Nat],
         NEW f \in Frame,
         \A g \in Frame \ {f} : s.node[g].evictable = r.node[g].evictable
  PROVE  LET old == Cardinality(LRUK!EvictableFrames(r))
             new == Cardinality(LRUK!EvictableFrames(s))
         IN /\ old \in Nat /\ new \in Nat
            /\ s.node[f].evictable = r.node[f].evictable => new = old
            /\ r.node[f].evictable /\ ~s.node[f].evictable => new = old - 1
            /\ ~r.node[f].evictable /\ s.node[f].evictable => new = old + 1
<1> DEFINE E == LRUK!EvictableFrames(r)
           D == LRUK!EvictableFrames(s)
<1>1. E \subseteq Frame /\ D \subseteq Frame
  BY DEF LRUK!EvictableFrames
<1>2. IsFiniteSet(E) /\ IsFiniteSet(D)
  BY <1>1, FrameFinite, FS_Subset
<1>3. Cardinality(E) \in Nat /\ Cardinality(D) \in Nat
  BY <1>2, FS_CardinalityType
<1>4. s.node[f].evictable = r.node[f].evictable => D = E
  BY DEF LRUK!EvictableFrames
<1>5. r.node[f].evictable /\ ~s.node[f].evictable => D = E \ {f} /\ f \in E
  BY DEF LRUK!EvictableFrames
<1>6. ~r.node[f].evictable /\ s.node[f].evictable => D = E \cup {f} /\ f \notin E
  BY DEF LRUK!EvictableFrames
<1>7. QED
  BY <1>2, <1>3, <1>4, <1>5, <1>6, FS_AddElement, FS_RemoveElement

\* A pinned frame is known and cannot be evicted; no other frame's standing changes.
LEMMA PinFacts ==
  ASSUME NEW r, ReplacerOK(r), NEW f \in Frame
  PROVE  /\ ReplacerOK(RPin(r, f))
         /\ Known(RPin(r, f), f) /\ ~CanEvict(RPin(r, f), f)
         /\ \A g \in Frame \ {f} : /\ Known(RPin(r, f), g) = Known(r, g)
                                   /\ CanEvict(RPin(r, f), g) = CanEvict(r, g)
<1>1. CASE IsLRU
  BY <1>1 DEF ReplacerOK, LRUOK, RPin, LRU!Pin, Known, CanEvict
<1>2. CASE ~IsLRU
  <2> DEFINE s == LRUK!Pin(r, f)
  <2>1. LRUKOK(r)
    BY <1>2 DEF ReplacerOK
  <2>2. /\ s \in [node : [Frame -> Node], ts : Nat, size : Nat]
        /\ s.node[f].known /\ ~s.node[f].evictable
    <3>1. r.node[f] \in Node /\ r.ts \in Nat
      BY <2>1 DEF LRUKOK
    <3>2. s.node[f] \in Node /\ s.node[f].known /\ ~s.node[f].evictable
      <4> DEFINE base == IF r.node[f].known THEN r.node[f]
                         ELSE [LRUK!DefaultNode EXCEPT !.k = K]
      <4>1. s.node[f] = [LRUK!AddHistory(base, r.ts) EXCEPT !.evictable = FALSE]
        BY <2>1 DEF LRUKOK, LRUK!Pin
      <4>2. base \in Node /\ base.known
        BY <3>1, NodeFacts DEF LRUK!DefaultNode
      <4> DEFINE m == LRUK!AddHistory(base, r.ts)
      <4> HIDE DEF base, s
      <4>3. m \in Node /\ m.known
        BY <3>1, <4>2, NodeFacts
      <4>4. s.node[f] = [m EXCEPT !.evictable = FALSE]
        BY <4>1
      <4> HIDE DEF m
      <4>5. QED
        BY <4>3, <4>4, NodeFacts
    <3>3. s.node = [r.node EXCEPT ![f] = s.node[f]]
      BY <2>1 DEF LRUKOK, LRUK!Pin
    <3>4. s.ts \in Nat /\ s.size \in Nat
      BY <2>1 DEF LRUKOK, LRUK!Pin
    <3>5. s = [node |-> s.node, ts |-> s.ts, size |-> s.size]
      BY DEF LRUK!Pin
    <3>6. s.node \in [Frame -> Node]
      BY <2>1, <3>2, <3>3 DEF LRUKOK
    <3> HIDE DEF s
    <3>7. QED
      BY <3>2, <3>4, <3>5, <3>6
  <2>4. \A g \in Frame \ {f} : s.node[g] = r.node[g]
    BY <2>1 DEF LRUKOK, LRUK!Pin
  <2>5. s.size <= Cardinality(LRUK!EvictableFrames(s))
    <3> HIDE DEF s
    <3>1. r.node[f].evictable => s.size = IF r.size > 0 THEN r.size - 1 ELSE r.size
      BY <2>1 DEF s, LRUK!Pin
    <3>2. s.size <= r.size
      BY <2>1 DEF s, LRUK!Pin, LRUKOK
    <3>3. r.node[f] \in Node /\ s.node[f] \in Node
      BY <2>1, <2>2 DEF LRUKOK
    <3> DEFINE old == Cardinality(LRUK!EvictableFrames(r))
               new == Cardinality(LRUK!EvictableFrames(s))
    <3>4. /\ old \in Nat /\ new \in Nat
          /\ r.node[f].evictable => new = old - 1
          /\ ~r.node[f].evictable => new = old
      <4>1. ~r.node[f].evictable => s.node[f].evictable = r.node[f].evictable
        BY <2>2, <3>3 DEF Node
      <4>2. /\ old \in Nat /\ new \in Nat
            /\ s.node[f].evictable = r.node[f].evictable => new = old
            /\ r.node[f].evictable /\ ~s.node[f].evictable => new = old - 1
            /\ ~r.node[f].evictable /\ s.node[f].evictable => new = old + 1
        <5>1. LRUKOK(r)
          BY <2>1
        <5>2. \A g \in Frame \ {f} : s.node[g].evictable = r.node[g].evictable
          BY <2>4
        <5>3. QED
          BY <2>2, <5>1, <5>2, EvictableCount, Zenon
      <4>3. QED
        BY <2>2, <4>1, <4>2
    <3>5. r.size \in Nat /\ s.size \in Nat /\ r.size <= old
      BY <2>1, <2>2 DEF LRUKOK
    <3> HIDE DEF old, new
    <3>6. s.size <= new
      BY <3>1, <3>2, <3>4, <3>5
    <3>7. QED
      BY <3>6 DEF new
  <2>6. LRUKOK(s)
    BY <2>1, <2>2, <2>4, <2>5 DEF LRUKOK
  <2>7. QED
    BY <1>2, <2>2, <2>4, <2>6 DEF ReplacerOK, RPin, Known, CanEvict
<1>3. QED
  BY <1>1, <1>2

\* Unpin makes a frame the replacer knows evictable.
LEMMA UnpinFacts ==
  ASSUME NEW r, ReplacerOK(r), NEW f \in Frame, Known(r, f)
  PROVE  /\ ReplacerOK(RUnpin(r, f))
         /\ Known(RUnpin(r, f), f) /\ CanEvict(RUnpin(r, f), f)
         /\ \A g \in Frame \ {f} : /\ Known(RUnpin(r, f), g) = Known(r, g)
                                   /\ CanEvict(RUnpin(r, f), g) = CanEvict(r, g)
<1>1. CASE IsLRU
  BY <1>1 DEF ReplacerOK, LRUOK, RUnpin, LRU!Unpin, Known, CanEvict
<1>2. CASE ~IsLRU
  <2> DEFINE s == LRUK!Unpin(r, f)
  <2>1. LRUKOK(r) /\ r.node[f].known
    BY <1>2 DEF ReplacerOK, Known
  <2>2. s \in [node : [Frame -> Node], ts : Nat, size : Nat]
    <3>1. r.node[f] \in Node /\ [r.node[f] EXCEPT !.evictable = TRUE] \in Node
      BY <2>1, NodeFacts DEF LRUKOK
    <3>2. s.node = [r.node EXCEPT ![f] = [r.node[f] EXCEPT !.evictable = TRUE]]
      BY <2>1 DEF LRUKOK, LRUK!Unpin
    <3>3. s.node \in [Frame -> Node]
      BY <2>1, <3>1, <3>2 DEF LRUKOK
    <3>4. s.ts \in Nat /\ s.size \in Nat
      BY <2>1 DEF LRUKOK, LRUK!Unpin
    <3>5. s = [node |-> s.node, ts |-> s.ts, size |-> s.size]
      BY <2>1 DEF LRUKOK, LRUK!Unpin
    <3> HIDE DEF s
    <3>6. QED
      BY <3>3, <3>4, <3>5
  <2>3. s.node[f].known /\ s.node[f].evictable
    BY <2>1 DEF LRUKOK, LRUK!Unpin, Node
  <2>4. \A g \in Frame \ {f} : s.node[g] = r.node[g]
    BY <2>1 DEF LRUKOK, LRUK!Unpin
  <2>5. s.size <= Cardinality(LRUK!EvictableFrames(s))
    <3>1. s.size = IF r.node[f].evictable THEN r.size ELSE r.size + 1
      BY <2>1 DEF LRUKOK, LRUK!Unpin
    <3>2. r.node[f] \in Node /\ s.node[f] \in Node
      BY <2>1, <2>2 DEF LRUKOK
    <3> HIDE DEF s
    <3> DEFINE old == Cardinality(LRUK!EvictableFrames(r))
               new == Cardinality(LRUK!EvictableFrames(s))
    <3>3. /\ old \in Nat /\ new \in Nat
          /\ r.node[f].evictable => new = old
          /\ ~r.node[f].evictable => new = old + 1
      <4>1. r.node[f].evictable => s.node[f].evictable = r.node[f].evictable
        BY <2>3, <3>2 DEF Node
      <4>2. /\ old \in Nat /\ new \in Nat
            /\ s.node[f].evictable = r.node[f].evictable => new = old
            /\ r.node[f].evictable /\ ~s.node[f].evictable => new = old - 1
            /\ ~r.node[f].evictable /\ s.node[f].evictable => new = old + 1
        <5>1. LRUKOK(r)
          BY <2>1
        <5>2. \A g \in Frame \ {f} : s.node[g].evictable = r.node[g].evictable
          BY <2>4
        <5>3. QED
          BY <2>2, <5>1, <5>2, EvictableCount, Zenon
      <4> HIDE DEF old, new
      <4>3. QED
        BY <2>3, <4>1, <4>2
    <3>4. r.size \in Nat /\ s.size \in Nat /\ r.size <= old
      BY <2>1, <2>2 DEF LRUKOK
    <3> HIDE DEF old, new
    <3>5. s.size <= new
      BY <3>1, <3>3, <3>4
    <3>6. QED
      BY <3>5 DEF new
  <2>6. LRUKOK(s)
    BY <2>1, <2>2, <2>3, <2>4, <2>5 DEF LRUKOK
  <2>7. QED
    BY <1>2, <2>3, <2>4, <2>6 DEF ReplacerOK, RUnpin, Known, CanEvict
<1>3. QED
  BY <1>1, <1>2

\* A victim is a frame that could be evicted: the undefined choices never arise.
LEMMA VictimFacts ==
  ASSUME NEW r, ReplacerOK(r), NEW f \in RVictims(r)
  PROVE  f \in Frame /\ CanEvict(r, f)
<1>1. CASE IsLRU
  BY <1>1 DEF ReplacerOK, LRUOK, RVictims, LRU!Victims, LRU!LastEvictable, CanEvict
<1>2. CASE ~IsLRU
  <2>1. LRUKOK(r) /\ f \in LRUK!Victims(r)
    BY <1>2 DEF ReplacerOK, RVictims
  <2>2. r.size > 0
    BY <2>1 DEF LRUK!Victims, LRUKOK
  <2>3. LRUK!EvictableFrames(r) # {}
    BY <2>1, <2>2, FS_EmptySet DEF LRUKOK
  <2>4. f \in LRUK!EvictableFrames(r)
    BY <2>1, <2>2, <2>3 DEF LRUK!Victims, LRUK!Oldest
  <2>5. QED
    BY <1>2, <2>4 DEF LRUK!EvictableFrames, CanEvict
<1>3. QED
  BY <1>1, <1>2

\* An evicted frame cannot be evicted again; LRU-K still knows it.
LEMMA EvictFacts ==
  ASSUME NEW r, ReplacerOK(r), NEW f \in Frame, CanEvict(r, f)
  PROVE  /\ ReplacerOK(REvict(r, f))
         /\ ~CanEvict(REvict(r, f), f)
         /\ ~IsLRU => Known(REvict(r, f), f)
         /\ \A g \in Frame \ {f} : /\ Known(r, g) => Known(REvict(r, f), g)
                                   /\ CanEvict(REvict(r, f), g) = CanEvict(r, g)
<1>1. CASE IsLRU
  BY <1>1 DEF ReplacerOK, LRUOK, REvict, LRU!Evict, Known, CanEvict
<1>2. CASE ~IsLRU
  <2> DEFINE s == LRUK!Evict(r, f)
  <2>1. LRUKOK(r) /\ r.node[f].evictable
    BY <1>2 DEF ReplacerOK, CanEvict
  <2>2. s \in [node : [Frame -> Node], ts : Nat, size : Nat]
    <3>1. \A g \in Frame : r.node[g] \in Node
      BY <2>1 DEF LRUKOK
    <3>2. [known |-> TRUE, k |-> r.node[f].k, history |-> <<>>, evictable |-> FALSE] \in Node
      <4>1. <<>> \in Seq(Nat)
        OBVIOUS
      <4>2. QED
        BY <3>1, <4>1 DEF Node
    <3>3. s.node \in [Frame -> Node]
      BY <2>1, <3>1, <3>2, NodeFacts DEF LRUKOK, LRUK!Evict
    <3>4. s.ts \in Nat /\ s.size \in Nat
      BY <2>1 DEF LRUKOK, LRUK!Evict
    <3>5. s = [node |-> s.node, ts |-> s.ts, size |-> s.size]
      BY <2>1 DEF LRUKOK, LRUK!Evict
    <3> HIDE DEF s
    <3>6. QED
      BY <3>3, <3>4, <3>5
  <2>3. s.node[f].known /\ ~s.node[f].evictable
    BY <2>1 DEF LRUKOK, LRUK!Evict, Node
  <2>4. \A g \in Frame \ {f} : /\ s.node[g].evictable = r.node[g].evictable
                               /\ s.node[g].known
    BY <2>1 DEF LRUKOK, LRUK!Evict, LRUK!DefaultNode, Node
  <2>5. s.size <= Cardinality(LRUK!EvictableFrames(s))
    <3>1. s.size = IF r.size > 0 THEN r.size - 1 ELSE r.size
      BY <2>1 DEF LRUKOK, LRUK!Evict
    <3> HIDE DEF s
    <3>2. QED
      BY <2>1, <2>2, <2>3, <2>4, <3>1, EvictableCount DEF LRUKOK
  <2>6. LRUKOK(s)
    BY <2>2, <2>3, <2>4, <2>5 DEF LRUKOK
  <2>7. QED
    BY <1>2, <2>3, <2>4, <2>6 DEF ReplacerOK, REvict, Known, CanEvict
<1>3. QED
  BY <1>1, <1>2

LEMMA UnpinThrowsFact ==
  ASSUME NEW r, NEW f
  PROVE  RUnpinThrows(r, f) <=> ~Known(r, f)
  BY DEF RUnpinThrows, Known, LRU!UnpinThrows, LRUK!UnpinThrows

-----------------------------------------------------------------------------
(* The inductive invariant. *)

FrameRec == [page : Page \cup {None}, data : Value, dirty : BOOLEAN, pins : Nat]
PinRec   == [page : Page \cup {None}, frame : Frame \cup {None}, wrote : BOOLEAN]
SweepRec == [op : {"none"} \cup SweepOps, fid : {Fid(p) : p \in Page} \cup {None},
             todo : SUBSET Page, raced : BOOLEAN]

TypeInv ==
  /\ frames \in [Frame -> FrameRec]
  /\ free_list \in Seq(Frame)
  /\ lookup \in [Page -> Frame \cup {None}]
  /\ disk \in [Page -> Value]
  /\ pin \in [Client -> PinRec]
  /\ \A c \in Client : pin[c].page = None <=> pin[c].frame = None
  /\ \A c \in Client : pin[c].page = None => pin[c] = NoPin
  /\ sweep \in [Client -> SweepRec]
  /\ ioErrors \in 0 .. MaxIOErrors

\* The replacer only offers frames nobody holds, and it knows every frame that serves a
\* page, so that Unpin of one never throws.
ReplacerInv ==
  /\ ReplacerOK(replacer)
  /\ \A f \in Frame : CanEvict(replacer, f) => frames[f].pins = 0
  /\ \A p \in Page : lookup[p] # None => Known(replacer, lookup[p])

IInv == TypeInv /\ FrameOwnership /\ PinProtects /\ ReplacerInv

LEMMA NoneFacts == None \notin Frame /\ None \notin Page
  BY DataAssumption, SizeAssumption DEF Frame

LEMMA ResetFacts == ResetFrame \in FrameRec
  BY DataAssumption DEF ResetFrame, FrameRec

LEMMA FrameEdits ==
  \A q \in FrameRec :
    /\ [q EXCEPT !.pins = @ + 1] \in FrameRec
    /\ \A v \in Value : [q EXCEPT !.data = v] \in FrameRec
    /\ [q EXCEPT !.dirty = FALSE] \in FrameRec
    /\ \A b \in BOOLEAN : q.pins > 0 => [q EXCEPT !.pins = @ - 1, !.dirty = b] \in FrameRec
<1>1. SUFFICES ASSUME NEW q \in FrameRec
               PROVE  /\ [q EXCEPT !.pins = @ + 1] \in FrameRec
                      /\ \A v \in Value : [q EXCEPT !.data = v] \in FrameRec
                      /\ [q EXCEPT !.dirty = FALSE] \in FrameRec
                      /\ \A b \in BOOLEAN : q.pins > 0 =>
                           [q EXCEPT !.pins = @ - 1, !.dirty = b] \in FrameRec
  OBVIOUS
<1>2. \A n \in Nat : [q EXCEPT !.pins = n] \in FrameRec
  BY DEF FrameRec
<1>3. \A v \in Value : [q EXCEPT !.data = v] \in FrameRec
  BY DEF FrameRec
<1>4. \A b \in BOOLEAN : [q EXCEPT !.dirty = b] \in FrameRec
  BY DEF FrameRec
<1>5. \A n \in Nat, b \in BOOLEAN : [q EXCEPT !.pins = n, !.dirty = b] \in FrameRec
  BY DEF FrameRec
<1>6. q.pins \in Nat /\ q.pins + 1 \in Nat /\ (q.pins > 0 => q.pins - 1 \in Nat)
  BY DEF FrameRec
<1>7. QED
  BY <1>2, <1>3, <1>4, <1>5, <1>6

-----------------------------------------------------------------------------
(* Counting the clients that hold a frame. *)

Holders(q, f) == {c \in Client : q[c].frame = f}

LEMMA HoldersFinite ==
  ASSUME NEW q, NEW f
  PROVE  /\ IsFiniteSet(Holders(q, f))
         /\ Cardinality(Holders(q, f)) \in Nat
         /\ Cardinality(Holders(q, f)) <= Cardinality(Client)
         /\ Cardinality(Holders(q, f)) = 0 <=> Holders(q, f) = {}
<1>1. Holders(q, f) \subseteq Client
  BY DEF Holders
<1>2. QED
  BY <1>1, ClientAssumption, FS_Subset, FS_CardinalityType, FS_EmptySet

LEMMA CountAdd ==
  ASSUME NEW q \in [Client -> PinRec], NEW c \in Client, q[c].frame = None,
         NEW x, x.frame \in Frame, NEW g \in Frame
  PROVE  Cardinality(Holders([q EXCEPT ![c] = x], g)) =
           IF g = x.frame THEN Cardinality(Holders(q, g)) + 1 ELSE Cardinality(Holders(q, g))
<1>1. CASE g = x.frame
  <2>1. Holders([q EXCEPT ![c] = x], g) = Holders(q, g) \cup {c} /\ c \notin Holders(q, g)
    BY <1>1, NoneFacts DEF Holders
  <2>2. QED
    BY ZenonT(30), <1>1, <2>1, HoldersFinite, FS_AddElement
<1>2. CASE g # x.frame
  <2>1. Holders([q EXCEPT ![c] = x], g) = Holders(q, g)
    BY <1>2, NoneFacts DEF Holders
  <2>2. QED
    BY <1>2, <2>1
<1>3. QED
  BY <1>1, <1>2

LEMMA CountRemove ==
  ASSUME NEW q, NEW s, NEW c \in Client, q[c].frame \in Frame, s[c].frame = None,
         \A d \in Client \ {c} : s[d] = q[d], NEW g \in Frame
  PROVE  /\ g = q[c].frame => Cardinality(Holders(s, g)) = Cardinality(Holders(q, g)) - 1
         /\ g # q[c].frame => Cardinality(Holders(s, g)) = Cardinality(Holders(q, g))
<1>1. CASE g = q[c].frame
  <2>1. Holders(s, g) = Holders(q, g) \ {c} /\ c \in Holders(q, g)
    BY <1>1, NoneFacts DEF Holders
  <2>2. QED
    BY <1>1, <2>1, HoldersFinite, FS_RemoveElement
<1>2. CASE g # q[c].frame
  <2>1. Holders(s, g) = Holders(q, g)
    BY <1>2, NoneFacts DEF Holders
  <2>2. QED
    BY <1>2, <2>1
<1>3. QED
  BY <1>1, <1>2

LEMMA PinCounts ==
  ASSUME IInv
  PROVE  /\ \A f \in Frame : frames[f].pins = Cardinality(Holders(pin, f))
         /\ \A f \in Frame : frames[f].pins = 0 => \A d \in Client : pin[d].frame # f
         /\ \A d \in Client : pin[d].page # None =>
              /\ pin[d].page \in Page /\ pin[d].frame \in Frame
              /\ lookup[pin[d].page] = pin[d].frame
              /\ frames[pin[d].frame].page = pin[d].page
              /\ frames[pin[d].frame].pins > 0
<1>1. \A f \in Frame : frames[f].pins = Cardinality(Holders(pin, f))
  BY DEF IInv, PinProtects, Holders
<1>2. \A f \in Frame : frames[f].pins = 0 => \A d \in Client : pin[d].frame # f
  BY <1>1, HoldersFinite DEF Holders
<1>3. ASSUME NEW d \in Client, pin[d].page # None
      PROVE  /\ pin[d].page \in Page /\ pin[d].frame \in Frame
             /\ lookup[pin[d].page] = pin[d].frame
             /\ frames[pin[d].frame].page = pin[d].page
             /\ frames[pin[d].frame].pins > 0
  <2>1. pin[d] \in PinRec /\ pin[d].frame # None
    BY <1>3 DEF IInv, TypeInv
  <2>2. pin[d].page \in Page /\ pin[d].frame \in Frame
    BY <1>3, <2>1 DEF PinRec
  <2>3. lookup[pin[d].page] = pin[d].frame
    BY <1>3 DEF IInv, PinProtects
  <2>4. frames[pin[d].frame].page = pin[d].page
    BY <2>1, <2>2, <2>3 DEF IInv, FrameOwnership, Cached
  <2>5. frames[pin[d].frame].pins \in Nat
    BY <2>2 DEF IInv, TypeInv, FrameRec
  <2>6. QED
    BY <1>2, <2>2, <2>3, <2>4, <2>5
<1>4. QED
  BY <1>1, <1>2, <1>3

-----------------------------------------------------------------------------
(* The actions preserve the invariant. *)

\* The frame GetAvailableFrame gives is held by nobody and no longer on the free list.
LEMMA AvailableFacts ==
  ASSUME IInv, NEW a \in AvailableFrames
  PROVE  /\ a.id \in Frame /\ frames[a.id].pins = 0
         /\ a.free \in Seq(Frame)
         /\ \A i \in DOMAIN a.free :
              a.free[i] # a.id /\ frames[a.free[i]] = ResetFrame
         /\ \A i, j \in DOMAIN a.free : a.free[i] = a.free[j] => i = j
         /\ ReplacerOK(a.rep)
         /\ ~IsLRU /\ Known(replacer, a.id) => Known(a.rep, a.id)
         /\ \A g \in Frame \ {a.id} : /\ Known(replacer, g) => Known(a.rep, g)
                                      /\ CanEvict(a.rep, g) = CanEvict(replacer, g)
<1> USE DEF IInv, TypeInv, FrameOwnership, ReplacerInv
<1>1. CASE free_list # <<>>
  <2>1. a = [id |-> Head(free_list), free |-> Tail(free_list), rep |-> replacer]
    BY <1>1 DEF AvailableFrames
  <2>2. a.id = free_list[1] /\ a.free \in Seq(Frame) /\ 1 \in DOMAIN free_list
    BY <1>1, <2>1
  <2>3. \A i \in DOMAIN a.free : i + 1 \in DOMAIN free_list /\ a.free[i] = free_list[i + 1]
    BY <1>1, <2>1
  <2>4. a.id \in Frame /\ frames[a.id].pins = 0
    BY <1>1, <2>2 DEF ResetFrame
  <2>5. \A i \in DOMAIN a.free : a.free[i] # a.id /\ frames[a.free[i]] = ResetFrame
    BY <2>2, <2>3
  <2>6. \A i, j \in DOMAIN a.free : a.free[i] = a.free[j] => i = j
    BY <2>2, <2>3
  <2>7. a.rep = replacer
    BY <2>1
  <2>8. QED
    BY <2>2, <2>4, <2>5, <2>6, <2>7
<1>2. CASE free_list = <<>>
  <2>1. PICK f \in RVictims(replacer) :
          a = [id |-> f, free |-> free_list, rep |-> REvict(replacer, f)]
    BY <1>2 DEF AvailableFrames
  <2>2. f \in Frame /\ CanEvict(replacer, f)
    BY VictimFacts
  <2>3. a.id = f /\ a.free = <<>> /\ a.rep = REvict(replacer, f)
    BY <1>2, <2>1
  <2>4. frames[f].pins = 0
    BY <2>2
  <2>5. QED
    BY <2>2, <2>3, <2>4, EvictFacts
<1>3. QED
  BY <1>1, <1>2

LEMMA WrittenBackType ==
  ASSUME TypeInv, NEW f \in Frame, NEW p
  PROVE  WrittenBack(f, p) \in [Page -> Value]
<1>1. frames[f].data \in Value
  BY DEF TypeInv, FrameRec
<1>2. QED
  BY <1>1 DEF TypeInv, WrittenBack

LEMMA SweepFacts ==
  ASSUME TypeInv
  PROVE  /\ NoSweep \in SweepRec
         /\ \A c \in Client : Race(c) \in [Client -> SweepRec]
         /\ \A c \in Client : sweep[c] \in SweepRec
  BY DEF TypeInv, NoSweep, Race, SweepRec

\* What giving a free frame or a cached one to client c does to the pins.
LEMMA PinTaken ==
  ASSUME IInv, NEW c \in Client, NEW p \in Page, NEW f \in Frame,
         pin[c] = NoPin, GivePin(c, p, f)
  PROVE  /\ pin' \in [Client -> PinRec]
         /\ \A d \in Client : /\ pin'[d].page = None <=> pin'[d].frame = None
                              /\ pin'[d].page = None => pin'[d] = NoPin
         /\ pin'[c].page = p /\ pin'[c].frame = f
         /\ \A d \in Client \ {c} : pin'[d] = pin[d]
         /\ \A g \in Frame : Cardinality(Holders(pin', g)) =
              IF g = f THEN frames[g].pins + 1 ELSE frames[g].pins
<1> DEFINE x == [page |-> p, frame |-> f, wrote |-> FALSE]
<1>1. x \in PinRec /\ x.page = p /\ x.frame = f
  BY DEF PinRec
<1>2. pin' = [pin EXCEPT ![c] = x]
  BY DEF GivePin
<1> HIDE DEF x
<1>3. pin \in [Client -> PinRec] /\ pin[c].frame = None
  BY DEF IInv, TypeInv, NoPin
<1>4. pin'[c] = x /\ \A d \in Client \ {c} : pin'[d] = pin[d]
  BY <1>2, <1>3
<1>5. pin' \in [Client -> PinRec]
  BY <1>1, <1>2, <1>3
<1>6. \A d \in Client : /\ pin'[d].page = None <=> pin'[d].frame = None
                        /\ pin'[d].page = None => pin'[d] = NoPin
  BY <1>1, <1>4, NoneFacts DEF IInv, TypeInv
<1>7. ASSUME NEW g \in Frame
      PROVE  Cardinality(Holders(pin', g)) =
               IF g = f THEN frames[g].pins + 1 ELSE frames[g].pins
  <2>1. Cardinality(Holders([pin EXCEPT ![c] = x], g)) =
          IF g = x.frame THEN Cardinality(Holders(pin, g)) + 1
                         ELSE Cardinality(Holders(pin, g))
    BY <1>1, <1>3, CountAdd
  <2>2. frames[g].pins = Cardinality(Holders(pin, g))
    BY PinCounts
  <2>3. QED
    BY <1>1, <1>2, <2>1, <2>2
<1>8. QED
  BY <1>1, <1>4, <1>5, <1>6, <1>7

LEMMA FetchCachedInv ==
  ASSUME IInv, NEW c \in Client, NEW p \in Page, FetchCached(c, p)
  PROVE  IInv'
<1> DEFINE f == lookup[p]
<1>1. f \in Frame /\ frames[f] \in FrameRec /\ frames[f].page = p
  BY DEF IInv, TypeInv, FetchCached, FrameOwnership, Cached
<1>2. /\ frames' = [frames EXCEPT ![f].pins = @ + 1] /\ replacer' = RPin(replacer, f)
      /\ GivePin(c, p, f) /\ pin[c] = NoPin
      /\ UNCHANGED <<free_list, lookup, disk, sweep, ioErrors>>
  BY DEF FetchCached, Idle
<1> HIDE DEF f
<1>3. \A g \in Frame : /\ frames'[g].page = frames[g].page
                       /\ frames'[g].pins = IF g = f THEN frames[g].pins + 1 ELSE frames[g].pins
                       /\ g # f => frames'[g] = frames[g]
  BY <1>1, <1>2 DEF IInv, TypeInv, FrameRec
<1>4. TypeInv'
  <2>1. frames' = [frames EXCEPT ![f] = [frames[f] EXCEPT !.pins = @ + 1]]
    BY <1>2
  <2>2. frames' \in [Frame -> FrameRec]
    BY <1>1, <2>1, FrameEdits DEF IInv, TypeInv
  <2>3. QED
    BY <1>1, <1>2, <2>2, PinTaken DEF IInv, TypeInv
<1>5. FrameOwnership'
  <2>1. \A i \in DOMAIN free_list : free_list[i] \in Frame /\ free_list[i] # f
    BY <1>1, NoneFacts DEF IInv, TypeInv, FrameOwnership, ResetFrame
  <2>2. QED
    BY <1>2, <1>3, <2>1 DEF IInv, TypeInv, FrameOwnership, Cached
<1>6. PinProtects'
  <2>1. \A d \in Client : pin'[d].page # None => lookup[pin'[d].page] = pin'[d].frame
    BY <1>1, <1>2, PinTaken DEF IInv, PinProtects, f
  <2>2. \A g \in Frame : frames'[g].pins = Cardinality(Holders(pin', g))
    BY <1>1, <1>2, <1>3, PinTaken
  <2>3. QED
    BY <1>2, <2>1, <2>2 DEF PinProtects, Holders
<1>7. ReplacerInv'
  BY <1>1, <1>2, <1>3, PinFacts DEF IInv, ReplacerInv, TypeInv
<1>8. QED
  BY <1>4, <1>5, <1>6, <1>7 DEF IInv
\* Without the entry of the page in frame f, the map leads to every frame but f as before.
LEMMA WithoutFacts ==
  ASSUME IInv, NEW f \in Frame
  PROVE  /\ WithoutPageOf(f) \in [Page -> Frame \cup {None}]
         /\ \A r \in Page : WithoutPageOf(f)[r] # None =>
              /\ WithoutPageOf(f)[r] = lookup[r] /\ lookup[r] # f
              /\ lookup[r] \in Frame /\ frames[lookup[r]].page = r
         /\ \A r \in Page : lookup[r] # None /\ lookup[r] # f => WithoutPageOf(f)[r] = lookup[r]
<1>1. \A r \in Page : lookup[r] # None => lookup[r] \in Frame /\ frames[lookup[r]].page = r
  BY DEF IInv, TypeInv, FrameOwnership, Cached
<1>2. frames[f].page # None => lookup[frames[f].page] = f /\ frames[f].page \in Page
  BY DEF IInv, TypeInv, FrameOwnership, FrameRec
<1>3. QED
  BY <1>1, <1>2, NoneFacts DEF WithoutPageOf, IInv, TypeInv

LEMMA FetchMissInv ==
  ASSUME IInv, Reliable, NEW c \in Client, NEW p \in Page, FetchMiss(c, p)
  PROVE  IInv'
<1>1. PICK a \in AvailableFrames :
        /\ free_list' = a.free
        /\ \/ /\ disk' = WrittenBack(a.id, frames[a.id].page)
              /\ frames' = [frames EXCEPT ![a.id] =
                              [page |-> p, data |-> disk'[p], dirty |-> FALSE, pins |-> 1]]
              /\ lookup' = [WithoutPageOf(a.id) EXCEPT ![p] = a.id]
              /\ replacer' = RPin(a.rep, a.id)
              /\ GivePin(c, p, a.id)
              /\ sweep' = Race(c)
              /\ UNCHANGED ioErrors
           \/ /\ frames[a.id].dirty
              /\ IOError
              /\ replacer' = a.rep
              /\ UNCHANGED <<frames, lookup, disk, pin, sweep>>
           \/ /\ IOError
              /\ disk' = WrittenBack(a.id, frames[a.id].page)
              /\ frames' = [frames EXCEPT ![a.id] = ResetFrame]
              /\ lookup' = WithoutPageOf(a.id)
              /\ replacer' = a.rep
              /\ sweep' = Race(c)
              /\ UNCHANGED pin
  BY DEF FetchMiss
<1> DEFINE f == a.id
<1>2. /\ f \in Frame /\ frames[f].pins = 0
      /\ a.free \in Seq(Frame)
      /\ \A i \in DOMAIN a.free : a.free[i] # f /\ frames[a.free[i]] = ResetFrame
      /\ \A i, j \in DOMAIN a.free : a.free[i] = a.free[j] => i = j
      /\ ReplacerOK(a.rep)
      /\ ~IsLRU /\ Known(replacer, f) => Known(a.rep, f)
      /\ \A g \in Frame \ {f} : /\ Known(replacer, g) => Known(a.rep, g)
                                /\ CanEvict(a.rep, g) = CanEvict(replacer, g)
  BY AvailableFacts
<1>3. \A d \in Client : /\ pin[d].frame # f
                        /\ pin[d].page # None =>
                             /\ pin[d].page \in Page /\ pin[d].frame \in Frame
                             /\ lookup[pin[d].page] = pin[d].frame
  BY <1>2, PinCounts
<1>4. lookup[p] = None /\ pin[c] = NoPin
  BY DEF FetchMiss, Idle
<1>5. IOError => ~IsLRU /\ ioErrors' \in 0 .. MaxIOErrors
  BY BoundAssumption DEF IOError, Reliable, IInv, TypeInv
<1>6. WrittenBack(f, frames[f].page) \in [Page -> Value] /\ Race(c) \in [Client -> SweepRec]
  BY <1>2, WrittenBackType, SweepFacts DEF IInv
<1> DEFINE W == WithoutPageOf(f)
<1>7. /\ W \in [Page -> Frame \cup {None}]
      /\ \A r \in Page : W[r] # None => /\ W[r] = lookup[r] /\ lookup[r] # f
                                        /\ lookup[r] \in Frame /\ frames[lookup[r]].page = r
      /\ \A r \in Page : lookup[r] # None /\ lookup[r] # f => W[r] = lookup[r]
  BY <1>2, WithoutFacts
<1>8. \A d \in Client : pin[d].page # None => pin[d].page # p /\ W[pin[d].page] = pin[d].frame
  BY <1>3, <1>4, <1>7, NoneFacts
<1>9. \A g \in Frame : frames[g].page # None => /\ frames[g].page \in Page
                                                /\ lookup[frames[g].page] = g
                                                /\ frames[g].page # p
  BY <1>4, NoneFacts DEF IInv, TypeInv, FrameRec, FrameOwnership
<1>10. frames \in [Frame -> FrameRec]
  BY DEF IInv, TypeInv
<1> HIDE DEF f, W
\* The page is read into the frame.
<1>11. ASSUME disk' = WrittenBack(f, frames[f].page),
              frames' = [frames EXCEPT ![f] =
                           [page |-> p, data |-> disk'[p], dirty |-> FALSE, pins |-> 1]],
              lookup' = [W EXCEPT ![p] = f],
              replacer' = RPin(a.rep, f), GivePin(c, p, f), sweep' = Race(c),
              UNCHANGED ioErrors, free_list' = a.free
       PROVE  IInv'
  <2>1. disk' \in [Page -> Value] /\ disk'[p] \in Value
    BY <1>6, <1>11
  <2>2. /\ frames'[f].page = p /\ frames'[f].pins = 1
        /\ \A g \in Frame \ {f} : frames'[g] = frames[g]
    BY <1>2, <1>10, <1>11
  <2>3. lookup'[p] = f /\ \A r \in Page \ {p} : lookup'[r] = W[r]
    BY <1>7, <1>11
  <2>4. TypeInv'
    <3>1. frames' \in [Frame -> FrameRec]
      BY <1>10, <1>11, <2>1 DEF FrameRec
    <3>2. lookup' \in [Page -> Frame \cup {None}]
      BY <1>2, <1>7, <1>11
    <3>3. QED
      BY <1>2, <1>4, <1>6, <1>11, <2>1, <3>1, <3>2, PinTaken DEF IInv, TypeInv
  <2>5. FrameOwnership'
    <3>1. \A r \in Page : lookup'[r] # None => frames'[lookup'[r]].page = r
      BY <1>7, <2>2, <2>3
    <3>2. \A g \in Frame : frames'[g].page # None => lookup'[frames'[g].page] = g
      <4>1. ASSUME NEW g \in Frame \ {f}, frames[g].page # None
            PROVE  lookup'[frames[g].page] = g
        BY <1>7, <1>9, <2>3, <4>1, NoneFacts
      <4>2. QED
        BY <2>2, <2>3, <4>1
    <3>3. \A i \in DOMAIN a.free : a.free[i] \in Frame /\ frames'[a.free[i]] = ResetFrame
      BY <1>2, <2>2
    <3>4. QED
      BY <1>2, <1>11, <3>1, <3>2, <3>3 DEF FrameOwnership, Cached
  <2>6. PinProtects'
    <3>1. \A d \in Client : pin'[d].page # None => lookup'[pin'[d].page] = pin'[d].frame
      BY <1>2, <1>3, <1>4, <1>8, <1>11, <2>3, PinTaken
    <3>2. \A g \in Frame : frames'[g].pins = Cardinality(Holders(pin', g))
      BY <1>2, <1>4, <1>11, <2>2, PinTaken
    <3>3. QED
      BY <3>1, <3>2 DEF PinProtects, Holders
  <2>7. ReplacerInv'
    <3>1. /\ ReplacerOK(replacer') /\ Known(replacer', f) /\ ~CanEvict(replacer', f)
          /\ \A g \in Frame \ {f} : /\ Known(replacer, g) => Known(replacer', g)
                                    /\ CanEvict(replacer', g) = CanEvict(replacer, g)
      BY <1>2, <1>11, PinFacts
    <3>2. \A g \in Frame : CanEvict(replacer', g) => frames'[g].pins = 0
      BY <2>2, <3>1 DEF IInv, ReplacerInv
    <3>3. \A r \in Page : lookup'[r] # None => Known(replacer', lookup'[r])
      BY <1>7, <2>3, <3>1 DEF IInv, ReplacerInv
    <3>4. QED
      BY <3>1, <3>2, <3>3 DEF ReplacerInv
  <2>8. QED
    BY <2>4, <2>5, <2>6, <2>7 DEF IInv
\* The dirty page cannot be written: only under LRU-K, which still knows the frame.
<1>12. ASSUME IOError, replacer' = a.rep, free_list' = a.free,
              UNCHANGED <<frames, lookup, disk, pin, sweep>>
       PROVE  IInv'
  <2>1. TypeInv'
    BY <1>2, <1>5, <1>12 DEF IInv, TypeInv
  <2>2. FrameOwnership' /\ PinProtects'
    BY <1>2, <1>12 DEF IInv, FrameOwnership, PinProtects, Cached
  <2>3. ReplacerInv'
    <3>1. \A g \in Frame : CanEvict(a.rep, g) => frames[g].pins = 0
      BY <1>2 DEF IInv, ReplacerInv
    <3>2. \A r \in Page : lookup[r] # None => Known(a.rep, lookup[r])
      BY <1>2, <1>5, <1>12 DEF IInv, ReplacerInv, TypeInv
    <3>3. QED
      BY <1>2, <1>12, <3>1, <3>2 DEF ReplacerInv
  <2>4. QED
    BY <2>1, <2>2, <2>3 DEF IInv
\* The page cannot be read: the frame is left empty.
<1>13. ASSUME IOError, disk' = WrittenBack(f, frames[f].page),
              frames' = [frames EXCEPT ![f] = ResetFrame],
              lookup' = W, replacer' = a.rep, sweep' = Race(c), UNCHANGED pin,
              free_list' = a.free
       PROVE  IInv'
  <2>1. /\ frames'[f] = ResetFrame /\ frames'[f].page = None /\ frames'[f].pins = 0
        /\ \A g \in Frame \ {f} : frames'[g] = frames[g]
    BY <1>2, <1>10, <1>13 DEF ResetFrame
  <2>2. TypeInv'
    <3>1. frames' \in [Frame -> FrameRec]
      BY <1>10, <1>13, ResetFacts
    <3>2. QED
      BY <1>2, <1>5, <1>6, <1>7, <1>13, <3>1 DEF IInv, TypeInv
  <2>3. FrameOwnership'
    <3>1. \A r \in Page : lookup'[r] # None => frames'[lookup'[r]].page = r
      BY <1>7, <1>13, <2>1
    <3>2. \A g \in Frame : frames'[g].page # None => lookup'[frames'[g].page] = g
      BY <1>7, <1>9, <1>13, <2>1, NoneFacts
    <3>3. \A i \in DOMAIN a.free : frames'[a.free[i]] = ResetFrame
      BY <1>2, <2>1
    <3>4. QED
      BY <1>2, <1>13, <3>1, <3>2, <3>3 DEF FrameOwnership, Cached
  <2>4. PinProtects'
    <3>1. \A g \in Frame : frames'[g].pins = frames[g].pins
      BY <1>2, <2>1
    <3>2. QED
      BY <1>8, <1>13, <3>1 DEF IInv, PinProtects
  <2>5. ReplacerInv'
    <3>1. \A g \in Frame : CanEvict(a.rep, g) => frames'[g].pins = 0
      BY <1>2, <2>1 DEF IInv, ReplacerInv
    <3>2. \A r \in Page : W[r] # None => Known(a.rep, W[r])
      BY <1>2, <1>7 DEF IInv, ReplacerInv
    <3>3. QED
      BY <1>2, <1>13, <3>1, <3>2 DEF ReplacerInv
  <2>6. QED
    BY <2>2, <2>3, <2>4, <2>5 DEF IInv
<1>14. QED
  BY <1>1, <1>11, <1>12, <1>13 DEF f, W
LEMMA WriteInv ==
  ASSUME IInv, NEW c \in Client, NEW v \in Value, Write(c, v)
  PROVE  IInv'
<1> DEFINE f == pin[c].frame
<1>1. /\ frames' = [frames EXCEPT ![f] = [frames[f] EXCEPT !.data = v]]
      /\ pin' = [pin EXCEPT ![c] = [pin[c] EXCEPT !.wrote = TRUE]]
      /\ pin[c] # NoPin
      /\ UNCHANGED <<free_list, lookup, replacer, disk, sweep, ioErrors>>
  BY DEF Write
<1>2. f \in Frame /\ frames[f].pins > 0
  BY <1>1, PinCounts DEF IInv, TypeInv
<1>3. frames \in [Frame -> FrameRec] /\ pin \in [Client -> PinRec] /\ frames[f] \in FrameRec
  BY <1>2 DEF IInv, TypeInv
<1>4. [frames[f] EXCEPT !.data = v] \in FrameRec
  BY <1>3, FrameEdits
<1>5. [pin[c] EXCEPT !.wrote = TRUE] \in PinRec
  BY <1>3 DEF PinRec
<1>6. /\ frames' \in [Frame -> FrameRec]
      /\ \A g \in Frame : /\ frames'[g].page = frames[g].page
                          /\ frames'[g].pins = frames[g].pins
                          /\ g # f => frames'[g] = frames[g]
  BY <1>1, <1>2, <1>3, <1>4 DEF FrameRec
<1>7. /\ pin' \in [Client -> PinRec]
      /\ \A d \in Client : /\ pin'[d].page = pin[d].page /\ pin'[d].frame = pin[d].frame
                           /\ d # c => pin'[d] = pin[d]
  BY <1>1, <1>3, <1>5 DEF PinRec
<1> HIDE DEF f
<1>8. TypeInv'
  BY <1>1, <1>6, <1>7 DEF IInv, TypeInv
<1>9. FrameOwnership'
  <2>1. \A i \in DOMAIN free_list : free_list[i] \in Frame /\ free_list[i] # f
    BY <1>2 DEF IInv, TypeInv, FrameOwnership, ResetFrame
  <2>2. QED
    BY <1>1, <1>6, <2>1 DEF IInv, TypeInv, FrameOwnership, Cached
<1>10. PinProtects'
  <2>1. \A g : {d \in Client : pin'[d].frame = g} = {d \in Client : pin[d].frame = g}
    BY <1>7
  <2>2. QED
    BY <1>1, <1>6, <1>7, <2>1 DEF IInv, PinProtects
<1>11. ReplacerInv'
  BY <1>1, <1>6 DEF IInv, ReplacerInv
<1>12. QED
  BY <1>8, <1>9, <1>10, <1>11 DEF IInv

\* A client unpins the frame it was given: the page is in the pool and in use, and the
\* replacer knows the frame, so UnpinPage neither returns false nor throws.
LEMMA UnpinPageFacts ==
  ASSUME IInv, NEW c \in Client, NEW b \in BOOLEAN, UnpinPage(c, b)
  PROVE  LET f == pin[c].frame
         IN /\ pin[c] # NoPin /\ f \in Frame /\ frames[f].pins > 0
            /\ Known(replacer, f)
            /\ frames' = [frames EXCEPT ![f] = [frames[f] EXCEPT !.pins = @ - 1, !.dirty = @ \/ b]]
            /\ replacer' = IF frames[f].pins = 1 THEN RUnpin(replacer, f) ELSE replacer
            /\ pin' = [pin EXCEPT ![c] = NoPin]
            /\ pin[c].wrote => b
            /\ UNCHANGED <<free_list, lookup, disk, sweep, ioErrors>>
<1> DEFINE f == pin[c].frame
<1>1. pin[c].page # None
  BY DEF UnpinPage, IInv, TypeInv
<1>2. /\ lookup[pin[c].page] = f /\ f \in Frame /\ frames[f].pins > 0
      /\ pin[c].page \in Page
  BY <1>1, PinCounts
<1>3. Known(replacer, f)
  BY <1>2, NoneFacts DEF IInv, ReplacerInv
<1>4. ~RUnpinThrows(replacer, f)
  BY <1>3, UnpinThrowsFact
<1>5. f # None /\ InUse(f)
  BY <1>2, NoneFacts DEF InUse
<1>6. frames[f].dirty \in BOOLEAN /\ frames[f].pins \in Nat
  BY <1>2 DEF IInv, TypeInv, FrameRec
<1> HIDE DEF f
<1>7. /\ pin[c] # NoPin
      /\ frames' = [frames EXCEPT ![f].pins = @ - 1, ![f].dirty = @ \/ b]
      /\ replacer' = IF frames[f].pins = 1 THEN RUnpin(replacer, f) ELSE replacer
      /\ pin' = [pin EXCEPT ![c] = NoPin]
      /\ pin[c].wrote => b
      /\ UNCHANGED <<free_list, lookup, disk, sweep, ioErrors>>
  BY <1>2, <1>4, <1>5 DEF UnpinPage
<1>8. [frames EXCEPT ![f].pins = @ - 1, ![f].dirty = @ \/ b]
        = [frames EXCEPT ![f] = [frames[f] EXCEPT !.pins = @ - 1, !.dirty = @ \/ b]]
  BY <1>2 DEF IInv, TypeInv
<1>9. QED
  BY <1>2, <1>3, <1>7, <1>8 DEF f

LEMMA UnpinPageInv ==
  ASSUME IInv, NEW c \in Client, NEW b \in BOOLEAN, UnpinPage(c, b)
  PROVE  IInv'
<1> DEFINE f == pin[c].frame
           d2 == frames[f].dirty \/ b
<1>1. /\ pin[c] # NoPin /\ f \in Frame /\ frames[f].pins > 0
      /\ Known(replacer, f)
      /\ frames' = [frames EXCEPT ![f] = [frames[f] EXCEPT !.pins = @ - 1, !.dirty = d2]]
      /\ replacer' = IF frames[f].pins = 1 THEN RUnpin(replacer, f) ELSE replacer
      /\ pin' = [pin EXCEPT ![c] = NoPin]
      /\ UNCHANGED <<free_list, lookup, disk, sweep, ioErrors>>
  BY UnpinPageFacts
<1>2. /\ frames \in [Frame -> FrameRec] /\ pin \in [Client -> PinRec]
      /\ frames[f] \in FrameRec /\ d2 \in BOOLEAN
  BY <1>1 DEF IInv, TypeInv, FrameRec
<1>3. [frames[f] EXCEPT !.pins = @ - 1, !.dirty = d2] \in FrameRec
  BY <1>1, <1>2, FrameEdits
<1>4. /\ frames' \in [Frame -> FrameRec]
      /\ \A g \in Frame : /\ frames'[g].page = frames[g].page
                          /\ frames'[g].pins = IF g = f THEN frames[g].pins - 1 ELSE frames[g].pins
                          /\ g # f => frames'[g] = frames[g]
  BY <1>1, <1>2, <1>3 DEF FrameRec
<1>5. /\ pin' \in [Client -> PinRec]
      /\ \A d \in Client : pin'[d] = IF d = c THEN NoPin ELSE pin[d]
  BY <1>1, <1>2 DEF NoPin, PinRec
<1>6. TypeInv'
  BY <1>1, <1>4, <1>5 DEF IInv, TypeInv, NoPin
<1>7. FrameOwnership'
  <2>1. \A i \in DOMAIN free_list : free_list[i] \in Frame /\ free_list[i] # f
    BY <1>1 DEF IInv, TypeInv, FrameOwnership, ResetFrame
  <2>2. QED
    BY <1>1, <1>4, <2>1 DEF IInv, TypeInv, FrameOwnership, Cached
<1>8. PinProtects'
  <2>1. \A d \in Client : pin'[d].page # None => lookup'[pin'[d].page] = pin'[d].frame
    BY <1>1, <1>5 DEF IInv, PinProtects, NoPin
  <2>2. ASSUME NEW g \in Frame
        PROVE  frames'[g].pins = Cardinality(Holders(pin', g))
    <3>1. pin'[c].frame = None /\ \A d \in Client \ {c} : pin'[d] = pin[d]
      BY <1>5 DEF NoPin
    <3>2. /\ g = f => Cardinality(Holders(pin', g)) = Cardinality(Holders(pin, g)) - 1
          /\ g # f => Cardinality(Holders(pin', g)) = Cardinality(Holders(pin, g))
      <4>1. pin[c].frame \in Frame
        BY <1>1
      <4>2. QED
        BY <3>1, <4>1, CountRemove
    <3>3. frames[g].pins = Cardinality(Holders(pin, g))
      BY PinCounts
    <3>4. QED
      BY <1>4, <3>2, <3>3
  <2>3. QED
    BY <2>1, <2>2 DEF PinProtects, Holders
<1>9. ReplacerInv'
  <2>1. CASE frames[f].pins = 1
    <3>1. frames'[f].pins = 0
      BY <1>1, <1>4, <2>1
    <3>2. /\ ReplacerOK(replacer') /\ Known(replacer', f)
          /\ \A g \in Frame \ {f} : /\ Known(replacer', g) = Known(replacer, g)
                                    /\ CanEvict(replacer', g) = CanEvict(replacer, g)
      BY <1>1, <2>1, UnpinFacts DEF IInv, ReplacerInv
    <3>3. QED
      BY ZenonT(30), <1>1, <1>4, <3>1, <3>2 DEF IInv, ReplacerInv, TypeInv
  <2>2. CASE frames[f].pins # 1
    BY <1>1, <1>4, <2>2 DEF IInv, ReplacerInv
  <2>3. QED
    BY <2>1, <2>2
<1>10. QED
  BY <1>6, <1>7, <1>8, <1>9 DEF IInv

LEMMA DeletePageInv ==
  ASSUME IInv, NEW c \in Client, NEW p \in Page, NEW after \in [BOOLEAN -> SweepRec],
         DeletePage(c, p, after), UNCHANGED pin
  PROVE  IInv'
<1> DEFINE f == lookup[p]
<1>1. IOError => ioErrors' \in 0 .. MaxIOErrors
  BY BoundAssumption DEF IOError, IInv, TypeInv
<1>2. NoSweep \in SweepRec /\ Race(c) \in [Client -> SweepRec]
  BY SweepFacts DEF IInv
\* Nothing is deleted.
<1>3. ASSUME NEW s \in SweepRec, sweep' = [sweep EXCEPT ![c] = s],
             UNCHANGED <<frames, free_list, lookup, replacer, disk>>,
             ioErrors' \in 0 .. MaxIOErrors
      PROVE  IInv'
  BY <1>3 DEF IInv, TypeInv, FrameOwnership, PinProtects, ReplacerInv, Cached
\* The frame is cleared and put on the free list.
<1>4. ASSUME f # None, ~InUse(f), disk' = WrittenBack(f, p),
             frames' = [frames EXCEPT ![f] = ResetFrame],
             free_list' = Append(free_list, f),
             IF RUnpinThrows(replacer, f)
             THEN /\ sweep' = [sweep EXCEPT ![c] = NoSweep]
                  /\ UNCHANGED <<lookup, replacer>>
             ELSE /\ replacer' = RUnpin(replacer, f)
                  /\ lookup' = [lookup EXCEPT ![p] = None]
                  /\ sweep' = [Race(c) EXCEPT ![c] = after[TRUE]],
             UNCHANGED ioErrors
      PROVE  IInv'
  <2>1. f \in Frame /\ frames[f] \in FrameRec /\ frames[f].page = p /\ Known(replacer, f)
    BY <1>4 DEF IInv, TypeInv, FrameOwnership, Cached, ReplacerInv
  <2>2. frames[f].pins = 0
    BY <1>4, <2>1 DEF InUse, FrameRec
  <2>3. /\ replacer' = RUnpin(replacer, f)
        /\ lookup' = [lookup EXCEPT ![p] = None]
        /\ sweep' = [Race(c) EXCEPT ![c] = after[TRUE]]
    BY <1>4, <2>1, UnpinThrowsFact
  <2>4. \A d \in Client : pin[d].page # p
    <3>1. \A d \in Client : pin[d].frame # f
      BY <2>1, <2>2, PinCounts
    <3>2. QED
      BY <3>1, NoneFacts DEF IInv, PinProtects
  <2> HIDE DEF f
  <2>5. /\ frames'[f] = ResetFrame /\ frames'[f].page = None /\ frames'[f].pins = 0
        /\ \A g \in Frame \ {f} : frames'[g] = frames[g]
    BY <1>4, <2>1 DEF ResetFrame, IInv, TypeInv
  <2>6. /\ lookup'[p] = None /\ \A r \in Page \ {p} : lookup'[r] = lookup[r]
        /\ lookup' \in [Page -> Frame \cup {None}]
    BY <2>3 DEF IInv, TypeInv
  <2>7. free_list \in Seq(Frame) /\ \A i \in DOMAIN free_list : free_list[i] # f
    BY <2>1, NoneFacts DEF IInv, TypeInv, FrameOwnership, ResetFrame
  <2>8. /\ free_list' \in Seq(Frame)
        /\ DOMAIN free_list' = 1 .. Len(free_list) + 1
        /\ DOMAIN free_list = 1 .. Len(free_list) /\ Len(free_list) \in Nat
        /\ \A i \in DOMAIN free_list : free_list'[i] = free_list[i]
        /\ free_list'[Len(free_list) + 1] = f
    BY <1>4, <2>1, <2>7
  <2>9. TypeInv'
    <3>1. frames' \in [Frame -> FrameRec]
      BY <1>4, ResetFacts DEF IInv, TypeInv
    <3>2. disk' \in [Page -> Value]
      BY <1>4, <2>1, WrittenBackType DEF IInv
    <3>3. sweep' \in [Client -> SweepRec]
      BY <1>2, <2>3
    <3>4. QED
      BY <1>4, <2>6, <2>8, <3>1, <3>2, <3>3 DEF IInv, TypeInv
  <2>10. FrameOwnership'
    <3>1. \A r \in Page : lookup'[r] # None => frames'[lookup'[r]].page = r
      <4>1. \A r \in Page \ {p} : lookup[r] # None => lookup[r] \in Frame \ {f}
                                                       /\ frames[lookup[r]].page = r
        BY <2>1 DEF IInv, TypeInv, FrameOwnership, Cached
      <4>2. QED
        BY <2>5, <2>6, <4>1
    <3>2. \A g \in Frame : frames'[g].page # None => lookup'[frames'[g].page] = g
      <4>1. \A g \in Frame \ {f} : frames[g].page # None =>
              frames[g].page \in Page \ {p} /\ lookup[frames[g].page] = g
        BY DEF IInv, TypeInv, FrameOwnership, FrameRec, f
      <4>2. QED
        BY <2>5, <2>6, <4>1
    <3>3. \A i \in DOMAIN free_list : free_list[i] \in Frame \ {f}
                                      /\ frames[free_list[i]] = ResetFrame
      BY <2>7 DEF IInv, FrameOwnership
    <3>4. \A i \in DOMAIN free_list' : frames'[free_list'[i]] = ResetFrame
      BY <2>5, <2>8, <3>3
    <3>5. \A i, j \in DOMAIN free_list' : free_list'[i] = free_list'[j] => i = j
      BY <2>7, <2>8 DEF IInv, FrameOwnership
    <3>6. QED
      BY <3>1, <3>2, <3>4, <3>5 DEF FrameOwnership, Cached
  <2>11. PinProtects'
    <3>1. \A g \in Frame : frames'[g].pins = frames[g].pins
      BY <2>1, <2>2, <2>5
    <3>2. \A d \in Client : pin[d].page # None => pin[d].page \in Page \ {p}
      BY <2>4, PinCounts
    <3>3. QED
      BY <2>6, <3>1, <3>2 DEF IInv, PinProtects
  <2>12. ReplacerInv'
    <3>1. /\ ReplacerOK(replacer')
          /\ \A g \in Frame \ {f} : /\ Known(replacer', g) = Known(replacer, g)
                                    /\ CanEvict(replacer', g) = CanEvict(replacer, g)
      BY <2>1, <2>3, UnpinFacts DEF IInv, ReplacerInv
    <3>2. \A r \in Page \ {p} : lookup[r] # None => lookup[r] \in Frame \ {f}
      BY <2>1 DEF IInv, TypeInv, FrameOwnership, Cached
    <3>3. \A g \in Frame : CanEvict(replacer', g) => frames'[g].pins = 0
      BY <2>5, <3>1 DEF IInv, ReplacerInv
    <3>4. \A r \in Page : lookup'[r] # None => Known(replacer', lookup'[r])
      BY <2>6, <3>1, <3>2 DEF IInv, ReplacerInv
    <3>5. QED
      BY <3>1, <3>3, <3>4 DEF ReplacerInv
  <2>13. QED
    BY <2>9, <2>10, <2>11, <2>12 DEF IInv
<1>5. after[TRUE] \in SweepRec /\ after[FALSE] \in SweepRec
  OBVIOUS
<1>6. ioErrors \in 0 .. MaxIOErrors
  BY DEF IInv, TypeInv
<1>7. QED
  BY <1>1, <1>2, <1>3, <1>4, <1>5, <1>6 DEF DeletePage

LEMMA FlushPageInv ==
  ASSUME IInv, NEW c \in Client, NEW p \in Page, NEW after \in [BOOLEAN -> SweepRec],
         FlushPage(c, p, after), UNCHANGED <<free_list, lookup, replacer, pin>>
  PROVE  IInv'
<1> DEFINE f == lookup[p]
<1>1. IOError => ioErrors' \in 0 .. MaxIOErrors
  BY BoundAssumption DEF IOError, IInv, TypeInv
<1>2. NoSweep \in SweepRec /\ \A b \in BOOLEAN : after[b] \in SweepRec
  BY SweepFacts DEF IInv
<1>3. ASSUME NEW s \in SweepRec, sweep' = [sweep EXCEPT ![c] = s],
             UNCHANGED <<frames, disk>>, ioErrors' \in 0 .. MaxIOErrors
      PROVE  IInv'
  BY <1>3 DEF IInv, TypeInv, FrameOwnership, PinProtects, ReplacerInv, Cached
<1>4. ASSUME f # None, disk' = WrittenBack(f, p),
             frames' = [frames EXCEPT ![f].dirty = FALSE],
             sweep' = [sweep EXCEPT ![c] = after[TRUE]], UNCHANGED ioErrors
      PROVE  IInv'
  <2>1. f \in Frame /\ frames[f] \in FrameRec /\ frames[f].page = p
    BY <1>4 DEF IInv, TypeInv, FrameOwnership, Cached
  <2>2. frames' = [frames EXCEPT ![f] = [frames[f] EXCEPT !.dirty = FALSE]]
    BY <1>4
  <2>3. [frames[f] EXCEPT !.dirty = FALSE] \in FrameRec
    BY <2>1, FrameEdits
  <2> HIDE DEF f
  <2>4. /\ frames' \in [Frame -> FrameRec]
        /\ \A g \in Frame : /\ frames'[g].page = frames[g].page
                            /\ frames'[g].pins = frames[g].pins
                            /\ g # f => frames'[g] = frames[g]
    BY <2>1, <2>2, <2>3 DEF IInv, TypeInv, FrameRec
  <2>5. TypeInv'
    BY <1>2, <1>4, <2>1, <2>4, WrittenBackType DEF IInv, TypeInv
  <2>6. FrameOwnership'
    <3>1. \A i \in DOMAIN free_list : free_list[i] \in Frame /\ free_list[i] # f
      BY <2>1, NoneFacts DEF IInv, TypeInv, FrameOwnership, ResetFrame
    <3>2. QED
      BY SMTT(30), <2>4, <3>1 DEF IInv, TypeInv, FrameOwnership, Cached
  <2>7. PinProtects' /\ ReplacerInv'
    BY <2>4 DEF IInv, PinProtects, ReplacerInv
  <2>8. QED
    BY <2>5, <2>6, <2>7 DEF IInv
<1>5. ioErrors \in 0 .. MaxIOErrors /\ (f # None) \in BOOLEAN
  BY DEF IInv, TypeInv
<1>6. QED
  BY <1>1, <1>2, <1>3, <1>4, <1>5 DEF FlushPage
\* A step of a sweep.
LEMMA SweepStepInv ==
  ASSUME IInv, NEW c \in Client, SweepStep(c)
  PROVE  IInv'
<1>1. PICK p \in sweep[c].todo :
        LET rest == [sweep[c] EXCEPT !.todo = @ \ {p}]
        IN \/ /\ DeletePage(c, p, [ok \in BOOLEAN |-> IF ok THEN rest ELSE NoSweep])
              /\ UNCHANGED pin
           \/ /\ FlushPage(c, p, [ok \in BOOLEAN |-> rest])
              /\ UNCHANGED <<free_list, lookup, replacer, pin>>
  BY DEF SweepStep
<1> DEFINE rest == [sweep[c] EXCEPT !.todo = @ \ {p}]
<1>2. sweep[c] \in SweepRec /\ NoSweep \in SweepRec
  BY SweepFacts DEF IInv
<1>3. p \in Page /\ rest \in SweepRec
  BY <1>2 DEF SweepRec
<1> HIDE DEF rest
<1>4. CASE /\ DeletePage(c, p, [ok \in BOOLEAN |-> IF ok THEN rest ELSE NoSweep])
           /\ UNCHANGED pin
  <2>1. [ok \in BOOLEAN |-> IF ok THEN rest ELSE NoSweep] \in [BOOLEAN -> SweepRec]
    BY <1>2, <1>3
  <2>2. QED
    BY <1>3, <1>4, <2>1, DeletePageInv
<1>5. CASE /\ FlushPage(c, p, [ok \in BOOLEAN |-> rest])
           /\ UNCHANGED <<free_list, lookup, replacer, pin>>
  <2>1. [ok \in BOOLEAN |-> rest] \in [BOOLEAN -> SweepRec]
    BY <1>3
  <2>2. QED
    BY <1>3, <1>5, <2>1, FlushPageInv
<1>6. QED
  BY <1>1, <1>4, <1>5 DEF rest

\* Starting, skipping in and ending a sweep change nothing but the sweep.
LEMMA SweepOnlyInv ==
  ASSUME IInv, NEW c \in Client, NEW s \in SweepRec, sweep' = [sweep EXCEPT ![c] = s],
         UNCHANGED <<frames, free_list, lookup, replacer, disk, pin, ioErrors>>
  PROVE  IInv'
<1>1. sweep' \in [Client -> SweepRec]
  BY DEF IInv, TypeInv
<1>2. QED
  BY <1>1 DEF IInv, TypeInv, FrameOwnership, PinProtects, ReplacerInv, Cached

LEMMA ClientStepInv ==
  ASSUME IInv, Reliable, NEW c \in Client, ClientStep(c)
  PROVE  IInv'
<1>1. sweep[c] \in SweepRec /\ NoSweep \in SweepRec
  BY SweepFacts DEF IInv
<1>2. CASE \E p \in Page : FetchCached(c, p)
  BY <1>2, FetchCachedInv
<1>3. CASE \E p \in Page : FetchMiss(c, p)
  BY <1>3, FetchMissInv
<1>4. CASE \E p \in Page : Delete(c, p)
  <2>1. [ok \in BOOLEAN |-> NoSweep] \in [BOOLEAN -> SweepRec]
    BY <1>1
  <2>2. QED
    BY <1>4, <2>1, DeletePageInv DEF Delete
<1>5. CASE \E p \in Page : Flush(c, p)
  <2>1. [ok \in BOOLEAN |-> NoSweep] \in [BOOLEAN -> SweepRec]
    BY <1>1
  <2>2. QED
    BY <1>5, <2>1, FlushPageInv DEF Flush
<1>6. CASE \E v \in Value : Write(c, v)
  BY <1>6, WriteInv
<1>7. CASE \E b \in BOOLEAN : UnpinPage(c, b)
  BY <1>7, UnpinPageInv
<1>8. CASE \E op \in SweepOps : \E p \in Page : StartSweep(c, op, Fid(p))
  <2>1. PICK op \in SweepOps, p \in Page : StartSweep(c, op, Fid(p))
    BY <1>8
  <2>2. [op |-> op, fid |-> Fid(p), raced |-> FALSE,
         todo |-> {r \in Cached : Fid(r) = Fid(p)}] \in SweepRec
    BY DEF SweepRec, Cached
  <2>3. QED
    BY <2>1, <2>2, SweepOnlyInv DEF StartSweep
<1>9. CASE SweepStep(c)
  BY <1>9, SweepStepInv
<1>10. CASE SweepSkip(c)
  <2>1. PICK p \in sweep[c].todo : sweep' = [sweep EXCEPT ![c].todo = @ \ {p}]
    BY <1>10 DEF SweepSkip
  <2>2. sweep' = [sweep EXCEPT ![c] = [sweep[c] EXCEPT !.todo = @ \ {p}]]
    BY <2>1
  <2>3. [sweep[c] EXCEPT !.todo = @ \ {p}] \in SweepRec
    BY <1>1 DEF SweepRec
  <2>4. QED
    BY <1>10, <2>2, <2>3, SweepOnlyInv DEF SweepSkip
<1>11. CASE SweepEnd(c)
  BY <1>1, <1>11, SweepOnlyInv DEF SweepEnd
<1>12. QED
  BY <1>2, <1>3, <1>4, <1>5, <1>6, <1>7, <1>8, <1>9, <1>10, <1>11 DEF ClientStep

LEMMA InitInv == Init => IInv
<1> SUFFICES ASSUME Init PROVE IInv
  OBVIOUS
<1>1. TypeInv
  <2>1. frames \in [Frame -> FrameRec]
    BY ResetFacts DEF Init
  <2>2. free_list \in Seq(Frame)
    <3>1. \A i \in 1 .. BUFFER_POOL_SIZE : i - 1 \in Frame
      BY SizeAssumption DEF Frame
    <3>2. QED
      BY <3>1, SizeAssumption DEF Init
  <2>3. pin \in [Client -> PinRec] /\ \A c \in Client : pin[c] = NoPin
    BY DEF Init, NoPin, PinRec
  <2>4. sweep \in [Client -> SweepRec]
    BY DEF Init, NoSweep, SweepRec
  <2>5. disk \in [Page -> Value] /\ lookup \in [Page -> Frame \cup {None}]
    BY DataAssumption DEF Init
  <2>6. ioErrors \in 0 .. MaxIOErrors
    BY BoundAssumption DEF Init
  <2>7. QED
    BY <2>1, <2>2, <2>3, <2>4, <2>5, <2>6 DEF TypeInv, NoPin
<1>2. FrameOwnership
  <2>1. \A f \in Frame : frames[f] = ResetFrame /\ frames[f].page = None
    BY DEF Init, ResetFrame
  <2>2. /\ DOMAIN free_list = 1 .. BUFFER_POOL_SIZE
        /\ \A i \in DOMAIN free_list : free_list[i] = i - 1 /\ free_list[i] \in Frame
    BY SizeAssumption DEF Init, Frame
  <2>3. Cached = {}
    BY DEF Init, Cached
  <2>4. QED
    BY <2>1, <2>2, <2>3, SizeAssumption DEF FrameOwnership
<1>3. PinProtects
  <2>1. \A f \in Frame : Holders(pin, f) = {}
    BY NoneFacts DEF Init, Holders, NoPin
  <2>2. \A f \in Frame : frames[f].pins = Cardinality(Holders(pin, f))
    BY <2>1, FS_EmptySet DEF Init, ResetFrame
  <2>3. QED
    BY <2>2 DEF PinProtects, Holders, Init, NoPin
<1>4. ReplacerInv
  <2>1. ReplacerOK(replacer) /\ \A f \in Frame : ~CanEvict(replacer, f)
    <3>1. CASE IsLRU
      BY <3>1 DEF Init, RFresh, LRU!Fresh, ReplacerOK, LRUOK, CanEvict
    <3>2. CASE ~IsLRU
      <4>1. replacer = LRUK!Fresh
        BY <3>2 DEF Init, RFresh
      <4>2. /\ replacer \in [node : [Frame -> Node], ts : Nat, size : Nat]
            /\ replacer.size = 0 /\ \A f \in Frame : ~replacer.node[f].evictable
        <5> DEFINE n == [LRUK!DefaultNode EXCEPT !.known = FALSE]
        <5>1. n \in Node /\ ~n.evictable
          BY NodeFacts DEF LRUK!DefaultNode, Node
        <5>2. replacer = [node |-> [f \in Frame |-> n], ts |-> 0, size |-> 0]
          BY <4>1 DEF LRUK!Fresh
        <5> HIDE DEF n
        <5>3. QED
          BY <5>1, <5>2
      <4>3. Cardinality(LRUK!EvictableFrames(replacer)) = 0
        BY <4>2, FS_EmptySet DEF LRUK!EvictableFrames
      <4>4. QED
        BY <3>2, <4>2, <4>3 DEF ReplacerOK, LRUKOK, CanEvict
    <3>3. QED
      BY <3>1, <3>2
  <2>2. QED
    BY <2>1 DEF ReplacerInv, Init
<1>5. QED
  BY <1>1, <1>2, <1>3, <1>4 DEF IInv

LEMMA StepInv == IInv /\ Reliable /\ [Next]_vars => IInv'
<1> SUFFICES ASSUME IInv, Reliable, [Next]_vars PROVE IInv'
  OBVIOUS
<1>1. CASE Next
  BY <1>1, ClientStepInv DEF Next
<1>2. CASE UNCHANGED vars
  BY <1>2 DEF vars, IInv, TypeInv, FrameOwnership, PinProtects, ReplacerInv, Cached
<1>3. QED
  BY <1>1, <1>2

-----------------------------------------------------------------------------
(* The invariants. *)

THEOREM Inductive ==
  ASSUME Reliable
  PROVE  Spec => []IInv
<1>1. IInv /\ [Next]_vars => IInv'
  BY StepInv
<1>2. QED
  BY <1>1, InitInv, PTL DEF Spec

\* Every variable of the pool keeps its type; in particular pin_count_ never exceeds the
\* number of clients and never falls below zero.
THEOREM TypeCorrect ==
  ASSUME Reliable
  PROVE  Spec => []TypeOK
<1>1. IInv => TypeOK
  <2> SUFFICES ASSUME IInv PROVE TypeOK
    OBVIOUS
  <2>1. \A f \in Frame : frames[f].pins \in 0 .. Cardinality(Client)
    BY PinCounts, HoldersFinite
  <2>2. QED
    BY <2>1 DEF IInv, TypeInv, TypeOK, FrameRec, PinRec, SweepRec
<1>2. QED
  BY <1>1, Inductive, PTL

\* page_frame_lookup_, the frames and free_list_ agree, however fetches, evictions,
\* deletions and sweeps are interleaved and whichever reads and writes fail.
THEOREM FramesOwned ==
  ASSUME Reliable
  PROVE  Spec => []FrameOwnership
  BY Inductive, PTL DEF IInv

\* No page is moved or dropped under a client that holds it, and pin_count_ is exact.
THEOREM PinsProtect ==
  ASSUME Reliable
  PROVE  Spec => []PinProtects
  BY Inductive, PTL DEF IInv

-----------------------------------------------------------------------------
(* The sweeps.  What follows rests on no assumption about reads and writes. *)

SweepInv ==
  /\ sweep \in [Client -> SweepRec]
  /\ DOMAIN lookup = Page
  /\ SweepComplete

\* A sweep that is over, or whose map changed under it, or is no DeleteAllPages, owes nothing.
Owes(w) == w.op = "delete" /\ ~w.raced

LEMMA SweepRecs ==
  /\ NoSweep \in SweepRec /\ ~Owes(NoSweep)
  /\ \A w \in SweepRec, b \in BOOLEAN : /\ [w EXCEPT !.raced = b] \in SweepRec
                                        /\ ~Owes([w EXCEPT !.raced = TRUE])
  /\ \A w \in SweepRec, T \in SUBSET Page :
       LET r == [w EXCEPT !.todo = T]
       IN r \in SweepRec /\ r.todo = T /\ r.op = w.op /\ r.fid = w.fid /\ r.raced = w.raced
BY DEF NoSweep, SweepRec, Owes

\* After a change of the map by client c no other client's sweep is held to it.
LEMMA RaceOwes ==
  ASSUME SweepInv, NEW c \in Client
  PROVE  /\ Race(c) \in [Client -> SweepRec]
         /\ \A d \in Client \ {c} : ~Owes(Race(c)[d])
         /\ Race(c)[c] = sweep[c]
BY SweepRecs DEF Race, SweepInv

\* What a sweep owes of a map: the pages of its file in the pool are still before it.
Covers(w, look) ==
  Owes(w) => \A p \in Page : look[p] # None /\ Fid(p) = w.fid => p \in w.todo

LEMMA CoversIs == SweepComplete <=> \A c \in Client : Covers(sweep[c], lookup)
BY DEF SweepComplete, Covers, Owes, Cached

\* Steps of DeletePage.  rest is what is left of the sweep when the page is gone.
LEMMA DeletePageSweeps ==
  ASSUME SweepInv, NEW c \in Client, NEW p \in Page, NEW after, NEW rest \in SweepRec,
         NEW stopped \in SweepRec, after[TRUE] = rest, after[FALSE] = stopped,
         ~Owes(stopped),
         \A look : look[p] = None /\ (\A q \in Page : look[q] # None => lookup[q] # None)
                     => Covers(rest, look),
         DeletePage(c, p, after)
  PROVE  SweepInv'
<1>1. \A d \in Client : Covers(sweep[d], lookup)
  BY CoversIs DEF SweepInv
<1>2. CASE lookup[p] = None /\ sweep' = [sweep EXCEPT ![c] = rest] /\ UNCHANGED lookup
  <2>1. Covers(rest, lookup)
    BY <1>2
  <2>2. \A d \in Client : Covers(sweep'[d], lookup')
    BY <1>1, <1>2, <2>1 DEF SweepInv
  <2>3. QED
    BY <1>2, <2>2, CoversIs DEF SweepInv, SweepComplete, Covers, Owes, Cached
<1>3. CASE /\ \/ sweep' = [sweep EXCEPT ![c] = stopped]
              \/ sweep' = [sweep EXCEPT ![c] = NoSweep]
           /\ UNCHANGED lookup
  <2>1. Covers(stopped, lookup) /\ Covers(NoSweep, lookup) /\ NoSweep \in SweepRec
    BY SweepRecs DEF Covers
  <2>2. \A d \in Client : Covers(sweep'[d], lookup')
    BY <1>1, <1>3, <2>1 DEF SweepInv
  <2>3. QED
    BY <1>3, <2>1, <2>2 DEF SweepInv, SweepComplete, Covers, Owes, Cached
<1>4. CASE /\ lookup' = [lookup EXCEPT ![p] = None]
           /\ sweep' = [Race(c) EXCEPT ![c] = rest]
  <2>1. lookup'[p] = None /\ \A q \in Page : lookup'[q] # None => lookup[q] # None
    BY <1>4 DEF SweepInv
  <2>2. Covers(rest, lookup')
    BY <2>1
  <2>3. \A d \in Client \ {c} : Covers(Race(c)[d], lookup')
    BY RaceOwes DEF Covers
  <2>4. \A d \in Client : Covers(sweep'[d], lookup')
    BY <1>4, <2>2, <2>3, RaceOwes
  <2>5. DOMAIN lookup' = Page /\ sweep' \in [Client -> SweepRec]
    BY <1>4, RaceOwes DEF SweepInv
  <2>6. QED
    BY <2>4, <2>5 DEF SweepInv, SweepComplete, Covers, Owes, Cached
<1>5. QED
  BY <1>2, <1>3, <1>4 DEF DeletePage

LEMMA FlushPageSweeps ==
  ASSUME SweepInv, NEW c \in Client, NEW p \in Page, NEW after, NEW r1 \in SweepRec,
         NEW r2 \in SweepRec, after[TRUE] = r1, after[FALSE] = r2, ~Owes(r1), ~Owes(r2),
         FlushPage(c, p, after), UNCHANGED lookup
  PROVE  SweepInv'
<1>1. \A d \in Client : Covers(sweep[d], lookup)
  BY CoversIs DEF SweepInv
<1>2. /\ r1 \in SweepRec /\ r2 \in SweepRec /\ NoSweep \in SweepRec
      /\ Covers(r1, lookup) /\ Covers(r2, lookup) /\ Covers(NoSweep, lookup)
  BY SweepRecs DEF Covers
<1>3. \E r \in {r1, r2, NoSweep} : sweep' = [sweep EXCEPT ![c] = r]
  BY DEF FlushPage
<1>4. sweep' \in [Client -> SweepRec] /\ \A d \in Client : Covers(sweep'[d], lookup')
  BY <1>1, <1>2, <1>3 DEF SweepInv
<1>5. QED
  BY <1>4 DEF SweepInv, SweepComplete, Covers, Owes, Cached

LEMMA SweepStepSweeps ==
  ASSUME SweepInv, NEW c \in Client, SweepStep(c)
  PROVE  SweepInv'
<1>1. PICK p \in sweep[c].todo :
        LET rest == [sweep[c] EXCEPT !.todo = @ \ {p}]
        IN \/ /\ sweep[c].op = "delete"
              /\ DeletePage(c, p, [ok \in BOOLEAN |-> IF ok THEN rest ELSE NoSweep])
           \/ /\ sweep[c].op = "flush"
              /\ FlushPage(c, p, [ok \in BOOLEAN |-> rest]) /\ UNCHANGED lookup
  BY DEF SweepStep
<1>2. sweep[c] \in SweepRec /\ p \in Page
  BY DEF SweepInv, SweepRec
<1>3. PICK rest : rest = [sweep[c] EXCEPT !.todo = sweep[c].todo \ {p}]
  OBVIOUS
<1>4. sweep[c].todo \ {p} \in SUBSET Page
  BY <1>2 DEF SweepRec
<1>5. /\ rest \in SweepRec /\ rest.todo = sweep[c].todo \ {p} /\ rest.op = sweep[c].op
      /\ rest.fid = sweep[c].fid /\ rest.raced = sweep[c].raced
  BY <1>2, <1>3, <1>4, SweepRecs
<1>6. Covers(sweep[c], lookup)
  BY CoversIs DEF SweepInv
<1>7. ASSUME NEW look, look[p] = None, \A q \in Page : look[q] # None => lookup[q] # None
      PROVE  Covers(rest, look)
  BY <1>5, <1>6, <1>7 DEF Covers, Owes
<1>8. CASE DeletePage(c, p, [ok \in BOOLEAN |-> IF ok THEN rest ELSE NoSweep])
  <2>1. PICK after : after = [ok \in BOOLEAN |-> IF ok THEN rest ELSE NoSweep]
    OBVIOUS
  <2>2. after[TRUE] = rest /\ after[FALSE] = NoSweep /\ DeletePage(c, p, after)
    BY <1>8, <2>1
  <2>3. NoSweep \in SweepRec /\ ~Owes(NoSweep) /\ rest \in SweepRec
    BY <1>5, SweepRecs
  <2>4. \A look : look[p] = None /\ (\A q \in Page : look[q] # None => lookup[q] # None)
                    => Covers(rest, look)
    BY <1>7
  <2>5. QED
    BY <1>2, <2>2, <2>3, <2>4, DeletePageSweeps
<1>9. CASE /\ sweep[c].op = "flush" /\ UNCHANGED lookup
           /\ FlushPage(c, p, [ok \in BOOLEAN |-> rest])
  <2>1. ~Owes(rest)
    BY <1>5, <1>9 DEF Owes
  <2>2. PICK after : after = [ok \in BOOLEAN |-> rest]
    OBVIOUS
  <2>3. after[TRUE] = rest /\ after[FALSE] = rest /\ FlushPage(c, p, after)
    BY <1>9, <2>2
  <2>4. QED
    BY <1>2, <1>5, <1>9, <2>1, <2>3, FlushPageSweeps
<1>10. QED
  BY <1>1, <1>3, <1>8, <1>9

LEMMA FetchMissSweeps ==
  ASSUME SweepInv, NEW c \in Client, NEW p \in Page, FetchMiss(c, p)
  PROVE  SweepInv'
<1>1. sweep[c] = NoSweep
  BY DEF FetchMiss, Idle
<1>2. \A f : DOMAIN WithoutPageOf(f) = Page /\ DOMAIN [WithoutPageOf(f) EXCEPT ![p] = f] = Page
  BY DEF WithoutPageOf
<1>3. \/ UNCHANGED <<lookup, sweep>>
      \/ DOMAIN lookup' = Page /\ sweep' = Race(c)
  BY <1>2 DEF FetchMiss
<1>4. CASE UNCHANGED <<lookup, sweep>>
  BY <1>4 DEF SweepInv, SweepComplete, Cached
<1>5. CASE DOMAIN lookup' = Page /\ sweep' = Race(c)
  <2>1. \A d \in Client : ~Owes(sweep'[d])
    BY <1>1, <1>5, RaceOwes, SweepRecs
  <2>2. QED
    BY <1>5, <2>1, RaceOwes DEF SweepInv, SweepComplete, Owes, Cached
<1>6. QED
  BY <1>3, <1>4, <1>5

\* A step that gives client c a sweep that covers the map, and leaves the map alone.
LEMMA SweepGiven ==
  ASSUME SweepInv, NEW c \in Client, NEW w \in SweepRec, Covers(w, lookup),
         sweep' = [sweep EXCEPT ![c] = w], UNCHANGED lookup
  PROVE  SweepInv'
<1>1. sweep' \in [Client -> SweepRec] /\ \A d \in Client : Covers(sweep'[d], lookup')
  BY CoversIs DEF SweepInv
<1>2. QED
  BY <1>1 DEF SweepInv, SweepComplete, Covers, Owes, Cached

LEMMA StartSweeps ==
  ASSUME SweepInv, NEW c \in Client, NEW op \in SweepOps, NEW p \in Page,
         StartSweep(c, op, Fid(p))
  PROVE  SweepInv'
<1>1. PICK w : w = [op |-> op, fid |-> Fid(p), raced |-> FALSE,
                    todo |-> {q \in Cached : Fid(q) = Fid(p)}]
  OBVIOUS
<1>2. Cached \subseteq Page /\ w.todo = {q \in Cached : Fid(q) = Fid(p)} /\ w.fid = Fid(p)
  BY <1>1 DEF Cached
<1>3. w \in SweepRec
  BY <1>1, <1>2 DEF SweepRec
<1>4. Covers(w, lookup)
  BY <1>2 DEF Covers, Cached
<1>5. QED
  BY <1>1, <1>3, <1>4, SweepGiven DEF StartSweep

LEMMA SkipSweeps ==
  ASSUME SweepInv, NEW c \in Client, SweepSkip(c)
  PROVE  SweepInv'
<1>1. PICK p \in sweep[c].todo : sweep' = [sweep EXCEPT ![c].todo = @ \ {p}]
  BY DEF SweepSkip
<1>2. PICK w : w = [sweep[c] EXCEPT !.todo = sweep[c].todo \ {p}]
  OBVIOUS
<1>3. sweep[c] \in SweepRec /\ sweep[c].raced
  BY DEF SweepInv, SweepSkip
<1>4. sweep[c].todo \ {p} \in SUBSET Page
  BY <1>3 DEF SweepRec
<1>5. w \in SweepRec /\ w.raced
  BY <1>2, <1>3, <1>4, SweepRecs
<1>6. sweep' = [sweep EXCEPT ![c] = w]
  BY <1>1, <1>2
<1>7. QED
  BY <1>5, <1>6, SweepGiven DEF SweepSkip, Covers, Owes

\* A DeleteAllPages whose map nobody else changed leaves no page of its file in the pool, for
\* either policy and whichever reads and writes fail.
THEOREM SweepsComplete == Spec => []SweepComplete
<1>1. Init => SweepInv
  BY SweepRecs DEF Init, SweepInv, SweepComplete, Owes
<1>2. ASSUME SweepInv, [Next]_vars
      PROVE  SweepInv'
  <2>1. CASE UNCHANGED vars
    BY <1>2, <2>1 DEF vars, SweepInv, SweepComplete, Cached
  <2>2. ASSUME NEW c \in Client, ClientStep(c)
        PROVE  SweepInv'
    <3>1. CASE \/ \E p \in Page : FetchCached(c, p)
               \/ \E v \in Value : Write(c, v)
               \/ \E is_dirty \in BOOLEAN : UnpinPage(c, is_dirty)
      <4>1. UNCHANGED <<lookup, sweep>>
        BY <3>1 DEF FetchCached, Write, UnpinPage
      <4>2. QED
        BY <1>2, <4>1 DEF SweepInv, SweepComplete, Cached
    <3>2. CASE \E p \in Page : FetchMiss(c, p)
      BY <1>2, <3>2, FetchMissSweeps
    <3>3. ASSUME NEW p \in Page, Delete(c, p) \/ Flush(c, p)
          PROVE  SweepInv'
      <4>1. PICK after : after = [ok \in BOOLEAN |-> NoSweep]
        OBVIOUS
      <4>2. after[TRUE] = NoSweep /\ after[FALSE] = NoSweep
        BY <4>1
      <4>3. NoSweep \in SweepRec /\ ~Owes(NoSweep) /\ \A look : Covers(NoSweep, look)
        BY SweepRecs DEF Covers
      <4>4. CASE Delete(c, p)
        <5>1. DeletePage(c, p, after)
          BY <4>1, <4>4 DEF Delete
        <5>2. QED
          BY <1>2, <4>2, <4>3, <5>1, DeletePageSweeps
      <4>5. CASE Flush(c, p)
        <5>1. FlushPage(c, p, after) /\ UNCHANGED lookup
          BY <4>1, <4>5 DEF Flush
        <5>2. QED
          BY <1>2, <4>2, <4>3, <5>1, FlushPageSweeps
      <4>6. QED
        BY <3>3, <4>4, <4>5
    <3>4. CASE \E op \in SweepOps : \E p \in Page : StartSweep(c, op, Fid(p))
      BY <1>2, <3>4, StartSweeps
    <3>5. CASE SweepStep(c)
      BY <1>2, <3>5, SweepStepSweeps
    <3>6. CASE SweepSkip(c)
      BY <1>2, <3>6, SkipSweeps
    <3>7. CASE SweepEnd(c)
      <4>1. Covers(NoSweep, lookup)
        BY SweepRecs DEF Covers
      <4>2. QED
        BY <1>2, <3>7, <4>1, SweepRecs, SweepGiven DEF SweepEnd
    <3>8. QED
      BY <2>2, <3>1, <3>2, <3>3, <3>4, <3>5, <3>6, <3>7 DEF ClientStep
  <2>3. QED
    BY <1>2, <2>1, <2>2 DEF Next
<1>3. SweepInv => SweepComplete
  BY DEF SweepInv
<1>4. QED
  BY <1>1, <1>2, <1>3, PTL DEF Spec
-----------------------------------------------------------------------------
(* The pool implements PageStore. *)

Contents == [p \in Page |-> IF lookup[p] = None THEN disk[p] ELSE frames[lookup[p]].data]
Holding  == [c \in Client |-> pin[c].page]
View     == [c \in Client |-> IF pin[c].page = None THEN None ELSE frames[pin[c].frame].data]

\* A cached page differs from its file only while it is marked dirty or a client that
\* wrote to it still holds it, and will mark it when it unpins it.
Clean ==
  \A p \in Page : lookup[p] # None =>
    \/ frames[lookup[p]].dirty
    \/ frames[lookup[p]].data = disk[p]
    \/ \E d \in Client : pin[d].frame = lookup[p] /\ pin[d].wrote

\* What a step of the pool may do to the store.
StoreStep ==
  \/ Contents' = Contents /\ Holding' = Holding
  \/ \E c \in Client, p \in Page :
       /\ Contents' = Contents
       /\ Holding[c] = None /\ Holding' = [Holding EXCEPT ![c] = p]
  \/ \E c \in Client, v \in Value :
       /\ Contents' = [Contents EXCEPT ![Holding[c]] = v]
       /\ Holding[c] # None /\ Holding' = Holding
  \/ \E c \in Client :
       /\ Contents' = Contents
       /\ Holding[c] # None /\ Holding' = [Holding EXCEPT ![c] = None]

LEMMA LookupFacts ==
  ASSUME IInv
  PROVE  /\ \A r \in Page : lookup[r] # None => lookup[r] \in Frame
                                              /\ frames[lookup[r]].page = r
         /\ \A g \in Frame : frames[g].page # None => /\ frames[g].page \in Page
                                                      /\ lookup[frames[g].page] = g
  BY DEF IInv, TypeInv, FrameOwnership, Cached, FrameRec

\* A frame nobody holds: once it is written back, the file has its data.
LEMMA WrittenBackClean ==
  ASSUME IInv, Clean, NEW f \in Frame, frames[f].pins = 0
  PROVE  /\ frames[f].page # None => WrittenBack(f, frames[f].page)[frames[f].page] = frames[f].data
         /\ \A r \in Page : r # frames[f].page => WrittenBack(f, frames[f].page)[r] = disk[r]
<1>1. disk \in [Page -> Value]
  BY DEF IInv, TypeInv
<1>2. \A d \in Client : pin[d].frame # f
  BY PinCounts
<1>3. frames[f].page # None => frames[f].page \in Page /\ lookup[frames[f].page] = f
  BY LookupFacts
<1>4. frames[f].page # None /\ ~frames[f].dirty => frames[f].data = disk[frames[f].page]
  BY <1>2, <1>3, NoneFacts DEF Clean
<1>5. QED
  BY <1>1, <1>3, <1>4 DEF WrittenBack

LEMMA FetchCachedStore ==
  ASSUME IInv, Clean, NEW c \in Client, NEW p \in Page, FetchCached(c, p)
  PROVE  Clean' /\ StoreStep
<1> DEFINE f == lookup[p]
<1>1. f \in Frame
  BY LookupFacts DEF FetchCached
<1>2. /\ frames' = [frames EXCEPT ![f].pins = @ + 1]
      /\ GivePin(c, p, f) /\ pin[c] = NoPin
      /\ lookup' = lookup /\ disk' = disk
  BY DEF FetchCached, Idle
<1> HIDE DEF f
<1>3. \A g \in Frame : frames'[g].data = frames[g].data /\ frames'[g].dirty = frames[g].dirty
  BY <1>1, <1>2 DEF IInv, TypeInv, FrameRec
<1>4. /\ pin'[c].page = p /\ \A d \in Client \ {c} : pin'[d] = pin[d]
      /\ pin[c].page = None /\ pin[c].frame = None
  <2>1. pin'[c].page = p /\ \A d \in Client \ {c} : pin'[d] = pin[d]
    BY <1>1, <1>2, PinTaken
  <2>2. QED
    BY <1>2, <2>1 DEF NoPin
<1>5. Contents' = Contents
  BY <1>2, <1>3, LookupFacts DEF Contents
<1>6. Holding' = [Holding EXCEPT ![c] = p] /\ Holding[c] = None
  BY <1>4 DEF Holding
<1>7. Clean'
  <2> SUFFICES ASSUME NEW r \in Page, lookup'[r] # None
               PROVE  \/ frames'[lookup'[r]].dirty
                      \/ frames'[lookup'[r]].data = disk'[r]
                      \/ \E d \in Client : pin'[d].frame = lookup'[r] /\ pin'[d].wrote
    BY DEF Clean
  <2>1. lookup[r] # None /\ lookup[r] \in Frame
    BY <1>2, LookupFacts
  <2>2. CASE \E d \in Client : pin[d].frame = lookup[r] /\ pin[d].wrote
    BY <1>2, <1>4, <2>1, <2>2
  <2>3. CASE frames[lookup[r]].dirty \/ frames[lookup[r]].data = disk[r]
    BY <1>2, <1>3, <2>1, <2>3
  <2>4. QED
    BY <2>1, <2>2, <2>3 DEF Clean
<1>8. QED
  BY <1>5, <1>6, <1>7 DEF StoreStep

LEMMA FetchMissStore ==
  ASSUME IInv, Clean, NEW c \in Client, NEW p \in Page, FetchMiss(c, p)
  PROVE  Clean' /\ StoreStep
<1>1. PICK a \in AvailableFrames :
        \/ /\ disk' = WrittenBack(a.id, frames[a.id].page)
           /\ frames' = [frames EXCEPT ![a.id] =
                           [page |-> p, data |-> disk'[p], dirty |-> FALSE, pins |-> 1]]
           /\ lookup' = [WithoutPageOf(a.id) EXCEPT ![p] = a.id]
           /\ GivePin(c, p, a.id)
        \/ UNCHANGED <<frames, lookup, disk, pin>>
        \/ /\ disk' = WrittenBack(a.id, frames[a.id].page)
           /\ frames' = [frames EXCEPT ![a.id] = ResetFrame]
           /\ lookup' = WithoutPageOf(a.id)
           /\ UNCHANGED pin
  BY DEF FetchMiss
<1> DEFINE f == a.id
           q == frames[f].page
           W == WithoutPageOf(f)
           D == WrittenBack(f, q)
<1>2. f \in Frame /\ frames[f].pins = 0
  BY AvailableFacts
<1>3. lookup[p] = None /\ pin[c] = NoPin
  BY DEF FetchMiss, Idle
<1>4. /\ W \in [Page -> Frame \cup {None}]
      /\ \A r \in Page : W[r] # None => /\ W[r] = lookup[r] /\ lookup[r] # f
                                        /\ lookup[r] \in Frame /\ frames[lookup[r]].page = r
      /\ \A r \in Page : lookup[r] # None /\ lookup[r] # f => W[r] = lookup[r]
  BY <1>2, WithoutFacts
<1>5. /\ q # None => D[q] = frames[f].data /\ q \in Page /\ lookup[q] = f /\ q # p
      /\ \A r \in Page : r # q => D[r] = disk[r]
  BY <1>2, <1>3, WrittenBackClean, LookupFacts, NoneFacts
<1>6. \A r \in Page : lookup[r] = f => r = q
  BY LookupFacts, <1>2, NoneFacts
<1>7. frames \in [Frame -> FrameRec]
  BY DEF IInv, TypeInv
<1> HIDE DEF f, q, W, D
\* Without the page of the frame, what is cached and what is on disk is the same store.
<1>8. \A r \in Page : (IF W[r] = None THEN D[r] ELSE frames[W[r]].data) = Contents[r]
  <2> SUFFICES ASSUME NEW r \in Page
               PROVE  (IF W[r] = None THEN D[r] ELSE frames[W[r]].data) = Contents[r]
    OBVIOUS
  <2>1. Contents[r] = IF lookup[r] = None THEN disk[r] ELSE frames[lookup[r]].data
    BY DEF Contents
  <2>2. CASE r = q
    <3>1. lookup[r] = f /\ D[r] = frames[f].data
      BY <1>5, <2>2, NoneFacts
    <3>2. W[r] = None
      BY <1>4, <3>1
    <3>3. QED
      BY <1>2, <2>1, <3>1, <3>2, NoneFacts
  <2>3. CASE r # q
    BY <1>4, <1>5, <1>6, <2>1, <2>3
  <2>4. QED
    BY <2>2, <2>3
<1>9. \A r \in Page : W[r] # None =>
        \/ frames[W[r]].dirty \/ frames[W[r]].data = D[r]
        \/ \E d \in Client : pin[d].frame = W[r] /\ pin[d].wrote
  <2>1. \A r \in Page : W[r] # None => r # q
    BY <1>4, <1>5, NoneFacts
  <2>2. QED
    BY <1>4, <1>5, <2>1 DEF Clean
<1>10. ASSUME disk' = D,
              frames' = [frames EXCEPT ![f] =
                           [page |-> p, data |-> disk'[p], dirty |-> FALSE, pins |-> 1]],
              lookup' = [W EXCEPT ![p] = f], GivePin(c, p, f)
       PROVE  Clean' /\ StoreStep
  <2>1. frames'[f].data = disk'[p] /\ \A g \in Frame \ {f} : frames'[g] = frames[g]
    BY <1>2, <1>7, <1>10
  <2>2. lookup'[p] = f /\ \A r \in Page \ {p} : lookup'[r] = W[r]
    BY <1>4, <1>10
  <2>3. /\ pin'[c].page = p /\ \A d \in Client \ {c} : pin'[d] = pin[d]
        /\ pin[c].page = None /\ pin[c].frame = None
    <3>1. pin'[c].page = p /\ \A d \in Client \ {c} : pin'[d] = pin[d]
      BY <1>2, <1>3, <1>10, PinTaken
    <3>2. QED
      BY <1>3, <3>1 DEF NoPin
  <2>4. \A r \in Page : Contents'[r] = Contents[r]
    <3>1. W[p] = None
      BY <1>3, <1>4
    <3>2. Contents[p] = D[p]
      BY <1>8, <3>1
    <3>3. Contents'[p] = disk'[p]
      BY <1>2, <2>1, <2>2, NoneFacts DEF Contents
    <3>4. ASSUME NEW r \in Page \ {p}
          PROVE  Contents'[r] = Contents[r]
      <4>1. lookup'[r] = W[r] /\ W[r] # f
        BY <1>2, <1>4, <2>2, NoneFacts
      <4>2. Contents'[r] = IF W[r] = None THEN D[r] ELSE frames'[W[r]].data
        BY <1>10, <4>1 DEF Contents
      <4>3. W[r] # None => frames'[W[r]] = frames[W[r]]
        BY <1>4, <2>1
      <4>4. QED
        BY <1>8, <4>2, <4>3
    <3>5. QED
      BY <1>10, <3>2, <3>3, <3>4
  <2>5. Contents' = Contents
    BY <2>4 DEF Contents
  <2>6. Holding' = [Holding EXCEPT ![c] = p] /\ Holding[c] = None
    BY <2>3 DEF Holding
  <2>7. Clean'
    <3> SUFFICES ASSUME NEW r \in Page, lookup'[r] # None
                 PROVE  \/ frames'[lookup'[r]].dirty
                        \/ frames'[lookup'[r]].data = disk'[r]
                        \/ \E d \in Client : pin'[d].frame = lookup'[r] /\ pin'[d].wrote
      BY DEF Clean
    <3>1. CASE r = p
      BY <2>1, <2>2, <3>1
    <3>2. CASE r # p
      <4>1. lookup'[r] = W[r] /\ W[r] # None /\ W[r] \in Frame \ {f}
        BY <1>4, <2>2, <3>2
      <4>2. frames'[W[r]] = frames[W[r]]
        BY <2>1, <4>1
      <4>3. \A d \in Client : pin[d].frame = W[r] /\ pin[d].wrote => pin'[d] = pin[d]
        BY <2>3, <4>1
      <4>4. QED
        BY <1>9, <1>10, <4>1, <4>2, <4>3
    <3>3. QED
      BY <3>1, <3>2
  <2>8. QED
    BY <2>5, <2>6, <2>7 DEF StoreStep
<1>11. ASSUME UNCHANGED <<frames, lookup, disk, pin>>
       PROVE  Clean' /\ StoreStep
  BY <1>11 DEF Clean, StoreStep, Contents, Holding
<1>12. ASSUME disk' = D, frames' = [frames EXCEPT ![f] = ResetFrame], lookup' = W, UNCHANGED pin
       PROVE  Clean' /\ StoreStep
  <2>1. \A r \in Page : W[r] # None => frames'[W[r]] = frames[W[r]]
    BY <1>4, <1>7, <1>12
  <2>2. Contents' = Contents
    <3>1. \A r \in Page : Contents'[r] = Contents[r]
      BY <1>8, <1>12, <2>1 DEF Contents
    <3>2. QED
      BY <3>1 DEF Contents
  <2>3. Clean'
    BY <1>9, <1>12, <2>1 DEF Clean
  <2>4. QED
    BY <1>12, <2>2, <2>3 DEF StoreStep, Holding
<1>13. QED
  BY <1>1, <1>10, <1>11, <1>12 DEF f, q, W, D
LEMMA WriteStore ==
  ASSUME IInv, Clean, NEW c \in Client, NEW v \in Value, Write(c, v)
  PROVE  Clean' /\ StoreStep
<1> DEFINE f == pin[c].frame
           p == pin[c].page
<1>1. /\ frames' = [frames EXCEPT ![f].data = v]
      /\ pin' = [pin EXCEPT ![c].wrote = TRUE]
      /\ pin[c] # NoPin
      /\ lookup' = lookup /\ disk' = disk
  BY DEF Write
<1>2. p # None /\ p \in Page /\ f \in Frame /\ lookup[p] = f
  BY <1>1, PinCounts DEF IInv, TypeInv
<1> HIDE DEF f, p
<1>3. /\ frames'[f].data = v
      /\ \A g \in Frame \ {f} : frames'[g] = frames[g]
  BY <1>1, <1>2 DEF IInv, TypeInv, FrameRec
<1>4. /\ pin'[c].wrote /\ pin'[c].frame = f
      /\ \A d \in Client : pin'[d].page = pin[d].page /\ pin'[d].frame = pin[d].frame
      /\ \A d \in Client : pin[d].wrote => pin'[d].wrote
  BY <1>1 DEF IInv, TypeInv, PinRec, f
<1>5. \A r \in Page \ {p} : lookup[r] # None => lookup[r] \in Frame \ {f}
  BY <1>2, LookupFacts, NoneFacts
<1>6. Contents' = [Contents EXCEPT ![p] = v]
  <2>1. Contents'[p] = v
    BY <1>1, <1>2, <1>3, NoneFacts DEF Contents
  <2>2. \A r \in Page \ {p} : Contents'[r] = Contents[r]
    BY <1>1, <1>3, <1>5 DEF Contents
  <2>3. QED
    BY <1>2, <2>1, <2>2 DEF Contents
<1>7. Holding' = Holding /\ Holding[c] = p
  BY <1>4 DEF Holding, p
<1>8. Clean'
  <2> SUFFICES ASSUME NEW r \in Page, lookup'[r] # None
               PROVE  \/ frames'[lookup'[r]].dirty
                      \/ frames'[lookup'[r]].data = disk'[r]
                      \/ \E d \in Client : pin'[d].frame = lookup'[r] /\ pin'[d].wrote
    BY DEF Clean
  <2>1. CASE r = p
    BY <1>1, <1>2, <1>4, <2>1
  <2>2. CASE r # p
    BY <1>1, <1>3, <1>4, <1>5, <2>2 DEF Clean
  <2>3. QED
    BY <2>1, <2>2
<1>9. QED
  BY <1>2, <1>6, <1>7, <1>8 DEF StoreStep

LEMMA UnpinPageStore ==
  ASSUME IInv, Clean, NEW c \in Client, NEW b \in BOOLEAN, UnpinPage(c, b)
  PROVE  Clean' /\ StoreStep
<1> DEFINE f == pin[c].frame
<1>1. /\ pin[c] # NoPin /\ f \in Frame
      /\ frames' = [frames EXCEPT ![f] = [frames[f] EXCEPT !.pins = @ - 1, !.dirty = @ \/ b]]
      /\ pin' = [pin EXCEPT ![c] = NoPin]
      /\ pin[c].wrote => b
      /\ lookup' = lookup /\ disk' = disk
  BY UnpinPageFacts
<1>2. pin[c].page # None
  BY <1>1 DEF IInv, TypeInv
<1>3. /\ \A g \in Frame : /\ frames'[g].data = frames[g].data
                          /\ frames[g].dirty => frames'[g].dirty
      /\ b => frames'[f].dirty
  BY <1>1 DEF IInv, TypeInv, FrameRec
<1>4. /\ \A d \in Client \ {c} : pin'[d] = pin[d]
      /\ pin'[c].page = None
  BY <1>1 DEF IInv, TypeInv, NoPin
<1>5. Contents' = Contents
  BY <1>1, <1>3, LookupFacts DEF Contents
<1>6. Holding' = [Holding EXCEPT ![c] = None] /\ Holding[c] # None
  <2>1. Holding[c] # None
    BY <1>2 DEF Holding
  <2>2. \A d \in Client : Holding'[d] = IF d = c THEN None ELSE Holding[d]
    BY <1>4 DEF Holding
  <2>3. QED
    BY <2>1, <2>2 DEF Holding
<1>7. Clean'
  <2> SUFFICES ASSUME NEW r \in Page, lookup[r] # None
               PROVE  \/ frames'[lookup[r]].dirty
                      \/ frames'[lookup[r]].data = disk[r]
                      \/ \E d \in Client : pin'[d].frame = lookup[r] /\ pin'[d].wrote
    BY <1>1 DEF Clean
  <2>1. lookup[r] \in Frame
    BY LookupFacts
  <2>2. CASE pin[c].frame = lookup[r] /\ pin[c].wrote
    BY <1>1, <1>3, <2>2
  <2>3. CASE ~(pin[c].frame = lookup[r] /\ pin[c].wrote)
    BY <1>3, <1>4, <2>1, <2>3 DEF Clean
  <2>4. QED
    BY <2>2, <2>3
<1>8. QED
  BY <1>5, <1>6, <1>7 DEF StoreStep

LEMMA DeletePageStore ==
  ASSUME IInv, Clean, NEW c \in Client, NEW p \in Page, NEW after,
         DeletePage(c, p, after), UNCHANGED pin
  PROVE  Clean' /\ StoreStep
<1> DEFINE f == lookup[p]
<1>1. CASE UNCHANGED <<frames, lookup, disk>>
  BY <1>1 DEF Clean, StoreStep, Contents, Holding
<1>2. ASSUME f # None, ~InUse(f), disk' = WrittenBack(f, p),
             frames' = [frames EXCEPT ![f] = ResetFrame],
             ~RUnpinThrows(replacer, f) => lookup' = [lookup EXCEPT ![p] = None]
      PROVE  Clean' /\ StoreStep
  <2>1. f \in Frame /\ frames[f].page = p /\ Known(replacer, f) /\ frames[f].pins = 0
    BY <1>2, LookupFacts DEF IInv, ReplacerInv, InUse, TypeInv, FrameRec
  <2>2. lookup' = [lookup EXCEPT ![p] = None]
    BY <1>2, <2>1, UnpinThrowsFact
  <2>3. disk'[p] = frames[f].data /\ \A r \in Page \ {p} : disk'[r] = disk[r]
    BY <1>2, <2>1, WrittenBackClean, NoneFacts
  <2>4. lookup'[p] = None /\ \A r \in Page \ {p} : lookup'[r] = lookup[r]
    BY <2>2 DEF IInv, TypeInv
  <2>5. \A r \in Page \ {p} : lookup[r] # None => lookup[r] \in Frame \ {f}
    BY <2>1, LookupFacts
  <2>6. Contents[p] = frames[f].data
    BY <1>2 DEF Contents
  <2> HIDE DEF f
  <2>7. \A g \in Frame \ {f} : frames'[g] = frames[g]
    BY <1>2, <2>1 DEF IInv, TypeInv
  <2>8. Contents' = Contents
    <3>1. Contents'[p] = Contents[p]
      BY <2>3, <2>4, <2>6 DEF Contents
    <3>2. \A r \in Page \ {p} : Contents'[r] = Contents[r]
      BY <2>3, <2>4, <2>5, <2>7 DEF Contents
    <3>3. QED
      BY <3>1, <3>2 DEF Contents
  <2>9. Clean'
    BY <2>3, <2>4, <2>5, <2>7 DEF Clean
  <2>10. QED
    BY <2>8, <2>9 DEF StoreStep, Holding
<1>3. QED
  BY <1>1, <1>2 DEF DeletePage

LEMMA FlushPageStore ==
  ASSUME IInv, Clean, NEW c \in Client, NEW p \in Page, NEW after,
         FlushPage(c, p, after), UNCHANGED <<free_list, lookup, replacer, pin>>
  PROVE  Clean' /\ StoreStep
<1> DEFINE f == lookup[p]
<1>1. CASE UNCHANGED <<frames, disk>>
  BY <1>1 DEF Clean, StoreStep, Contents, Holding
<1>2. ASSUME f # None, frames[f].dirty, disk' = WrittenBack(f, p),
             frames' = [frames EXCEPT ![f].dirty = FALSE]
      PROVE  Clean' /\ StoreStep
  <2>1. f \in Frame
    BY <1>2, LookupFacts
  <2>2. disk'[p] = frames[f].data /\ \A r \in Page \ {p} : disk'[r] = disk[r]
    BY <1>2 DEF WrittenBack, IInv, TypeInv
  <2>3. \A r \in Page \ {p} : lookup[r] # None => lookup[r] \in Frame \ {f}
    BY <1>2, LookupFacts
  <2> HIDE DEF f
  <2>4. /\ \A h \in Frame : frames'[h].data = frames[h].data
        /\ \A h \in Frame \ {f} : frames'[h] = frames[h]
    BY <1>2, <2>1 DEF IInv, TypeInv, FrameRec
  <2>5. Contents' = Contents
    <3>1. f # None /\ lookup' = lookup /\ lookup[p] = f
      BY <1>2 DEF f
    <3>2. Contents'[p] = Contents[p]
      BY <2>1, <2>4, <3>1 DEF Contents
    <3>3. \A r \in Page \ {p} : Contents'[r] = Contents[r]
      BY <2>2, <2>3, <2>4, <3>1 DEF Contents
    <3>4. QED
      BY <3>2, <3>3 DEF Contents
  <2>6. Clean'
    <3> SUFFICES ASSUME NEW r \in Page, lookup[r] # None
                 PROVE  \/ frames'[lookup[r]].dirty
                        \/ frames'[lookup[r]].data = disk'[r]
                        \/ \E d \in Client : pin[d].frame = lookup[r] /\ pin[d].wrote
      BY DEF Clean
    <3>1. CASE r = p
      BY <2>1, <2>2, <2>4, <3>1 DEF f
    <3>2. CASE r # p
      BY <2>2, <2>3, <2>4, <3>2 DEF Clean
    <3>3. QED
      BY <3>1, <3>2
  <2>7. QED
    BY <2>5, <2>6 DEF StoreStep, Holding
<1>3. QED
  BY <1>1, <1>2 DEF FlushPage

LEMMA StepStore == IInv /\ Clean /\ [Next]_vars => Clean' /\ StoreStep
<1> SUFFICES ASSUME IInv, Clean, [Next]_vars PROVE Clean' /\ StoreStep
  OBVIOUS
<1>1. ASSUME UNCHANGED <<frames, lookup, disk, pin>>
      PROVE  Clean' /\ StoreStep
  BY <1>1 DEF Clean, StoreStep, Contents, Holding
<1>2. ASSUME NEW c \in Client, ClientStep(c)
      PROVE  Clean' /\ StoreStep
  <2>1. CASE \E p \in Page : FetchCached(c, p)
    BY <2>1, FetchCachedStore
  <2>2. CASE \E p \in Page : FetchMiss(c, p)
    BY <2>2, FetchMissStore
  <2>3. CASE \E p \in Page : Delete(c, p)
    BY <2>3, DeletePageStore DEF Delete
  <2>4. CASE \E p \in Page : Flush(c, p)
    BY <2>4, FlushPageStore DEF Flush
  <2>5. CASE \E v \in Value : Write(c, v)
    BY <2>5, WriteStore
  <2>6. CASE \E b \in BOOLEAN : UnpinPage(c, b)
    BY <2>6, UnpinPageStore
  <2>7. CASE SweepStep(c)
    <3>1. sweep[c].todo \subseteq Page
      BY SweepFacts DEF IInv, SweepRec
    <3>2. QED
      BY <2>7, <3>1, DeletePageStore, FlushPageStore DEF SweepStep
  <2>8. CASE \/ \E op \in SweepOps : \E p \in Page : StartSweep(c, op, Fid(p))
             \/ SweepSkip(c) \/ SweepEnd(c)
    BY <1>1, <2>8 DEF StartSweep, SweepSkip, SweepEnd
  <2>9. QED
    BY <1>2, <2>1, <2>2, <2>3, <2>4, <2>5, <2>6, <2>7, <2>8 DEF ClientStep
<1>3. CASE UNCHANGED vars
  BY <1>1, <1>3 DEF vars
<1>4. QED
  BY <1>2, <1>3 DEF Next

\* What a client sees through the memory it was given is the page it holds.
LEMMA ViewFact == IInv => View = Store!Seen(Contents, Holding)
<1> SUFFICES ASSUME IInv PROVE View = Store!Seen(Contents, Holding)
  OBVIOUS
<1>1. ASSUME NEW c \in Client
      PROVE  View[c] = Store!Seen(Contents, Holding)[c]
  BY PinCounts, NoneFacts DEF View, Store!Seen, Contents, Holding
<1>2. QED
  BY <1>1 DEF View, Store!Seen

LEMMA ViewNext == IInv' => View' = Store!Seen(Contents', Holding')
<1>1. IInv' => (View = Store!Seen(Contents, Holding))'
  BY ViewFact, PTL
<1>2. QED
  BY <1>1 DEF Store!Seen

LEMMA InitStore == Init => Clean /\ Store!Init
<1> SUFFICES ASSUME Init PROVE Clean /\ Store!Init
  OBVIOUS
<1>1. Clean
  BY DEF Init, Clean
<1>2. Contents = [p \in Page |-> Zero] /\ Holding = [c \in Client |-> None]
  BY DEF Init, Contents, Holding, NoPin
<1>3. View = Store!Seen(Contents, Holding)
  BY InitInv, ViewFact
<1>4. QED
  BY <1>1, <1>2, <1>3 DEF Store!Init, Contents, Holding, View

LEMMA StepRefines ==
  ASSUME IInv, IInv', StoreStep
  PROVE  [Store!Next]_<<Contents, Holding, View>>
<1>1. View' = Store!Seen(Contents', Holding')
  BY ViewNext
<1>2. CASE Contents' = Contents /\ Holding' = Holding
  <2>1. View' = View
    BY <1>1, <1>2, ViewFact
  <2>2. QED
    BY <1>2, <2>1
<1>3. CASE ~(Contents' = Contents /\ Holding' = Holding)
  BY <1>1, <1>3 DEF StoreStep, Store!Next, Store!Acquire, Store!Change, Store!Release,
                    Contents, Holding, View
<1>4. QED
  BY <1>2, <1>3

\* The pool, of any size, under either policy and with any number of threads, is a page
\* store: fetching, evicting, flushing, deleting and sweeping never change the contents of
\* a page or what a client that holds one sees, and no write is lost.
THEOREM Refinement ==
  ASSUME Reliable
  PROVE  Spec => StoreSpec
<1>1. Init => Store!Init
  BY InitStore
<1>2. IInv /\ IInv' /\ Clean /\ [Next]_vars => [Store!Next]_<<Contents, Holding, View>>
  BY StepStore, StepRefines
<1>3. Init => Clean
  BY InitStore
<1>4. IInv /\ Clean /\ [Next]_vars => Clean'
  BY StepStore
<1>5. Spec => []IInv
  BY Inductive
<1>6. QED
  BY <1>1, <1>2, <1>3, <1>4, <1>5, PTL DEF Spec, StoreSpec, Store!Spec,
     Contents, Holding, View

-----------------------------------------------------------------------------
(* LRU: the list holds every frame of lru_hash_, and cur_size_ counts the evictable ones. *)

Holds(s, f) == \E i \in DOMAIN s : s[i] = f

Listed(r) ==
  /\ r.list \in Seq(Frame)
  /\ \A f \in r.hash : Holds(r.list, f)
  /\ r.size = Cardinality(r.evictable)

LEMMA UnlinkIs ==
  ASSUME NEW s \in Seq(Frame), NEW f
  PROVE  /\ LRU!Unlink(s, f) \in Seq(Frame)
         /\ \A g \in Frame \ {f} : Holds(s, g) => Holds(LRU!Unlink(s, f), g)
<1> DEFINE Nodes == {i \in DOMAIN s : s[i] = f}
<1>1. CASE Nodes = {}
  <2>1. LRU!Unlink(s, f) = s
    BY <1>1 DEF LRU!Unlink
  <2>2. QED
    BY <2>1
<1>2. CASE Nodes # {}
  <2>1. PICK at : at \in Nodes /\ at = CHOOSE i \in Nodes : TRUE
    BY <1>2
  <2>2. at \in 1 .. Len(s) /\ s[at] = f /\ Len(s) \in Nat /\ DOMAIN s = 1 .. Len(s)
    BY <2>1
  <2> DEFINE r == SubSeq(s, 1, at - 1) \o SubSeq(s, at + 1, Len(s))
  <2>3. LRU!Unlink(s, f) = r
    BY <1>2, <2>1 DEF LRU!Unlink
  <2>4. /\ r \in Seq(Frame) /\ DOMAIN r = 1 .. Len(s) - 1
        /\ \A i \in 1 .. Len(s) - 1 : r[i] = s[IF i < at THEN i ELSE i + 1]
    BY <2>2, CutIs
  <2> HIDE DEF r, Nodes
  <2>5. ASSUME NEW g \in Frame \ {f}, NEW j \in DOMAIN s, s[j] = g
        PROVE  Holds(r, g)
    <3>1. j # at /\ j \in 1 .. Len(s)
      BY <2>2, <2>5
    <3>2. CASE j < at
      <4>1. j \in 1 .. Len(s) - 1
        BY <2>2, <3>1, <3>2
      <4>2. r[j] = g
        BY <2>4, <2>5, <3>2, <4>1
      <4>3. QED
        BY <2>4, <4>1, <4>2 DEF Holds
    <3>3. CASE j > at
      <4>1. j - 1 \in 1 .. Len(s) - 1 /\ ~(j - 1 < at) /\ (j - 1) + 1 = j
        BY <2>2, <3>1, <3>3
      <4>2. r[j - 1] = s[j]
        BY <2>4, <4>1
      <4>3. QED
        BY <2>4, <2>5, <4>1, <4>2 DEF Holds
    <3>4. QED
      BY <2>2, <3>1, <3>2, <3>3
  <2>6. QED
    BY <2>3, <2>4, <2>5 DEF Holds
<1>3. QED
  BY <1>1, <1>2

LEMMA EvictableFinite ==
  ASSUME NEW E \in SUBSET Frame
  PROVE  /\ IsFiniteSet(E) /\ Cardinality(E) \in Nat
         /\ Cardinality(E) = 0 <=> E = {}
         /\ \A f \in E : Cardinality(E \ {f}) = Cardinality(E) - 1
         /\ \A f \in Frame \ E : Cardinality(E \cup {f}) = Cardinality(E) + 1
<1>1. IsFiniteSet(E)
  BY FrameFinite, FS_Subset
<1>2. QED
  BY <1>1, FS_CardinalityType, FS_EmptySet, FS_AddElement, FS_RemoveElement

LEMMA FrontIs ==
  ASSUME NEW f \in Frame, NEW s \in Seq(Frame)
  PROVE  /\ <<f>> \o s \in Seq(Frame)
         /\ Holds(<<f>> \o s, f)
         /\ \A g : Holds(s, g) => Holds(<<f>> \o s, g)
<1> DEFINE r == <<f>> \o s
<1>1. /\ r \in Seq(Frame) /\ Len(r) = 1 + Len(s) /\ Len(s) \in Nat
      /\ r[1] = f /\ \A j \in 1 .. Len(s) : r[j + 1] = s[j]
  OBVIOUS
<1>2. DOMAIN r = 1 .. 1 + Len(s) /\ DOMAIN s = 1 .. Len(s)
  BY <1>1
<1> HIDE DEF r
<1>3. 1 \in DOMAIN r /\ \A j \in DOMAIN s : j + 1 \in DOMAIN r
  BY <1>1, <1>2
<1>4. QED
  BY <1>1, <1>2, <1>3 DEF r, Holds

\* What a call of the replacer leaves is as good as what it was given.
LEMMA ListedKept ==
  ASSUME NEW r, LRUOK(r), Listed(r), NEW f \in Frame
  PROVE  /\ Listed(LRU!Pin(r, f))
         /\ f \in r.evictable => Listed(LRU!Evict(r, f))
         /\ f \in r.hash => Listed(LRU!Unpin(r, f))
<1>1. r.evictable \in SUBSET Frame /\ r.hash \in SUBSET Frame /\ r.list \in Seq(Frame)
  BY DEF LRUOK, Listed
<1>2. /\ r.size = Cardinality(r.evictable) /\ r.size \in Nat
      /\ f \in r.evictable => Cardinality(r.evictable \ {f}) = r.size - 1 /\ r.size > 0
      /\ f \notin r.evictable =>
           r.evictable \ {f} = r.evictable /\ Cardinality(r.evictable \cup {f}) = r.size + 1
      /\ f \in r.evictable => r.evictable \cup {f} = r.evictable
  BY <1>1, EvictableFinite DEF Listed
<1>3. PICK rest : rest = LRU!Unlink(r.list, f)
  OBVIOUS
<1>4. rest \in Seq(Frame) /\ \A g \in r.hash \ {f} : Holds(rest, g)
  BY <1>1, <1>3, UnlinkIs DEF Listed
<1>5. Listed(LRU!Pin(r, f))
  <2>1. PICK l : l = <<f>> \o rest
    OBVIOUS
  <2>2. l \in Seq(Frame) /\ \A g \in r.hash \cup {f} : Holds(l, g)
    BY <1>4, <2>1, FrontIs
  <2>3. /\ LRU!Pin(r, f).list = l /\ LRU!Pin(r, f).evictable = r.evictable \ {f}
        /\ LRU!Pin(r, f).hash = r.hash \cup {f}
        /\ LRU!Pin(r, f).size = IF f \in r.evictable /\ r.size > 0 THEN r.size - 1 ELSE r.size
    BY <1>3, <2>1 DEF LRU!Pin
  <2>4. LRU!Pin(r, f).size = Cardinality(r.evictable \ {f})
    BY <1>2, <2>3
  <2>5. QED
    BY <2>2, <2>3, <2>4 DEF Listed
<1>6. ASSUME f \in r.evictable
      PROVE  Listed(LRU!Evict(r, f))
  <2>1. /\ LRU!Evict(r, f).list = rest /\ LRU!Evict(r, f).evictable = r.evictable \ {f}
        /\ LRU!Evict(r, f).hash = r.hash \ {f}
        /\ LRU!Evict(r, f).size = IF r.size > 0 THEN r.size - 1 ELSE r.size
    BY <1>3 DEF LRU!Evict
  <2>2. LRU!Evict(r, f).size = Cardinality(r.evictable \ {f})
    BY <1>2, <1>6, <2>1
  <2>3. QED
    BY <1>4, <2>1, <2>2 DEF Listed
<1>7. ASSUME f \in r.hash
      PROVE  Listed(LRU!Unpin(r, f))
  <2>1. /\ LRU!Unpin(r, f).list = r.list /\ LRU!Unpin(r, f).evictable = r.evictable \cup {f}
        /\ LRU!Unpin(r, f).hash = r.hash
        /\ LRU!Unpin(r, f).size = IF f \in r.evictable THEN r.size ELSE r.size + 1
    BY DEF LRU!Unpin
  <2>2. LRU!Unpin(r, f).size = Cardinality(r.evictable \cup {f})
    BY <1>2, <2>1
  <2>3. QED
    BY <2>1, <2>2 DEF Listed
<1>8. QED
  BY <1>5, <1>6, <1>7

\* Victim fails only when nothing is evictable: the iteration from the back of the list
\* meets the evictable frame closest to it.
LEMMA VictimExists ==
  ASSUME NEW r, LRUOK(r), Listed(r), r.evictable # {}
  PROVE  LRU!Victims(r) # {}
<1> DEFINE n == Len(r.list)
           At == {i \in DOMAIN r.list : r.list[i] \in r.evictable}
           Back == {n - i : i \in At}
<1>1. n \in Nat /\ DOMAIN r.list = 1 .. n
  BY DEF Listed
<1>2. At # {}
  BY DEF LRUOK, Listed, Holds
<1> HIDE DEF n
<1>3. Back \in SUBSET Nat /\ Back # {}
  BY <1>1, <1>2
<1> HIDE DEF Back
<1>4. PICK m \in Back : \A k \in Back : m <= k
  BY <1>3, LeastNat
<1>5. PICK i \in At : m = n - i
  BY DEF Back
<1>6. ASSUME NEW k \in DOMAIN r.list, k > i
      PROVE  r.list[k] \notin r.evictable
  <2>1. SUFFICES ASSUME k \in At PROVE FALSE
    OBVIOUS
  <2>2. n - k \in Back
    BY <2>1 DEF Back
  <2>3. m <= n - k
    BY <1>4, <2>2
  <2>4. QED
    BY <1>1, <1>5, <1>6, <2>3
<1>7. r.list[i] \in LRU!LastEvictable(r)
  BY <1>5, <1>6 DEF LRU!LastEvictable
<1>8. r.size \in Nat /\ r.size > 0
  BY EvictableFinite DEF Listed, LRUOK
<1>9. QED
  BY <1>7, <1>8 DEF LRU!Victims

-----------------------------------------------------------------------------
(* LRU-K: which nodes are accidents. *)

Accident(n) == n.known /\ n.k = 0

\* Pin, Unpin and Evict keep a known node's k; Pin makes an unknown one with K, and Evict
\* makes accidents of the other unknown ones, none of which it makes evictable.
LEMMA AccidentFacts ==
  ASSUME NEW r, LRUKOK(r), NEW f \in Frame
  PROVE  /\ Accident(LRUK!Pin(r, f).node[f]) <=> Accident(r.node[f])
         /\ Accident(LRUK!Unpin(r, f).node[f]) <=> Accident(r.node[f])
         /\ r.node[f].known => (Accident(LRUK!Evict(r, f).node[f]) <=> Accident(r.node[f]))
         /\ \A g \in Frame \ {f} :
              /\ LRUK!Pin(r, f).node[g] = r.node[g]
              /\ LRUK!Unpin(r, f).node[g] = r.node[g]
              /\ LRUK!Evict(r, f).node[g] # r.node[g] =>
                   /\ ~r.node[g].known
                   /\ LRUK!Evict(r, f).node[g] = LRUK!DefaultNode
<1>1. r.node \in [Frame -> Node] /\ r.node[f] \in Node /\ r.ts \in Nat
  BY DEF LRUKOK
<1>2. \A n \in Node, t \in Nat : LRUK!AddHistory(n, t).k = n.k
  BY DEF LRUK!AddHistory, Node
<1>3. PICK base : base = IF r.node[f].known THEN r.node[f] ELSE [LRUK!DefaultNode EXCEPT !.k = K]
  OBVIOUS
<1>4. /\ base \in Node /\ base.known
      /\ base.k = IF r.node[f].known THEN r.node[f].k ELSE K
  BY <1>1, <1>3, NodeFacts DEF LRUK!DefaultNode
<1>5. Accident(LRUK!Pin(r, f).node[f]) <=> Accident(r.node[f])
  <2>1. PICK m : m = LRUK!AddHistory(base, r.ts)
    OBVIOUS
  <2>2. m \in Node /\ m.known /\ m.k = base.k
    BY <1>1, <1>2, <1>4, <2>1, NodeFacts
  <2>3. LRUK!Pin(r, f).node[f] = [m EXCEPT !.evictable = FALSE]
    BY <1>1, <1>3, <2>1 DEF LRUK!Pin
  <2>4. [m EXCEPT !.evictable = FALSE].known /\ [m EXCEPT !.evictable = FALSE].k = base.k
    BY <2>2 DEF Node
  <2>5. QED
    BY <1>4, <2>3, <2>4, PolicyAssumption DEF Accident
<1>6. Accident(LRUK!Unpin(r, f).node[f]) <=> Accident(r.node[f])
  <2>1. LRUK!Unpin(r, f).node[f] = [r.node[f] EXCEPT !.evictable = TRUE]
    BY <1>1 DEF LRUK!Unpin
  <2>2. /\ [r.node[f] EXCEPT !.evictable = TRUE].known = r.node[f].known
        /\ [r.node[f] EXCEPT !.evictable = TRUE].k = r.node[f].k
    BY <1>1 DEF Node
  <2>3. QED
    BY <2>1, <2>2 DEF Accident
<1>7. r.node[f].known => (Accident(LRUK!Evict(r, f).node[f]) <=> Accident(r.node[f]))
  BY <1>1 DEF LRUK!Evict, Accident
<1>8. ASSUME NEW g \in Frame \ {f}
      PROVE  /\ LRUK!Pin(r, f).node[g] = r.node[g]
             /\ LRUK!Unpin(r, f).node[g] = r.node[g]
             /\ LRUK!Evict(r, f).node[g] # r.node[g] =>
                  /\ ~r.node[g].known
                  /\ LRUK!Evict(r, f).node[g] = LRUK!DefaultNode
  BY <1>1 DEF LRUK!Pin, LRUK!Unpin, LRUK!Evict
<1>9. QED
  BY <1>5, <1>6, <1>7, <1>8

-----------------------------------------------------------------------------
(* What a step of the pool may do to its frames, the free list and the replacer, and which *)
(* page it fetches.                                                                        *)

Free(f) == \E i \in DOMAIN free_list : free_list[i] = f

\* No frame but those of S changes its page or its pins.
Alone(S) == \A g \in Frame \ S : /\ frames'[g].page = frames[g].page
                                  /\ frames'[g].pins = frames[g].pins

Kept ==
  /\ Alone({}) /\ ioErrors' >= ioErrors /\ Fetched = {}
  /\ UNCHANGED <<free_list, lookup, replacer>>

Pinned(f) ==
  /\ frames[f].page # None /\ frames'[f].page = frames[f].page /\ frames'[f].pins > 0
  /\ Alone({f}) /\ Fetched = {frames[f].page}
  /\ replacer' = RPin(replacer, f)
  /\ UNCHANGED <<free_list, lookup, ioErrors>>

Unpinned(f) ==
  /\ frames[f].page # None /\ frames'[f].page = frames[f].page
  /\ IF frames[f].pins = 1 THEN replacer' = RUnpin(replacer, f)
     ELSE frames'[f].pins > 0 /\ UNCHANGED replacer
  /\ Alone({f}) /\ Fetched = {}
  /\ UNCHANGED <<free_list, lookup, ioErrors>>

Filled(a, p) ==
  /\ frames'[a.id].page = p /\ frames'[a.id].pins > 0
  /\ Alone({a.id}) /\ Fetched = {p}
  /\ free_list' = a.free /\ replacer' = RPin(a.rep, a.id)
  /\ lookup' = [WithoutPageOf(a.id) EXCEPT ![p] = a.id]
  /\ UNCHANGED ioErrors

Failed(a) ==
  /\ Alone({a.id}) /\ frames'[a.id].page \in {frames[a.id].page, None}
  /\ free_list' = a.free /\ replacer' = a.rep /\ Fetched = {}
  /\ IOError

Deleted(p) ==
  LET f == lookup[p]
  IN /\ f # None /\ frames'[f].page = None
     /\ Alone({f}) /\ Fetched = {}
     /\ free_list' = Append(free_list, f)
     /\ replacer' = RUnpin(replacer, f)
     /\ lookup' = [lookup EXCEPT ![p] = None]
     /\ UNCHANGED ioErrors

Effect ==
  \/ Kept
  \/ \E f \in Frame : Pinned(f) \/ Unpinned(f)
  \/ \E a \in AvailableFrames : Failed(a) \/ \E p \in Page : Filled(a, p)
  \/ \E p \in Page : Deleted(p)

LEMMA CachedFrame ==
  ASSUME IInv, NEW p \in Page, lookup[p] # None
  PROVE  /\ lookup[p] \in Frame /\ frames[lookup[p]].page = p
         /\ Known(replacer, lookup[p])
BY DEF IInv, TypeInv, FrameOwnership, ReplacerInv, Cached

\* A page is fetched where a client that held none gets a pin.
LEMMA FetchedIs ==
  ASSUME IInv
  PROVE  /\ (\A d \in Client : pin[d] = NoPin => pin'[d] = NoPin) => Fetched = {}
         /\ \A c \in Client, p \in Page, f \in Frame :
              pin[c] = NoPin /\ GivePin(c, p, f) => Fetched = {p}
<1>1. NoPin.page \notin Page /\ pin \in [Client -> PinRec]
  BY NoneFacts DEF NoPin, IInv, TypeInv
<1>2. (\A d \in Client : pin[d] = NoPin => pin'[d] = NoPin) => Fetched = {}
  BY <1>1 DEF Fetched
<1>3. ASSUME NEW c \in Client, NEW p \in Page, NEW f \in Frame, pin[c] = NoPin,
             GivePin(c, p, f)
      PROVE  Fetched = {p}
  <2>1. pin'[c].page = p /\ \A d \in Client \ {c} : pin'[d] = pin[d]
    BY <1>1, <1>3 DEF GivePin
  <2>2. QED
    BY <1>1, <1>3, <2>1 DEF Fetched
<1>4. QED
  BY <1>2, <1>3

LEMMA FetchCachedEffect ==
  ASSUME IInv, NEW c \in Client, NEW p \in Page, FetchCached(c, p)
  PROVE  Effect
<1>1. PICK f : f = lookup[p]
  OBVIOUS
<1>2. /\ f \in Frame /\ frames[f].page = p /\ frames' = [frames EXCEPT ![f].pins = @ + 1]
      /\ replacer' = RPin(replacer, f) /\ UNCHANGED <<free_list, lookup, ioErrors>>
      /\ pin[c] = NoPin /\ GivePin(c, p, f)
  BY <1>1, CachedFrame DEF FetchCached, Idle
<1>3. frames \in [Frame -> FrameRec] /\ frames[f].pins \in Nat /\ frames[f] \in FrameRec
  BY <1>2 DEF IInv, TypeInv, FrameRec
<1>4. /\ frames'[f].page = p /\ frames'[f].pins = frames[f].pins + 1
      /\ \A g \in Frame \ {f} : frames'[g] = frames[g]
  BY <1>2, <1>3 DEF FrameRec
<1>5. Fetched = {p}
  BY <1>2, FetchedIs
<1>6. Pinned(f)
  BY <1>2, <1>3, <1>4, <1>5, NoneFacts DEF Pinned, Alone
<1>7. QED
  BY <1>2, <1>6 DEF Effect

LEMMA FetchMissEffect ==
  ASSUME IInv, NEW c \in Client, NEW p \in Page, FetchMiss(c, p)
  PROVE  Effect
<1>1. PICK a \in AvailableFrames :
        /\ free_list' = a.free
        /\ \/ /\ frames' = [frames EXCEPT ![a.id] =
                              [page |-> p, data |-> disk'[p], dirty |-> FALSE, pins |-> 1]]
              /\ lookup' = [WithoutPageOf(a.id) EXCEPT ![p] = a.id]
              /\ replacer' = RPin(a.rep, a.id)
              /\ GivePin(c, p, a.id)
              /\ UNCHANGED ioErrors
           \/ /\ IOError
              /\ replacer' = a.rep
              /\ UNCHANGED <<frames, pin>>
           \/ /\ IOError
              /\ replacer' = a.rep
              /\ frames' = [frames EXCEPT ![a.id] = ResetFrame]
              /\ UNCHANGED pin
  BY DEF FetchMiss
<1>2. a.id \in Frame /\ frames \in [Frame -> FrameRec] /\ pin[c] = NoPin
  BY AvailableFacts DEF IInv, TypeInv, FetchMiss, Idle
<1>3. CASE /\ frames' = [frames EXCEPT ![a.id] =
                            [page |-> p, data |-> disk'[p], dirty |-> FALSE, pins |-> 1]]
           /\ lookup' = [WithoutPageOf(a.id) EXCEPT ![p] = a.id]
           /\ replacer' = RPin(a.rep, a.id)
           /\ GivePin(c, p, a.id)
           /\ UNCHANGED ioErrors
  <2>1. Fetched = {p}
    BY <1>2, <1>3, FetchedIs
  <2>2. Filled(a, p)
    BY <1>1, <1>2, <1>3, <2>1 DEF Filled, Alone
  <2>3. QED
    BY <2>2 DEF Effect
<1>4. CASE IOError /\ replacer' = a.rep /\ UNCHANGED <<frames, pin>>
  BY <1>1, <1>4, FetchedIs DEF Effect, Failed, Alone
<1>5. CASE IOError /\ replacer' = a.rep /\ frames' = [frames EXCEPT ![a.id] = ResetFrame]
           /\ UNCHANGED pin
  <2>1. Failed(a)
    BY <1>1, <1>2, <1>5, FetchedIs DEF Failed, Alone, ResetFrame
  <2>2. QED
    BY <2>1 DEF Effect
<1>6. QED
  BY <1>1, <1>3, <1>4, <1>5

LEMMA UnpinPageEffect ==
  ASSUME IInv, NEW c \in Client, NEW b \in BOOLEAN, UnpinPage(c, b)
  PROVE  Effect
<1>1. PICK f : f = pin[c].frame
  OBVIOUS
<1>2. PICK d : d = (frames[f].dirty \/ b)
  OBVIOUS
<1>3. /\ f \in Frame /\ frames[f].pins > 0 /\ pin[c] # NoPin
      /\ frames' = [frames EXCEPT ![f] = [frames[f] EXCEPT !.pins = @ - 1, !.dirty = d]]
      /\ replacer' = IF frames[f].pins = 1 THEN RUnpin(replacer, f) ELSE replacer
      /\ pin' = [pin EXCEPT ![c] = NoPin]
      /\ UNCHANGED <<free_list, lookup, ioErrors>>
  BY ZenonT(30), <1>1, <1>2, UnpinPageFacts
<1>4. frames \in [Frame -> FrameRec] /\ frames[f].pins \in Nat /\ frames[f] \in FrameRec
  BY <1>3 DEF IInv, TypeInv, FrameRec
<1>5. frames[f].page # None
  <2>1. pin[c].page # None /\ pin[c].page \in Page
    BY <1>3 DEF IInv, TypeInv, PinRec
  <2>2. lookup[pin[c].page] = f
    BY <1>1, <2>1 DEF IInv, PinProtects
  <2>3. QED
    BY <1>3, <2>1, <2>2, NoneFacts, CachedFrame
<1>6. /\ frames'[f].page = frames[f].page /\ frames'[f].pins = frames[f].pins - 1
      /\ \A g \in Frame \ {f} : frames'[g] = frames[g]
  BY <1>3, <1>4 DEF FrameRec
<1>7. frames[f].pins # 1 => frames'[f].pins > 0
  BY <1>3, <1>4, <1>6
<1>8. Fetched = {}
  <2>1. \A e \in Client : pin[e] = NoPin => pin'[e] = NoPin
    BY <1>3 DEF IInv, TypeInv
  <2>2. QED
    BY <2>1, FetchedIs
<1>9. Unpinned(f)
  BY <1>3, <1>5, <1>6, <1>7, <1>8 DEF Unpinned, Alone
<1>10. QED
  BY <1>3, <1>9 DEF Effect

LEMMA DeletePageEffect ==
  ASSUME IInv, NEW c, NEW p \in Page, NEW after, DeletePage(c, p, after), UNCHANGED pin
  PROVE  Effect
<1>0. Fetched = {}
  BY FetchedIs
<1>1. PICK f : f = lookup[p]
  OBVIOUS
<1>2. CASE /\ f # None
           /\ frames' = [frames EXCEPT ![f] = ResetFrame]
           /\ free_list' = Append(free_list, f)
           /\ IF RUnpinThrows(replacer, f) THEN UNCHANGED <<lookup, replacer>>
              ELSE /\ replacer' = RUnpin(replacer, f)
                   /\ lookup' = [lookup EXCEPT ![p] = None]
           /\ UNCHANGED ioErrors
  <2>1. f \in Frame /\ Known(replacer, f)
    BY <1>1, <1>2, CachedFrame
  <2>2. /\ replacer' = RUnpin(replacer, f)
        /\ lookup' = [lookup EXCEPT ![p] = None]
    BY <1>2, <2>1, UnpinThrowsFact
  <2>3. frames \in [Frame -> FrameRec]
    BY DEF IInv, TypeInv
  <2>4. Deleted(p)
    BY <1>0, <1>1, <1>2, <2>1, <2>2, <2>3 DEF Deleted, Alone, ResetFrame
  <2>5. QED
    BY <2>4 DEF Effect
<1>3. CASE /\ UNCHANGED <<frames, free_list, lookup, replacer>>
           /\ UNCHANGED ioErrors \/ IOError
  BY <1>0, <1>3 DEF Effect, Kept, Alone, IOError, IInv, TypeInv
<1>4. QED
  BY <1>1, <1>2, <1>3 DEF DeletePage

LEMMA FlushPageEffect ==
  ASSUME IInv, NEW c, NEW p \in Page, NEW after, FlushPage(c, p, after),
         UNCHANGED <<free_list, lookup, replacer, pin>>
  PROVE  Effect
<1>0. Fetched = {}
  BY FetchedIs
<1>1. PICK f : f = lookup[p]
  OBVIOUS
<1>2. CASE f # None /\ frames' = [frames EXCEPT ![f].dirty = FALSE] /\ UNCHANGED ioErrors
  <2>1. f \in Frame /\ frames \in [Frame -> FrameRec]
    BY <1>1, <1>2, CachedFrame DEF IInv, TypeInv
  <2>2. \A g \in Frame : frames'[g].page = frames[g].page /\ frames'[g].pins = frames[g].pins
    BY <1>2, <2>1 DEF FrameRec
  <2>3. QED
    BY <1>0, <1>2, <2>2 DEF Effect, Kept, Alone, IInv, TypeInv
<1>3. CASE UNCHANGED frames /\ (UNCHANGED ioErrors \/ IOError)
  BY <1>0, <1>3 DEF Effect, Kept, Alone, IOError, IInv, TypeInv
<1>4. QED
  BY <1>1, <1>2, <1>3 DEF FlushPage

LEMMA StepEffect ==
  ASSUME IInv, [Next]_vars
  PROVE  Effect
<1>1. ASSUME UNCHANGED <<frames, free_list, lookup, replacer, pin, ioErrors>>
      PROVE  Effect
  BY <1>1, FetchedIs DEF Effect, Kept, Alone, IInv, TypeInv
<1>2. ASSUME NEW c \in Client, ClientStep(c)
      PROVE  Effect
  <2>1. CASE \E p \in Page : FetchCached(c, p)
    BY <2>1, FetchCachedEffect
  <2>2. CASE \E p \in Page : FetchMiss(c, p)
    BY <2>2, FetchMissEffect
  <2>3. CASE \E p \in Page : Delete(c, p)
    BY <2>3, DeletePageEffect DEF Delete
  <2>4. CASE \E p \in Page : Flush(c, p)
    BY <2>4, FlushPageEffect DEF Flush
  <2>5. CASE \E v \in Value : Write(c, v)
    <3>1. PICK v \in Value : frames' = [frames EXCEPT ![pin[c].frame].data = v]
      BY <2>5 DEF Write
    <3>2. \A g \in Frame : frames'[g].page = frames[g].page /\ frames'[g].pins = frames[g].pins
      BY <3>1 DEF IInv, TypeInv, FrameRec
    <3>3. Fetched = {}
      <4>1. \A d \in Client : pin[d] = NoPin => pin'[d] = NoPin
        BY <2>5 DEF Write, IInv, TypeInv
      <4>2. QED
        BY <4>1, FetchedIs
    <3>4. QED
      BY <2>5, <3>2, <3>3 DEF Write, Effect, Kept, Alone, IInv, TypeInv
  <2>6. CASE \E b \in BOOLEAN : UnpinPage(c, b)
    BY <2>6, UnpinPageEffect
  <2>7. CASE SweepStep(c)
    <3>1. sweep[c].todo \subseteq Page
      BY DEF IInv, TypeInv, SweepRec
    <3>2. QED
      BY <2>7, <3>1, DeletePageEffect, FlushPageEffect DEF SweepStep
  <2>8. CASE \/ \E op \in SweepOps : \E p \in Page : StartSweep(c, op, Fid(p))
             \/ SweepSkip(c) \/ SweepEnd(c)
    BY <1>1, <2>8 DEF StartSweep, SweepSkip, SweepEnd
  <2>9. QED
    BY <1>2, <2>1, <2>2, <2>3, <2>4, <2>5, <2>6, <2>7, <2>8 DEF ClientStep
<1>3. QED
  BY <1>1, <1>2 DEF Next, vars

-----------------------------------------------------------------------------
(* What GetAvailableFrame leaves of the free list. *)

LEMMA AvailableFree ==
  ASSUME IInv, NEW a \in AvailableFrames
  PROVE  /\ \A g : (\E i \in DOMAIN a.free : a.free[i] = g) => Free(g)
         /\ \A g \in Frame \ {a.id} : Free(g) => \E i \in DOMAIN a.free : a.free[i] = g
         /\ \/ Free(a.id) /\ a.rep = replacer
            \/ /\ \A g : ~Free(g)
               /\ a.rep = REvict(replacer, a.id) /\ CanEvict(replacer, a.id)
<1>1. CASE free_list # <<>>
  <2>1. a.id = Head(free_list) /\ a.free = Tail(free_list) /\ a.rep = replacer
    BY <1>1 DEF AvailableFrames
  <2>2. /\ Len(free_list) \in Nat /\ Len(free_list) > 0
        /\ DOMAIN free_list = 1 .. Len(free_list) /\ a.id = free_list[1]
        /\ DOMAIN a.free = 1 .. Len(free_list) - 1
        /\ \A i \in 1 .. Len(free_list) - 1 : a.free[i] = free_list[i + 1]
    BY <1>1, <2>1 DEF IInv, TypeInv
  <2>3. \A i \in DOMAIN a.free : i + 1 \in DOMAIN free_list /\ a.free[i] = free_list[i + 1]
    BY <2>2
  <2>4. ASSUME NEW g \in Frame \ {a.id}, NEW j \in DOMAIN free_list, free_list[j] = g
        PROVE  \E i \in DOMAIN a.free : a.free[i] = g
    <3>1. j # 1
      BY <2>2, <2>4
    <3>2. j - 1 \in 1 .. Len(free_list) - 1 /\ (j - 1) + 1 = j
      BY <2>2, <3>1
    <3>3. a.free[j - 1] = g
      BY <2>2, <2>4, <3>2
    <3>4. QED
      BY <2>2, <3>2, <3>3
  <2>5. 1 \in DOMAIN free_list
    BY <2>2
  <2>6. QED
    BY <2>1, <2>2, <2>3, <2>4, <2>5 DEF Free
<1>2. CASE free_list = <<>>
  <2>1. PICK f \in RVictims(replacer) :
          a = [id |-> f, free |-> free_list, rep |-> REvict(replacer, f)]
    BY <1>2 DEF AvailableFrames
  <2>2. CanEvict(replacer, f)
    BY <2>1, VictimFacts DEF IInv, ReplacerInv
  <2>3. DOMAIN free_list = {} /\ a.free = free_list
    BY <1>2, <2>1
  <2>4. QED
    BY <2>1, <2>2, <2>3 DEF Free
<1>3. QED
  BY <1>1, <1>2

LEMMA AppendFree ==
  ASSUME IInv, NEW f \in Frame, free_list' = Append(free_list, f)
  PROVE  \A g : Free(g)' <=> Free(g) \/ g = f
<1> DEFINE n == Len(free_list)
<1>1. /\ n \in Nat /\ DOMAIN free_list = 1 .. n /\ DOMAIN free_list' = 1 .. n + 1
      /\ \A i \in 1 .. n : free_list'[i] = free_list[i]
      /\ free_list'[n + 1] = f
  BY DEF IInv, TypeInv
<1> HIDE DEF n
<1>2. \A i \in 1 .. n + 1 : i \in 1 .. n \/ i = n + 1
  BY <1>1
<1>3. 1 .. n \subseteq 1 .. n + 1 /\ n + 1 \in 1 .. n + 1
  BY <1>1
<1>4. QED
  BY <1>1, <1>2, <1>3 DEF Free

-----------------------------------------------------------------------------
(* LossBounded. *)

LEMMA LostIs ==
  Lost = {f \in Frame : ~Free(f) /\ frames[f].page = None /\ ~CanEvict(replacer, f)}
BY DEF Lost, Free, Evictable, CanEvict

LEMMA LostFinite ==
  ASSUME NEW S \in SUBSET Frame
  PROVE  /\ Cardinality(S) \in Nat
         /\ \A T \in SUBSET S : Cardinality(T) <= Cardinality(S)
         /\ \A f \in Frame : Cardinality(S \cup {f}) <= Cardinality(S) + 1
<1>1. IsFiniteSet(S)
  BY FrameFinite, FS_Subset
<1>2. Cardinality(S) \in Nat /\ \A T \in SUBSET S : Cardinality(T) <= Cardinality(S)
  BY <1>1, FS_CardinalityType, FS_Subset
<1>3. ASSUME NEW f \in Frame
      PROVE  Cardinality(S \cup {f}) <= Cardinality(S) + 1
  BY <1>1, <1>2, FS_AddElement
<1>4. QED
  BY <1>2, <1>3

\* A step loses at most one frame, and none unless a read or write fails.
LEMMA LossStep ==
  ASSUME IInv, IInv', Effect
  PROVE  \/ Lost' \subseteq Lost /\ ioErrors' >= ioErrors
         \/ \E f \in Frame : Lost' \subseteq Lost \cup {f} /\ ioErrors' = ioErrors + 1
<1> DEFINE Gone(f) == ~Free(f) /\ frames[f].page = None /\ ~CanEvict(replacer, f)
<1>1. Lost = {f \in Frame : Gone(f)} /\ Lost' = {f \in Frame : Gone(f)'}
  BY LostIs DEF Lost, Free, Evictable, CanEvict
<1>2. ReplacerOK(replacer) /\ ioErrors \in Int /\ ioErrors' \in Int
  BY DEF IInv, TypeInv, ReplacerInv
<1>3. CASE Kept
  <2>1. \A g \in Frame : Gone(g)' => Gone(g)
    BY <1>3 DEF Kept, Alone, Free
  <2>2. QED
    BY <1>1, <1>3, <2>1 DEF Kept
<1>4. ASSUME NEW f \in Frame, Pinned(f)
      PROVE  Lost' \subseteq Lost /\ ioErrors' >= ioErrors
  <2>1. \A g \in Frame \ {f} : CanEvict(replacer', g) = CanEvict(replacer, g)
    BY <1>2, <1>4, PinFacts DEF Pinned
  <2>2. \A g \in Frame : Gone(g)' => Gone(g)
    BY <1>4, <2>1 DEF Pinned, Alone, Free
  <2>3. QED
    BY <1>1, <1>2, <1>4, <2>2 DEF Pinned
<1>5. ASSUME NEW f \in Frame, Unpinned(f)
      PROVE  Lost' \subseteq Lost /\ ioErrors' >= ioErrors
  <2>1. Known(replacer, f)
    <3>1. frames[f].page \in Page /\ lookup[frames[f].page] = f
      BY <1>5 DEF Unpinned, IInv, TypeInv, FrameRec, FrameOwnership
    <3>2. QED
      BY <1>5, <3>1, NoneFacts DEF IInv, ReplacerInv
  <2>2. \A g \in Frame \ {f} : CanEvict(replacer', g) = CanEvict(replacer, g)
    BY <1>2, <1>5, <2>1, UnpinFacts DEF Unpinned
  <2>3. \A g \in Frame : Gone(g)' => Gone(g)
    BY <1>5, <2>2 DEF Unpinned, Alone, Free
  <2>4. QED
    BY <1>1, <1>2, <1>5, <2>3 DEF Unpinned
<1>6. ASSUME NEW a \in AvailableFrames, Failed(a) \/ \E p \in Page : Filled(a, p)
      PROVE  \A g \in Frame \ {a.id} : Gone(g)' => Gone(g)
  <2>1. /\ a.id \in Frame /\ ReplacerOK(a.rep)
        /\ \A g \in Frame \ {a.id} : CanEvict(a.rep, g) = CanEvict(replacer, g)
    BY AvailableFacts
  <2>2. \A g \in Frame \ {a.id} : CanEvict(RPin(a.rep, a.id), g) = CanEvict(replacer, g)
    BY <2>1, PinFacts
  <2>3. \A g \in Frame \ {a.id} : Free(g) => Free(g)'
    BY <1>6, AvailableFree DEF Failed, Filled, Free
  <2>4. QED
    BY <1>6, <2>1, <2>2, <2>3 DEF Failed, Filled, Alone
<1>7. ASSUME NEW a \in AvailableFrames, Failed(a)
      PROVE  \E f \in Frame : Lost' \subseteq Lost \cup {f} /\ ioErrors' = ioErrors + 1
  BY <1>1, <1>6, <1>7, AvailableFacts DEF Failed, IOError
<1>8. ASSUME NEW a \in AvailableFrames, NEW p \in Page, Filled(a, p)
      PROVE  Lost' \subseteq Lost /\ ioErrors' >= ioErrors
  <2>1. ~Gone(a.id)'
    BY <1>8, NoneFacts DEF Filled
  <2>2. \A g \in Frame : Gone(g)' => Gone(g)
    BY <1>6, <1>8, <2>1
  <2> HIDE DEF Gone
  <2>3. QED
    BY <1>1, <1>2, <1>8, <2>2 DEF Filled
<1>9. ASSUME NEW p \in Page, Deleted(p)
      PROVE  Lost' \subseteq Lost /\ ioErrors' >= ioErrors
  <2>1. PICK f : f = lookup[p]
    OBVIOUS
  <2>2. f \in Frame /\ Known(replacer, f)
    BY <1>9, <2>1, CachedFrame DEF Deleted
  <2>3. \A g \in Frame \ {f} : CanEvict(replacer', g) = CanEvict(replacer, g)
    BY <1>2, <1>9, <2>1, <2>2, UnpinFacts DEF Deleted
  <2>4. \A g : Free(g)' <=> Free(g) \/ g = f
    BY <1>9, <2>1, <2>2, AppendFree DEF Deleted
  <2>5. \A g \in Frame : Gone(g)' => Gone(g)
    BY <1>9, <2>1, <2>3, <2>4 DEF Deleted, Alone
  <2>6. QED
    BY <1>1, <1>2, <1>9, <2>5 DEF Deleted
<1>10. QED
  BY <1>3, <1>4, <1>5, <1>7, <1>8, <1>9 DEF Effect

\* Each failed read or write costs at most one frame that neither the free list nor the
\* replacer gives back, however many follow.
THEOREM LossesBounded ==
  ASSUME Reliable
  PROVE  Spec => []LossBounded
<1>1. Init /\ IInv => LossBounded
  <2> SUFFICES ASSUME Init, IInv PROVE LossBounded
    OBVIOUS
  <2>1. ASSUME NEW f \in Frame
        PROVE  Free(f)
    <3>1. f + 1 \in 1 .. BUFFER_POOL_SIZE /\ (f + 1) - 1 = f
      BY SizeAssumption DEF Frame
    <3>2. f + 1 \in DOMAIN free_list /\ free_list[f + 1] = f
      BY <3>1 DEF Init
    <3>3. QED
      BY <3>2 DEF Free
  <2>2. Lost = {}
    BY <2>1, LostIs
  <2>3. QED
    BY <2>2, FS_EmptySet DEF LossBounded, Init
<1>2. ASSUME IInv, IInv', LossBounded, [Next]_vars
      PROVE  LossBounded'
  <2>1. ioErrors \in Int /\ ioErrors' \in Int
    BY <1>2 DEF IInv, TypeInv
  <2>2. Lost \in SUBSET Frame /\ Lost' \in SUBSET Frame
    BY DEF Lost
  <2>3. Cardinality(Lost) \in Nat /\ Cardinality(Lost') \in Nat
    BY <2>2, LostFinite
  <2>4. CASE Lost' \subseteq Lost /\ ioErrors' >= ioErrors
    <3>1. Cardinality(Lost') <= Cardinality(Lost)
      BY <2>2, <2>4, LostFinite
    <3>2. QED
      BY <1>2, <2>1, <2>3, <2>4, <3>1 DEF LossBounded
  <2>5. CASE \E f \in Frame : Lost' \subseteq Lost \cup {f} /\ ioErrors' = ioErrors + 1
    <3>1. PICK f \in Frame : Lost' \subseteq Lost \cup {f} /\ ioErrors' = ioErrors + 1
      BY <2>5
    <3>2. Lost \cup {f} \in SUBSET Frame
      BY <2>2
    <3>3. /\ Cardinality(Lost') <= Cardinality(Lost \cup {f})
          /\ Cardinality(Lost \cup {f}) <= Cardinality(Lost) + 1
          /\ Cardinality(Lost \cup {f}) \in Nat
      BY <2>2, <3>1, <3>2, LostFinite
    <3>4. QED
      BY <1>2, <2>1, <2>3, <3>1, <3>3 DEF LossBounded
  <2>6. QED
    BY <1>2, <2>4, <2>5, StepEffect, LossStep
<1>3. Spec => []IInv
  BY Inductive
<1>4. QED
  BY <1>1, <1>2, <1>3, PTL DEF Spec

-----------------------------------------------------------------------------
(* NoSpuriousFull, under LRU with reads and writes that do not fail. *)

\* The replacer can give back every frame whose page nobody holds.
Spared ==
  /\ Listed(replacer)
  /\ \A p \in Page :
       lookup[p] # None /\ frames[lookup[p]].pins = 0 => CanEvict(replacer, lookup[p])

LEMMA SparedStep ==
  ASSUME IInv, Spared, Effect, IsLRU, MaxIOErrors = 0
  PROVE  Spared'
<1>1. LRUOK(replacer) /\ ReplacerOK(replacer)
  BY DEF IInv, ReplacerInv, ReplacerOK
<1>2. \A q \in Page : lookup[q] # None => lookup[q] \in Frame /\ frames[lookup[q]].page = q
  BY CachedFrame
<1>3. \A r, f : /\ RPin(r, f) = LRU!Pin(r, f) /\ RUnpin(r, f) = LRU!Unpin(r, f)
                /\ REvict(r, f) = LRU!Evict(r, f)
  BY DEF RPin, RUnpin, REvict
<1>4. CASE Kept
  BY <1>2, <1>4 DEF Spared, Kept, Alone
<1>5. ASSUME NEW f \in Frame, Pinned(f)
      PROVE  Spared'
  <2>1. \A g \in Frame \ {f} : CanEvict(replacer', g) = CanEvict(replacer, g)
    BY <1>1, <1>5, PinFacts DEF Pinned
  <2>2. Listed(replacer')
    BY <1>1, <1>3, <1>5, ListedKept DEF Pinned, Spared
  <2>3. QED
    BY <1>2, <1>5, <2>1, <2>2 DEF Spared, Pinned, Alone
<1>6. ASSUME NEW f \in Frame, Unpinned(f)
      PROVE  Spared'
  <2>1. CASE frames[f].pins = 1
    <3>1. Known(replacer, f) /\ f \in replacer.hash
      <4>1. frames[f].page \in Page /\ lookup[frames[f].page] = f
        BY <1>6 DEF Unpinned, IInv, TypeInv, FrameRec, FrameOwnership
      <4>2. QED
        BY <4>1, NoneFacts DEF IInv, ReplacerInv, Known
    <3>2. /\ CanEvict(replacer', f)
          /\ \A g \in Frame \ {f} : CanEvict(replacer', g) = CanEvict(replacer, g)
      BY <1>1, <1>6, <2>1, <3>1, UnpinFacts DEF Unpinned
    <3>3. Listed(replacer')
      BY <1>1, <1>3, <1>6, <2>1, <3>1, ListedKept DEF Unpinned, Spared
    <3>4. QED
      BY <1>2, <1>6, <3>2, <3>3 DEF Spared, Unpinned, Alone
  <2>2. CASE frames[f].pins # 1
    BY <1>2, <1>6, <2>2 DEF Spared, Unpinned, Alone
  <2>3. QED
    BY <2>1, <2>2
<1>7. ASSUME NEW a \in AvailableFrames, NEW p \in Page, Filled(a, p)
      PROVE  Spared'
  <2>1. /\ a.id \in Frame /\ ReplacerOK(a.rep) /\ LRUOK(a.rep)
        /\ \A g \in Frame \ {a.id} : CanEvict(a.rep, g) = CanEvict(replacer, g)
    BY AvailableFacts DEF ReplacerOK
  <2>2. Listed(a.rep)
    <3>1. CASE a.rep = replacer
      BY <3>1 DEF Spared
    <3>2. CASE a.rep = REvict(replacer, a.id) /\ CanEvict(replacer, a.id)
      BY <1>1, <1>3, <2>1, <3>2, ListedKept DEF Spared, CanEvict
    <3>3. QED
      BY <3>1, <3>2, AvailableFree
  <2>3. Listed(replacer')
    BY <1>3, <1>7, <2>1, <2>2, ListedKept DEF Filled
  <2>4. \A g \in Frame \ {a.id} : CanEvict(replacer', g) = CanEvict(replacer, g)
    BY <1>7, <2>1, PinFacts DEF Filled
  <2>5. ASSUME NEW q \in Page, lookup'[q] # None, frames'[lookup'[q]].pins = 0
        PROVE  CanEvict(replacer', lookup'[q])
    <3>1. lookup' = [WithoutPageOf(a.id) EXCEPT ![p] = a.id] /\ frames'[a.id].pins > 0
      BY <1>7 DEF Filled
    <3>2. WithoutPageOf(a.id) \in [Page -> Frame \cup {None}]
      BY <2>1, WithoutFacts
    <3>3. q # p /\ lookup'[q] = WithoutPageOf(a.id)[q]
      BY <2>5, <3>1, <3>2
    <3>4. lookup'[q] = lookup[q] /\ lookup[q] # a.id /\ lookup[q] \in Frame
      BY <2>1, <2>5, <3>3, WithoutFacts
    <3>5. frames[lookup[q]].pins = 0
      BY <1>7, <2>5, <3>4 DEF Filled, Alone
    <3>6. QED
      BY <2>4, <2>5, <3>4, <3>5 DEF Spared
  <2>6. QED
    BY <2>3, <2>5 DEF Spared
<1>8. ASSUME NEW p \in Page, Deleted(p)
      PROVE  Spared'
  <2>1. PICK f : f = lookup[p]
    OBVIOUS
  <2>2. f \in Frame /\ Known(replacer, f) /\ f \in replacer.hash /\ frames[f].page = p
    BY <1>8, <2>1, CachedFrame DEF Deleted, Known
  <2>3. \A g \in Frame \ {f} : CanEvict(replacer', g) = CanEvict(replacer, g)
    BY <1>1, <1>8, <2>1, <2>2, UnpinFacts DEF Deleted
  <2>4. Listed(replacer')
    BY <1>1, <1>3, <1>8, <2>1, <2>2, ListedKept DEF Deleted, Spared
  <2>5. \A q \in Page : lookup'[q] # None => lookup'[q] = lookup[q] /\ q # p
    BY <1>8 DEF Deleted, IInv, TypeInv
  <2>6. \A q \in Page : lookup'[q] # None => lookup[q] \in Frame \ {f}
    BY <1>2, <2>2, <2>5
  <2>7. QED
    BY <1>8, <2>1, <2>3, <2>4, <2>5, <2>6 DEF Spared, Deleted, Alone
<1>9. \A a \in AvailableFrames : ~Failed(a)
  BY DEF Failed, IOError, IInv, TypeInv
<1>10. QED
  BY <1>4, <1>5, <1>6, <1>7, <1>8, <1>9 DEF Effect

\* Under LRU, and as long as no read or write fails, FetchPage finds no frame only when
\* every cached page is in use.  Under LRU-K the code's count of the evictable frames can
\* fall short of them, and it is not so.
THEOREM FullOnlyInUse ==
  ASSUME IsLRU, MaxIOErrors = 0
  PROVE  Spec => []NoSpuriousFull
<1>1. Reliable
  BY DEF Reliable
<1>2. Init => Spared
  <2> SUFFICES ASSUME Init PROVE Spared
    OBVIOUS
  <2>1. replacer = LRU!Fresh
    BY DEF Init, RFresh
  <2>2. Listed(replacer)
    BY <2>1, FS_EmptySet DEF Listed, LRU!Fresh
  <2>3. QED
    BY <2>2 DEF Spared, Init
<1>3. IInv /\ Spared /\ [Next]_vars => Spared'
  BY StepEffect, SparedStep
<1>4. IInv /\ Spared => NoSpuriousFull
  <2> SUFFICES ASSUME IInv, Spared, AvailableFrames = {}, NEW p \in Cached
               PROVE  InUse(lookup[p])
    BY DEF NoSpuriousFull
  <2>1. RVictims(replacer) = {}
    BY DEF AvailableFrames
  <2>2. replacer.evictable = {}
    BY <2>1, VictimExists DEF RVictims, Spared, IInv, ReplacerInv, ReplacerOK
  <2>3. p \in Page /\ lookup[p] # None
    BY DEF Cached
  <2>4. lookup[p] \in Frame /\ frames[lookup[p]].pins \in Nat
    BY <2>3, CachedFrame DEF IInv, TypeInv, FrameRec
  <2>5. frames[lookup[p]].pins # 0
    BY <2>2, <2>3 DEF Spared, CanEvict
  <2>6. QED
    BY <2>4, <2>5 DEF InUse
<1>5. Spec => []IInv
  BY <1>1, Inductive
<1>6. QED
  BY <1>2, <1>3, <1>4, <1>5, PTL DEF Spec

-----------------------------------------------------------------------------
(* EvictsLeastRecent, under LRU with reads and writes that do not fail. *)

\* Of two pages the one fetched before the other is the nearer to the back of the list.
Once(s) == \A m, n \in DOMAIN s : s[m] = s[n] => m = n
Before(s, g, h) == \A m, n \in DOMAIN s : s[m] = g /\ s[n] = h => m < n

Ordered ==
  /\ Once(replacer.list)
  /\ older \subseteq Cached \X Cached
  /\ \A pq \in older : Before(replacer.list, lookup[pq[2]], lookup[pq[1]])

Aged == older' = {pq \in (Cached' \ Fetched) \X Cached' : pq \in older \/ pq[2] \in Fetched}

\* Unlinking a node takes its frame out of the list and leaves the others in their order.
LEMMA UnlinkOrder ==
  ASSUME NEW s \in Seq(Frame), Once(s), NEW f
  PROVE  /\ Once(LRU!Unlink(s, f)) /\ ~Holds(LRU!Unlink(s, f), f)
         /\ \A g, h : Before(s, g, h) => Before(LRU!Unlink(s, f), g, h)
<1> DEFINE Nodes == {i \in DOMAIN s : s[i] = f}
<1>1. CASE Nodes = {}
  <2>1. LRU!Unlink(s, f) = s
    BY <1>1 DEF LRU!Unlink
  <2>2. QED
    BY <1>1, <2>1 DEF Holds
<1>2. CASE Nodes # {}
  <2>1. PICK at : at \in Nodes /\ at = CHOOSE i \in Nodes : TRUE
    BY <1>2
  <2>2. at \in 1 .. Len(s) /\ s[at] = f /\ Len(s) \in Nat /\ DOMAIN s = 1 .. Len(s)
    BY <2>1
  <2> DEFINE r == SubSeq(s, 1, at - 1) \o SubSeq(s, at + 1, Len(s))
             Was(i) == IF i < at THEN i ELSE i + 1
  <2>3. LRU!Unlink(s, f) = r
    BY <1>2, <2>1 DEF LRU!Unlink
  <2>4. DOMAIN r = 1 .. Len(s) - 1 /\ \A i \in 1 .. Len(s) - 1 : r[i] = s[Was(i)]
    BY <2>2, CutIs
  <2>5. /\ \A i \in 1 .. Len(s) - 1 : Was(i) \in DOMAIN s /\ Was(i) # at
        /\ \A i, j \in 1 .. Len(s) - 1 : Was(i) < Was(j) => i < j
        /\ \A i, j \in 1 .. Len(s) - 1 : Was(i) = Was(j) => i = j
    BY <2>2
  <2> HIDE DEF r, Nodes, Was
  <2>6. Once(r)
    BY <2>4, <2>5 DEF Once
  <2>7. ~Holds(r, f)
    BY <2>2, <2>4, <2>5 DEF Once, Holds
  <2>8. \A g, h : Before(s, g, h) => Before(r, g, h)
    BY <2>4, <2>5 DEF Before
  <2>9. QED
    BY <2>3, <2>6, <2>7, <2>8
<1>3. QED
  BY <1>1, <1>2

\* Pin puts its frame before all others and leaves these in their order.
LEMMA PinOrder ==
  ASSUME NEW r, r.list \in Seq(Frame), Once(r.list), NEW f \in Frame
  PROVE  /\ Once(LRU!Pin(r, f).list)
         /\ \A g : g # f => Before(LRU!Pin(r, f).list, f, g)
         /\ \A g, h : g # f /\ h # f /\ Before(r.list, g, h) => Before(LRU!Pin(r, f).list, g, h)
<1>1. PICK rest : rest = LRU!Unlink(r.list, f)
  OBVIOUS
<1>2. /\ rest \in Seq(Frame) /\ Once(rest) /\ ~Holds(rest, f)
      /\ \A g, h : Before(r.list, g, h) => Before(rest, g, h)
  BY <1>1, UnlinkIs, UnlinkOrder
<1> DEFINE l == <<f>> \o rest
<1>3. LRU!Pin(r, f).list = l
  BY <1>1 DEF LRU!Pin
<1>4. /\ Len(rest) \in Nat /\ DOMAIN rest = 1 .. Len(rest) /\ DOMAIN l = 1 .. Len(rest) + 1
      /\ l[1] = f /\ \A i \in 1 .. Len(rest) : l[i + 1] = rest[i]
  BY <1>2
<1> HIDE DEF l
<1>5. \A i \in DOMAIN l : i = 1 \/ (i > 1 /\ i - 1 \in DOMAIN rest /\ l[i] = rest[i - 1])
  <2>1. TAKE i \in DOMAIN l
  <2>2. i # 1 => i > 1 /\ i - 1 \in 1 .. Len(rest) /\ (i - 1) + 1 = i
    BY <1>4
  <2>3. QED
    BY <1>4, <2>2
<1>6. \A i \in DOMAIN l : i \in Int /\ (l[i] = f <=> i = 1)
  BY <1>2, <1>4, <1>5 DEF Holds
<1>7. Once(l)
  BY <1>2, <1>5, <1>6 DEF Once
<1>8. \A g : g # f => Before(l, f, g)
  BY <1>5, <1>6 DEF Before
<1>9. ASSUME NEW g, NEW h, g # f, h # f, Before(rest, g, h)
      PROVE  Before(l, g, h)
  <2>1. SUFFICES ASSUME NEW m \in DOMAIN l, NEW n \in DOMAIN l, l[m] = g, l[n] = h
                 PROVE  m < n
    BY DEF Before
  <2>2. m - 1 < n - 1
    BY <1>5, <1>6, <1>9, <2>1 DEF Before
  <2>3. QED
    BY <1>6, <2>1, <2>2
<1>10. QED
  BY <1>2, <1>3, <1>7, <1>8, <1>9

LEMMA OrderStep ==
  ASSUME IInv, Spared, Ordered, Effect, Aged, IsLRU, MaxIOErrors = 0
  PROVE  Ordered'
<1>1. \A r, f : /\ RPin(r, f) = LRU!Pin(r, f) /\ RUnpin(r, f) = LRU!Unpin(r, f)
                /\ REvict(r, f) = LRU!Evict(r, f)
  BY DEF RPin, RUnpin, REvict
<1>2. replacer.list \in Seq(Frame) /\ Once(replacer.list)
  BY DEF Spared, Listed, Ordered
<1>3. \A q \in Cached : lookup[q] \in Frame /\ frames[lookup[q]].page = q
  BY CachedFrame DEF Cached
<1>4. older' \subseteq Cached' \X Cached'
  BY DEF Aged
<1>5. ASSUME Fetched = {}, replacer'.list = replacer.list,
             \A q \in Cached' : lookup'[q] = lookup[q]
      PROVE  Ordered'
  <2>1. ASSUME NEW pq \in older'
        PROVE  Before(replacer'.list, lookup'[pq[2]], lookup'[pq[1]])
    <3>1. pq \in older /\ pq[1] \in Cached' /\ pq[2] \in Cached'
      BY <1>5, <2>1 DEF Aged
    <3>2. QED
      BY <1>5, <3>1 DEF Ordered
  <2>2. QED
    BY <1>2, <1>4, <1>5, <2>1 DEF Ordered
<1>6. CASE Kept
  BY <1>5, <1>6 DEF Kept
<1>7. ASSUME NEW f \in Frame, Unpinned(f)
      PROVE  Ordered'
  <2>1. replacer'.list = replacer.list
    BY <1>1, <1>7 DEF Unpinned, LRU!Unpin
  <2>2. QED
    BY <1>5, <1>7, <2>1 DEF Unpinned
<1>8. ASSUME NEW p \in Page, Deleted(p)
      PROVE  Ordered'
  <2>1. replacer'.list = replacer.list
    BY <1>1, <1>8 DEF Deleted, LRU!Unpin
  <2>2. \A q \in Cached' : lookup'[q] = lookup[q]
    BY <1>8 DEF Deleted, Cached, IInv, TypeInv
  <2>3. QED
    BY <1>5, <1>8, <2>1, <2>2 DEF Deleted
\* A fetch of p into f, the list without f and the other pages where they were.
<1>9. ASSUME NEW f \in Frame, NEW p \in Page, Fetched = {p}, NEW r, r.list \in Seq(Frame),
             Once(r.list),
             \A g, h : Before(replacer.list, g, h) => Before(r.list, g, h),
             replacer' = LRU!Pin(r, f), lookup'[p] = f,
             \A q \in Cached' : q # p => lookup'[q] = lookup[q] /\ lookup[q] # f
      PROVE  Ordered'
  <2>1. /\ Once(replacer'.list)
        /\ \A g : g # f => Before(replacer'.list, f, g)
        /\ \A g, h : g # f /\ h # f /\ Before(r.list, g, h) => Before(replacer'.list, g, h)
    BY <1>9, PinOrder
  <2>2. ASSUME NEW pq \in older'
        PROVE  Before(replacer'.list, lookup'[pq[2]], lookup'[pq[1]])
    <3>1. /\ pq[1] \in Cached' /\ pq[2] \in Cached' /\ pq[1] # p
          /\ pq \in older \/ pq[2] = p
      BY <1>9, <2>2 DEF Aged
    <3>2. lookup'[pq[1]] = lookup[pq[1]] /\ lookup[pq[1]] # f
      BY <1>9, <3>1
    <3>3. CASE pq[2] = p
      BY <1>9, <2>1, <3>2, <3>3
    <3>4. CASE pq[2] # p
      <4>1. lookup'[pq[2]] = lookup[pq[2]] /\ lookup[pq[2]] # f
        BY <1>9, <3>1, <3>4
      <4>2. Before(r.list, lookup[pq[2]], lookup[pq[1]])
        BY <1>9, <3>1, <3>4 DEF Ordered
      <4>3. QED
        BY <2>1, <3>2, <4>1, <4>2
    <3>5. QED
      BY <3>3, <3>4
  <2>3. QED
    BY <1>4, <2>1, <2>2 DEF Ordered
<1>10. ASSUME NEW f \in Frame, Pinned(f)
       PROVE  Ordered'
  <2>1. PICK p : p = frames[f].page
    OBVIOUS
  <2>2. p \in Page /\ lookup[p] = f
    BY <1>10, <2>1 DEF Pinned, IInv, TypeInv, FrameRec, FrameOwnership
  <2>3. lookup' = lookup /\ Fetched = {p} /\ replacer' = LRU!Pin(replacer, f)
    BY <1>1, <1>10, <2>1 DEF Pinned
  <2>4. \A q \in Cached' : q # p => lookup'[q] = lookup[q] /\ lookup[q] # f
    BY <1>3, <2>1, <2>3 DEF Cached
  <2>5. QED
    BY <1>2, <1>9, <2>2, <2>3, <2>4
<1>11. ASSUME NEW a \in AvailableFrames, NEW p \in Page, Filled(a, p)
       PROVE  Ordered'
  <2>1. a.id \in Frame /\ replacer' = LRU!Pin(a.rep, a.id) /\ Fetched = {p}
    BY <1>1, <1>11, AvailableFacts DEF Filled
  <2>2. /\ a.rep.list \in Seq(Frame) /\ Once(a.rep.list)
        /\ \A g, h : Before(replacer.list, g, h) => Before(a.rep.list, g, h)
    <3>1. CASE a.rep = replacer
      BY <1>2, <3>1
    <3>2. CASE a.rep = REvict(replacer, a.id)
      <4>1. a.rep.list = LRU!Unlink(replacer.list, a.id)
        BY <1>1, <3>2 DEF LRU!Evict
      <4>2. QED
        BY <1>2, <4>1, UnlinkIs, UnlinkOrder
    <3>3. QED
      BY <3>1, <3>2, AvailableFree
  <2>3. /\ lookup' = [WithoutPageOf(a.id) EXCEPT ![p] = a.id]
        /\ WithoutPageOf(a.id) \in [Page -> Frame \cup {None}]
    BY <1>11, <2>1, WithoutFacts DEF Filled
  <2>4. lookup'[p] = a.id
    BY <2>3
  <2>5. ASSUME NEW q \in Cached', q # p
        PROVE  lookup'[q] = lookup[q] /\ lookup[q] # a.id
    <3>1. q \in Page /\ lookup'[q] # None /\ lookup'[q] = WithoutPageOf(a.id)[q]
      BY <2>3, <2>5 DEF Cached
    <3>2. QED
      BY <2>1, <3>1, WithoutFacts
  <2>6. QED
    BY <1>9, <2>1, <2>2, <2>4, <2>5
<1>12. \A a \in AvailableFrames : ~Failed(a)
  BY DEF Failed, IOError, IInv, TypeInv
<1>13. QED
  BY <1>6, <1>7, <1>8, <1>10, <1>11, <1>12 DEF Effect

\* What the replacer gives back is the evictable frame nearest to the back of its list.
LEMMA OldestGoes ==
  ASSUME IInv, Spared, Ordered, Effect, IsLRU, MaxIOErrors = 0, Fetched # {},
         NEW pq \in older, lookup'[pq[2]] = None
  PROVE  InUse(lookup[pq[1]])
<1>1. pq[1] \in Cached /\ pq[2] \in Cached
  BY DEF Ordered
<1>2. PICK g, h : g = lookup[pq[1]] /\ h = lookup[pq[2]]
  OBVIOUS
<1>3. /\ g \in Frame /\ h \in Frame /\ frames[h].page = pq[2] /\ pq[2] \in Page
      /\ h # None /\ frames[g].pins \in Nat
  BY <1>1, <1>2, CachedFrame DEF Cached, IInv, TypeInv, FrameRec
<1>4. Before(replacer.list, h, g)
  BY <1>2 DEF Ordered
<1>5. ~(\E f \in Frame : Pinned(f))
  BY <1>2, <1>3 DEF Pinned
<1>6. PICK a \in AvailableFrames, p \in Page : Filled(a, p)
  <2>1. \A a \in AvailableFrames : ~Failed(a)
    BY DEF Failed, IOError, IInv, TypeInv
  <2>2. QED
    BY <1>5, <2>1 DEF Effect, Kept, Unpinned, Deleted
<1>7. a.id = h
  <2>1. a.id \in Frame /\ WithoutPageOf(a.id) \in [Page -> Frame \cup {None}]
    BY AvailableFacts, WithoutFacts
  <2>2. lookup'[pq[2]] = IF pq[2] = p THEN a.id ELSE WithoutPageOf(a.id)[pq[2]]
    BY <1>3, <1>6, <2>1 DEF Filled
  <2>3. WithoutPageOf(a.id)[pq[2]] = None
    BY <2>1, <2>2, NoneFacts
  <2>4. QED
    BY <1>2, <1>3, <2>1, <2>3, WithoutFacts
<1>8. ~Free(h)
  BY <1>3, NoneFacts DEF Free, IInv, FrameOwnership, ResetFrame
<1>9. h \in LRU!LastEvictable(replacer)
  <2>1. free_list = <<>>
    <3>1. SUFFICES ASSUME free_list # <<>> PROVE FALSE
      OBVIOUS
    <3>2. a.id = Head(free_list) /\ 1 \in DOMAIN free_list /\ free_list[1] = Head(free_list)
      BY <3>1 DEF AvailableFrames, IInv, TypeInv
    <3>3. QED
      BY <1>7, <1>8, <3>2 DEF Free
  <2>2. a.id \in LRU!Victims(replacer)
    BY <2>1 DEF AvailableFrames, RVictims
  <2>3. QED
    BY <1>7, <2>2 DEF LRU!Victims
<1>10. g \notin replacer.evictable
  <2>1. SUFFICES ASSUME g \in replacer.evictable PROVE FALSE
    OBVIOUS
  <2>2. PICK j \in DOMAIN replacer.list :
          /\ replacer.list[j] = h
          /\ \A k \in DOMAIN replacer.list : k > j => replacer.list[k] \notin replacer.evictable
    BY <1>9 DEF LRU!LastEvictable
  <2>3. PICK k \in DOMAIN replacer.list : replacer.list[k] = g
    BY <2>1 DEF Spared, Listed, Holds, IInv, ReplacerInv, ReplacerOK, LRUOK
  <2>4. j < k /\ j \in Int /\ k \in Int
    BY <1>4, <2>2, <2>3 DEF Before, Spared, Listed
  <2>5. QED
    BY <2>1, <2>2, <2>3, <2>4
<1>11. frames[g].pins # 0
  BY <1>1, <1>2, <1>10 DEF Spared, CanEvict, Cached
<1>12. QED
  BY <1>2, <1>3, <1>11 DEF InUse

\* Under LRU, and as long as no read or write fails, the page a fetch evicts is one that
\* no unused page was fetched before: it is the unused page fetched longest ago.
THEOREM EvictsOldest ==
  ASSUME IsLRU, MaxIOErrors = 0
  PROVE  MCSpec => EvictsLeastRecent
<1>1. Reliable
  BY DEF Reliable
<1>2. MCSpec => []IInv
  <2>1. Spec => []IInv
    BY <1>1, Inductive
  <2>2. MCInit => Init
    BY DEF MCInit
  <2>3. [MCNext]_<<vars, older>> => [Next]_vars
    BY DEF MCNext
  <2>4. QED
    BY <2>1, <2>2, <2>3, PTL DEF MCSpec, Spec
<1>3. MCInit => Spared /\ Ordered
  <2> SUFFICES ASSUME MCInit PROVE Spared /\ Ordered
    OBVIOUS
  <2>1. Init /\ older = {}
    BY DEF MCInit
  <2>2. replacer = LRU!Fresh
    BY <2>1 DEF Init, RFresh
  <2>3. Listed(replacer)
    BY <2>2, FS_EmptySet DEF Listed, LRU!Fresh
  <2>4. QED
    BY <2>1, <2>2, <2>3 DEF Spared, Init, Ordered, Once, LRU!Fresh
<1>4. IInv /\ Spared /\ Ordered /\ [MCNext]_<<vars, older>> => (Spared /\ Ordered)'
  <2> SUFFICES ASSUME IInv, Spared, Ordered, [MCNext]_<<vars, older>>
               PROVE  Spared' /\ Ordered'
    OBVIOUS
  <2>1. [Next]_vars
    BY DEF MCNext
  <2>2. Spared'
    BY <2>1, StepEffect, SparedStep
  <2>3. ASSUME MCNext
        PROVE  Ordered'
    BY <2>1, <2>3, StepEffect, OrderStep DEF MCNext, Aged
  <2>4. ASSUME UNCHANGED <<vars, older>>
        PROVE  Ordered'
    BY <2>4 DEF vars, Ordered, Cached
  <2>5. QED
    BY <2>2, <2>3, <2>4
<1>5. IInv /\ Spared /\ Ordered /\ [MCNext]_<<vars, older>> =>
        [Fetched # {} =>
           \A pq \in older : lookup'[pq[2]] = None => InUse(lookup[pq[1]])]_<<vars, older>>
  BY StepEffect, OldestGoes DEF MCNext
<1>6. QED
  BY <1>2, <1>3, <1>4, <1>5, PTL DEF MCSpec, EvictsLeastRecent

-----------------------------------------------------------------------------
(* DefaultNodeUnused, under LRU-K. *)

\* An accident's frame is out of the pool's reach for good.
Dead ==
  \A f \in Frame : Accident(replacer.node[f]) =>
    ~Free(f) /\ frames[f].page = None /\ ~replacer.node[f].evictable

LEMMA DeadStep ==
  ASSUME IInv, Dead, Effect, ~IsLRU
  PROVE  Dead'
<1>1. LRUKOK(replacer)
  BY DEF IInv, ReplacerInv, ReplacerOK
<1>2. \A r, f : /\ RPin(r, f) = LRUK!Pin(r, f) /\ RUnpin(r, f) = LRUK!Unpin(r, f)
                /\ REvict(r, f) = LRUK!Evict(r, f)
  BY DEF RPin, RUnpin, REvict
<1>3. CASE Kept
  BY <1>3 DEF Dead, Kept, Alone, Free
<1>4. ASSUME NEW f \in Frame, Pinned(f) \/ Unpinned(f)
      PROVE  Dead'
  <2>1. ~Accident(replacer.node[f])
    BY <1>4 DEF Dead, Pinned, Unpinned
  <2>2. /\ ~Accident(replacer'.node[f])
        /\ \A g \in Frame \ {f} : replacer'.node[g] = replacer.node[g]
    BY <1>1, <1>2, <1>4, <2>1, AccidentFacts DEF Pinned, Unpinned
  <2>3. QED
    BY <1>4, <2>2 DEF Dead, Pinned, Unpinned, Alone, Free
<1>5. ASSUME NEW a \in AvailableFrames, Failed(a) \/ \E p \in Page : Filled(a, p)
      PROVE  Dead'
  <2>1. a.id \in Frame /\ LRUKOK(a.rep)
    BY AvailableFacts DEF ReplacerOK
  <2>2. /\ ~Accident(a.rep.node[a.id])
        /\ \A g \in Frame \ {a.id} :
             Accident(a.rep.node[g]) =>
               ~Free(g) /\ frames[g].page = None /\ ~a.rep.node[g].evictable
    <3>1. CASE Free(a.id) /\ a.rep = replacer
      BY <2>1, <3>1 DEF Dead
    <3>2. CASE /\ \A g : ~Free(g)
               /\ a.rep = REvict(replacer, a.id) /\ CanEvict(replacer, a.id)
      <4>1. /\ ~Accident(replacer.node[a.id]) /\ replacer.node[a.id].known
            /\ a.rep = LRUK!Evict(replacer, a.id)
        BY <1>1, <1>2, <2>1, <3>2 DEF Dead, CanEvict, LRUKOK
      <4>2. ~Accident(a.rep.node[a.id])
        BY <1>1, <2>1, <4>1, AccidentFacts
      <4>3. ASSUME NEW g \in Frame \ {a.id}, Accident(a.rep.node[g])
            PROVE  frames[g].page = None /\ ~a.rep.node[g].evictable
        <5>1. CASE a.rep.node[g] = replacer.node[g]
          BY <4>3, <5>1 DEF Dead
        <5>2. CASE a.rep.node[g] # replacer.node[g]
          <6>1. ~replacer.node[g].known /\ a.rep.node[g] = LRUK!DefaultNode
            BY <1>1, <2>1, <4>1, <5>2, AccidentFacts
          <6>2. frames[g].page = None
            <7>1. SUFFICES ASSUME frames[g].page # None PROVE FALSE
              OBVIOUS
            <7>2. frames[g].page \in Page /\ lookup[frames[g].page] = g
              BY <7>1 DEF IInv, TypeInv, FrameRec, FrameOwnership
            <7>3. QED
              BY <6>1, <7>2, NoneFacts DEF IInv, ReplacerInv, Known
          <6>3. QED
            BY <6>1, <6>2 DEF LRUK!DefaultNode
        <5>3. QED
          BY <5>1, <5>2
      <4>4. QED
        BY <3>2, <4>2, <4>3
    <3>3. QED
      BY <3>1, <3>2, AvailableFree
  <2>3. /\ ~Accident(replacer'.node[a.id])
        /\ \A g \in Frame \ {a.id} : replacer'.node[g] = a.rep.node[g]
    BY <1>2, <1>5, <2>1, <2>2, AccidentFacts DEF Failed, Filled
  <2>4. \A g : Free(g)' => Free(g)
    BY <1>5, AvailableFree DEF Failed, Filled, Free
  <2>5. Alone({a.id})
    BY <1>5 DEF Failed, Filled
  <2>6. QED
    BY <2>1, <2>2, <2>3, <2>4, <2>5 DEF Dead, Alone
<1>6. ASSUME NEW p \in Page, Deleted(p)
      PROVE  Dead'
  <2>1. PICK f : f = lookup[p]
    OBVIOUS
  <2>2. f \in Frame /\ frames[f].page # None
    BY <1>6, <2>1, CachedFrame, NoneFacts DEF Deleted
  <2>3. ~Accident(replacer.node[f])
    BY <2>2 DEF Dead
  <2>4. /\ ~Accident(replacer'.node[f])
        /\ \A g \in Frame \ {f} : replacer'.node[g] = replacer.node[g]
    BY <1>1, <1>2, <1>6, <2>1, <2>2, <2>3, AccidentFacts DEF Deleted
  <2>5. \A g : Free(g)' <=> Free(g) \/ g = f
    BY <1>6, <2>1, <2>2, AppendFree DEF Deleted
  <2>6. QED
    BY <1>6, <2>1, <2>4, <2>5 DEF Dead, Deleted, Alone
<1>7. QED
  BY <1>3, <1>4, <1>5, <1>6 DEF Effect

\* No frame whose node Victim's loop made by accident is ever made evictable, whichever
\* reads and writes fail: it is lost before it gets one.
THEOREM AccidentsUnused == Spec => []DefaultNodeUnused
<1>1. CASE IsLRU
  <2>1. DefaultNodeUnused
    BY <1>1 DEF DefaultNodeUnused
  <2>2. QED
    BY <2>1, PTL
<1>2. CASE ~IsLRU
  <2>1. Reliable
    BY <1>2 DEF Reliable
  <2>2. Init => Dead
    BY <1>2 DEF Init, RFresh, LRUK!Fresh, LRUK!DefaultNode, Dead, Accident
  <2>3. IInv /\ Dead /\ [Next]_vars => Dead'
    BY <1>2, StepEffect, DeadStep
  <2>4. Dead => DefaultNodeUnused
    BY DEF Dead, DefaultNodeUnused, Accident
  <2>5. Spec => []IInv
    BY <2>1, Inductive
  <2>6. QED
    BY <2>2, <2>3, <2>4, <2>5, PTL DEF Spec
<1>3. QED
  BY <1>1, <1>2
=============================================================================
