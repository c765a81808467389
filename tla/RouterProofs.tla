----------------------------- MODULE RouterProofs -----------------------------
(***************************************************************************)
(* Proofs about Router, for any addresses, forwarding table, number of     *)
(* requests, kinds and number of packets: type correctness, Custody, and   *)
(* that the router implements Forwarder.                                   *)
(***************************************************************************)
EXTENDS Router, SharedFacts

\* A packet in the wait queue has its source.
Packed == [id : 0 .. MaxPackets, src : Addr, dst : Addr,
           kind : Kinds \cup {"reply", "error"}, ttl : {"last", "more"}]

WaitEntry == [ip : Addr, due : BOOLEAN, cnt : 0 .. Requests, pktlist : Seq(Packed),
              icmp_error : BOOLEAN]

\* An ICMP error that has not been sent.
Unsent == [id : {0}, src : {None}, dst : Addr, kind : {"error"}, ttl : {"more"}]

Queue == {q \in Seq(WaitEntry) : \A i, j \in DOMAIN q : q[i].ip = q[j].ip => i = j}

-----------------------------------------------------------------------------
(* Routes. *)

LEMMA RoutesAre ==
  /\ Len(forwarding_table) \in Nat
  /\ DOMAIN forwarding_table = 1 .. Len(forwarding_table)
  /\ \A i \in DOMAIN forwarding_table : /\ forwarding_table[i].len \in Nat
                                       /\ forwarding_table[i].hop \in Host \cup {None}
<1> DEFINE Route == [net : SUBSET Addr, len : Nat, hop : Host \cup {None}]
<1>1. forwarding_table \in Seq(Route)
  BY TableAssumption
<1>2. \A r \in Route : r.len \in Nat /\ r.hop \in Host \cup {None}
  OBVIOUS
<1> HIDE DEF Route
<1>3. \A i \in DOMAIN forwarding_table : forwarding_table[i] \in Route
  BY <1>1
<1>4. QED
  BY <1>1, <1>2, <1>3

LEMMA Bounded ==
  \E b \in Nat : \A i \in DOMAIN forwarding_table : forwarding_table[i].len <= b
<1> DEFINE N == Len(forwarding_table)
           Below(n) == \E b \in Nat : \A i \in 1 .. n : forwarding_table[i].len <= b
           Bad == {n \in 0 .. N : ~Below(n)}
<1>1. /\ N \in Nat /\ DOMAIN forwarding_table = 1 .. N
      /\ \A i \in 1 .. N : forwarding_table[i].len \in Nat
  BY RoutesAre
<1> HIDE DEF N
<1>2. Bad = {}
  <2>1. SUFFICES ASSUME Bad # {}
                 PROVE  FALSE
    OBVIOUS
  <2>2. Bad \in SUBSET Nat
    BY <1>1
  <2>3. PICK m \in Bad : \A n \in Bad : m <= n
    <3> HIDE DEF Bad
    <3>1. QED
      BY <2>1, <2>2, LeastNat
  <2>4. m # 0
    BY <2>3
  <2>5. m - 1 \in 0 .. N /\ ~(m <= m - 1) /\ m \in 1 .. N
    BY <1>1, <2>3, <2>4
  <2>6. Below(m - 1)
    BY <2>3, <2>5
  <2>7. PICK b \in Nat : \A i \in 1 .. m - 1 : forwarding_table[i].len <= b
    BY <2>6
  <2>8. PICK l \in Nat : l = forwarding_table[m].len
    BY <1>1, <2>5
  <2>9. b + l \in Nat /\ \A i \in 1 .. m : forwarding_table[i].len <= b + l
    <3>1. \A i \in 1 .. m : i = m \/ i \in 1 .. m - 1
      BY <2>5
    <3>2. \A i \in 1 .. m : forwarding_table[i].len \in Nat
      BY <1>1, <2>5
    <3>3. \A i \in 1 .. m : forwarding_table[i].len <= b \/ forwarding_table[i].len = l
      BY <2>7, <2>8, <3>1
    <3> HIDE DEF Bad
    <3>4. \A x \in Nat : x <= b \/ x = l => x <= b + l
      OBVIOUS
    <3>5. QED
      BY <3>2, <3>3, <3>4
  <2>10. QED
    BY <2>3, <2>9
<1>3. N \in 0 .. N
  BY <1>1
<1>4. Below(N)
  BY <1>2, <1>3
<1>5. QED
  BY <1>1, <1>4

LEMMA LongestIs ==
  ASSUME NEW dst, Matching(dst) # {}
  PROVE  Longest(dst) \in Matching(dst)
<1> DEFINE M == Matching(dst)
           Bounds == {b \in Nat : \A i \in M : forwarding_table[i].len <= b}
<1>1. /\ M \subseteq Nat
      /\ \A i \in M : forwarding_table[i].len \in Nat
      /\ M \subseteq DOMAIN forwarding_table
  BY RoutesAre DEF Matching
<1> HIDE DEF M
<1>2. Bounds # {}
  BY <1>1, Bounded
<1>3. PICK b \in Bounds : \A c \in Bounds : b <= c
  <2>1. Bounds \in SUBSET Nat
    OBVIOUS
  <2> HIDE DEF Bounds
  <2>2. QED
    BY <1>2, <2>1, LeastNat
<1>4. \E i \in M : forwarding_table[i].len = b
  <2>1. SUFFICES ASSUME \A i \in M : forwarding_table[i].len # b
                 PROVE  FALSE
    OBVIOUS
  <2>2. \A i \in M : forwarding_table[i].len <= b - 1 /\ b - 1 \in Nat
    BY <1>1, <1>3, <2>1
  <2>3. b - 1 \in Bounds
    BY <2>2 DEF M
  <2>4. QED
    BY <1>3, <2>3
<1> DEFINE I == {i \in M : forwarding_table[i].len = b}
<1>5. PICK i \in I : \A j \in I : i <= j
  <2>1. I \in SUBSET Nat /\ I # {}
    BY <1>1, <1>4
  <2> HIDE DEF I
  <2>2. QED
    BY <2>1, LeastNat
<1>6. \A j \in M : \/ forwarding_table[i].len > forwarding_table[j].len
                   \/ forwarding_table[i].len = forwarding_table[j].len /\ i <= j
  BY <1>1, <1>3, <1>5
<1>7. QED
  BY <1>5, <1>6 DEF Longest, M

LEMMA HopIs ==
  ASSUME NEW dst \in Addr, NextHop(dst) # None
  PROVE  NextHop(dst) \in Addr
<1>1. Matching(dst) # {}
  BY DEF NextHop
<1>2. Longest(dst) \in DOMAIN forwarding_table
  BY <1>1, LongestIs DEF Matching
<1>3. forwarding_table[Longest(dst)].hop \in Host \cup {None}
  BY <1>2, RoutesAre
<1>4. QED
  BY <1>1, <1>3 DEF NextHop, Addr

-----------------------------------------------------------------------------
(* The wait queue, and what each of its operations makes of the packets that wait for a hop. *)

Lists(q) == [h \in Addr |-> IF Waits(q, h) THEN q[EntryOf(q, h)].pktlist ELSE <<>>]

LEMMA EntryIs ==
  ASSUME NEW q \in Queue, NEW h, Waits(q, h)
  PROVE  EntryOf(q, h) \in DOMAIN q /\ q[EntryOf(q, h)].ip = h
BY DEF Waits, EntryOf

LEMMA EntryAt ==
  ASSUME NEW q \in Queue, NEW e \in DOMAIN q
  PROVE  Waits(q, q[e].ip) /\ EntryOf(q, q[e].ip) = e
<1>1. Waits(q, q[e].ip)
  BY DEF Waits
<1>2. QED
  BY <1>1, EntryIs DEF Queue

LEMMA ListsAre ==
  ASSUME NEW q \in Queue
  PROVE  /\ Lists(q) \in [Addr -> Seq(Packed)]
         /\ \A e \in DOMAIN q : q[e].ip \in Addr /\ Lists(q)[q[e].ip] = q[e].pktlist
         /\ \A h \in Addr : ~Waits(q, h) => Lists(q)[h] = <<>>
<1>1. \A e \in DOMAIN q : q[e] \in WaitEntry
  BY DEF Queue
<1>2. \A e \in DOMAIN q : q[e].ip \in Addr /\ q[e].pktlist \in Seq(Packed)
  BY <1>1 DEF WaitEntry
<1>3. \A h \in Addr : Lists(q)[h] \in Seq(Packed)
  BY <1>2, EntryIs DEF Lists
<1>4. QED
  BY <1>2, <1>3, EntryAt DEF Lists

LEMMA ListsIs ==
  ASSUME NEW q \in Queue, NEW l \in [Addr -> Seq(Packed)],
         \A e \in DOMAIN q : l[q[e].ip] = q[e].pktlist,
         \A h \in Addr : ~Waits(q, h) => l[h] = <<>>
  PROVE  Lists(q) = l
<1>1. \A h \in Addr : Lists(q)[h] = l[h]
  <2>1. SUFFICES ASSUME NEW h \in Addr
                 PROVE  Lists(q)[h] = l[h]
    OBVIOUS
  <2>2. CASE Waits(q, h)
    BY <2>2, EntryIs DEF Lists
  <2>3. CASE ~Waits(q, h)
    BY <2>3 DEF Lists
  <2>4. QED
    BY <2>2, <2>3
<1>2. QED
  BY <1>1 DEF Lists

\* An entry is replaced by one for the same hop.
LEMMA ReplaceIs ==
  ASSUME NEW q \in Queue, NEW e \in DOMAIN q, NEW x \in WaitEntry, x.ip = q[e].ip
  PROVE  LET r == [q EXCEPT ![e] = x]
         IN /\ r \in Queue
            /\ Lists(r) = [Lists(q) EXCEPT ![x.ip] = x.pktlist]
            /\ \A h : Waits(r, h) <=> Waits(q, h)
<1> DEFINE r == [q EXCEPT ![e] = x]
           l == [Lists(q) EXCEPT ![x.ip] = x.pktlist]
<1>1. /\ r \in Seq(WaitEntry) /\ DOMAIN r = DOMAIN q
      /\ \A i \in DOMAIN q : r[i] = IF i = e THEN x ELSE q[i]
  BY DEF Queue
<1> HIDE DEF r
<1>2. \A i \in DOMAIN q : r[i].ip = q[i].ip
  BY <1>1
<1>3. r \in Queue
  BY <1>1, <1>2 DEF Queue
<1>4. \A h : Waits(r, h) <=> Waits(q, h)
  BY <1>1, <1>2 DEF Waits
<1>5. x.ip \in Addr /\ x.pktlist \in Seq(Packed)
  BY DEF WaitEntry
<1>6. l \in [Addr -> Seq(Packed)]
  BY <1>5, ListsAre
<1>7. \A i \in DOMAIN q : q[i].ip = x.ip => i = e
  BY DEF Queue
<1>8. \A i \in DOMAIN r : l[r[i].ip] = r[i].pktlist
  BY <1>1, <1>2, <1>5, <1>7, ListsAre
<1>9. \A h \in Addr : ~Waits(r, h) => l[h] = <<>>
  BY <1>4, EntryAt, ListsAre
<1>10. Lists(r) = l
  BY <1>3, <1>6, <1>8, <1>9, ListsIs
<1>11. QED
  BY <1>3, <1>4, <1>10 DEF r

LEMMA AppendIs ==
  ASSUME NEW q \in Queue, NEW x \in WaitEntry, ~Waits(q, x.ip)
  PROVE  LET r == Append(q, x)
         IN /\ r \in Queue
            /\ Lists(r) = [Lists(q) EXCEPT ![x.ip] = x.pktlist]
            /\ \A h : Waits(r, h) <=> Waits(q, h) \/ h = x.ip
<1> DEFINE r == Append(q, x)
           l == [Lists(q) EXCEPT ![x.ip] = x.pktlist]
<1>1. q \in Seq(WaitEntry)
  BY DEF Queue
<1>2. /\ r \in Seq(WaitEntry) /\ DOMAIN r = 1 .. Len(q) + 1 /\ DOMAIN q = 1 .. Len(q)
      /\ Len(q) \in Nat
      /\ \A i \in DOMAIN q : r[i] = q[i]
      /\ r[Len(q) + 1] = x
  BY <1>1
<1> HIDE DEF r
<1>3. \A i \in DOMAIN r : i \in DOMAIN q \/ i = Len(q) + 1
  BY <1>2
<1>4. Len(q) + 1 \in DOMAIN r /\ DOMAIN q \subseteq DOMAIN r
  BY <1>2
<1>5. \A h : Waits(r, h) <=> Waits(q, h) \/ h = x.ip
  BY <1>2, <1>3, <1>4 DEF Waits
<1>6. \A i \in DOMAIN q : q[i].ip # x.ip
  BY DEF Waits
<1>7. r \in Queue
  <2>1. ASSUME NEW i \in DOMAIN r, NEW j \in DOMAIN r, r[i].ip = r[j].ip
        PROVE  i = j
    BY <1>2, <1>3, <1>6, <2>1 DEF Queue
  <2>2. QED
    BY <1>2, <2>1 DEF Queue
<1>8. x.ip \in Addr /\ x.pktlist \in Seq(Packed)
  BY DEF WaitEntry
<1>9. l \in [Addr -> Seq(Packed)]
  BY <1>8, ListsAre
<1>10. \A i \in DOMAIN r : l[r[i].ip] = r[i].pktlist
  BY <1>2, <1>3, <1>6, <1>8, ListsAre
<1>11. \A h \in Addr : ~Waits(r, h) => l[h] = <<>>
  BY <1>5, ListsAre
<1>12. Lists(r) = l
  BY <1>7, <1>9, <1>10, <1>11, ListsIs
<1>13. QED
  BY <1>5, <1>7, <1>12 DEF r

LEMMA DeleteIs ==
  ASSUME NEW q \in Queue, NEW ip \in Addr
  PROVE  LET r == Delete(q, ip)
         IN /\ r \in Queue
            /\ Lists(r) = [Lists(q) EXCEPT ![ip] = <<>>]
            /\ \A h : Waits(r, h) <=> Waits(q, h) /\ h # ip
<1>1. CASE ~Waits(q, ip)
  <2>1. Delete(q, ip) = q
    BY <1>1 DEF Delete
  <2>2. Lists(q) = [Lists(q) EXCEPT ![ip] = <<>>]
    BY <1>1, ListsAre
  <2>3. QED
    BY <1>1, <2>1, <2>2
<1>2. CASE Waits(q, ip)
  <2> DEFINE k == EntryOf(q, ip)
             r == RemoveAt(q, k)
             At(i) == IF i < k THEN i ELSE i + 1
             l == [Lists(q) EXCEPT ![ip] = <<>>]
  <2>1. k \in DOMAIN q /\ q[k].ip = ip
    BY <1>2, EntryIs
  <2> HIDE DEF k
  <2>2. q \in Seq(WaitEntry)
    BY DEF Queue
  <2>3. /\ r \in Seq(WaitEntry) /\ DOMAIN r = 1 .. Len(q) - 1
        /\ DOMAIN q = 1 .. Len(q) /\ Len(q) \in Nat
        /\ \A i \in 1 .. Len(q) - 1 : r[i] = q[At(i)]
    <3>1. k \in 1 .. Len(q) /\ Len(q) \in Nat /\ DOMAIN q = 1 .. Len(q)
      BY <2>1, <2>2
    <3>2. QED
      BY <2>2, <3>1, CutIs DEF RemoveAt
  <2>4. \A i \in DOMAIN r : At(i) \in DOMAIN q /\ At(i) # k
    BY <2>1, <2>3
  <2>5. \A j \in DOMAIN q : j # k => \E i \in DOMAIN r : At(i) = j
    <3>1. SUFFICES ASSUME NEW j \in DOMAIN q, j # k
                   PROVE  \E i \in DOMAIN r : At(i) = j
      OBVIOUS
    <3>2. CASE j < k
      BY <2>1, <2>3, <3>1, <3>2
    <3>3. CASE j > k
      <4>1. j - 1 \in DOMAIN r /\ At(j - 1) = j
        BY <2>1, <2>3, <3>1, <3>3
      <4>2. QED
        BY <4>1
    <3>4. QED
      BY <2>1, <2>3, <3>1, <3>2, <3>3
  <2>6. \A i, j \in DOMAIN r : At(i) = At(j) => i = j
    BY <2>1, <2>3
  <2>7. \A i \in DOMAIN r : r[i] = q[At(i)]
    BY <2>3
  <2> HIDE DEF r, At
  <2>8. \A j \in DOMAIN q : q[j].ip = ip => j = k
    BY <2>1 DEF Queue
  <2>9. r \in Queue
    BY <2>3, <2>4, <2>6, <2>7 DEF Queue
  <2>10. \A h : Waits(r, h) <=> Waits(q, h) /\ h # ip
    BY <2>1, <2>4, <2>5, <2>7, <2>8 DEF Waits
  <2>11. l \in [Addr -> Seq(Packed)]
    <3>1. <<>> \in Seq(Packed)
      OBVIOUS
    <3>2. QED
      BY <3>1, ListsAre
  <2>12. \A i \in DOMAIN r : l[r[i].ip] = r[i].pktlist
    BY <2>4, <2>7, <2>8, ListsAre
  <2>13. \A h \in Addr : ~Waits(r, h) => l[h] = <<>>
    BY <2>10, ListsAre
  <2>14. Lists(r) = l
    BY <2>9, <2>11, <2>12, <2>13, ListsIs
  <2>15. Delete(q, ip) = r
    BY <1>2 DEF Delete, r, k
  <2>16. QED
    BY <2>9, <2>10, <2>14, <2>15
<1>3. QED
  BY <1>1, <1>2

LEMMA WithSourceIs ==
  ASSUME NEW pkt \in Packed \cup Unsent
  PROVE  WithSource(pkt) \in Packed /\ WithSource(pkt).id = pkt.id /\ WithSource(pkt).dst = pkt.dst
<1>1. CASE pkt.src = None
  <2>1. WithSource(pkt) = [pkt EXCEPT !.src = Me]
    BY <1>1 DEF WithSource
  <2>2. Me \in Addr /\ 0 \in 0 .. MaxPackets
    BY BoundAssumption DEF Addr
  <2>3. QED
    BY <2>1, <2>2 DEF Packed, Unsent
<1>2. CASE pkt.src # None
  BY <1>2 DEF WithSource, Unsent
<1>3. QED
  BY <1>1, <1>2

LEMMA EnqueueIs ==
  ASSUME NEW q \in Queue, NEW ip \in Addr, NEW pkt \in Packed, NEW icmp_error \in BOOLEAN
  PROVE  LET r == Enqueue(q, ip, pkt, icmp_error)
         IN /\ r \in Queue
            /\ Lists(r) = [Lists(q) EXCEPT ![ip] = Append(Lists(q)[ip], pkt)]
            /\ \A h : Waits(r, h) <=> Waits(q, h) \/ h = ip
<1>1. CASE Waits(q, ip)
  <2> DEFINE k == EntryOf(q, ip)
             x == [q[k] EXCEPT !.pktlist = Append(q[k].pktlist, pkt)]
  <2>1. k \in DOMAIN q /\ q[k].ip = ip
    BY <1>1, EntryIs
  <2>2. Enqueue(q, ip, pkt, icmp_error) = [q EXCEPT ![k] = x]
    BY <1>1 DEF Enqueue
  <2> HIDE DEF k
  <2>3. q[k] \in WaitEntry
    BY <2>1 DEF Queue
  <2>4. Append(q[k].pktlist, pkt) \in Seq(Packed)
    BY <2>3 DEF WaitEntry
  <2>5. x \in WaitEntry /\ x.ip = ip /\ x.pktlist = Append(q[k].pktlist, pkt)
    BY <2>1, <2>3, <2>4 DEF WaitEntry
  <2>6. Lists(q)[ip] = q[k].pktlist
    BY <2>1, ListsAre
  <2> HIDE DEF x
  <2>7. x.ip = q[k].ip
    BY <2>1, <2>5
  <2> DEFINE r == [q EXCEPT ![k] = x]
  <2>8. /\ r \in Queue /\ Lists(r) = [Lists(q) EXCEPT ![x.ip] = x.pktlist]
        /\ \A h : Waits(r, h) <=> Waits(q, h)
    BY <2>1, <2>5, <2>7, ReplaceIs
  <2> HIDE DEF r
  <2>9. Enqueue(q, ip, pkt, icmp_error) = r
    BY <2>2 DEF r
  <2>10. QED
    BY <1>1, <2>5, <2>6, <2>8, <2>9
<1>2. CASE ~Waits(q, ip)
  <2> DEFINE x == NewEntry(ip, pkt, icmp_error)
  <2>1. Enqueue(q, ip, pkt, icmp_error) = Append(q, x)
    BY <1>2 DEF Enqueue
  <2>2. <<pkt>> \in Seq(Packed) /\ 0 \in 0 .. Requests
    BY BoundAssumption
  <2>3. x \in WaitEntry /\ x.ip = ip /\ x.pktlist = <<pkt>>
    BY <2>2 DEF NewEntry, WaitEntry
  <2>4. Lists(q)[ip] = <<>> /\ Append(<<>>, pkt) = <<pkt>>
    BY <1>2, ListsAre
  <2> HIDE DEF x
  <2>5. ~Waits(q, x.ip)
    BY <1>2, <2>3
  <2> DEFINE r == Append(q, x)
  <2>6. /\ r \in Queue /\ Lists(r) = [Lists(q) EXCEPT ![x.ip] = x.pktlist]
        /\ \A h : Waits(r, h) <=> Waits(q, h) \/ h = x.ip
    BY <2>3, <2>5, AppendIs
  <2> HIDE DEF r
  <2>7. Enqueue(q, ip, pkt, icmp_error) = r
    BY <2>1 DEF r
  <2>8. QED
    BY <2>3, <2>4, <2>6, <2>7
<1>3. QED
  BY <1>1, <1>2

\* The entries whose packets stay what they are.
LEMMA DueIs ==
  ASSUME NEW q \in Queue, NEW n \in Nat
  PROVE  LET r == [i \in DOMAIN q |-> [q[i] EXCEPT !.due = @ \/ i <= n]]
         IN /\ r \in Queue /\ Lists(r) = Lists(q)
            /\ \A h : Waits(r, h) <=> Waits(q, h)
<1> DEFINE r == [i \in DOMAIN q |-> [q[i] EXCEPT !.due = @ \/ i <= n]]
<1>1. \A i \in DOMAIN q : q[i] \in WaitEntry /\ i \in Nat
  BY DEF Queue
<1>2. DOMAIN r = DOMAIN q
  OBVIOUS
<1>3. \A i \in DOMAIN q : r[i] \in WaitEntry /\ r[i].ip = q[i].ip /\ r[i].pktlist = q[i].pktlist
  <2>1. SUFFICES ASSUME NEW i \in DOMAIN q
                 PROVE  /\ r[i] \in WaitEntry
                        /\ r[i].ip = q[i].ip /\ r[i].pktlist = q[i].pktlist
    OBVIOUS
  <2>2. (q[i].due \/ i <= n) \in BOOLEAN
    OBVIOUS
  <2>3. r[i] = [q[i] EXCEPT !.due = q[i].due \/ i <= n]
    OBVIOUS
  <2>4. QED
    BY <1>1, <2>2, <2>3 DEF WaitEntry
<1> HIDE DEF r
<1>4. r \in Seq(WaitEntry)
  <2>1. DOMAIN r = 1 .. Len(q) /\ Len(q) \in Nat
    BY <1>2 DEF Queue
  <2>2. r = [i \in 1 .. Len(q) |-> r[i]]
    BY <2>1 DEF r
  <2>3. QED
    BY <1>2, <1>3, <2>1, <2>2
<1>5. r \in Queue
  BY <1>2, <1>3, <1>4 DEF Queue
<1>6. \A h : Waits(r, h) <=> Waits(q, h)
  BY <1>2, <1>3 DEF Waits
<1>7. Lists(r) = Lists(q)
  <2>1. \A i \in DOMAIN r : Lists(q)[r[i].ip] = r[i].pktlist
    BY <1>2, <1>3, ListsAre
  <2>2. QED
    BY <1>5, <1>6, <2>1, ListsAre, ListsIs
<1>8. QED
  BY <1>5, <1>6, <1>7 DEF r

LEMMA AskIs ==
  ASSUME NEW q \in Queue, NEW e \in DOMAIN q, q[e].cnt < Requests
  PROVE  LET r == Append(Delete(q, q[e].ip), Asked(q[e]))
         IN /\ r \in Queue /\ Lists(r) = Lists(q)
            /\ \A h : Waits(r, h) <=> Waits(q, h)
<1> DEFINE ip == q[e].ip
           x  == Asked(q[e])
           d  == Delete(q, ip)
<1>1. q[e] \in WaitEntry
  BY DEF Queue
<1>2. PICK c \in 0 .. Requests : c = q[e].cnt
  BY <1>1 DEF WaitEntry
<1>3. c + 1 \in 0 .. Requests
  BY <1>2, BoundAssumption
<1>4. x \in WaitEntry /\ x.ip = ip /\ x.pktlist = q[e].pktlist
  <2>1. x = [q[e] EXCEPT !.due = FALSE, !.cnt = c + 1]
    BY <1>2 DEF Asked
  <2>2. QED
    BY <1>1, <1>3, <2>1 DEF WaitEntry
<1>5. ip \in Addr
  BY <1>1 DEF WaitEntry
<1> HIDE DEF ip, x
<1>6. /\ d \in Queue /\ Lists(d) = [Lists(q) EXCEPT ![ip] = <<>>]
      /\ \A h : Waits(d, h) <=> Waits(q, h) /\ h # ip
  BY <1>5, DeleteIs
<1> HIDE DEF d
<1> DEFINE r == Append(d, x)
<1>7. /\ r \in Queue /\ Lists(r) = [Lists(d) EXCEPT ![ip] = q[e].pktlist]
      /\ \A h : Waits(r, h) <=> Waits(d, h) \/ h = ip
  <2>1. ~Waits(d, x.ip)
    BY <1>4, <1>6
  <2>2. /\ r \in Queue /\ Lists(r) = [Lists(d) EXCEPT ![x.ip] = x.pktlist]
        /\ \A h : Waits(r, h) <=> Waits(d, h) \/ h = x.ip
    BY <1>4, <1>6, <2>1, AppendIs
  <2> HIDE DEF r
  <2>3. QED
    BY <1>4, <2>2
<1>8. Lists(q)[ip] = q[e].pktlist /\ Waits(q, ip)
  BY ListsAre, EntryAt DEF ip
<1>9. Lists(r) = Lists(q)
  BY <1>6, <1>7, <1>8, ListsAre
<1>10. QED
  BY <1>6, <1>7, <1>8, <1>9 DEF ip, x, d

LEMMA TakeIs ==
  ASSUME NEW q \in Queue, NEW e \in DOMAIN q, q[e].pktlist # <<>>
  PROVE  LET r == [q EXCEPT ![e].pktlist = Tail(@)]
         IN /\ r \in Queue
            /\ Lists(r) = [Lists(q) EXCEPT ![q[e].ip] = Tail(q[e].pktlist)]
            /\ \A h : Waits(r, h) <=> Waits(q, h)
<1> DEFINE x == [q[e] EXCEPT !.pktlist = Tail(q[e].pktlist)]
<1>1. q[e] \in WaitEntry
  BY DEF Queue
<1>2. Tail(q[e].pktlist) \in Seq(Packed)
  BY <1>1 DEF WaitEntry
<1>3. x \in WaitEntry /\ x.ip = q[e].ip /\ x.pktlist = Tail(q[e].pktlist)
  BY <1>1, <1>2 DEF WaitEntry
<1>4. [q EXCEPT ![e].pktlist = Tail(@)] = [q EXCEPT ![e] = x]
  OBVIOUS
<1> HIDE DEF x
<1> DEFINE r == [q EXCEPT ![e] = x]
<1>5. /\ r \in Queue /\ Lists(r) = [Lists(q) EXCEPT ![x.ip] = x.pktlist]
      /\ \A h : Waits(r, h) <=> Waits(q, h)
  BY <1>3, ReplaceIs
<1> HIDE DEF r
<1>6. [q EXCEPT ![e].pktlist = Tail(@)] = r
  BY <1>4 DEF r
<1>7. QED
  BY <1>3, <1>5, <1>6

-----------------------------------------------------------------------------
(* Custody, of the packets that wait for each hop and of what became of every packet. *)

Kept(l, f) ==
  /\ \A i \in Id : f[i] = "waiting" => \E h \in Addr : \E n \in DOMAIN l[h] : l[h][n].id = i
  /\ \A h \in Addr : \A n \in DOMAIN l[h] :
       l[h][n].id \in Id => f[l[h][n].id] = "waiting" /\ NextHop(l[h][n].dst) = h
  /\ \A g, h \in Addr : \A m \in DOMAIN l[g], n \in DOMAIN l[h] :
       l[g][m].id \in Id /\ l[g][m].id = l[h][n].id => g = h /\ m = n

IdsOf(pktlist) == {pktlist[n].id : n \in DOMAIN pktlist} \ {0}

With(l, hop, pktlist) == [l EXCEPT ![hop] = pktlist]

LEMMA KeptAlike ==
  ASSUME NEW l, NEW f, NEW g, Kept(l, f), \A i \in Id : f[i] = "waiting" <=> g[i] = "waiting"
  PROVE  Kept(l, g)
BY DEF Kept

\* A packet joins those that wait for a hop, and no other starts or stops waiting.
Joins(f, g, hop, pkt) ==
  /\ \A i \in Id : i # pkt.id => (g[i] = "waiting" <=> f[i] = "waiting")
  /\ pkt.id \in Id => f[pkt.id] # "waiting" /\ g[pkt.id] = "waiting" /\ NextHop(pkt.dst) = hop

LEMMA KeptAppend ==
  ASSUME NEW l \in [Addr -> Seq(Packed)], NEW f, NEW g, Kept(l, f),
         NEW hop \in Addr, NEW pkt \in Packed, Joins(f, g, hop, pkt)
  PROVE  Kept(With(l, hop, Append(l[hop], pkt)), g)
<1> DEFINE k == With(l, hop, Append(l[hop], pkt))
<1>1. l[hop] \in Seq(Packed)
  OBVIOUS
<1>2. PICK last \in Nat : last = Len(l[hop]) + 1
  BY <1>1
<1>3. /\ DOMAIN Append(l[hop], pkt) = DOMAIN l[hop] \cup {last} /\ last \notin DOMAIN l[hop]
      /\ Append(l[hop], pkt)[last] = pkt
      /\ \A n \in DOMAIN l[hop] : Append(l[hop], pkt)[n] = l[hop][n]
  BY <1>1, <1>2
<1>4. /\ \A h \in Addr : h # hop => k[h] = l[h]
      /\ DOMAIN k[hop] = DOMAIN l[hop] \cup {last} /\ k[hop][last] = pkt
      /\ \A n \in DOMAIN l[hop] : k[hop][n] = l[hop][n]
  BY <1>3 DEF With
<1> HIDE DEF k
<1>5. \A h \in Addr : /\ DOMAIN l[h] \subseteq DOMAIN k[h]
                      /\ \A n \in DOMAIN l[h] : k[h][n] = l[h][n]
                      /\ \A n \in DOMAIN k[h] : n \in DOMAIN l[h] \/ (h = hop /\ n = last)
  <2>1. SUFFICES ASSUME NEW h \in Addr
                 PROVE  /\ DOMAIN l[h] \subseteq DOMAIN k[h]
                        /\ \A n \in DOMAIN l[h] : k[h][n] = l[h][n]
                        /\ \A n \in DOMAIN k[h] : n \in DOMAIN l[h] \/ (h = hop /\ n = last)
    OBVIOUS
  <2>2. CASE h = hop
    BY <1>4, <2>2 DEF Joins
  <2>3. CASE h # hop
    BY <1>4, <2>3
  <2>4. QED
    BY <2>2, <2>3
<1>6. \A i \in Id : g[i] = "waiting" => \E h \in Addr : \E n \in DOMAIN k[h] : k[h][n].id = i
  <2>1. SUFFICES ASSUME NEW i \in Id, g[i] = "waiting"
                 PROVE  \E h \in Addr : \E n \in DOMAIN k[h] : k[h][n].id = i
    OBVIOUS
  <2>2. CASE i = pkt.id
    BY <1>4, <2>2 DEF Joins
  <2>3. CASE i # pkt.id
    BY <1>5, <2>1, <2>3 DEF Kept, Joins
  <2>4. QED
    BY <2>2, <2>3
<1>7. \A h \in Addr : \A n \in DOMAIN l[h] : l[h][n].id \in Id => l[h][n].id # pkt.id
  BY DEF Kept, Joins
<1>8. \A h \in Addr : \A n \in DOMAIN k[h] :
        k[h][n].id \in Id => g[k[h][n].id] = "waiting" /\ NextHop(k[h][n].dst) = h
  <2>1. SUFFICES ASSUME NEW h \in Addr, NEW n \in DOMAIN k[h], k[h][n].id \in Id
                 PROVE  g[k[h][n].id] = "waiting" /\ NextHop(k[h][n].dst) = h
    OBVIOUS
  <2>2. CASE n \in DOMAIN l[h]
    BY <1>5, <1>7, <2>1, <2>2 DEF Kept, Joins
  <2>3. CASE h = hop /\ n = last
    BY <1>4, <2>1, <2>3 DEF Joins
  <2>4. QED
    BY <1>5, <2>2, <2>3
<1>9. \A a, b \in Addr : \A m \in DOMAIN k[a], n \in DOMAIN k[b] :
        k[a][m].id \in Id /\ k[a][m].id = k[b][n].id => a = b /\ m = n
  <2>1. SUFFICES ASSUME NEW a \in Addr, NEW b \in Addr, NEW m \in DOMAIN k[a], NEW n \in DOMAIN k[b],
                        k[a][m].id \in Id, k[a][m].id = k[b][n].id
                 PROVE  a = b /\ m = n
    OBVIOUS
  <2>2. CASE m \in DOMAIN l[a] /\ n \in DOMAIN l[b]
    BY <1>5, <2>1, <2>2 DEF Kept
  <2>3. CASE m \in DOMAIN l[a] /\ b = hop /\ n = last
    BY <1>4, <1>5, <1>7, <2>1, <2>3
  <2>4. CASE a = hop /\ m = last /\ n \in DOMAIN l[b]
    BY <1>4, <1>5, <1>7, <2>1, <2>4
  <2>5. CASE a = hop /\ m = last /\ b = hop /\ n = last
    BY <2>5
  <2>6. QED
    BY <1>5, <2>2, <2>3, <2>4, <2>5
<1>10. QED
  BY <1>6, <1>8, <1>9 DEF Kept, k

\* The packets that wait for a hop are settled together.
LEMMA KeptClear ==
  ASSUME NEW l \in [Addr -> Seq(Packed)], NEW f, NEW g, Kept(l, f), NEW hop \in Addr,
         \A i \in Id : g[i] = "waiting" <=> f[i] = "waiting" /\ i \notin IdsOf(l[hop])
  PROVE  Kept(With(l, hop, <<>>), g)
<1> DEFINE k == With(l, hop, <<>>)
<1>1. /\ k[hop] = <<>> /\ DOMAIN k[hop] = {}
      /\ \A h \in Addr : h # hop => k[h] = l[h]
  BY DEF With
<1> HIDE DEF k
<1>2. \A i \in Id : i # 0
  BY DEF Id
<1>3. \A n \in DOMAIN l[hop] : l[hop][n].id \in Id => l[hop][n].id \in IdsOf(l[hop])
  BY <1>2 DEF IdsOf
<1>4. \A i \in IdsOf(l[hop]) : \E n \in DOMAIN l[hop] : l[hop][n].id = i
  BY DEF IdsOf
<1>5. \A i \in Id : g[i] = "waiting" => \E h \in Addr : \E n \in DOMAIN k[h] : k[h][n].id = i
  BY <1>1, <1>3 DEF Kept
<1>6. \A h \in Addr : \A n \in DOMAIN k[h] :
        k[h][n].id \in Id => g[k[h][n].id] = "waiting" /\ NextHop(k[h][n].dst) = h
  <2>1. SUFFICES ASSUME NEW h \in Addr, NEW n \in DOMAIN k[h], k[h][n].id \in Id
                 PROVE  g[k[h][n].id] = "waiting" /\ NextHop(k[h][n].dst) = h
    OBVIOUS
  <2>2. h # hop /\ k[h] = l[h]
    BY <1>1
  <2>3. l[h][n].id \notin IdsOf(l[hop])
    BY <1>4, <2>1, <2>2 DEF Kept
  <2>4. QED
    BY <2>1, <2>2, <2>3 DEF Kept
<1>7. \A a, b \in Addr : \A m \in DOMAIN k[a], n \in DOMAIN k[b] :
        k[a][m].id \in Id /\ k[a][m].id = k[b][n].id => a = b /\ m = n
  BY <1>1 DEF Kept
<1>8. QED
  BY <1>5, <1>6, <1>7 DEF Kept, k

\* The first of the packets that wait for a hop is settled, and no other.
FirstLeaves(pktlist, f, g) ==
  \A i \in Id : g[i] = "waiting" <=> f[i] = "waiting" /\ i # Head(pktlist).id

LEMMA KeptTail ==
  ASSUME NEW l \in [Addr -> Seq(Packed)], NEW f, NEW g, Kept(l, f), NEW hop \in Addr, l[hop] # <<>>,
         FirstLeaves(l[hop], f, g)
  PROVE  Kept(With(l, hop, Tail(l[hop])), g)
<1> DEFINE k == With(l, hop, Tail(l[hop]))
           At(h, n) == IF h = hop THEN n + 1 ELSE n
<1>1. l[hop] \in Seq(Packed)
  OBVIOUS
<1>2. PICK size \in Nat : size = Len(l[hop])
  BY <1>1
<1>3. /\ DOMAIN Tail(l[hop]) = 1 .. size - 1 /\ DOMAIN l[hop] = 1 .. size /\ size > 0
      /\ \A n \in 1 .. size - 1 : Tail(l[hop])[n] = l[hop][n + 1]
      /\ Head(l[hop]) = l[hop][1]
  BY <1>1, <1>2
<1>4. k[hop] = Tail(l[hop]) /\ \A h \in Addr : h # hop => k[h] = l[h]
  BY DEF With
<1> HIDE DEF k
<1>5. \A h \in Addr : \A n \in DOMAIN k[h] : /\ At(h, n) \in DOMAIN l[h]
                                             /\ k[h][n] = l[h][At(h, n)]
                                             /\ h = hop => At(h, n) # 1
  BY <1>3, <1>4
<1>6. \A h \in Addr : \A m \in DOMAIN l[h] :
        (h = hop => m # 1) => \E n \in DOMAIN k[h] : At(h, n) = m
  <2>1. SUFFICES ASSUME NEW h \in Addr, NEW m \in DOMAIN l[h], h = hop => m # 1
                 PROVE  \E n \in DOMAIN k[h] : At(h, n) = m
    OBVIOUS
  <2>2. CASE h = hop
    <3>1. m - 1 \in DOMAIN k[h] /\ At(h, m - 1) = m
      BY <1>3, <1>4, <2>1, <2>2
    <3>2. QED
      BY <3>1
  <2>3. CASE h # hop
    BY <1>4, <2>3
  <2>4. QED
    BY <2>2, <2>3
<1>7. \A h \in Addr : \A m, n \in DOMAIN k[h] : At(h, m) = At(h, n) => m = n
  BY <1>3, <1>4
<1>8. 1 \in DOMAIN l[hop]
  BY <1>3
<1> HIDE DEF At
<1>9. \A i \in Id : g[i] = "waiting" => \E h \in Addr : \E n \in DOMAIN k[h] : k[h][n].id = i
  <2>1. SUFFICES ASSUME NEW i \in Id, g[i] = "waiting"
                 PROVE  \E h \in Addr : \E n \in DOMAIN k[h] : k[h][n].id = i
    OBVIOUS
  <2>2. PICK h \in Addr : \E m \in DOMAIN l[h] : l[h][m].id = i
    BY <2>1 DEF Kept, FirstLeaves
  <2>3. PICK m \in DOMAIN l[h] : l[h][m].id = i
    BY <2>2
  <2>4. h = hop => m # 1
    BY <1>3, <2>1, <2>3 DEF FirstLeaves
  <2>5. QED
    BY <1>5, <1>6, <2>3, <2>4
<1>10. \A h \in Addr : \A n \in DOMAIN k[h] :
         k[h][n].id \in Id => g[k[h][n].id] = "waiting" /\ NextHop(k[h][n].dst) = h
  <2>1. SUFFICES ASSUME NEW h \in Addr, NEW n \in DOMAIN k[h], k[h][n].id \in Id
                 PROVE  g[k[h][n].id] = "waiting" /\ NextHop(k[h][n].dst) = h
    OBVIOUS
  <2>2. k[h][n] = l[h][At(h, n)] /\ At(h, n) \in DOMAIN l[h]
    BY <1>5
  <2>3. k[h][n].id # l[hop][1].id
    BY <1>5, <1>8, <2>1, <2>2 DEF Kept
  <2>4. QED
    BY <1>3, <2>1, <2>2, <2>3 DEF Kept, FirstLeaves
<1>11. \A a, b \in Addr : \A m \in DOMAIN k[a], n \in DOMAIN k[b] :
         k[a][m].id \in Id /\ k[a][m].id = k[b][n].id => a = b /\ m = n
  BY <1>5, <1>7 DEF Kept
<1>12. QED
  BY <1>9, <1>10, <1>11 DEF Kept, k

-----------------------------------------------------------------------------
(* The inductive invariant. *)

Fates == {"unseen", "waiting", "sent", "answered", "dropped"}

\* The hops a walk has still to visit: each once, and each in the queue.
Route(hops, q) ==
  /\ \A i \in DOMAIN hops : Waits(q, hops[i])
  /\ \A i, j \in DOMAIN hops : hops[i] = hops[j] => i = j

Books == queue \in Queue /\ Kept(Lists(queue), fate)

Inv ==
  /\ Books
  /\ arpTable \subseteq Host /\ fate \in [Id -> Fates]
  /\ at \in {"walk", "failing", "receive"} /\ held \in Unsent \cup {None}
  /\ todo \in Seq(Addr)
  /\ at # "receive" => Route(todo, queue)
  /\ at = "failing" => todo # <<>>

LEMMA InitInv == Init => Inv
<1> SUFFICES ASSUME Init
             PROVE  Inv
  OBVIOUS
<1>1. queue \in Queue
  BY DEF Init, Queue
<1>2. \A h \in Addr : Lists(queue)[h] = <<>>
  BY DEF Init, Lists, Waits
<1>3. Kept(Lists(queue), fate)
  BY <1>2 DEF Init, Kept
<1>4. QED
  BY <1>1, <1>3 DEF Init, Inv, Books, Fates

\* packetSending leaves the queue alone or puts the packet in it.
LEMMA SendingIs ==
  ASSUME queue \in Queue, NEW pkt \in Packed \cup Unsent, NEW dst \in Addr,
         NEW icmp_error \in BOOLEAN
  PROVE  LET s == PacketSending(pkt, dst, icmp_error)
         IN \/ s.ret \in {"no match", "expired", "sent"} /\ s.queue = queue
            \/ /\ s.ret = "waiting" /\ NextHop(dst) \in Addr
               /\ s.queue = Enqueue(queue, NextHop(dst), WithSource(pkt), icmp_error)
BY HopIs DEF PacketSending

LEMMA EnqueueKeeps ==
  ASSUME NEW q \in Queue, NEW f, NEW g, Kept(Lists(q), f),
         NEW hop \in Addr, NEW pkt \in Packed, NEW icmp_error \in BOOLEAN,
         Joins(f, g, hop, pkt)
  PROVE  LET r == Enqueue(q, hop, pkt, icmp_error)
         IN /\ r \in Queue /\ Kept(Lists(r), g)
            /\ \A h : Waits(q, h) => Waits(r, h)
<1>1. PICK l \in [Addr -> Seq(Packed)] : l = Lists(q)
  BY ListsAre
<1>2. PICK r : r = Enqueue(q, hop, pkt, icmp_error)
  OBVIOUS
<1>3. /\ r \in Queue
      /\ Lists(r) = With(l, hop, Append(l[hop], pkt))
      /\ \A h : Waits(q, h) => Waits(r, h)
  BY <1>1, <1>2, EnqueueIs DEF With
<1>4. Kept(l, f)
  BY <1>1
<1>5. Kept(With(l, hop, Append(l[hop], pkt)), g)
  BY <1>4, KeptAppend
<1>6. QED
  BY <1>2, <1>3, <1>5

LEMMA AnswerKeeps ==
  ASSUME queue \in Queue, NEW f, Kept(Lists(queue), f),
         NEW pkt \in Packed \cup Unsent, pkt.id = 0, NEW dst \in Addr
  PROVE  LET r == PacketSending(pkt, dst, FALSE).queue
         IN /\ r \in Queue /\ Kept(Lists(r), f)
            /\ \A h : Waits(queue, h) => Waits(r, h)
<1> DEFINE s == PacketSending(pkt, dst, FALSE)
<1>1. CASE s.queue = queue
  BY <1>1
<1>2. CASE s.queue # queue
  <2>1. NextHop(dst) \in Addr /\ s.queue = Enqueue(queue, NextHop(dst), WithSource(pkt), FALSE)
    BY <1>2, SendingIs
  <2>2. PICK hop \in Addr : hop = NextHop(dst)
    BY <2>1
  <2>3. PICK src \in Packed : src = WithSource(pkt) /\ src.id = 0
    BY WithSourceIs
  <2>4. Joins(f, f, hop, src)
    BY <2>3 DEF Id, Joins
  <2>5. PICK r : r = Enqueue(queue, hop, src, FALSE)
    OBVIOUS
  <2>6. /\ r \in Queue /\ Kept(Lists(r), f)
        /\ \A h : Waits(queue, h) => Waits(r, h)
    BY <2>4, <2>5, EnqueueKeeps
  <2>7. QED
    BY <2>1, <2>2, <2>3, <2>5, <2>6
<1>3. QED
  BY <1>1, <1>2

LEMMA MadeIs ==
  ASSUME NEW src \in Addr, NEW dst \in Addr
  PROVE  /\ Made(src, dst, "reply") \in Packed /\ Made(src, dst, "reply").id = 0
         /\ Made(None, dst, "error") \in Unsent /\ Made(None, dst, "error").id = 0
BY BoundAssumption DEF Made, Packed, Unsent

\* The loop walks the queue the step has left.
LEMMA LoopKeeps ==
  ASSUME Inv, Loop, Books', arpTable' \subseteq Host, fate' \in [Id -> Fates]
  PROVE  Inv'
<1>1. queue' \in Queue /\ todo' = Hops(queue') /\ at' = "walk" /\ held' = held
  BY DEF Loop, Books
<1>2. PICK q \in Queue : q = queue'
  BY <1>1
<1>3. todo' = [i \in 1 .. Len(q) |-> q[i].ip] /\ DOMAIN q = 1 .. Len(q) /\ Len(q) \in Nat
  BY <1>1, <1>2 DEF Hops, Queue
<1>4. todo' \in Seq(Addr)
  BY <1>3, ListsAre
<1>5. Route(todo', q)
  BY <1>3, EntryAt DEF Route, Queue
<1>6. QED
  BY <1>1, <1>2, <1>4, <1>5 DEF Inv

-----------------------------------------------------------------------------
(* What is received. *)

\* A packet is accepted once, as what it becomes is not "unseen".
Accepts(i, end) == fate[i] = "unseen" /\ fate' = [fate EXCEPT ![i] = end]

LEMMA AcceptIs ==
  ASSUME NEW i \in Id, NEW end \in {"waiting", "sent", "answered", "dropped"},
         fate \in [Id -> Fates], Accepts(i, end)
  PROVE  fate' \in [Id -> Fates] /\ Packets!Next
<1>1. Packets!Accept(i)
  BY DEF Accepts, Packets!Accept, Packets!Ends
<1>2. QED
  BY <1>1 DEF Accepts, Packets!Next, Fates

LEMMA AnswerInv ==
  ASSUME Inv, NEW pkt \in Packed, pkt.id \in Id, fate[pkt.id] = "unseen",
         NEW answer \in Packed \cup Unsent, answer.id = 0, Answer(pkt, answer)
  PROVE  Books' /\ fate' \in [Id -> Fates] /\ Packets!Next
<1>1. Accepts(pkt.id, "answered") /\ fate \in [Id -> Fates]
  BY DEF Answer, Accepts, Inv
<1>2. fate' \in [Id -> Fates] /\ Packets!Next
  BY <1>1, AcceptIs
<1>3. pkt.src \in Addr
  BY DEF Packed
<1>4. queue' \in Queue /\ Kept(Lists(queue'), fate)
  BY <1>3, AnswerKeeps DEF Inv, Books, Answer
<1>5. \A i \in Id : fate[i] = "waiting" <=> fate'[i] = "waiting"
  BY <1>1 DEF Accepts
<1>6. Kept(Lists(queue'), fate')
  BY <1>4, <1>5, KeptAlike
<1>7. QED
  BY <1>2, <1>4, <1>6 DEF Books

LEMMA DropInv ==
  ASSUME Inv, NEW pkt \in Packed, pkt.id \in Id, fate[pkt.id] = "unseen", Drop(pkt)
  PROVE  Books' /\ fate' \in [Id -> Fates] /\ Packets!Next
<1>1. Accepts(pkt.id, "dropped") /\ fate \in [Id -> Fates] /\ queue' = queue
  BY DEF Drop, Accepts, Inv
<1>2. \A i \in Id : fate[i] = "waiting" <=> fate'[i] = "waiting"
  BY <1>1 DEF Accepts
<1>3. QED
  BY <1>1, <1>2, AcceptIs, KeptAlike DEF Inv, Books

LEMMA ForwardInv ==
  ASSUME Inv, NEW pkt \in Packed, pkt.id \in Id, fate[pkt.id] = "unseen", Forward(pkt)
  PROVE  Books' /\ fate' \in [Id -> Fates] /\ Packets!Next
<1> DEFINE s == PacketSending(pkt, pkt.dst, pkt.kind = "error")
<1>1. pkt.src \in Addr /\ pkt.dst \in Addr /\ (pkt.kind = "error") \in BOOLEAN
  BY DEF Packed
<1>2. \/ s.ret \in {"no match", "expired", "sent"} /\ s.queue = queue
      \/ /\ s.ret = "waiting" /\ NextHop(pkt.dst) \in Addr
         /\ s.queue = Enqueue(queue, NextHop(pkt.dst), WithSource(pkt), pkt.kind = "error")
  BY <1>1, SendingIs DEF Inv, Books
<1>3. CASE /\ s.ret \in {"sent", "waiting"}
           /\ queue' = s.queue
           /\ fate' = [fate EXCEPT ![pkt.id] = s.ret]
  <2>1. Accepts(pkt.id, s.ret) /\ fate \in [Id -> Fates] /\ Kept(Lists(queue), fate)
    BY <1>3 DEF Accepts, Inv, Books
  <2>2. fate' \in [Id -> Fates] /\ Packets!Next
    BY <1>3, <2>1, AcceptIs
  <2>3. CASE s.ret = "sent"
    <3>1. \A i \in Id : fate[i] = "waiting" <=> fate'[i] = "waiting"
      BY <2>1, <2>3 DEF Accepts
    <3>2. queue' = queue
      BY <1>2, <1>3, <2>3
    <3>3. QED
      BY <2>1, <2>2, <3>1, <3>2, KeptAlike DEF Inv, Books
  <2>4. CASE s.ret = "waiting"
    <3>1. NextHop(pkt.dst) \in Addr
          /\ queue' = Enqueue(queue, NextHop(pkt.dst), WithSource(pkt), pkt.kind = "error")
      BY <1>2, <1>3, <2>4
    <3>2. PICK src \in Packed : src = WithSource(pkt) /\ src.id = pkt.id /\ src.dst = pkt.dst
      BY WithSourceIs
    <3>3. PICK hop \in Addr : hop = NextHop(src.dst)
      BY <3>1, <3>2
    <3>4. PICK icmp_error \in BOOLEAN : icmp_error = (pkt.kind = "error")
      BY <1>1
    <3>5. PICK r : r = Enqueue(queue, hop, src, icmp_error)
      OBVIOUS
    <3>6. /\ \A i \in Id : i # src.id => (fate'[i] = "waiting" <=> fate[i] = "waiting")
          /\ fate[src.id] # "waiting" /\ fate'[src.id] = "waiting"
      BY <2>1, <2>4, <3>2 DEF Accepts
    <3>7. PICK f, g : f = fate /\ g = fate'
      OBVIOUS
    <3>8. r \in Queue /\ Kept(Lists(r), g)
      <4>1. Kept(Lists(queue), f) /\ queue \in Queue
        BY <3>7 DEF Inv, Books
      <4>2. Joins(f, g, hop, src)
        BY <3>3, <3>6, <3>7 DEF Joins
      <4>3. QED
        BY <3>5, <4>1, <4>2, EnqueueKeeps
    <3>9. queue' = r
      BY <3>1, <3>2, <3>3, <3>4, <3>5
    <3>10. QED
      BY <2>2, <3>7, <3>8, <3>9 DEF Books
  <2>5. QED
    BY <1>3, <2>3, <2>4
<1>4. CASE IF pkt.kind = "error" THEN Drop(pkt) ELSE Answer(pkt, general_icmp_error(pkt))
  <2>1. CASE Drop(pkt)
    BY <2>1, DropInv
  <2>2. CASE Answer(pkt, general_icmp_error(pkt))
    <3>1. general_icmp_error(pkt) \in Unsent /\ general_icmp_error(pkt).id = 0
      BY <1>1, MadeIs DEF general_icmp_error
    <3>2. QED
      BY <2>2, <3>1, AnswerInv
  <2>3. QED
    BY <1>4, <2>1, <2>2
<1>5. QED
  BY <1>3, <1>4 DEF Forward

LEMMA ForMeInv ==
  ASSUME Inv, NEW pkt \in Packed, pkt.id \in Id, fate[pkt.id] = "unseen", ForMe(pkt)
  PROVE  Books' /\ fate' \in [Id -> Fates] /\ Packets!Next
<1>1. pkt.src \in Addr /\ Me \in Addr
  BY DEF Packed, Addr
<1>2. CASE Drop(pkt)
  BY <1>2, DropInv
<1>3. CASE Answer(pkt, Made(Me, pkt.src, "reply"))
  <2>1. Made(Me, pkt.src, "reply") \in Packed /\ Made(Me, pkt.src, "reply").id = 0
    BY <1>1, MadeIs
  <2>2. QED
    BY <1>3, <2>1, AnswerInv
<1>4. CASE Answer(pkt, general_icmp_error(pkt))
  <2>1. general_icmp_error(pkt) \in Unsent /\ general_icmp_error(pkt).id = 0
    BY <1>1, MadeIs DEF general_icmp_error
  <2>2. QED
    BY <1>4, <2>1, AnswerInv
<1>5. QED
  BY <1>2, <1>3, <1>4 DEF ForMe

LEMMA IPv4PacketInv ==
  ASSUME Inv, NEW i \in Id, NEW src \in Host, NEW dst \in Addr, NEW kind \in Kinds,
         NEW ttl \in {"last", "more"}, IPv4Packet(i, src, dst, kind, ttl)
  PROVE  Inv' /\ Packets!Next
<1> DEFINE pkt == [id |-> i, src |-> src, dst |-> dst, kind |-> kind, ttl |-> ttl]
<1>1. pkt \in Packed /\ pkt.id = i
  BY DEF Packed, Id, Addr
<1>2. /\ fate[i] = "unseen" /\ Loop /\ arpTable' = arpTable
      /\ ForMe(pkt) \/ Forward(pkt)
  BY DEF IPv4Packet
<1> HIDE DEF pkt
<1>3. Books' /\ fate' \in [Id -> Fates] /\ Packets!Next
  BY <1>1, <1>2, ForMeInv, ForwardInv
<1>4. arpTable' \subseteq Host
  BY <1>2 DEF Inv
<1>5. QED
  BY <1>2, <1>3, <1>4, LoopKeeps

LEMMA ArpRequestInv ==
  ASSUME Inv, NEW h \in Host, ArpRequest(h)
  PROVE  Inv' /\ fate' = fate
<1>1. Books' /\ arpTable' \subseteq Host /\ fate' \in [Id -> Fates] /\ fate' = fate /\ Loop
  BY DEF Inv, Books, ArpRequest
<1>2. QED
  BY <1>1, LoopKeeps

\* Packets that waited for one hop are settled.
LEMMA SettledIs ==
  ASSUME fate \in [Id -> Fates], NEW S, \A i \in S : i \in Id /\ fate[i] = "waiting",
         NEW end \in {"sent", "answered", "dropped"}, fate' = Settled(S, end)
  PROVE  /\ fate' \in [Id -> Fates] /\ Packets!Next
         /\ \A i \in Id : fate'[i] = "waiting" <=> fate[i] = "waiting" /\ i \notin S
<1>1. fate' = [i \in Id |-> IF i \in S THEN end ELSE fate[i]]
  BY DEF Settled
<1>2. Packets!Settle(S)
  BY <1>1 DEF Packets!Settle, Packets!Ends
<1>3. Packets!Next
  BY <1>2 DEF Packets!Next
<1>4. QED
  BY <1>1, <1>3 DEF Fates

LEMMA WaitingIds ==
  ASSUME Books, NEW h \in Addr
  PROVE  \A i \in IdsOf(Lists(queue)[h]) : i \in Id /\ fate[i] = "waiting"
<1>1. PICK l \in [Addr -> Seq(Packed)] : l = Lists(queue)
  BY ListsAre DEF Books
<1>2. \A n \in DOMAIN l[h] : l[h][n] \in Packed
  OBVIOUS
<1>3. \A n \in DOMAIN l[h] : l[h][n].id \in 0 .. MaxPackets
  BY <1>2 DEF Packed
<1>4. \A n \in DOMAIN l[h] : l[h][n].id # 0 => l[h][n].id \in Id
  BY <1>3, BoundAssumption DEF Id
<1>5. QED
  BY <1>1, <1>4 DEF IdsOf, Books, Kept

\* The entry of a hop goes, its packets settled.
LEMMA EntryGoes ==
  ASSUME Books, fate \in [Id -> Fates], NEW h \in Addr, NEW end \in {"sent", "answered", "dropped"},
         fate' = Settled(IdsOf(Lists(queue)[h]), end), queue' = Delete(queue, h)
  PROVE  Books' /\ fate' \in [Id -> Fates] /\ Packets!Next
<1> DEFINE S == IdsOf(Lists(queue)[h])
<1>1. \A i \in S : i \in Id /\ fate[i] = "waiting"
  BY WaitingIds
<1>2. /\ fate' \in [Id -> Fates] /\ Packets!Next
      /\ \A i \in Id : fate'[i] = "waiting" <=> fate[i] = "waiting" /\ i \notin S
  <2> HIDE DEF S
  <2>1. fate' = Settled(S, end)
    BY DEF S
  <2>2. QED
    BY <1>1, <2>1, SettledIs
<1>3. queue' \in Queue /\ Lists(queue') = With(Lists(queue), h, <<>>)
  BY DeleteIs DEF Books, With
<1>4. Lists(queue) \in [Addr -> Seq(Packed)]
  BY ListsAre DEF Books
<1>5. Kept(Lists(queue'), fate')
  BY <1>2, <1>3, <1>4, KeptClear DEF Books
<1>6. QED
  BY <1>2, <1>3, <1>5 DEF Books

LEMMA ArpReplyInv ==
  ASSUME Inv, NEW h \in Host, ArpReply(h)
  PROVE  Inv' /\ [Packets!Next]_fate
<1>1. h \in Addr /\ arpTable' \subseteq Host /\ Loop /\ queue' = Delete(queue, h)
  BY DEF ArpReply, Inv, Addr
<1>2. CASE Waits(queue, h)
  <2>1. fate' = Settled(Ids(queue[EntryOf(queue, h)]), "sent")
    BY <1>2 DEF ArpReply
  <2>2. Ids(queue[EntryOf(queue, h)]) = IdsOf(Lists(queue)[h])
    BY <1>1, <1>2 DEF Ids, IdsOf, Lists
  <2>3. Books' /\ fate' \in [Id -> Fates] /\ Packets!Next
    BY <1>1, <2>1, <2>2, EntryGoes DEF Inv
  <2>4. QED
    BY <1>1, <2>3, LoopKeeps
<1>3. CASE ~Waits(queue, h)
  <2>1. fate' = fate /\ queue' = queue
    BY <1>1, <1>3 DEF ArpReply, Delete
  <2>2. Books' /\ fate' \in [Id -> Fates]
    BY <2>1 DEF Inv, Books
  <2>3. QED
    BY <1>1, <2>1, <2>2, LoopKeeps
<1>4. QED
  BY <1>2, <1>3

LEMMA NoPacketsInv ==
  ASSUME Inv, NEW n \in 0 .. Len(queue), NoPackets(n)
  PROVE  Inv' /\ fate' = fate
<1>1. /\ queue' = [i \in DOMAIN queue |-> [queue[i] EXCEPT !.due = @ \/ i <= n]]
      /\ n \in Nat /\ fate' = fate /\ arpTable' = arpTable /\ Loop /\ queue \in Queue
  BY DEF NoPackets, Inv, Books
<1>2. queue' \in Queue /\ Lists(queue') = Lists(queue)
  BY <1>1, DueIs
<1>3. Books' /\ arpTable' \subseteq Host /\ fate' \in [Id -> Fates]
  BY <1>1, <1>2 DEF Inv, Books
<1>4. QED
  BY <1>1, <1>3, LoopKeeps

-----------------------------------------------------------------------------
(* The walk over the wait queue. *)

LEMMA RouteTail ==
  ASSUME NEW hops \in Seq(Addr), hops # <<>>, NEW q, Route(hops, q), NEW r,
         \A h : Waits(q, h) /\ h # Head(hops) => Waits(r, h)
  PROVE  Tail(hops) \in Seq(Addr) /\ Route(Tail(hops), r)
<1>1. PICK n \in Nat : n = Len(hops)
  OBVIOUS
<1>2. /\ DOMAIN hops = 1 .. n /\ n > 0 /\ Head(hops) = hops[1]
      /\ Tail(hops) \in Seq(Addr) /\ DOMAIN Tail(hops) = 1 .. n - 1
      /\ \A i \in 1 .. n - 1 : Tail(hops)[i] = hops[i + 1]
  BY <1>1
<1>3. \A i \in 1 .. n - 1 : i + 1 \in DOMAIN hops /\ i + 1 # 1
  BY <1>2
<1>4. 1 \in DOMAIN hops
  BY <1>2
<1>5. \A i \in 1 .. n - 1 : Waits(r, Tail(hops)[i])
  BY <1>2, <1>3, <1>4 DEF Route
<1>6. \A i, j \in 1 .. n - 1 : Tail(hops)[i] = Tail(hops)[j] => i = j
  <2>1. SUFFICES ASSUME NEW i \in 1 .. n - 1, NEW j \in 1 .. n - 1, Tail(hops)[i] = Tail(hops)[j]
                 PROVE  i = j
    OBVIOUS
  <2>2. i + 1 = j + 1
    BY <1>2, <1>3, <2>1 DEF Route
  <2>3. QED
    BY <2>2
<1>7. QED
  BY <1>2, <1>5, <1>6 DEF Route

\* The step goes on to the next hop, having taken at most the visited one out of the queue.
LEMMA NextHopOfWalk ==
  ASSUME Inv, at # "receive", todo # <<>>, todo' = Tail(todo),
         \A h : Waits(queue, h) /\ h # Head(todo) => Waits(queue', h)
  PROVE  todo' \in Seq(Addr) /\ Route(todo', queue')
<1>1. PICK r : r = queue'
  OBVIOUS
<1>2. todo \in Seq(Addr) /\ Route(todo, queue)
  BY DEF Inv
<1>3. Tail(todo) \in Seq(Addr) /\ Route(Tail(todo), r)
  BY <1>1, <1>2, RouteTail
<1>4. QED
  BY <1>1, <1>3

LEMMA VisitedIs ==
  ASSUME Inv, at # "receive", todo # <<>>
  PROVE  /\ Head(todo) \in Addr /\ Visited \in WaitEntry /\ Visited.ip = Head(todo)
         /\ EntryOf(queue, Head(todo)) \in DOMAIN queue
         /\ Lists(queue)[Head(todo)] = Visited.pktlist
<1>1. todo \in Seq(Addr) /\ queue \in Queue /\ Route(todo, queue)
  BY DEF Inv, Books
<1>2. 1 \in DOMAIN todo /\ Head(todo) = todo[1] /\ Head(todo) \in Addr
  BY <1>1
<1>3. Waits(queue, Head(todo))
  BY <1>1, <1>2 DEF Route
<1>4. EntryOf(queue, Head(todo)) \in DOMAIN queue /\ Visited.ip = Head(todo)
  BY <1>1, <1>3, EntryIs DEF Visited
<1>5. Visited \in WaitEntry
  BY <1>1, <1>4 DEF Visited, Queue
<1>6. QED
  BY <1>2, <1>3, <1>4, <1>5 DEF Lists, Visited

LEMMA NotDueInv ==
  ASSUME Inv, NotDue
  PROVE  Inv' /\ fate' = fate
<1>1. at = "walk" /\ todo # <<>> /\ UNCHANGED <<arpTable, queue, at, held, fate>>
      /\ todo' = Tail(todo)
  BY DEF NotDue
<1>2. todo' \in Seq(Addr) /\ Route(todo', queue')
  BY <1>1, NextHopOfWalk
<1>3. QED
  BY <1>1, <1>2 DEF Inv, Books

LEMMA AskInv ==
  ASSUME Inv, Ask
  PROVE  Inv' /\ fate' = fate
<1>1. /\ at = "walk" /\ todo # <<>> /\ UNCHANGED <<arpTable, at, held, fate>>
      /\ todo' = Tail(todo) /\ Visited.cnt < Requests
      /\ queue' = Append(Delete(queue, Head(todo)), Asked(Visited))
  BY DEF Ask
<1>2. PICK e \in DOMAIN queue : e = EntryOf(queue, Head(todo))
  BY <1>1, VisitedIs
<1>3. Visited = queue[e] /\ queue[e].ip = Head(todo)
  BY <1>1, <1>2, VisitedIs DEF Visited
<1>4. queue' = Append(Delete(queue, queue[e].ip), Asked(queue[e]))
  BY <1>1, <1>3
<1>5. /\ queue' \in Queue /\ Lists(queue') = Lists(queue)
      /\ \A h : Waits(queue', h) <=> Waits(queue, h)
  BY <1>1, <1>3, <1>4, AskIs DEF Inv, Books
<1>6. todo' \in Seq(Addr) /\ Route(todo', queue')
  BY <1>1, <1>5, NextHopOfWalk
<1>7. QED
  BY <1>1, <1>5, <1>6 DEF Inv, Books

LEMMA GiveUpInv ==
  ASSUME Inv, GiveUp
  PROVE  Inv' /\ [Packets!Next]_fate
<1>1. at = "walk" /\ todo # <<>> /\ UNCHANGED <<arpTable, held>>
  BY DEF GiveUp
<1>2. CASE Visited.icmp_error
  <2>1. /\ fate' = Settled(Ids(Visited), "dropped")
        /\ queue' = Delete(queue, Head(todo)) /\ todo' = Tail(todo) /\ at' = at
    BY <1>2 DEF GiveUp
  <2>2. Head(todo) \in Addr /\ Ids(Visited) = IdsOf(Lists(queue)[Head(todo)])
    BY <1>1, VisitedIs DEF Ids, IdsOf
  <2>3. Books' /\ fate' \in [Id -> Fates] /\ Packets!Next
    BY <2>1, <2>2, EntryGoes DEF Inv
  <2>4. \A h : Waits(queue', h) <=> Waits(queue, h) /\ h # Head(todo)
    BY <2>1, <2>2, DeleteIs DEF Inv, Books
  <2>5. todo' \in Seq(Addr) /\ Route(todo', queue')
    BY <1>1, <2>1, <2>4, NextHopOfWalk
  <2>6. QED
    BY <1>1, <2>1, <2>3, <2>5 DEF Inv
<1>3. CASE ~Visited.icmp_error
  <2>1. at' = "failing" /\ UNCHANGED <<queue, todo, fate>>
    BY <1>3 DEF GiveUp
  <2>2. QED
    BY <1>1, <2>1 DEF Inv, Books
<1>4. QED
  BY <1>2, <1>3

LEMMA MakeErrorInv ==
  ASSUME Inv, MakeError
  PROVE  Inv' /\ [Packets!Next]_fate
<1> DEFINE pkt == Head(Visited.pktlist)
           S == {pkt.id} \ {0}
<1>1. /\ at = "failing" /\ Visited.pktlist # <<>> /\ UNCHANGED <<arpTable, at, todo>>
      /\ held' = general_icmp_error(pkt) /\ fate' = Settled(S, "answered")
      /\ queue' = [queue EXCEPT ![EntryOf(queue, Head(todo))].pktlist = Tail(@)]
  BY DEF MakeError
<1>2. todo # <<>> /\ queue \in Queue /\ fate \in [Id -> Fates] /\ Kept(Lists(queue), fate)
  BY <1>1 DEF Inv, Books
<1>3. PICK e \in DOMAIN queue : e = EntryOf(queue, Head(todo))
  BY <1>1, <1>2, VisitedIs
<1>4. PICK hop \in Addr : hop = Head(todo)
  BY <1>1, <1>2, VisitedIs
<1>5. PICK l \in [Addr -> Seq(Packed)] : l = Lists(queue)
  BY <1>2, ListsAre
<1>6. Visited = queue[e] /\ queue[e].ip = hop /\ l[hop] = Visited.pktlist
  BY <1>1, <1>2, <1>3, <1>4, <1>5, VisitedIs DEF Visited
<1>7. pkt \in Packed /\ l[hop] # <<>> /\ pkt = Head(l[hop]) /\ pkt = l[hop][1] /\ 1 \in DOMAIN l[hop]
  BY <1>1, <1>6
<1>8. /\ queue' \in Queue /\ Lists(queue') = With(l, hop, Tail(l[hop]))
      /\ \A h : Waits(queue', h) <=> Waits(queue, h)
  <2>1. queue' = [queue EXCEPT ![e].pktlist = Tail(@)] /\ queue[e].pktlist # <<>>
    BY <1>1, <1>3, <1>6
  <2>2. /\ queue' \in Queue
        /\ Lists(queue') = [Lists(queue) EXCEPT ![queue[e].ip] = Tail(queue[e].pktlist)]
        /\ \A h : Waits(queue', h) <=> Waits(queue, h)
    BY <1>2, <2>1, TakeIs
  <2>3. QED
    BY <1>5, <1>6, <2>2 DEF With
<1>9. \A i \in S : i \in Id /\ fate[i] = "waiting"
  <2>1. pkt.id \in 0 .. MaxPackets /\ (pkt.id # 0 => pkt.id \in Id)
    BY <1>7, BoundAssumption DEF Packed, Id
  <2>2. pkt.id \in Id => fate[pkt.id] = "waiting"
    BY <1>2, <1>5, <1>7 DEF Kept
  <2>3. QED
    BY <2>1, <2>2
<1>10. /\ fate' \in [Id -> Fates] /\ Packets!Next
       /\ \A i \in Id : fate'[i] = "waiting" <=> fate[i] = "waiting" /\ i \notin S
  <2> HIDE DEF S
  <2>1. fate' = Settled(S, "answered")
    BY <1>1 DEF S
  <2>2. QED
    BY <1>2, <1>9, <2>1, SettledIs
<1>11. \A i \in Id : fate'[i] = "waiting" <=> fate[i] = "waiting" /\ i # Head(l[hop]).id
  BY <1>7, <1>10 DEF Id
<1>12. Kept(With(l, hop, Tail(l[hop])), fate')
  <2>1. PICK f, g : f = fate /\ g = fate'
    OBVIOUS
  <2>2. FirstLeaves(l[hop], f, g)
    BY <1>11, <2>1 DEF FirstLeaves
  <2>3. Kept(l, f) /\ l[hop] # <<>>
    BY <1>2, <1>5, <1>7, <2>1
  <2> HIDE DEF pkt, S
  <2>4. Kept(With(l, hop, Tail(l[hop])), g)
    BY <2>2, <2>3, KeptTail
  <2>5. QED
    BY <2>1, <2>4
<1>13. held' \in Unsent
  <2>1. pkt.src \in Addr
    BY <1>7 DEF Packed
  <2>2. QED
    BY <1>1, <2>1, MadeIs DEF general_icmp_error
<1>14. Books'
  BY <1>8, <1>12 DEF Books
<1>15. Route(todo', queue')
  BY <1>1, <1>8 DEF Inv, Route
<1> HIDE DEF pkt, S
<1>16. QED
  BY <1>1, <1>10, <1>13, <1>14, <1>15 DEF Inv

LEMMA SendErrorInv ==
  ASSUME Inv, SendError
  PROVE  Inv' /\ fate' = fate
<1>1. /\ at = "failing" /\ held \in Unsent /\ UNCHANGED <<arpTable, at, todo, fate>>
      /\ queue' = PacketSending(held, held.dst, FALSE).queue /\ held' = None
      /\ queue \in Queue /\ Kept(Lists(queue), fate)
  BY DEF SendError, Inv, Books
<1>2. PICK pkt \in Unsent : pkt = held
  BY <1>1
<1>3. pkt.id = 0 /\ pkt.dst \in Addr
  BY DEF Unsent
<1>4. /\ queue' \in Queue /\ Kept(Lists(queue'), fate)
      /\ \A h : Waits(queue, h) => Waits(queue', h)
  BY <1>1, <1>2, <1>3, AnswerKeeps
<1>5. Route(todo', queue')
  BY <1>1, <1>4 DEF Inv, Route
<1>6. QED
  BY <1>1, <1>4, <1>5 DEF Inv, Books

LEMMA EndFailingInv ==
  ASSUME Inv, EndFailing
  PROVE  Inv' /\ fate' = fate
<1>1. /\ at = "failing" /\ todo # <<>> /\ Visited.pktlist = <<>>
      /\ UNCHANGED <<arpTable, held, fate>>
      /\ queue' = Delete(queue, Head(todo)) /\ todo' = Tail(todo) /\ at' = "walk"
      /\ queue \in Queue /\ Kept(Lists(queue), fate)
  BY DEF EndFailing, Inv, Books
<1>2. Head(todo) \in Addr /\ Lists(queue)[Head(todo)] = <<>>
  BY <1>1, VisitedIs
<1>3. /\ queue' \in Queue /\ Lists(queue') = [Lists(queue) EXCEPT ![Head(todo)] = <<>>]
      /\ \A h : Waits(queue', h) <=> Waits(queue, h) /\ h # Head(todo)
  BY <1>1, <1>2, DeleteIs
<1>4. Lists(queue') = Lists(queue)
  BY <1>1, <1>2, <1>3, ListsAre
<1>5. todo' \in Seq(Addr) /\ Route(todo', queue')
  BY <1>1, <1>3, NextHopOfWalk
<1>6. QED
  BY <1>1, <1>3, <1>4, <1>5 DEF Inv, Books

LEMMA EndWalkInv ==
  ASSUME Inv, EndWalk
  PROVE  Inv' /\ fate' = fate
BY DEF Inv, Books, EndWalk

LEMMA StutterInv ==
  ASSUME Inv, UNCHANGED vars
  PROVE  Inv' /\ fate' = fate
BY DEF Inv, Books, vars

LEMMA NextInv ==
  ASSUME Inv, [Next]_vars
  PROVE  Inv' /\ [Packets!Next]_fate
<1>1. ASSUME NEW i \in Id, NEW src \in Host, NEW dst \in Addr, NEW kind \in Kinds,
             NEW ttl \in {"last", "more"}, IPv4Packet(i, src, dst, kind, ttl)
      PROVE  Inv' /\ Packets!Next
  BY <1>1, IPv4PacketInv
<1>2. ASSUME NEW h \in Host, ArpRequest(h) \/ ArpReply(h)
      PROVE  Inv' /\ [Packets!Next]_fate
  BY <1>2, ArpRequestInv, ArpReplyInv
<1>3. ASSUME NEW n \in 0 .. Len(queue), NoPackets(n)
      PROVE  Inv' /\ fate' = fate
  BY <1>3, NoPacketsInv
<1>4. CASE Handle_wait_queue
  BY <1>4, NotDueInv, AskInv, GiveUpInv, MakeErrorInv, SendErrorInv, EndFailingInv, EndWalkInv
     DEF Handle_wait_queue
<1>5. CASE UNCHANGED vars
  BY <1>5, StutterInv
<1>6. QED
  BY <1>1, <1>2, <1>3, <1>4, <1>5 DEF Next

\* Every reachable state satisfies the inductive invariant.
THEOREM Invariant == Spec => []Inv
<1>1. Inv /\ [Next]_vars => Inv'
  BY NextInv
<1>2. QED
  BY <1>1, InitInv, PTL DEF Spec

-----------------------------------------------------------------------------
(* What follows from it. *)

LEMMA InvTypes ==
  ASSUME Inv
  PROVE  TypeOK
<1>1. \A x \in Packed \cup Unsent : x \in Packet
  BY BoundAssumption DEF Packed, Unsent, Packet
<1>2. \A i \in DOMAIN queue : queue[i] \in WaitEntry
  BY DEF Inv, Books, Queue
<1>3. \A i \in DOMAIN queue :
        /\ queue[i].ip \in Addr /\ queue[i].cnt \in 0 .. Requests
        /\ queue[i].due \in BOOLEAN /\ queue[i].icmp_error \in BOOLEAN
        /\ queue[i].pktlist \in Seq(Packed)
  BY <1>2 DEF WaitEntry
<1>4. \A i \in DOMAIN queue : \A j \in DOMAIN queue[i].pktlist : queue[i].pktlist[j] \in Packet
  BY <1>1, <1>3
<1>5. \A i \in DOMAIN todo : todo[i] \in Addr
  BY DEF Inv
<1>6. held \in Packet \cup {None}
  BY <1>1 DEF Inv
<1>7. QED
  BY <1>3, <1>4, <1>5, <1>6 DEF Inv, TypeOK, Fates

\* Every variable has its type: in particular no hop is asked for more than Requests times
\* (myrouter.py, handle_wait_queue).
THEOREM TypeCorrect == Spec => []TypeOK
BY Invariant, InvTypes, PTL

LEMMA InPlace ==
  ASSUME NEW i
  PROVE  \A place : place \in Places(i) <=>
           \E e \in DOMAIN queue : \E n \in DOMAIN queue[e].pktlist :
             queue[e].pktlist[n].id = i /\ place = <<e, n>>
BY DEF Places

LEMMA InvCustody ==
  ASSUME Inv
  PROVE  Custody
<1>1. PICK l \in [Addr -> Seq(Packed)] : l = Lists(queue)
  BY ListsAre DEF Inv, Books
<1>2. /\ \A e \in DOMAIN queue : queue[e].ip \in Addr /\ l[queue[e].ip] = queue[e].pktlist
      /\ \A h \in Addr : ~Waits(queue, h) => l[h] = <<>>
  BY <1>1, ListsAre DEF Inv, Books
<1>3. Kept(l, fate)
  BY <1>1 DEF Inv, Books
<1>4. \A i, j \in DOMAIN queue : queue[i].ip = queue[j].ip => i = j
  BY DEF Inv, Books, Queue
<1>5. ASSUME NEW i \in Id, NEW place \in Places(i)
      PROVE  /\ fate[i] = "waiting"
             /\ NextHop(queue[place[1]].pktlist[place[2]].dst) = queue[place[1]].ip
  <2>1. PICK e \in DOMAIN queue : \E n \in DOMAIN queue[e].pktlist :
               queue[e].pktlist[n].id = i /\ place = <<e, n>>
    BY <1>5, InPlace
  <2>2. PICK n \in DOMAIN queue[e].pktlist : queue[e].pktlist[n].id = i /\ place = <<e, n>>
    BY <2>1
  <2>3. place[1] = e /\ place[2] = n
    BY <2>2
  <2>4. n \in DOMAIN l[queue[e].ip] /\ l[queue[e].ip][n] = queue[e].pktlist[n]
    BY <1>2, <2>2
  <2>5. QED
    BY <1>2, <1>3, <2>2, <2>3, <2>4 DEF Kept
<1>6. ASSUME NEW i \in Id, fate[i] = "waiting"
      PROVE  Places(i) # {}
  <2>1. PICK h \in Addr : \E n \in DOMAIN l[h] : l[h][n].id = i
    BY <1>3, <1>6 DEF Kept
  <2>2. PICK n \in DOMAIN l[h] : l[h][n].id = i
    BY <2>1
  <2>3. PICK e \in DOMAIN queue : queue[e].ip = h
    BY <1>2, <2>2 DEF Waits
  <2>4. <<e, n>> \in Places(i)
    BY <1>2, <2>2, <2>3, InPlace
  <2>5. QED
    BY <2>4
<1>7. ASSUME NEW i \in Id, NEW p \in Places(i), NEW q \in Places(i)
      PROVE  p = q
  <2>1. PICK d \in DOMAIN queue : \E m \in DOMAIN queue[d].pktlist :
               queue[d].pktlist[m].id = i /\ p = <<d, m>>
    BY <1>7, InPlace
  <2>2. PICK m \in DOMAIN queue[d].pktlist : queue[d].pktlist[m].id = i /\ p = <<d, m>>
    BY <2>1
  <2>3. PICK e \in DOMAIN queue : \E n \in DOMAIN queue[e].pktlist :
               queue[e].pktlist[n].id = i /\ q = <<e, n>>
    BY <1>7, InPlace
  <2>4. PICK n \in DOMAIN queue[e].pktlist : queue[e].pktlist[n].id = i /\ q = <<e, n>>
    BY <2>3
  <2>5. queue[d].ip = queue[e].ip /\ m = n
    <3>1. /\ m \in DOMAIN l[queue[d].ip] /\ l[queue[d].ip][m].id = i /\ queue[d].ip \in Addr
          /\ n \in DOMAIN l[queue[e].ip] /\ l[queue[e].ip][n].id = i /\ queue[e].ip \in Addr
      BY <1>2, <2>2, <2>4
    <3>2. QED
      BY <1>3, <3>1 DEF Kept
  <2>6. QED
    BY <1>4, <2>2, <2>4, <2>5
<1>8. \A i \in Id : Places(i) # {} <=> fate[i] = "waiting"
  BY <1>5, <1>6
<1>9. QED
  BY <1>4, <1>5, <1>7, <1>8 DEF Custody

\* A packet that waits is in one place of the wait queue, under its next hop, and no other packet
\* is in it: none is lost, sent twice, or both sent and answered (myrouter.py, packetSending,
\* arpHandle and handle_wait_queue).
THEOREM CustodyKept == Spec => []Custody
BY Invariant, InvCustody, PTL

\* The router implements Forwarder: each packet is accepted once and settled once, those that
\* wait for one hop together.
THEOREM Implements == Spec => PacketsSpec
<1>1. Init => Packets!Init
  BY DEF Init, Packets!Init
<1>2. Inv /\ [Next]_vars => [Packets!Next]_fate
  BY NextInv
<1>3. QED
  BY <1>1, <1>2, Invariant, PTL DEF Spec, PacketsSpec, Packets!Spec
=============================================================================
