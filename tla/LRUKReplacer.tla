----------------------------- MODULE LRUKReplacer -----------------------------
(***************************************************************************)
(* The LRU-K replacement policy of the buffer pool,                        *)
(* wsdb/storage/buffer/replacer/lru_k_replacer.{h,cpp}.                    *)
(*                                                                         *)
(*   node : node_store_, one LRUKNode per frame.  known is membership of   *)
(*          the map, k the node's own copy of K, history its time stamps,  *)
(*          oldest first                                                   *)
(*   ts   : cur_ts_        size : cur_size_                                *)
(***************************************************************************)
EXTENDS Integers, Sequences

CONSTANTS Frame, K

\* LRUKNode's default constructor, what node_store_[i] inserts for an absent i.
DefaultNode == [known |-> TRUE, k |-> 0, history |-> <<>>, evictable |-> FALSE]

Fresh ==
  [node |-> [f \in Frame |-> [DefaultNode EXCEPT !.known = FALSE]], ts |-> 0, size |-> 0]

EvictableFrames(r) == {f \in Frame : r.node[f].evictable}

\* AddHistory: the node keeps its last k time stamps.
AddHistory(n, ts) ==
  LET h == Append(n.history, ts)
  IN [n EXCEPT !.history = IF Len(h) > n.k THEN Tail(h) ELSE h]

\* A frame seen for the first time decrements cur_size_ although it was never
\* counted as evictable.
Pin(r, f) ==
  LET old  == r.node[f]
      base == IF old.known THEN old ELSE [DefaultNode EXCEPT !.k = K]
      out  == old.evictable \/ ~old.known
  IN [node |-> [r.node EXCEPT ![f] = [AddHistory(base, r.ts) EXCEPT !.evictable = FALSE]],
      ts   |-> r.ts + 1,
      size |-> IF out /\ r.size > 0 THEN r.size - 1 ELSE r.size]

UnpinThrows(r, f) == ~r.node[f].known

Unpin(r, f) ==
  [node |-> [r.node EXCEPT ![f].evictable = TRUE],
   ts   |-> r.ts,
   size |-> IF r.node[f].evictable THEN r.size ELSE r.size + 1]

\* GetBackwardKDistance is +infinity for a node with fewer than k accesses.
Infinite(n) == Len(n.history) < n.k

\* front() of an empty history is undefined behaviour: any value may come out, and
\* with it any frame of those compared.
Undefined(r, S) == \E f \in S : r.node[f].history = <<>>

Oldest(r, S) ==
  {f \in S : \A g \in S : Head(r.node[f].history) <= Head(r.node[g].history)}

\* The frames Victim may return, empty when it returns false.  The distance to the
\* k-th last access is the greatest where the oldest kept time stamp is the least;
\* the frames with fewer than k accesses come before all others.  With nothing
\* evictable but cur_size_ > 0, *frame_id is returned as the caller left it.
Victims(r) ==
  LET E == EvictableFrames(r)
      I == {f \in E : Infinite(r.node[f])}
      S == IF I # {} THEN I ELSE E
  IN IF r.size <= 0 THEN {}
     ELSE IF E = {} THEN Frame
     ELSE IF Undefined(r, S) THEN S
     ELSE Oldest(r, S)

\* Victim's loop reads node_store_[i] for every i < max_size_, which inserts a default
\* node for each frame that has none.
Evict(r, f) ==
  [node |-> [g \in Frame |->
               IF g = f
               THEN [known |-> TRUE, k |-> r.node[f].k, history |-> <<>>, evictable |-> FALSE]
               ELSE IF r.node[g].known THEN r.node[g] ELSE DefaultNode],
   ts   |-> r.ts,
   size |-> IF r.size > 0 THEN r.size - 1 ELSE r.size]
=============================================================================
