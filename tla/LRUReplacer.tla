----------------------------- MODULE LRUReplacer -----------------------------
(***************************************************************************)
(* The LRU replacement policy of the buffer pool,                          *)
(* wsdb/storage/buffer/replacer/lru_replacer.{h,cpp}.                      *)
(*                                                                         *)
(* A replacer is a value, changed by the operators below, so that the pool *)
(* can keep it in a variable and call it under its own latch.              *)
(*   list      : lru_list_ front first, the most recently pinned frame     *)
(*   hash      : the keys of lru_hash_                                     *)
(*   evictable : the frames whose flag in lru_list_ is true                *)
(*   size      : cur_size_                                                 *)
(***************************************************************************)
EXTENDS Integers, Sequences

CONSTANT Frame

Fresh == [list |-> <<>>, hash |-> {}, evictable |-> {}, size |-> 0]

\* What lru_list_ keeps of s once the node of f, if it has one, is unlinked from it
\* (splice, erase).
Unlink(s, f) ==
  LET Nodes == {i \in DOMAIN s : s[i] = f}
      at    == CHOOSE i \in Nodes : TRUE
  IN IF Nodes = {} THEN s ELSE SubSeq(s, 1, at - 1) \o SubSeq(s, at + 1, Len(s))

\* Mutant of Pin: a frame already in the list keeps its place.
PinKeepsPlace(r, f) ==
  [list      |-> IF f \in r.hash THEN r.list ELSE <<f>> \o r.list,
   hash      |-> r.hash \cup {f},
   evictable |-> r.evictable \ {f},
   size      |-> IF f \in r.evictable /\ r.size > 0 THEN r.size - 1 ELSE r.size]

\* Mutant of Pin: the frame stays evictable.
PinStaysEvictable(r, f) ==
  [r EXCEPT !.list = <<f>> \o Unlink(r.list, f), !.hash = @ \cup {f}]

\* Pin moves the frame to the front and withdraws it from eviction; a frame the
\* replacer does not know is added.  Only a frame that was evictable is counted out.
Pin(r, f) ==
  [list      |-> <<f>> \o Unlink(r.list, f),
   hash      |-> r.hash \cup {f},
   evictable |-> r.evictable \ {f},
   size      |-> IF f \in r.evictable /\ r.size > 0 THEN r.size - 1 ELSE r.size]

\* Unpin of a frame that is not in lru_hash_ throws WSDB_UNEXPECTED_NULL.
UnpinThrows(r, f) == f \notin r.hash

\* Mutant of Unpin: cur_size_ is not incremented.
UnpinUncounted(r, f) == [r EXCEPT !.evictable = @ \cup {f}]

Unpin(r, f) ==
  [list      |-> r.list,
   hash      |-> r.hash,
   evictable |-> r.evictable \cup {f},
   size      |-> IF f \in r.evictable THEN r.size ELSE r.size + 1]

\* The evictable frames nobody behind them in the list is evictable: the first one
\* the reverse iteration meets.
LastEvictable(r) ==
  {r.list[i] : i \in {j \in DOMAIN r.list :
     r.list[j] \in r.evictable
     /\ \A k \in DOMAIN r.list : k > j => r.list[k] \notin r.evictable}}

\* The frames Victim may return; the empty set when it returns false.
Victims(r) == IF r.size <= 0 THEN {} ELSE LastEvictable(r)

\* What Victim leaves once it has chosen f.
Evict(r, f) ==
  [list      |-> Unlink(r.list, f),
   hash      |-> r.hash \ {f},
   evictable |-> r.evictable \ {f},
   size      |-> IF r.size > 0 THEN r.size - 1 ELSE r.size]
=============================================================================
