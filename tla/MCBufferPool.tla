----------------------------- MODULE MCBufferPool -----------------------------
(***************************************************************************)
(* BufferPool for TLC, with the properties that need more than its own     *)
(* variables.                                                              *)
(***************************************************************************)
EXTENDS BufferPool, TLC

CONSTANTS c1, c2, zero, one

\* Two files: A with one page and B with two, so that a pool of two frames is short.
MCPage   == {<<"A", 1>>, <<"B", 1>>, <<"B", 2>>}
MCClient == {c1, c2}
MCValue  == {zero, one}
Threads  == Permutations(MCClient)

-----------------------------------------------------------------------------
(* A history of the fetches, to state what "least recently used" means. *)

VARIABLE older  \* the pairs of cached pages, the first of them fetched before the second

Fetched == {p \in Page : \E c \in Client : pin[c] = NoPin /\ pin'[c].page = p}

MCInit == Init /\ older = {}

MCNext ==
  /\ Next
  /\ older' = {pq \in (Cached' \ Fetched) \X Cached' : pq \in older \/ pq[2] \in Fetched}

MCSpec == MCInit /\ [][MCNext]_<<vars, older>>

\* A page evicted to make room for another is the one fetched longest ago of those
\* nobody holds.
EvictsLeastRecent ==
  [][Fetched # {} =>
       \A pq \in older : lookup'[pq[2]] = None => InUse(lookup[pq[1]])]_<<vars, older>>

=============================================================================
