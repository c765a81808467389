------------------------------- MODULE PageStore -------------------------------
(***************************************************************************)
(* What wsdb's buffer pool promises its clients: a store of pages in which *)
(* a client acquires a page, sees its contents through the memory it was   *)
(* given, changes them, and lets it go.  Nothing else changes a page or    *)
(* what a client sees of it: not fetching another page, evicting, flushing *)
(* or deleting from the pool, and not a failed read or write.              *)
(***************************************************************************)
CONSTANTS Page, Client, Value, Zero, None

VARIABLES
  store,   \* the contents of each page
  holder,  \* the page each client has acquired, or None
  view     \* what each client sees through the memory it was given, or None

Seen(s, h) == [c \in Client |-> IF h[c] = None THEN None ELSE s[h[c]]]

Init ==
  /\ store = [p \in Page |-> Zero]
  /\ holder = [c \in Client |-> None]
  /\ view = Seen(store, holder)

Acquire(c, p) ==
  /\ holder[c] = None
  /\ holder' = [holder EXCEPT ![c] = p]
  /\ UNCHANGED store

Change(c, v) ==
  /\ holder[c] # None
  /\ store' = [store EXCEPT ![holder[c]] = v]
  /\ UNCHANGED holder

Release(c) ==
  /\ holder[c] # None
  /\ holder' = [holder EXCEPT ![c] = None]
  /\ UNCHANGED store

Next ==
  /\ \E c \in Client :
       \/ \E p \in Page : Acquire(c, p)
       \/ \E v \in Value : Change(c, v)
       \/ Release(c)
  /\ view' = Seen(store', holder')

Spec == Init /\ [][Next]_<<store, holder, view>>
=============================================================================
