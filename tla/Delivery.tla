------------------------------- MODULE Delivery -------------------------------
(***************************************************************************)
(* What the sliding-window protocol of networks lab-6 promises: packets    *)
(* 1 .. num reach the receiver, and the sender takes as delivered only a   *)
(* prefix of them that has reached it.                                     *)
(***************************************************************************)
EXTENDS Integers

CONSTANT num

VARIABLES
  delivered,  \* the packets the receiver has got
  confirmed   \* how many the sender takes as delivered

Init == delivered = {} /\ confirmed = 0

Deliver ==
  /\ \E n \in 1 .. num : delivered' = delivered \cup {n}
  /\ UNCHANGED confirmed

Confirm ==
  /\ \E n \in confirmed + 1 .. num : 1 .. n \subseteq delivered /\ confirmed' = n
  /\ UNCHANGED delivered

Next == Deliver \/ Confirm

Spec == Init /\ [][Next]_<<delivered, confirmed>>
=============================================================================
