------------------------------ MODULE Forwarder ------------------------------
(***************************************************************************)
(* What a router promises of each packet it accepts: that it is sent on    *)
(* once, or answered once, or given up, perhaps after it has waited.       *)
(***************************************************************************)
CONSTANTS Id

VARIABLE fate

Ends == {"sent", "answered", "dropped"}

Init == fate = [i \in Id |-> "unseen"]

Accept(i) ==
  /\ fate[i] = "unseen"
  /\ \E end \in Ends \cup {"waiting"} : fate' = [fate EXCEPT ![i] = end]

\* The packets that waited for the same answer are treated alike.
Settle(S) ==
  /\ \A i \in S : fate[i] = "waiting"
  /\ \E end \in Ends : fate' = [i \in Id |-> IF i \in S THEN end ELSE fate[i]]

Next == (\E i \in Id : Accept(i)) \/ (\E S \in SUBSET Id : Settle(S))

Spec == Init /\ [][Next]_fate
=============================================================================
