----------------------------- MODULE MCSettlement -----------------------------
(***************************************************************************)
(* Instances of Settlement for TLC: two invoices of one distributor with    *)
(* the same total (so that an order made for one matches the amount of the  *)
(* other), a balance that covers one of them, and a top-up that covers the  *)
(* other.                                                                    *)
(***************************************************************************)
EXTENDS Settlement, TLC

CONSTANTS d1, i1, i2, s1, s2, t1, t2

MCDistributors == {d1}
MCTotal == 10
MCTotals == [i \in Invoices |-> MCTotal]
MCOwners == [i \in Invoices |-> d1]
MCOpening == [d \in Distributors |-> MCTotal]
MCTopUps == {MCTotal}
MCSymmetry == Permutations(Sessions) \cup Permutations(Invoices)
===============================================================================
