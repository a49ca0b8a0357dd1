------------------------------- MODULE MCBilling -------------------------------
EXTENDS Billing, TLC

CONSTANTS u1, u2, d1, manual, i1, i2

MCOwnerOf == [u \in {u1, u2} |-> d1]
MCOwnerOf1 == [u \in {u1} |-> d1]
MCSymmetry == Permutations({u1, u2}) \cup Permutations({i1, i2})
===============================================================================
