------------------------------ MODULE MCLifecycle ------------------------------
EXTENDS Lifecycle, TLC

CONSTANTS o1, u1, u2, h1, s1, s2

MCOrderOf == [u \in {u1, u2} |-> o1]
MCOrderOf1 == [u \in {u1} |-> o1]
MCSymmetry == Permutations({u1, u2})
===============================================================================
