--------------------------------- MODULE Mirror ---------------------------------
(***************************************************************************)
(* What a synchronisation promises: the copy of each remote entity only ever *)
(* moves forward, to a version the remote system has had.                    *)
(***************************************************************************)
EXTENDS Naturals

CONSTANTS Items, MaxVersion

VARIABLES remote, shown   \* the version there, and the newest one here; 0: none

vars == <<remote, shown>>

Init ==
    /\ remote \in [Items -> 0..MaxVersion]
    /\ shown = [i \in Items |-> 0]

Change(i) ==
    /\ remote[i] < MaxVersion
    /\ remote' = [remote EXCEPT ![i] = @ + 1]
    /\ UNCHANGED shown

Copy(i) ==
    /\ \E v \in (shown[i] + 1)..remote[i] : shown' = [shown EXCEPT ![i] = v]
    /\ UNCHANGED remote

Next == \E i \in Items : Change(i) \/ Copy(i)

Spec == Init /\ [][Next]_vars
================================================================================
