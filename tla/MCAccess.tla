------------------------------- MODULE MCAccess -------------------------------
(***************************************************************************)
(* Who may do what: Accounts, Sessions and Permissions.  They share no       *)
(* state, so a step of one is a stutter of the others and each is checked by *)
(* itself: all begin in an initial state, and only the one that `part` names *)
(* moves.  Accounts is checked twice, for commands and a process that may    *)
(* fail, and for counting logins while Redis works; Sessions for two         *)
(* requests at once, a moving clock and a failing Redis.                     *)
(***************************************************************************)
EXTENDS Sessions

CONSTANTS t1, t2, n1, n2, p1, p2, c1, r1

VARIABLES
    part,
    users, dists, lastDist, count, window, accountPc, who, dist, user, pass,
    holds, cached, permPc, role, perm, found, failed

accountsVars == <<users, dists, lastDist, count, window, accountPc, who, dist, user, pass>>
sessionsVars == vars
permissionsVars == <<holds, cached, permPc, role, perm, found, failed>>
allVars == <<part, accountsVars, sessionsVars, permissionsVars>>

Clients == {c1}
Passwords == {p1}

Accounts == INSTANCE Accounts WITH
    pc <- accountPc, ttl <- window, Names <- {n1, n2}, Max <- 2, MaxCount <- 4, MaxDists <- 3,
    Unreliable <- TRUE
Counting == INSTANCE Accounts WITH
    pc <- accountPc, ttl <- window, Names <- {n1}, Max <- 5, MaxCount <- 7, MaxDists <- 1,
    Unreliable <- FALSE

Permissions == INSTANCE Permissions WITH
    pc <- permPc, Roles <- {r1}, Perms <- {p1, p2}, Unreliable <- TRUE

AccountsOnly(A) == A /\ UNCHANGED <<part, sessionsVars, permissionsVars>>
SessionsOnly(A) == A /\ UNCHANGED <<part, accountsVars, permissionsVars>>
PermissionsOnly(A) == A /\ UNCHANGED <<part, accountsVars, sessionsVars>>

AccessInit ==
    /\ part \in {"accounts", "counting", "sessions", "permissions"}
    /\ Init /\ Accounts!Init /\ Permissions!Init
    /\ part # "permissions" => /\ holds = [r \in {r1} |-> {}]
                               /\ role = [t \in Threads |-> r1]
                               /\ perm = [t \in Threads |-> p1]

AccessNext ==
    \/ part = "accounts" /\ AccountsOnly(Accounts!Next)
    \/ part = "counting" /\ AccountsOnly(Counting!Next)
    \/ part = "sessions" /\ SessionsOnly(Next)
    \/ part = "permissions" /\ PermissionsOnly(Permissions!Next)

AccessSpec == AccessInit /\ [][AccessNext]_allVars

\* The fairness of Accounts and of Permissions, for the part that moves.
Fairness ==
    /\ \A t \in Threads :
          /\ WF_allVars(part = "counting" /\ AccountsOnly(Counting!Statement(t)))
          /\ WF_allVars(part = "permissions" /\ PermissionsOnly(Permissions!Statement(t)))
    /\ WF_allVars(part = "counting" /\ AccountsOnly(Counting!WindowEnds(c1)))
    /\ WF_allVars(part = "permissions" /\ PermissionsOnly(Permissions!Expires(r1)))
FairSpec == AccessSpec /\ Fairness

ASSUME AccessAssumption ==
    /\ Accounts!AccountsAssumption /\ Counting!AccountsAssumption
    /\ SessionsAssumption /\ Permissions!PermissionsAssumption

-------------------------------------------------------------------------------
\* Two requests register, create users, change passwords and log in under the
\* same names and break off anywhere: a distributor and its user come together,
\* and no account takes the place of another.  Meanwhile every variable, those
\* of the tokens too, stays in its domain.
AccountsHold ==
    /\ [](part = "accounts" => Accounts!TypeOK)
    /\ [](part = "counting" => Counting!TypeOK)
    /\ [](part = "sessions" => TypeOK)
    /\ [](part \in {"accounts", "counting"} => Accounts!RegisteredTogether)
    /\ Accounts!AccountIsKept

\* While Redis works, the counter of a client that is locked out expires,
\* however its two commands interleave with those of other logins.
LockoutEnds == part = "counting" => Counting!LockoutEnds

\* A change of a role takes effect in the end, past a cache nothing invalidates
\* and a request that writes what it fetched before the change.
ChangesArrive == Permissions!ChangesArrive
===============================================================================
