------------------------------ MODULE Permissions ------------------------------
(***************************************************************************)
(* The permission check of rbac_filter.cc.  A role's permissions come from   *)
(* a Redis key that expires an hour after it was written, or else from the   *)
(* database, and are then written to the key.  Nothing deletes the key when  *)
(* an administrator changes the role.                                        *)
(***************************************************************************)
CONSTANTS
    Threads,     \* requests served at a time
    Roles, Perms,
    Unreliable   \* whether commands and queries may fail

None == {}       \* an empty set is neither cached nor told from a missing key

PermissionsAssumption == Unreliable \in BOOLEAN

VARIABLES
    holds,       \* role_permissions
    cached,      \* role_perms:{role}
    pc, role, perm,
    found,       \* the permissions the request has found
    failed       \* history: the query of the request has failed

request == <<pc, role, perm, found, failed>>
vars == <<holds, cached, request>>

Init ==
    /\ holds \in [Roles -> SUBSET Perms]
    /\ cached = [r \in Roles |-> None]
    /\ pc = [t \in Threads |-> "idle"]
    /\ role \in [Threads -> Roles]
    /\ perm \in [Threads -> Perms]
    /\ found = [t \in Threads |-> None]
    /\ failed = [t \in Threads |-> FALSE]

Goto(t, to) == pc' = [pc EXCEPT ![t] = to]
Find(t, S) == found' = [found EXCEPT ![t] = S]

\* A request the JWT filter has let pass.
Request(t) ==
    /\ pc[t] = "idle"
    /\ Goto(t, "get")
    /\ \E r \in Roles : role' = [role EXCEPT ![t] = r]
    /\ \E p \in Perms : perm' = [perm EXCEPT ![t] = p]
    /\ UNCHANGED <<holds, cached, found, failed>>

Get(t) ==
    /\ pc[t] = "get"
    /\ Find(t, cached[role[t]])
    /\ Goto(t, IF cached[role[t]] = None THEN "fetch" ELSE "decide")
    /\ UNCHANGED <<holds, cached, role, perm, failed>>

GetFails(t) ==
    /\ Unreliable /\ pc[t] = "get"
    /\ Goto(t, "fetch")
    /\ UNCHANGED <<holds, cached, role, perm, found, failed>>

\* fetchRolePermissions.
Fetch(t) ==
    /\ pc[t] = "fetch"
    /\ Find(t, holds[role[t]])
    /\ Goto(t, IF holds[role[t]] = None THEN "decide" ELSE "setex")
    /\ UNCHANGED <<holds, cached, role, perm, failed>>

FetchFails(t) ==
    /\ Unreliable /\ pc[t] = "fetch"
    /\ Goto(t, "forbidden")
    /\ failed' = [failed EXCEPT ![t] = TRUE]
    /\ UNCHANGED <<holds, cached, role, perm, found>>

Setex(t) ==
    /\ pc[t] = "setex"
    /\ \/ cached' = [cached EXCEPT ![role[t]] = found[t]]
       \/ Unreliable /\ UNCHANGED cached
    /\ Goto(t, "decide")
    /\ UNCHANGED <<holds, role, perm, found, failed>>

Decide(t) ==
    /\ pc[t] = "decide"
    /\ Goto(t, IF perm[t] \in found[t] THEN "granted" ELSE "forbidden")
    /\ UNCHANGED <<holds, cached, role, perm, found, failed>>

Done(t) ==
    /\ pc[t] \in {"granted", "forbidden"}
    /\ Goto(t, "idle")
    /\ Find(t, None)
    /\ failed' = [failed EXCEPT ![t] = FALSE]
    /\ UNCHANGED <<holds, cached, role, perm>>

\* Mutant: what is cached stays.
NeverExpires(r) == FALSE /\ UNCHANGED vars
\* Redis drops the key; it never would one written by SET.
Expires(r) ==
    /\ cached[r] # None
    /\ cached' = [cached EXCEPT ![r] = None]
    /\ UNCHANGED <<holds, request>>

\* Permissions are given and taken in the tables.
ChangeRole(r) ==
    /\ \E S \in SUBSET Perms : holds' = [holds EXCEPT ![r] = S]
    /\ UNCHANGED <<cached, request>>

-------------------------------------------------------------------------------
Statement(t) ==
    \/ Get(t) \/ GetFails(t) \/ Fetch(t) \/ FetchFails(t) \/ Setex(t) \/ Decide(t) \/ Done(t)

Next ==
    \/ \E t \in Threads : Request(t) \/ Statement(t)
    \/ \E r \in Roles : Expires(r) \/ ChangeRole(r)

Spec == Init /\ [][Next]_vars

\* Requests are served, and Redis drops a key when its hour is over.
FairSpec ==
    /\ Spec
    /\ \A t \in Threads : WF_vars(Statement(t))
    /\ \A r \in Roles : WF_vars(Expires(r))

-------------------------------------------------------------------------------
Deciding(t, answer, r, p) == pc[t] = answer /\ role[t] = r /\ perm[t] = p /\ ~failed[t]

\* A permission taken from a role for good is refused from some time on, and one
\* given for good is granted, although a request that has fetched the old
\* permissions may write them to the cache later.
ChangesArrive ==
    \A r \in Roles, p \in Perms :
        /\ <>[](p \notin holds[r]) => <>[](\A t \in Threads : ~Deciding(t, "granted", r, p))
        /\ <>[](p \in holds[r]) => <>[](\A t \in Threads : ~Deciding(t, "forbidden", r, p))

===============================================================================
