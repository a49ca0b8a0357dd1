----------------------------- MODULE Distributors -----------------------------
(***************************************************************************)
(* The distributor hierarchy of distributor_service.cc.  Each request runs   *)
(* its statements one by one and outside of a transaction: what a check has  *)
(* read, the parent chain that validateParentAssignment walks row by row,    *)
(* and the copy of the row that an update writes back in full may all have   *)
(* changed when the last statement writes.                                   *)
(***************************************************************************)
EXTENDS Integers, FiniteSets

CONSTANTS
    Threads,      \* requests served at a time
    Known,        \* the rows there are before
    MaxId,        \* bound: rows ever inserted
    Names,
    Terms,        \* what the other columns hold, credit_limit among them
    MaxDepth,     \* kMaxDepth of validateParentAssignment
    MaxUpdates    \* bound: updates begun

Ids == 1..MaxId
Top == 0                \* parent_id IS NULL
Deleted == -1           \* stands for every negative status, 0 for every other one but 1
Statuses == {0, 1, Deleted}
Row == [name: Names, parent: Ids \cup {Top}, status: Statuses, terms: Terms]

DistributorsAssumption ==
    /\ \E n \in 0..MaxId : Known \in [1..n -> Row]
    /\ MaxId \in Nat /\ MaxDepth \in Nat /\ MaxUpdates \in Nat
    /\ Names # {} /\ Terms # {}

VARIABLES
    rows,      \* distributors, by id
    pc, id,    \* next statement of each request, and the row it changes
    copy,      \* the row it has read, or is to insert
    at, seen,  \* where it is on the walk upwards, and the rows it has met
    steps,
    updates

request == <<pc, id, copy, at, seen, steps>>
vars == <<rows, request, updates>>

Blank == [name |-> CHOOSE n \in Names : TRUE, parent |-> Top, status |-> 1,
          terms |-> CHOOSE x \in Terms : TRUE]

Init ==
    /\ rows = Known
    /\ pc = [t \in Threads |-> "idle"]
    /\ id = [t \in Threads |-> Top]
    /\ copy = [t \in Threads |-> Blank]
    /\ at = [t \in Threads |-> Top]
    /\ seen = [t \in Threads |-> {}]
    /\ steps = [t \in Threads |-> 0]
    /\ updates = 0

Goto(t, to) == pc' = [pc EXCEPT ![t] = to]

Existing == DOMAIN rows
Live == {d \in Existing : rows[d].status # Deleted}
Taken(name, except) == \E d \in Live \ {except} : rows[d].name = name

\* A refused or finished request forgets all it has read.
Finish(t) ==
    /\ Goto(t, "idle")
    /\ id' = [id EXCEPT ![t] = Top]
    /\ copy' = [copy EXCEPT ![t] = Blank]
    /\ at' = [at EXCEPT ![t] = Top]
    /\ seen' = [seen EXCEPT ![t] = {}]
    /\ steps' = [steps EXCEPT ![t] = 0]
    /\ UNCHANGED updates

-------------------------------------------------------------------------------
\* createDistributor.  The body names every column, the status too, or leaves it
\* to its default.
Create(t) ==
    /\ pc[t] = "idle" /\ Cardinality(Existing) < MaxId
    /\ \E row \in Row :
          /\ copy' = [copy EXCEPT ![t] = row]
          /\ Goto(t, IF row.parent = Top THEN "freeName" ELSE "activeParent")
    /\ UNCHANGED <<rows, id, at, seen, steps, updates>>

ActiveParent(t) ==
    /\ pc[t] = "activeParent"
    /\ UNCHANGED rows
    /\ LET p == copy[t].parent
       IN  IF p \in Existing /\ rows[p].status = 1
           THEN Goto(t, "freeName") /\ UNCHANGED <<id, copy, at, seen, steps, updates>>
           ELSE Finish(t)

FreeName(t) ==
    /\ pc[t] = "freeName"
    /\ UNCHANGED rows
    /\ IF Taken(copy[t].name, Top)
       THEN Finish(t)
       ELSE Goto(t, "insert") /\ UNCHANGED <<id, copy, at, seen, steps, updates>>

Insert(t) ==
    /\ pc[t] = "insert"
    /\ LET d == Cardinality(Existing) + 1
       IN  IF d \in Ids THEN rows' = [x \in Existing \cup {d} |-> IF x = d THEN copy[t] ELSE rows[x]]
                        ELSE UNCHANGED rows
    /\ Finish(t)

-------------------------------------------------------------------------------
\* updateDistributor.
Update(t) ==
    /\ pc[t] = "idle" /\ updates < MaxUpdates
    /\ \E d \in Existing : id' = [id EXCEPT ![t] = d]
    /\ updates' = updates + 1
    /\ Goto(t, "exists")
    /\ UNCHANGED <<rows, copy, at, seen, steps>>

Exists(t) ==
    /\ pc[t] = "exists"
    /\ UNCHANGED rows
    /\ IF id[t] \in Live
       THEN Goto(t, "current") /\ UNCHANGED <<id, copy, at, seen, steps, updates>>
       ELSE Finish(t)

\* Each column becomes what the body names for it, or stays what the row holds
\* now.  With a new parent named, that one is looked at first.
Current(t) ==
    /\ pc[t] = "current"
    /\ UNCHANGED rows
    /\ \E new \in Row, moved \in BOOLEAN :
          /\ moved => new.parent # Top
          /\ ~moved => new.parent \in {rows[id[t]].parent, Top}
          /\ IF moved /\ new.parent = id[t]
             THEN Finish(t)
             ELSE /\ copy' = [copy EXCEPT ![t] = new]
                  /\ at' = [at EXCEPT ![t] = IF moved THEN new.parent ELSE Top]
                  /\ Goto(t, IF moved THEN "walk" ELSE "freeToName")
                  /\ UNCHANGED <<id, seen, steps, updates>>

\* Mutant: the distributor is looked for at the new parent only, not above it.
WalkNearest(t) ==
    /\ pc[t] = "walk"
    /\ UNCHANGED rows
    /\ IF at[t] = id[t]
       THEN Finish(t)
       ELSE Goto(t, "parentExists") /\ UNCHANGED <<id, copy, at, seen, steps, updates>>
\* One turn of the loop of validateParentAssignment: "circular", "done" or up.
Walk(t) ==
    /\ pc[t] = "walk"
    /\ UNCHANGED rows
    /\ IF at[t] = id[t] /\ steps[t] < MaxDepth
       THEN Finish(t)
       ELSE /\ UNCHANGED <<id, copy, updates>>
            /\ LET up == IF at[t] \in Live THEN rows[at[t]].parent ELSE Top
               IN  IF up = Top \/ up \in seen[t] \/ steps[t] = MaxDepth
                   THEN Goto(t, "parentExists") /\ UNCHANGED <<at, seen, steps>>
                   ELSE /\ at' = [at EXCEPT ![t] = up]
                        /\ seen' = [seen EXCEPT ![t] = @ \cup {up}]
                        /\ steps' = [steps EXCEPT ![t] = @ + 1]
                        /\ UNCHANGED pc

ParentExists(t) ==
    /\ pc[t] = "parentExists"
    /\ UNCHANGED rows
    /\ IF copy[t].parent \in Live
       THEN Goto(t, "freeToName") /\ UNCHANGED <<id, copy, at, seen, steps, updates>>
       ELSE Finish(t)

FreeToName(t) ==
    /\ pc[t] = "freeToName"
    /\ UNCHANGED rows
    /\ IF Taken(copy[t].name, id[t])
       THEN Finish(t)
       ELSE Goto(t, "write") /\ UNCHANGED <<id, copy, at, seen, steps, updates>>

\* UPDATE .. SET all columns WHERE id, whatever the row has become.
Write(t) ==
    /\ pc[t] = "write"
    /\ rows' = [rows EXCEPT ![id[t]] = copy[t]]
    /\ Finish(t)

-------------------------------------------------------------------------------
\* getDistributorTree.

\* The query joins the rows of one level with their children that are in
\* service until a level is empty; UNION ALL does not look for repetitions.
Level(d, depth) ==
    LET level[n \in 0..depth] == IF n = 0 THEN {d} ELSE {x \in Live : rows[x].parent \in level[n-1]}
    IN  level
TreeEnds(d) == LET deepest == Cardinality(Existing) IN Level(d, deepest)[deepest] = {}

-------------------------------------------------------------------------------
Statement(t) ==
    \/ ActiveParent(t) \/ FreeName(t) \/ Insert(t)
    \/ Exists(t) \/ Current(t) \/ Walk(t) \/ ParentExists(t) \/ FreeToName(t) \/ Write(t)

Next == \E t \in Threads : Create(t) \/ Update(t) \/ Statement(t)

Spec == Init /\ [][Next]_vars

-------------------------------------------------------------------------------
\* Every column and every request stays in its domain.
TypeOK ==
    /\ \E n \in 0..MaxId : rows \in [1..n -> Row]
    /\ \A t \in Threads :
          /\ id[t] \in Existing \cup {Top}
          /\ copy[t] \in Row
          /\ at[t] \in Ids \cup {Top} /\ seen[t] \subseteq Ids /\ steps[t] \in 0..MaxDepth
          /\ pc[t] = "idle" => id[t] = Top
    /\ updates \in 0..MaxUpdates

\* "existing cycle in data (shouldn't happen)", distributor_service.cc:586:
\* whatever the re-parentings, deletions and walks, the query for the tree of
\* each distributor comes to an end.
TreeQueryEnds == \A d \in Existing : TreeEnds(d)

\* One request at a time, the statements amount to the atomic hierarchy.
F == INSTANCE Forest WITH members <- rows
ForestSpec == F!Spec

===============================================================================
