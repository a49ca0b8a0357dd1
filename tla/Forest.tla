-------------------------------- MODULE Forest --------------------------------
(***************************************************************************)
(* What the distributor hierarchy promises: distributors in service hang    *)
(* below one another without a circle, two of them never share a name, a     *)
(* request creates or changes one distributor and no other, and a deleted     *)
(* one does not come back.                                                  *)
(***************************************************************************)
EXTENDS Integers

CONSTANTS Ids, Names, Terms, Top, Deleted, Known

VARIABLE members    \* partial: each member's name, parent, status and terms

Live == {d \in DOMAIN members : members[d].status # Deleted}

\* The members met from d upwards, d among them, up to a deleted one: the
\* least set with d in it and the parent of every live member of it.
Upwards(S) == \A x \in S \cap Live : members[x].parent \in S \cup {Top}
Above(d) == {x \in Ids : \A S \in SUBSET Ids : d \in S /\ Upwards(S) => x \in S}

Free(name, d) == \A x \in Live \ {d} : members[x].name # name

Init == members = Known

Join(d, row) ==
    /\ d \notin DOMAIN members
    /\ row.parent # Top => row.parent \in Live
    /\ Free(row.name, d)
    /\ members' = [x \in DOMAIN members \cup {d} |->
                        IF x = d THEN row ELSE members[x]]

\* Any columns of d at once, its parent among them: another one must be in
\* service and must not hang below d.
Change(d, row) ==
    /\ \/ row.parent \in {members[d].parent, Top}
       \/ row.parent \in Live /\ d \notin Above(row.parent)
    /\ Free(row.name, d)
    /\ members' = [members EXCEPT ![d] = row]

Next ==
    \E d \in Ids,
       row \in [name: Names, parent: Ids \cup {Top}, status: {0, 1, Deleted}, terms: Terms] :
           \/ Join(d, row)
           \/ d \in Live /\ Change(d, row)

Spec == Init /\ [][Next]_members

\* No live members are one above the other all the way round, and no two of
\* them have one name.
NoCircle == \A S \in SUBSET Live : S # {} => \E x \in S : members[x].parent \notin S
NamesApart == \A d \in Live : Free(members[d].name, d)

\* Every member hangs below a member, or at the top (parent_id is a reference).
Rooted == \A d \in DOMAIN members : members[d].parent \in DOMAIN members \cup {Top}
Sound == NoCircle /\ NamesApart /\ Rooted
===============================================================================
