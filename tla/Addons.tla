-------------------------------- MODULE Addons --------------------------------
(***************************************************************************)
(* Services added to a subscription: createAddon and cancelAddon of          *)
(* addon_billing.cc, statement by statement, and calculateAddonProrata, the  *)
(* days of a period that an addon is charged for.  cancelAddon reads FOR     *)
(* UPDATE outside of a transaction, which locks nothing: the version in its  *)
(* UPDATE is what keeps two cancellations apart.                            *)
(***************************************************************************)
EXTENDS Integers, FiniteSets

CONSTANTS
    Requests,
    Addons,     \* identities of addon_services
    Dates,      \* the dates that requests ask for, [y, m, d]
    Periods,    \* the billing periods asked about, <<from, until>>
    Years,      \* bound: the years of all of these
    None

\* The calendar of timegm.
Leap(y) == (y % 4 = 0 /\ y % 100 # 0) \/ y % 400 = 0
Length(y, m) == CASE m \in {4, 6, 9, 11} -> 30
                  [] m = 2 -> IF Leap(y) THEN 29 ELSE 28
                  [] OTHER -> 31
Calendar == {x \in [y: Years, m: 1..12, d: 1..31] : x.d <= Length(x.y, x.m)}

\* Dates are compared as the strings YYYY-MM-DD.
Before(a, b) ==
    \/ a.y < b.y
    \/ a.y = b.y /\ a.m < b.m
    \/ a.y = b.y /\ a.m = b.m /\ a.d < b.d
Span(a, b) == Cardinality({x \in Calendar : ~Before(x, a) /\ Before(x, b)})

AddonsAssumption ==
    /\ Years \subseteq Nat /\ IsFiniteSet(Years)
    /\ Dates \subseteq Calendar /\ Periods \subseteq Calendar \X Calendar
    /\ None \notin Addons \cup Dates

VARIABLES
    addons,     \* addon_services, partial
    pc, addon,  \* next statement of each request, and its addon
    date,       \* start_date or end_date of the body
    version     \* as read

vars == <<addons, pc, addon, date, version>>

Init ==
    /\ addons = << >>
    /\ pc = [r \in Requests |-> "idle"]
    /\ addon = [r \in Requests |-> None]
    /\ date = [r \in Requests |-> None]
    /\ version = [r \in Requests |-> 0]

Put(a, row) == addons' = [x \in DOMAIN addons \cup {a} |-> IF x = a THEN row ELSE addons[x]]
Goto(r, to) == pc' = [pc EXCEPT ![r] = to]
Finish(r) ==
    /\ Goto(r, "idle")
    /\ addon' = [addon EXCEPT ![r] = None]
    /\ date' = [date EXCEPT ![r] = None]
    /\ version' = [version EXCEPT ![r] = 0]

-------------------------------------------------------------------------------
\* createAddon: one INSERT, once the subscription is found.
Create(r) ==
    /\ pc[r] = "idle"
    /\ \E a \in Addons \ DOMAIN addons, x \in Dates :
          Put(a, [start |-> x, end |-> None, status |-> "active", version |-> 1])
    /\ UNCHANGED <<pc, addon, date, version>>

\* cancelAddon: what is not there or not active is refused.
Cancel(r) ==
    /\ pc[r] = "idle"
    /\ \E a \in DOMAIN addons, x \in Dates :
          /\ addons[a].status = "active"
          /\ addon' = [addon EXCEPT ![r] = a]
          /\ date' = [date EXCEPT ![r] = x]
          /\ version' = [version EXCEPT ![r] = addons[a].version]
    /\ Goto(r, "update")
    /\ UNCHANGED addons

\* UPDATE ... WHERE version = the one read; no row is a concurrent modification.
Update(r) ==
    /\ pc[r] = "update"
    /\ LET a == addon[r] IN
          IF addons[a].version = version[r]
          THEN Put(a, [start |-> addons[a].start, end |-> date[r], status |-> "cancelled",
                       version |-> addons[a].version + 1])
          ELSE UNCHANGED addons
    /\ Finish(r)

Next == \E r \in Requests : Create(r) \/ Cancel(r) \/ Update(r)

Spec == Init /\ [][Next]_vars

-------------------------------------------------------------------------------
\* Mutant: there is no leap year.
daysInMonthCommon(x) ==
    IF x.m = 2 THEN IF x.y % 4 = 0 /\ x.y % 100 # 0 THEN 29 ELSE 28
    ELSE IF x.m \in {4, 6, 9, 11} THEN 30 ELSE 31
\* daysInMonth.
daysInMonth(x) ==
    IF x.m = 2 THEN IF x.y % 4 = 0 /\ (x.y % 100 # 0 \/ x.y % 400 = 0) THEN 29 ELSE 28
    ELSE IF x.m \in {4, 6, 9, 11} THEN 30 ELSE 31

\* daysBetween: both days count.
daysBetween(a, b) == IF Before(b, a) THEN 0 ELSE Span(a, b) + 1

\* The charge window: from the later start to the earlier end.
ChargeStart(row, p) == IF Before(p[1], row.start) THEN row.start ELSE p[1]
ChargeEnd(row, p) == IF row.end # None /\ Before(row.end, p[2]) THEN row.end ELSE p[2]

\* calculateAddonProrata: the days used, at most those of the month that the
\* period begins in.
DaysUsed(row, p) ==
    LET days == daysBetween(ChargeStart(row, p), ChargeEnd(row, p))
    IN  IF days > daysInMonth(p[1]) THEN daysInMonth(p[1]) ELSE days

-------------------------------------------------------------------------------
\* Rows and requests stay in their domains.
TypeOK ==
    /\ DOMAIN addons \subseteq Addons
    /\ \A a \in DOMAIN addons :
          /\ addons[a] \in [start: Dates, end: Dates \cup {None},
                            status: {"active", "cancelled"}, version: {1, 2}]
          /\ addons[a].status = "cancelled" <=> addons[a].end # None
    /\ \A r \in Requests : pc[r] = "update" => addon[r] \in DOMAIN addons

\* A cancellation that has been answered stands: a second one that read the
\* addon before it does not move its end.
CancelledOnce ==
    [][\A a \in DOMAIN addons : addons[a].status = "cancelled" => addons'[a] = addons[a]]_addons

Covered(row, p) ==
    {x \in Calendar : /\ ~Before(x, p[1]) /\ ~Before(p[2], x) /\ ~Before(x, row.start)
                      /\ row.end # None => ~Before(row.end, x)}

\* Periods of no more days than the month that they begin in.
Monthly == \A p \in Periods : daysBetween(p[1], p[2]) <= Length(p[1].y, p[1].m)

\* "only days from period_start to end_date are charged" (addon_billing.h:27):
\* the days used of a period are those that the addon was there for, with its
\* end before its start, a leap day, and periods that begin within a month.
ChargedByTheDay ==
    \A a \in DOMAIN addons, p \in Periods :
        DaysUsed(addons[a], p) = Cardinality(Covered(addons[a], p))
===============================================================================
