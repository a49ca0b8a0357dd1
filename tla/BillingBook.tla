------------------------------ MODULE BillingBook ------------------------------
(***************************************************************************)
(* What a billing run promises (billing_engine.h:14-32): it charges each     *)
(* subscription it finds due for the period that comes next, once, and moves *)
(* the subscription on to the period after.  Runs are atomic here, although  *)
(* nothing keeps two of them apart.                                         *)
(***************************************************************************)
EXTENDS Naturals

CONSTANTS Subs, Periods
VARIABLES
    active,   \* subscriptions whose status is 'active'
    today,    \* the current period
    next,     \* next_billing_date, as a period
    billed    \* how many billing_records there are of each period

bookVars == <<active, today, next, billed>>

BookInit ==
    /\ active \subseteq Subs
    /\ today = 0
    /\ next \in [Subs -> {0}]
    /\ billed \in [Subs -> [Periods -> {0}]]

\* A run charges the next period of subscriptions that are active and due.
Bill(charged) ==
    /\ charged \subseteq {u \in active : next[u] <= today}
    /\ billed' = [u \in Subs |-> IF u \in charged THEN [billed[u] EXCEPT ![next[u]] = @ + 1]
                                                  ELSE billed[u]]
    /\ next' = [u \in Subs |-> IF u \in charged THEN next[u] + 1 ELSE next[u]]
    /\ UNCHANGED <<active, today>>

ChangeStatus ==
    /\ active' \subseteq Subs
    /\ UNCHANGED <<today, next, billed>>

NewPeriod ==
    /\ today' = today + 1
    /\ UNCHANGED <<active, next, billed>>

BookNext == (\E charged \in SUBSET Subs : Bill(charged)) \/ ChangeStatus \/ NewPeriod

BookSpec == BookInit /\ [][BookNext]_bookVars
===============================================================================
