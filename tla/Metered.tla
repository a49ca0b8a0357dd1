-------------------------------- MODULE Metered --------------------------------
(***************************************************************************)
(* Subscriptions billed by the hour: recordRuntime and calculateHourly of    *)
(* metered_billing.cc.  Hours are reported per day by one upsert outside of  *)
(* a transaction; a calculation locks its subscription, adds up the hours of *)
(* a period and inserts a billing record, in one transaction whose rate is   *)
(* read on another connection.                                              *)
(***************************************************************************)
EXTENDS Integers, Sequences

CONSTANTS
    Requests,     \* requests served at a time
    Subs, Hourly, \* subscriptions, and those with billing_cycle = 'hourly'
    LastDay,      \* bound: the last day
    MaxHours,     \* hours of a day, 24 in the code
    Prices,
    MaxAttempts,  \* maxRetries
    MaxVersion,   \* bound: reports of one day
    MaxBills,     \* bound: billing records
    None,
    Unreliable    \* whether the database refuses a report and requests die

Days == 1..LastDay
Asked == 0..(MaxHours + 1)
NoHours == [hours |-> 0, rate |-> 0, version |-> 0]    \* no row

MeteredAssumption ==
    /\ Hourly \subseteq Subs /\ None \notin Subs \cup Requests
    /\ LastDay \in Nat \ {0} /\ MaxHours \in Nat \ {0} /\ Prices \subseteq Nat
    /\ MaxAttempts \in Nat \ {0} /\ MaxVersion \in Nat /\ MaxBills \in Nat
    /\ Unreliable \in BOOLEAN

VARIABLES
    listed, chained, \* hourly_price: the system default, and the distributor's
    metered,      \* metered_hours, by subscription and day
    bills,        \* billing_records of type 'hourly', committed
    lock,         \* the transaction that holds each subscription's row
    pc, sub,      \* next statement of each request, and its subscription
    from, until,  \* its day, or its period
    hours,        \* hours it reports, or has added up
    rate,
    attempt,
    seen          \* history: the version of the day's row when it began

prices  == <<listed, chained>>
request == <<pc, sub, from, until, hours, rate, attempt, seen>>
vars    == <<prices, metered, bills, lock, request>>

Init ==
    /\ listed \in Prices /\ chained \in Prices
    /\ metered = [x \in Subs \X Days |-> NoHours]
    /\ bills = << >>
    /\ lock = [s \in Subs |-> None]
    /\ pc = [r \in Requests |-> "idle"]
    /\ sub = [r \in Requests |-> None]
    /\ from = [r \in Requests |-> 1] /\ until = [r \in Requests |-> 1]
    /\ hours = [r \in Requests |-> 0]
    /\ rate = [r \in Requests |-> 0]
    /\ attempt = [r \in Requests |-> 0]
    /\ seen = [r \in Requests |-> 0]

Goto(r, to) == pc' = [pc EXCEPT ![r] = to]

\* The request answers, or its transaction ends.
Finish(r) ==
    /\ Goto(r, "idle")
    /\ sub' = [sub EXCEPT ![r] = None]
    /\ from' = [from EXCEPT ![r] = 1] /\ until' = [until EXCEPT ![r] = 1]
    /\ hours' = [hours EXCEPT ![r] = 0]
    /\ rate' = [rate EXCEPT ![r] = 0]
    /\ attempt' = [attempt EXCEPT ![r] = 0]
    /\ seen' = [seen EXCEPT ![r] = 0]
Release(r) == lock' = [s \in Subs |-> IF lock[s] = r THEN None ELSE lock[s]]

\* SUM(hours_used) of the rows from day a to day z.
Reported(s, a, z) ==
    LET upTo[d \in 0..LastDay] ==
            IF d = 0 THEN 0
            ELSE upTo[d-1] + (IF d \in a..z THEN metered[<<s, d>>].hours ELSE 0)
    IN  upTo[LastDay]

-------------------------------------------------------------------------------
\* recordRuntime.
\* More hours than a day has are refused before any statement.
Report(r) ==
    /\ pc[r] = "idle"
    /\ \E s \in Subs, d \in Days, h \in Asked :
          /\ h <= MaxHours
          /\ sub' = [sub EXCEPT ![r] = s]
          /\ from' = [from EXCEPT ![r] = d]
          /\ until' = [until EXCEPT ![r] = d]
          /\ hours' = [hours EXCEPT ![r] = h]
          /\ seen' = [seen EXCEPT ![r] = metered[<<s, d>>].version]
    /\ Goto(r, "reportRate")
    /\ UNCHANGED <<prices, metered, bills, lock, rate, attempt>>

\* resolveHourlyRate: the system default, on any connection.
Resolve(r, to) ==
    /\ rate' = [rate EXCEPT ![r] = listed]
    /\ Goto(r, to)

ReportRate(r) ==
    /\ pc[r] = "reportRate"
    /\ Resolve(r, "upsert")
    /\ UNCHANGED <<prices, metered, bills, lock, sub, from, until, hours, attempt, seen>>

\* The bound on versions leaves out reports, never the rest of a request.
Upsert(r) ==
    /\ pc[r] = "upsert"
    /\ LET day == <<sub[r], from[r]>> IN
          metered' = IF metered[day].version = MaxVersion THEN metered
                     ELSE [metered EXCEPT ![day] =
                              [hours |-> hours[r], rate |-> rate[r], version |-> @.version + 1]]
    /\ Finish(r)
    /\ UNCHANGED <<prices, bills, lock>>

\* A serialisation failure or a deadlock: the loop goes on, or gives up.
Conflict(r) ==
    /\ Unreliable /\ pc[r] = "upsert"
    /\ IF attempt[r] + 1 >= MaxAttempts
       THEN Finish(r)
       ELSE /\ attempt' = [attempt EXCEPT ![r] = @ + 1]
            /\ UNCHANGED <<pc, sub, from, until, hours, rate, seen>>
    /\ UNCHANGED <<prices, metered, bills, lock>>

-------------------------------------------------------------------------------
\* calculateHourly.
Calculate(r) ==
    /\ pc[r] = "idle"
    /\ \E s \in Subs, a, z \in Days :
          /\ sub' = [sub EXCEPT ![r] = s]
          /\ from' = [from EXCEPT ![r] = a]
          /\ until' = [until EXCEPT ![r] = z]
    /\ Goto(r, "lock")
    /\ UNCHANGED <<prices, metered, bills, lock, hours, rate, attempt, seen>>

\* Mutant: the subscription is read without its lock.
LockUnlocked(r) ==
    /\ pc[r] = "lock"
    /\ IF sub[r] \in Hourly
       THEN Goto(r, "rate") /\ UNCHANGED <<sub, from, until, hours, rate, attempt, seen>>
       ELSE Finish(r)
    /\ UNCHANGED <<prices, metered, bills, lock>>
\* SELECT ... FOR UPDATE, which waits; a cycle other than 'hourly' is refused.
Lock(r) ==
    /\ pc[r] = "lock" /\ lock[sub[r]] = None
    /\ IF sub[r] \in Hourly
       THEN /\ lock' = [lock EXCEPT ![sub[r]] = r]
            /\ Goto(r, "rate")
            /\ UNCHANGED <<sub, from, until, hours, rate, attempt, seen>>
       ELSE Finish(r) /\ UNCHANGED lock
    /\ UNCHANGED <<prices, metered, bills>>

Rate(r) ==
    /\ pc[r] = "rate"
    /\ Resolve(r, "sum")
    /\ UNCHANGED <<prices, metered, bills, lock, sub, from, until, hours, attempt, seen>>

Aggregate(r) ==
    /\ pc[r] = "sum"
    /\ hours' = [hours EXCEPT ![r] = Reported(sub[r], from[r], until[r])]
    /\ Goto(r, "existing")
    /\ UNCHANGED <<prices, metered, bills, lock, sub, from, until, rate, attempt, seen>>

Billed(s, a, z) ==
    \E i \in DOMAIN bills : bills[i].sub = s /\ bills[i].from = a /\ bills[i].until = z

\* A record of exactly this period is answered instead of a new one.
Existing(r) ==
    /\ pc[r] = "existing"
    /\ IF Billed(sub[r], from[r], until[r])
       THEN Finish(r) /\ Release(r)
       ELSE /\ Goto(r, "commit")
            /\ UNCHANGED <<lock, sub, from, until, hours, rate, attempt, seen>>
    /\ UNCHANGED <<prices, metered, bills>>

\* The INSERT, seen by others from the COMMIT on.
Commit(r) ==
    /\ pc[r] = "commit"
    /\ bills' = IF Len(bills) = MaxBills THEN bills
                ELSE Append(bills, [sub |-> sub[r], from |-> from[r], until |-> until[r],
                                    quantity |-> hours[r], unit |-> rate[r],
                                    amount |-> hours[r] * rate[r]])
    /\ Finish(r) /\ Release(r)
    /\ UNCHANGED <<prices, metered>>

-------------------------------------------------------------------------------
\* The process dies, or a statement fails: the transaction is rolled back.
Crash(r) ==
    /\ Unreliable /\ pc[r] # "idle"
    /\ Finish(r) /\ Release(r)
    /\ UNCHANGED <<prices, metered, bills>>

\* An administrator changes a price.
Reprice ==
    /\ \E p \in Prices : \/ listed' = p /\ UNCHANGED chained
                         \/ chained' = p /\ UNCHANGED listed
    /\ UNCHANGED <<metered, bills, lock, request>>

Statement(r) ==
    \/ ReportRate(r) \/ Upsert(r) \/ Conflict(r)
    \/ Lock(r) \/ Rate(r) \/ Aggregate(r) \/ Existing(r) \/ Commit(r)

Next ==
    \/ \E r \in Requests : Report(r) \/ Calculate(r) \/ Statement(r) \/ Crash(r)
    \/ Reprice

Spec == Init /\ [][Next]_vars

-------------------------------------------------------------------------------
\* Every table and request stays in its domain.
TypeOK ==
    /\ listed \in Prices /\ chained \in Prices
    /\ metered \in [Subs \X Days -> [hours: 0..MaxHours, rate: Prices \cup {0}, version: 0..MaxVersion]]
    /\ \A i \in DOMAIN bills : bills[i].sub \in Hourly /\ bills[i].quantity <= MaxHours * LastDay
    /\ Len(bills) <= MaxBills
    /\ lock \in [Subs -> Requests \cup {None}]
    /\ attempt \in [Requests -> 0..(MaxAttempts - 1)]

\* A period is billed at most once, however many calculations of it overlap:
\* the one that comes second waits for the row, and finds the first one's
\* record although its own transaction began before it was there.
PeriodBilledOnce ==
    \A i, j \in DOMAIN bills :
        i # j => \/ bills[i].sub # bills[j].sub
                 \/ <<bills[i].from, bills[i].until>> # <<bills[j].from, bills[j].until>>

===============================================================================
