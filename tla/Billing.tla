-------------------------------- MODULE Billing --------------------------------
(***************************************************************************)
(* Recurring charges: the billing run of billing_engine.cc                  *)
(* (runBillingForCycle), started by billing_cron.cc with its retries and by  *)
(* POST /billing/run, and the invoices invoice_service.cc (generateInvoice)  *)
(* makes of the records the runs leave.                                     *)
(*                                                                          *)
(* A run is one REPEATABLE READ transaction: it bills the subscriptions of   *)
(* its snapshot and, of two transactions that update one row, PostgreSQL     *)
(* aborts the second.  An invoice is made in a READ COMMITTED one, which     *)
(* reads the records without locking them.  isAlreadyBilled, the advisory    *)
(* lock and generateInvoiceNo each run on a connection of their own.         *)
(***************************************************************************)
EXTENDS Integers, FiniteSets

CONSTANTS
    Subs, Distributors, OwnerOf,
    Runners,        \* event loop or threads that run runBillingForCycle
    Cron,           \* the one that is BillingCron and retries
    MaxAttempts,    \* maxRetries of runWithRetry
    Invoicers,      \* threads that run generateInvoice
    MaxPeriod,      \* bound: months that go by
    MaxInvoices,    \* bound: invoices of a day
    MaxCrashes      \* bound: crashes of the backend

Nothing == "nothing"
Periods == 0..MaxPeriod
InvoiceNos == 1..MaxInvoices

\* A billing record.  BilledUpTo says there are never two of a period, so the
\* subscription and the period are enough to name one.
Records == Subs \X Periods

ASSUME BillingAssumption ==
    /\ OwnerOf \in [Subs -> Distributors]
    /\ Cron \in Runners
    /\ MaxAttempts \in Nat \ {0}
    /\ MaxPeriod \in Nat /\ MaxInvoices \in Nat /\ MaxCrashes \in Nat
    /\ Nothing \notin Subs

VARIABLES
    active, today, next, billed,   \* see BillingBook
    pc,        \* what each runner does next
    seen,      \* next_billing_date in the snapshot of its transaction
    due,       \* the subscriptions the snapshot has found
    todo,      \* those of them it has still to do
    row,       \* the one it is doing
    wrote,     \* those it has billed, not yet committed
    changed,   \* rows it has still to update that have changed since its snapshot
    errors,    \* its summary lists an error
    attempt,   \* which attempt of the cron this is
    items,     \* invoice_items: the records each invoice lists
    link,      \* billing_records.invoice_id
    ipc,       \* what each invoicer does next
    found,     \* the records it has read
    number,    \* the invoice number it has generated
    unpriced,  \* subscriptions without a positive price (prices do not change)
    dated,     \* those whose next_billing_date is not NULL
    crashes

book     == <<active, today, next, billed>>
run      == <<pc, seen, due, todo, row, wrote, changed, errors, attempt>>
invoices == <<items, link>>
invoicer == <<ipc, found, number>>
outside  == <<unpriced, dated, crashes>>
vars     == <<book, run, invoices, invoicer, outside>>

NoSnapshot == [u \in Subs |-> 0]

Init ==
    /\ active \in SUBSET Subs
    /\ today = 0
    /\ next = [u \in Subs |-> 0]
    /\ billed = [u \in Subs |-> [p \in Periods |-> 0]]
    /\ pc = [r \in Runners |-> "idle"]
    /\ seen = [r \in Runners |-> NoSnapshot]
    /\ due = [r \in Runners |-> {}]
    /\ todo = [r \in Runners |-> {}]
    /\ row = [r \in Runners |-> Nothing]
    /\ wrote = [r \in Runners |-> {}]
    /\ changed = [r \in Runners |-> {}]
    /\ errors = [r \in Runners |-> FALSE]
    /\ attempt = [r \in Runners |-> 1]
    /\ items = [n \in InvoiceNos |-> {}]
    /\ link = [rec \in Records |-> 0]
    /\ ipc = [i \in Invoicers |-> "idle"]
    /\ found = [i \in Invoicers |-> {}]
    /\ number = [i \in Invoicers |-> 0]
    /\ unpriced \in SUBSET Subs
    /\ dated \in SUBSET Subs
    /\ crashes = 0

-------------------------------------------------------------------------------
\* runBillingForCycle.

Goto(r, label) == pc' = [pc EXCEPT ![r] = label]

\* The cron on the first of the month, or POST /billing/run at any time.
StartRun(r) ==
    /\ pc[r] = "idle"
    /\ Goto(r, "lock")
    /\ errors' = [errors EXCEPT ![r] = FALSE]
    /\ attempt' = [attempt EXCEPT ![r] = 1]
    /\ UNCHANGED <<book, seen, due, todo, row, wrote, changed, invoices, invoicer, outside>>

\* pg_try_advisory_xact_lock in a transaction of its own: the lock is gone when
\* the statement ends, so only a run at the very same statement is refused.
AdvisoryLock(r) ==
    /\ pc[r] = "lock"
    /\ Goto(r, "snapshot")
    /\ UNCHANGED <<book, seen, due, todo, row, wrote, changed, errors, attempt,
                   invoices, invoicer, outside>>

AdvisoryLockTaken(r) ==
    /\ pc[r] = "lock"
    /\ \E t \in Runners \ {r} : pc[t] = "lock"
    /\ Goto(r, "end")
    /\ errors' = [errors EXCEPT ![r] = TRUE]
    /\ UNCHANGED <<book, seen, due, todo, row, wrote, changed, attempt, invoices,
                   invoicer, outside>>

\* An order leaves next_billing_date NULL and only a run that finds it set
\* writes it, so a subscription is dated from the beginning or never due.
Due == {u \in active \cap dated : next[u] <= today}

Snapshot(r) ==
    /\ pc[r] = "snapshot"
    /\ Goto(r, "loop")
    /\ seen' = [seen EXCEPT ![r] = [u \in Subs |-> IF u \in Due THEN next[u] ELSE 0]]
    /\ due' = [due EXCEPT ![r] = Due]
    /\ todo' = [todo EXCEPT ![r] = Due]
    /\ changed' = [changed EXCEPT ![r] = {}]
    /\ UNCHANGED <<book, row, wrote, errors, attempt, invoices, invoicer, outside>>

ToUpdate(r) == todo[r] \cup {row[r]}

\* isAlreadyBilled sees what is committed by now, not what the snapshot holds.
AlreadyBilled(r, u) == billed[u][seen[r][u]] > 0

SkipRow(r, u) ==
    /\ pc[r] = "loop" /\ u \in todo[r]
    /\ AlreadyBilled(r, u) \/ u \in unpriced
    /\ todo' = [todo EXCEPT ![r] = @ \ {u}]
    /\ errors' = [errors EXCEPT ![r] = @ \/ ~AlreadyBilled(r, u)]
    /\ UNCHANGED <<book, pc, seen, due, row, wrote, changed, attempt, invoices,
                   invoicer, outside>>

\* The INSERT, which no constraint stops and nobody sees before the commit.
InsertRecord(r, u) ==
    /\ pc[r] = "loop" /\ u \in todo[r]
    /\ ~AlreadyBilled(r, u) /\ u \notin unpriced
    /\ Goto(r, "advance")
    /\ row' = [row EXCEPT ![r] = u]
    /\ todo' = [todo EXCEPT ![r] = @ \ {u}]
    /\ UNCHANGED <<book, seen, due, wrote, changed, errors, attempt, invoices,
                   invoicer, outside>>

\* An uncommitted update of the row makes ours wait; a committed one that the
\* snapshot does not hold makes it fail.
WaitsFor(r, t) == t # r /\ pc[r] = "advance" /\ row[r] \in wrote[t]
Waits(r) == \E t \in Runners : WaitsFor(r, t)

\* Mutant: the snapshots never conflict.
NoConflict(r) == FALSE
Conflict(r) == row[r] \in changed[r]

AdvanceDate(r) ==
    /\ pc[r] = "advance"
    /\ ~Waits(r) /\ ~Conflict(r)
    /\ wrote' = [wrote EXCEPT ![r] = @ \cup {row[r]}]
    /\ row' = [row EXCEPT ![r] = Nothing]
    /\ Goto(r, "loop")
    /\ UNCHANGED <<book, seen, due, todo, changed, errors, attempt, invoices,
                   invoicer, outside>>

\* Mutant: the failure of a row is not among the errors.
AbortSilently(r) ==
    /\ Goto(r, "end")
    /\ row' = [row EXCEPT ![r] = Nothing]
    /\ todo' = [todo EXCEPT ![r] = {}]
    /\ wrote' = [wrote EXCEPT ![r] = {}]
    /\ UNCHANGED <<book, seen, due, changed, errors, attempt, invoices, invoicer, outside>>
\* An SQL error rolls everything back; the loop goes on, and every statement
\* it has left throws, but the records of before stay in the summary.
Abort(r) ==
    /\ Goto(r, "end")
    /\ row' = [row EXCEPT ![r] = Nothing]
    /\ todo' = [todo EXCEPT ![r] = {}]
    /\ wrote' = [wrote EXCEPT ![r] = {}]
    /\ errors' = [errors EXCEPT ![r] = TRUE]
    /\ UNCHANGED <<book, seen, due, changed, attempt, invoices, invoicer, outside>>

SerializationFailure(r) ==
    /\ pc[r] = "advance"
    /\ ~Waits(r) /\ Conflict(r)
    /\ Abort(r)

DeadlockVictim(r) ==
    /\ \E circle \in SUBSET Runners :
          r \in circle /\ \A s \in circle : \E t \in circle : WaitsFor(s, t)
    /\ Abort(r)

\* Mutant: next_billing_date is not advanced.
CommitRecordsOnly(r) ==
    /\ pc[r] = "loop" /\ todo[r] = {}
    /\ billed' = [u \in Subs |-> IF u \in wrote[r] THEN [billed[u] EXCEPT ![seen[r][u]] = @ + 1]
                                                   ELSE billed[u]]
    /\ changed' = [t \in Runners |-> changed[t] \cup (wrote[r] \cap ToUpdate(t))]
    /\ wrote' = [wrote EXCEPT ![r] = {}]
    /\ Goto(r, "end")
    /\ UNCHANGED <<active, today, next, seen, due, todo, row, errors, attempt,
                   invoices, invoicer, outside>>
\* The transaction's COMMIT.  Every row it wrote has now changed under the
\* snapshots of the others.
CommitRun(r) ==
    /\ pc[r] = "loop" /\ todo[r] = {}
    /\ billed' = [u \in Subs |-> IF u \in wrote[r] THEN [billed[u] EXCEPT ![seen[r][u]] = @ + 1]
                                                   ELSE billed[u]]
    /\ next' = [u \in Subs |-> IF u \in wrote[r] THEN seen[r][u] + 1 ELSE next[u]]
    /\ changed' = [t \in Runners |-> changed[t] \cup (wrote[r] \cap ToUpdate(t))]
    /\ wrote' = [wrote EXCEPT ![r] = {}]
    /\ Goto(r, "end")
    /\ UNCHANGED <<active, today, seen, due, todo, row, errors, attempt, invoices,
                   invoicer, outside>>

\* Mutant: the cron retries without a limit.
RetriesForever(r) == r = Cron /\ errors[r]
\* runWithRetry: the cron tries again while the summary lists errors.
Retries(r) == r = Cron /\ errors[r] /\ attempt[r] < MaxAttempts

\* Mutant: the attempts are not counted.
SameAttempt(r) == attempt[r]
NextAttempt(r) == attempt[r] + 1

EndRun(r) ==
    /\ pc[r] = "end"
    /\ seen' = [seen EXCEPT ![r] = NoSnapshot]
    /\ due' = [due EXCEPT ![r] = {}]
    /\ changed' = [changed EXCEPT ![r] = {}]
    /\ errors' = [errors EXCEPT ![r] = FALSE]
    /\ \/ /\ Retries(r)
          /\ Goto(r, "lock")
          /\ attempt' = [attempt EXCEPT ![r] = NextAttempt(r)]
       \/ /\ ~Retries(r)
          /\ Goto(r, "idle")
          /\ attempt' = [attempt EXCEPT ![r] = 1]
    /\ UNCHANGED <<book, todo, row, wrote, invoices, invoicer, outside>>

-------------------------------------------------------------------------------
\* Subscriptions are suspended, resumed and terminated meanwhile: SELECT .. FOR
\* UPDATE waits for a run that has updated the row or inserted a record that
\* references it, and the change is a conflict for the runs still to come to it.
ChangeStatus(u) ==
    /\ \A r \in Runners : u \notin wrote[r] /\ u # row[r]
    /\ active' = IF u \in active THEN active \ {u} ELSE active \cup {u}
    /\ changed' = [r \in Runners |-> changed[r] \cup ({u} \cap ToUpdate(r))]
    /\ UNCHANGED <<today, next, billed, pc, seen, due, todo, row, wrote, errors, attempt,
                   invoices, invoicer, outside>>

NewPeriod ==
    /\ today < MaxPeriod
    /\ today' = today + 1
    /\ UNCHANGED <<active, next, billed, run, invoices, invoicer, outside>>

-------------------------------------------------------------------------------
\* generateInvoice.

Iget(i, label) == ipc' = [ipc EXCEPT ![i] = label]

\* The un-invoiced records of a distributor in a range of periods.
Uninvoiced(d, from, to) ==
    {rec \in Records : /\ OwnerOf[rec[1]] = d
                       /\ rec[2] \in from..to
                       /\ billed[rec[1]][rec[2]] > 0
                       /\ link[rec] = 0}

FindRecords(i, d, from, to) ==
    /\ ipc[i] = "idle"
    /\ Uninvoiced(d, from, to) # {}
    /\ found' = [found EXCEPT ![i] = Uninvoiced(d, from, to)]
    /\ Iget(i, "number")
    /\ UNCHANGED <<book, run, invoices, number, outside>>

\* generateInvoiceNo: one more than the invoices committed so far.
CountInvoices(i) ==
    LET count == Cardinality({n \in InvoiceNos : items[n] # {}}) IN
    /\ ipc[i] = "number"
    /\ count < MaxInvoices
    /\ number' = [number EXCEPT ![i] = count + 1]
    /\ Iget(i, "insert")
    /\ UNCHANGED <<book, run, invoices, found, outside>>

Stop(i) ==
    /\ Iget(i, "idle")
    /\ found' = [found EXCEPT ![i] = {}]
    /\ number' = [number EXCEPT ![i] = 0]

\* invoice_no is UNIQUE: the INSERT waits for another's to end, and fails if
\* that one has been committed.
NumberFree(i) == \A t \in Invoicers \ {i} : ipc[t] \in {"link", "commit"} => number[t] # number[i]

InsertInvoice(i) ==
    /\ ipc[i] = "insert"
    /\ NumberFree(i)
    /\ items[number[i]] = {}
    /\ Iget(i, "link")
    /\ UNCHANGED <<book, run, invoices, found, number, outside>>

NumberTaken(i) ==
    /\ ipc[i] = "insert"
    /\ items[number[i]] # {}
    /\ Stop(i)
    /\ UNCHANGED <<book, run, invoices, outside>>

\* The items, and an UPDATE of every record, whatever invoice it has by now.
\* All transactions go through the records in one order, so one that finds a
\* record locked waits at the first they share.
LinkRecords(i) ==
    /\ ipc[i] = "link"
    /\ \A t \in Invoicers \ {i} : ipc[t] = "commit" => found[t] \cap found[i] = {}
    /\ Iget(i, "commit")
    /\ UNCHANGED <<book, run, invoices, found, number, outside>>

\* Mutant: the records are not linked.
CommitItemsOnly(i) ==
    /\ ipc[i] = "commit"
    /\ items' = [items EXCEPT ![number[i]] = found[i]]
    /\ Stop(i)
    /\ UNCHANGED <<book, run, link, outside>>
CommitInvoice(i) ==
    /\ ipc[i] = "commit"
    /\ items' = [items EXCEPT ![number[i]] = found[i]]
    /\ link' = [rec \in Records |-> IF rec \in found[i] THEN number[i] ELSE link[rec]]
    /\ Stop(i)
    /\ UNCHANGED <<book, run, outside>>

-------------------------------------------------------------------------------
\* The process dies: transactions in progress are rolled back, the cron's
\* remaining attempts are forgotten.
Crash ==
    /\ crashes < MaxCrashes
    /\ crashes' = crashes + 1
    /\ pc' = [r \in Runners |-> "idle"]
    /\ seen' = [r \in Runners |-> NoSnapshot]
    /\ due' = [r \in Runners |-> {}]
    /\ todo' = [r \in Runners |-> {}]
    /\ row' = [r \in Runners |-> Nothing]
    /\ wrote' = [r \in Runners |-> {}]
    /\ changed' = [r \in Runners |-> {}]
    /\ errors' = [r \in Runners |-> FALSE]
    /\ attempt' = [r \in Runners |-> 1]
    /\ ipc' = [i \in Invoicers |-> "idle"]
    /\ found' = [i \in Invoicers |-> {}]
    /\ number' = [i \in Invoicers |-> 0]
    /\ UNCHANGED <<book, invoices, unpriced, dated>>

-------------------------------------------------------------------------------
RunStep(r) ==
    \/ AdvisoryLock(r) \/ AdvisoryLockTaken(r) \/ Snapshot(r)
    \/ \E u \in Subs : SkipRow(r, u) \/ InsertRecord(r, u)
    \/ AdvanceDate(r) \/ SerializationFailure(r) \/ DeadlockVictim(r)
    \/ CommitRun(r) \/ EndRun(r)

InvoiceStep(i) ==
    CountInvoices(i) \/ InsertInvoice(i) \/ NumberTaken(i) \/ LinkRecords(i) \/ CommitInvoice(i)

Next ==
    \/ \E r \in Runners : StartRun(r) \/ RunStep(r)
    \/ \E u \in Subs : ChangeStatus(u)
    \/ NewPeriod
    \/ \E i \in Invoicers :
          \/ \E d \in Distributors, from, to \in Periods : FindRecords(i, d, from, to)
          \/ InvoiceStep(i)
    \/ Crash

Spec == Init /\ [][Next]_vars

\* A thread in a handler goes on, the cron sleeps between attempts, not for
\* ever, and PostgreSQL grants a row to those that wait for it in turn, so later
\* runs do not starve one that waits.  Nothing has to start a run or an invoice.
FairSpec ==
    /\ Spec
    /\ \A r \in Runners : WF_vars(RunStep(r))
    /\ \A r \in Runners : SF_vars(AdvanceDate(r) \/ SerializationFailure(r))

-------------------------------------------------------------------------------
\* Properties.

\* Every variable holds a value of its domain; the cron makes no more attempts
\* than runWithRetry allows.
TypeOK ==
    /\ active \subseteq Subs
    /\ today \in Periods
    /\ next \in [Subs -> 0..(MaxPeriod + 1)]
    /\ billed \in [Subs -> [Periods -> Nat]]
    /\ pc \in [Runners -> {"idle", "lock", "snapshot", "loop", "advance", "end"}]
    /\ seen \in [Runners -> [Subs -> 0..(MaxPeriod + 1)]]
    /\ due \in [Runners -> SUBSET Subs]
    /\ todo \in [Runners -> SUBSET Subs]
    /\ row \in [Runners -> Subs \cup {Nothing}]
    /\ wrote \in [Runners -> SUBSET Subs]
    /\ changed \in [Runners -> SUBSET Subs]
    /\ errors \in [Runners -> BOOLEAN]
    /\ attempt \in [Runners -> 1..MaxAttempts]
    /\ items \in [InvoiceNos -> SUBSET Records]
    /\ link \in [Records -> 0..MaxInvoices]
    /\ ipc \in [Invoicers -> {"idle", "number", "insert", "link", "commit"}]
    /\ found \in [Invoicers -> SUBSET Records]
    /\ number \in [Invoicers -> 0..MaxInvoices]
    /\ unpriced \subseteq Subs
    /\ dated \subseteq Subs
    /\ crashes \in 0..MaxCrashes

\* A subscription has been charged for every period before its
\* next_billing_date, once, and for none after: whatever runs overlap, conflict,
\* deadlock, are retried or die, no charge is doubled and none is skipped.
BilledUpTo == \A u \in Subs, p \in Periods : billed[u][p] = IF p < next[u] THEN 1 ELSE 0

\* A billing run is atomic (billing_engine.h:14-32): its commit charges
\* subscriptions that are active at that moment for the period they are at,
\* though it read their status and date long before.
Book == INSTANCE BillingBook
BookSpec == Book!BookSpec

\* The cron goes by the error list: a run that ends with none has nothing left
\* of what its snapshot found due.
CleanRunIsComplete ==
    \A r \in Runners : pc[r] = "end" /\ ~errors[r] =>
        \A u \in due[r] : billed[u][seen[r][u]] = 1

\* A record says it is invoiced if and only if an invoice lists it, and it
\* names one that does; nobody is invoiced for another's records.
LinkedIffListed ==
    /\ \A rec \in Records : link[rec] # 0 => rec \in items[link[rec]]
    /\ \A n \in InvoiceNos : \A rec, other \in items[n] :
          /\ link[rec] # 0
          /\ billed[rec[1]][rec[2]] > 0
          /\ OwnerOf[rec[1]] = OwnerOf[other[1]]

\* Every run ends, waits for rows, deadlocks and retries included.
RunsEnd == \A r \in Runners : pc[r] # "idle" ~> pc[r] = "idle"

===============================================================================
