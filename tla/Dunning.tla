-------------------------------- MODULE Dunning --------------------------------
(***************************************************************************)
(* The daily collection run of dunning_service.cc, started by the timers of  *)
(* dunning_cron.cc on the main loop: reminders before an invoice is due,     *)
(* the overdue marking, reminders after it, and in the end the suspension     *)
(* and the termination of what the invoice charged for.                      *)
(*                                                                          *)
(* Each phase reads the day, selects a batch of rows, and then acts on one    *)
(* row after the other, while customers pay and administrators change         *)
(* subscriptions.  A subscription's change and its notice are two statements. *)
(***************************************************************************)
EXTENDS Integers, FiniteSets

CONSTANTS
    Invoices, Subs,
    ItemsOf,          \* the subscriptions each invoice charges for
    Due,              \* due_date of each invoice
    RemindBefore,     \* dunning.reminder_days_before
    RemindAfter,      \* dunning.reminder_overdue_days
    SuspendAfter,     \* dunning.suspend_after_days
    TerminateAfter,   \* dunning.terminate_after_days
    BatchSize,        \* dunning.batch_size
    Prompt,           \* whether a run ends on the day it starts
    MaxMissed,        \* bound: days without a complete run
    MaxDay            \* bound: days that go by

Never == MaxDay + 1
NoSub == "no subscription"
Days == 0..MaxDay
Phases == {"idle", "upcoming", "marking", "reminders", "suspend", "terminate"}
Rows == Invoices \X (Subs \cup {NoSub})

DunningAssumption ==
    /\ ItemsOf \in [Invoices -> SUBSET Subs]
    /\ Due \in [Invoices -> Days]
    /\ RemindBefore \in Nat /\ RemindAfter \subseteq Nat
    /\ SuspendAfter \in Nat \ {0} /\ TerminateAfter \in Nat \ {0}
    /\ BatchSize \in Nat \ {0}
    /\ Prompt \in BOOLEAN
    /\ MaxMissed \in Nat /\ MaxDay \in Nat
    /\ NoSub \notin Subs

VARIABLES
    day,
    status,     \* invoices.status
    pending,    \* invoices with a gateway payment waiting for its notification
    sub,        \* subscriptions.status
    phase,      \* phase of the run
    stage,      \* it selects, or loops over its rows, or has acted on one
    left,       \* reminder offsets it has still to select for
    rows, row,  \* rows selected and not done, and the one acted on
    announced,  \* how often each invoice was announced as overdue
    ran,        \* a run was started today and not interrupted
    missed,     \* days without one so far
    paidOn,     \* history: the day an invoice was paid
    stopped     \* history: subscriptions a run has suspended or terminated

books   == <<status, pending, sub>>
run     == <<phase, stage, left, rows, row>>
history == <<paidOn, stopped>>
vars    == <<day, books, run, announced, ran, missed, history>>

Nothing == << >>

Init ==
    /\ day = 0
    /\ status = [i \in Invoices |-> "unpaid"]
    /\ pending = {}
    /\ sub = [u \in Subs |-> "active"]
    /\ phase = "idle" /\ stage = "select"
    /\ left = {} /\ rows = {} /\ row = Nothing
    /\ announced = [i \in Invoices |-> 0]
    /\ ran = FALSE /\ missed = 0
    /\ paidOn = [i \in Invoices |-> Never]
    /\ stopped = {}

-------------------------------------------------------------------------------
\* runDailyDunning.

\* The timers fire two hours after a start and every 24 hours: once a day, but
\* twice on a day that has a start, and not at all on a day of restarts.
StartRun ==
    /\ phase = "idle"
    /\ phase' = "upcoming"
    /\ ran' = TRUE
    /\ UNCHANGED <<day, books, stage, left, rows, row, announced, missed, history>>

Whole(S) == S \X {NoSub}
Charged(S, states) ==
    {r \in S \X Subs : r[2] \in ItemsOf[r[1]] /\ sub[r[2]] \in states}
OverdueFor(n) == {i \in Invoices : status[i] = "overdue" /\ Due[i] <= day - n}

Upcoming == {i \in Invoices : status[i] = "unpaid" /\ Due[i] = day + RemindBefore}
JustOverdue == {i \in Invoices : status[i] = "unpaid" /\ Due[i] < day /\ Due[i] >= day - 1}
ReminderDue(n) == {i \in Invoices : status[i] = "overdue" /\ Due[i] = day - n}

\* Mutant: invoices not overdue are selected too.
SuspendUnpaid == Charged({i \in Invoices : status[i] # "paid" /\ Due[i] <= day}, {"active"})
ToSuspend == Charged(OverdueFor(SuspendAfter), {"active"})

\* Mutant: only active subscriptions are terminated.
TerminateActive == Charged(OverdueFor(TerminateAfter), {"active"})
ToTerminate == Charged(OverdueFor(TerminateAfter), {"active", "suspended"})

\* LIMIT, without an ORDER BY.
Limited(S, B) ==
    IF Cardinality(S) <= BatchSize THEN B = S
                                   ELSE B \subseteq S /\ Cardinality(B) = BatchSize

Select(S) ==
    /\ \E B \in SUBSET S : Limited(S, B) /\ rows' = B
    /\ stage' = "loop"
    /\ UNCHANGED <<day, books, phase, row, announced, ran, missed, history>>

SelectRows ==
    /\ stage = "select"
    /\ UNCHANGED left
    /\ \/ phase = "upcoming"  /\ Select(Whole(Upcoming))
       \/ phase = "marking"   /\ Select(Whole(JustOverdue))
       \/ phase = "suspend"   /\ Select(ToSuspend)
       \/ phase = "terminate" /\ Select(ToTerminate)

SelectReminders ==
    /\ phase = "reminders" /\ stage = "select"
    /\ \E n \in left : left' = left \ {n} /\ Select(Whole(ReminderDue(n)))

Act(r) == row' = r /\ stage' = "notify"
               /\ UNCHANGED <<day, pending, phase, left, rows, announced, ran, missed, paidOn>>

Remind(r) ==
    /\ phase \in {"upcoming", "reminders"} /\ stage = "loop" /\ r \in rows
    /\ Act(r)
    /\ UNCHANGED <<status, sub, stopped>>

\* UPDATE .. WHERE status = 'unpaid'.
Mark(r) ==
    /\ phase = "marking" /\ stage = "loop" /\ r \in rows
    /\ status' = [status EXCEPT ![r[1]] = IF @ = "unpaid" THEN "overdue" ELSE @]
    /\ Act(r)
    /\ UNCHANGED <<sub, stopped>>

\* suspendSubscription and terminateSubscription check the subscription again,
\* under its row lock, and not the invoice.  What they throw is logged only.
Stop(r, states, to) ==
    /\ stage = "loop" /\ r \in rows
    /\ IF sub[r[2]] \in states
       THEN sub' = [sub EXCEPT ![r[2]] = to] /\ stopped' = stopped \cup {r[2]}
       ELSE UNCHANGED <<sub, stopped>>
    /\ Act(r)
    /\ UNCHANGED status

Suspend(r)   == phase = "suspend"   /\ Stop(r, {"active"}, "suspended")
Terminate(r) == phase = "terminate" /\ Stop(r, {"active", "suspended"}, "terminated")

\* The notice, sent whether or not anything was changed.  It may fail; the loop
\* goes on with the next row.
Notify ==
    /\ stage = "notify"
    /\ announced' = [announced EXCEPT ![row[1]] = IF phase = "marking" THEN @ + 1 ELSE @]
    /\ rows' = rows \ {row} /\ row' = Nothing /\ stage' = "loop"
    /\ UNCHANGED <<day, books, phase, left, ran, missed, history>>

NotifyFails ==
    /\ stage = "notify"
    /\ rows' = rows \ {row} /\ row' = Nothing /\ stage' = "loop"
    /\ UNCHANGED <<day, books, phase, left, announced, ran, missed, history>>

\* Mutant: a phase is left with rows to do.
NextPhaseEarly ==
    /\ stage = "loop"
    /\ stage' = "select"
    /\ \/ phase = "upcoming"  /\ phase' = "marking" /\ UNCHANGED left
       \/ phase = "marking"   /\ phase' = "suspend" /\ UNCHANGED left
       \/ phase = "suspend"   /\ phase' = "terminate" /\ UNCHANGED left
       \/ phase = "terminate" /\ phase' = "idle" /\ UNCHANGED left
    /\ UNCHANGED <<day, books, rows, row, announced, ran, missed, history>>
NextPhase ==
    /\ stage = "loop" /\ rows = {}
    /\ stage' = "select"
    /\ \/ phase = "upcoming"  /\ phase' = "marking" /\ UNCHANGED left
       \/ phase = "marking"   /\ RemindAfter = {} /\ phase' = "suspend" /\ UNCHANGED left
       \/ phase = "marking"   /\ RemindAfter # {} /\ phase' = "reminders" /\ left' = RemindAfter
       \/ phase = "reminders" /\ left # {} /\ UNCHANGED <<phase, left>>
       \/ phase = "reminders" /\ left = {} /\ phase' = "suspend" /\ UNCHANGED left
       \/ phase = "suspend"   /\ phase' = "terminate" /\ UNCHANGED left
       \/ phase = "terminate" /\ phase' = "idle" /\ UNCHANGED left
    /\ UNCHANGED <<day, books, rows, row, announced, ran, missed, history>>

\* The process dies.  Whatever the run has left is not done today, unless the
\* next process gets as far as its own run.
Crash ==
    /\ phase # "idle"
    /\ phase' = "idle" /\ stage' = "select"
    /\ left' = {} /\ rows' = {} /\ row' = Nothing
    /\ ran' = FALSE
    /\ UNCHANGED <<day, books, announced, missed, history>>

NewDay ==
    /\ day < MaxDay
    /\ ran \/ missed < MaxMissed
    /\ Prompt => phase = "idle"
    /\ day' = day + 1
    /\ missed' = IF ran THEN missed ELSE missed + 1
    /\ ran' = FALSE
    /\ UNCHANGED <<books, run, announced, history>>

-------------------------------------------------------------------------------
\* Customers: createPayment and payByBalance, of either service, refuse an
\* invoice that is not 'unpaid'; a notification settles it whatever its status.
Payable(i) == status[i] = "unpaid"

Settle(i) ==
    /\ status' = [status EXCEPT ![i] = "paid"]
    /\ paidOn' = [paidOn EXCEPT ![i] = IF @ = Never THEN day ELSE @]

PayByBalance(i) ==
    /\ Payable(i)
    /\ Settle(i)
    /\ UNCHANGED <<day, pending, sub, run, announced, ran, missed, stopped>>

CreatePayment(i) ==
    /\ Payable(i) /\ i \notin pending
    /\ pending' = pending \cup {i}
    /\ UNCHANGED <<day, status, sub, run, announced, ran, missed, history>>

GatewayPays(i) ==
    /\ i \in pending
    /\ pending' = pending \ {i}
    /\ Settle(i)
    /\ UNCHANGED <<day, sub, run, announced, ran, missed, stopped>>

\* Administrators, by subscription_controller.cc.
ChangeSub(u) ==
    /\ \/ sub[u] = "active"    /\ \E s \in {"suspended", "terminated"} : sub' = [sub EXCEPT ![u] = s]
       \/ sub[u] = "suspended" /\ \E s \in {"active", "terminated"} : sub' = [sub EXCEPT ![u] = s]
    /\ UNCHANGED <<day, status, pending, run, announced, ran, missed, history>>

-------------------------------------------------------------------------------
Run ==
    \/ SelectRows \/ SelectReminders
    \/ \E r \in Rows : Remind(r) \/ Mark(r) \/ Suspend(r) \/ Terminate(r)
    \/ Notify \/ NotifyFails \/ NextPhase

Next ==
    \/ StartRun \/ Run \/ Crash \/ NewDay
    \/ \E i \in Invoices : PayByBalance(i) \/ CreatePayment(i) \/ GatewayPays(i)
    \/ \E u \in Subs : ChangeSub(u)

Spec == Init /\ [][Next]_vars

-------------------------------------------------------------------------------
\* Every variable stays in its domain, and a run that is not under way holds no rows.
TypeOK ==
    /\ day \in Days
    /\ status \in [Invoices -> {"unpaid", "overdue", "paid"}]
    /\ pending \subseteq Invoices
    /\ sub \in [Subs -> {"active", "suspended", "terminated"}]
    /\ phase \in Phases /\ stage \in {"select", "loop", "notify"}
    /\ left \subseteq RemindAfter /\ rows \subseteq Rows /\ row \in rows \cup {Nothing}
    /\ stage = "notify" <=> row # Nothing
    /\ phase = "idle" => stage = "select" /\ rows = {}
    /\ announced \in [Invoices -> Nat]
    /\ ran \in BOOLEAN /\ missed \in 0..MaxMissed
    /\ paidOn \in [Invoices -> Days \cup {Never}]
    /\ stopped \subseteq Subs

\* Whoever has paid every invoice for a subscription by its due day keeps the
\* service, however late the run, whatever it has selected, and although it
\* acts on rows read earlier.
PaidInTimeKeepsService ==
    \A u \in stopped : \E i \in Invoices : u \in ItemsOf[i] /\ paidOn[i] > Due[i]

\* An invoice is announced as overdue once, though runs are repeated, cross
\* midnight and break off between the update and the notice.
AnnouncedOnce == \A i \in Invoices : announced[i] <= 1

\* Runs that are late, repeated or cut short do no harm.
LateRunsDoNoHarm == PaidInTimeKeepsService /\ AnnouncedOnce

\* With a run on each day and room in its batches, an invoice is no longer
\* 'unpaid' two days after it was due (phase 2 of dunning_service.h:19-26).
OverdueIsMarked == \A i \in Invoices : day > Due[i] + 1 => status[i] # "unpaid"

\* With a run on each day, what an invoice charges for has been terminated when
\* it is overdue for longer than terminate_after_days: phase by phase the
\* escalation reaches its end, however often an administrator has lifted a
\* suspension meanwhile.
LongOverdueIsTerminated ==
    \A i \in Invoices, u \in Subs :
        status[i] = "overdue" /\ day > Due[i] + TerminateAfter /\ u \in ItemsOf[i]
        => sub[u] = "terminated"

===============================================================================
