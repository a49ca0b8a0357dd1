----------------------------- MODULE DunningProofs -----------------------------
(***************************************************************************)
(* Proofs about Dunning, for any invoices, subscriptions, due days, settings *)
(* and batch size.                                                          *)
(*                                                                          *)
(* A run acts on rows it has selected earlier and never looks at the invoice *)
(* again.  What carries the argument over that gap is the past: an invoice   *)
(* that was overdue when it was selected cannot have been paid in time any   *)
(* more (PaidLate), whatever its status is when the row is acted on; and an  *)
(* invoice that has been marked is never 'unpaid' again, so that no later     *)
(* batch selects it for another announcement.                               *)
(***************************************************************************)
EXTENDS Dunning, TLAPS, FiniteSetTheorems

\* The due day of an invoice has gone by and it was not paid until then.
PaidLate(i) == Due[i] < day /\ paidOn[i] > Due[i]

\* The day of a payment is that of the invoice's status.
PaidOnce == \A i \in Invoices : status[i] = "paid" <=> paidOn[i] # Never

\* Who is to be stopped, or has been, has not paid for something in time.
Stopping ==
    phase \in {"suspend", "terminate"} =>
        \A r \in rows : r[2] \in ItemsOf[r[1]] /\ PaidLate(r[1])
Stopped == \A u \in stopped : \E i \in Invoices : u \in ItemsOf[i] /\ PaidLate(i)

\* What was announced has been marked; what is to be announced was not before,
\* and has been marked once its row is acted on.
Announced ==
    \A i \in Invoices : announced[i] \in {0, 1} /\ (announced[i] = 1 => status[i] # "unpaid")
Announcing ==
    phase = "marking" =>
        /\ \A r \in rows : r[2] = NoSub /\ announced[r[1]] = 0
        /\ stage = "notify" => status[row[1]] # "unpaid"

IInv == TypeOK /\ PaidOnce /\ Stopping /\ Stopped /\ Announced /\ Announcing

-------------------------------------------------------------------------------
\* A row is a pair of an invoice and a subscription or none.
LEMMA RowParts ==
    \A r \in Rows : /\ r[1] \in Invoices /\ r[2] \in Subs \cup {NoSub}
                    /\ r = <<r[1], r[2]>> /\ r # Nothing
BY DEF Rows, Nothing

\* Time and numbers.
LEMMA Numbers ==
    ASSUME DunningAssumption
    PROVE  /\ Due \in [Invoices -> Int] /\ ItemsOf \in [Invoices -> SUBSET Subs]
           /\ \A i \in Invoices : Due[i] \in Int /\ 0 <= Due[i] /\ Due[i] < Never
           /\ Never \in Int /\ Never = MaxDay + 1 /\ Days \subseteq Int /\ Never \notin Days
           /\ SuspendAfter \in Int /\ SuspendAfter > 0
           /\ TerminateAfter \in Int /\ TerminateAfter > 0
BY DEF DunningAssumption, Days, Never

\* What a run selects are rows; rows to suspend or terminate are charged on an
\* invoice that is overdue for days.
LEMMA Selections ==
    ASSUME DunningAssumption, TypeOK
    PROVE  /\ \A S \in SUBSET Invoices : Whole(S) \subseteq Rows /\ \A r \in Whole(S) : r[1] \in S /\ r[2] = NoSub
           /\ ToSuspend \subseteq Rows /\ ToTerminate \subseteq Rows
           /\ \A r \in ToSuspend \cup ToTerminate :
                 r[2] \in ItemsOf[r[1]] /\ status[r[1]] = "overdue" /\ Due[r[1]] < day
           /\ Upcoming \subseteq Invoices /\ JustOverdue \subseteq Invoices
           /\ \A i \in JustOverdue : status[i] = "unpaid"
           /\ \A n : ReminderDue(n) \subseteq Invoices
<1>1. \A n : OverdueFor(n) \subseteq Invoices
  BY DEF OverdueFor
<1>2. \A n \in Nat \ {0} : \A i \in OverdueFor(n) : status[i] = "overdue" /\ Due[i] < day
  BY Numbers DEF OverdueFor, TypeOK, Days
<1>3. \A S \in SUBSET Invoices : \A states : \A r \in Charged(S, states) :
         r \in Rows /\ r[1] \in S /\ r[2] \in ItemsOf[r[1]]
  BY DEF Charged, Rows
<1>4. SuspendAfter \in Nat \ {0} /\ TerminateAfter \in Nat \ {0}
  BY DEF DunningAssumption
<1>5. /\ ToSuspend \subseteq Rows /\ ToTerminate \subseteq Rows
      /\ \A r \in ToSuspend \cup ToTerminate :
            r[2] \in ItemsOf[r[1]] /\ status[r[1]] = "overdue" /\ Due[r[1]] < day
  BY <1>1, <1>2, <1>3, <1>4 DEF ToSuspend, ToTerminate
<1>6. \A S \in SUBSET Invoices : Whole(S) \subseteq Rows /\ \A r \in Whole(S) : r[1] \in S /\ r[2] = NoSub
  BY DEF Whole, Rows
<1>7. /\ Upcoming \subseteq Invoices /\ JustOverdue \subseteq Invoices
      /\ \A i \in JustOverdue : status[i] = "unpaid"
      /\ \A n : ReminderDue(n) \subseteq Invoices
  BY DEF Upcoming, JustOverdue, ReminderDue
<1>. QED BY <1>5, <1>6, <1>7

LEMMA InitInv == ASSUME DunningAssumption, Init PROVE IInv
<1>1. day \in Days /\ missed \in 0..MaxMissed
  BY DEF Init, Days, DunningAssumption
<1>2. TypeOK
  BY <1>1 DEF Init, TypeOK, Phases
<1>. QED
  BY <1>2 DEF Init, IInv, PaidOnce, Stopping, Stopped, Announced, Announcing

-------------------------------------------------------------------------------
(* Type correctness. *)

LEMMA SelectType ==
    ASSUME DunningAssumption, TypeOK, NEW S \in SUBSET Rows, Select(S), left' \subseteq RemindAfter,
           stage = "select", phase # "idle"
    PROVE  TypeOK'
<1>1. rows' \subseteq Rows /\ stage' = "loop"
  BY DEF Select
<1>2. row' = Nothing /\ row = row'
  BY DEF Select, TypeOK
<1>. QED BY <1>1, <1>2 DEF Select, TypeOK, books, history

LEMMA ActType ==
    ASSUME DunningAssumption, TypeOK, NEW r \in Rows, stage = "loop", r \in rows, Act(r),
           status' \in [Invoices -> {"unpaid", "overdue", "paid"}],
           sub' \in [Subs -> {"active", "suspended", "terminated"}],
           stopped' \subseteq Subs
    PROVE  TypeOK'
BY RowParts DEF Act, TypeOK

LEMMA NextType == ASSUME DunningAssumption, TypeOK, Stopping, [Next]_vars PROVE TypeOK'
<1>1. CASE StartRun
  BY <1>1 DEF StartRun, TypeOK, Phases, books, history
<1>2. CASE SelectRows
  BY <1>2, Selections, SelectType DEF SelectRows, TypeOK
<1>3. CASE SelectReminders
  BY <1>3, Selections, SelectType DEF SelectReminders, TypeOK
<1>4. ASSUME NEW r \in Rows, Remind(r) PROVE TypeOK'
  BY <1>4, ActType DEF Remind, TypeOK
<1>5. ASSUME NEW r \in Rows, Mark(r) PROVE TypeOK'
  <2>1. status' \in [Invoices -> {"unpaid", "overdue", "paid"}]
    BY <1>5, RowParts DEF Mark, TypeOK
  <2>. QED BY <1>5, <2>1, ActType DEF Mark, TypeOK
<1>6. ASSUME NEW r \in Rows, NEW states, NEW to \in {"suspended", "terminated"}, r[2] \in Subs,
             Stop(r, states, to)
      PROVE  TypeOK'
  <2>1. sub' \in [Subs -> {"active", "suspended", "terminated"}] /\ stopped' \subseteq Subs
    BY <1>6, RowParts DEF Stop, TypeOK
  <2>. QED BY <1>6, <2>1, ActType DEF Stop, TypeOK
<1>7. CASE Notify
  <2>1. row \in Rows /\ row[1] \in Invoices
    BY <1>7, RowParts DEF Notify, TypeOK
  <2>2. announced' \in [Invoices -> Nat]
    BY <1>7, <2>1 DEF Notify, TypeOK
  <2>. QED BY <1>7, <2>2 DEF Notify, TypeOK, books, history
<1>8. CASE NotifyFails
  BY <1>8 DEF NotifyFails, TypeOK, books, history
<1>9. CASE NextPhase
  BY <1>9 DEF NextPhase, TypeOK, Phases, books, history
<1>10. CASE Crash
  BY <1>10 DEF Crash, TypeOK, Phases, books, history
<1>11. CASE NewDay
  <2>1. day' \in Days /\ missed' \in 0..MaxMissed
    BY <1>11 DEF NewDay, TypeOK, Days, DunningAssumption
  <2>. QED BY <1>11, <2>1 DEF NewDay, TypeOK, books, run, history
<1>12. ASSUME NEW i \in Invoices, PayByBalance(i) \/ CreatePayment(i) \/ GatewayPays(i) PROVE TypeOK'
  BY <1>12 DEF PayByBalance, CreatePayment, GatewayPays, Settle, TypeOK, run, history
<1>13. ASSUME NEW u \in Subs, ChangeSub(u) PROVE TypeOK'
  BY <1>13 DEF ChangeSub, TypeOK, run, history
<1>14. CASE UNCHANGED vars
  BY <1>14 DEF vars, books, run, history, TypeOK
<1>15. ASSUME NEW r \in Rows, Suspend(r) \/ Terminate(r) PROVE TypeOK'
  <2>1. r[2] \in Subs
    BY <1>15, RowParts, Numbers DEF Suspend, Terminate, Stop, Stopping
  <2>. QED BY <1>6, <1>15, <2>1 DEF Suspend, Terminate
<1>. QED
  BY <1>1, <1>2, <1>3, <1>4, <1>5, <1>7, <1>8, <1>9, <1>10, <1>11, <1>12, <1>13, <1>14, <1>15
     DEF Next, Run

-------------------------------------------------------------------------------
(* Harmlessness. *)

\* What a step does to an invoice, and to the day.
LEMMA InvoiceSteps ==
    ASSUME TypeOK, [Next]_vars
    PROVE  /\ day' = day \/ day' = day + 1
           /\ \A i \in Invoices :
                 \/ status'[i] = status[i] /\ paidOn'[i] = paidOn[i]
                 \/ status'[i] = "paid" /\ paidOn'[i] = IF paidOn[i] = Never THEN day ELSE paidOn[i]
                 \/ /\ status[i] = "unpaid" /\ status'[i] = "overdue" /\ paidOn'[i] = paidOn[i]
                    /\ phase = "marking" /\ day' = day
<1> DEFINE Kept == day' = day /\ status' = status /\ paidOn' = paidOn
<1>1. CASE StartRun \/ NextPhase \/ Notify \/ NotifyFails \/ Crash \/ UNCHANGED vars
  <2>. Kept
    BY <1>1 DEF StartRun, NextPhase, Notify, NotifyFails, Crash, vars, books, history
  <2>. QED OBVIOUS
<1>2. CASE SelectRows \/ SelectReminders
  <2>. Kept
    BY <1>2 DEF SelectRows, SelectReminders, Select, books, history
  <2>. QED OBVIOUS
<1>3. ASSUME NEW r \in Rows, Remind(r) \/ Suspend(r) \/ Terminate(r) PROVE Kept
  BY <1>3 DEF Remind, Suspend, Terminate, Stop, Act
<1>4. ASSUME NEW r \in Rows, Mark(r)
      PROVE  /\ day' = day /\ paidOn' = paidOn /\ phase = "marking"
             /\ \A i \in Invoices : \/ status'[i] = status[i]
                                    \/ status[i] = "unpaid" /\ status'[i] = "overdue"
  BY <1>4 DEF Mark, Act, TypeOK
<1>5. CASE NewDay
  BY <1>5 DEF NewDay, books, history
<1>6. ASSUME NEW j \in Invoices, PayByBalance(j) \/ GatewayPays(j)
      PROVE  /\ day' = day
             /\ \A i \in Invoices :
                   \/ status'[i] = status[i] /\ paidOn'[i] = paidOn[i]
                   \/ status'[i] = "paid" /\ paidOn'[i] = IF paidOn[i] = Never THEN day ELSE paidOn[i]
  BY <1>6 DEF PayByBalance, GatewayPays, Settle, TypeOK
<1>7. ASSUME NEW j \in Invoices, CreatePayment(j) PROVE Kept
  BY <1>7 DEF CreatePayment, history
<1>8. ASSUME NEW u \in Subs, ChangeSub(u) PROVE Kept
  BY <1>8 DEF ChangeSub, history
<1>. QED
  BY <1>1, <1>2, <1>3, <1>4, <1>5, <1>6, <1>7, <1>8 DEF Next, Run

LEMMA NextPaidOnce ==
    ASSUME DunningAssumption, TypeOK, PaidOnce, [Next]_vars PROVE PaidOnce'
<1>1. day # Never /\ Never' = Never
  BY Numbers DEF TypeOK, Never
<1>. QED BY <1>1, InvoiceSteps DEF PaidOnce

\* It is never too early again.
LEMMA LateStays ==
    ASSUME DunningAssumption, TypeOK, [Next]_vars, NEW i \in Invoices, PaidLate(i)
    PROVE  PaidLate(i)'
<1>1. day \in Int /\ Due[i] \in Int /\ paidOn[i] \in Int /\ Never \in Int
  BY Numbers DEF TypeOK
<1>2. paidOn'[i] = paidOn[i] \/ paidOn'[i] = day
  BY InvoiceSteps
<1>3. day' = day \/ day' = day + 1
  BY InvoiceSteps
<1>. QED BY <1>1, <1>2, <1>3 DEF PaidLate

\* The rows of a run are replaced when it selects and only dropped after that.
LEMMA RowSteps ==
    ASSUME TypeOK, [Next]_vars
    PROVE  \/ phase' = phase /\ rows' \subseteq rows
           \/ rows' = {}
           \/ phase' = phase /\ (SelectRows \/ SelectReminders)
<1> DEFINE Dropped == phase' = phase /\ rows' \subseteq rows
<1>1. CASE StartRun
  BY <1>1 DEF StartRun, TypeOK
<1>2. CASE Notify \/ NotifyFails \/ NewDay \/ UNCHANGED vars
  <2>. Dropped
    BY <1>2 DEF Notify, NotifyFails, NewDay, vars, run
  <2>. QED OBVIOUS
<1>3. CASE NextPhase \/ Crash
  BY <1>3 DEF NextPhase, Crash
<1>4. CASE SelectRows \/ SelectReminders
  BY <1>4 DEF SelectRows, SelectReminders, Select
<1>5. ASSUME NEW r \in Rows, Remind(r) \/ Mark(r) \/ Suspend(r) \/ Terminate(r) PROVE Dropped
  BY <1>5 DEF Remind, Mark, Suspend, Terminate, Stop, Act
<1>6. ASSUME NEW i \in Invoices, PayByBalance(i) \/ CreatePayment(i) \/ GatewayPays(i) PROVE Dropped
  BY <1>6 DEF PayByBalance, CreatePayment, GatewayPays, run
<1>7. ASSUME NEW u \in Subs, ChangeSub(u) PROVE Dropped
  BY <1>7 DEF ChangeSub, run
<1>. QED
  BY <1>1, <1>2, <1>3, <1>4, <1>5, <1>6, <1>7 DEF Next, Run

\* An overdue invoice was not paid in time.
LEMMA OverdueIsLate ==
    ASSUME DunningAssumption, TypeOK, PaidOnce, NEW i \in Invoices, status[i] = "overdue", Due[i] < day
    PROVE  PaidLate(i)
BY Numbers DEF PaidOnce, PaidLate

LEMMA NextStopping ==
    ASSUME DunningAssumption, TypeOK, PaidOnce, Stopping, [Next]_vars PROVE Stopping'
<1> SUFFICES ASSUME phase' \in {"suspend", "terminate"}, NEW r \in rows'
             PROVE  r[2] \in ItemsOf[r[1]] /\ PaidLate(r[1])'
  BY DEF Stopping
<1>1. CASE phase' = phase /\ rows' \subseteq rows
  <2>1. r \in rows /\ r[1] \in Invoices
    BY <1>1, RowParts DEF TypeOK
  <2>2. r[2] \in ItemsOf[r[1]] /\ PaidLate(r[1])
    BY <1>1, <2>1 DEF Stopping
  <2>. QED BY <2>1, <2>2, LateStays
<1>2. CASE phase' = phase /\ (SelectRows \/ SelectReminders)
  <2>1. r \in ToSuspend \cup ToTerminate
    BY <1>2 DEF SelectRows, SelectReminders, Select
  <2>2. r[1] \in Invoices /\ r[2] \in ItemsOf[r[1]] /\ status[r[1]] = "overdue" /\ Due[r[1]] < day
    BY <2>1, Selections, RowParts
  <2>. QED BY <2>2, OverdueIsLate, LateStays
<1>. QED BY <1>1, <1>2, RowSteps

LEMMA NextStopped ==
    ASSUME DunningAssumption, TypeOK, PaidOnce, Stopping, Stopped, [Next]_vars PROVE Stopped'
<1>1. ASSUME NEW u \in stopped
      PROVE  \E i \in Invoices : u \in ItemsOf[i] /\ PaidLate(i)'
  BY <1>1, LateStays DEF Stopped
<1>2. ASSUME NEW r \in Rows, Suspend(r) \/ Terminate(r)
      PROVE  stopped' \subseteq stopped \cup {r[2]} /\ r[1] \in Invoices /\ r[2] \in ItemsOf[r[1]] /\ PaidLate(r[1])'
  <2>1. stopped' \subseteq stopped \cup {r[2]}
    BY <1>2 DEF Suspend, Terminate, Stop
  <2>2. r[1] \in Invoices /\ r[2] \in ItemsOf[r[1]] /\ PaidLate(r[1])
    BY <1>2, RowParts DEF Suspend, Terminate, Stop, Stopping
  <2>. QED BY <2>1, <2>2, LateStays
<1>3. \/ stopped' = stopped
      \/ \E r \in Rows : Suspend(r) \/ Terminate(r)
  <2>1. CASE StartRun \/ NextPhase \/ Notify \/ NotifyFails \/ Crash \/ NewDay \/ UNCHANGED vars
    BY <2>1 DEF StartRun, NextPhase, Notify, NotifyFails, Crash, NewDay, vars, history
  <2>2. CASE SelectRows \/ SelectReminders
    BY <2>2 DEF SelectRows, SelectReminders, Select, history
  <2>3. ASSUME NEW r \in Rows, Remind(r) \/ Mark(r) PROVE stopped' = stopped
    BY <2>3 DEF Remind, Mark
  <2>4. ASSUME NEW i \in Invoices, PayByBalance(i) \/ CreatePayment(i) \/ GatewayPays(i)
        PROVE  stopped' = stopped
    BY <2>4 DEF PayByBalance, CreatePayment, GatewayPays, history
  <2>5. ASSUME NEW u \in Subs, ChangeSub(u) PROVE stopped' = stopped
    BY <2>5 DEF ChangeSub, history
  <2>. QED
    BY <2>1, <2>2, <2>3, <2>4, <2>5 DEF Next, Run
<1>4. CASE stopped' = stopped
  BY <1>1, <1>4 DEF Stopped
<1>5. ASSUME NEW r \in Rows, Suspend(r) \/ Terminate(r) PROVE Stopped'
  BY <1>1, <1>2, <1>5 DEF Stopped
<1>. QED BY <1>3, <1>4, <1>5

\* Rows that a run marks are announced for the first time, and once.
LEMMA NextAnnounced ==
    ASSUME DunningAssumption, TypeOK, Announced, Announcing, [Next]_vars
    PROVE  Announced' /\ Announcing'
<1> DEFINE Quiet == announced' = announced /\ row' = row /\ stage' = stage
<1>1. \A i \in Invoices : status[i] # "unpaid" => status'[i] # "unpaid"
  BY InvoiceSteps DEF TypeOK
<1>2. row \in rows \cup {Nothing} /\ (stage = "notify" => row \in rows) /\ rows \subseteq Rows
  BY DEF TypeOK
<1>3. ASSUME announced' = announced PROVE Announced'
  BY <1>1, <1>3 DEF Announced
<1>4. CASE Notify
  <2>1. row \in rows /\ row[1] \in Invoices /\ announced \in [Invoices -> Nat] /\ status' = status
    BY <1>2, <1>4, RowParts DEF Notify, TypeOK, books
  <2>2. CASE phase = "marking"
    <3>1. announced[row[1]] = 0 /\ status[row[1]] # "unpaid"
      BY <1>4, <2>1, <2>2 DEF Notify, Announcing
    <3>2. announced' = [announced EXCEPT ![row[1]] = 1]
      BY <1>4, <2>1, <2>2, <3>1 DEF Notify
    <3>3. Announced'
      BY <2>1, <3>1, <3>2 DEF Announced
    <3>4. ASSUME NEW r \in rows \ {row} PROVE r[2] = NoSub /\ announced'[r[1]] = 0
      <4>1. r[2] = NoSub /\ announced[r[1]] = 0 /\ row[2] = NoSub
        BY <2>1, <2>2 DEF Announcing
      <4>2. r[1] \in Invoices /\ r[1] # row[1]
        BY <1>2, <2>1, <4>1, RowParts
      <4>. QED BY <2>1, <3>2, <4>1, <4>2
    <3>. QED BY <1>4, <3>3, <3>4 DEF Notify, Announcing
  <2>3. CASE phase # "marking"
    <3>1. announced' = announced
      BY <1>4, <2>1, <2>3 DEF Notify
    <3>. QED BY <1>3, <1>4, <2>3, <3>1 DEF Notify, Announcing
  <2>. QED BY <2>2, <2>3
<1>5. CASE StartRun \/ NextPhase \/ NotifyFails \/ Crash
  <2>1. announced' = announced
    BY <1>5 DEF StartRun, NextPhase, NotifyFails, Crash
  <2>2. stage' # "notify" /\ ((rows' \subseteq rows /\ phase' = phase) \/ rows' = {} \/ phase' # "marking")
    BY <1>5 DEF StartRun, NextPhase, NotifyFails, Crash, TypeOK
  <2>3. Announcing'
    BY <2>1, <2>2 DEF Announcing
  <2>. QED BY <1>3, <2>1, <2>3
<1>6. CASE SelectRows \/ SelectReminders
  <2>1. announced' = announced /\ stage' = "loop" /\ phase' = phase
    BY <1>6 DEF SelectRows, SelectReminders, Select
  <2>2. phase = "marking" => \A r \in rows' : r[2] = NoSub /\ r[1] \in Invoices /\ status[r[1]] = "unpaid"
    <3>1. phase = "marking" => rows' \subseteq Whole(JustOverdue)
      BY <1>6 DEF SelectRows, SelectReminders, Select
    <3>. QED BY <3>1, Selections
  <2>3. Announcing'
    BY <2>1, <2>2 DEF Announcing, Announced
  <2>. QED BY <1>3, <2>1, <2>3
<1>7. ASSUME NEW r \in Rows, Remind(r) \/ Suspend(r) \/ Terminate(r)
      PROVE  announced' = announced /\ phase' # "marking"
  BY <1>7 DEF Remind, Suspend, Terminate, Stop, Act
<1>8. ASSUME NEW r \in Rows, Mark(r)
      PROVE  announced' = announced /\ Announcing'
  <2>1. announced' = announced /\ rows' = rows /\ phase' = phase /\ row' = r /\ r[1] \in Invoices
    BY <1>8, RowParts DEF Mark, Act
  <2>2. status'[r[1]] # "unpaid"
    BY <1>8, <2>1 DEF Mark, TypeOK
  <2>. QED BY <1>8, <2>1, <2>2 DEF Announcing, Mark
<1>9. ASSUME NEW i \in Invoices, PayByBalance(i) \/ CreatePayment(i) \/ GatewayPays(i)
      PROVE  Quiet /\ rows' = rows /\ phase' = phase
  BY <1>9 DEF PayByBalance, CreatePayment, GatewayPays, run
<1>10. ASSUME NEW u \in Subs, ChangeSub(u) PROVE Quiet /\ rows' = rows /\ phase' = phase
  BY <1>10 DEF ChangeSub, run
<1>11. NewDay \/ UNCHANGED vars => Quiet /\ rows' = rows /\ phase' = phase
  BY DEF NewDay, vars, run, history
<1>12. CASE Quiet /\ rows' = rows /\ phase' = phase
  <2>1. stage = "notify" => row[1] \in Invoices
    BY <1>2, RowParts
  <2>2. Announcing'
    BY <1>1, <1>12, <2>1 DEF Announcing
  <2>. QED BY <1>3, <1>12, <2>2
<1>13. CASE announced' = announced /\ phase' # "marking"
  BY <1>3, <1>13 DEF Announcing
<1>. QED
  BY <1>3, <1>4, <1>5, <1>6, <1>7, <1>8, <1>9, <1>10, <1>11, <1>12, <1>13 DEF Next, Run

LEMMA NextInv == ASSUME DunningAssumption, IInv, [Next]_vars PROVE IInv'
BY NextType, NextPaidOnce, NextStopping, NextStopped, NextAnnounced DEF IInv

\* The invariant holds of every state of every run.
THEOREM Invariance == ASSUME DunningAssumption PROVE Spec => []IInv
BY InitInv, NextInv, PTL DEF Spec

\* Types of the tables and of the run.
THEOREM TypeCorrect == ASSUME DunningAssumption PROVE Spec => []TypeOK
<1>1. IInv => TypeOK
  BY DEF IInv
<1>. QED BY <1>1, Invariance, PTL

\* Whoever pays in time keeps the service, whatever the run had selected before,
\* and no invoice is announced as overdue twice.
THEOREM Harmless == ASSUME DunningAssumption PROVE Spec => []LateRunsDoNoHarm
<1>1. IInv => LateRunsDoNoHarm
  BY DEF IInv, Stopped, PaidLate, Announced, LateRunsDoNoHarm, PaidInTimeKeepsService, AnnouncedOnce
<1>. QED BY <1>1, Invariance, PTL

-------------------------------------------------------------------------------
(* Escalation, when there is a run on each day and room in its batches. *)

Fits(S) == IsFiniteSet(S) /\ Cardinality(S) <= BatchSize
Charges == {r \in Invoices \X Subs : r[2] \in ItemsOf[r[1]]}
EachDay == Prompt /\ MaxMissed = 0 /\ Fits(Whole(Invoices)) /\ Fits(Charges)

\* What a run has still to terminate.
Left(i, u) ==
    /\ status[i] = "overdue" /\ Due[i] + TerminateAfter <= day
    /\ u \in ItemsOf[i] /\ sub[u] # "terminated"

\* A run past its marking, or done for today, has left nothing unpaid behind.
Past == phase \in {"reminders", "suspend", "terminate"} \/ (phase = "idle" /\ ran)
AllMarked == Past => \A i \in Invoices : Due[i] < day => status[i] # "unpaid"
ToMark ==
    phase = "marking" /\ stage # "select" =>
        \A i \in Invoices : Due[i] < day /\ status[i] = "unpaid" => <<i, NoSub>> \in rows
AllTerminated == phase = "idle" /\ ran => \A i \in Invoices, u \in Subs : ~Left(i, u)
Terminating ==
    phase = "terminate" /\ stage # "select" =>
        \A i \in Invoices, u \in Subs : Left(i, u) => <<i, u>> \in rows \ {row}

Escalation ==
    /\ OverdueIsMarked /\ LongOverdueIsTerminated
    /\ AllMarked /\ ToMark /\ AllTerminated /\ Terminating

LEMMA InitEscalation == ASSUME DunningAssumption, Init PROVE Escalation
BY Numbers DEF Init, Escalation, OverdueIsMarked, LongOverdueIsTerminated, AllMarked, ToMark,
   AllTerminated, Terminating, Past

\* A batch with room holds everything.
LEMMA Room ==
    ASSUME DunningAssumption, NEW All, Fits(All), NEW S \in SUBSET All, NEW B, Limited(S, B)
    PROVE  B = S
<1>1. IsFiniteSet(S) /\ Cardinality(S) <= Cardinality(All)
  BY FS_Subset DEF Fits
<1>2. Cardinality(S) \in Int /\ Cardinality(All) \in Int /\ BatchSize \in Int
  BY <1>1, FS_CardinalityType DEF Fits, DunningAssumption
<1>. QED BY <1>1, <1>2 DEF Fits, Limited

\* The day changes between runs, and after one.
LEMMA DaySteps ==
    ASSUME DunningAssumption, EachDay, TypeOK, [Next]_vars, day' # day
    PROVE  /\ day' = day + 1 /\ phase = "idle" /\ phase' = "idle" /\ ran /\ ~ran'
           /\ status' = status /\ sub' = sub /\ stage' = stage
<1>1. CASE StartRun \/ NextPhase \/ Notify \/ NotifyFails \/ Crash \/ UNCHANGED vars
  BY <1>1 DEF StartRun, NextPhase, Notify, NotifyFails, Crash, vars
<1>2. CASE SelectRows \/ SelectReminders
  BY <1>2 DEF SelectRows, SelectReminders, Select
<1>3. ASSUME NEW r \in Rows, Remind(r) \/ Mark(r) \/ Suspend(r) \/ Terminate(r) PROVE FALSE
  BY <1>3 DEF Remind, Mark, Suspend, Terminate, Stop, Act
<1>4. ASSUME NEW j \in Invoices, PayByBalance(j) \/ GatewayPays(j) \/ CreatePayment(j) PROVE FALSE
  BY <1>4 DEF PayByBalance, GatewayPays, CreatePayment
<1>5. ASSUME NEW u \in Subs, ChangeSub(u) PROVE FALSE
  BY <1>5 DEF ChangeSub
<1>6. CASE NewDay
  <2>1. ~(missed < MaxMissed)
    BY DEF EachDay, TypeOK
  <2>. QED BY <1>6, <2>1 DEF NewDay, EachDay, books, run
<1>. QED
  BY <1>1, <1>2, <1>3, <1>4, <1>5, <1>6 DEF Next, Run

\* A subscription that is terminated stays so.
LEMMA TerminatedStays ==
    ASSUME DunningAssumption, TypeOK, Stopping, [Next]_vars, NEW u \in Subs, sub[u] = "terminated"
    PROVE  sub'[u] = "terminated"
<1>1. CASE StartRun \/ NextPhase \/ Notify \/ NotifyFails \/ Crash \/ NewDay \/ UNCHANGED vars
  BY <1>1 DEF StartRun, NextPhase, Notify, NotifyFails, Crash, NewDay, vars, books
<1>2. CASE SelectRows \/ SelectReminders
  BY <1>2 DEF SelectRows, SelectReminders, Select, books
<1>3. ASSUME NEW r \in Rows, Remind(r) \/ Mark(r) \/ Suspend(r) \/ Terminate(r) PROVE sub'[u] = "terminated"
  BY <1>3 DEF Remind, Mark, Suspend, Terminate, Stop, TypeOK
<1>4. ASSUME NEW j \in Invoices, PayByBalance(j) \/ GatewayPays(j) \/ CreatePayment(j) PROVE sub' = sub
  BY <1>4 DEF PayByBalance, GatewayPays, CreatePayment
<1>5. ASSUME NEW v \in Subs, ChangeSub(v) PROVE sub'[u] = "terminated"
  BY <1>5 DEF ChangeSub, TypeOK
<1>. QED
  BY <1>1, <1>2, <1>3, <1>4, <1>5 DEF Next, Run

\* What is left to terminate grows with the day and by marking only.
LEMMA LeftSteps ==
    ASSUME DunningAssumption, TypeOK, Stopping, [Next]_vars, NEW i \in Invoices, NEW u \in Subs,
           Left(i, u)', day' = day, phase # "marking"
    PROVE  Left(i, u)
<1>1. status[i] = "overdue"
  BY InvoiceSteps DEF Left
<1>2. sub[u] # "terminated"
  BY TerminatedStays DEF Left
<1>. QED BY <1>1, <1>2 DEF Left

\* A run passes from phase to phase when its rows are done.
LEMMA PhaseSteps ==
    ASSUME EachDay, TypeOK, [Next]_vars, phase' # phase \/ ran' # ran
    PROVE  \/ phase' = "upcoming" /\ stage' = "select"
           \/ phase' = "idle" /\ ~ran'
           \/ NextPhase
<1>1. CASE StartRun
  BY <1>1 DEF StartRun, TypeOK
<1>2. CASE Crash \/ NewDay
  BY <1>2 DEF Crash, NewDay, run, EachDay, TypeOK
<1>3. CASE Notify \/ NotifyFails \/ UNCHANGED vars
  BY <1>3 DEF Notify, NotifyFails, vars, run
<1>4. CASE SelectRows \/ SelectReminders
  BY <1>4 DEF SelectRows, SelectReminders, Select
<1>5. ASSUME NEW r \in Rows, Remind(r) \/ Mark(r) \/ Suspend(r) \/ Terminate(r) PROVE FALSE
  BY <1>5 DEF Remind, Mark, Suspend, Terminate, Stop, Act
<1>6. ASSUME NEW i \in Invoices, PayByBalance(i) \/ CreatePayment(i) \/ GatewayPays(i) PROVE FALSE
  BY <1>6 DEF PayByBalance, CreatePayment, GatewayPays, run
<1>7. ASSUME NEW u \in Subs, ChangeSub(u) PROVE FALSE
  BY <1>7 DEF ChangeSub, run
<1>. QED
  BY <1>1, <1>2, <1>3, <1>4, <1>5, <1>6, <1>7 DEF Next, Run

\* A loop begins with a selection, and ends row by row.
LEMMA LoopSteps ==
    ASSUME TypeOK, [Next]_vars, stage' # "select"
    PROVE  /\ phase' = phase
           /\ \/ SelectRows \/ SelectReminders
              \/ /\ stage # "select"
                 /\ \/ rows' = rows /\ row' = row
                    \/ stage = "notify" /\ rows' = rows \ {row} /\ row' = Nothing
                    \/ \E r \in Rows : Remind(r) \/ Mark(r) \/ Suspend(r) \/ Terminate(r)
<1>1. CASE StartRun
  BY <1>1 DEF StartRun, TypeOK
<1>2. CASE Crash \/ NextPhase
  BY <1>2 DEF Crash, NextPhase
<1>3. CASE Notify \/ NotifyFails \/ NewDay \/ UNCHANGED vars
  BY <1>3 DEF Notify, NotifyFails, NewDay, vars, run
<1>4. CASE SelectRows \/ SelectReminders
  BY <1>4 DEF SelectRows, SelectReminders, Select
<1>5. ASSUME NEW r \in Rows, Remind(r) \/ Mark(r) \/ Suspend(r) \/ Terminate(r)
      PROVE  phase' = phase /\ stage # "select"
  BY <1>5 DEF Remind, Mark, Suspend, Terminate, Stop, Act
<1>6. ASSUME NEW i \in Invoices, PayByBalance(i) \/ CreatePayment(i) \/ GatewayPays(i)
      PROVE  phase' = phase /\ stage = stage' /\ rows' = rows /\ row' = row
  BY <1>6 DEF PayByBalance, CreatePayment, GatewayPays, run
<1>7. ASSUME NEW u \in Subs, ChangeSub(u)
      PROVE  phase' = phase /\ stage = stage' /\ rows' = rows /\ row' = row
  BY <1>7 DEF ChangeSub, run
<1>. QED
  BY <1>1, <1>2, <1>3, <1>4, <1>5, <1>6, <1>7 DEF Next, Run

LEMMA Dated ==
    ASSUME DunningAssumption, TypeOK
    PROVE  day \in Int /\ TerminateAfter \in Int /\ TerminateAfter >= 1 /\ \A i \in Invoices : Due[i] \in Int
BY Numbers DEF TypeOK

LEMMA NextMarked ==
    ASSUME DunningAssumption, EachDay, IInv, Escalation, [Next]_vars PROVE OverdueIsMarked'
<1> SUFFICES ASSUME NEW i \in Invoices, day' > Due[i] + 1 PROVE status'[i] # "unpaid"
  BY DEF OverdueIsMarked
<1>. TypeOK
  BY DEF IInv
<1>1. CASE day' = day
  BY <1>1, InvoiceSteps DEF Escalation, OverdueIsMarked
<1>2. CASE day' # day
  <2>1. Due[i] < day
    BY <1>2, DaySteps, Dated
  <2>2. status[i] # "unpaid"
    BY <1>2, <2>1, DaySteps DEF Escalation, AllMarked, Past
  <2>. QED BY <1>2, <2>2, DaySteps
<1>. QED BY <1>1, <1>2

LEMMA NextTerminated ==
    ASSUME DunningAssumption, EachDay, IInv, Escalation, [Next]_vars PROVE LongOverdueIsTerminated'
<1> SUFFICES ASSUME NEW i \in Invoices, NEW u \in Subs, status'[i] = "overdue",
                    day' > Due[i] + TerminateAfter, u \in ItemsOf[i]
             PROVE  sub'[u] = "terminated"
  BY DEF LongOverdueIsTerminated
<1>. TypeOK /\ Stopping
  BY DEF IInv
<1>1. CASE day' = day
  <2>1. status[i] # "unpaid"
    BY <1>1, Dated DEF Escalation, OverdueIsMarked
  <2>2. status[i] = "overdue"
    BY <2>1, InvoiceSteps
  <2>3. sub[u] = "terminated"
    BY <1>1, <2>2 DEF Escalation, LongOverdueIsTerminated
  <2>. QED BY <2>3, TerminatedStays
<1>2. CASE day' # day
  <2>1. Due[i] + TerminateAfter <= day
    BY <1>2, DaySteps, Dated
  <2>2. ~Left(i, u)
    BY <1>2, DaySteps DEF Escalation, AllTerminated
  <2>. QED BY <1>2, <2>1, <2>2, DaySteps DEF Left
<1>. QED BY <1>1, <1>2

LEMMA NextAllMarked ==
    ASSUME DunningAssumption, EachDay, IInv, Escalation, [Next]_vars PROVE AllMarked'
<1> SUFFICES ASSUME Past', NEW i \in Invoices, Due[i] < day', status'[i] = "unpaid" PROVE FALSE
  BY DEF AllMarked
<1>. TypeOK
  BY DEF IInv
<1>1. day' = day
  BY DaySteps DEF Past
<1>2. status[i] = "unpaid" /\ Due[i] < day
  BY <1>1, InvoiceSteps
<1>3. ~Past
  BY <1>2 DEF Escalation, AllMarked
<1>4. NextPhase
  BY <1>3, PhaseSteps DEF Past
<1>5. phase = "marking" /\ stage = "loop" /\ rows = {}
  BY <1>3, <1>4 DEF NextPhase, Past
<1>. QED BY <1>2, <1>5 DEF Escalation, ToMark

LEMMA NextToMark ==
    ASSUME DunningAssumption, EachDay, IInv, Escalation, [Next]_vars PROVE ToMark'
<1> SUFFICES ASSUME phase' = "marking", stage' # "select", NEW i \in Invoices, Due[i] < day',
                    status'[i] = "unpaid"
             PROVE  <<i, NoSub>> \in rows'
  BY DEF ToMark
<1>. TypeOK
  BY DEF IInv
<1>1. phase = "marking" /\ day' = day
  BY LoopSteps, DaySteps
<1>2. status[i] = "unpaid" /\ Due[i] < day
  BY <1>1, InvoiceSteps
<1>3. CASE SelectRows \/ SelectReminders
  <2>1. Due[i] >= day - 1
    BY <1>2, Dated DEF Escalation, OverdueIsMarked
  <2>2. <<i, NoSub>> \in Whole(JustOverdue)
    BY <1>2, <2>1 DEF Whole, JustOverdue
  <2>3. Select(Whole(JustOverdue)) /\ Whole(JustOverdue) \subseteq Whole(Invoices)
    BY <1>1, <1>3, Selections DEF SelectRows, SelectReminders, Whole
  <2>. QED BY <2>2, <2>3, Room DEF Select, EachDay
<1>4. CASE stage # "select" /\ rows' = rows
  BY <1>1, <1>2, <1>4 DEF Escalation, ToMark
<1>5. CASE stage = "notify" /\ rows' = rows \ {row}
  <2>1. row # <<i, NoSub>>
    BY <1>1, <1>2, <1>5 DEF IInv, Announcing
  <2>. QED BY <1>1, <1>2, <1>5, <2>1 DEF Escalation, ToMark
<1>6. ASSUME NEW r \in Rows, Remind(r) \/ Mark(r) \/ Suspend(r) \/ Terminate(r)
      PROVE  rows' = rows
  BY <1>6 DEF Remind, Mark, Suspend, Terminate, Stop, Act
<1>. QED BY <1>3, <1>4, <1>5, <1>6, LoopSteps

LEMMA NextAllTerminated ==
    ASSUME DunningAssumption, EachDay, IInv, Escalation, [Next]_vars PROVE AllTerminated'
<1> SUFFICES ASSUME phase' = "idle", ran', NEW i \in Invoices, NEW u \in Subs, Left(i, u)' PROVE FALSE
  BY DEF AllTerminated
<1>. TypeOK /\ Stopping
  BY DEF IInv
<1>1. day' = day
  BY DaySteps
<1>2. \/ phase = "idle" /\ ran
      \/ NextPhase /\ phase = "terminate"
  BY PhaseSteps DEF NextPhase, TypeOK
<1>3. Left(i, u)
  BY <1>1, <1>2, LeftSteps
<1>4. CASE phase = "idle" /\ ran
  BY <1>3, <1>4 DEF Escalation, AllTerminated
<1>5. CASE NextPhase /\ phase = "terminate"
  BY <1>3, <1>5 DEF Escalation, Terminating, NextPhase
<1>. QED BY <1>2, <1>4, <1>5

LEMMA NextTerminating ==
    ASSUME DunningAssumption, EachDay, IInv, Escalation, [Next]_vars PROVE Terminating'
<1> SUFFICES ASSUME phase' = "terminate", stage' # "select", NEW i \in Invoices, NEW u \in Subs, Left(i, u)'
             PROVE  <<i, u>> \in rows' \ {row'}
  BY DEF Terminating
<1>. TypeOK /\ Stopping
  BY DEF IInv
<1>1. phase = "terminate" /\ day' = day
  BY LoopSteps, DaySteps
<1>2. Left(i, u) /\ <<i, u>> # Nothing
  BY <1>1, LeftSteps DEF Nothing
<1>3. CASE SelectRows \/ SelectReminders
  <2>1. Select(ToTerminate) /\ ToTerminate \subseteq Charges
    BY <1>1, <1>3 DEF SelectRows, SelectReminders, ToTerminate, Charged, OverdueFor, Charges
  <2>2. i \in OverdueFor(TerminateAfter) /\ sub[u] \in {"active", "suspended"}
    BY <1>2, Dated DEF Left, OverdueFor, TypeOK
  <2>3. <<i, u>> \in ToTerminate
    BY <1>2, <2>2 DEF ToTerminate, Charged, Left
  <2>4. rows' = ToTerminate
    BY <2>1, Room DEF Select, EachDay
  <2>5. row' = Nothing
    BY <1>3, <2>1 DEF Select, SelectRows, SelectReminders, TypeOK
  <2>. QED BY <1>2, <2>3, <2>4, <2>5
<1>4. CASE stage # "select"
  <2>1. <<i, u>> \in rows \ {row}
    BY <1>1, <1>2, <1>4 DEF Escalation, Terminating
  <2>2. CASE rows' = rows /\ row' = row
    BY <2>1, <2>2
  <2>3. CASE rows' = rows \ {row} /\ row' = Nothing
    BY <1>2, <2>1, <2>3
  <2>4. ASSUME NEW r \in Rows, Remind(r) \/ Mark(r) \/ Suspend(r) \/ Terminate(r)
        PROVE  <<i, u>> \in rows' \ {row'}
    <3>1. Terminate(r) /\ rows' = rows /\ row' = r
      BY <1>1, <2>4 DEF Remind, Mark, Suspend, Terminate, Stop, Act
    <3>2. ASSUME r = <<i, u>> PROVE sub'[u] = "terminated"
      BY <3>1, <3>2 DEF Terminate, Stop, TypeOK
    <3>. QED BY <2>1, <3>1, <3>2 DEF Left
  <2>. QED BY <1>3, <2>2, <2>3, <2>4, LoopSteps
<1>. QED BY <1>3, <1>4, LoopSteps

LEMMA NextEscalation ==
    ASSUME DunningAssumption, EachDay, IInv, Escalation, [Next]_vars PROVE Escalation'
BY NextMarked, NextTerminated, NextAllMarked, NextToMark, NextAllTerminated, NextTerminating
   DEF Escalation

\* With a run on each day that finds room for all its rows, what is overdue is
\* marked by the second day and terminated when it has been for long enough,
\* whatever breaks off, is repeated or is changed by hand.
THEOREM Escalates ==
    ASSUME DunningAssumption, EachDay
    PROVE  Spec => [](OverdueIsMarked /\ LongOverdueIsTerminated)
<1>1. Escalation => OverdueIsMarked /\ LongOverdueIsTerminated
  BY DEF Escalation
<1>2. Init => Escalation
  BY InitEscalation
<1>3. IInv /\ Escalation /\ [Next]_vars => Escalation'
  BY NextEscalation
<1>. QED BY <1>1, <1>2, <1>3, Invariance, PTL DEF Spec

===============================================================================
