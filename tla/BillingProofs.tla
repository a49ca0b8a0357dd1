----------------------------- MODULE BillingProofs -----------------------------
(***************************************************************************)
(* For any number of subscriptions, runners, invoicers, periods and crashes:  *)
(* no charge is doubled or skipped, a run without errors left nothing of what *)
(* it found, an invoice and its records name each other, and the runs         *)
(* implement the atomic billing of BillingBook.                               *)
(*                                                                          *)
(* BilledUpTo alone is not inductive: what a run commits was read long before. *)
(* It follows from what protects that reading.  A row that a run still has to  *)
(* update is as its snapshot found it unless it is among those changed since   *)
(* (Fresh); one it has updated stays so, since the others wait (Updated,       *)
(* Exclusive).  That a clean run is complete needs what becomes of the rows    *)
(* it found due, one by one (Accounted), and LinkedIffListed what an invoicer   *)
(* has read and reserved (Reserved, OneOwner).                                 *)
(***************************************************************************)
EXTENDS Billing, TLAPS, FiniteSetTheorems

\* A run holds rows only inside its transaction, and one at a time.
Control ==
    \A r \in Runners :
        /\ pc[r] \notin {"loop", "advance"} => todo[r] = {} /\ wrote[r] = {}
        /\ row[r] = Nothing <=> pc[r] # "advance"

\* No snapshot is of the future.
SeenPast == \A r \in Runners, u \in Subs : seen[r][u] <= today

\* What the commit of a run relies on: the row is still as the snapshot found it.
AsSeen(r, u) == seen[r][u] = next[u] /\ next[u] <= today /\ u \in active

Fresh == \A r \in Runners : \A u \in Subs : u \in ToUpdate(r) /\ u \notin changed[r] => AsSeen(r, u)
Updated == \A r \in Runners : \A u \in wrote[r] : AsSeen(r, u)
Exclusive == \A r, t \in Runners : r # t => wrote[r] \cap wrote[t] = {}

\* While a run has no error, each row it found due is still to be done, or
\* written, or charged by now.
Accounted ==
    \A r \in Runners : pc[r] \in {"loop", "advance", "end"} /\ ~errors[r] =>
        \A u \in due[r] : u \in ToUpdate(r) \cup wrote[r] \/ seen[r][u] < next[u]

\* Each invoicer that has its number inserted has it for itself.
Reserved ==
    \A i \in Invoicers :
        /\ ipc[i] \in {"insert", "link", "commit"} => number[i] \in InvoiceNos
        /\ ipc[i] \in {"link", "commit"} =>
              /\ items[number[i]] = {}
              /\ \A t \in Invoicers \ {i} : ipc[t] \in {"link", "commit"} => number[t] # number[i]

\* It has read billed records of one distributor.
OneOwner ==
    \A i \in Invoicers : \A rec, other \in found[i] :
        billed[rec[1]][rec[2]] > 0 /\ OwnerOf[rec[1]] = OwnerOf[other[1]]

RunInv == Control /\ SeenPast /\ Fresh /\ Updated /\ Exclusive /\ BilledUpTo /\ Accounted
InvoiceInv == Reserved /\ OneOwner /\ LinkedIffListed

IInv == TypeOK /\ RunInv /\ InvoiceInv
USE BillingAssumption

-------------------------------------------------------------------------------
(* Type correctness. *)

\* A count of invoices is a number.
LEMMA CountType ==
  Cardinality({n \in InvoiceNos : items[n] # {}}) \in Nat
<1>1. IsFiniteSet(InvoiceNos)
  BY FS_Interval DEF InvoiceNos
<1>2. IsFiniteSet({n \in InvoiceNos : items[n] # {}})
  BY <1>1, FS_Subset
<1> QED BY <1>2, FS_CardinalityType

LEMMA InitType == Init => TypeOK
BY DEF Init, TypeOK, NoSnapshot, Periods

LEMMA NextType == TypeOK /\ Control /\ SeenPast /\ Reserved /\ [Next]_vars => TypeOK'
<1> SUFFICES ASSUME TypeOK, Control, SeenPast, Reserved, [Next]_vars PROVE TypeOK'
  OBVIOUS
<1> USE DEF TypeOK, Goto, Iget
<1>1. ASSUME NEW r \in Runners, StartRun(r) PROVE TypeOK'
  BY <1>1 DEF StartRun, book, invoices, invoicer, outside
<1>2. ASSUME NEW r \in Runners, AdvisoryLock(r) \/ AdvisoryLockTaken(r) PROVE TypeOK'
  BY <1>2 DEF AdvisoryLock, AdvisoryLockTaken, book, invoices, invoicer, outside
<1>3. ASSUME NEW r \in Runners, Snapshot(r) PROVE TypeOK'
  BY <1>3 DEF Snapshot, Due, book, invoices, invoicer, outside
<1>4. ASSUME NEW r \in Runners, NEW u \in Subs, SkipRow(r, u) \/ InsertRecord(r, u) PROVE TypeOK'
  <2>1. CASE SkipRow(r, u)
    BY <2>1 DEF SkipRow, book, invoices, invoicer, outside
  <2>2. CASE InsertRecord(r, u)
    BY <2>2 DEF InsertRecord, book, invoices, invoicer, outside
  <2> QED BY <1>4, <2>1, <2>2
<1>5. ASSUME NEW r \in Runners, AdvanceDate(r) PROVE TypeOK'
  <2>1. row[r] \in Subs
    BY <1>5 DEF AdvanceDate, Control
  <2> QED BY <1>5, <2>1 DEF AdvanceDate, book, invoices, invoicer, outside
<1>6. ASSUME NEW r \in Runners, SerializationFailure(r) \/ DeadlockVictim(r) PROVE TypeOK'
  BY <1>6 DEF SerializationFailure, DeadlockVictim, Abort, book, invoices, invoicer, outside
<1>7. ASSUME NEW r \in Runners, CommitRun(r) PROVE TypeOK'
  <2>1. \A u \in Subs : seen[r][u] \in 0..MaxPeriod /\ seen[r][u] + 1 \in 0..(MaxPeriod + 1)
    BY DEF SeenPast, Periods
  <2>2. next' \in [Subs -> 0..(MaxPeriod + 1)]
    BY <1>7, <2>1 DEF CommitRun
  <2>3. billed' \in [Subs -> [Periods -> Nat]]
    <3>1. ASSUME NEW u \in Subs PROVE [billed[u] EXCEPT ![seen[r][u]] = @ + 1] \in [Periods -> Nat]
      BY <2>1 DEF Periods
    <3> QED BY <1>7, <3>1 DEF CommitRun
  <2>4. UNCHANGED <<active, today, seen, due, todo, row, errors, attempt, items, link, ipc, found,
                    number, unpriced, dated, crashes>>
    BY <1>7 DEF CommitRun, invoices, invoicer, outside
  <2>5. /\ pc' \in [Runners -> {"idle", "lock", "snapshot", "loop", "advance", "end"}]
        /\ wrote' \in [Runners -> SUBSET Subs]
        /\ changed' \in [Runners -> SUBSET Subs]
    BY <1>7 DEF CommitRun
  <2> QED BY <2>2, <2>3, <2>4, <2>5
<1>8. ASSUME NEW r \in Runners, EndRun(r) PROVE TypeOK'
  <2>1. UNCHANGED <<active, today, next, billed, todo, row, wrote, items, link, ipc, found, number,
                    unpriced, dated, crashes>>
    BY <1>8 DEF EndRun, book, invoices, invoicer, outside
  <2>2. /\ seen' \in [Runners -> [Subs -> 0..(MaxPeriod + 1)]]
        /\ due' \in [Runners -> SUBSET Subs]
        /\ changed' \in [Runners -> SUBSET Subs]
        /\ errors' \in [Runners -> BOOLEAN]
    <3>1. NoSnapshot \in [Subs -> 0..(MaxPeriod + 1)]
      BY DEF NoSnapshot
    <3> QED BY <1>8, <3>1 DEF EndRun
  <2>3. /\ pc' \in [Runners -> {"idle", "lock", "snapshot", "loop", "advance", "end"}]
        /\ attempt' \in [Runners -> 1..MaxAttempts]
    <3>1. CASE Retries(r)
      <4>1. NextAttempt(r) \in 1..MaxAttempts
        BY <3>1 DEF Retries, NextAttempt
      <4>2. pc' = [pc EXCEPT ![r] = "lock"] /\ attempt' = [attempt EXCEPT ![r] = NextAttempt(r)]
        BY <1>8, <3>1, Zenon DEF EndRun
      <4> HIDE DEF NextAttempt
      <4> QED BY <4>1, <4>2
    <3>2. CASE ~Retries(r)
      <4>1. 1 \in 1..MaxAttempts
        OBVIOUS
      <4> QED BY <1>8, <3>2, <4>1 DEF EndRun
    <3> QED BY <3>1, <3>2
  <2> QED BY <2>1, <2>2, <2>3
<1>9. ASSUME NEW u \in Subs, ChangeStatus(u) PROVE TypeOK'
  BY <1>9 DEF ChangeStatus, book, invoices, invoicer, outside
<1>10. CASE NewPeriod
  BY <1>10 DEF NewPeriod, Periods, run, invoices, invoicer, outside
<1>11. ASSUME NEW i \in Invoicers, NEW d \in Distributors, NEW from \in Periods, NEW to \in Periods,
             FindRecords(i, d, from, to)
      PROVE  TypeOK'
  BY <1>11 DEF FindRecords, Uninvoiced, book, run, invoices, invoicer, outside
<1>12. ASSUME NEW i \in Invoicers, CountInvoices(i) PROVE TypeOK'
  BY <1>12, CountType DEF CountInvoices, book, run, invoices, invoicer, outside
<1>13. ASSUME NEW i \in Invoicers, InsertInvoice(i) \/ NumberTaken(i) \/ LinkRecords(i) PROVE TypeOK'
  <2>1. CASE NumberTaken(i)
    BY <2>1 DEF NumberTaken, Stop, book, run, invoices, outside
  <2>2. CASE InsertInvoice(i) \/ LinkRecords(i)
    BY <2>2 DEF InsertInvoice, LinkRecords, book, run, invoices, outside
  <2> QED BY <1>13, <2>1, <2>2
<1>14. ASSUME NEW i \in Invoicers, CommitInvoice(i) PROVE TypeOK'
  BY <1>14 DEF CommitInvoice, Stop, Reserved, InvoiceNos, book, run, invoices, invoicer, outside
<1>15. CASE Crash
  BY <1>15 DEF Crash, NoSnapshot, book, run, invoices, invoicer, outside
<1>16. CASE UNCHANGED vars
  BY <1>16 DEF vars, book, run, invoices, invoicer, outside
<1> QED
  BY <1>1, <1>2, <1>3, <1>4, <1>5, <1>6, <1>7, <1>8, <1>9, <1>10, <1>11, <1>12, <1>13, <1>14,
     <1>15, <1>16 DEF Next, RunStep, InvoiceStep
-------------------------------------------------------------------------------
(* The runs. *)

\* What a snapshot holds is a period, and dates compare as numbers.
LEMMA Dates ==
  ASSUME TypeOK, SeenPast
  PROVE  /\ \A r \in Runners, u \in Subs : seen[r][u] \in Periods
         /\ \A u \in Subs : next[u] \in Nat
         /\ today \in Nat
<1>1. \A u \in Subs : next[u] \in 0..(MaxPeriod + 1)
  BY DEF TypeOK
<1>2. \A r \in Runners, u \in Subs : seen[r][u] \in 0..(MaxPeriod + 1) /\ seen[r][u] <= today
  BY DEF TypeOK, SeenPast
<1>3. today \in 0..MaxPeriod
  BY DEF TypeOK, Periods
<1> QED BY <1>1, <1>2, <1>3 DEF Periods

LEMMA NextRuns == TypeOK /\ RunInv /\ [Next]_vars => RunInv'
<1> SUFFICES ASSUME TypeOK, RunInv, [Next]_vars PROVE RunInv'
  OBVIOUS
<1> USE DEF TypeOK, RunInv
<1>1. ASSUME NEW r \in Runners, StartRun(r) PROVE RunInv'
  <2>1. Control'
    BY <1>1 DEF Control, StartRun, Goto
  <2>2. SeenPast' /\ Fresh' /\ Updated' /\ Exclusive' /\ BilledUpTo' /\ Accounted'
    BY <1>1 DEF SeenPast, StartRun, book, Fresh, AsSeen, ToUpdate, Updated, Exclusive, BilledUpTo,
                Accounted, Goto
  <2> QED BY <2>1, <2>2 DEF RunInv
<1>2. ASSUME NEW r \in Runners, AdvisoryLock(r) PROVE RunInv'
  <2>1. Control'
    BY <1>2 DEF Control, AdvisoryLock, Goto
  <2>2. SeenPast' /\ Fresh' /\ Updated' /\ Exclusive' /\ BilledUpTo' /\ Accounted'
    BY <1>2 DEF SeenPast, AdvisoryLock, book, Fresh, AsSeen, ToUpdate, Updated, Exclusive,
                BilledUpTo, Accounted, Goto
  <2> QED BY <2>1, <2>2 DEF RunInv
<1>3. ASSUME NEW r \in Runners, AdvisoryLockTaken(r) PROVE RunInv'
  <2>1. Control'
    BY <1>3 DEF Control, AdvisoryLockTaken, Goto
  <2>2. SeenPast' /\ Fresh' /\ Updated' /\ Exclusive' /\ BilledUpTo' /\ Accounted'
    BY <1>3 DEF SeenPast, AdvisoryLockTaken, book, Fresh, AsSeen, ToUpdate, Updated, Exclusive,
                BilledUpTo, Accounted, Goto
  <2> QED BY <2>1, <2>2 DEF RunInv
<1>4. ASSUME NEW r \in Runners, Snapshot(r) PROVE RunInv'
  <2>1. Control'
    BY <1>4 DEF Control, Snapshot, Due, Goto
  <2>2. SeenPast'
    <3>1. 0 <= today /\ \A u \in Due : next[u] <= today
      BY DEF Due, Periods
    <3> QED BY <1>4, <3>1 DEF SeenPast, Snapshot, book
  <2>3. Fresh'
    <3> SUFFICES ASSUME NEW t \in Runners, NEW u \in Subs,
                        u \in ToUpdate(t)', u \notin changed[t]'
                 PROVE  AsSeen(t, u)'
      BY DEF Fresh
    <3>1. UNCHANGED <<active, today, next>>
      BY <1>4 DEF Snapshot, book
    <3>2. CASE t = r
      <4>1. u \in Due
        BY <1>4, <3>2 DEF Snapshot, ToUpdate, Control
      <4>2. seen'[r][u] = next[u]
        BY <1>4, <4>1 DEF Snapshot
      <4> QED BY <3>1, <3>2, <4>1, <4>2 DEF AsSeen, Due
    <3>3. CASE t # r
      <4>1. AsSeen(t, u)
        BY <1>4, <3>3 DEF Snapshot, ToUpdate, Fresh
      <4>2. seen'[t][u] = seen[t][u]
        BY <1>4, <3>3 DEF Snapshot
      <4> QED BY <3>1, <4>1, <4>2 DEF AsSeen
    <3> QED BY <3>2, <3>3
  <2>4. Updated'
    <3>1. wrote' = wrote /\ wrote[r] = {} /\ UNCHANGED <<active, today, next>>
      BY <1>4 DEF Control, Snapshot, book
    <3>2. \A t \in Runners \ {r} : seen'[t] = seen[t]
      BY <1>4 DEF Snapshot
    <3>3. ASSUME NEW t \in Runners, NEW u \in wrote[t]
          PROVE  AsSeen(t, u)'
      <4>1. t # r /\ AsSeen(t, u)
        BY <3>1, <3>3 DEF Updated
      <4> QED BY <3>1, <3>2, <4>1 DEF AsSeen
    <3> QED BY <3>1, <3>3 DEF Updated
  <2>5. Exclusive'
    BY <1>4 DEF Exclusive, Snapshot, Due
  <2>6. BilledUpTo'
    BY <1>4 DEF BilledUpTo, Snapshot, Due, book
  <2>7. Accounted'
    BY <1>4 DEF Accounted, ToUpdate, Snapshot, Due, Goto, book
  <2> QED BY <2>1, <2>2, <2>3, <2>4, <2>5, <2>6, <2>7 DEF RunInv
<1>5. ASSUME NEW r \in Runners, NEW u \in Subs, SkipRow(r, u) PROVE RunInv'
  <2>1. Accounted'
    <3> SUFFICES ASSUME NEW t \in Runners, pc'[t] \in {"loop", "advance", "end"}, ~errors'[t],
                        NEW v \in due'[t]
                 PROVE  v \in (ToUpdate(t) \cup wrote[t])' \/ seen'[t][v] < next'[v]
      BY DEF Accounted
    <3>1. UNCHANGED <<pc, next, seen, due, row, wrote>>
      BY <1>5 DEF SkipRow, book
    <3>2. ~errors[t] /\ (t = r => AlreadyBilled(r, u))
      BY <1>5 DEF SkipRow
    <3>3. v \in ToUpdate(t) \cup wrote[t] \/ seen[t][v] < next[v]
      BY <3>1, <3>2 DEF Accounted
    <3>4. CASE t = r /\ v = u
      <4>1. seen[r][u] \in Periods
        BY Dates
      <4>2. seen[r][u] < next[u]
        BY <3>2, <3>4, <4>1 DEF AlreadyBilled, BilledUpTo
      <4> QED BY <3>1, <3>4, <4>2
    <3>5. CASE ~(t = r /\ v = u)
      BY <1>5, <3>1, <3>3, <3>5 DEF SkipRow, ToUpdate
    <3> QED BY <3>4, <3>5
  <2>2. Control' /\ SeenPast' /\ Fresh' /\ Updated' /\ Exclusive' /\ BilledUpTo'
    BY <1>5 DEF Control, SkipRow, AlreadyBilled, Goto, SeenPast, book, Fresh, AsSeen, ToUpdate,
                Updated, Exclusive, BilledUpTo
  <2> QED BY <2>1, <2>2 DEF RunInv
<1>6. ASSUME NEW r \in Runners, NEW u \in Subs, InsertRecord(r, u) PROVE RunInv'
  <2>1. Control'
    BY <1>6 DEF Control, InsertRecord, Goto
  <2>2. Fresh'
    BY <1>6 DEF Fresh, AsSeen, ToUpdate, InsertRecord, book
  <2>3. Accounted'
    BY <1>6 DEF Accounted, ToUpdate, InsertRecord, Goto, book, Control
  <2>4. SeenPast' /\ Updated' /\ Exclusive' /\ BilledUpTo'
    BY <1>6 DEF SeenPast, InsertRecord, book, Updated, AsSeen, Exclusive, BilledUpTo
  <2> QED BY <2>1, <2>2, <2>3, <2>4 DEF RunInv
<1>7. ASSUME NEW r \in Runners, AdvanceDate(r) PROVE RunInv'
  <2>1. Control'
    BY <1>7 DEF Control, AdvanceDate, Waits, WaitsFor, Conflict, Goto
  <2>2. Updated'
    BY <1>7 DEF Updated, AsSeen, AdvanceDate, Waits, WaitsFor, Conflict, book, Fresh, ToUpdate,
                Control
  <2>3. Exclusive'
    BY <1>7 DEF Exclusive, AdvanceDate, Waits, WaitsFor, Conflict
  <2>4. Accounted'
    BY <1>7 DEF Accounted, ToUpdate, AdvanceDate, Waits, WaitsFor, Conflict, Goto, book
  <2>5. SeenPast' /\ Fresh' /\ BilledUpTo'
    BY <1>7 DEF SeenPast, AdvanceDate, Waits, WaitsFor, Conflict, book, Fresh, AsSeen, ToUpdate,
                BilledUpTo
  <2> QED BY <2>1, <2>2, <2>3, <2>4, <2>5 DEF RunInv
<1>8. ASSUME NEW r \in Runners, Abort(r) PROVE RunInv'
  <2>1. Control'
    BY <1>8 DEF Control, Abort, Goto
  <2>2. SeenPast' /\ Fresh' /\ Updated' /\ Exclusive' /\ BilledUpTo' /\ Accounted'
    BY <1>8 DEF SeenPast, Abort, book, Fresh, AsSeen, ToUpdate, Updated, Exclusive, BilledUpTo,
                Accounted, Goto
  <2> QED BY <2>1, <2>2 DEF RunInv
<1>9. ASSUME NEW r \in Runners, CommitRun(r) PROVE RunInv'
  <2>a. /\ pc[r] = "loop" /\ todo[r] = {} /\ row[r] = Nothing
        /\ wrote' = [wrote EXCEPT ![r] = {}] /\ pc' = [pc EXCEPT ![r] = "end"]
        /\ UNCHANGED <<active, today, seen, due, todo, row, errors>>
    BY <1>9 DEF CommitRun, Goto, Control
  <2>b. \A u \in Subs : next'[u] = IF u \in wrote[r] THEN next[u] + 1 ELSE next[u]
    BY <1>9 DEF CommitRun, Updated, AsSeen
  <2>c. \A u \in Subs : next[u] \in Int /\ next[u] <= next'[u]
    <3>1. \A u \in Subs : next[u] \in Nat
      BY Dates
    <3> HIDE DEF TypeOK, RunInv
    <3> QED BY <2>b, <3>1
  <2>d. \A t \in Runners, u \in Subs : u \in ToUpdate(t)' /\ u \notin changed'[t] =>
            u \in ToUpdate(t) /\ u \notin changed[t] /\ u \notin wrote[r]
    BY <1>9, <2>a DEF CommitRun, ToUpdate
  <2>1. Control'
    BY <2>a DEF Control
  <2>2. SeenPast'
    BY <2>a DEF SeenPast
  <2>3. Fresh'
    BY <2>a, <2>b, <2>d DEF Fresh, AsSeen
  <2>4. Updated'
    <3> SUFFICES ASSUME NEW t \in Runners, NEW u \in wrote'[t] PROVE AsSeen(t, u)'
      BY DEF Updated
    <3>1. t # r /\ u \in wrote[t] /\ u \in Subs
      BY <2>a
    <3>2. u \notin wrote[r]
      BY <3>1 DEF Exclusive
    <3>3. AsSeen(t, u)
      BY <3>1 DEF Updated
    <3> QED BY <2>a, <2>b, <3>1, <3>2, <3>3 DEF AsSeen
  <2>5. Exclusive'
    BY <2>a DEF Exclusive
  <2>6. BilledUpTo'
    <3> SUFFICES ASSUME NEW u \in Subs, NEW p \in Periods
                 PROVE  billed'[u][p] = IF p < next'[u] THEN 1 ELSE 0
      BY DEF BilledUpTo
    <3>1. billed[u][p] = (IF p < next[u] THEN 1 ELSE 0) /\ p \in Int /\ next[u] \in Int
      BY DEF BilledUpTo, Periods
    <3>2. CASE u \in wrote[r]
      <4>1. seen[r][u] = next[u]
        BY <3>2 DEF Updated, AsSeen
      <4>2. billed'[u] = [billed[u] EXCEPT ![next[u]] = @ + 1] /\ next'[u] = next[u] + 1
        BY <1>9, <2>b, <3>2, <4>1 DEF CommitRun
      <4>3. billed'[u][p] = IF p = next[u] THEN billed[u][p] + 1 ELSE billed[u][p]
        BY <4>2
      <4>4. CASE p = next[u]
        BY <3>1, <4>2, <4>3, <4>4
      <4>5. CASE p # next[u]
        <5>1. p < next[u] <=> p < next[u] + 1
          <6> HIDE DEF TypeOK, RunInv
          <6> QED BY <3>1, <4>5
        <5> QED BY <3>1, <4>2, <4>3, <4>5, <5>1
      <4> QED BY <4>4, <4>5
    <3>3. CASE u \notin wrote[r]
      BY <1>9, <2>b, <3>1, <3>3 DEF CommitRun
    <3> QED BY <3>2, <3>3
  <2>7. Accounted'
    <3> SUFFICES ASSUME NEW t \in Runners, pc'[t] \in {"loop", "advance", "end"}, ~errors'[t],
                        NEW u \in due'[t]
                 PROVE  u \in (ToUpdate(t) \cup wrote[t])' \/ seen'[t][u] < next'[u]
      BY DEF Accounted
    <3>1. u \in Subs /\ (u \in ToUpdate(t) \cup wrote[t] \/ seen[t][u] < next[u])
      BY <2>a DEF Accounted
    <3>2. seen[t][u] \in Int /\ next[u] \in Int /\ next'[u] \in Int
      BY <2>b, <3>1
    <3>3. CASE t = r /\ u \in wrote[r]
      <4>1. seen[r][u] = next[u] /\ next'[u] = next[u] + 1
        BY <2>b, <3>1, <3>3 DEF Updated, AsSeen
      <4> QED BY <2>a, <3>2, <3>3, <4>1
    <3>4. CASE seen[t][u] < next[u]
      BY <2>a, <2>c, <3>1, <3>2, <3>4
    <3>5. CASE t = r /\ u \notin wrote[r] /\ ~(seen[t][u] < next[u])
      BY <2>a, <3>1, <3>5 DEF ToUpdate
    <3>6. CASE t # r /\ u \in ToUpdate(t) \cup wrote[t]
      BY <2>a, <3>6 DEF ToUpdate
    <3> QED BY <3>1, <3>3, <3>4, <3>5, <3>6
  <2> QED BY <2>1, <2>2, <2>3, <2>4, <2>5, <2>6, <2>7 DEF RunInv
<1>10. ASSUME NEW r \in Runners, EndRun(r) PROVE RunInv'
  <2>1. Control'
    BY <1>10 DEF Control, EndRun, NoSnapshot, Goto
  <2>2. SeenPast'
    <3>1. 0 <= today /\ NoSnapshot = [u \in Subs |-> 0]
      BY DEF NoSnapshot, Periods
    <3> QED BY <1>10, <3>1 DEF SeenPast, EndRun, book
  <2>3. Fresh'
    <3>1. UNCHANGED <<active, today, next, todo, row>> /\ todo[r] = {} /\ row[r] = Nothing
      BY <1>10 DEF EndRun, book, Control
    <3>2. \A t \in Runners \ {r} : seen'[t] = seen[t] /\ changed'[t] = changed[t]
      BY <1>10 DEF EndRun
    <3>3. \A u \in Subs : u \notin ToUpdate(r)'
      BY <3>1 DEF ToUpdate
    <3>4. \A t \in Runners : ToUpdate(t)' = ToUpdate(t)
      BY <3>1 DEF ToUpdate
    <3> SUFFICES ASSUME NEW t \in Runners, NEW u \in Subs, u \in ToUpdate(t)', u \notin changed'[t]
                 PROVE  AsSeen(t, u)'
      BY DEF Fresh
    <3>5. t # r /\ AsSeen(t, u)
      BY <3>2, <3>3, <3>4 DEF Fresh
    <3> QED BY <3>1, <3>2, <3>5 DEF AsSeen
  <2>4. Updated'
    <3>1. UNCHANGED <<active, today, next, wrote>> /\ wrote[r] = {}
      BY <1>10 DEF EndRun, book, Control
    <3>2. \A t \in Runners \ {r} : seen'[t] = seen[t]
      BY <1>10 DEF EndRun
    <3> SUFFICES ASSUME NEW t \in Runners, NEW u \in wrote'[t] PROVE AsSeen(t, u)'
      BY DEF Updated
    <3>3. t # r /\ AsSeen(t, u)
      BY <3>1 DEF Updated
    <3> QED BY <3>1, <3>2, <3>3 DEF AsSeen
  <2>5. Exclusive' /\ BilledUpTo' /\ Accounted'
    BY <1>10 DEF Exclusive, EndRun, NoSnapshot, BilledUpTo, book, Accounted, ToUpdate, Goto
  <2> QED BY <2>1, <2>2, <2>3, <2>4, <2>5 DEF RunInv
<1>11. ASSUME NEW u \in Subs, ChangeStatus(u) PROVE RunInv'
  <2>1. Fresh'
    BY <1>11 DEF Fresh, AsSeen, ToUpdate, ChangeStatus
  <2>2. Control' /\ SeenPast' /\ Updated' /\ Exclusive' /\ BilledUpTo' /\ Accounted'
    BY <1>11 DEF Control, ChangeStatus, SeenPast, Updated, AsSeen, Exclusive, BilledUpTo,
                 Accounted, ToUpdate
  <2> QED BY <2>1, <2>2 DEF RunInv
<1>12. ASSUME NewPeriod PROVE RunInv'
  <2>a. today' = today + 1 /\ UNCHANGED <<active, next, billed, run>>
    BY <1>12 DEF NewPeriod
  <2>b. /\ \A u \in Subs : next[u] <= today => next[u] <= today'
        /\ \A r \in Runners, u \in Subs : seen[r][u] <= today => seen[r][u] <= today'
    <3>1. /\ today \in Nat
          /\ \A u \in Subs : next[u] \in Nat
          /\ \A r \in Runners, u \in Subs : seen[r][u] \in Nat
      BY Dates DEF Periods
    <3> HIDE DEF TypeOK, RunInv
    <3> QED BY <2>a, <3>1
  <2>1. SeenPast'
    BY <2>a, <2>b DEF SeenPast, run
  <2>2. Fresh'
    BY <2>a, <2>b DEF Fresh, AsSeen, ToUpdate, run
  <2>3. Updated'
    BY <2>a, <2>b DEF Updated, AsSeen, run
  <2>4. Control' /\ Exclusive' /\ BilledUpTo' /\ Accounted'
    BY <2>a DEF Control, run, Exclusive, BilledUpTo, Accounted, ToUpdate
  <2> QED BY <2>1, <2>2, <2>3, <2>4 DEF RunInv
<1>13. ASSUME Crash PROVE RunInv'
  <2>1. Control'
    BY <1>13 DEF Control, Crash, NoSnapshot
  <2>2. SeenPast'
    <3>1. 0 <= today
      BY DEF Periods
    <3> QED BY <1>13, <3>1 DEF SeenPast, Crash, NoSnapshot, book
  <2>3. Fresh' /\ Updated' /\ Exclusive' /\ BilledUpTo' /\ Accounted'
    BY <1>13 DEF Fresh, AsSeen, ToUpdate, Crash, NoSnapshot, book, Updated, Exclusive, BilledUpTo,
                 Accounted
  <2> QED BY <2>1, <2>2, <2>3 DEF RunInv
<1>14. ASSUME UNCHANGED <<book, run>> PROVE RunInv'
  BY <1>14 DEF RunInv, Control, run, SeenPast, book, Fresh, AsSeen, ToUpdate, Updated, Exclusive,
               BilledUpTo, Accounted
<1>15. ASSUME NEW i \in Invoicers,
             \/ \E d \in Distributors, from, to \in Periods : FindRecords(i, d, from, to)
             \/ InvoiceStep(i)
      PROVE  UNCHANGED <<book, run>>
  BY <1>15 DEF InvoiceStep, FindRecords, CountInvoices, InsertInvoice, NumberTaken, LinkRecords,
               CommitInvoice
<1>16. UNCHANGED vars => UNCHANGED <<book, run>>
  BY DEF vars
<1> QED
  BY <1>1, <1>2, <1>3, <1>4, <1>5, <1>6, <1>7, <1>8, <1>9, <1>10, <1>11, <1>12, <1>13, <1>14,
     <1>15, <1>16 DEF Next, RunStep, SerializationFailure, DeadlockVictim

-------------------------------------------------------------------------------
(* The invoices. *)

\* A record is never taken back.
LEMMA BilledStays ==
  ASSUME TypeOK, [Next]_vars
  PROVE  \A rec \in Records : billed[rec[1]][rec[2]] > 0 => billed'[rec[1]][rec[2]] > 0
<1>1. ASSUME NEW r \in Runners, CommitRun(r), NEW u \in Subs, NEW p \in Periods, billed[u][p] > 0
      PROVE  billed'[u][p] > 0
  <2>1. billed[u] \in [Periods -> Nat] /\ billed[u][p] \in Nat
    BY DEF TypeOK
  <2>2. CASE u \in wrote[r]
    <3>1. billed'[u] = [billed[u] EXCEPT ![seen[r][u]] = @ + 1]
      BY <1>1, <2>2 DEF CommitRun
    <3>2. billed'[u][p] = IF p = seen[r][u] THEN billed[u][p] + 1 ELSE billed[u][p]
      BY <2>1, <3>1
    <3> QED BY <1>1, <2>1, <3>2
  <2>3. CASE u \notin wrote[r]
    BY <1>1, <2>3 DEF CommitRun
  <2> QED BY <2>2, <2>3
<1>2. UNCHANGED billed \/ \E r \in Runners : CommitRun(r)
  BY DEF Next, RunStep, InvoiceStep, StartRun, AdvisoryLock, AdvisoryLockTaken, Snapshot, SkipRow,
         InsertRecord, AdvanceDate, SerializationFailure, DeadlockVictim, Abort, EndRun, ChangeStatus,
         NewPeriod, FindRecords, CountInvoices, InsertInvoice, NumberTaken, LinkRecords, CommitInvoice,
         Crash, vars, book
<1> QED BY <1>1, <1>2 DEF Records

LEMMA NextInvoices == TypeOK /\ InvoiceInv /\ [Next]_vars => InvoiceInv'
<1> SUFFICES ASSUME TypeOK, InvoiceInv, [Next]_vars PROVE InvoiceInv'
  OBVIOUS
<1>b. \A rec \in Records : billed[rec[1]][rec[2]] > 0 => billed'[rec[1]][rec[2]] > 0
  BY BilledStays
<1>f. \A i \in Invoicers : found[i] \subseteq Records
  BY DEF TypeOK
<1>i. \A n \in InvoiceNos : items[n] \subseteq Records
  BY DEF TypeOK
<1>1. ASSUME UNCHANGED <<invoices, invoicer>> PROVE InvoiceInv'
  <2>1. Reserved'
    BY <1>1 DEF InvoiceInv, Reserved, invoices, invoicer
  <2>2. OneOwner'
    BY <1>1, <1>b, <1>f DEF InvoiceInv, OneOwner, invoicer
  <2>3. LinkedIffListed'
    BY <1>1, <1>b, <1>i DEF InvoiceInv, LinkedIffListed, invoices
  <2> QED BY <2>1, <2>2, <2>3 DEF InvoiceInv
<1>2. ASSUME NEW i \in Invoicers, NEW d \in Distributors, NEW from \in Periods, NEW to \in Periods,
             FindRecords(i, d, from, to)
      PROVE  InvoiceInv'
  <2>1. Reserved'
    BY <1>2 DEF FindRecords, Iget, TypeOK, InvoiceInv, Reserved, invoices
  <2>2. OneOwner'
    <3>1. \A rec \in Uninvoiced(d, from, to) : billed[rec[1]][rec[2]] > 0 /\ OwnerOf[rec[1]] = d
      BY DEF Uninvoiced
    <3> QED BY <1>2, <3>1 DEF FindRecords, TypeOK, InvoiceInv, OneOwner, book
  <2>3. LinkedIffListed'
    BY <1>2 DEF FindRecords, InvoiceInv, LinkedIffListed, invoices, book
  <2> QED BY <2>1, <2>2, <2>3 DEF InvoiceInv
<1>3. ASSUME NEW i \in Invoicers, CountInvoices(i) PROVE InvoiceInv'
  <2>1. Reserved'
    <3>1. /\ ipc' = [ipc EXCEPT ![i] = "insert"] /\ number'[i] \in InvoiceNos
          /\ \A t \in Invoicers \ {i} : number'[t] = number[t]
          /\ UNCHANGED items
      BY <1>3, CountType DEF CountInvoices, Iget, TypeOK, InvoiceNos, invoices
    <3> QED BY <3>1 DEF TypeOK, InvoiceInv, Reserved
  <2>2. OneOwner'
    BY <1>3 DEF CountInvoices, InvoiceInv, OneOwner, book
  <2>3. LinkedIffListed'
    BY <1>3 DEF CountInvoices, InvoiceInv, LinkedIffListed, invoices, book
  <2> QED BY <2>1, <2>2, <2>3 DEF InvoiceInv
<1>4. ASSUME NEW i \in Invoicers, InsertInvoice(i) \/ LinkRecords(i) PROVE InvoiceInv'
  <2>1. Reserved'
    BY <1>4 DEF InsertInvoice, NumberFree, LinkRecords, Iget, TypeOK, InvoiceInv, Reserved, invoices
  <2>2. OneOwner'
    BY <1>4 DEF InsertInvoice, LinkRecords, InvoiceInv, OneOwner, book
  <2>3. LinkedIffListed'
    BY <1>4 DEF InsertInvoice, LinkRecords, InvoiceInv, LinkedIffListed, invoices, book
  <2> QED BY <2>1, <2>2, <2>3 DEF InvoiceInv
<1>5. ASSUME NEW i \in Invoicers, NumberTaken(i) PROVE InvoiceInv'
  <2>1. Reserved'
    BY <1>5 DEF NumberTaken, Stop, Iget, TypeOK, InvoiceInv, Reserved, invoices
  <2>2. OneOwner'
    BY <1>5 DEF NumberTaken, Stop, TypeOK, InvoiceInv, OneOwner, book
  <2>3. LinkedIffListed'
    BY <1>5 DEF NumberTaken, InvoiceInv, LinkedIffListed, invoices, book
  <2> QED BY <2>1, <2>2, <2>3 DEF InvoiceInv
<1>6. ASSUME NEW i \in Invoicers, CommitInvoice(i) PROVE InvoiceInv'
  <2>1. /\ number[i] \in InvoiceNos /\ number[i] # 0
        /\ items[number[i]] = {}
        /\ \A t \in Invoicers \ {i} : ipc[t] \in {"link", "commit"} => number[t] # number[i]
    BY <1>6 DEF CommitInvoice, InvoiceInv, Reserved, InvoiceNos
  <2>2. /\ items' = [items EXCEPT ![number[i]] = found[i]]
        /\ link' = [rec \in Records |-> IF rec \in found[i] THEN number[i] ELSE link[rec]]
        /\ ipc' = [ipc EXCEPT ![i] = "idle"]
        /\ found' = [found EXCEPT ![i] = {}]
        /\ number' = [number EXCEPT ![i] = 0]
        /\ UNCHANGED billed
    BY <1>6 DEF CommitInvoice, Stop, Iget, book
  <2>3. Reserved'
    BY <2>1, <2>2 DEF TypeOK, InvoiceInv, Reserved
  <2>4. OneOwner'
    BY <2>2 DEF TypeOK, InvoiceInv, OneOwner
  <2>5. LinkedIffListed'
    <3>1. ASSUME NEW rec \in Records, link'[rec] # 0 PROVE rec \in items'[link'[rec]]
      BY <2>1, <2>2, <3>1 DEF TypeOK, InvoiceInv, LinkedIffListed
    <3>2. ASSUME NEW n \in InvoiceNos, NEW rec \in items'[n], NEW other \in items'[n]
          PROVE  link'[rec] # 0 /\ billed'[rec[1]][rec[2]] > 0 /\ OwnerOf[rec[1]] = OwnerOf[other[1]]
      <4>1. CASE n = number[i]
        BY <1>f, <2>1, <2>2, <3>2, <4>1 DEF TypeOK, InvoiceInv, OneOwner
      <4>2. CASE n # number[i]
        BY <1>i, <2>1, <2>2, <3>2, <4>2 DEF TypeOK, InvoiceInv, LinkedIffListed
      <4> QED BY <4>1, <4>2
    <3> QED BY <3>1, <3>2 DEF LinkedIffListed
  <2> QED BY <2>3, <2>4, <2>5 DEF InvoiceInv
<1>7. CASE Crash
  <2>1. Reserved'
    BY <1>7 DEF Crash, Reserved
  <2>2. OneOwner'
    BY <1>7 DEF Crash, OneOwner
  <2>3. LinkedIffListed'
    BY <1>7 DEF Crash, InvoiceInv, LinkedIffListed, invoices, book
  <2> QED BY <2>1, <2>2, <2>3 DEF InvoiceInv
<1>8. ASSUME NEW r \in Runners, StartRun(r) \/ RunStep(r) PROVE UNCHANGED <<invoices, invoicer>>
  BY <1>8 DEF RunStep, StartRun, AdvisoryLock, AdvisoryLockTaken, Snapshot, SkipRow, InsertRecord,
              AdvanceDate, SerializationFailure, DeadlockVictim, Abort, CommitRun, EndRun
<1>9. ASSUME NEW u \in Subs, ChangeStatus(u) PROVE UNCHANGED <<invoices, invoicer>>
  BY <1>9 DEF ChangeStatus
<1>10. NewPeriod \/ UNCHANGED vars => UNCHANGED <<invoices, invoicer>>
  BY DEF NewPeriod, vars
<1> QED
  BY <1>1, <1>2, <1>3, <1>4, <1>5, <1>6, <1>7, <1>8, <1>9, <1>10 DEF Next, InvoiceStep

-------------------------------------------------------------------------------
(* The theorems. *)

LEMMA InitInv == Init => IInv
<1> SUFFICES ASSUME Init PROVE RunInv /\ InvoiceInv
  BY InitType DEF IInv
<1>1. RunInv
  BY DEF Init, RunInv, Control, SeenPast, Fresh, AsSeen, ToUpdate, Updated, Exclusive, BilledUpTo,
         Accounted, NoSnapshot, Periods
<1>2. InvoiceInv
  BY DEF Init, InvoiceInv, Reserved, OneOwner, LinkedIffListed
<1> QED BY <1>1, <1>2

LEMMA NextInv == IInv /\ [Next]_vars => IInv'
BY NextType, NextRuns, NextInvoices DEF IInv, RunInv, InvoiceInv

\* What holds of the runs and the invoices at once, in every state.
THEOREM Invariance == Spec => []IInv
BY InitInv, NextInv, PTL DEF Spec

\* Every variable of the billing keeps its domain; the cron makes no more
\* attempts than runWithRetry allows.
THEOREM TypeCorrect == Spec => []TypeOK
<1>1. IInv => TypeOK
  BY DEF IInv
<1> QED BY Invariance, <1>1, PTL

\* However many runs overlap, conflict, deadlock, are retried or die: each
\* subscription is charged once for each period before its next_billing_date.
THEOREM NeverTwiceNeverSkipped == Spec => []BilledUpTo
<1>1. IInv => BilledUpTo
  BY DEF IInv, RunInv
<1> QED BY Invariance, <1>1, PTL

\* A run that ends with no error has charged all that its snapshot found due,
\* so the cron may stop retrying.
THEOREM CleanRuns == Spec => []CleanRunIsComplete
<1>1. IInv => CleanRunIsComplete
  <2> SUFFICES ASSUME IInv, NEW r \in Runners, pc[r] = "end", ~errors[r], NEW u \in due[r]
               PROVE  billed[u][seen[r][u]] = 1
    BY DEF CleanRunIsComplete
  <2>1. u \in Subs
    BY DEF IInv, TypeOK
  <2>2. todo[r] = {} /\ wrote[r] = {} /\ row[r] = Nothing
    BY DEF IInv, RunInv, Control
  <2>3. seen[r][u] < next[u]
    BY <2>1, <2>2 DEF IInv, RunInv, Accounted, ToUpdate
  <2>4. seen[r][u] \in Periods
    BY <2>1, Dates DEF IInv, RunInv
  <2> QED BY <2>1, <2>3, <2>4 DEF IInv, RunInv, BilledUpTo
<1> QED BY Invariance, <1>1, PTL

\* Whatever is invoiced at the same time: an invoice and its records name each
\* other, and they are one distributor's.
THEOREM LinksAgree == Spec => []LinkedIffListed
<1>1. IInv => LinkedIffListed
  BY DEF IInv, InvoiceInv
<1> QED BY Invariance, <1>1, PTL

-------------------------------------------------------------------------------
(* Refinement. *)

\* The commit of a run is an atomic billing of what it has written: those rows
\* are active and at the period its snapshot saw, still.
LEMMA CommitBills ==
  ASSUME IInv, NEW r \in Runners, CommitRun(r)
  PROVE  Book!Bill(wrote[r])
<1>1. wrote[r] \subseteq Subs /\ \A u \in wrote[r] : AsSeen(r, u)
  BY DEF IInv, TypeOK, RunInv, Updated
<1>2. wrote[r] \subseteq {u \in active : next[u] <= today}
  BY <1>1 DEF AsSeen
<1>3. billed' = [u \in Subs |-> IF u \in wrote[r] THEN [billed[u] EXCEPT ![next[u]] = @ + 1] ELSE billed[u]]
  BY <1>1 DEF CommitRun, AsSeen
<1>4. next' = [u \in Subs |-> IF u \in wrote[r] THEN next[u] + 1 ELSE next[u]]
  BY <1>1 DEF CommitRun, AsSeen
<1>5. UNCHANGED <<active, today>>
  BY DEF CommitRun
<1> QED BY <1>2, <1>3, <1>4, <1>5 DEF Book!Bill

\* Every step of the detailed billing is a step of the book, or leaves it alone.
LEMMA StepRefines == IInv /\ [Next]_vars => [Book!BookNext]_(Book!bookVars)
<1> SUFFICES ASSUME IInv, [Next]_vars PROVE [Book!BookNext]_(Book!bookVars)
  OBVIOUS
<1>1. ASSUME NEW r \in Runners, CommitRun(r) PROVE Book!BookNext
  <2>1. wrote[r] \in SUBSET Subs
    BY DEF IInv, TypeOK
  <2> QED BY <1>1, <2>1, CommitBills DEF Book!BookNext
<1>2. ASSUME NEW u \in Subs, ChangeStatus(u) PROVE Book!BookNext
  BY <1>2 DEF ChangeStatus, Book!BookNext, Book!ChangeStatus, IInv, TypeOK
<1>3. NewPeriod => Book!BookNext
  BY DEF NewPeriod, Book!BookNext, Book!NewPeriod
<1>4. \/ UNCHANGED book \/ NewPeriod
      \/ \E r \in Runners : CommitRun(r)
      \/ \E u \in Subs : ChangeStatus(u)
  BY DEF Next, RunStep, InvoiceStep, StartRun, AdvisoryLock, AdvisoryLockTaken, Snapshot, SkipRow,
         InsertRecord, AdvanceDate, SerializationFailure, DeadlockVictim, Abort, EndRun, FindRecords,
         CountInvoices, InsertInvoice, NumberTaken, LinkRecords, CommitInvoice, Crash, vars
<1> QED BY <1>1, <1>2, <1>3, <1>4 DEF book, Book!bookVars

\* Transactions on snapshots, retries and crashes together do what the header
\* of billing_engine promises: bill the due subscriptions at one instant.
THEOREM Implements == Spec => BookSpec
<1>1. Init => Book!BookInit
  BY DEF Init, Book!BookInit
<1> QED BY <1>1, StepRefines, Invariance, PTL DEF Spec, BookSpec, Book!BookSpec
===============================================================================
