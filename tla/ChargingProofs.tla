----------------------------- MODULE ChargingProofs ----------------------------
(***************************************************************************)
(* Proofs about Metered, for any subscriptions, prices, days and number of   *)
(* requests.  Two calculations of a period may overlap as they like: each    *)
(* holds the row of its subscription from the lock to the end (Holding), so  *)
(* what it has not found billed nobody else bills before it does (Unbilled). *)
(*                                                                          *)
(* Then two other parts of charging that share no variable with it, each an  *)
(* instance of its module with variables and constants of its own.           *)
(*                                                                          *)
(* Bandwidth (Traffic), for any ports, slots and rates.  The rank of a count  *)
(* has a sample, and only the least rate that not too many samples exceed    *)
(* has it (RankFound, RankIsLeast).  A bill has the sum of the exact rates   *)
(* so far (Settled), and at a port it is to pick from it owes a rate that as *)
(* many samples reach as its rank (Owing), which samples that come leave so. *)
(*                                                                          *)
(* Addons (Addon), for any calendar.  What a cancellation has read is the     *)
(* version of an active row, and there is one update of it (Reading); the    *)
(* days charged are counted along the order of the dates (DaysCounted).      *)
(***************************************************************************)
EXTENDS Metered, TLAPS, SequenceTheorems, WellFoundedInduction, FiniteSetTheorems

\* A calculation that has its lock.
Calculating(r) == pc[r] \in {"rate", "sum", "existing", "commit"}

Holding == \A r \in Requests : Calculating(r) => sub[r] \in Hourly /\ lock[sub[r]] = r
Unbilled == \A r \in Requests : pc[r] = "commit" => ~Billed(sub[r], from[r], until[r])

\* A request writes what it has read: hours of a day, and a price.
Reporting ==
    \A r \in Requests :
        /\ pc[r] \in {"reportRate", "upsert", "lock"} => sub[r] \in Subs
        /\ pc[r] \in {"reportRate", "upsert"} => hours[r] \in 0..MaxHours
        /\ pc[r] = "upsert" => rate[r] \in Prices
        /\ pc[r] \in {"existing", "commit"} => hours[r] \in 0..(MaxHours * LastDay)

Vectors ==
    /\ pc \in [Requests -> {"idle", "reportRate", "upsert", "lock", "rate", "sum", "existing", "commit"}]
    /\ sub \in [Requests -> Subs \cup {None}]
    /\ from \in [Requests -> Days] /\ until \in [Requests -> Days]
    /\ DOMAIN hours = Requests
    /\ rate \in [Requests -> Prices \cup {0}]

ASequence == \E S : bills \in Seq(S)

Types == TypeOK /\ Vectors /\ Reporting /\ ASequence
IInv == Types /\ Holding /\ Unbilled /\ PeriodBilledOnce

-------------------------------------------------------------------------------
LEMMA Constant ==
    ASSUME MeteredAssumption
    PROVE  /\ Hourly \subseteq Subs /\ None \notin Requests /\ 1 \in Days
           /\ MaxHours \in Nat /\ MaxVersion \in Nat /\ MaxBills \in Nat
           /\ MaxAttempts \in Nat /\ MaxAttempts > 0
BY DEF MeteredAssumption, Days

LEMMA Induct ==
    ASSUME NEW S, 0 \in S, \A n \in Nat : n \in S => n + 1 \in S
    PROVE  Nat \subseteq S
<1> SUFFICES ASSUME Nat \ S # {} PROVE FALSE
  OBVIOUS
<1>1. PICK x \in Nat \ S : \A y \in Nat \ S : <<y, x>> \notin OpToRel(<, Nat)
  BY NatLessThanWellFounded, WFMin
<1>2. x # 0 /\ x \in Nat
  OBVIOUS
<1>3. x - 1 \in Nat /\ (x - 1) + 1 = x /\ x - 1 < x
  BY <1>2
<1>4. x - 1 \notin S
  BY <1>3
<1>5. <<x - 1, x>> \in OpToRel(<, Nat)
  BY <1>2, <1>3 DEF OpToRel
<1>. QED BY <1>1, <1>3, <1>4, <1>5

\* What the days up to n add to a sum.
Sums(g, s, a, z, n) ==
    g[n] = IF n = 0 THEN 0 ELSE g[n-1] + (IF n \in a..z THEN metered[<<s, n>>].hours ELSE 0)

\* No period has more hours than all the days there are.
LEMMA HoursBounded ==
    ASSUME MeteredAssumption, TypeOK, NEW s \in Subs, NEW a, NEW z
    PROVE  Reported(s, a, z) \in 0..(MaxHours * LastDay)
<1>. DEFINE Hours(n) == IF n \in a..z THEN metered[<<s, n>>].hours ELSE 0
<1>0. LastDay \in Nat /\ MaxHours \in Nat /\ \A n \in 1..LastDay : Hours(n) \in 0..MaxHours
  BY DEF MeteredAssumption, TypeOK, Days
<1>. DEFINE Adds(g, m) == DOMAIN g = 0..m /\ \A n \in 0..m : Sums(g, s, a, z, n)
            Upto(m) == \E g : Adds(g, m)
            S == {m \in Nat : Upto(m)}
<1>1. Upto(0)
  <2>. DEFINE g == [n \in 0..0 |-> 0]
  <2>1. Adds(g, 0)
    BY DEF Sums
  <2>. QED BY <2>1
<1>2. ASSUME NEW m \in Nat, Upto(m) PROVE Upto(m + 1)
  <2>1. PICK g : Adds(g, m)
    BY <1>2
  <2>. DEFINE next == g[m] + Hours(m + 1)
              h == [n \in 0..(m + 1) |-> IF n = m + 1 THEN next ELSE g[n]]
  <2>2. DOMAIN h = 0..(m + 1) /\ h[m + 1] = next /\ \A n \in 0..m : h[n] = g[n]
    OBVIOUS
  <2>. HIDE DEF h
  <2>3. ASSUME NEW n \in 0..m PROVE Sums(h, s, a, z, n)
    <3>1. h[n] = g[n] /\ (n # 0 => h[n - 1] = g[n - 1])
      BY <2>2
    <3>. QED BY <2>1, <3>1 DEF Sums
  <2>4. Sums(h, s, a, z, m + 1)
    <3>1. (m + 1) - 1 = m /\ m + 1 # 0 /\ h[m] = g[m]
      BY <2>2
    <3>. QED BY <2>2, <3>1 DEF Sums
  <2>5. \A n \in 0..(m + 1) : n \in 0..m \/ n = m + 1
    OBVIOUS
  <2>. QED BY <2>2, <2>3, <2>4, <2>5
<1>3. Upto(LastDay)
  <2>1. 0 \in S /\ \A n \in Nat : n \in S => n + 1 \in S
    <3>. HIDE DEF Upto
    <3>. QED BY <1>1, <1>2
  <2>2. LastDay \in S
    <3>. HIDE DEF S
    <3>. QED BY <1>0, <2>1, Induct
  <2>. QED BY <1>0, <2>2
<1>4. PICK g : Adds(g, LastDay)
  BY <1>3
<1>. DEFINE Is(f) == f = [d \in 0..LastDay |-> IF d = 0 THEN 0 ELSE f[d-1]
                              + (IF d \in a..z THEN metered[<<s, d>>].hours ELSE 0)]
            sum == CHOOSE f : Is(f)
            f0 == [d \in 0..LastDay |-> g[d]]
<1>5. Is(f0)
  <2>1. \A d \in 0..LastDay : f0[d] = g[d] /\ (d # 0 => f0[d-1] = g[d-1])
    BY <1>0
  <2>2. \A d \in 0..LastDay : g[d] = IF d = 0 THEN 0 ELSE f0[d-1]
                              + (IF d \in a..z THEN metered[<<s, d>>].hours ELSE 0)
    <3>. HIDE DEF f0
    <3>. QED BY <1>4, <2>1 DEF Sums
  <2>. QED BY <2>2
<1>6. Is(sum)
  <2>. HIDE DEF Is, f0
  <2>. QED BY <1>5
<1>7. Reported(s, a, z) = sum[LastDay]
  BY DEF Reported
<1>8. /\ sum[0] = 0
      /\ \A d \in 1..LastDay : sum[d] = sum[d-1] + Hours(d)
  <2>. HIDE DEF sum
  <2>. QED BY <1>0, <1>6
<1>. HIDE DEF sum, Hours
<1>. DEFINE T == {n \in Nat : n <= LastDay => sum[n] \in 0..(MaxHours * n)}
<1>9. 0 \in T
  BY <1>0, <1>8
<1>10. ASSUME NEW n \in Nat, n \in T PROVE n + 1 \in T
  <2>. SUFFICES ASSUME n + 1 <= LastDay PROVE sum[n + 1] \in 0..(MaxHours * (n + 1))
    BY <1>10
  <2>0. PICK d \in 1..LastDay : d = n + 1
    BY <1>0
  <2>1. sum[d] = sum[n] + Hours(d) /\ Hours(d) \in 0..MaxHours
    BY <1>0, <1>8, <2>0
  <2>2. sum[n] \in 0..(MaxHours * n) /\ MaxHours * n \in Nat /\ MaxHours * (n + 1) = MaxHours * n + MaxHours
    BY <1>0, <1>10
  <2>. QED BY <1>0, <2>0, <2>1, <2>2
<1>. QED
  <2>1. Nat \subseteq T
    <3>. HIDE DEF T
    <3>. QED BY <1>9, <1>10, Induct
  <2>. QED BY <1>0, <1>7, <2>1

LEMMA InitInv == ASSUME MeteredAssumption, Init PROVE IInv
<1>1. Vectors
  BY Constant DEF Init, Vectors
<1>3. TypeOK
  <2>1. NoHours \in [hours: 0..MaxHours, rate: Prices \cup {0}, version: 0..MaxVersion]
    BY Constant DEF NoHours
  <2>2. attempt \in [Requests -> 0..(MaxAttempts - 1)]
    BY Constant DEF Init
  <2>3. DOMAIN bills = {} /\ Len(bills) = 0
    BY DEF Init
  <2>. QED BY <2>1, <2>2, <2>3, Constant DEF Init, TypeOK
<1>2. bills \in Seq({})
  BY DEF Init
<1>. QED
  BY <1>1, <1>2, <1>3 DEF Init, IInv, Types, Reporting, ASequence, Holding, Calculating, Unbilled, PeriodBilledOnce

\* A request that ends has nothing; the others keep what they have.
LEMMA Ended ==
    ASSUME MeteredAssumption, Types, NEW r \in Requests, Finish(r)
    PROVE  /\ Vectors' /\ attempt' \in [Requests -> 0..(MaxAttempts - 1)] /\ Reporting'
           /\ pc'[r] = "idle"
           /\ \A q \in Requests \ {r} : pc'[q] = pc[q] /\ sub'[q] = sub[q] /\ from'[q] = from[q]
                                        /\ until'[q] = until[q]
<1>1. Vectors'
  BY Constant DEF Finish, Goto, Types, Vectors
<1>4. attempt' \in [Requests -> 0..(MaxAttempts - 1)]
  BY Constant DEF Finish, Types, TypeOK
<1>2. /\ pc'[r] = "idle"
      /\ \A q \in Requests \ {r} : pc'[q] = pc[q] /\ sub'[q] = sub[q] /\ from'[q] = from[q]
                                   /\ until'[q] = until[q] /\ hours'[q] = hours[q] /\ rate'[q] = rate[q]
  BY DEF Finish, Goto, Types, Vectors
<1>3. Reporting'
  BY <1>2 DEF Types, Reporting
<1>. QED BY <1>1, <1>2, <1>3, <1>4

LEMMA Released ==
    ASSUME MeteredAssumption, Types, NEW r \in Requests, Release(r)
    PROVE  /\ lock' \in [Subs -> Requests \cup {None}]
           /\ \A s \in Subs : lock[s] # r => lock'[s] = lock[s]
BY DEF Release, Types, TypeOK

\* A request that ends leaves the lock and the findings of the others alone.
LEMMA EndHolding ==
    ASSUME MeteredAssumption, IInv, NEW r \in Requests, Finish(r), Release(r) \/ lock' = lock
    PROVE  Holding'
<1>. Types
  BY DEF IInv
<1>. QED BY Ended, Released, Constant DEF IInv, Holding, Calculating

LEMMA EndKeeps ==
    ASSUME MeteredAssumption, IInv, NEW r \in Requests, Finish(r), Release(r) \/ lock' = lock,
           UNCHANGED <<prices, metered, bills>>
    PROVE  IInv'
<1>. Types
  BY DEF IInv
<1>1. /\ lock' \in [Subs -> Requests \cup {None}]
      /\ \A s \in Subs : lock[s] # r => lock'[s] = lock[s]
  BY Released DEF Types, TypeOK
<1>2. Types'
  BY <1>1, Ended DEF Types, TypeOK, ASequence, prices
<1>3. Holding'
  BY EndHolding
<1>4. Unbilled'
  BY Ended DEF IInv, Unbilled, Billed
<1>5. PeriodBilledOnce'
  BY DEF IInv, PeriodBilledOnce
<1>. QED BY <1>2, <1>3, <1>4, <1>5 DEF IInv

LEMMA NextTypes == ASSUME MeteredAssumption, IInv, [Next]_vars PROVE Types'
<1>. Types
  BY DEF IInv
<1>1. ASSUME NEW r \in Requests, Report(r) \/ Calculate(r) PROVE Types'
  <2>1. TypeOK' /\ ASequence'
    BY <1>1 DEF Report, Calculate, Types, TypeOK, ASequence, prices
  <2>2. CASE Report(r)
    <3>1. PICK s \in Subs, d \in Days, h \in Asked :
             /\ h <= MaxHours
             /\ sub' = [sub EXCEPT ![r] = s] /\ from' = [from EXCEPT ![r] = d]
             /\ until' = [until EXCEPT ![r] = d] /\ hours' = [hours EXCEPT ![r] = h]
             /\ seen' = [seen EXCEPT ![r] = metered[<<s, d>>].version]
      BY <2>2, Zenon DEF Report
    <3>2. h \in 0..MaxHours
      BY <3>1, Constant DEF Asked
    <3>3. pc' = [pc EXCEPT ![r] = "reportRate"] /\ rate' = rate
      BY <2>2 DEF Report, Goto
    <3>4. Vectors'
      BY <3>1, <3>3 DEF Types, Vectors
    <3>5. Reporting'
      BY <3>1, <3>2, <3>3 DEF Types, Vectors, Reporting
    <3>. QED BY <2>1, <3>4, <3>5 DEF Types
  <2>3. CASE Calculate(r)
    <3>1. PICK s \in Subs, a \in Days, z \in Days :
             /\ sub' = [sub EXCEPT ![r] = s] /\ from' = [from EXCEPT ![r] = a]
             /\ until' = [until EXCEPT ![r] = z]
      BY <2>3 DEF Calculate
    <3>2. pc' = [pc EXCEPT ![r] = "lock"] /\ rate' = rate /\ hours' = hours
      BY <2>3 DEF Calculate, Goto
    <3>3. Vectors'
      BY <3>1, <3>2 DEF Types, Vectors
    <3>4. Reporting'
      BY <3>1, <3>2 DEF Types, Vectors, Reporting
    <3>. QED BY <2>1, <3>3, <3>4 DEF Types
  <2>. QED BY <1>1, <2>2, <2>3
<1>2. ASSUME NEW r \in Requests, NEW to \in {"upsert", "sum"}, Resolve(r, to),
             pc[r] = IF to = "upsert" THEN "reportRate" ELSE "rate",
             UNCHANGED <<prices, metered, bills, lock, sub, from, until, hours, attempt>>
      PROVE  Types'
  <2>1. TypeOK' /\ ASequence'
    BY <1>2 DEF Types, TypeOK, ASequence, prices
  <2>2. Vectors'
    BY <1>2 DEF Resolve, Goto, Types, Vectors, TypeOK
  <2>3. Reporting'
    BY <1>2 DEF Resolve, Goto, Types, Vectors, TypeOK, Reporting
  <2>. QED BY <2>1, <2>2, <2>3 DEF Types
<1>3. ASSUME NEW r \in Requests, Upsert(r) PROVE Types'
  <2>1. sub[r] \in Subs /\ from[r] \in Days /\ hours[r] \in 0..MaxHours /\ rate[r] \in Prices
    BY <1>3 DEF Upsert, Types, Vectors, Reporting
  <2>2. metered' \in [Subs \X Days -> [hours: 0..MaxHours, rate: Prices \cup {0}, version: 0..MaxVersion]]
    <3> DEFINE day == <<sub[r], from[r]>>
    <3>1. day \in Subs \X Days /\ metered[day].version \in 0..MaxVersion
      BY <2>1 DEF Types, TypeOK
    <3>2. CASE metered[day].version = MaxVersion
      BY <1>3, <3>2 DEF Upsert, Types, TypeOK
    <3>3. CASE metered[day].version # MaxVersion
      <4>1. metered[day].version + 1 \in 0..MaxVersion
        BY <3>1, <3>3, Constant
      <4>2. metered' = [metered EXCEPT ![day] = [hours |-> hours[r], rate |-> rate[r],
                                                 version |-> metered[day].version + 1]]
        BY <1>3, <3>3 DEF Upsert
      <4>. QED BY <2>1, <3>1, <4>1, <4>2 DEF Types, TypeOK
    <3>. QED BY <3>2, <3>3
  <2>. QED BY <1>3, <2>2, Ended DEF Upsert, Types, TypeOK, ASequence, prices
<1>4. ASSUME NEW r \in Requests, Conflict(r) PROVE Types'
  <2>1. CASE Finish(r)
    BY <1>4, <2>1, Ended DEF Conflict, Types, TypeOK, ASequence, prices
  <2>2. CASE ~(attempt[r] + 1 >= MaxAttempts)
    <3>1. attempt' = [attempt EXCEPT ![r] = @ + 1] /\ attempt[r] + 1 \in 0..(MaxAttempts - 1)
      BY <1>4, <2>2, Constant DEF Conflict, Types, TypeOK
    <3>2. attempt' \in [Requests -> 0..(MaxAttempts - 1)]
      BY <3>1 DEF Types, TypeOK
    <3>. QED BY <1>4, <2>2, <3>2 DEF Conflict, Types, TypeOK, Vectors, Reporting, ASequence, prices
  <2>. QED BY <1>4, <2>1, <2>2 DEF Conflict
<1>5. ASSUME NEW r \in Requests, Lock(r) PROVE Types'
  <2>1. CASE sub[r] \in Hourly
    <3>1. lock' \in [Subs -> Requests \cup {None}]
      BY <1>5, <2>1 DEF Lock, Types, TypeOK
    <3>2. pc' = [pc EXCEPT ![r] = "rate"]
      BY <1>5, <2>1 DEF Lock, Goto
    <3>. QED
      BY <1>5, <2>1, <3>1, <3>2 DEF Lock, Types, TypeOK, Vectors, Reporting, ASequence, prices
  <2>2. CASE sub[r] \notin Hourly
    BY <1>5, <2>2, Ended DEF Lock, Types, TypeOK, ASequence, prices
  <2>. QED BY <2>1, <2>2
<1>6. ASSUME NEW r \in Requests, Aggregate(r) PROVE Types'
  <2>0. sub[r] \in Subs
    BY <1>6, Constant DEF Aggregate, IInv, Holding, Calculating
  <2>1. /\ pc' = [pc EXCEPT ![r] = "existing"]
        /\ \E h \in 0..(MaxHours * LastDay) : hours' = [hours EXCEPT ![r] = h]
    <3>1. PICK s \in Subs : s = sub[r]
      BY <2>0
    <3>2. PICK a : a = from[r]
      OBVIOUS
    <3>3. PICK z : z = until[r]
      OBVIOUS
    <3>4. Reported(s, a, z) \in 0..(MaxHours * LastDay)
      BY HoursBounded DEF Types
    <3>. QED BY <1>6, <3>1, <3>2, <3>3, <3>4 DEF Aggregate, Goto
  <2>. QED BY <1>6, <2>1 DEF Aggregate, Types, TypeOK, Vectors, Reporting, ASequence, prices
<1>7. ASSUME NEW r \in Requests, Existing(r) PROVE Types'
  <2>1. CASE Finish(r) /\ Release(r)
    BY <1>7, <2>1, EndKeeps DEF Existing, IInv
  <2>2. CASE pc' = [pc EXCEPT ![r] = "commit"] /\ UNCHANGED <<lock, sub, from, until, hours, rate, attempt>>
    BY <1>7, <2>2 DEF Existing, Types, TypeOK, Vectors, Reporting, ASequence, prices
  <2>. QED BY <1>7, <2>1, <2>2 DEF Existing, Goto
<1>8. ASSUME NEW r \in Requests, Commit(r) PROVE Types'
  <2>1. lock' \in [Subs -> Requests \cup {None}]
    BY <1>8, Released DEF Commit
  <2>2. ASequence' /\ (\A i \in DOMAIN bills' : bills'[i].sub \in Hourly /\ bills'[i].quantity <= MaxHours * LastDay) /\ Len(bills') <= MaxBills
    <3>1. CASE bills' = bills
      BY <3>1 DEF Types, ASequence, TypeOK
    <3>2. CASE Len(bills) # MaxBills
      <4> DEFINE bill == [sub |-> sub[r], from |-> from[r], until |-> until[r],
                          quantity |-> hours[r], unit |-> rate[r], amount |-> hours[r] * rate[r]]
      <4>1. bills' = Append(bills, bill)
        BY <1>8, <3>2 DEF Commit
      <4>2. PICK S : bills \in Seq(S)
        BY DEF Types, ASequence
      <4>3. bills \in Seq(S \cup {bill})
        BY <4>2, SeqDef
      <4>4. bill.sub \in Hourly /\ bill.quantity <= MaxHours * LastDay
        BY <1>8 DEF Commit, IInv, Holding, Calculating, Reporting, Types
      <4>. HIDE DEF bill
      <4>5. /\ bills' \in Seq(S \cup {bill}) /\ Len(bills') = Len(bills) + 1
            /\ \A i \in 1..Len(bills) : bills'[i] = bills[i]
            /\ bills'[Len(bills) + 1] = bill
        BY <4>1, <4>3, AppendProperties
      <4>6. Len(bills) \in Nat /\ DOMAIN bills = 1..Len(bills) /\ DOMAIN bills' = 1..(Len(bills) + 1)
        BY <4>3, <4>5, LenProperties
      <4>7. Len(bills') <= MaxBills
        BY <3>2, <4>5, <4>6, Constant DEF Types, TypeOK
      <4>8. \A i \in DOMAIN bills' : i \in DOMAIN bills \/ i = Len(bills) + 1
        BY <4>6
      <4>9. \A i \in DOMAIN bills' : bills'[i].sub \in Hourly /\ bills'[i].quantity <= MaxHours * LastDay
        BY <4>4, <4>5, <4>6, <4>8 DEF Types, TypeOK
      <4>. QED BY <4>5, <4>7, <4>9 DEF ASequence
    <3>. QED BY <1>8, <3>1, <3>2 DEF Commit
  <2>. QED BY <1>8, <2>1, <2>2, Ended DEF Commit, Types, TypeOK, prices
<1>9. ASSUME NEW r \in Requests, Crash(r) PROVE Types'
  BY <1>9, EndKeeps DEF Crash, IInv
<1>10. CASE Reprice
  BY <1>10 DEF Reprice, Types, TypeOK, Vectors, Reporting, ASequence, request
<1>11. CASE UNCHANGED vars
  BY <1>11 DEF vars, request, prices, Types, TypeOK, Vectors, Reporting, ASequence
<1>12. ASSUME NEW r \in Requests, ReportRate(r) \/ Rate(r) PROVE Types'
  BY <1>2, <1>12 DEF ReportRate, Rate
<1>. QED
  BY <1>1, <1>3, <1>4, <1>5, <1>6, <1>7, <1>8, <1>9, <1>10, <1>11, <1>12 DEF Next, Statement

-------------------------------------------------------------------------------
LEMMA NextHolding == ASSUME MeteredAssumption, IInv, [Next]_vars PROVE Holding'
<1>. Types /\ Vectors /\ TypeOK /\ Holding
  BY DEF IInv, Types
<1>1. ASSUME NEW r \in Requests, Report(r) \/ Calculate(r) PROVE Holding'
  <2>1. \E s, to : /\ to \notin {"rate", "sum", "existing", "commit"}
                   /\ pc' = [pc EXCEPT ![r] = to] /\ sub' = [sub EXCEPT ![r] = s] /\ lock' = lock
    BY <1>1 DEF Report, Calculate, Goto
  <2>. QED BY <2>1 DEF Holding, Calculating, Vectors
<1>2. ASSUME NEW r \in Requests, ReportRate(r) \/ Rate(r) \/ Aggregate(r) PROVE Holding'
  BY <1>2 DEF ReportRate, Rate, Aggregate, Resolve, Goto, Holding, Calculating, Vectors
<1>3. ASSUME NEW r \in Requests, Upsert(r) PROVE Holding'
  BY <1>3, EndHolding DEF Upsert
<1>4. ASSUME NEW r \in Requests, Conflict(r) PROVE Holding'
  <2>1. (Finish(r) /\ lock' = lock) \/ UNCHANGED <<pc, sub, lock>>
    BY <1>4 DEF Conflict
  <2>. QED BY <2>1, EndHolding DEF Holding, Calculating
<1>5. ASSUME NEW r \in Requests, Lock(r) PROVE Holding'
  <2>1. CASE sub[r] \in Hourly
    <3>1. /\ lock' = [lock EXCEPT ![sub[r]] = r] /\ pc' = [pc EXCEPT ![r] = "rate"] /\ sub' = sub
          /\ lock[sub[r]] = None
      BY <1>5, <2>1 DEF Lock, Goto
    <3>2. \A q \in Requests \ {r} : Calculating(q) => sub[q] # sub[r]
      BY <3>1, Constant DEF Holding
    <3>. QED BY <2>1, <3>1, <3>2, Constant DEF Holding, Calculating, Vectors, TypeOK
  <2>2. CASE sub[r] \notin Hourly
    BY <1>5, <2>2, EndHolding DEF Lock
  <2>. QED BY <2>1, <2>2
<1>6. ASSUME NEW r \in Requests, Existing(r) PROVE Holding'
  <2>1. \/ Finish(r) /\ Release(r)
        \/ pc' = [pc EXCEPT ![r] = "commit"] /\ pc[r] = "existing" /\ UNCHANGED <<lock, sub>>
    BY <1>6 DEF Existing, Goto
  <2>. QED BY <2>1, EndHolding DEF Holding, Calculating, Vectors
<1>7. ASSUME NEW r \in Requests, Commit(r) \/ Crash(r) PROVE Holding'
  BY <1>7, EndHolding DEF Commit, Crash
<1>8. CASE Reprice \/ UNCHANGED vars
  BY <1>8 DEF Reprice, vars, request, Holding, Calculating
<1>. QED
  BY <1>1, <1>2, <1>3, <1>4, <1>5, <1>6, <1>7, <1>8 DEF Next, Statement

\* Only a commit adds a bill, of a period it has found free.
LEMMA NextBills ==
    ASSUME MeteredAssumption, IInv, [Next]_vars
    PROVE  \/ bills' = bills
           \/ \E r \in Requests : \E bill :
                 /\ Commit(r)
                 /\ bill.sub = sub[r] /\ bill.from = from[r] /\ bill.until = until[r]
                 /\ DOMAIN bills' = DOMAIN bills \cup {Len(bills) + 1}
                 /\ Len(bills) + 1 \notin DOMAIN bills
                 /\ \A i \in DOMAIN bills : bills'[i] = bills[i]
                 /\ bills'[Len(bills) + 1] = bill
<1>1. CASE \E r \in Requests : Commit(r)
  <2>1. PICK r \in Requests : Commit(r)
    BY <1>1
  <2> DEFINE bill == [sub |-> sub[r], from |-> from[r], until |-> until[r],
                      quantity |-> hours[r], unit |-> rate[r], amount |-> hours[r] * rate[r]]
  <2>2. CASE bills' = Append(bills, bill)
    <3>1. PICK S : bills \in Seq(S)
      BY DEF IInv, Types, ASequence
    <3>2. bills \in Seq(S \cup {bill})
      BY <3>1, SeqDef
    <3>3. bill.sub = sub[r] /\ bill.from = from[r] /\ bill.until = until[r]
      OBVIOUS
    <3>. HIDE DEF bill
    <3>4. /\ bills' \in Seq(S \cup {bill}) /\ Len(bills') = Len(bills) + 1
          /\ \A i \in 1..Len(bills) : bills'[i] = bills[i]
          /\ bills'[Len(bills) + 1] = bill
      BY <2>2, <3>2, AppendProperties
    <3>5. Len(bills) \in Nat /\ DOMAIN bills = 1..Len(bills) /\ DOMAIN bills' = 1..(Len(bills) + 1)
      BY <3>2, <3>4, LenProperties
    <3>6. DOMAIN bills' = DOMAIN bills \cup {Len(bills) + 1} /\ Len(bills) + 1 \notin DOMAIN bills
      BY <3>5
    <3>. QED BY <2>1, <3>3, <3>4, <3>5, <3>6
  <2>. QED BY <2>1, <2>2 DEF Commit
<1>2. CASE ~\E r \in Requests : Commit(r)
  BY <1>2 DEF Next, Statement, Report, Calculate, ReportRate, Upsert, Conflict, Lock, Rate, Aggregate,
     Existing, Crash, Reprice, vars
<1>. QED BY <1>1, <1>2

LEMMA NextBilledOnce == ASSUME MeteredAssumption, IInv, [Next]_vars PROVE PeriodBilledOnce'
<1>1. CASE bills' = bills
  BY <1>1 DEF IInv, PeriodBilledOnce
<1>2. ASSUME NEW r \in Requests, NEW bill, Commit(r),
             bill.sub = sub[r], bill.from = from[r], bill.until = until[r],
             DOMAIN bills' = DOMAIN bills \cup {Len(bills) + 1}, Len(bills) + 1 \notin DOMAIN bills,
             \A i \in DOMAIN bills : bills'[i] = bills[i], bills'[Len(bills) + 1] = bill
      PROVE  PeriodBilledOnce'
  <2>1. ~Billed(sub[r], from[r], until[r])
    BY <1>2 DEF Commit, IInv, Unbilled
  <2>2. \A i \in DOMAIN bills : \/ bills[i].sub # bill.sub
                                \/ <<bills[i].from, bills[i].until>> # <<bill.from, bill.until>>
    BY <1>2, <2>1 DEF Billed
  <2>. QED BY <1>2, <2>2 DEF IInv, PeriodBilledOnce
<1>. QED BY <1>1, <1>2, NextBills

\* What a request has found free stays free while it holds the lock.
LEMMA NextUnbilled == ASSUME MeteredAssumption, IInv, [Next]_vars PROVE Unbilled'
<1>. Types /\ Vectors /\ TypeOK
  BY DEF IInv, Types
<1> DEFINE Same(b, s, a, z) == b.sub = s /\ b.from = a /\ b.until = z
<1> SUFFICES ASSUME NEW q \in Requests, pc'[q] = "commit"
             PROVE  \A i \in DOMAIN bills' : ~Same(bills'[i], sub'[q], from'[q], until'[q])
  BY DEF Unbilled, Billed
<1>1. \/ pc[q] = "commit" /\ sub'[q] = sub[q] /\ from'[q] = from[q] /\ until'[q] = until[q]
      \/ Existing(q) /\ sub' = sub /\ from' = from /\ until' = until
  <2>1. ASSUME NEW r \in Requests, Finish(r)
        PROVE  pc[q] = "commit" /\ sub'[q] = sub[q] /\ from'[q] = from[q] /\ until'[q] = until[q]
    BY <2>1, Ended
  <2>2. ASSUME NEW r \in Requests, Report(r) \/ Calculate(r)
        PROVE  pc[q] = "commit" /\ sub'[q] = sub[q] /\ from'[q] = from[q] /\ until'[q] = until[q]
    <3>1. \/ pc' = [pc EXCEPT ![r] = "reportRate"]
          \/ pc' = [pc EXCEPT ![r] = "lock"]
      BY <2>2 DEF Report, Calculate, Goto
    <3>2. q # r /\ pc[q] = "commit"
      BY <3>1 DEF Vectors
    <3>3. sub'[q] = sub[q] /\ from'[q] = from[q] /\ until'[q] = until[q]
      <4>1. CASE Report(r)
        BY <3>2, <4>1 DEF Report, Vectors
      <4>2. CASE Calculate(r)
        BY <3>2, <4>2 DEF Calculate, Vectors
      <4>. QED BY <2>2, <4>1, <4>2
    <3>. QED BY <3>2, <3>3
  <2>3. ASSUME NEW r \in Requests, ReportRate(r) \/ Rate(r) \/ Aggregate(r)
        PROVE  pc[q] = "commit" /\ sub' = sub /\ from' = from /\ until' = until
    BY <2>3 DEF ReportRate, Rate, Aggregate, Resolve, Goto, Vectors
  <2>4. ASSUME NEW r \in Requests, Conflict(r) \/ Lock(r), ~Finish(r)
        PROVE  pc[q] = "commit" /\ sub' = sub /\ from' = from /\ until' = until
    BY <2>4 DEF Conflict, Lock, Goto, Vectors
  <2>5. ASSUME NEW r \in Requests, Existing(r), ~Finish(r)
        PROVE  (pc[q] = "commit" \/ q = r) /\ sub' = sub /\ from' = from /\ until' = until
    BY <2>5 DEF Existing, Goto, Vectors
  <2>6. CASE Reprice \/ UNCHANGED vars
    BY <2>6 DEF Reprice, vars, request
  <2>. QED
    BY <2>1, <2>2, <2>3, <2>4, <2>5, <2>6 DEF Next, Statement, Upsert, Commit, Crash
<1>2. CASE Existing(q) /\ sub' = sub /\ from' = from /\ until' = until
  <2>1. bills' = bills /\ ~Billed(sub[q], from[q], until[q])
    BY <1>2, Ended DEF Existing
  <2>. QED BY <1>2, <2>1 DEF Billed
<1>3. CASE pc[q] = "commit" /\ sub'[q] = sub[q] /\ from'[q] = from[q] /\ until'[q] = until[q]
  <2>1. ~Billed(sub[q], from[q], until[q])
    BY <1>3 DEF IInv, Unbilled
  <2>2. CASE bills' = bills
    BY <1>3, <2>1, <2>2 DEF Billed
  <2>3. ASSUME NEW r \in Requests, NEW bill, Commit(r),
               bill.sub = sub[r], bill.from = from[r], bill.until = until[r],
               DOMAIN bills' = DOMAIN bills \cup {Len(bills) + 1}, Len(bills) + 1 \notin DOMAIN bills,
               \A i \in DOMAIN bills : bills'[i] = bills[i], bills'[Len(bills) + 1] = bill
        PROVE  \A i \in DOMAIN bills' : ~Same(bills'[i], sub'[q], from'[q], until'[q])
    <3>1. q # r
      BY <2>3, Ended DEF Commit
    <3>2. sub[q] # sub[r]
      BY <1>3, <2>3, <3>1 DEF Commit, IInv, Holding, Calculating
    <3>. QED BY <1>3, <2>1, <2>3, <3>2 DEF Billed
  <2>. QED BY <2>2, <2>3, NextBills
<1>. QED BY <1>1, <1>2, <1>3

LEMMA NextInv == ASSUME MeteredAssumption, IInv, [Next]_vars PROVE IInv'
BY NextTypes, NextHolding, NextUnbilled, NextBilledOnce DEF IInv

\* The invariant holds of every state of every run.
THEOREM Invariance == ASSUME MeteredAssumption PROVE Spec => []IInv
BY InitInv, NextInv, PTL DEF Spec

\* Types of the tables, of the locks and of the requests; and no bill is of more
\* hours than the days have, whatever is reported again while it is added up.
THEOREM TypeCorrect == ASSUME MeteredAssumption PROVE Spec => []TypeOK
<1>1. IInv => TypeOK
  BY DEF IInv, Types
<1>. QED BY <1>1, Invariance, PTL

\* However many calculations of a period overlap, and wherever they break off,
\* it is billed at most once.
THEOREM BilledOnce == ASSUME MeteredAssumption PROVE Spec => []PeriodBilledOnce
<1>1. IInv => PeriodBilledOnce
  BY DEF IInv
<1>. QED BY <1>1, Invariance, PTL

-------------------------------------------------------------------------------
(* Ranks: samples S with the rates f, any finite number of them. *)

\* The samples with more than a rate, and those with it or more.
Over(f, S, v) == {x \in S : f[x] > v}
From(f, S, v) == {x \in S : f[x] >= v}

LEMMA LeastNat ==
    ASSUME NEW T, T \subseteq Nat, T # {}
    PROVE  \E m \in T : \A t \in T : m <= t
<1>1. PICK x \in T : \A y \in T : <<y, x>> \notin OpToRel(<, Nat)
  BY NatLessThanWellFounded, WFMin
<1>2. ASSUME NEW y \in T PROVE x <= y
  <2>1. ~(y < x)
    BY <1>1 DEF OpToRel
  <2>. QED BY <2>1
<1>. QED BY <1>2

LEMMA Fewer ==
    ASSUME NEW S, IsFiniteSet(S), NEW T \in SUBSET S
    PROVE  /\ Cardinality(T) \in Nat /\ Cardinality(S) \in Nat
           /\ Cardinality(T) <= Cardinality(S)
           /\ T # S => Cardinality(T) < Cardinality(S)
<1>1. IsFiniteSet(T) /\ Cardinality(T) <= Cardinality(S)
  BY FS_Subset
<1>2. Cardinality(T) \in Nat /\ Cardinality(S) \in Nat
  BY <1>1, FS_CardinalityType
<1>3. T # S => Cardinality(T) # Cardinality(S)
  BY FS_Subset
<1>. QED BY <1>1, <1>2, <1>3

\* There is a sample at every rank.
LEMMA RankFound ==
    ASSUME NEW S, IsFiniteSet(S), NEW f, \A x \in S : f[x] \in Nat,
           NEW k \in Nat, 1 <= k, k <= Cardinality(S)
    PROVE  \E s \in S : Cardinality(Over(f, S, f[s])) < k /\ k <= Cardinality(From(f, S, f[s]))
<1>. DEFINE Enough == {s \in S : k <= Cardinality(From(f, S, f[s]))}
            Sizes == {Cardinality(From(f, S, f[s])) : s \in Enough}
<1>0. \A v : From(f, S, v) \in SUBSET S /\ Over(f, S, v) \in SUBSET S
  BY DEF From, Over
<1>1. Enough # {}
  <2>1. S # {}
    BY FS_EmptySet
  <2>2. PICK m \in {f[x] : x \in S} : \A t \in {f[x] : x \in S} : m <= t
    <3>1. {f[x] : x \in S} \subseteq Nat /\ {f[x] : x \in S} # {}
      BY <2>1
    <3>. QED BY <3>1, LeastNat
  <2>3. PICK s \in S : m = f[s]
    BY <2>2
  <2>4. From(f, S, f[s]) = S
    BY <2>2, <2>3 DEF From
  <2>. QED BY <2>4
<1>2. Sizes \subseteq Nat /\ Sizes # {}
  BY <1>0, <1>1, Fewer
<1>3. PICK m \in Sizes : \A t \in Sizes : m <= t
  <2>. HIDE DEF Sizes
  <2>. QED BY <1>2, LeastNat
<1>4. PICK s \in Enough : m = Cardinality(From(f, S, f[s]))
  BY <1>3
<1>5. Cardinality(Over(f, S, f[s])) < k
  <2>1. CASE Over(f, S, f[s]) = {}
    BY <2>1, FS_EmptySet
  <2>2. CASE Over(f, S, f[s]) # {}
    <3>. DEFINE V == {f[x] : x \in Over(f, S, f[s])}
    <3>1. V \subseteq Nat /\ V # {}
      BY <2>2 DEF Over
    <3>2. PICK v \in V : \A t \in V : v <= t
      <4>. HIDE DEF V
      <4>. QED BY <3>1, LeastNat
    <3>3. PICK y \in Over(f, S, f[s]) : v = f[y]
      BY <3>2
    <3>4. y \in S /\ f[y] > f[s] /\ f[y] \in Nat /\ f[s] \in Nat
      BY <3>3 DEF Over
    <3>5. From(f, S, f[y]) = Over(f, S, f[s])
      <4>1. ASSUME NEW x \in S, f[x] >= f[y] PROVE f[x] > f[s]
        BY <3>4, <4>1
      <4>2. ASSUME NEW x \in S, f[x] > f[s] PROVE f[x] >= f[y]
        <5>1. f[x] \in V
          BY <4>2 DEF Over
        <5>. QED BY <3>2, <3>3, <5>1
      <4>. QED BY <4>1, <4>2 DEF From, Over
    <3>6. From(f, S, f[y]) \in SUBSET From(f, S, f[s]) /\ s \in From(f, S, f[s]) /\ s \notin From(f, S, f[y])
      BY <3>4, <3>5 DEF From, Over
    <3>7. IsFiniteSet(From(f, S, f[s]))
      BY <1>0, FS_Subset
    <3>8. Cardinality(From(f, S, f[y])) < m
      BY <1>4, <3>6, <3>7, Fewer
    <3>9. y \notin Enough
      BY <1>2, <1>3, <3>8
    <3>10. Cardinality(From(f, S, f[y])) \in Nat
      BY <1>0, Fewer
    <3>. QED BY <3>4, <3>5, <3>9, <3>10
  <2>. QED BY <2>1, <2>2
<1>. QED BY <1>4, <1>5

\* One in Share of N, rounded down, is at most k - 1.
LEMMA RankDivides ==
    ASSUME NEW N \in Nat, NEW p \in Nat, 1 < p, p <= N
    PROVE  /\ (N \div p) + 1 \in 1..N
           /\ \A c \in Nat : c * p <= N <=> c < (N \div p) + 1
<1>1. PICK q \in Nat : q = N \div p /\ p * q <= N /\ N < p * q + p
  OBVIOUS
<1>2. ASSUME NEW a \in Nat, NEW b \in Nat, a <= b PROVE a * p <= b * p
  BY <1>2
<1>3. ASSUME NEW c \in Nat PROVE c * p <= N <=> c < q + 1
  <2>1. CASE c <= q
    BY <1>1, <1>2, <2>1
  <2>2. CASE q + 1 <= c
    <3>1. (q + 1) * p <= c * p /\ (q + 1) * p = p * q + p
      BY <1>2, <2>2
    <3>. QED BY <1>1, <2>2, <3>1
  <2>. QED BY <2>1, <2>2
<1>4. q < N
  <2>. SUFFICES ASSUME N <= q PROVE FALSE
    OBVIOUS
  <2>1. N * p <= q * p /\ 2 * N <= p * N
    BY <1>2
  <2>. QED BY <1>1, <2>1
<1>. QED BY <1>1, <1>3, <1>4

\* The sample at the rank, and no more: the least rate that not too many exceed.
LEMMA RankIsLeast ==
    ASSUME NEW S, IsFiniteSet(S), NEW f, \A x \in S : f[x] \in Nat,
           NEW k \in Nat, 1 <= k, k <= Cardinality(S), NEW P,
           NEW few, few = {f[s] : s \in {x \in S : Cardinality(Over(f, S, f[x])) < k}},
           P \in few, \A t \in few : P <= t
    PROVE  /\ {f[s] : s \in {x \in S : Cardinality(Over(f, S, f[x])) < k
                                        /\ k <= Cardinality(From(f, S, f[x]))}} = {P}
           /\ P \in Nat /\ k <= Cardinality(From(f, S, P))
<1>1. PICK s \in S : P = f[s] /\ Cardinality(Over(f, S, f[s])) < k
  OBVIOUS
<1>2. ASSUME NEW x \in S, Cardinality(Over(f, S, f[x])) < k, k <= Cardinality(From(f, S, f[x]))
      PROVE  f[x] = P
  <2>1. P <= f[x]
    BY <1>2
  <2>. SUFFICES ASSUME P < f[x] PROVE FALSE
    BY <2>1, <1>1
  <2>2. From(f, S, f[x]) \in SUBSET Over(f, S, f[s]) /\ Over(f, S, f[s]) \in SUBSET S
    BY <1>1 DEF From, Over
  <2>3. IsFiniteSet(Over(f, S, f[s]))
    BY <2>2, FS_Subset
  <2>. QED BY <1>1, <1>2, <2>2, <2>3, Fewer
<1>3. PICK x \in S : Cardinality(Over(f, S, f[x])) < k /\ k <= Cardinality(From(f, S, f[x]))
  BY RankFound
<1>. QED BY <1>1, <1>2, <1>3

\* What has as many samples from it as the rank is no more than what is at the rank.
LEMMA RankIsAbove ==
    ASSUME NEW S, IsFiniteSet(S), NEW f, \A x \in S : f[x] \in Nat, NEW k \in Nat, NEW P \in Nat,
           k <= Cardinality(From(f, S, P)),
           NEW x \in S, Cardinality(Over(f, S, f[x])) < k
    PROVE  P <= f[x]
<1>. SUFFICES ASSUME f[x] < P PROVE FALSE
  OBVIOUS
<1>1. From(f, S, P) \in SUBSET Over(f, S, f[x]) /\ Over(f, S, f[x]) \in SUBSET S
  BY DEF From, Over
<1>2. IsFiniteSet(Over(f, S, f[x]))
  BY <1>1, FS_Subset
<1>. QED BY <1>1, <1>2, Fewer

-------------------------------------------------------------------------------
(* Bandwidth, for any samplers, billers, ports, rates and slots. *)

CONSTANTS Samplers, Billers, NPorts, LastSlot, Rates, Share, Batch, Commits, Failing

VARIABLES samples, commit, oldest, portPc, firstSlot, ports, size, done, todo, port, count,
          bps, total, lacking, answer, lost, owed, steady, kept

Traffic == INSTANCE Bandwidth WITH
    pc <- portPc, from <- firstSlot, n <- ports, rate <- bps

Top == Traffic!Max(Rates \cup Commits)

TrafficTables ==
    /\ samples \in [Traffic!Slots \X Traffic!Ports -> Rates \cup {Traffic!NoRate}]
    /\ commit \in Commits
TrafficVectors ==
    /\ portPc \in [Traffic!Requests -> {"idle", "insert", "count", "pick", "fallback", "amount"}]
    /\ answer \in [Traffic!Requests -> {"none", "generated", "measured", "committed", "error"}]
    /\ steady \in [Billers -> BOOLEAN] /\ kept \in [Billers -> BOOLEAN]
    /\ lacking \in [Billers -> BOOLEAN]
    /\ todo \in [Billers -> SUBSET Traffic!Ports] /\ port \in [Billers -> Traffic!Ports]
    /\ count \in [Billers -> Nat] /\ bps \in [Billers -> Nat]
    /\ total \in [Billers -> Nat] /\ owed \in [Billers -> Nat]
    /\ ports \in [Samplers -> Nat] /\ firstSlot \in [Samplers -> Nat]
    /\ size \in [Samplers -> Nat] /\ done \in [Samplers -> Nat]
Sending(r) == portPc[r] = "insert" <=> done[r] < size[r]
AtPick(r) == portPc[r] = "pick" => count[r] >= Share /\ port[r] \in todo[r]
AtCount(r) == portPc[r] = "count" => todo[r] # {}
Within(r) == bps[r] + Cardinality(todo[r]) * Top <= NPorts * Top

TrafficTypes ==
    /\ TrafficTables /\ TrafficVectors
    /\ \A r \in Samplers : Sending(r) /\ (portPc[r] # "insert" => done[r] = 0)
    /\ \A r \in Billers : AtPick(r) /\ AtCount(r) /\ Within(r)

\* The samples of a port, and how many have a rate or more.
Rated(p) == [s \in Traffic!Slots |-> samples[<<s, p>>]]
Reaching(p, v) == Cardinality(From(Rated(p), Traffic!Of(p), v))

\* What a bill owes so far it has, but for the port at hand: of that one it owes a
\* rate that as many samples reach as the rank that it is to pick.
Settled(r) ==
    portPc[r] \in {"count", "fallback", "amount"} \/ answer[r] = "measured" =>
        /\ steady[r] => bps[r] = owed[r]
        /\ kept[r] => bps[r] >= owed[r]
Owing(r) ==
    portPc[r] = "pick" =>
        /\ steady[r] => /\ count[r] = Cardinality(Traffic!Of(port[r]))
                        /\ bps[r] + Traffic!Percentile(port[r]) = owed[r]
        /\ kept[r] => \E v \in Nat : /\ bps[r] + v >= owed[r]
                                     /\ Traffic!Rank(count[r]) <= Reaching(port[r], v)
Unanswered(r) == portPc[r] # "idle" => answer[r] # "measured"

TrafficInv == TrafficTypes /\ \A r \in Billers : Settled(r) /\ Owing(r) /\ Unanswered(r)

-------------------------------------------------------------------------------
LEMMA TrafficCards ==
    \A S : Traffic!Cardinality(S) = Cardinality(S) /\ (Traffic!IsFiniteSet(S) <=> IsFiniteSet(S))
BY DEF Traffic!Cardinality, Cardinality, Traffic!IsFiniteSet, IsFiniteSet

\* A finite set of numbers has a greatest one, and any of them a least one.
LEMMA TrafficMax ==
    ASSUME NEW S, S \subseteq Nat, IsFiniteSet(S), S # {}
    PROVE  Traffic!Max(S) \in S /\ \A x \in S : x <= Traffic!Max(S)
<1>. DEFINE f == [x \in S |-> x]
            Sizes == {Cardinality(Over(f, S, x)) : x \in S}
<1>0. \A x \in S : f[x] = x /\ x \in Nat
  OBVIOUS
<1>. HIDE DEF f
<1>1. \A x \in S : Over(f, S, x) \in SUBSET S
  BY DEF Over
<1>2. Sizes \subseteq Nat /\ Sizes # {}
  BY <1>1, Fewer
<1>3. PICK m \in Sizes : \A t \in Sizes : m <= t
  <2>. HIDE DEF Sizes
  <2>. QED BY <1>2, LeastNat
<1>4. PICK x \in S : m = Cardinality(Over(f, S, x))
  BY <1>3
<1>5. ASSUME NEW y \in S PROVE y <= x
  <2>. SUFFICES ASSUME x < y PROVE FALSE
    OBVIOUS
  <2>1. Over(f, S, y) \in SUBSET Over(f, S, x) /\ y \in Over(f, S, x) /\ y \notin Over(f, S, y)
    <3>1. x \in Nat /\ y \in Nat /\ f[y] = y /\ x < y
      BY <1>0
    <3>2. \A z \in S : f[z] = z /\ z \in Nat
      BY <1>0
    <3>3. ASSUME NEW z \in S, f[z] > y PROVE f[z] > x
      BY <3>1, <3>2, <3>3
    <3>4. \A z \in Over(f, S, y) : z \in Over(f, S, x)
      BY <3>3 DEF Over
    <3>5. f[y] > x /\ ~(f[y] > y)
      BY <3>1
    <3>6. y \in Over(f, S, x) /\ y \notin Over(f, S, y)
      BY <3>5 DEF Over
    <3>. QED BY <3>4, <3>6
  <2>2. IsFiniteSet(Over(f, S, x))
    BY <1>1, FS_Subset
  <2>3. Cardinality(Over(f, S, y)) < m
    BY <1>4, <2>1, <2>2, Fewer
  <2>4. Cardinality(Over(f, S, y)) \in Sizes /\ m \in Nat
    BY <1>2
  <2>5. m <= Cardinality(Over(f, S, y)) /\ Cardinality(Over(f, S, y)) \in Nat
    BY <1>2, <1>3, <2>4
  <2>. QED BY <2>3, <2>4, <2>5
<1>. QED BY <1>5 DEF Traffic!Max

LEMMA TrafficMin ==
    ASSUME NEW S, S \subseteq Nat, S # {}
    PROVE  Traffic!Min(S) \in S /\ \A x \in S : Traffic!Min(S) <= x
BY LeastNat DEF Traffic!Min

LEMMA TrafficConstant ==
    ASSUME Traffic!BandwidthAssumption
    PROVE  /\ NPorts \in Nat /\ NPorts > 0 /\ LastSlot \in Nat /\ Share \in Nat /\ Share > 1
           /\ Rates \subseteq Nat /\ 0 \notin Rates /\ Commits \subseteq Nat
           /\ Batch \in Nat /\ Batch > 0
           /\ (Commits # {} => /\ Top \in Nat /\ \A x \in Rates \cup Commits : x <= Top)
           /\ 1 \in Traffic!Ports /\ Traffic!Ports \subseteq Nat
           /\ IsFiniteSet(Traffic!Ports) /\ Cardinality(Traffic!Ports) = NPorts
           /\ IsFiniteSet(Traffic!Slots) /\ Traffic!Slots \subseteq Nat
<1>1. /\ NPorts \in Nat /\ NPorts > 0 /\ LastSlot \in Nat /\ Share \in Nat /\ Share > 1
      /\ Rates \subseteq Nat /\ 0 \notin Rates /\ Commits \subseteq Nat
      /\ Batch \in Nat /\ Batch > 0
  BY DEF Traffic!BandwidthAssumption, Traffic!NoRate
<1>2. IsFiniteSet(Rates) /\ IsFiniteSet(Commits)
  BY TrafficCards DEF Traffic!BandwidthAssumption
<1>3. Commits # {} => Top \in Nat /\ \A x \in Rates \cup Commits : x <= Top
  <2>1. IsFiniteSet(Rates \cup Commits)
    BY <1>2, FS_Union
  <2>2. ASSUME NEW S, S = Rates \cup Commits, Commits # {}
        PROVE  Traffic!Max(S) \in S /\ \A x \in S : x <= Traffic!Max(S)
    BY <1>1, <2>1, <2>2, TrafficMax
  <2>. QED BY <1>1, <2>2 DEF Top
<1>4. IsFiniteSet(1..NPorts) /\ Cardinality(1..NPorts) = NPorts /\ IsFiniteSet(1..LastSlot)
  <2>1. NPorts \in Int /\ LastSlot \in Int /\ ~(1 > NPorts) /\ NPorts - 1 + 1 = NPorts
    BY <1>1
  <2>2. IsFiniteSet(1..NPorts) /\ Cardinality(1..NPorts) = NPorts - 1 + 1
    BY <2>1, FS_Interval
  <2>3. IsFiniteSet(1..LastSlot)
    <3>1. IsFiniteSet(1..LastSlot) /\ Cardinality(1..LastSlot) = IF 1 > LastSlot THEN 0 ELSE LastSlot - 1 + 1
      BY <2>1, FS_Interval
    <3>. QED BY <3>1
  <2>. QED BY <2>1, <2>2, <2>3
<1>. QED BY <1>1, <1>3, <1>4 DEF Traffic!Ports, Traffic!Slots

\* The samples of a port, as ranks see them.
LEMMA SamplesOf ==
    ASSUME Traffic!BandwidthAssumption, TrafficTables, NEW p \in Traffic!Ports
    PROVE  /\ IsFiniteSet(Traffic!Of(p)) /\ Traffic!Of(p) \subseteq Traffic!Slots
           /\ Cardinality(Traffic!Of(p)) \in Nat
           /\ \A s \in Traffic!Of(p) : samples[<<s, p>>] \in Rates /\ Rated(p)[s] = samples[<<s, p>>]
                                      /\ Rated(p)[s] \in Nat
           /\ \A s \in Traffic!Of(p) :
                 /\ Traffic!Above(p, s) = Over(Rated(p), Traffic!Of(p), Rated(p)[s])
                 /\ Traffic!AtLeast(p, s) = From(Rated(p), Traffic!Of(p), Rated(p)[s])
<1>1. Traffic!Of(p) \subseteq Traffic!Slots
  BY DEF Traffic!Of
<1>2. IsFiniteSet(Traffic!Of(p)) /\ Cardinality(Traffic!Of(p)) \in Nat
  BY <1>1, TrafficConstant, FS_Subset, FS_CardinalityType
<1>3. ASSUME NEW s \in Traffic!Of(p) PROVE samples[<<s, p>>] \in Rates /\ Rated(p)[s] = samples[<<s, p>>]
  <2>1. s \in Traffic!Slots /\ samples[<<s, p>>] # 0
    BY DEF Traffic!Of, Traffic!NoRate
  <2>2. samples[<<s, p>>] \in Rates \cup {0}
    BY <2>1 DEF TrafficTables, Traffic!NoRate
  <2>. QED BY <2>1, <2>2 DEF Rated
<1>4. \A s \in Traffic!Of(p) : Rated(p)[s] \in Nat
  BY <1>3, TrafficConstant
<1>5. \A s \in Traffic!Of(p) :
         /\ Traffic!Above(p, s) = Over(Rated(p), Traffic!Of(p), Rated(p)[s])
         /\ Traffic!AtLeast(p, s) = From(Rated(p), Traffic!Of(p), Rated(p)[s])
  BY <1>3 DEF Traffic!Above, Traffic!AtLeast, Over, From
<1>. QED BY <1>1, <1>2, <1>3, <1>4, <1>5


\* The pick at the rank of the samples that are there is the exact percentile.
LEMMA PickIsExact ==
    ASSUME Traffic!BandwidthAssumption, TrafficTables, NEW p \in Traffic!Ports,
           Share <= Cardinality(Traffic!Of(p))
    PROVE  LET k == Traffic!Rank(Cardinality(Traffic!Of(p)))
           IN  /\ Traffic!AtRank(p, k) = {Traffic!Percentile(p)}
               /\ Traffic!Percentile(p) \in Nat
               /\ k <= Reaching(p, Traffic!Percentile(p))
<1>1. PICK S : S = Traffic!Of(p)
  OBVIOUS
<1>2. PICK f : f = Rated(p)
  OBVIOUS
<1>3. /\ IsFiniteSet(S) /\ Cardinality(S) \in Nat /\ Share <= Cardinality(S)
      /\ \A s \in S : f[s] \in Nat /\ f[s] = samples[<<s, p>>]
      /\ \A s \in S : Traffic!Above(p, s) = Over(f, S, f[s]) /\ Traffic!AtLeast(p, s) = From(f, S, f[s])
  BY <1>1, <1>2, SamplesOf
<1>4. Share \in Nat /\ Share > 1
  BY TrafficConstant
<1>5. PICK k : k = Traffic!Rank(Cardinality(S))
  OBVIOUS
<1>6. k = (Cardinality(S) \div Share) + 1
  BY <1>5 DEF Traffic!Rank
<1>7. k \in 1..Cardinality(S) /\ \A c \in Nat : c * Share <= Cardinality(S) <=> c < k
  BY <1>3, <1>4, <1>6, RankDivides
<1>8. \A s \in S : Cardinality(Over(f, S, f[s])) \in Nat
  <2>1. \A s \in S : Over(f, S, f[s]) \in SUBSET S
    BY DEF Over
  <2>. QED BY <1>3, <2>1, Fewer
<1>. DEFINE few == {f[s] : s \in {x \in S : Cardinality(Over(f, S, f[x])) < k}}
<1>9. few = {samples[<<s, p>>] : s \in {x \in Traffic!Of(p) :
                Traffic!Cardinality(Traffic!Above(p, x)) * Share <= Traffic!Cardinality(Traffic!Of(p))}}
  <2>1. ASSUME NEW x \in S
        PROVE  Traffic!Cardinality(Traffic!Above(p, x)) * Share <= Traffic!Cardinality(Traffic!Of(p))
                 <=> Cardinality(Over(f, S, f[x])) < k
    <3>1. Traffic!Cardinality(Traffic!Above(p, x)) = Cardinality(Over(f, S, f[x]))
          /\ Traffic!Cardinality(Traffic!Of(p)) = Cardinality(S)
      BY <1>1, <1>3, TrafficCards
    <3>. QED BY <1>7, <1>8, <3>1
  <2>. QED BY <1>1, <1>3, <2>1
<1>10. Traffic!Percentile(p) = Traffic!Min(few)
  BY <1>9 DEF Traffic!Percentile
<1>11. few \subseteq Nat /\ few # {}
  <2>0. k \in Nat /\ 1 <= k /\ k <= Cardinality(S)
    BY <1>3, <1>7
  <2>1. PICK s \in S : Cardinality(Over(f, S, f[s])) < k
    BY <1>3, <2>0, RankFound
  <2>. QED BY <1>3, <2>1
<1>. HIDE DEF few
<1>12. PICK P : P = Traffic!Min(few)
  OBVIOUS
<1>13. P \in few /\ \A x \in few : P <= x
  BY <1>11, <1>12, TrafficMin
<1>14. /\ {f[s] : s \in {x \in S : Cardinality(Over(f, S, f[x])) < k
                                    /\ k <= Cardinality(From(f, S, f[x]))}} = {P}
       /\ P \in Nat /\ k <= Cardinality(From(f, S, P))
  <2>1. few = {f[s] : s \in {x \in S : Cardinality(Over(f, S, f[x])) < k}}
    BY DEF few
  <2>2. k \in Nat /\ 1 <= k /\ k <= Cardinality(S)
    BY <1>3, <1>7
  <2>. QED BY <1>3, <1>13, <2>1, <2>2, RankIsLeast
<1>15. Traffic!AtRank(p, k) = {P}
  <2>1. \A x \in S : /\ Traffic!Cardinality(Traffic!Above(p, x)) = Cardinality(Over(f, S, f[x]))
                     /\ Traffic!Cardinality(Traffic!AtLeast(p, x)) = Cardinality(From(f, S, f[x]))
    BY <1>3, TrafficCards
  <2>2. Traffic!AtRank(p, k) = {f[s] : s \in {x \in S : Cardinality(Over(f, S, f[x])) < k
                                    /\ k <= Cardinality(From(f, S, f[x]))}}
    BY <1>1, <1>3, <2>1 DEF Traffic!AtRank
  <2>. QED BY <1>14, <2>2
<1>. QED BY <1>1, <1>2, <1>5, <1>10, <1>12, <1>14, <1>15 DEF Reaching

\* And a pick at a rank that as many samples reach with a rate is no lower.
LEMMA PickIsNoLower ==
    ASSUME Traffic!BandwidthAssumption, TrafficTables, NEW p \in Traffic!Ports,
           NEW k \in Nat, 1 <= k, NEW v \in Nat, k <= Reaching(p, v)
    PROVE  /\ Traffic!AtRank(p, k) # {} /\ Traffic!AtRank(p, k) \subseteq Rates
           /\ v <= Traffic!Min(Traffic!AtRank(p, k))
<1>1. PICK S : S = Traffic!Of(p)
  OBVIOUS
<1>2. PICK f : f = Rated(p)
  OBVIOUS
<1>3. /\ IsFiniteSet(S) /\ Cardinality(S) \in Nat
      /\ \A s \in S : f[s] \in Nat /\ f[s] = samples[<<s, p>>] /\ f[s] \in Rates
      /\ \A s \in S : Traffic!Above(p, s) = Over(f, S, f[s]) /\ Traffic!AtLeast(p, s) = From(f, S, f[s])
  BY <1>1, <1>2, SamplesOf
<1>4. k <= Cardinality(From(f, S, v))
  BY <1>1, <1>2 DEF Reaching
<1>5. k <= Cardinality(S)
  <2>1. From(f, S, v) \in SUBSET S
    BY DEF From
  <2>2. Cardinality(From(f, S, v)) \in Nat /\ Cardinality(From(f, S, v)) <= Cardinality(S)
    BY <1>3, <2>1, Fewer
  <2>. QED BY <1>3, <1>4, <2>2
<1>. DEFINE at == {f[s] : s \in {x \in S : Cardinality(Over(f, S, f[x])) < k
                                    /\ k <= Cardinality(From(f, S, f[x]))}}
<1>6. Traffic!AtRank(p, k) = at
  <2>1. \A x \in S : /\ Traffic!Cardinality(Traffic!Above(p, x)) = Cardinality(Over(f, S, f[x]))
                     /\ Traffic!Cardinality(Traffic!AtLeast(p, x)) = Cardinality(From(f, S, f[x]))
    BY <1>3, TrafficCards
  <2>. QED BY <1>1, <1>3, <2>1 DEF Traffic!AtRank
<1>7. at # {}
  <2>1. PICK s \in S : Cardinality(Over(f, S, f[s])) < k /\ k <= Cardinality(From(f, S, f[s]))
    BY <1>3, <1>5, RankFound
  <2>. QED BY <2>1
<1>8. at \subseteq Rates /\ at \subseteq Nat
  BY <1>3
<1>9. ASSUME NEW x \in S, Cardinality(Over(f, S, f[x])) < k PROVE v <= f[x]
  BY <1>3, <1>4, <1>9, RankIsAbove
<1>10. \A x \in at : v <= x
  BY <1>9
<1>. HIDE DEF at
<1>11. PICK T : T = at
  OBVIOUS
<1>12. Traffic!Min(T) \in T
  BY <1>7, <1>8, <1>11, TrafficMin
<1>. QED BY <1>6, <1>7, <1>8, <1>10, <1>11, <1>12


-------------------------------------------------------------------------------
LEMMA InitTraffic ==
    ASSUME Traffic!BandwidthAssumption, Traffic!Init PROVE TrafficInv
<1>0. commit \in Commits /\ Top \in Nat
  BY TrafficConstant DEF Traffic!Init
<1>1. TrafficTables
  BY <1>0 DEF Traffic!Init, TrafficTables
<1>2. TrafficVectors
  BY TrafficConstant DEF Traffic!Init, TrafficVectors, Traffic!Each, Traffic!All, Traffic!Requests
<1>3. \A r \in Samplers : Sending(r) /\ (portPc[r] # "insert" => done[r] = 0)
  BY DEF Traffic!Init, Traffic!Each, Traffic!Requests, Sending
<1>4. ASSUME NEW r \in Billers PROVE AtPick(r) /\ AtCount(r) /\ Within(r)
  <2>1. portPc[r] = "idle" /\ bps[r] = 0 /\ todo[r] = {}
    BY DEF Traffic!Init, Traffic!Each, Traffic!All, Traffic!Requests
  <2>2. bps[r] + Cardinality(todo[r]) * Top <= NPorts * Top
    BY <1>0, <2>1, FS_EmptySet, TrafficConstant
  <2>. QED BY <2>1, <2>2 DEF AtPick, AtCount, Within
<1>5. \A r \in Billers : Settled(r) /\ Owing(r) /\ Unanswered(r)
  BY DEF Traffic!Init, Traffic!Each, Traffic!Requests, Settled, Owing, Unanswered
<1>. QED BY <1>1, <1>2, <1>3, <1>4, <1>5 DEF TrafficInv, TrafficTypes

LEMMA TrafficTop ==
    ASSUME Traffic!BandwidthAssumption, TrafficTypes
    PROVE  /\ Top \in Nat /\ \A x \in Rates \cup Commits : x <= Top
           /\ \A r \in Billers : Cardinality(todo[r]) \in Nat /\ IsFiniteSet(todo[r])
           /\ \A r \in Billers : bps[r] \in Nat
<1>1. Top \in Nat /\ \A x \in Rates \cup Commits : x <= Top
  BY TrafficConstant DEF TrafficTypes, TrafficTables
<1>2. ASSUME NEW r \in Billers PROVE Cardinality(todo[r]) \in Nat /\ IsFiniteSet(todo[r]) /\ bps[r] \in Nat
  <2>1. PICK T \in SUBSET Traffic!Ports : T = todo[r]
    BY DEF TrafficTypes, TrafficVectors
  <2>2. bps[r] \in Nat
    BY DEF TrafficTypes, TrafficVectors
  <2>. QED BY <2>1, <2>2, TrafficConstant, FS_Subset, FS_CardinalityType
<1>. QED BY <1>1, <1>2

\* What a statement that stores nothing leaves of the owings.
LEMMA OwingStays ==
    ASSUME NEW r \in Billers, Owing(r),
           portPc'[r] = portPc[r], steady'[r] = steady[r], kept'[r] = kept[r], samples' = samples,
           count'[r] = count[r], port'[r] = port[r], bps'[r] = bps[r], owed'[r] = owed[r]
    PROVE  Owing(r)'
<1>1. \A p : Traffic!Of(p)' = Traffic!Of(p)
  BY DEF Traffic!Of
<1>2. \A p : Traffic!Percentile(p)' = Traffic!Percentile(p)
  BY <1>1 DEF Traffic!Percentile, Traffic!Above
<1>3. \A p, v : Reaching(p, v)' = Reaching(p, v)
  BY <1>1 DEF Reaching, Rated, From
<1>. QED BY <1>1, <1>2, <1>3 DEF Owing, Traffic!Rank

\* A biller that is not at work.
OfBiller(r) == <<portPc[r], answer[r], bps[r], owed[r], count[r], port[r], todo[r]>>

LEMMA OtherBillers ==
    ASSUME NEW r \in Billers, Settled(r), Owing(r), Unanswered(r), AtPick(r), AtCount(r), Within(r),
           UNCHANGED OfBiller(r), samples' = samples, steady'[r] = steady[r], kept'[r] = kept[r]
    PROVE  /\ Settled(r)' /\ Owing(r)' /\ Unanswered(r)'
           /\ AtPick(r)' /\ AtCount(r)' /\ Within(r)'
<1>1. Owing(r)'
  BY OwingStays DEF OfBiller
<1>2. Settled(r)' /\ Unanswered(r)' /\ AtPick(r)' /\ AtCount(r)'
  BY DEF OfBiller, Settled, Unanswered, AtPick, AtCount
<1>3. Within(r)'
  BY DEF OfBiller, Within, Top
<1>. QED BY <1>1, <1>2, <1>3


\* A step of one biller.
LEMMA BillerStep ==
    ASSUME NEW r \in Billers, TrafficInv, TrafficVectors',
           samples' = samples, commit' = commit, size' = size, done' = done,
           portPc[r] # "insert", portPc'[r] # "insert",
           \A s \in Samplers \ {r} : portPc'[s] = portPc[s],
           \A b \in Billers \ {r} : /\ UNCHANGED OfBiller(b)
                                    /\ steady'[b] = steady[b] /\ kept'[b] = kept[b],
           Settled(r)', Owing(r)', Unanswered(r)', AtPick(r)', AtCount(r)', Within(r)'
    PROVE  TrafficInv'
<1>1. TrafficTables'
  BY DEF TrafficInv, TrafficTypes, TrafficTables, Traffic!Slots, Traffic!Ports, Traffic!NoRate
<1>2. ASSUME NEW s \in Samplers PROVE (Sending(s) /\ (portPc[s] # "insert" => done[s] = 0))'
  <2>1. Sending(s) /\ (portPc[s] # "insert" => done[s] = 0)
    BY DEF TrafficInv, TrafficTypes
  <2>2. portPc'[s] = "insert" <=> portPc[s] = "insert"
    OBVIOUS
  <2>. QED BY <2>1, <2>2 DEF Sending
<1>3. ASSUME NEW b \in Billers
      PROVE  (Settled(b) /\ Owing(b) /\ Unanswered(b) /\ AtPick(b) /\ AtCount(b) /\ Within(b))'
  <2>1. CASE b = r
    BY <2>1
  <2>2. CASE b # r
    <3>1. Settled(b) /\ Owing(b) /\ Unanswered(b) /\ AtPick(b) /\ AtCount(b) /\ Within(b)
      BY DEF TrafficInv, TrafficTypes
    <3>2. UNCHANGED OfBiller(b) /\ steady'[b] = steady[b] /\ kept'[b] = kept[b]
      BY <2>2
    <3>. QED BY <3>1, <3>2, OtherBillers
  <2>. QED BY <2>1, <2>2
<1>. QED BY <1>1, <1>2, <1>3 DEF TrafficInv, TrafficTypes

LEMMA Widths ==
    ASSUME NEW a \in Nat, NEW b \in Nat, NEW c \in Nat, a <= b
    PROVE  a * c <= b * c /\ a * c \in Nat /\ (a + 1) * c = a * c + c
OBVIOUS

\* A port that a bill is done with.
LEMMA PortLess ==
    ASSUME Traffic!BandwidthAssumption, TrafficInv, NEW r \in Billers, NEW p \in todo[r]
    PROVE  /\ IsFiniteSet(todo[r] \ {p}) /\ Cardinality(todo[r] \ {p}) \in Nat
           /\ Cardinality(todo[r] \ {p}) * Top + Top = Cardinality(todo[r]) * Top
           /\ Cardinality(todo[r] \ {p}) * Top \in Nat
<1>0. TrafficTypes
  BY DEF TrafficInv
<1>1. PICK T : T = todo[r]
  OBVIOUS
<1>2. IsFiniteSet(T) /\ Cardinality(T) \in Nat /\ Top \in Nat
  BY <1>0, <1>1, TrafficTop
<1>3. IsFiniteSet(T \ {p}) /\ Cardinality(T \ {p}) \in Nat /\ Cardinality(T) = Cardinality(T \ {p}) + 1
  <2>1. IsFiniteSet(T \ {p}) /\ Cardinality(T \ {p}) = Cardinality(T) - 1
    BY <1>1, <1>2, FS_RemoveElement
  <2>2. Cardinality(T \ {p}) \in Nat
    BY <2>1, FS_CardinalityType
  <2>. QED BY <1>2, <2>1, <2>2
<1>4. PICK c \in Nat : c = Cardinality(T \ {p})
  BY <1>3
<1>5. (c + 1) * Top = c * Top + Top /\ c * Top \in Nat
  BY <1>2, Widths
<1>. QED BY <1>1, <1>3, <1>4, <1>5

LEMMA DiscoverTraffic ==
    ASSUME Traffic!BandwidthAssumption, TrafficInv, NEW r \in Billers, Traffic!Discover(r)
    PROVE  TrafficInv'
<1>. USE DEF Traffic!Discover, Traffic!Goto, Traffic!Reply, Traffic!sampling
<1>0. TrafficTypes /\ TrafficVectors /\ r \in Traffic!Requests
  BY DEF TrafficInv, TrafficTypes, Traffic!Requests
<1>1. /\ portPc[r] = "idle" /\ portPc' = [portPc EXCEPT ![r] = portPc'[r]]
      /\ portPc'[r] = IF todo'[r] = {} THEN "fallback" ELSE "count"
      /\ answer' = [answer EXCEPT ![r] = "none"]
      /\ todo' = [todo EXCEPT ![r] = todo'[r]] /\ todo'[r] \subseteq Traffic!Ports
      /\ bps' = [bps EXCEPT ![r] = 0] /\ total' = [total EXCEPT ![r] = 0]
      /\ owed' = [owed EXCEPT ![r] = 0] /\ lacking' = [lacking EXCEPT ![r] = FALSE]
      /\ steady' = [steady EXCEPT ![r] = TRUE] /\ kept' = [kept EXCEPT ![r] = TRUE]
      /\ UNCHANGED <<samples, commit, oldest, port, count, firstSlot, ports, size, done, lost>>
  BY <1>0 DEF TrafficVectors
<1>2. TrafficVectors'
  BY <1>0, <1>1 DEF TrafficVectors, Traffic!Requests, Traffic!Ports
<1>3. /\ bps'[r] = 0 /\ owed'[r] = 0 /\ answer'[r] = "none"
  BY <1>0, <1>1 DEF TrafficVectors
<1>4. Within(r)'
  <2>1. PICK T \in SUBSET Traffic!Ports : T = todo'[r]
    BY <1>1
  <2>2. Cardinality(T) \in Nat /\ Cardinality(T) <= NPorts
    BY TrafficConstant, Fewer
  <2>3. Top \in Nat /\ NPorts \in Nat
    BY <1>0, TrafficTop, TrafficConstant
  <2>4. Cardinality(T) * Top <= NPorts * Top /\ Cardinality(T) * Top \in Nat
    BY <2>2, <2>3, Widths
  <2>5. Top' = Top
    BY DEF Top
  <2>6. 0 + Cardinality(T) * Top <= NPorts * Top
    BY <2>4
  <2>. QED BY <1>3, <2>1, <2>5, <2>6 DEF Within
<1>5. Settled(r)' /\ Owing(r)' /\ Unanswered(r)' /\ AtPick(r)' /\ AtCount(r)'
  BY <1>1, <1>3 DEF Settled, Owing, Unanswered, AtPick, AtCount
<1>6. \A b \in Billers \ {r} : UNCHANGED OfBiller(b) /\ steady'[b] = steady[b] /\ kept'[b] = kept[b]
  BY <1>0, <1>1 DEF OfBiller, TrafficVectors, Traffic!Requests
<1>7. \A s \in Samplers \ {r} : portPc'[s] = portPc[s]
  BY <1>0, <1>1 DEF TrafficVectors, Traffic!Requests
<1>8. /\ samples' = samples /\ commit' = commit /\ size' = size /\ done' = done
      /\ portPc[r] # "insert" /\ portPc'[r] # "insert"
  BY <1>1
<1>. QED BY <1>2, <1>4, <1>5, <1>6, <1>7, <1>8, BillerStep


LEMMA CountTraffic ==
    ASSUME Traffic!BandwidthAssumption, TrafficInv, NEW r \in Billers, Traffic!Count(r)
    PROVE  TrafficInv'
<1>0. TrafficTypes /\ TrafficVectors /\ TrafficTables /\ r \in Traffic!Requests
  BY DEF TrafficInv, TrafficTypes, Traffic!Requests
<1>1. Settled(r) /\ Owing(r) /\ Unanswered(r) /\ AtPick(r) /\ AtCount(r) /\ Within(r)
  BY DEF TrafficInv, TrafficTypes
<1>2. portPc[r] = "count" /\ todo[r] # {} /\ todo[r] \subseteq Traffic!Ports
  BY <1>0, <1>1 DEF Traffic!Count, AtCount, TrafficVectors
<1>3. PICK p : p = Traffic!Min(todo[r])
  OBVIOUS
<1>4. p \in todo[r] /\ p \in Traffic!Ports
  <2>1. PICK T : T = todo[r]
    OBVIOUS
  <2>2. T \subseteq Nat /\ T # {}
    BY <1>2, <2>1, TrafficConstant
  <2>. QED BY <1>2, <1>3, <2>1, <2>2, TrafficMin
<1>5. PICK k \in Nat : k = Cardinality(Traffic!Of(p)) /\ k = Traffic!Cardinality(Traffic!Of(p))
  BY <1>0, <1>4, SamplesOf, TrafficCards
<1>6. /\ portPc' = [portPc EXCEPT ![r] = portPc'[r]]
      /\ port' = [port EXCEPT ![r] = p] /\ count' = [count EXCEPT ![r] = k]
      /\ UNCHANGED <<samples, commit, oldest, firstSlot, ports, size, done, lost, answer, steady, kept,
                     bps, total>>
      /\ \/ /\ k < Share
            /\ todo' = [todo EXCEPT ![r] = todo[r] \ {p}]
            /\ lacking' = [lacking EXCEPT ![r] = TRUE] /\ owed' = owed
            /\ portPc'[r] \in {"count", "fallback", "amount"}
            /\ portPc'[r] = "count" => todo'[r] # {}
         \/ /\ ~(k < Share)
            /\ owed' = [owed EXCEPT ![r] = owed[r] + Traffic!Percentile(p)]
            /\ UNCHANGED <<todo, lacking>> /\ portPc'[r] = "pick"
  BY <1>0, <1>3, <1>5 DEF Traffic!Count, Traffic!Onward, Traffic!Goto, Traffic!sampling, Traffic!history, TrafficVectors
<1>7. ~(k < Share) => /\ Traffic!Percentile(p) \in Nat
                      /\ Traffic!Rank(k) <= Reaching(p, Traffic!Percentile(p))
  <2>. SUFFICES ASSUME ~(k < Share)
                PROVE  /\ Traffic!Percentile(p) \in Nat
                       /\ Traffic!Rank(k) <= Reaching(p, Traffic!Percentile(p))
    OBVIOUS
  <2>1. Share <= Cardinality(Traffic!Of(p))
    BY <1>5, TrafficConstant
  <2>2. /\ Traffic!Percentile(p) \in Nat
        /\ Traffic!Rank(Cardinality(Traffic!Of(p))) <= Reaching(p, Traffic!Percentile(p))
    BY <1>0, <1>4, <2>1, PickIsExact
  <2>. QED BY <1>5, <2>2
<1>8. TrafficVectors'
  <2>1. /\ port' \in [Billers -> Traffic!Ports] /\ count' \in [Billers -> Nat] /\ owed' \in [Billers -> Nat]
        /\ todo' \in [Billers -> SUBSET Traffic!Ports] /\ lacking' \in [Billers -> BOOLEAN]
    <3>1. port' \in [Billers -> Traffic!Ports] /\ count' \in [Billers -> Nat]
      BY <1>0, <1>4, <1>6 DEF TrafficVectors
    <3>2. owed' \in [Billers -> Nat]
      <4>1. owed \in [Billers -> Nat] /\ owed[r] \in Nat
        BY <1>0 DEF TrafficVectors
      <4>2. ~(k < Share) => owed[r] + Traffic!Percentile(p) \in Nat
        BY <1>7, <4>1
      <4>3. \A x \in Nat : [owed EXCEPT ![r] = x] \in [Billers -> Nat]
        BY <4>1
      <4>. QED BY <1>6, <4>1, <4>2, <4>3
    <3>3. todo' \in [Billers -> SUBSET Traffic!Ports] /\ lacking' \in [Billers -> BOOLEAN]
      <4>1. /\ todo \in [Billers -> SUBSET Traffic!Ports] /\ lacking \in [Billers -> BOOLEAN]
            /\ todo[r] \ {p} \in SUBSET Traffic!Ports
        BY <1>0, <1>2 DEF TrafficVectors
      <4>2. \A x \in SUBSET Traffic!Ports : [todo EXCEPT ![r] = x] \in [Billers -> SUBSET Traffic!Ports]
        BY <4>1
      <4>3. [lacking EXCEPT ![r] = TRUE] \in [Billers -> BOOLEAN]
        BY <4>1
      <4>. QED BY <1>6, <4>1, <4>2, <4>3
    <3>. QED BY <3>1, <3>2, <3>3
  <2>2. portPc' \in [Traffic!Requests -> {"idle", "insert", "count", "pick", "fallback", "amount"}]
    BY <1>0, <1>6 DEF TrafficVectors
  <2>. QED BY <1>0, <1>6, <2>1, <2>2 DEF TrafficVectors, Traffic!Requests, Traffic!Ports
<1>9. \A b \in Billers \ {r} : UNCHANGED OfBiller(b) /\ steady'[b] = steady[b] /\ kept'[b] = kept[b]
  BY <1>0, <1>6 DEF OfBiller, TrafficVectors, Traffic!Requests
<1>10. \A s \in Samplers \ {r} : portPc'[s] = portPc[s]
  BY <1>0, <1>6 DEF TrafficVectors, Traffic!Requests
<1>11. /\ samples' = samples /\ commit' = commit /\ size' = size /\ done' = done
       /\ portPc[r] # "insert" /\ portPc'[r] # "insert"
  BY <1>2, <1>6
<1>12. bps'[r] = bps[r] /\ port'[r] = p /\ count'[r] = k /\ Top' = Top /\ answer'[r] = answer[r]
  BY <1>0, <1>6 DEF TrafficVectors, Top
<1>13. AtPick(r)' /\ AtCount(r)' /\ Unanswered(r)'
  <2>1. portPc'[r] = "pick" => k >= Share /\ todo' = todo
    BY <1>5, <1>6, TrafficConstant
  <2>2. portPc'[r] = "count" => todo'[r] # {}
    BY <1>6
  <2>3. answer'[r] # "measured"
    BY <1>1, <1>2, <1>12 DEF Unanswered
  <2>. QED BY <1>4, <1>12, <2>1, <2>2, <2>3 DEF AtPick, AtCount, Unanswered
<1>14. Within(r)'
  <2>1. CASE todo' = todo
    BY <1>1, <1>12, <2>1 DEF Within
  <2>2. CASE todo'[r] = todo[r] \ {p}
    <3>1. /\ Cardinality(todo[r] \ {p}) * Top + Top = Cardinality(todo[r]) * Top
          /\ Cardinality(todo[r] \ {p}) * Top \in Nat /\ Top \in Nat /\ bps[r] \in Nat
      BY <1>0, <1>4, PortLess, TrafficTop
    <3>2. NPorts * Top \in Nat
      BY <3>1, TrafficConstant
    <3>3. bps[r] + Cardinality(todo[r]) * Top <= NPorts * Top
      BY <1>1 DEF Within
    <3>4. bps[r] + Cardinality(todo[r] \ {p}) * Top <= NPorts * Top
      BY <3>1, <3>2, <3>3
    <3>. QED BY <1>12, <2>2, <3>4 DEF Within
  <2>3. todo' = todo \/ todo'[r] = todo[r] \ {p}
    BY <1>0, <1>6 DEF TrafficVectors
  <2>. QED BY <2>1, <2>2, <2>3
<1>15. (steady[r] => bps[r] = owed[r]) /\ (kept[r] => bps[r] >= owed[r]) /\ bps[r] \in Nat /\ owed[r] \in Nat
  BY <1>0, <1>1, <1>2 DEF Settled, TrafficVectors
<1>16. Settled(r)' /\ Owing(r)'
  <2>1. CASE k < Share
    <3>1. owed' = owed /\ portPc'[r] # "pick" /\ steady' = steady /\ kept' = kept
      BY <1>6, <2>1
    <3>. QED BY <1>12, <1>15, <3>1 DEF Settled, Owing
  <2>2. CASE ~(k < Share)
    <3>1. owed'[r] = owed[r] + Traffic!Percentile(p) /\ portPc'[r] = "pick" /\ steady' = steady /\ kept' = kept
      BY <1>0, <1>6, <2>2 DEF TrafficVectors
    <3>2. PICK P \in Nat : P = Traffic!Percentile(p) /\ Traffic!Rank(k) <= Reaching(p, P)
      BY <1>7, <2>2
    <3>3. Traffic!Of(p)' = Traffic!Of(p)
      BY <1>11 DEF Traffic!Of
    <3>4. (\A v : Reaching(p, v)' = Reaching(p, v)) /\ Traffic!Percentile(p)' = Traffic!Percentile(p)
      BY <1>11, <3>3 DEF Reaching, Rated, From, Traffic!Percentile, Traffic!Above
    <3>5. steady[r] => bps'[r] + P = owed'[r]
      BY <1>12, <1>15, <3>1, <3>2
    <3>6. kept[r] => bps'[r] + P >= owed'[r]
      BY <1>12, <1>15, <3>1, <3>2
    <3>7. Settled(r)'
      BY <1>13, <3>1 DEF Settled, Unanswered
    <3>8. Cardinality(Traffic!Of(p))' = k /\ Traffic!Percentile(p)' = P /\ Reaching(p, P)' = Reaching(p, P)
      BY <1>5, <3>2, <3>3, <3>4
    <3>9. Owing(r)'
      BY <1>12, <3>1, <3>2, <3>5, <3>6, <3>8 DEF Owing, Traffic!Rank
    <3>. QED BY <3>7, <3>9
  <2>. QED BY <2>1, <2>2
<1>. QED BY <1>8, <1>9, <1>10, <1>11, <1>13, <1>14, <1>16, BillerStep


LEMMA PickTraffic ==
    ASSUME Traffic!BandwidthAssumption, TrafficInv, NEW r \in Billers, Traffic!Pick(r)
    PROVE  TrafficInv'
<1>0. TrafficTypes /\ TrafficVectors /\ TrafficTables /\ r \in Traffic!Requests
  BY DEF TrafficInv, TrafficTypes, Traffic!Requests
<1>1. Settled(r) /\ Owing(r) /\ Unanswered(r) /\ AtPick(r) /\ AtCount(r) /\ Within(r)
  BY DEF TrafficInv, TrafficTypes
<1>2. portPc[r] = "pick" /\ todo[r] \subseteq Traffic!Ports
  BY <1>0 DEF Traffic!Pick, TrafficVectors
<1>3. PICK p \in Traffic!Ports : p = port[r]
  BY <1>0 DEF TrafficVectors
<1>4. PICK k \in Nat : k = count[r]
  BY <1>0 DEF TrafficVectors
<1>5. p \in todo[r] /\ k >= Share /\ Share \in Nat /\ Share > 1
  BY <1>1, <1>2, <1>3, <1>4, TrafficConstant DEF AtPick
<1>6. PICK j \in Nat : j = Traffic!Rank(k) /\ 1 <= j
  <2>1. (k \div Share) + 1 \in 1..k
    BY <1>5, RankDivides
  <2>. QED BY <2>1 DEF Traffic!Rank
<1>7. PICK found : found = Traffic!AtRank(p, j)
  OBVIOUS
<1>8. PICK x : x = IF found = {} THEN 0 ELSE Traffic!Min(found)
  OBVIOUS
<1>9. found \subseteq Rates
  <2>1. \A s \in Traffic!Of(p) : samples[<<s, p>>] \in Rates
    BY <1>0, SamplesOf
  <2>. QED BY <1>7, <2>1 DEF Traffic!AtRank
<1>10. x \in Nat /\ x <= Top /\ Top \in Nat /\ bps[r] \in Nat
  <2>1. found \subseteq Nat /\ Top \in Nat /\ \A t \in found : t <= Top
    BY <1>0, <1>9, TrafficTop, TrafficConstant
  <2>2. found # {} => Traffic!Min(found) \in found
    BY <2>1, TrafficMin
  <2>. QED BY <1>0, <1>8, <2>1, <2>2, TrafficTop
<1>11. /\ portPc' = [portPc EXCEPT ![r] = portPc'[r]]
       /\ bps' = [bps EXCEPT ![r] = bps[r] + x] /\ total' = [total EXCEPT ![r] = total[r] + k]
       /\ todo' = [todo EXCEPT ![r] = todo[r] \ {p}]
       /\ UNCHANGED <<samples, commit, oldest, firstSlot, ports, size, done, lost, answer, steady, kept,
                      port, count, lacking, owed>>
       /\ portPc'[r] \in {"count", "fallback", "amount"}
       /\ portPc'[r] = "count" => todo'[r] # {}
  BY <1>0, <1>3, <1>4, <1>6, <1>7, <1>8
     DEF Traffic!Pick, Traffic!Onward, Traffic!Goto, Traffic!sampling, Traffic!history, TrafficVectors
<1>12. TrafficVectors'
  <2>1. todo' \in [Billers -> SUBSET Traffic!Ports]
    <3>1. todo \in [Billers -> SUBSET Traffic!Ports] /\ todo[r] \ {p} \in SUBSET Traffic!Ports
      BY <1>0, <1>2 DEF TrafficVectors
    <3>2. \A t \in SUBSET Traffic!Ports : [todo EXCEPT ![r] = t] \in [Billers -> SUBSET Traffic!Ports]
      BY <3>1
    <3>. QED BY <1>11, <3>1, <3>2
  <2>2. bps' \in [Billers -> Nat] /\ total' \in [Billers -> Nat]
    BY <1>0, <1>10, <1>11 DEF TrafficVectors
  <2>3. portPc' \in [Traffic!Requests -> {"idle", "insert", "count", "pick", "fallback", "amount"}]
    BY <1>0, <1>11 DEF TrafficVectors
  <2>. QED BY <1>0, <1>11, <2>1, <2>2, <2>3 DEF TrafficVectors, Traffic!Requests, Traffic!Ports
<1>13. \A b \in Billers \ {r} : UNCHANGED OfBiller(b) /\ steady'[b] = steady[b] /\ kept'[b] = kept[b]
  BY <1>0, <1>11 DEF OfBiller, TrafficVectors, Traffic!Requests
<1>14. \A s \in Samplers \ {r} : portPc'[s] = portPc[s]
  BY <1>0, <1>11 DEF TrafficVectors, Traffic!Requests
<1>15. /\ samples' = samples /\ commit' = commit /\ size' = size /\ done' = done
       /\ portPc[r] # "insert" /\ portPc'[r] # "insert"
  BY <1>2, <1>11
<1>16. bps'[r] = bps[r] + x /\ todo'[r] = todo[r] \ {p} /\ Top' = Top /\ answer'[r] = answer[r]
  BY <1>0, <1>11 DEF TrafficVectors, Top
<1>17. AtPick(r)' /\ AtCount(r)' /\ Unanswered(r)' /\ Owing(r)'
  BY <1>1, <1>2, <1>11, <1>16 DEF AtPick, AtCount, Unanswered, Owing
<1>18. Within(r)'
  <2>1. /\ Cardinality(todo[r] \ {p}) * Top + Top = Cardinality(todo[r]) * Top
        /\ Cardinality(todo[r] \ {p}) * Top \in Nat
    BY <1>5, PortLess
  <2>2. NPorts * Top \in Nat
    BY <1>10, TrafficConstant
  <2>3. bps[r] + Cardinality(todo[r]) * Top <= NPorts * Top
    BY <1>1 DEF Within
  <2>4. bps[r] + x + Cardinality(todo[r] \ {p}) * Top <= NPorts * Top
    BY <1>10, <2>1, <2>2, <2>3
  <2>. QED BY <1>16, <2>4 DEF Within
<1>19. ASSUME steady[r] PROVE bps[r] + x = owed[r]
  <2>1. k = Cardinality(Traffic!Of(p)) /\ bps[r] + Traffic!Percentile(p) = owed[r]
    BY <1>1, <1>2, <1>3, <1>4, <1>19 DEF Owing
  <2>2. Share <= Cardinality(Traffic!Of(p))
    BY <1>5, <2>1
  <2>3. Traffic!AtRank(p, Traffic!Rank(Cardinality(Traffic!Of(p)))) = {Traffic!Percentile(p)}
        /\ Traffic!Percentile(p) \in Nat
    BY <1>0, <2>2, PickIsExact
  <2>4. found = {Traffic!Percentile(p)}
    BY <1>6, <1>7, <2>1, <2>3
  <2>5. Traffic!Min(found) \in found
    BY <2>3, <2>4, TrafficMin
  <2>. QED BY <1>8, <2>1, <2>4, <2>5
<1>20. ASSUME kept[r] PROVE bps[r] + x >= owed[r]
  <2>1. PICK v \in Nat : bps[r] + v >= owed[r] /\ j <= Reaching(p, v)
    BY <1>1, <1>2, <1>3, <1>4, <1>6, <1>20 DEF Owing
  <2>2. found # {} /\ v <= Traffic!Min(found)
    BY <1>0, <1>6, <1>7, <2>1, PickIsNoLower
  <2>3. v <= x
    BY <1>8, <2>2
  <2>4. owed[r] \in Nat
    BY <1>0 DEF TrafficVectors
  <2>. QED BY <1>10, <2>1, <2>3, <2>4
<1>21. Settled(r)'
  <2>1. owed' = owed /\ steady' = steady /\ kept' = kept
    BY <1>11
  <2>. QED BY <1>16, <1>19, <1>20, <2>1 DEF Settled
<1>. QED BY <1>12, <1>13, <1>14, <1>15, <1>17, <1>18, <1>21, BillerStep


\* A bill is closed with the rates that were summed up, or with a commit rate.
LEMMA CloseTraffic ==
    ASSUME Traffic!BandwidthAssumption, TrafficInv, NEW r \in Billers, Traffic!Close(r),
           portPc[r] \in {"fallback", "amount"}, NEW x \in Nat, NEW a \in {"measured", "committed"},
           bps' = [bps EXCEPT ![r] = x], answer' = [answer EXCEPT ![r] = a],
           x = bps[r] \/ (a = "committed" /\ x <= Top),
           UNCHANGED <<samples, commit, oldest, firstSlot, ports, size, done, lost, lacking, owed,
                       steady, kept>>
    PROVE  TrafficInv'
<1>0. TrafficTypes /\ TrafficVectors /\ TrafficTables /\ r \in Traffic!Requests
  BY DEF TrafficInv, TrafficTypes, Traffic!Requests
<1>1. Settled(r) /\ Within(r)
  BY DEF TrafficInv, TrafficTypes
<1>2. /\ portPc' = [portPc EXCEPT ![r] = "idle"] /\ todo' = [todo EXCEPT ![r] = {}]
      /\ port' = [port EXCEPT ![r] = 1] /\ count' = [count EXCEPT ![r] = 0]
      /\ total' = [total EXCEPT ![r] = 0]
  BY DEF Traffic!Close, Traffic!Goto
<1>3. TrafficVectors'
  <2>1. /\ portPc' \in [Traffic!Requests -> {"idle", "insert", "count", "pick", "fallback", "amount"}]
        /\ answer' \in [Traffic!Requests -> {"none", "generated", "measured", "committed", "error"}]
    BY <1>0, <1>2 DEF TrafficVectors
  <2>2. port' \in [Billers -> Traffic!Ports] /\ todo' \in [Billers -> SUBSET Traffic!Ports]
    BY <1>0, <1>2, TrafficConstant DEF TrafficVectors
  <2>3. count' \in [Billers -> Nat] /\ total' \in [Billers -> Nat] /\ bps' \in [Billers -> Nat]
    BY <1>0, <1>2 DEF TrafficVectors
  <2>. QED BY <1>0, <2>1, <2>2, <2>3 DEF TrafficVectors, Traffic!Requests, Traffic!Ports
<1>4. \A b \in Billers \ {r} : UNCHANGED OfBiller(b) /\ steady'[b] = steady[b] /\ kept'[b] = kept[b]
  BY <1>0, <1>2 DEF OfBiller, TrafficVectors, Traffic!Requests
<1>5. \A s \in Samplers \ {r} : portPc'[s] = portPc[s]
  BY <1>0, <1>2 DEF TrafficVectors, Traffic!Requests
<1>6. bps'[r] = x /\ todo'[r] = {} /\ Top' = Top /\ answer'[r] = a /\ portPc'[r] = "idle"
  BY <1>0, <1>2 DEF TrafficVectors, Top
<1>7. AtPick(r)' /\ AtCount(r)' /\ Unanswered(r)' /\ Owing(r)'
  BY <1>6 DEF AtPick, AtCount, Unanswered, Owing
<1>8. Within(r)'
  <2>1. PICK c \in Nat : c = Cardinality(todo[r])
    BY <1>0, TrafficTop
  <2>2. Top \in Nat /\ bps[r] \in Nat /\ NPorts \in Nat /\ 1 <= NPorts
    BY <1>0, TrafficTop, TrafficConstant
  <2>3. 1 * Top <= NPorts * Top /\ NPorts * Top \in Nat
    BY <2>2, Widths
  <2>4. c * Top \in Nat
    BY <2>1, <2>2, Widths
  <2>5. bps[r] + c * Top <= NPorts * Top
    BY <1>1, <2>1 DEF Within
  <2>6. x <= NPorts * Top
    BY <2>2, <2>3, <2>4, <2>5
  <2>7. Cardinality({}) * Top = 0
    BY <2>2, FS_EmptySet
  <2>. QED BY <1>6, <2>6, <2>7 DEF Within
<1>9. Settled(r)'
  BY <1>1, <1>6 DEF Settled
<1>10. portPc[r] # "insert" /\ portPc'[r] # "insert"
  BY <1>6
<1>. QED BY <1>3, <1>4, <1>5, <1>7, <1>8, <1>9, <1>10, BillerStep

LEMMA FallbackTraffic ==
    ASSUME Traffic!BandwidthAssumption, TrafficInv, NEW r \in Billers, Traffic!Fallback(r)
    PROVE  TrafficInv'
<1>0. /\ bps \in [Billers -> Nat] /\ commit \in Nat /\ commit <= Top
      /\ bps[r] \in Nat /\ bps = [bps EXCEPT ![r] = bps[r]]
  <2>1. bps \in [Billers -> Nat] /\ commit \in Commits /\ TrafficTypes
    BY DEF TrafficInv, TrafficTypes, TrafficVectors, TrafficTables
  <2>. QED BY <2>1, TrafficConstant, TrafficTop
<1>1. /\ portPc[r] \in {"fallback", "amount"} /\ Traffic!Close(r)
      /\ UNCHANGED <<samples, commit, oldest, firstSlot, ports, size, done, lost, lacking, owed,
                     steady, kept>>
  BY DEF Traffic!Fallback, Traffic!sampling, Traffic!history
<1>2. CASE bps' = [bps EXCEPT ![r] = commit] /\ answer' = [answer EXCEPT ![r] = "committed"]
  BY <1>0, <1>1, <1>2, CloseTraffic
<1>3. CASE bps' = bps /\ answer' = [answer EXCEPT ![r] = "measured"]
  <2>1. PICK x \in Nat, a \in {"measured", "committed"} : x = bps[r] /\ a = "measured"
    BY <1>0
  <2>2. bps' = [bps EXCEPT ![r] = x] /\ answer' = [answer EXCEPT ![r] = a]
    BY <1>0, <1>3, <2>1
  <2>. QED BY <1>1, <2>1, <2>2, CloseTraffic
<1>. QED BY <1>2, <1>3 DEF Traffic!Fallback, Traffic!Reply

LEMMA AmountTraffic ==
    ASSUME Traffic!BandwidthAssumption, TrafficInv, NEW r \in Billers, Traffic!Amount(r)
    PROVE  TrafficInv'
<1>0. bps \in [Billers -> Nat] /\ bps[r] \in Nat /\ bps = [bps EXCEPT ![r] = bps[r]]
  BY DEF TrafficInv, TrafficTypes, TrafficVectors
<1>1. /\ portPc[r] \in {"fallback", "amount"} /\ Traffic!Close(r)
      /\ UNCHANGED <<samples, commit, oldest, firstSlot, ports, size, done, lost, lacking, owed,
                     steady, kept>>
      /\ bps' = bps /\ answer' = [answer EXCEPT ![r] = "measured"]
  BY DEF Traffic!Amount, Traffic!sampling, Traffic!history, Traffic!Reply
<1>2. PICK x \in Nat, a \in {"measured", "committed"} : x = bps[r] /\ a = "measured"
  BY <1>0
<1>3. bps' = [bps EXCEPT ![r] = x] /\ answer' = [answer EXCEPT ![r] = a]
  BY <1>0, <1>1, <1>2
<1>. QED BY <1>1, <1>2, <1>3, CloseTraffic

LEMMA ChartTraffic ==
    ASSUME Traffic!BandwidthAssumption, TrafficInv, NEW r \in Billers, Traffic!Chart(r)
    PROVE  TrafficInv'
<1>0. TrafficTypes /\ TrafficVectors /\ r \in Traffic!Requests
  BY DEF TrafficInv, TrafficTypes, Traffic!Requests
<1>1. Settled(r) /\ Owing(r) /\ Unanswered(r) /\ AtPick(r) /\ AtCount(r) /\ Within(r)
  BY DEF TrafficInv, TrafficTypes
<1>2. /\ portPc[r] = "idle" /\ answer' = [answer EXCEPT ![r] = "error"]
      /\ UNCHANGED <<samples, commit, oldest, portPc, firstSlot, ports, size, done, lost, lacking, owed,
                     steady, kept, todo, port, count, bps, total>>
  BY DEF Traffic!Chart, Traffic!Reply, Traffic!TimeSeries, Traffic!sampling, Traffic!billing, Traffic!history
<1>3. TrafficVectors'
  BY <1>0, <1>2 DEF TrafficVectors, Traffic!Requests, Traffic!Ports
<1>4. \A b \in Billers \ {r} : UNCHANGED OfBiller(b) /\ steady'[b] = steady[b] /\ kept'[b] = kept[b]
  BY <1>0, <1>2 DEF OfBiller, TrafficVectors, Traffic!Requests
<1>5. answer'[r] = "error" /\ portPc'[r] = "idle" /\ Top' = Top
  BY <1>0, <1>2 DEF TrafficVectors, Top
<1>6. Settled(r)' /\ Owing(r)' /\ Unanswered(r)' /\ AtPick(r)' /\ AtCount(r)'
  BY <1>5 DEF Settled, Owing, Unanswered, AtPick, AtCount
<1>7. Within(r)'
  BY <1>1, <1>2, <1>5 DEF Within
<1>8. /\ samples' = samples /\ commit' = commit /\ size' = size /\ done' = done
      /\ portPc[r] # "insert" /\ portPc'[r] # "insert"
      /\ \A s \in Samplers \ {r} : portPc'[s] = portPc[s]
  BY <1>2, <1>5
<1>. QED BY <1>3, <1>4, <1>6, <1>7, <1>8, BillerStep


\* A step of no biller: samples come, or some go.
LEMMA SampleStep ==
    ASSUME Traffic!BandwidthAssumption, TrafficInv, TrafficTables', TrafficVectors',
           \A s \in Samplers : (Sending(s) /\ (portPc[s] # "insert" => done[s] = 0))',
           UNCHANGED <<todo, bps, owed, count, port>>,
           \A b \in Billers : \/ portPc'[b] = portPc[b] /\ answer'[b] = answer[b]
                              \/ portPc'[b] \in {"idle", "insert"} /\ answer'[b] # "measured",
           \A b \in Billers : steady'[b] => steady[b] /\ samples' = samples,
           \A b \in Billers : kept'[b] => /\ kept[b]
                                          /\ \A p \in Traffic!Ports, v \in Nat :
                                                /\ Reaching(p, v) \in Nat /\ Reaching(p, v)' \in Nat
                                                /\ Reaching(p, v) <= Reaching(p, v)'
    PROVE  TrafficInv'
<1>1. ASSUME NEW b \in Billers
      PROVE  (Settled(b) /\ Owing(b) /\ Unanswered(b) /\ AtPick(b) /\ AtCount(b) /\ Within(b))'
  <2>1. Settled(b) /\ Owing(b) /\ Unanswered(b) /\ AtPick(b) /\ AtCount(b) /\ Within(b)
    BY DEF TrafficInv, TrafficTypes
  <2>2. Top' = Top
    BY DEF Top
  <2>3. Within(b)' /\ AtPick(b)' /\ AtCount(b)'
    BY <2>1, <2>2 DEF Within, AtPick, AtCount
  <2>4. Settled(b)' /\ Unanswered(b)'
    BY <2>1 DEF Settled, Unanswered
  <2>5. Owing(b)'
    <3>. SUFFICES ASSUME portPc'[b] = "pick" PROVE Owing(b)'
      BY DEF Owing
    <3>1. PICK p \in Traffic!Ports : p = port[b]
      BY DEF TrafficInv, TrafficTypes, TrafficVectors
    <3>2. PICK j \in Int : j = Traffic!Rank(count[b])
      <4>1. count[b] \in Nat /\ Share \in Nat /\ Share > 1
        BY TrafficConstant DEF TrafficInv, TrafficTypes, TrafficVectors
      <4>2. (count[b] \div Share) + 1 \in Int
        BY <4>1
      <4>. QED BY <4>2 DEF Traffic!Rank
    <3>3. portPc[b] = "pick" /\ port'[b] = p /\ count'[b] = count[b] /\ bps'[b] = bps[b] /\ owed'[b] = owed[b]
      BY <3>1
    <3>4. steady'[b] => count[b] = Cardinality(Traffic!Of(p))' /\ bps[b] + Traffic!Percentile(p)' = owed[b]
      <4>. SUFFICES ASSUME steady'[b]
                    PROVE  count[b] = Cardinality(Traffic!Of(p))' /\ bps[b] + Traffic!Percentile(p)' = owed[b]
        OBVIOUS
      <4>1. steady[b] /\ samples' = samples
        OBVIOUS
      <4>2. Traffic!Of(p)' = Traffic!Of(p)
        BY <4>1 DEF Traffic!Of
      <4>3. Traffic!Percentile(p)' = Traffic!Percentile(p)
        BY <4>1, <4>2 DEF Traffic!Percentile, Traffic!Above
      <4>4. count[b] = Cardinality(Traffic!Of(p)) /\ bps[b] + Traffic!Percentile(p) = owed[b]
        BY <2>1, <3>1, <3>3, <4>1 DEF Owing
      <4>. QED BY <4>2, <4>3, <4>4
    <3>5. kept'[b] => \E v \in Nat : bps[b] + v >= owed[b] /\ j <= Reaching(p, v)'
      <4>. SUFFICES ASSUME kept'[b] PROVE \E v \in Nat : bps[b] + v >= owed[b] /\ j <= Reaching(p, v)'
        OBVIOUS
      <4>1. PICK v \in Nat : bps[b] + v >= owed[b] /\ j <= Reaching(p, v)
        BY <2>1, <3>1, <3>2, <3>3 DEF Owing
      <4>2. Reaching(p, v) \in Nat /\ Reaching(p, v)' \in Nat /\ Reaching(p, v) <= Reaching(p, v)'
        OBVIOUS
      <4>. QED BY <3>2, <4>1, <4>2
    <3>6. Traffic!Rank(count[b])' = j
      BY <3>2, <3>3 DEF Traffic!Rank
    <3>. QED BY <3>3, <3>4, <3>5, <3>6 DEF Owing
  <2>. QED BY <2>3, <2>4, <2>5
<1>. QED BY <1>1 DEF TrafficInv, TrafficTypes

LEMMA ReachingCounts ==
    ASSUME Traffic!BandwidthAssumption, TrafficTables, NEW p \in Traffic!Ports, NEW v
    PROVE  Reaching(p, v) \in Nat
<1>1. IsFiniteSet(Traffic!Of(p)) /\ From(Rated(p), Traffic!Of(p), v) \in SUBSET Traffic!Of(p)
  BY SamplesOf DEF From
<1>. QED BY <1>1, Fewer DEF Reaching

LEMMA ReachingMany ==
    ASSUME Traffic!BandwidthAssumption, TrafficTables', NEW p \in Traffic!Ports, NEW v
    PROVE  Reaching(p, v)' \in Nat
<1>1. Traffic!Of(p)' \subseteq Traffic!Slots
  BY DEF Traffic!Of, Traffic!Slots
<1>2. IsFiniteSet(Traffic!Of(p)')
  BY <1>1, TrafficConstant, FS_Subset
<1>3. From(Rated(p), Traffic!Of(p), v)' \in SUBSET Traffic!Of(p)'
  BY DEF From
<1>. QED BY <1>2, <1>3, Fewer DEF Reaching

\* Samples that come leave what reaches a rate, and may add to it.
LEMMA ReachingGrows ==
    ASSUME Traffic!BandwidthAssumption, TrafficTables, TrafficTables',
           \A c \in Traffic!Slots \X Traffic!Ports : samples[c] # Traffic!NoRate => samples'[c] = samples[c],
           NEW p \in Traffic!Ports, NEW v
    PROVE  Reaching(p, v) <= Reaching(p, v)'
<1>1. PICK T : T = From(Rated(p), Traffic!Of(p), v)
  OBVIOUS
<1>2. PICK U : U = From(Rated(p), Traffic!Of(p), v)'
  OBVIOUS
<1>3. \A s \in T : s \in Traffic!Slots /\ samples[<<s, p>>] # Traffic!NoRate /\ Rated(p)[s] >= v
  BY <1>1 DEF From, Traffic!Of
<1>4. ASSUME NEW s \in T PROVE s \in U
  <2>1. <<s, p>> \in Traffic!Slots \X Traffic!Ports
    BY <1>3
  <2>2. samples'[<<s, p>>] = samples[<<s, p>>]
    BY <1>3, <2>1
  <2>3. s \in Traffic!Of(p)'
    BY <1>3, <2>2 DEF Traffic!Of, Traffic!Slots, Traffic!NoRate
  <2>4. Rated(p)'[s] = Rated(p)[s]
    BY <1>3, <2>2 DEF Rated
  <2>. QED BY <1>2, <1>3, <2>3, <2>4 DEF From
<1>5. U \subseteq Traffic!Slots
  BY <1>2 DEF From, Traffic!Of, Traffic!Slots
<1>6. IsFiniteSet(U) /\ T \in SUBSET U
  BY <1>4, <1>5, TrafficConstant, FS_Subset
<1>7. Cardinality(T) <= Cardinality(U)
  BY <1>6, Fewer
<1>. QED BY <1>1, <1>2, <1>7 DEF Reaching

LEMMA SimulateTraffic ==
    ASSUME Traffic!BandwidthAssumption, TrafficInv, NEW r \in Samplers, Traffic!Simulate(r)
    PROVE  TrafficInv'
<1>0. TrafficTypes /\ TrafficVectors /\ TrafficTables /\ r \in Traffic!Requests
  BY DEF TrafficInv, TrafficTypes, Traffic!Requests
<1>1. PICK s \in Traffic!Slots, z \in Traffic!Slots, k \in Traffic!Ports :
        /\ s <= z
        /\ firstSlot' = [firstSlot EXCEPT ![r] = s] /\ ports' = [ports EXCEPT ![r] = k]
        /\ size' = [size EXCEPT ![r] = (z - s + 1) * k]
  BY DEF Traffic!Simulate
<1>2. /\ portPc[r] = "idle" /\ portPc' = [portPc EXCEPT ![r] = "insert"]
      /\ answer' = [answer EXCEPT ![r] = "none"]
      /\ UNCHANGED <<samples, commit, oldest, done, lacking, owed, steady, kept, todo, port, count, bps, total>>
  BY DEF Traffic!Simulate, Traffic!Goto, Traffic!Reply, Traffic!billing, Traffic!history
<1>3. s \in Nat /\ z \in Nat /\ k \in Nat /\ k >= 1
  BY TrafficConstant DEF Traffic!Ports
<1>4. PICK m \in Nat : m = (z - s + 1) * k /\ m > 0
  <2>1. PICK w \in Nat : w = z - s
    BY <1>1, <1>3
  <2>2. (w + 1) * k = w * k + k /\ w * k \in Nat
    BY <1>3, <2>1, Widths
  <2>. QED BY <1>3, <2>1, <2>2
<1>5. TrafficTables'
  BY <1>0, <1>2 DEF TrafficTables, Traffic!Slots, Traffic!Ports, Traffic!NoRate
<1>6. TrafficVectors'
  <2>1. ports' \in [Samplers -> Nat] /\ firstSlot' \in [Samplers -> Nat] /\ size' \in [Samplers -> Nat]
    BY <1>0, <1>1, <1>3, <1>4 DEF TrafficVectors
  <2>2. /\ portPc' \in [Traffic!Requests -> {"idle", "insert", "count", "pick", "fallback", "amount"}]
        /\ answer' \in [Traffic!Requests -> {"none", "generated", "measured", "committed", "error"}]
    BY <1>0, <1>2 DEF TrafficVectors
  <2>. QED BY <1>0, <1>2, <2>1, <2>2 DEF TrafficVectors, Traffic!Requests, Traffic!Ports
<1>7. ASSUME NEW x \in Samplers PROVE (Sending(x) /\ (portPc[x] # "insert" => done[x] = 0))'
  <2>0. Sending(x) /\ (portPc[x] # "insert" => done[x] = 0) /\ done[r] = 0 /\ x \in Traffic!Requests
    BY <1>0, <1>2 DEF TrafficTypes, Traffic!Requests
  <2>1. CASE x = r
    <3>1. portPc'[x] = "insert" /\ size'[x] = m /\ done'[x] = 0
      BY <1>0, <1>1, <1>2, <1>4, <2>0, <2>1 DEF TrafficVectors
    <3>. QED BY <1>4, <3>1 DEF Sending
  <2>2. CASE x # r
    <3>1. portPc'[x] = portPc[x] /\ size'[x] = size[x] /\ done'[x] = done[x]
      BY <1>0, <1>1, <1>2, <2>0, <2>2 DEF TrafficVectors
    <3>. QED BY <2>0, <3>1 DEF Sending
  <2>. QED BY <2>1, <2>2
<1>8. \A b \in Billers : \/ portPc'[b] = portPc[b] /\ answer'[b] = answer[b]
                         \/ portPc'[b] \in {"idle", "insert"} /\ answer'[b] # "measured"
  BY <1>0, <1>2 DEF TrafficVectors, Traffic!Requests
<1>9. \A p \in Traffic!Ports, v \in Nat : /\ Reaching(p, v) \in Nat /\ Reaching(p, v)' \in Nat
                                          /\ Reaching(p, v) <= Reaching(p, v)'
  <2>1. \A p : Traffic!Of(p)' = Traffic!Of(p)
    BY <1>2 DEF Traffic!Of
  <2>2. \A p, v : Reaching(p, v)' = Reaching(p, v)
    BY <1>2, <2>1 DEF Reaching, Rated, From
  <2>3. \A p \in Traffic!Ports, v \in Nat : Reaching(p, v) \in Nat
    BY <1>0, ReachingCounts
  <2>. QED BY <2>2, <2>3
<1>10. /\ \A b \in Billers : steady'[b] => steady[b] /\ samples' = samples
       /\ \A b \in Billers : kept'[b] => kept[b]
       /\ UNCHANGED <<todo, bps, owed, count, port>>
  BY <1>2
<1>. QED BY <1>5, <1>6, <1>7, <1>8, <1>9, <1>10, SampleStep


\* The last row of a batch.
LEMMA LastRow ==
    ASSUME NEW a \in Nat, NEW b \in Nat, a <= b
    PROVE  Traffic!Max(a..b) = b
<1>1. PICK S : S = a..b
  OBVIOUS
<1>2. S \subseteq Nat /\ S # {} /\ b \in S /\ \A x \in S : x <= b /\ x \in Nat
  <2>1. b \in S
    BY <1>1
  <2>2. \A x \in S : x <= b /\ x \in Nat
    BY <1>1
  <2>. QED BY <2>1, <2>2
<1>3. IsFiniteSet(S)
  BY <1>1, FS_Interval
<1>4. Traffic!Max(S) \in S /\ b <= Traffic!Max(S)
  BY <1>2, <1>3, TrafficMax
<1>. QED BY <1>1, <1>2, <1>4

LEMMA InsertTraffic ==
    ASSUME Traffic!BandwidthAssumption, TrafficInv, NEW r \in Samplers, Traffic!Insert(r)
    PROVE  TrafficInv'
<1>0. TrafficTypes /\ TrafficVectors /\ TrafficTables /\ r \in Traffic!Requests
  BY DEF TrafficInv, TrafficTypes, Traffic!Requests
<1>1. portPc[r] = "insert" /\ commit' = commit /\ oldest' = oldest /\ kept' = kept
      /\ UNCHANGED <<todo, port, count, bps, total, lacking, owed>>
  BY DEF Traffic!Insert, Traffic!billing
<1>2. PICK z \in Nat, d \in Nat : z = size[r] /\ d = done[r] /\ d < z
  <2>1. Sending(r) /\ size[r] \in Nat /\ done[r] \in Nat
    BY <1>0 DEF TrafficTypes, TrafficVectors
  <2>. QED BY <1>1, <2>1 DEF Sending
<1>3. PICK m \in Nat : m = Traffic!Max(Traffic!Sent(r)) /\ m <= z /\ d < m
  <2>1. PICK b \in Nat : b = (IF d + Batch < z THEN d + Batch ELSE z) /\ b <= z /\ d + 1 <= b
    BY <1>2, TrafficConstant
  <2>2. Traffic!Sent(r) = (d + 1)..b
    BY <1>2, <2>1 DEF Traffic!Sent
  <2>3. d + 1 \in Nat
    OBVIOUS
  <2>. QED BY <2>1, <2>2, <2>3, LastRow
<1>. DEFINE rows == {Traffic!Row(r, i) : i \in Traffic!Sent(r)}
<1>5. \/ /\ \A c \in rows : samples[c] = Traffic!NoRate
         /\ \E f \in [rows -> Rates] :
               samples' = [c \in DOMAIN samples |-> IF c \in rows THEN f[c] ELSE samples[c]]
         /\ steady' = [b \in Billers |-> FALSE]
      \/ samples' = samples /\ steady' = steady
  BY DEF Traffic!Insert, Traffic!All, Traffic!Each
<1>. HIDE DEF rows
<1>6. TrafficTables'
  <2>1. CASE samples' = samples
    BY <1>0, <1>1, <2>1 DEF TrafficTables, Traffic!Slots, Traffic!Ports, Traffic!NoRate
  <2>2. ASSUME NEW f \in [rows -> Rates],
               samples' = [c \in DOMAIN samples |-> IF c \in rows THEN f[c] ELSE samples[c]]
        PROVE  TrafficTables'
    BY <1>0, <1>1, <2>2 DEF TrafficTables, Traffic!Slots, Traffic!Ports, Traffic!NoRate
  <2>. QED BY <1>5, <2>1, <2>2
<1>7. \A c \in Traffic!Slots \X Traffic!Ports : samples[c] # Traffic!NoRate => samples'[c] = samples[c]
  <2>1. ASSUME NEW c \in Traffic!Slots \X Traffic!Ports, samples[c] # Traffic!NoRate
        PROVE  samples'[c] = samples[c]
    <3>1. CASE samples' = samples
      BY <3>1
    <3>2. ASSUME NEW f \in [rows -> Rates], \A x \in rows : samples[x] = Traffic!NoRate,
                 samples' = [x \in DOMAIN samples |-> IF x \in rows THEN f[x] ELSE samples[x]]
          PROVE  samples'[c] = samples[c]
      <4>1. c \in DOMAIN samples /\ c \notin rows
        BY <1>0, <2>1, <3>2 DEF TrafficTables
      <4>. QED BY <3>2, <4>1
    <3>. QED BY <1>5, <3>1, <3>2
  <2>. QED BY <2>1
<1>8. \/ /\ m = z
         /\ firstSlot' = [firstSlot EXCEPT ![r] = 1] /\ ports' = [ports EXCEPT ![r] = 1]
         /\ size' = [size EXCEPT ![r] = 0] /\ done' = [done EXCEPT ![r] = 0]
         /\ portPc' = [portPc EXCEPT ![r] = "idle"] /\ answer' = [answer EXCEPT ![r] = "generated"]
      \/ /\ m < z /\ done' = [done EXCEPT ![r] = m]
         /\ UNCHANGED <<firstSlot, ports, size, portPc, answer>>
  <2>1. \/ /\ m = z
           /\ firstSlot' = [firstSlot EXCEPT ![r] = 1] /\ ports' = [ports EXCEPT ![r] = 1]
           /\ size' = [size EXCEPT ![r] = 0] /\ done' = [done EXCEPT ![r] = 0]
           /\ portPc' = [portPc EXCEPT ![r] = "idle"] /\ answer' = [answer EXCEPT ![r] = "generated"]
        \/ /\ m # z /\ done' = [done EXCEPT ![r] = m]
           /\ UNCHANGED <<firstSlot, ports, size, portPc, answer>>
    BY <1>2, <1>3 DEF Traffic!Insert, Traffic!Goto, Traffic!Reply
  <2>. QED BY <1>3, <2>1
<1>9. TrafficVectors'
  <2>1. /\ ports' \in [Samplers -> Nat] /\ firstSlot' \in [Samplers -> Nat]
        /\ size' \in [Samplers -> Nat] /\ done' \in [Samplers -> Nat]
    BY <1>0, <1>8 DEF TrafficVectors
  <2>2. /\ portPc' \in [Traffic!Requests -> {"idle", "insert", "count", "pick", "fallback", "amount"}]
        /\ answer' \in [Traffic!Requests -> {"none", "generated", "measured", "committed", "error"}]
    BY <1>0, <1>8 DEF TrafficVectors
  <2>3. steady' \in [Billers -> BOOLEAN]
    BY <1>0, <1>5 DEF TrafficVectors
  <2>. QED BY <1>0, <1>1, <2>1, <2>2, <2>3 DEF TrafficVectors, Traffic!Requests, Traffic!Ports
<1>10. ASSUME NEW x \in Samplers PROVE (Sending(x) /\ (portPc[x] # "insert" => done[x] = 0))'
  <2>0. Sending(x) /\ (portPc[x] # "insert" => done[x] = 0) /\ x \in Traffic!Requests
    BY <1>0 DEF TrafficTypes, Traffic!Requests
  <2>1. CASE x = r
    <3>1. \/ portPc'[r] = "idle" /\ size'[r] = 0 /\ done'[r] = 0
          \/ portPc'[r] = "insert" /\ size'[r] = z /\ done'[r] = m /\ m < z
      BY <1>0, <1>1, <1>2, <1>8 DEF TrafficVectors
    <3>. QED BY <2>1, <3>1 DEF Sending
  <2>2. CASE x # r
    <3>1. portPc'[x] = portPc[x] /\ size'[x] = size[x] /\ done'[x] = done[x]
      BY <1>0, <1>8, <2>0, <2>2 DEF TrafficVectors
    <3>. QED BY <2>0, <3>1 DEF Sending
  <2>. QED BY <2>1, <2>2
<1>11. \A b \in Billers : \/ portPc'[b] = portPc[b] /\ answer'[b] = answer[b]
                          \/ portPc'[b] \in {"idle", "insert"} /\ answer'[b] # "measured"
  BY <1>0, <1>8 DEF TrafficVectors, Traffic!Requests
<1>12. \A p \in Traffic!Ports, v \in Nat : /\ Reaching(p, v) \in Nat /\ Reaching(p, v)' \in Nat
                                           /\ Reaching(p, v) <= Reaching(p, v)'
  <2>1. ASSUME NEW p \in Traffic!Ports, NEW v \in Nat
        PROVE  Reaching(p, v) \in Nat /\ Reaching(p, v)' \in Nat /\ Reaching(p, v) <= Reaching(p, v)'
    <3>1. Reaching(p, v) \in Nat
      BY <1>0, ReachingCounts
    <3>2. Reaching(p, v) <= Reaching(p, v)'
      BY <1>0, <1>6, <1>7, ReachingGrows
    <3>3. Reaching(p, v)' \in Nat
      BY <1>6, ReachingMany
    <3>. QED BY <3>1, <3>2, <3>3
  <2>. QED BY <2>1
<1>13. /\ \A b \in Billers : steady'[b] => steady[b] /\ samples' = samples
       /\ \A b \in Billers : kept'[b] => kept[b]
       /\ UNCHANGED <<todo, bps, owed, count, port>>
  BY <1>1, <1>5
<1>. QED BY <1>6, <1>9, <1>10, <1>11, <1>12, <1>13, SampleStep


LEMMA RetainTraffic ==
    ASSUME Traffic!BandwidthAssumption, TrafficInv, Traffic!Retain
    PROVE  TrafficInv'
<1>0. TrafficTypes /\ TrafficVectors /\ TrafficTables
  BY DEF TrafficInv, TrafficTypes
<1>1. /\ samples' = [c \in DOMAIN samples |-> IF c[1] = oldest THEN Traffic!NoRate ELSE samples[c]]
      /\ steady' = [b \in Billers |-> FALSE] /\ kept' = [b \in Billers |-> FALSE]
      /\ UNCHANGED <<commit, portPc, answer, firstSlot, ports, size, done, todo, port, count, bps, total,
                     lacking, owed>>
  BY DEF Traffic!Retain, Traffic!All, Traffic!Each, Traffic!sampling, Traffic!billing
<1>2. TrafficTables'
  BY <1>0, <1>1 DEF TrafficTables, Traffic!Slots, Traffic!Ports, Traffic!NoRate
<1>3. TrafficVectors'
  BY <1>0, <1>1 DEF TrafficVectors, Traffic!Requests, Traffic!Ports
<1>4. \A s \in Samplers : (Sending(s) /\ (portPc[s] # "insert" => done[s] = 0))'
  BY <1>0, <1>1 DEF TrafficTypes, Sending
<1>5. /\ \A b \in Billers : portPc'[b] = portPc[b] /\ answer'[b] = answer[b]
      /\ \A b \in Billers : ~steady'[b] /\ ~kept'[b]
      /\ UNCHANGED <<todo, bps, owed, count, port>>
  BY <1>1
<1>. QED BY <1>2, <1>3, <1>4, <1>5, SampleStep

\* A step that leaves the samples and the requests alone.
LEMMA RestTraffic ==
    ASSUME Traffic!BandwidthAssumption, TrafficInv, commit' \in Commits,
           UNCHANGED <<samples, portPc, answer, firstSlot, ports, size, done, todo, port, count, bps, total,
                       lacking, owed, steady, kept>>
    PROVE  TrafficInv'
<1>0. TrafficTypes /\ TrafficVectors /\ TrafficTables
  BY DEF TrafficInv, TrafficTypes
<1>1. TrafficTables'
  BY <1>0 DEF TrafficTables, Traffic!Slots, Traffic!Ports, Traffic!NoRate
<1>2. TrafficVectors'
  BY <1>0 DEF TrafficVectors, Traffic!Requests, Traffic!Ports
<1>3. \A s \in Samplers : (Sending(s) /\ (portPc[s] # "insert" => done[s] = 0))'
  BY <1>0 DEF TrafficTypes, Sending
<1>4. \A p \in Traffic!Ports, v \in Nat : /\ Reaching(p, v) \in Nat /\ Reaching(p, v)' \in Nat
                                          /\ Reaching(p, v) <= Reaching(p, v)'
  <2>1. \A p : Traffic!Of(p)' = Traffic!Of(p)
    BY DEF Traffic!Of
  <2>2. \A p, v : Reaching(p, v)' = Reaching(p, v)
    BY <2>1 DEF Reaching, Rated, From
  <2>3. \A p \in Traffic!Ports, v \in Nat : Reaching(p, v) \in Nat
    BY <1>0, ReachingCounts
  <2>. QED BY <2>2, <2>3
<1>5. /\ \A b \in Billers : portPc'[b] = portPc[b] /\ answer'[b] = answer[b]
      /\ \A b \in Billers : (steady'[b] => steady[b] /\ samples' = samples) /\ (kept'[b] => kept[b])
      /\ UNCHANGED <<todo, bps, owed, count, port>>
  OBVIOUS
<1>. QED BY <1>1, <1>2, <1>3, <1>4, <1>5, SampleStep

LEMMA StepTraffic ==
    ASSUME Traffic!BandwidthAssumption, TrafficInv, [Traffic!Next]_(Traffic!vars)
    PROVE  TrafficInv'
<1>1. ASSUME NEW r \in Samplers, Traffic!Simulate(r) \/ Traffic!Insert(r) PROVE TrafficInv'
  BY <1>1, SimulateTraffic, InsertTraffic
<1>2. ASSUME NEW r \in Billers,
             \/ Traffic!Discover(r) \/ Traffic!Count(r) \/ Traffic!Pick(r) \/ Traffic!Fallback(r)
             \/ Traffic!Amount(r) \/ Traffic!Chart(r)
      PROVE  TrafficInv'
  BY <1>2, DiscoverTraffic, CountTraffic, PickTraffic, FallbackTraffic, AmountTraffic, ChartTraffic
<1>3. CASE Traffic!Retain
  BY <1>3, RetainTraffic
<1>4. CASE Traffic!Recommit \/ UNCHANGED Traffic!vars
  <2>1. commit \in Commits
    BY DEF TrafficInv, TrafficTypes, TrafficTables
  <2>2. /\ commit' \in Commits
        /\ UNCHANGED <<samples, portPc, answer, firstSlot, ports, size, done, todo, port, count, bps, total,
                       lacking, owed, steady, kept>>
    BY <1>4, <2>1
       DEF Traffic!Recommit, Traffic!vars, Traffic!sampling, Traffic!billing, Traffic!history
  <2>. QED BY <2>2, RestTraffic
<1>. QED BY <1>1, <1>2, <1>3, <1>4 DEF Traffic!Next

LEMMA SpecTraffic ==
    ASSUME Traffic!BandwidthAssumption PROVE Traffic!Spec => []TrafficInv
<1>1. Traffic!Init => TrafficInv
  BY InitTraffic
<1>2. TrafficInv /\ [Traffic!Next]_(Traffic!vars) => TrafficInv'
  BY StepTraffic
<1>. QED BY <1>1, <1>2, PTL DEF Traffic!Spec

\* TypeOK of Bandwidth, for any rates and ports: a bill never has a port at hand
\* that has too few samples or that it is done with, and the rate it sums up
\* stays below that of every port at the highest rate or commit rate there is.
THEOREM TrafficTypesCorrect ==
    ASSUME Traffic!BandwidthAssumption PROVE Traffic!Spec => []Traffic!TypeOK
<1>1. TrafficInv => Traffic!TypeOK
  <2>. SUFFICES ASSUME TrafficInv PROVE Traffic!TypeOK
    OBVIOUS
  <2>0. TrafficTypes /\ TrafficTables /\ TrafficVectors
    BY DEF TrafficInv, TrafficTypes
  <2>1. \A r \in Samplers : portPc[r] = "insert" <=> done[r] < size[r]
    BY <2>0 DEF TrafficTypes, Sending
  <2>2. ASSUME NEW r \in Billers
        PROVE  /\ todo[r] \subseteq Traffic!Ports
               /\ portPc[r] = "pick" => count[r] >= Share /\ port[r] \in todo[r]
               /\ bps[r] <= NPorts * Traffic!Max(Rates \cup Commits)
    <3>1. PICK c \in Nat : c = Cardinality(todo[r])
      BY <2>0, TrafficTop
    <3>2. Top \in Nat /\ bps[r] \in Nat /\ NPorts \in Nat
      BY <2>0, TrafficTop, TrafficConstant
    <3>3. c * Top \in Nat /\ NPorts * Top \in Nat
      BY <3>1, <3>2, Widths
    <3>4. bps[r] + c * Top <= NPorts * Top /\ AtPick(r)
      BY <2>0, <3>1 DEF TrafficTypes, Within
    <3>5. bps[r] <= NPorts * Top
      BY <3>2, <3>3, <3>4
    <3>. QED BY <2>0, <3>4, <3>5 DEF AtPick, TrafficVectors, Top
  <2>. QED BY <2>0, <2>1, <2>2 DEF Traffic!TypeOK, TrafficTables
<1>. QED BY <1>1, SpecTraffic, PTL

\* ExactWhenSteady, for any number of ports, slots, rates and samples:
\* FLOOR(count / Share) + 1 is the nearest rank, so that a bill of
\* calculate95thPercentile that no sample came or went during is the exact one.
THEOREM BillsExact ==
    ASSUME Traffic!BandwidthAssumption PROVE Traffic!Spec => []Traffic!ExactWhenSteady
<1>1. TrafficInv => Traffic!ExactWhenSteady
  BY DEF TrafficInv, Settled, Traffic!ExactWhenSteady, Traffic!Measured
<1>. QED BY <1>1, SpecTraffic, PTL

\* NotBelowCounted, for any of them too: the samples that a simulation inserts
\* between the two statements of a port never lower its rate.
THEOREM BillsNotBelow ==
    ASSUME Traffic!BandwidthAssumption PROVE Traffic!Spec => []Traffic!NotBelowCounted
<1>1. TrafficInv => Traffic!NotBelowCounted
  BY DEF TrafficInv, Settled, Traffic!NotBelowCounted, Traffic!Measured
<1>. QED BY <1>1, SpecTraffic, PTL

-------------------------------------------------------------------------------
(* Addons, for any calendar of finitely many years. *)

CONSTANTS Addons, Dates, Periods, Years

VARIABLES addons, addonPc, addon, date, version

Addon == INSTANCE Addons WITH pc <- addonPc

Row(row) ==
    /\ row \in [start: Dates, end: Dates \cup {None}, status: {"active", "cancelled"}, version: {1, 2}]
    /\ row.status = "active" => row.end = None /\ row.version = 1
    /\ row.status = "cancelled" => row.end # None /\ row.version = 2

\* What a cancellation read: its addon was active then.
Reading(r) ==
    addonPc[r] = "update" => addon[r] \in DOMAIN addons /\ version[r] = 1 /\ date[r] \in Dates

AddonInv ==
    /\ addonPc \in [Requests -> {"idle", "update"}] /\ addon \in [Requests -> Addons \cup {None}]
    /\ date \in [Requests -> Dates \cup {None}] /\ version \in [Requests -> Nat]
    /\ DOMAIN addons \subseteq Addons
    /\ \A a \in DOMAIN addons : Row(addons[a])
    /\ \A r \in Requests : Reading(r)

-------------------------------------------------------------------------------
LEMMA InitAddons == ASSUME Addon!AddonsAssumption, Addon!Init PROVE AddonInv
<1>1. DOMAIN addons = {}
  BY DEF Addon!Init
<1>. QED BY <1>1 DEF Addon!Init, AddonInv, Row, Reading

LEMMA CreateAddons ==
    ASSUME Addon!AddonsAssumption, AddonInv, NEW r \in Requests, Addon!Create(r)
    PROVE  AddonInv' /\ \A a \in DOMAIN addons : addons'[a] = addons[a]
<1>1. PICK b \in Addons \ DOMAIN addons, x \in Dates :
        addons' = [c \in DOMAIN addons \cup {b} |->
                     IF c = b THEN [start |-> x, end |-> None, status |-> "active", version |-> 1]
                     ELSE addons[c]]
  BY DEF Addon!Create, Addon!Put
<1>2. UNCHANGED <<addonPc, addon, date, version>>
  BY DEF Addon!Create
<1>3. /\ DOMAIN addons' = DOMAIN addons \cup {b}
      /\ \A c \in DOMAIN addons : addons'[c] = addons[c]
      /\ addons'[b] = [start |-> x, end |-> None, status |-> "active", version |-> 1]
  BY <1>1
<1>4. \A c \in DOMAIN addons' : Row(addons'[c])
  <2>0. PICK new : new = [start |-> x, end |-> None, status |-> "active", version |-> 1]
    OBVIOUS
  <2>1. Row(new) /\ addons'[b] = new
    <3>1. new \in [start: Dates, end: Dates \cup {None}, status: {"active", "cancelled"}, version: {1, 2}]
      BY <2>0
    <3>2. new.status = "active" /\ new.end = None /\ new.version = 1
      BY <2>0
    <3>3. addons'[b] = new
      BY <1>3, <2>0
    <3>. QED BY <3>1, <3>2, <3>3 DEF Row
  <2>2. ASSUME NEW c \in DOMAIN addons' PROVE Row(addons'[c])
    <3>1. CASE c = b
      BY <2>1, <3>1
    <3>2. CASE c \in DOMAIN addons
      BY <1>3, <3>2 DEF AddonInv
    <3>. QED BY <1>3, <3>1, <3>2
  <2>. QED BY <2>2
<1>5. \A q \in Requests : Reading(q)'
  BY <1>2, <1>3 DEF AddonInv, Reading
<1>. QED BY <1>2, <1>3, <1>4, <1>5 DEF AddonInv, Row

LEMMA CancelAddons ==
    ASSUME Addon!AddonsAssumption, AddonInv, NEW r \in Requests, Addon!Cancel(r)
    PROVE  AddonInv' /\ addons' = addons
<1>1. PICK b \in DOMAIN addons, x \in Dates :
        /\ addons[b].status = "active"
        /\ addon' = [addon EXCEPT ![r] = b] /\ date' = [date EXCEPT ![r] = x]
        /\ version' = [version EXCEPT ![r] = addons[b].version]
  BY DEF Addon!Cancel
<1>2. addonPc' = [addonPc EXCEPT ![r] = "update"] /\ addons' = addons
  BY DEF Addon!Cancel, Addon!Goto
<1>3. addons[b].version = 1 /\ b \in Addons
  BY <1>1 DEF AddonInv, Row
<1>4. /\ addonPc' \in [Requests -> {"idle", "update"}] /\ addon' \in [Requests -> Addons \cup {None}]
      /\ date' \in [Requests -> Dates \cup {None}] /\ version' \in [Requests -> Nat]
  BY <1>1, <1>2, <1>3 DEF AddonInv
<1>5. ASSUME NEW q \in Requests PROVE Reading(q)'
  <2>0. Reading(q)
    BY DEF AddonInv
  <2>1. CASE q = r
    <3>1. addon'[q] = b /\ version'[q] = 1 /\ date'[q] = x
      BY <1>1, <1>3, <2>1 DEF AddonInv
    <3>. QED BY <1>2, <3>1 DEF Reading
  <2>2. CASE q # r
    <3>1. addonPc'[q] = addonPc[q] /\ addon'[q] = addon[q] /\ version'[q] = version[q] /\ date'[q] = date[q]
      BY <1>1, <1>2, <2>2 DEF AddonInv
    <3>. QED BY <1>2, <2>0, <3>1 DEF Reading
  <2>. QED BY <2>1, <2>2
<1>. QED BY <1>2, <1>4, <1>5 DEF AddonInv, Row

\* An update of a row that is not as it was read changes nothing: what was
\* cancelled stays.
LEMMA UpdateAddons ==
    ASSUME Addon!AddonsAssumption, AddonInv, NEW r \in Requests, Addon!Update(r)
    PROVE  /\ AddonInv'
           /\ \A a \in DOMAIN addons : addons[a].status = "cancelled" => addons'[a] = addons[a]
<1>1. addonPc[r] = "update" /\ Reading(r)
  BY DEF Addon!Update, AddonInv
<1>2. PICK b \in DOMAIN addons : b = addon[r]
  BY <1>1 DEF Reading
<1>3. PICK x \in Dates : x = date[r]
  BY <1>1 DEF Reading
<1>4. /\ addonPc' = [addonPc EXCEPT ![r] = "idle"] /\ addon' = [addon EXCEPT ![r] = None]
      /\ date' = [date EXCEPT ![r] = None] /\ version' = [version EXCEPT ![r] = 0]
  BY DEF Addon!Update, Addon!Finish, Addon!Goto
<1>5. Row(addons[b]) /\ b \in Addons
  BY DEF AddonInv
<1>. DEFINE row == [start |-> addons[b].start, end |-> x, status |-> "cancelled",
                    version |-> addons[b].version + 1]
<1>6. \/ /\ addons[b].version = 1
         /\ addons' = [c \in DOMAIN addons \cup {b} |-> IF c = b THEN row ELSE addons[c]]
      \/ addons' = addons
  BY <1>1, <1>2, <1>3 DEF Addon!Update, Addon!Put, Reading
<1>7. addons[b].version = 1 => addons[b].status = "active" /\ Row(row)
  <2>. SUFFICES ASSUME addons[b].version = 1 PROVE addons[b].status = "active" /\ Row(row)
    OBVIOUS
  <2>1. addons[b].status = "active" /\ addons[b].start \in Dates
    BY <1>5 DEF Row
  <2>2. row = [start |-> addons[b].start, end |-> x, status |-> "cancelled", version |-> 2]
    OBVIOUS
  <2>3. x # None
    BY DEF Addon!AddonsAssumption
  <2>4. Row([start |-> addons[b].start, end |-> x, status |-> "cancelled", version |-> 2])
    BY <2>1, <2>3 DEF Row
  <2>. QED BY <2>1, <2>2, <2>4
<1>. HIDE DEF row
<1>8. /\ DOMAIN addons' = DOMAIN addons
      /\ \A c \in DOMAIN addons : addons'[c] = addons[c] \/ (c = b /\ addons[b].version = 1 /\ addons'[c] = row)
  BY <1>6
<1>9. \A c \in DOMAIN addons : Row(addons'[c])
  BY <1>7, <1>8 DEF AddonInv
<1>10. /\ addonPc' \in [Requests -> {"idle", "update"}] /\ addon' \in [Requests -> Addons \cup {None}]
       /\ date' \in [Requests -> Dates \cup {None}] /\ version' \in [Requests -> Nat]
  BY <1>4 DEF AddonInv
<1>11. ASSUME NEW q \in Requests PROVE Reading(q)'
  <2>0. Reading(q)
    BY DEF AddonInv
  <2>1. CASE q = r
    BY <1>4, <2>1 DEF AddonInv, Reading
  <2>2. CASE q # r
    <3>1. addonPc'[q] = addonPc[q] /\ addon'[q] = addon[q] /\ version'[q] = version[q] /\ date'[q] = date[q]
      BY <1>4, <2>2 DEF AddonInv
    <3>. QED BY <1>8, <2>0, <3>1 DEF Reading
  <2>. QED BY <2>1, <2>2
<1>12. AddonInv'
  BY <1>8, <1>9, <1>10, <1>11 DEF AddonInv, Row
<1>13. \A c \in DOMAIN addons : addons[c].status = "cancelled" => addons'[c] = addons[c]
  BY <1>7, <1>8
<1>. QED BY <1>12, <1>13

LEMMA StepAddons ==
    ASSUME Addon!AddonsAssumption, AddonInv, [Addon!Next]_(Addon!vars)
    PROVE  /\ AddonInv'
           /\ \A a \in DOMAIN addons : addons[a].status = "cancelled" => addons'[a] = addons[a]
<1>1. CASE Addon!Next
  BY <1>1, CreateAddons, CancelAddons, UpdateAddons DEF Addon!Next
<1>2. CASE UNCHANGED Addon!vars
  BY <1>2 DEF Addon!vars, AddonInv, Row, Reading
<1>. QED BY <1>1, <1>2

LEMMA SpecAddons ==
    ASSUME Addon!AddonsAssumption PROVE Addon!Spec => []AddonInv
<1>1. Addon!Init => AddonInv
  BY InitAddons
<1>2. AddonInv /\ [Addon!Next]_(Addon!vars) => AddonInv'
  BY StepAddons
<1>. QED BY <1>1, <1>2, PTL DEF Addon!Spec


-------------------------------------------------------------------------------
\* The calendar: dates are in a strict linear order, and of finitely many years
\* there are finitely many.
Date == [y: Nat, m: Nat, d: Nat]

LEMMA BeforeOrders ==
    ASSUME NEW a \in Date, NEW b \in Date, NEW c \in Date
    PROVE  /\ ~Addon!Before(a, a)
           /\ Addon!Before(a, b) => ~Addon!Before(b, a)
           /\ Addon!Before(a, b) \/ Addon!Before(b, a) \/ a = b
           /\ Addon!Before(a, b) /\ ~Addon!Before(c, b) => Addon!Before(a, c)
           /\ ~Addon!Before(b, a) /\ Addon!Before(b, c) => Addon!Before(a, c)
BY DEF Date, Addon!Before

LEMMA AddonCards ==
    \A S : Addon!Cardinality(S) = Cardinality(S) /\ (Addon!IsFiniteSet(S) <=> IsFiniteSet(S))
BY DEF Addon!Cardinality, Cardinality, Addon!IsFiniteSet, IsFiniteSet

LEMMA CalendarFinite ==
    ASSUME Addon!AddonsAssumption
    PROVE  Addon!Calendar \subseteq Date /\ IsFiniteSet(Addon!Calendar)
<1>0. Years \subseteq Nat /\ IsFiniteSet(Years)
  BY AddonCards DEF Addon!AddonsAssumption
<1>. DEFINE D == Years \X ((1..12) \X (1..31))
            f == [t \in D |-> [y |-> t[1], m |-> t[2][1], d |-> t[2][2]]]
            T == {f[t] : t \in D}
<1>1. IsFiniteSet(D)
  <2>1. IsFiniteSet(1..12) /\ IsFiniteSet(1..31)
    <3>1. 1 \in Int /\ 12 \in Int /\ 31 \in Int
      OBVIOUS
    <3>. QED BY <3>1, FS_Interval
  <2>2. IsFiniteSet((1..12) \X (1..31))
    BY <2>1, FS_Product
  <2>. QED BY <1>0, <2>2, FS_Product
<1>2. f \in [D -> T] /\ \A t \in T : \E s \in D : f[s] = t
  OBVIOUS
<1>3. f \in Surjection(D, T)
  <2>. HIDE DEF D, f, T
  <2>. QED BY <1>2 DEF Surjection
<1>4. IsFiniteSet(T)
  <2>. HIDE DEF D, f, T
  <2>. QED BY <1>1, <1>3, FS_Surjection
<1>5. ASSUME NEW x \in Addon!Calendar PROVE x \in Date /\ x \in T
  <2>1. PICK y \in Years, m \in 1..12, d \in 1..31 : x = [y |-> y, m |-> m, d |-> d]
    BY DEF Addon!Calendar
  <2>2. <<y, <<m, d>>>> \in D
    OBVIOUS
  <2>3. f[<<y, <<m, d>>>>] = x
    BY <2>1, <2>2
  <2>4. x \in T
    BY <2>2, <2>3
  <2>5. x \in Date
    BY <1>0, <2>1 DEF Date
  <2>. QED BY <2>4, <2>5
<1>6. Addon!Calendar \subseteq T
  BY <1>5
<1>7. IsFiniteSet(Addon!Calendar)
  BY <1>4, <1>6, FS_Subset
<1>. QED BY <1>5, <1>7

\* The days from one to another, both included.
Through(a, b) == {x \in Addon!Calendar : ~Addon!Before(x, a) /\ ~Addon!Before(b, x)}

LEMMA DaysCounted ==
    ASSUME Addon!AddonsAssumption, NEW a \in Addon!Calendar, NEW b \in Addon!Calendar
    PROVE  Addon!daysBetween(a, b) = Cardinality(Through(a, b)) /\ IsFiniteSet(Through(a, b))
<1>0. Addon!Calendar \subseteq Date /\ IsFiniteSet(Addon!Calendar) /\ a \in Date /\ b \in Date
  BY CalendarFinite
<1>. DEFINE S == {x \in Addon!Calendar : ~Addon!Before(x, a) /\ Addon!Before(x, b)}
<1>1. Addon!daysBetween(a, b) = IF Addon!Before(b, a) THEN 0 ELSE Cardinality(S) + 1
  BY AddonCards DEF Addon!daysBetween, Addon!Span
<1>2. Through(a, b) \in SUBSET Addon!Calendar
  BY DEF Through
<1>3. IsFiniteSet(Through(a, b))
  BY <1>0, <1>2, FS_Subset
<1>4. CASE Addon!Before(b, a)
  <2>1. ASSUME NEW x \in Through(a, b) PROVE FALSE
    <3>1. x \in Date /\ ~Addon!Before(x, a) /\ ~Addon!Before(b, x)
      BY <1>0 DEF Through
    <3>. QED BY <1>0, <1>4, <3>1, BeforeOrders
  <2>2. Through(a, b) = {}
    BY <2>1
  <2>. QED BY <1>1, <1>3, <1>4, <2>2, FS_EmptySet
<1>5. CASE ~Addon!Before(b, a)
  <2>1. ASSUME NEW x \in Addon!Calendar
        PROVE  x \in Through(a, b) <=> x \in S \/ x = b
    <3>1. x \in Date
      BY <1>0
    <3>2. ~Addon!Before(b, x) <=> Addon!Before(x, b) \/ x = b
      BY <1>0, <3>1, BeforeOrders
    <3>. QED BY <1>5, <3>2 DEF Through
  <2>2. Through(a, b) = S \cup {b} /\ b \notin S
    <3>1. b \notin S
      BY <1>0, BeforeOrders
    <3>. QED BY <1>2, <2>1, <3>1
  <2>3. IsFiniteSet(S)
    BY <1>0, FS_Subset
  <2>4. Cardinality(S \cup {b}) = Cardinality(S) + 1
    BY <2>2, <2>3, FS_AddElement
  <2>. QED BY <1>1, <1>3, <1>5, <2>2, <2>4
<1>. QED BY <1>4, <1>5

\* The leap years of the code are those of the calendar.
LEMMA MonthsAgree ==
    ASSUME NEW x \in Date PROVE Addon!daysInMonth(x) = Addon!Length(x.y, x.m)
<1>1. PICK y \in Nat, m \in Nat : y = x.y /\ m = x.m
  BY DEF Date
<1>2. y % 400 = 0 => y % 4 = 0
  <2>. SUFFICES ASSUME y % 400 = 0 PROVE y % 4 = 0
    OBVIOUS
  <2>1. PICK q \in Nat : y = 400 * q
    <3>1. y = 400 * (y \div 400) + (y % 400) /\ y \div 400 \in Nat
      OBVIOUS
    <3>. QED BY <3>1
  <2>2. y = 4 * (100 * q)
    BY <2>1
  <2>. QED BY <2>2
<1>3. Addon!Leap(y) <=> y % 4 = 0 /\ (y % 100 # 0 \/ y % 400 = 0)
  BY <1>2 DEF Addon!Leap
<1>4. CASE m = 2
  BY <1>1, <1>3, <1>4 DEF Addon!daysInMonth, Addon!Length
<1>5. CASE m \in {4, 6, 9, 11}
  BY <1>1, <1>5 DEF Addon!daysInMonth, Addon!Length
<1>6. CASE m \notin {2, 4, 6, 9, 11}
  BY <1>1, <1>6 DEF Addon!daysInMonth, Addon!Length
<1>. QED BY <1>4, <1>5, <1>6

\* The days used are those that the addon was there for, or as many as the month
\* that the period begins in has when they are more.
LEMMA DaysCharged ==
    ASSUME Addon!AddonsAssumption, NEW row, Row(row), NEW p \in Periods
    PROVE  /\ Addon!DaysUsed(row, p) =
                 IF Cardinality(Addon!Covered(row, p)) > Addon!daysInMonth(p[1])
                 THEN Addon!daysInMonth(p[1]) ELSE Cardinality(Addon!Covered(row, p))
           /\ Addon!daysInMonth(p[1]) \in Nat /\ Cardinality(Addon!Covered(row, p)) \in Nat
           /\ Cardinality(Addon!Covered(row, p)) <= Addon!daysBetween(p[1], p[2])
           /\ Addon!daysBetween(p[1], p[2]) \in Nat
<1>1. p[1] \in Addon!Calendar /\ p[2] \in Addon!Calendar
  BY DEF Addon!AddonsAssumption
<1>2. row.start \in Addon!Calendar /\ (row.end # None => row.end \in Addon!Calendar)
  BY DEF Addon!AddonsAssumption, Row
<1>3. Addon!Calendar \subseteq Date
  BY CalendarFinite
<1>4. PICK s \in Addon!Calendar : s = Addon!ChargeStart(row, p)
  BY <1>1, <1>2 DEF Addon!ChargeStart
<1>5. PICK e \in Addon!Calendar : e = Addon!ChargeEnd(row, p)
  BY <1>1, <1>2 DEF Addon!ChargeEnd
<1>6. ASSUME NEW x \in Addon!Calendar
      PROVE  ~Addon!Before(x, s) <=> ~Addon!Before(x, p[1]) /\ ~Addon!Before(x, row.start)
  <2>1. x \in Date /\ p[1] \in Date /\ row.start \in Date
    BY <1>1, <1>2, <1>3
  <2>. QED BY <1>4, <2>1, BeforeOrders DEF Addon!ChargeStart
<1>7. ASSUME NEW x \in Addon!Calendar
      PROVE  ~Addon!Before(e, x) <=> ~Addon!Before(p[2], x) /\ (row.end # None => ~Addon!Before(row.end, x))
  <2>1. x \in Date /\ p[2] \in Date
    BY <1>1, <1>3
  <2>2. CASE row.end = None
    BY <1>5, <2>2 DEF Addon!ChargeEnd
  <2>3. CASE row.end # None
    <3>1. row.end \in Date
      BY <1>2, <1>3, <2>3
    <3>2. e = IF Addon!Before(row.end, p[2]) THEN row.end ELSE p[2]
      BY <1>5, <2>3 DEF Addon!ChargeEnd
    <3>. QED BY <2>1, <2>3, <3>1, <3>2, BeforeOrders
  <2>. QED BY <2>2, <2>3
<1>8. Addon!Covered(row, p) = Through(s, e)
  BY <1>6, <1>7 DEF Addon!Covered, Through
<1>9. Addon!daysBetween(s, e) = Cardinality(Through(s, e))
  BY DaysCounted
<1>10. Through(s, e) \in SUBSET Through(p[1], p[2])
  BY <1>6, <1>7 DEF Through
<1>11. /\ Cardinality(Through(s, e)) \in Nat /\ Cardinality(Through(p[1], p[2])) \in Nat
       /\ Cardinality(Through(s, e)) <= Cardinality(Through(p[1], p[2]))
       /\ Addon!daysBetween(p[1], p[2]) = Cardinality(Through(p[1], p[2]))
  <2>1. IsFiniteSet(Through(p[1], p[2])) /\ Addon!daysBetween(p[1], p[2]) = Cardinality(Through(p[1], p[2]))
    BY <1>1, DaysCounted
  <2>2. /\ Cardinality(Through(s, e)) \in Nat /\ Cardinality(Through(p[1], p[2])) \in Nat
        /\ Cardinality(Through(s, e)) <= Cardinality(Through(p[1], p[2]))
    BY <1>10, <2>1, Fewer
  <2>. QED BY <2>1, <2>2
<1>12. Addon!daysInMonth(p[1]) \in Nat
  BY DEF Addon!daysInMonth
<1>13. Addon!DaysUsed(row, p) = IF Addon!daysBetween(s, e) > Addon!daysInMonth(p[1])
                               THEN Addon!daysInMonth(p[1]) ELSE Addon!daysBetween(s, e)
  BY <1>4, <1>5 DEF Addon!DaysUsed
<1>. QED BY <1>8, <1>9, <1>11, <1>12, <1>13

-------------------------------------------------------------------------------
\* TypeOK of Addons: an addon is cancelled just when it has an end.
THEOREM AddonTypesCorrect ==
    ASSUME Addon!AddonsAssumption PROVE Addon!Spec => []Addon!TypeOK
<1>1. AddonInv => Addon!TypeOK
  <2>. SUFFICES ASSUME AddonInv PROVE Addon!TypeOK
    OBVIOUS
  <2>1. ASSUME NEW a \in DOMAIN addons
        PROVE  /\ addons[a] \in [start: Dates, end: Dates \cup {None},
                                 status: {"active", "cancelled"}, version: {1, 2}]
               /\ addons[a].status = "cancelled" <=> addons[a].end # None
    <3>1. Row(addons[a])
      BY DEF AddonInv
    <3>. QED BY <3>1 DEF Row
  <2>. QED BY <2>1 DEF AddonInv, Reading, Addon!TypeOK
<1>. QED BY <1>1, SpecAddons, PTL

\* CancelledOnce, for any number of cancellations at once: that each read the
\* version before it is what keeps them apart, without a lock.
THEOREM CancelledStands ==
    ASSUME Addon!AddonsAssumption PROVE Addon!Spec => Addon!CancelledOnce
<1>1. AddonInv /\ [Addon!Next]_(Addon!vars)
        => [\A a \in DOMAIN addons : addons[a].status = "cancelled" => addons'[a] = addons[a]]_addons
  BY StepAddons
<1>. QED BY <1>1, SpecAddons, PTL DEF Addon!Spec, Addon!CancelledOnce

\* Whatever the period, the days used by calculateAddonProrata are those that the
\* addon was there for, up to those of the month that the period begins in.
THEOREM DaysUpToMonth ==
    ASSUME Addon!AddonsAssumption
    PROVE  Addon!Spec => [](\A a \in DOMAIN addons, p \in Periods :
               Addon!DaysUsed(addons[a], p) =
                  IF Cardinality(Addon!Covered(addons[a], p)) > Addon!daysInMonth(p[1])
                  THEN Addon!daysInMonth(p[1]) ELSE Cardinality(Addon!Covered(addons[a], p)))
<1>1. AddonInv => \A a \in DOMAIN addons, p \in Periods :
               Addon!DaysUsed(addons[a], p) =
                  IF Cardinality(Addon!Covered(addons[a], p)) > Addon!daysInMonth(p[1])
                  THEN Addon!daysInMonth(p[1]) ELSE Cardinality(Addon!Covered(addons[a], p))
  BY DaysCharged DEF AddonInv
<1>. QED BY <1>1, SpecAddons, PTL

\* ChargedByTheDay, for any dates: of a period that is no longer than the month
\* it begins in, every day that the addon was there for is charged, and no other.
THEOREM AddonsCharged ==
    ASSUME Addon!AddonsAssumption, Addon!Monthly
    PROVE  Addon!Spec => []Addon!ChargedByTheDay
<1>1. AddonInv => Addon!ChargedByTheDay
  <2>. SUFFICES ASSUME AddonInv, NEW a \in DOMAIN addons, NEW p \in Periods
                PROVE  Addon!DaysUsed(addons[a], p) = Addon!Cardinality(Addon!Covered(addons[a], p))
    BY DEF Addon!ChargedByTheDay
  <2>1. Row(addons[a])
    BY DEF AddonInv
  <2>2. PICK c : c = Cardinality(Addon!Covered(addons[a], p))
    OBVIOUS
  <2>3. /\ Addon!DaysUsed(addons[a], p) = IF c > Addon!daysInMonth(p[1]) THEN Addon!daysInMonth(p[1]) ELSE c
        /\ Addon!daysInMonth(p[1]) \in Nat /\ c \in Nat
        /\ c <= Addon!daysBetween(p[1], p[2]) /\ Addon!daysBetween(p[1], p[2]) \in Nat
    BY <2>1, <2>2, DaysCharged
  <2>4. Addon!daysBetween(p[1], p[2]) <= Addon!daysInMonth(p[1])
    <3>1. p[1] \in Date
      BY CalendarFinite DEF Addon!AddonsAssumption
    <3>. QED BY <3>1, MonthsAgree DEF Addon!Monthly
  <2>5. Addon!DaysUsed(addons[a], p) = c
    BY <2>3, <2>4
  <2>. QED BY <2>2, <2>5, AddonCards
<1>. QED BY <1>1, SpecAddons, PTL

===============================================================================
