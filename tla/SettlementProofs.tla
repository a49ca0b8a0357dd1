--------------------------- MODULE SettlementProofs ---------------------------
(***************************************************************************)
(* For every set of sessions, invoices, distributors and amounts: Settlement *)
(* keeps its types (balances never negative), never takes an invoice out of  *)
(* a balance twice, never undoes a settled invoice, and implements Ledger.   *)
(*                                                                          *)
(* None of this is inductive by itself.  What carries it is what a session   *)
(* knows while it waits between two statements: the rows it has locked, and  *)
(* that what it read in them still holds (Locks), because no one else holds  *)
(* them (Exclusive).                                                         *)
(***************************************************************************)
EXTENDS Settlement, WellFoundedInduction, TLAPS

\* Which request a session at a statement is working on.
Control(s) ==
    /\ pc[s] = "invoice" => req[s] \in PayReqs \cup CreateReqs
    /\ pc[s] = "distributor" => req[s] \in TopUpReqs \cup PayReqs
    /\ pc[s] \in {"number", "insert"} => req[s] \in TopUpReqs \cup PayReqs \cup CreateReqs
    /\ pc[s] = "reference" => req[s] \in CreateReqs
    /\ pc[s] \in {"payment", "dedup", "settle", "commitDuplicate"} => req[s] \in CallbackReqs

\* Past SELECT .. FROM invoices FOR UPDATE of payByBalance or createPayment.
HasInvoice(s) == /\ pc[s] \in {"distributor", "number", "insert", "reference", "commit"}
                 /\ req[s] \in PayReqs \cup CreateReqs

\* Past SELECT .. FROM distributors FOR UPDATE.
HasDistributor(s) == /\ pc[s] \in {"number", "insert", "commit"}
                     /\ req[s] \in TopUpReqs \cup PayReqs

\* Past INSERT INTO payments.
HasNumber(s) == pc[s] \in {"reference", "commit"} /\ req[s] \notin CallbackReqs

\* Past SELECT .. FROM payments FOR UPDATE of the callback.
HasPayment(s) == \/ pc[s] \in {"dedup", "settle", "commitDuplicate"}
                 \/ pc[s] = "commit" /\ req[s] \in CallbackReqs

Locks(s) ==
    /\ pc[s] \in {"idle", "invoice", "payment"} => held[s] = {}
    /\ pc[s] = "dedup" => held[s] = {<<"payment", req[s].no>>}
    /\ HasInvoice(s) => /\ <<"invoice", req[s].inv>> \in held[s]
                        /\ invoice[req[s].inv] = "unpaid"
    /\ HasDistributor(s) => /\ <<"distributor", Payer(s)>> \in held[s]
                            /\ bal[s] = balance[Payer(s)]
                            /\ req[s] \in PayReqs => bal[s] >= TotalOf[req[s].inv]
    /\ HasNumber(s) => /\ <<"payment", no[s]>> \in held[s]
                       /\ payment[no[s]].status = "none"
    /\ HasPayment(s) => /\ <<"payment", req[s].no>> \in held[s]
                        /\ payment[req[s].no].inv \in Invoices
                        /\ payment[req[s].no].status # "completed"
    /\ pc[s] = "commit" /\ req[s] \in CallbackReqs =>
          <<"invoice", payment[req[s].no].inv>> \in held[s]

\* FOR UPDATE excludes; only KEY SHARE (the "reference" rows) is shared.
Exclusive == \A s, t \in Sessions : s # t =>
    \A row \in held[s] \cap held[t] : row[1] = "reference"

AbsentIsEmpty == \A n \in PaymentNos :
    payment[n].status = "none" => payment[n].inv = Nobody

IInv == /\ TypeOK
        /\ \A s \in Sessions : Control(s) /\ Locks(s)
        /\ Exclusive
        /\ AbsentIsEmpty

-------------------------------------------------------------------------------
\* Sums over the payment numbers.

\* Induction over the numbers, for a set of them: the least one outside of the
\* set is neither 0 nor one more than a member.
LEMMA Induct ==
  ASSUME NEW S, 0 \in S, \A n \in Nat : n \in S => n + 1 \in S
  PROVE  Nat \subseteq S
<1> SUFFICES ASSUME Nat \ S # {} PROVE FALSE
  OBVIOUS
<1>1. PICK x \in Nat \ S : \A y \in Nat \ S : <<y, x>> \notin OpToRel(<, Nat)
  BY NatLessThanWellFounded, WFMin
<1>2. x # 0 /\ x \in Nat
  OBVIOUS
<1>3. x - 1 \in Nat /\ (x - 1) + 1 = x /\ x - 1 < x
  BY <1>2
<1>4. x - 1 \notin S
  BY <1>3
<1>5. <<x - 1, x>> \in OpToRel(<, Nat)
  BY <1>2, <1>3 DEF OpToRel
<1> QED BY <1>1, <1>3, <1>4, <1>5

Sums(g, a, n) == g[n] = a[n] + (IF n = 0 THEN 0 ELSE g[n-1])

\* Total is what adding up one number after the other ends with.
LEMMA TotalDef ==
  ASSUME NEW a \in [PaymentNos -> Int]
  PROVE  \E g \in [PaymentNos -> Int] :
            (\A n \in PaymentNos : Sums(g, a, n)) /\ Total(a) = g[MaxPaymentNo]
<1> USE DEF PaymentNos
<1>0. MaxPaymentNo \in Nat
  BY SettlementAssumption
<1> USE <1>0
<1> DEFINE Upto(m) == \E g \in [0..m -> Int] : \A n \in 0..m : Sums(g, a, n)
           S == {m \in Nat : m <= MaxPaymentNo => Upto(m)}
<1>1. Upto(0)
  <2> DEFINE g == [n \in 0..0 |-> a[n]]
  <2>1. g \in [0..0 -> Int] /\ \A n \in 0..0 : Sums(g, a, n)
    BY DEF Sums
  <2> QED BY <2>1
<1>2. ASSUME NEW m \in Nat, Upto(m), m + 1 <= MaxPaymentNo PROVE Upto(m + 1)
  <2>1. PICK g \in [0..m -> Int] : \A n \in 0..m : Sums(g, a, n)
    BY <1>2
  <2> DEFINE h == [n \in 0..(m + 1) |-> IF n = m + 1 THEN a[m + 1] + g[m] ELSE g[n]]
  <2>2. a[m + 1] \in Int /\ g[m] \in Int
    BY <1>2
  <2>3. h \in [0..(m + 1) -> Int]
    BY <2>2
  <2>4. ASSUME NEW n \in 0..m PROVE Sums(h, a, n)
    <3>1. h[n] = g[n] /\ (n # 0 => h[n - 1] = g[n - 1])
      OBVIOUS
    <3> QED BY <2>1, <3>1 DEF Sums
  <2>5. Sums(h, a, m + 1)
    <3>1. h[m + 1] = a[m + 1] + g[m] /\ h[(m + 1) - 1] = g[m] /\ m + 1 # 0
      OBVIOUS
    <3> QED BY <3>1 DEF Sums
  <2>6. \A n \in 0..(m + 1) : n \in 0..m \/ n = m + 1
    OBVIOUS
  <2> QED BY <2>3, <2>4, <2>5, <2>6
<1>3. MaxPaymentNo \in S
  <2>1. 0 \in S /\ \A n \in Nat : n \in S => n + 1 \in S
    <3> HIDE DEF Upto
    <3> QED BY <1>1, <1>2
  <2> HIDE DEF S
  <2> QED BY <2>1, Induct
<1>4. PICK g \in [PaymentNos -> Int] : \A n \in PaymentNos : Sums(g, a, n)
  BY <1>3
<1> DEFINE Added(f) == f = [n \in PaymentNos |-> a[n] + (IF n = 0 THEN 0 ELSE f[n-1])]
           sum == CHOOSE f : Added(f)
<1>5. Added(g)
  BY <1>4 DEF Sums
<1>6. Added(sum)
  BY <1>5
<1>7. Total(a) = sum[MaxPaymentNo]
  BY DEF Total
<1>8. \A n \in PaymentNos : Sums(sum, a, n)
  <2> HIDE DEF sum
  <2> QED BY <1>6 DEF Sums
<1>9. sum \in [PaymentNos -> Int]
  <2> HIDE DEF sum
  <2> DEFINE T == {n \in Nat : n <= MaxPaymentNo => sum[n] \in Int}
  <2>1. 0 \in T
    BY <1>8 DEF Sums
  <2>2. ASSUME NEW n \in Nat, n \in T PROVE n + 1 \in T
    <3>1. n + 1 <= MaxPaymentNo => sum[n + 1] = a[n + 1] + sum[n]
      <4>1. (n + 1) - 1 = n /\ n + 1 # 0
        OBVIOUS
      <4> QED BY <1>8, <4>1 DEF Sums
    <3> QED BY <2>2, <3>1
  <2>3. Nat \subseteq T
    <3> HIDE DEF T
    <3> QED BY <2>1, <2>2, Induct
  <2>4. \A n \in PaymentNos : sum[n] \in Int
    BY <2>3
  <2>5. DOMAIN sum = PaymentNos /\ sum = [n \in PaymentNos |-> sum[n]]
    BY <1>6
  <2> QED BY <2>4, <2>5
<1> QED BY <1>7, <1>8, <1>9

\* When one amount changes the sum changes by as much.
LEMMA TotalChanges ==
  ASSUME NEW a \in [PaymentNos -> Int], NEW b \in [PaymentNos -> Int], NEW k \in PaymentNos,
         \A n \in PaymentNos \ {k} : b[n] = a[n]
  PROVE  Total(b) = Total(a) + b[k] - a[k] /\ Total(a) \in Int
<1> USE DEF PaymentNos
<1>0. MaxPaymentNo \in Nat
  BY SettlementAssumption
<1> USE <1>0
<1>1. PICK g \in [PaymentNos -> Int] :
         (\A n \in PaymentNos : Sums(g, a, n)) /\ Total(a) = g[MaxPaymentNo]
  BY TotalDef
<1>2. PICK h \in [PaymentNos -> Int] :
         (\A n \in PaymentNos : Sums(h, b, n)) /\ Total(b) = h[MaxPaymentNo]
  BY TotalDef
<1> DEFINE S == {n \in Nat : n <= MaxPaymentNo =>
                   h[n] = g[n] + (IF n < k THEN 0 ELSE b[k] - a[k])}
<1>3. 0 \in S
  BY <1>1, <1>2 DEF Sums
<1>4. ASSUME NEW n \in Nat, n \in S PROVE n + 1 \in S
  <2>1. CASE n + 1 > MaxPaymentNo
    BY <2>1
  <2>2. CASE n + 1 <= MaxPaymentNo
    <3>0. PICK m \in PaymentNos : m = n + 1
      BY <2>2
    <3>1. n \in PaymentNos /\ m - 1 = n /\ m # 0 /\ (m < k <=> n < k /\ m # k)
      BY <2>2, <3>0
    <3>2. g[m] = a[m] + g[n] /\ h[m] = b[m] + h[n]
      BY <1>1, <1>2, <3>1 DEF Sums
    <3>3. h[n] = g[n] + (IF n < k THEN 0 ELSE b[k] - a[k])
      BY <1>4, <3>1
    <3>4. h[m] = g[m] + (IF m < k THEN 0 ELSE b[k] - a[k])
      <4>1. g[n] \in Int /\ a[m] \in Int /\ b[m] \in Int /\ a[k] \in Int /\ b[k] \in Int
        BY <3>1
      <4> HIDE DEF S
      <4>2. CASE m = k
        <5>1. n < k
          BY <3>0, <4>2
        <5> QED BY <3>1, <3>2, <3>3, <4>1, <4>2, <5>1
      <4>3. CASE m # k
        <5>1. b[m] = a[m]
          BY <4>3
        <5> QED BY <3>1, <3>2, <3>3, <4>1, <4>3, <5>1, SMTT(30)
      <4> QED BY <4>2, <4>3
    <3> QED BY <3>0, <3>4
  <2> QED BY <2>1, <2>2
<1>5. Nat \subseteq S
  <2> HIDE DEF S
  <2> QED BY <1>3, <1>4, Induct
<1> QED BY <1>1, <1>2, <1>5

USE SettlementAssumption DEF PaymentNos

-------------------------------------------------------------------------------
\* Initially nothing is recorded, requested or locked.
LEMMA InitIInv == Init => IInv
  BY DEF Init, IInv, TypeOK, Control, Locks, HasInvoice, HasDistributor, HasNumber,
         HasPayment, Exclusive, AbsentIsEmpty, InvoiceStatus, PCs, NoReq, Requests,
         NoPayment, Payments, PaymentStatus, Methods, NoCharge, Charges

\* What a session that may go on knows about the locks of the others.
LEMMA GrantedFree ==
  ASSUME NEW s \in Sessions, Granted(s), NEW t \in Sessions
  PROVE  /\ pc[s] = "invoice" => <<"invoice", req[s].inv>> \notin held[t]
         /\ pc[s] = "distributor" => /\ <<"distributor", Payer(s)>> \notin held[t]
                                     /\ <<"reference", Payer(s)>> \notin held[t]
         /\ pc[s] = "insert" /\ Written(no[s]) => <<"payment", no[s]>> \notin held[t]
         /\ pc[s] = "reference" => <<"distributor", Payer(s)>> \notin held[t]
         /\ pc[s] = "payment" /\ payment[req[s].no].inv # Nobody =>
               <<"payment", req[s].no>> \notin held[t]
         /\ pc[s] = "settle" => <<"invoice", payment[req[s].no].inv>> \notin held[t]
  BY DEF Granted, WaitsFor, Wants

-------------------------------------------------------------------------------
LEMMA ReqTypes ==
  ASSUME TypeOK, NEW s \in Sessions
  PROVE  /\ req[s] \in TopUpReqs <=> req[s].op = "topUp"
         /\ req[s] \in PayReqs <=> req[s].op = "payByBalance"
         /\ req[s] \in CreateReqs <=> req[s].op = "createPayment"
         /\ req[s] \in CallbackReqs <=> req[s].op = "callback"
  BY DEF TypeOK, Requests, TopUpReqs, PayReqs, CreateReqs, CallbackReqs, NoReq

\* The row an insertion commits is well formed.
LEMMA InsertedType ==
  ASSUME TypeOK, NEW s \in Sessions, req[s] \in TopUpReqs \cup PayReqs \cup CreateReqs
  PROVE  /\ Inserted(s) \in Payments
         /\ Inserted(s).status # "none"
         /\ Payer(s) \in Distributors
<1>1. Payer(s) \in Distributors
  BY DEF Payer, TopUpReqs, PayReqs, CreateReqs
<1> QED
  BY <1>1 DEF Inserted, Method, Payments, PaymentStatus, Methods, TopUpReqs, PayReqs, CreateReqs

\* What the gateway notifies of is a callback request.
LEMMA NotificationType ==
  ASSUME TypeOK, NEW n \in PaymentNos, NEW b \in BOOLEAN
  PROVE  Notification(n, b) \in CallbackReqs
<1>1. charge[n] \in Charges
  BY DEF TypeOK
<1>2. charge[n].trade \in Trades \cup {Nobody} /\ charge[n].amount \in Nat
  BY <1>1 DEF Charges
<1> QED BY <1>2 DEF Notification, CallbackReqs

\* Crediting a payment changes its status and trade only.
LEMMA CreditType ==
  ASSUME TypeOK, NEW n \in PaymentNos, NEW t \in Trades \cup {Nobody}, Credit(n, t)
  PROVE  payment' \in [PaymentNos -> Payments]
  BY DEF TypeOK, Credit, Payments, PaymentStatus

\* What a session is left with when its transaction is over.
LEMMA ReleaseType ==
  ASSUME TypeOK, NEW s \in Sessions, Release(s)
  PROVE  /\ pc' \in [Sessions -> PCs] /\ req' \in [Sessions -> Requests]
         /\ bal' \in [Sessions -> Nat] /\ no' \in [Sessions -> PaymentNos]
         /\ held' \in [Sessions -> SUBSET Rows]
  BY DEF Release, TypeOK, Goto, PCs, Requests

\* Every step keeps the types; that no balance goes below zero rests on Locks.
LEMMA TypeStep == IInv /\ [Next]_vars => TypeOK'
<1> SUFFICES ASSUME IInv, [Next]_vars PROVE TypeOK'
  OBVIOUS
<1> USE DEF IInv
<1>1. ASSUME NEW s \in Sessions, Request(s) PROVE TypeOK'
  <2> SUFFICES ASSUME NEW r \in Requests, NEW l \in PCs, Start(s, r, l) PROVE TypeOK'
    <3>1. CASE StartTopUp(s) BY <3>1 DEF StartTopUp, Requests, PCs
    <3>2. CASE StartPayByBalance(s) BY <3>2 DEF StartPayByBalance, Requests, PCs
    <3>3. CASE StartCreatePayment(s) BY <3>3 DEF StartCreatePayment, Requests, PCs
    <3>4. ASSUME NEW n \in PaymentNos, StartCallback(s, n) PROVE TypeOK'
      BY <3>4, NotificationType DEF StartCallback, Requests, PCs
    <3> QED BY <1>1, <3>1, <3>2, <3>3, <3>4 DEF Request
  <2> QED BY DEF TypeOK, Start, Goto, db, gw, world
<1>2. ASSUME NEW s \in Sessions, Statement(s) PROVE TypeOK'
  <2> USE ReqTypes
  <2>1. ASSUME Release(s), UNCHANGED <<db, gw, world>> PROVE TypeOK'
    BY <2>1, ReleaseType DEF TypeOK, db, gw, world
  <2>2. ASSUME NEW row \in Rows, NEW l \in PCs, Lock(s, row), Goto(s, l), acked' \subseteq PaymentNos,
               charge' \in [PaymentNos -> Charges],
               UNCHANGED <<db, req, bal, no, world>>
        PROVE  TypeOK'
    BY <2>2 DEF TypeOK, Lock, Goto, db, world
  <2>3. CASE LockInvoice(s)
    <3>1. req[s].inv \in Invoices
      BY <2>3 DEF LockInvoice, Control, PayReqs, CreateReqs
    <3>2. <<"invoice", req[s].inv>> \in Rows
      BY <3>1 DEF Rows
    <3> QED BY <2>3, <3>2 DEF LockInvoice, Lock, Goto, TypeOK, PCs, db, gw, world
  <2>4. CASE LockDistributor(s)
    <3>1. Payer(s) \in Distributors
      BY <2>4 DEF LockDistributor, Control, Payer, TopUpReqs, PayReqs
    <3>2. <<"distributor", Payer(s)>> \in Rows /\ balance[Payer(s)] \in Nat
      BY <3>1 DEF Rows, TypeOK
    <3> QED BY <2>4, <3>2 DEF LockDistributor, Lock, Goto, PCs, TypeOK, db, gw, world
  <2>5. CASE TakeNumber(s)
    BY <2>5 DEF TakeNumber, Goto, PCs, TypeOK, db, gw, world
  <2>6. CASE InsertPayment(s)
    BY <2>6, <2>2 DEF InsertPayment, Rows, PCs, gw, TypeOK
  <2>7. CASE PlacePayment(s)
    <3>1. Payer(s) \in Distributors /\ req[s].inv \in Invoices /\ no[s] \in PaymentNos
      BY <2>7 DEF PlacePayment, Control, Payer, CreateReqs, TypeOK
    <3>2. charge' \in [PaymentNos -> Charges]
      BY <2>7, <3>1 DEF PlacePayment, Precreate, Charges, TypeOK
    <3> QED BY <2>7, <2>2, <3>1, <3>2 DEF PlacePayment, Rows, PCs, TypeOK
  <2>8. CASE CommitTopUp(s) \/ CommitPayByBalance(s) \/ CommitCreatePayment(s)
    <3>1. req[s] \in TopUpReqs \cup PayReqs \cup CreateReqs
      BY <2>8 DEF CommitTopUp, CommitPayByBalance, CommitCreatePayment
    <3>2. payment' \in [PaymentNos -> Payments]
      <4>1. Inserted(s) \in Payments /\ no[s] \in PaymentNos
        BY <3>1, InsertedType DEF TypeOK
      <4>2. payment' = [payment EXCEPT ![no[s]] = Inserted(s)]
        BY <2>8 DEF CommitTopUp, CommitPayByBalance, CommitCreatePayment
      <4> QED BY <4>1, <4>2 DEF TypeOK
    <3>3. CASE CommitTopUp(s)
      <4>1. NewBalance(s) \in Nat
        BY <3>3 DEF CommitTopUp, NewBalance, TopUpReqs, TypeOK
      <4> QED
        BY <3>3, <3>2, <4>1, ReleaseType DEF CommitTopUp, TypeOK, gw, world
    <3>4. CASE CommitPayByBalance(s)
      <4>1. req[s].inv \in Invoices /\ bal[s] >= TotalOf[req[s].inv] /\ bal[s] \in Nat
        BY <3>4 DEF CommitPayByBalance, PayReqs, Locks, HasDistributor, TypeOK
      <4>2. NewBalance(s) \in Nat
        BY <3>4, <4>1 DEF CommitPayByBalance, NewBalance
      <4> QED
        BY <3>4, <3>2, <4>1, <4>2, ReleaseType DEF CommitPayByBalance, TypeOK, InvoiceStatus,
                                                    gw, world
    <3> QED
      BY <2>8, <3>2, <3>3, <3>4, ReleaseType DEF CommitCreatePayment, TypeOK, gw, world
  <2>9. CASE CallbackDuplicate(s) \/ LockPayment(s) \/ TradeSeen(s) \/ TradeNew(s) \/ SettleInvoice(s)
    <3>1. req[s] \in CallbackReqs
      BY <2>9 DEF CallbackDuplicate, LockPayment, TradeSeen, TradeNew, SettleInvoice, Control
    <3>2. req[s].no \in PaymentNos
      BY <3>1 DEF CallbackReqs
    <3>3. CASE CallbackDuplicate(s)
      BY <3>2, <3>3, ReleaseType DEF CallbackDuplicate, TypeOK, db, world
    <3>4. CASE LockPayment(s)
      BY <3>2, <3>4, <2>2 DEF LockPayment, Rows, PCs, TypeOK, gw
    <3>5. CASE TradeSeen(s) \/ TradeNew(s)
      BY <3>2, <3>5 DEF TradeSeen, TradeNew, Goto, TypeOK, PCs, db, gw, world
    <3>6. CASE SettleInvoice(s)
      <4>1. payment[req[s].no].inv \in Invoices
        BY <3>6 DEF SettleInvoice, Locks, HasPayment
      <4> QED BY <3>2, <3>6, <2>2, <4>1 DEF SettleInvoice, Rows, PCs, TypeOK
    <3> QED BY <2>9, <3>3, <3>4, <3>5, <3>6
  <2>10. CASE CommitCallback(s) \/ CommitDuplicate(s)
    <3>1. req[s] \in CallbackReqs
      BY <2>10 DEF CommitCallback, CommitDuplicate, Control
    <3>2. /\ req[s].no \in PaymentNos /\ req[s].trade \in Trades \cup {Nobody}
          /\ payment[req[s].no].inv \in Invoices
          /\ payment[req[s].no] \in Payments
      BY <2>10, <3>1 DEF CommitCallback, CommitDuplicate, CallbackReqs, Locks, HasPayment, TypeOK
    <3>3. payment[req[s].no].trade \in Trades \cup {Nobody}
      BY <3>2 DEF Payments
    <3>4. payment' \in [PaymentNos -> Payments]
      BY <2>10, <3>2, <3>3, CreditType DEF CommitCallback, CommitDuplicate
    <3> QED
      BY <2>10, <3>2, <3>4, ReleaseType DEF CommitCallback, CommitDuplicate, TypeOK,
                                            InvoiceStatus, gw, world
  <2>11. CASE Rollback(s)
    BY <2>11, <2>1 DEF Rollback
  <2> QED
    BY <1>2, <2>3, <2>4, <2>5, <2>6, <2>7, <2>8, <2>9, <2>10, <2>11
       DEF Statement, RefuseInvoice, InsufficientBalance, NumberTaken, LogRefused,
           CallbackRejected, AmountMismatch, DeadlockVictim
<1>4. ASSUME NEW n \in PaymentNos, NEW t \in Trades, CustomerPays(n, t) PROVE TypeOK'
  <2>1. charge[n] \in Charges BY DEF TypeOK
  <2>2. charge' \in [PaymentNos -> Charges]
    BY <1>4, <2>1 DEF CustomerPays, TypeOK, Charges
  <2> QED BY <1>4, <2>2 DEF CustomerPays, TypeOK, db, sess, world
<1>5. ASSUME NEW i \in Invoices, MarkOverdue(i) PROVE TypeOK'
  BY <1>5 DEF MarkOverdue, TypeOK, InvoiceStatus, sess, gw, world
<1>6. CASE Crash
  BY <1>6 DEF Crash, TypeOK, PCs, Requests, db, gw
<1>7. CASE UNCHANGED vars
  BY <1>7 DEF TypeOK, vars, db, sess, gw, world
<1> QED BY <1>1, <1>2, <1>4, <1>5, <1>6, <1>7 DEF Next

-------------------------------------------------------------------------------
\* A step of one session moves no other, and writes only rows it has locked.
OnlyMine(s) == \A t \in Sessions \ {s} :
    /\ pc'[t] = pc[t] /\ req'[t] = req[t]
    /\ bal'[t] = bal[t] /\ no'[t] = no[t] /\ held'[t] = held[t]

WritesLocked(s) ==
    /\ \A d \in Distributors : balance'[d] # balance[d] => <<"distributor", d>> \in held[s]
    /\ \A i \in Invoices : invoice'[i] # invoice[i] => <<"invoice", i>> \in held[s]
    /\ \A n \in PaymentNos : payment'[n] # payment[n] => <<"payment", n>> \in held[s]

LEMMA ReleaseMine ==
  ASSUME TypeOK, NEW s \in Sessions, Release(s)
  PROVE  /\ OnlyMine(s)
         /\ pc'[s] = "idle" /\ req'[s] = NoReq /\ held'[s] = {}
  BY DEF TypeOK, Release, Goto, OnlyMine

LEMMA LockMine ==
  ASSUME TypeOK, NEW s \in Sessions, NEW row \in Rows, NEW l \in PCs, Lock(s, row), Goto(s, l),
         UNCHANGED <<req, bal, no>>
  PROVE  /\ OnlyMine(s)
         /\ pc'[s] = l /\ req'[s] = req[s] /\ bal'[s] = bal[s] /\ no'[s] = no[s]
         /\ held'[s] = held[s] \cup {row}
  BY DEF TypeOK, Lock, Goto, OnlyMine

\* The locks a session holds are enough for what it commits.
LEMMA Footprint ==
  ASSUME IInv, NEW s \in Sessions, Request(s) \/ Statement(s)
  PROVE  OnlyMine(s) /\ WritesLocked(s)
<1> USE DEF IInv
<1>1. CASE Request(s)
  BY <1>1 DEF Request, StartTopUp, StartPayByBalance, StartCreatePayment, StartCallback, Start,
              Goto, OnlyMine, WritesLocked, TypeOK, db
<1>2. CASE Rollback(s)
  BY <1>2, ReleaseMine DEF Rollback, WritesLocked, db
<1>3. CASE LockInvoice(s) \/ InsertPayment(s) \/ PlacePayment(s) \/ LockPayment(s) \/ SettleInvoice(s)
  <2>1. OnlyMine(s)
    BY <1>3 DEF LockInvoice, InsertPayment, PlacePayment, LockPayment, SettleInvoice, Lock, Goto,
                OnlyMine, TypeOK
  <2>2. UNCHANGED db
    BY <1>3 DEF LockInvoice, InsertPayment, PlacePayment, LockPayment, SettleInvoice, db
  <2> QED BY <2>1, <2>2 DEF WritesLocked, db
<1>4. CASE LockDistributor(s) \/ TakeNumber(s) \/ TradeSeen(s) \/ TradeNew(s)
  <2>1. OnlyMine(s)
    BY <1>4 DEF LockDistributor, TakeNumber, TradeSeen, TradeNew, Lock, Goto, OnlyMine, TypeOK
  <2>2. UNCHANGED db
    BY <1>4 DEF LockDistributor, TakeNumber, TradeSeen, TradeNew, db
  <2> QED BY <2>1, <2>2 DEF WritesLocked, db
<1>5. CASE CallbackDuplicate(s)
  BY <1>5, ReleaseMine DEF CallbackDuplicate, WritesLocked, db
<1>6. CASE CommitTopUp(s)
  <2>1. <<"distributor", Payer(s)>> \in held[s] /\ <<"payment", no[s]>> \in held[s]
    BY <1>6, ReqTypes DEF CommitTopUp, Locks, HasDistributor, HasNumber
  <2> QED BY <1>6, <2>1, ReleaseMine DEF CommitTopUp, WritesLocked, TypeOK
<1>7. CASE CommitPayByBalance(s)
  <2>1. /\ <<"distributor", Payer(s)>> \in held[s] /\ <<"payment", no[s]>> \in held[s]
        /\ <<"invoice", req[s].inv>> \in held[s]
    BY <1>7, ReqTypes DEF CommitPayByBalance, Locks, HasDistributor, HasNumber, HasInvoice
  <2> QED BY <1>7, <2>1, ReleaseMine DEF CommitPayByBalance, WritesLocked, TypeOK
<1>8. CASE CommitCreatePayment(s)
  <2>1. <<"payment", no[s]>> \in held[s]
    BY <1>8, ReqTypes DEF CommitCreatePayment, Locks, HasNumber
  <2> QED BY <1>8, <2>1, ReleaseMine DEF CommitCreatePayment, WritesLocked, TypeOK
<1>9. CASE CommitCallback(s)
  <2>1. /\ <<"payment", req[s].no>> \in held[s]
        /\ <<"invoice", payment[req[s].no].inv>> \in held[s]
    BY <1>9, ReqTypes DEF CommitCallback, Locks, HasPayment
  <2> QED BY <1>9, <2>1, ReleaseMine DEF CommitCallback, Credit, WritesLocked, TypeOK
<1>10. CASE CommitDuplicate(s)
  <2>1. <<"payment", req[s].no>> \in held[s]
    BY <1>10 DEF CommitDuplicate, Locks, HasPayment
  <2> QED BY <1>10, <2>1, ReleaseMine DEF CommitDuplicate, Credit, WritesLocked, TypeOK
<1> QED
  BY <1>1, <1>2, <1>3, <1>4, <1>5, <1>6, <1>7, <1>8, <1>9, <1>10
     DEF Statement, RefuseInvoice, InsufficientBalance, NumberTaken, LogRefused,
         CallbackRejected, AmountMismatch, DeadlockVictim

\* What another session knows survives: its rows are locked against this one.
LEMMA OthersKeep ==
  ASSUME IInv, NEW s \in Sessions, OnlyMine(s), WritesLocked(s), NEW t \in Sessions \ {s}
  PROVE  Control(t)' /\ Locks(t)'
<1> USE DEF IInv
<1>1. /\ pc'[t] = pc[t] /\ req'[t] = req[t]
      /\ bal'[t] = bal[t] /\ no'[t] = no[t] /\ held'[t] = held[t]
  BY DEF OnlyMine
<1>2. \A row \in held[t] : row[1] # "reference" => row \notin held[s]
  BY DEF Exclusive
<1>3. Control(t) /\ Locks(t)
  OBVIOUS
<1>4. HasInvoice(t) => invoice'[req[t].inv] = invoice[req[t].inv]
  <2> SUFFICES ASSUME HasInvoice(t) PROVE invoice'[req[t].inv] = invoice[req[t].inv]
    OBVIOUS
  <2>1. req[t].inv \in Invoices /\ <<"invoice", req[t].inv>> \in held[t]
    BY <1>3 DEF HasInvoice, Locks, PayReqs, CreateReqs
  <2> QED BY <2>1, <1>2 DEF WritesLocked
<1>5. HasDistributor(t) => balance'[Payer(t)] = balance[Payer(t)]
  <2> SUFFICES ASSUME HasDistributor(t) PROVE balance'[Payer(t)] = balance[Payer(t)]
    OBVIOUS
  <2>1. Payer(t) \in Distributors /\ <<"distributor", Payer(t)>> \in held[t]
    BY <1>3 DEF HasDistributor, Locks, Payer, PayReqs, TopUpReqs
  <2> QED BY <2>1, <1>2 DEF WritesLocked
<1>6. HasNumber(t) => payment'[no[t]] = payment[no[t]]
  <2> SUFFICES ASSUME HasNumber(t) PROVE payment'[no[t]] = payment[no[t]]
    OBVIOUS
  <2>1. no[t] \in PaymentNos /\ <<"payment", no[t]>> \in held[t]
    BY <1>3 DEF Locks, TypeOK
  <2> QED BY <2>1, <1>2 DEF WritesLocked
<1>7. HasPayment(t) => payment'[req[t].no] = payment[req[t].no]
  <2> SUFFICES ASSUME HasPayment(t) PROVE payment'[req[t].no] = payment[req[t].no]
    OBVIOUS
  <2>1. req[t].no \in PaymentNos /\ <<"payment", req[t].no>> \in held[t]
    BY <1>3 DEF HasPayment, Control, Locks, CallbackReqs
  <2> QED BY <2>1, <1>2 DEF WritesLocked
<1>8. /\ HasInvoice(t)' = HasInvoice(t) /\ HasDistributor(t)' = HasDistributor(t)
      /\ HasNumber(t)' = HasNumber(t) /\ HasPayment(t)' = HasPayment(t)
      /\ Payer(t)' = Payer(t)
  BY <1>1 DEF HasInvoice, HasDistributor, HasNumber, HasPayment, Payer
<1>9. Control(t)'
  BY <1>1, <1>3 DEF Control
<1>10. pc[t] = "commit" /\ req[t] \in CallbackReqs => HasPayment(t)
  BY DEF HasPayment
<1> QED
  BY <1>1, <1>3, <1>4, <1>5, <1>6, <1>7, <1>8, <1>9, <1>10 DEF Locks

\* A session that starts, or is over, holds and knows nothing.
LEMMA IdleKnows ==
  ASSUME NEW s \in Sessions, pc'[s] = "idle", held'[s] = {}
  PROVE  Control(s)' /\ Locks(s)'
  BY DEF Control, Locks, HasInvoice, HasDistributor, HasNumber, HasPayment

\* Each statement leaves its session knowing what the next one relies on.
LEMMA MineKeeps ==
  ASSUME IInv, NEW s \in Sessions, Request(s) \/ Statement(s)
  PROVE  Control(s)' /\ Locks(s)'
<1> USE DEF IInv
<1>0. /\ \A r : r \in TopUpReqs => r \notin PayReqs \cup CreateReqs \cup CallbackReqs
      /\ \A r : r \in PayReqs => r \notin CreateReqs \cup CallbackReqs
      /\ \A r : r \in CreateReqs => r \notin CallbackReqs
  BY DEF TopUpReqs, PayReqs, CreateReqs, CallbackReqs
<1>1. CASE Request(s)
  <2>1. held'[s] = {}
    BY <1>1 DEF Request, StartTopUp, StartPayByBalance, StartCreatePayment, StartCallback, Start, Locks
  <2>2. \/ pc'[s] = "distributor" /\ req'[s] \in TopUpReqs
        \/ pc'[s] = "invoice" /\ req'[s] \in PayReqs \cup CreateReqs
        \/ pc'[s] = "payment" /\ req'[s] \in CallbackReqs
    <3>1. ASSUME NEW r, NEW l, Start(s, r, l) PROVE pc'[s] = l /\ req'[s] = r
      BY <3>1 DEF Start, Goto, TypeOK
    <3>2. ASSUME NEW n \in PaymentNos, StartCallback(s, n)
          PROVE  pc'[s] = "payment" /\ req'[s] \in CallbackReqs
      BY <3>1, <3>2, NotificationType DEF StartCallback
    <3> QED
      BY <1>1, <3>1, <3>2 DEF Request, StartTopUp, StartPayByBalance, StartCreatePayment
  <2> QED BY <2>1, <2>2, <1>0 DEF Control, Locks, HasInvoice, HasDistributor, HasNumber, HasPayment
<1>2. CASE Rollback(s)
  BY <1>2, ReleaseMine, IdleKnows DEF Rollback
<1>3. CASE LockInvoice(s)
  <2>1. req[s] \in PayReqs \cup CreateReqs /\ req[s].inv \in Invoices
    BY <1>3 DEF LockInvoice, Control, PayReqs, CreateReqs
  <2>2. /\ req'[s] = req[s] /\ held'[s] = held[s] \cup {<<"invoice", req[s].inv>>}
        /\ invoice' = invoice /\ invoice[req[s].inv] = "unpaid"
        /\ pc'[s] = IF req[s].op = "payByBalance" THEN "distributor" ELSE "number"
    BY <1>3 DEF LockInvoice, Lock, Goto, TypeOK, db
  <2>3. req[s].op = "payByBalance" <=> req[s] \in PayReqs
    BY ReqTypes
  <2>4. req[s] \notin TopUpReqs /\ req[s] \notin CallbackReqs
    BY <2>1 DEF PayReqs, CreateReqs, TopUpReqs, CallbackReqs
  <2> QED
    BY <2>1, <2>2, <2>3, <2>4 DEF Control, Locks, HasInvoice, HasDistributor, HasNumber, HasPayment
<1>4. CASE LockDistributor(s)
  <2>1. req[s] \in TopUpReqs \cup PayReqs
    BY <1>4 DEF LockDistributor, Control
  <2>2. /\ req'[s] = req[s] /\ held'[s] = held[s] \cup {<<"distributor", Payer(s)>>}
        /\ invoice' = invoice /\ balance' = balance /\ pc'[s] = "number"
        /\ bal'[s] = balance[Payer(s)] /\ Payer(s)' = Payer(s)
    BY <1>4 DEF LockDistributor, Lock, Goto, TypeOK, db, Payer
  <2>3. req[s] \in PayReqs => balance[Payer(s)] >= TotalOf[req[s].inv]
    BY <1>4, ReqTypes DEF LockDistributor, Sufficient
  <2>4. HasInvoice(s)' => HasInvoice(s)
    BY <1>4, <2>1, <2>2 DEF HasInvoice, LockDistributor
  <2> QED
    BY <2>1, <2>2, <2>3, <2>4, <1>0 DEF Control, Locks, HasDistributor, HasNumber, HasPayment
<1>5. CASE TakeNumber(s)
  <2>1. req[s] \in TopUpReqs \cup PayReqs \cup CreateReqs
    BY <1>5 DEF TakeNumber, Control
  <2>2. /\ req'[s] = req[s] /\ held'[s] = held[s] /\ bal'[s] = bal[s]
        /\ invoice' = invoice /\ balance' = balance /\ pc[s] = "number" /\ pc'[s] = "insert"
        /\ Payer(s)' = Payer(s)
    BY <1>5 DEF TakeNumber, Goto, TypeOK, db, Payer
  <2>3. /\ HasInvoice(s)' = HasInvoice(s)
        /\ HasDistributor(s)' = HasDistributor(s)
    BY <2>2 DEF HasInvoice, HasDistributor
  <2> QED
    BY <2>1, <2>2, <2>3, <1>0 DEF Control, Locks, HasNumber, HasPayment
<1>6. CASE InsertPayment(s)
  <2>1. req[s] \in TopUpReqs \cup PayReqs \cup CreateReqs
    BY <1>6 DEF InsertPayment, Control
  <2>2. /\ req'[s] = req[s] /\ held'[s] = held[s] \cup {<<"payment", no[s]>>}
        /\ bal'[s] = bal[s] /\ no'[s] = no[s]
        /\ invoice' = invoice /\ balance' = balance /\ payment' = payment
        /\ payment[no[s]].status = "none" /\ Payer(s)' = Payer(s)
        /\ pc[s] = "insert"
        /\ pc'[s] = IF req[s].op = "createPayment" THEN "reference" ELSE "commit"
    BY <1>6 DEF InsertPayment, Lock, Goto, TypeOK, db, Payer
  <2>3. req[s].op = "createPayment" <=> req[s] \in CreateReqs
    BY ReqTypes
  <2>4. /\ HasInvoice(s)' = HasInvoice(s)
        /\ HasDistributor(s)' = HasDistributor(s)
    BY <2>1, <2>2, <2>3, <1>0 DEF HasInvoice, HasDistributor
  <2>5. ~HasPayment(s)'
    BY <2>1, <2>2, <1>0 DEF HasPayment
  <2> QED
    BY <2>1, <2>2, <2>3, <2>4, <2>5, <1>0 DEF Control, Locks
<1>7. CASE PlacePayment(s)
  <2>1. req[s] \in CreateReqs
    BY <1>7 DEF PlacePayment, Control
  <2>2. /\ req'[s] = req[s] /\ held[s] \subseteq held'[s] /\ no'[s] = no[s]
        /\ invoice' = invoice /\ payment' = payment
        /\ pc[s] = "reference" /\ pc'[s] = "commit"
    BY <1>7 DEF PlacePayment, Lock, Goto, TypeOK, db
  <2> QED
    BY <2>1, <2>2, <1>0 DEF Control, Locks, HasInvoice, HasDistributor, HasNumber, HasPayment
<1>8. CASE LockPayment(s)
  <2>1. req[s] \in CallbackReqs /\ req[s].no \in PaymentNos
    BY <1>8 DEF LockPayment, Control, CallbackReqs
  <2>2. /\ req'[s] = req[s] /\ held'[s] = held[s] \cup {<<"payment", req[s].no>>}
        /\ payment' = payment /\ pc[s] = "payment" /\ pc'[s] = "dedup"
        /\ payment[req[s].no].inv # Nobody /\ payment[req[s].no].status # "completed"
    BY <1>8 DEF LockPayment, Lock, Goto, TypeOK, db
  <2>3. payment[req[s].no].inv \in Invoices
    BY <2>1, <2>2 DEF TypeOK, Payments
  <2>4. held[s] = {}
    BY <2>2 DEF Locks
  <2> QED
    BY <2>1, <2>2, <2>3, <2>4, <1>0 DEF Control, Locks, HasInvoice, HasDistributor, HasNumber, HasPayment
<1>9. CASE TradeSeen(s) \/ TradeNew(s)
  <2>1. req[s] \in CallbackReqs
    BY <1>9 DEF TradeSeen, TradeNew, Control
  <2>2. /\ req'[s] = req[s] /\ held'[s] = held[s] /\ payment' = payment
        /\ pc[s] = "dedup" /\ pc'[s] \in {"commitDuplicate", "settle"}
    BY <1>9 DEF TradeSeen, TradeNew, Goto, TypeOK, db
  <2> QED
    BY <2>1, <2>2, <1>0 DEF Control, Locks, HasInvoice, HasDistributor, HasNumber, HasPayment
<1>10. CASE SettleInvoice(s)
  <2>1. req[s] \in CallbackReqs
    BY <1>10 DEF SettleInvoice, Control
  <2>2. /\ req'[s] = req[s] /\ payment' = payment
        /\ held'[s] = held[s] \cup {<<"invoice", payment[req[s].no].inv>>}
        /\ pc[s] = "settle" /\ pc'[s] = "commit"
    BY <1>10 DEF SettleInvoice, Lock, Goto, TypeOK, db
  <2> QED
    BY <2>1, <2>2, <1>0 DEF Control, Locks, HasInvoice, HasDistributor, HasNumber, HasPayment
<1>11. CASE \/ CommitTopUp(s) \/ CommitPayByBalance(s) \/ CommitCreatePayment(s)
            \/ CommitCallback(s) \/ CommitDuplicate(s) \/ CallbackDuplicate(s)
  BY <1>11, ReleaseMine, IdleKnows
     DEF CommitTopUp, CommitPayByBalance, CommitCreatePayment, CommitCallback,
         CommitDuplicate, CallbackDuplicate
<1> QED
  BY <1>1, <1>2, <1>3, <1>4, <1>5, <1>6, <1>7, <1>8, <1>9, <1>10, <1>11
     DEF Statement, RefuseInvoice, InsufficientBalance, NumberTaken, LogRefused,
         CallbackRejected, AmountMismatch, DeadlockVictim

\* No two sessions ever hold the same FOR UPDATE lock, or the same payment
\* number: a row is granted only while nobody else holds it, and a number only
\* while no other session has an uncommitted payment under it.
LEMMA ExclusiveKeeps ==
  ASSUME IInv, NEW s \in Sessions, Request(s) \/ Statement(s)
  PROVE  Exclusive'
<1> USE DEF IInv
<1>1. OnlyMine(s)
  BY Footprint
<1>2. ASSUME \A row \in held'[s] : \/ row \in held[s] \/ row[1] = "reference"
                                   \/ \A t \in Sessions \ {s} : row \notin held[t]
      PROVE  Exclusive'
  BY <1>1, <1>2 DEF OnlyMine, Exclusive
<1>3. CASE held'[s] \subseteq held[s]
  BY <1>3, <1>2
<1>4. ASSUME NEW row, Lock(s, row),
             row[1] = "reference" \/ \A t \in Sessions \ {s} : row \notin held[t]
      PROVE  Exclusive'
  BY <1>4, <1>2 DEF Lock, TypeOK
<1>5. CASE LockInvoice(s)
  BY <1>5, <1>4, GrantedFree DEF LockInvoice, Lock
<1>6. CASE LockDistributor(s)
  BY <1>6, <1>4, GrantedFree DEF LockDistributor, Lock
<1>7. CASE InsertPayment(s)
  <2>1. Lock(s, <<"payment", no[s]>>) /\ pc[s] = "insert" /\ payment[no[s]].status = "none"
    BY <1>7 DEF InsertPayment
  <2>2. ASSUME NEW t \in Sessions \ {s}, <<"payment", no[s]>> \in held[t] PROVE FALSE
    <3>1. ~Written(no[s])
      BY <2>1, <2>2, GrantedFree DEF Lock
    <3>2. pc[t] = "dedup"
      BY <2>2, <3>1 DEF Written
    <3>3. held[t] = {<<"payment", req[t].no>>} /\ HasPayment(t) /\ req[t] \in CallbackReqs
      BY <3>2 DEF Locks, HasPayment, Control
    <3>4. req[t].no = no[s] /\ req[t].no \in PaymentNos
      BY <2>2, <3>3 DEF CallbackReqs
    <3>5. payment[no[s]].inv \in Invoices
      BY <3>3, <3>4 DEF Locks
    <3> QED BY <2>1, <3>4, <3>5 DEF AbsentIsEmpty
  <2> QED BY <2>1, <2>2, <1>4
<1>8. CASE PlacePayment(s)
  <2>1. Lock(s, <<"reference", Payer(s)>>)
    BY <1>8 DEF PlacePayment
  <2> QED BY <2>1, <1>4
<1>9. CASE LockPayment(s)
  BY <1>9, <1>4, GrantedFree DEF LockPayment, Lock
<1>10. CASE SettleInvoice(s)
  BY <1>10, <1>4, GrantedFree DEF SettleInvoice, Lock
<1>11. CASE Request(s) \/ TakeNumber(s) \/ TradeSeen(s) \/ TradeNew(s)
  <2>1. held' = held
    BY <1>11 DEF Request, StartTopUp, StartPayByBalance, StartCreatePayment, StartCallback, Start,
                 TakeNumber, TradeSeen, TradeNew
  <2> QED BY <2>1, <1>3
<1>12. CASE Release(s)
  BY <1>12, <1>3, ReleaseMine
<1> QED
  BY <1>5, <1>6, <1>7, <1>8, <1>9, <1>10, <1>11, <1>12
     DEF Request, Statement, RefuseInvoice, InsufficientBalance, NumberTaken, LogRefused,
         CallbackRejected, AmountMismatch, DeadlockVictim, Rollback, CommitTopUp,
         CommitPayByBalance, CommitCreatePayment, CommitCallback, CommitDuplicate, CallbackDuplicate

-------------------------------------------------------------------------------
\* The steps that change what is committed.
Commits(s) == \/ CommitTopUp(s) \/ CommitPayByBalance(s) \/ CommitCreatePayment(s)
              \/ CommitCallback(s) \/ CommitDuplicate(s)

LEMMA Effects ==
  ASSUME [Next]_vars
  PROVE  \/ UNCHANGED db
         \/ \E s \in Sessions : Commits(s)
         \/ \E i \in Invoices : MarkOverdue(i)
<1>1. ASSUME NEW s \in Sessions, Request(s) \/ Statement(s)
      PROVE  UNCHANGED db \/ Commits(s)
  BY <1>1
     DEF Request, StartTopUp, StartPayByBalance, StartCreatePayment, StartCallback, Start, Statement,
         RefuseInvoice, InsufficientBalance, NumberTaken, LogRefused, CallbackRejected,
         AmountMismatch, DeadlockVictim, Rollback, LockInvoice, LockDistributor, TakeNumber,
         InsertPayment, PlacePayment, CallbackDuplicate, LockPayment, TradeSeen, TradeNew,
         SettleInvoice, Commits
<1> QED
  BY <1>1 DEF Next, CustomerPays, Crash, vars

\* What a commit writes, as its session knows it: enough for everything below.
LEMMA TopUpWrites ==
  ASSUME IInv, NEW s \in Sessions, CommitTopUp(s)
  PROVE  /\ req[s] \in TopUpReqs /\ Payer(s) \in Distributors /\ no[s] \in PaymentNos
         /\ balance' = [balance EXCEPT ![Payer(s)] = @ + req[s].amount]
         /\ payment[no[s]].status = "none"
         /\ payment' = [payment EXCEPT ![no[s]] = Inserted(s)]
         /\ Inserted(s).inv = Nobody /\ Inserted(s).method = "transfer"
         /\ Inserted(s).status = "completed"
         /\ invoice' = invoice
<1>1. req[s] \in TopUpReqs
  BY ReqTypes DEF CommitTopUp, IInv
<1>2. bal[s] = balance[Payer(s)] /\ payment[no[s]].status = "none"
  BY <1>1 DEF CommitTopUp, IInv, Locks, HasDistributor, HasNumber, TopUpReqs, CallbackReqs
<1>3. Payer(s) \in Distributors /\ no[s] \in PaymentNos
  BY <1>1, InsertedType DEF IInv, TypeOK
<1> QED
  BY <1>1, <1>2, <1>3 DEF CommitTopUp, NewBalance, Inserted, Method, IInv, TypeOK

LEMMA BalancePaymentWrites ==
  ASSUME IInv, NEW s \in Sessions, CommitPayByBalance(s)
  PROVE  /\ req[s] \in PayReqs /\ req[s].inv \in Invoices /\ no[s] \in PaymentNos
         /\ invoice[req[s].inv] = "unpaid"
         /\ invoice' = [invoice EXCEPT ![req[s].inv] = "paid"]
         /\ balance[OwnerOf[req[s].inv]] >= TotalOf[req[s].inv]
         /\ balance' = [balance EXCEPT ![OwnerOf[req[s].inv]] = @ - TotalOf[req[s].inv]]
         /\ payment[no[s]].status = "none"
         /\ payment' = [payment EXCEPT ![no[s]] = Inserted(s)]
         /\ Inserted(s).inv = req[s].inv /\ Inserted(s).method = "balance"
         /\ Inserted(s).amount = TotalOf[req[s].inv] /\ Inserted(s).status = "completed"
<1>1. req[s] \in PayReqs
  BY ReqTypes DEF CommitPayByBalance, IInv
<1>2. /\ bal[s] = balance[Payer(s)] /\ payment[no[s]].status = "none"
      /\ bal[s] >= TotalOf[req[s].inv] /\ invoice[req[s].inv] = "unpaid"
  BY <1>1 DEF CommitPayByBalance, IInv, Locks, HasDistributor, HasNumber, HasInvoice,
              PayReqs, CallbackReqs
<1>3. req[s].inv \in Invoices /\ no[s] \in PaymentNos /\ Payer(s) = OwnerOf[req[s].inv]
  BY <1>1 DEF IInv, TypeOK, PayReqs, Payer
<1> QED
  BY <1>1, <1>2, <1>3 DEF CommitPayByBalance, NewBalance, Inserted, Method, PayReqs, IInv, TypeOK

LEMMA CreationWrites ==
  ASSUME IInv, NEW s \in Sessions, CommitCreatePayment(s)
  PROVE  /\ req[s].inv \in Invoices /\ no[s] \in PaymentNos
         /\ payment[no[s]].status = "none"
         /\ payment' = [payment EXCEPT ![no[s]] = Inserted(s)]
         /\ Inserted(s).inv = req[s].inv /\ Inserted(s).method = "gateway"
         /\ Inserted(s).amount = TotalOf[req[s].inv] /\ Inserted(s).status = "pending"
         /\ invoice' = invoice /\ balance' = balance
<1>1. req[s] \in CreateReqs
  BY ReqTypes DEF CommitCreatePayment, IInv
<1>2. payment[no[s]].status = "none"
  BY <1>1 DEF CommitCreatePayment, IInv, Locks, HasNumber, CreateReqs, CallbackReqs
<1>3. req[s].inv \in Invoices /\ no[s] \in PaymentNos
  BY <1>1 DEF IInv, TypeOK, CreateReqs
<1> QED
  BY <1>2, <1>3 DEF CommitCreatePayment, Inserted, Method

\* The number a callback credits, and the trade it credits it with.
LEMMA CreditWrites ==
  ASSUME IInv, NEW s \in Sessions, CommitCallback(s) \/ CommitDuplicate(s)
  PROVE  /\ req[s].no \in PaymentNos
         /\ payment[req[s].no].inv \in Invoices
         /\ payment[req[s].no].status # "completed"
         /\ \E t \in Trades \cup {Nobody} : Credit(req[s].no, t)
         /\ balance' = balance
         /\ \/ invoice' = invoice
            \/ invoice' = [invoice EXCEPT ![payment[req[s].no].inv] = "paid"]
<1>1. req[s] \in CallbackReqs /\ HasPayment(s)
  BY ReqTypes DEF CommitCallback, CommitDuplicate, IInv, Control, HasPayment
<1>2. /\ req[s].no \in PaymentNos /\ req[s].trade \in Trades \cup {Nobody}
      /\ payment[req[s].no].inv \in Invoices /\ payment[req[s].no].status # "completed"
  BY <1>1 DEF CallbackReqs, IInv, Locks
<1>3. payment[req[s].no].trade \in Trades \cup {Nobody}
  BY <1>2 DEF IInv, TypeOK, Payments
<1> QED
  BY <1>2, <1>3 DEF CommitCallback, CommitDuplicate

-------------------------------------------------------------------------------
\* The invariant is inductive.
LEMMA EmptyStep == IInv /\ [Next]_vars => AbsentIsEmpty'
<1> SUFFICES ASSUME IInv, [Next]_vars PROVE AbsentIsEmpty'
  OBVIOUS
<1>1. CASE UNCHANGED payment
  BY <1>1 DEF AbsentIsEmpty, IInv
<1>2. ASSUME NEW n \in PaymentNos, NEW row, row.status # "none",
             payment' = [payment EXCEPT ![n] = row]
      PROVE  AbsentIsEmpty'
  BY <1>2 DEF AbsentIsEmpty, IInv, TypeOK
<1>3. ASSUME NEW s \in Sessions, Commits(s) PROVE AbsentIsEmpty'
  <2>1. CASE CommitTopUp(s) BY <2>1, <1>2, TopUpWrites
  <2>2. CASE CommitPayByBalance(s) BY <2>2, <1>2, BalancePaymentWrites
  <2>3. CASE CommitCreatePayment(s) BY <2>3, <1>2, CreationWrites
  <2>4. CASE CommitCallback(s) \/ CommitDuplicate(s)
    <3>1. PICK t \in Trades \cup {Nobody} : Credit(req[s].no, t)
      BY <2>4, CreditWrites
    <3>2. \A n \in PaymentNos : n # req[s].no => payment'[n] = payment[n]
      BY <3>1 DEF Credit, IInv, TypeOK
    <3>3. req[s].no \in PaymentNos => payment'[req[s].no].status = "completed"
      BY <3>1 DEF Credit, IInv, TypeOK
    <3> QED BY <3>2, <3>3, <2>4, CreditWrites DEF AbsentIsEmpty, IInv
  <2> QED BY <1>3, <2>1, <2>2, <2>3, <2>4 DEF Commits
<1> QED BY <1>1, <1>3, Effects DEF MarkOverdue, db

LEMMA IInvStep == IInv /\ [Next]_vars => IInv'
<1> SUFFICES ASSUME IInv, [Next]_vars PROVE IInv'
  OBVIOUS
<1>1. TypeOK' /\ AbsentIsEmpty'
  BY TypeStep, EmptyStep
<1>2. ASSUME NEW s \in Sessions, Request(s) \/ Statement(s) PROVE IInv'
  <2>1. Control(s)' /\ Locks(s)' /\ Exclusive'
    BY <1>2, MineKeeps, ExclusiveKeeps
  <2>2. \A t \in Sessions \ {s} : Control(t)' /\ Locks(t)'
    BY <1>2, Footprint, OthersKeep
  <2> QED BY <1>1, <2>1, <2>2 DEF IInv
<1>3. ASSUME UNCHANGED <<pc, req, bal, no, held, balance, payment>>,
             \A s \in Sessions : HasInvoice(s) => invoice'[req[s].inv] = invoice[req[s].inv]
      PROVE  IInv'
  <2>1. Exclusive' BY <1>3 DEF Exclusive, IInv
  <2>2. ASSUME NEW s \in Sessions PROVE Control(s)' /\ Locks(s)'
    <3>1. Control(s) /\ Locks(s) BY DEF IInv
    <3>2. /\ HasInvoice(s)' = HasInvoice(s) /\ HasDistributor(s)' = HasDistributor(s)
          /\ HasNumber(s)' = HasNumber(s) /\ HasPayment(s)' = HasPayment(s)
          /\ Payer(s)' = Payer(s)
      BY <1>3 DEF HasInvoice, HasDistributor, HasNumber, HasPayment, Payer
    <3> QED BY <1>3, <3>1, <3>2 DEF Control, Locks
  <2> QED BY <1>1, <2>1, <2>2 DEF IInv
<1>4. ASSUME NEW n \in PaymentNos, NEW t \in Trades, CustomerPays(n, t) PROVE IInv'
  BY <1>4, <1>3 DEF CustomerPays, db, sess
<1>5. ASSUME NEW i \in Invoices, MarkOverdue(i) PROVE IInv'
  <2>1. \A s \in Sessions : HasInvoice(s) => req[s].inv # i
    BY <1>5 DEF MarkOverdue, IInv, Locks
  <2>2. \A s \in Sessions : HasInvoice(s) => req[s].inv \in Invoices
    BY DEF HasInvoice, PayReqs, CreateReqs
  <2> QED BY <1>5, <1>3, <2>1, <2>2 DEF MarkOverdue, sess, IInv, TypeOK
<1>6. CASE Crash
  <2>1. \A s \in Sessions : pc'[s] = "idle" /\ held'[s] = {}
    BY <1>6 DEF Crash
  <2>2. \A s \in Sessions : Control(s)' /\ Locks(s)'
    BY <2>1, IdleKnows
  <2> QED BY <1>1, <2>1, <2>2 DEF IInv, Exclusive
<1>7. CASE UNCHANGED vars
  BY <1>7, <1>3 DEF vars, db, sess
<1> QED BY <1>2, <1>4, <1>5, <1>6, <1>7 DEF Next

LEMMA Invariant == Spec => []IInv
  BY InitIInv, IInvStep, PTL DEF Spec

-------------------------------------------------------------------------------
\* Every variable keeps its type, and no distributor's balance is ever below
\* zero, however many sessions top up, pay and crash: payByBalance deducts what
\* it found under a lock nobody else can hold (balance_service.cc:186-219).
THEOREM TypeCorrect == Spec => []TypeOK
<1>1. IInv => TypeOK
  BY DEF IInv
<1> QED BY <1>1, Invariant, PTL

\* What paying for an invoice leaves behind.
Paid == /\ \A n \in PaymentNos : payment[n].method = "balance" =>
              payment[n].inv \in Invoices /\ invoice[payment[n].inv] = "paid"
        /\ \A n \in PaymentNos : payment[n].inv \in Invoices =>
              payment[n].amount = TotalOf[payment[n].inv]
        /\ PaidOnceFromBalance
        /\ PaidIsCovered

LEMMA InitPaid == Init => Paid
  BY DEF Init, Paid, PaidOnceFromBalance, PaidIsCovered, NoPayment, Completed

LEMMA PaidStep == IInv /\ Paid /\ [Next]_vars => Paid'
<1> SUFFICES ASSUME IInv, Paid, [Next]_vars PROVE Paid'
  OBVIOUS
<1> USE DEF Paid, PaidOnceFromBalance, PaidIsCovered, Completed
<1>0. payment \in [PaymentNos -> Payments] /\ invoice \in [Invoices -> InvoiceStatus]
  BY DEF IInv, TypeOK
<1>1. CASE UNCHANGED db
  BY <1>1 DEF db
<1>2. ASSUME NEW s \in Sessions, Commits(s) PROVE Paid'
  <2>1. CASE CommitTopUp(s)
    <3>1. /\ no[s] \in PaymentNos /\ payment[no[s]].status = "none"
          /\ payment' = [payment EXCEPT ![no[s]] = Inserted(s)] /\ invoice' = invoice
          /\ Inserted(s).inv = Nobody /\ Inserted(s).method = "transfer"
      BY <2>1, TopUpWrites
    <3>2. \A n \in PaymentNos : payment'[n] = IF n = no[s] THEN Inserted(s) ELSE payment[n]
      BY <3>1, <1>0
    <3> QED BY <3>1, <3>2
  <2>2. CASE CommitPayByBalance(s)
    <3> DEFINE i == req[s].inv
    <3>1. /\ i \in Invoices /\ no[s] \in PaymentNos /\ payment[no[s]].status = "none"
          /\ payment' = [payment EXCEPT ![no[s]] = Inserted(s)]
          /\ invoice[i] = "unpaid" /\ invoice' = [invoice EXCEPT ![i] = "paid"]
          /\ Inserted(s).inv = i /\ Inserted(s).method = "balance"
          /\ Inserted(s).amount = TotalOf[i] /\ Inserted(s).status = "completed"
      BY <2>2, BalancePaymentWrites
    <3>2. \A n \in PaymentNos : payment'[n] = IF n = no[s] THEN Inserted(s) ELSE payment[n]
      BY <3>1, <1>0
    <3>3. \A j \in Invoices : invoice'[j] = IF j = i THEN "paid" ELSE invoice[j]
      BY <3>1, <1>0
    <3> QED BY <3>1, <3>2, <3>3
  <2>3. CASE CommitCreatePayment(s)
    <3>1. /\ no[s] \in PaymentNos /\ payment[no[s]].status = "none"
          /\ payment' = [payment EXCEPT ![no[s]] = Inserted(s)] /\ invoice' = invoice
          /\ Inserted(s).inv = req[s].inv /\ Inserted(s).method = "gateway"
          /\ Inserted(s).amount = TotalOf[req[s].inv]
      BY <2>3, CreationWrites
    <3>2. \A n \in PaymentNos : payment'[n] = IF n = no[s] THEN Inserted(s) ELSE payment[n]
      BY <3>1, <1>0
    <3> QED BY <3>1, <3>2
  <2>4. CASE CommitCallback(s) \/ CommitDuplicate(s)
    <3> DEFINE m == req[s].no
    <3>1. /\ m \in PaymentNos /\ payment[m].inv \in Invoices
          /\ \/ invoice' = invoice
             \/ invoice' = [invoice EXCEPT ![payment[m].inv] = "paid"]
      BY <2>4, CreditWrites
    <3>2. PICK t \in Trades \cup {Nobody} : Credit(m, t)
      BY <2>4, CreditWrites
    <3>3. \A n \in PaymentNos : /\ payment'[n].method = payment[n].method
                                /\ payment'[n].inv = payment[n].inv
                                /\ payment'[n].amount = payment[n].amount
                                /\ payment[n].status = "completed" => payment'[n].status = "completed"
      BY <3>2, <1>0 DEF Credit
    <3>4. payment'[m].status = "completed"
      BY <3>1, <3>2, <1>0 DEF Credit
    <3>5. \A j \in Invoices : /\ invoice[j] = "paid" => invoice'[j] = "paid"
                              /\ invoice'[j] = "paid" => invoice[j] = "paid" \/ j = payment[m].inv
      BY <3>1, <1>0
    <3> HIDE DEF m
    <3>6. PaidIsCovered'
      <4> SUFFICES ASSUME NEW j \in Invoices, invoice'[j] = "paid"
                   PROVE  \E n \in PaymentNos : /\ payment'[n].status = "completed"
                                                /\ payment'[n].inv = j
                                                /\ payment'[n].amount = TotalOf[j]
        OBVIOUS
      <4>1. CASE j = payment[m].inv
        BY <4>1, <3>1, <3>3, <3>4
      <4>2. CASE invoice[j] = "paid"
        <5>1. PICK n \in PaymentNos : /\ payment[n].status = "completed"
                                      /\ payment[n].inv = j /\ payment[n].amount = TotalOf[j]
          BY <4>2
        <5> QED BY <5>1, <3>3
      <4> QED BY <4>1, <4>2, <3>5
    <3> QED BY <3>3, <3>5, <3>6
  <2> QED BY <1>2, <2>1, <2>2, <2>3, <2>4 DEF Commits
<1>3. ASSUME NEW i \in Invoices, MarkOverdue(i) PROVE Paid'
  BY <1>3, <1>0 DEF MarkOverdue
<1> QED BY <1>1, <1>2, <1>3, Effects

\* Whoever races to pay it, no invoice is deducted from a balance twice.
THEOREM PaidOnce == Spec => []PaidOnceFromBalance
<1>1. Paid => PaidOnceFromBalance
  BY DEF Paid
<1> QED BY <1>1, InitPaid, PaidStep, Invariant, PTL DEF Spec

\* Behind every paid invoice stands a completed payment of its total.
THEOREM Covered == Spec => []PaidIsCovered
<1>1. Paid => PaidIsCovered
  BY DEF Paid
<1> QED BY <1>1, InitPaid, PaidStep, Invariant, PTL DEF Spec

-------------------------------------------------------------------------------
\* The books.

\* What payment n counts for in Moved.
Share(d, method, n) ==
    IF payment[n].method = method /\ payment[n].status = "completed" /\ payment[n].dist = d
    THEN payment[n].amount ELSE 0

\* Only gateway payments wait to be completed: what a callback completes is in
\* no distributor's balance.
Booked == /\ \A n \in PaymentNos : payment[n].method \in {"transfer", "balance"} => Completed(n)
          /\ BooksBalance

LEMMA MovedType ==
  ASSUME TypeOK, NEW d, NEW method
  PROVE  /\ Moved(d, method) = Total([n \in PaymentNos |-> Share(d, method, n)])
         /\ [n \in PaymentNos |-> Share(d, method, n)] \in [PaymentNos -> Int]
<1>1. \A n \in PaymentNos : Share(d, method, n) \in Int
  BY DEF Share, TypeOK, Payments
<1> QED BY <1>1 DEF Moved, Share

\* When one row of the payments table changes, a sum changes by its share.
LEMMA MovedChanges ==
  ASSUME TypeOK, TypeOK', NEW k \in PaymentNos, NEW d, NEW method,
         \A n \in PaymentNos \ {k} : payment'[n] = payment[n]
  PROVE  /\ Moved(d, method)' = Moved(d, method) + Share(d, method, k)' - Share(d, method, k)
         /\ Moved(d, method) \in Int
<1> DEFINE a == [n \in PaymentNos |-> Share(d, method, n)]
           b == [n \in PaymentNos |-> Share(d, method, n)']
<1>1. a \in [PaymentNos -> Int] /\ Moved(d, method) = Total(a)
  BY MovedType
<1>2. \A n \in PaymentNos : Share(d, method, n)' \in Int
  BY DEF Share, TypeOK, Payments
<1>3. b \in [PaymentNos -> Int] /\ Moved(d, method)' = Total(b)
  BY <1>2 DEF Moved, Share
<1>4. \A n \in PaymentNos \ {k} : b[n] = a[n]
  BY DEF Share
<1>5. Total(b) = Total(a) + b[k] - a[k] /\ Total(a) \in Int
  <2> HIDE DEF a, b
  <2> QED BY <1>1, <1>3, <1>4, TotalChanges
<1> QED BY <1>1, <1>3, <1>5

LEMMA InitBooked == Init => Booked
<1> SUFFICES ASSUME Init PROVE Booked
  OBVIOUS
<1>1. TypeOK
  BY InitIInv DEF IInv
<1> DEFINE zero == [n \in PaymentNos |-> 0]
<1>2. Total(zero) = 0
  <2>1. zero \in [PaymentNos -> Int]
    OBVIOUS
  <2> HIDE DEF zero
  <2>2. PICK g \in [PaymentNos -> Int] :
           (\A n \in PaymentNos : Sums(g, zero, n)) /\ Total(zero) = g[MaxPaymentNo]
    BY <2>1, TotalDef
  <2> DEFINE S == {n \in Nat : n <= MaxPaymentNo => g[n] = 0}
  <2>3. 0 \in S
    BY <2>2 DEF Sums, zero
  <2>4. ASSUME NEW n \in Nat, n \in S PROVE n + 1 \in S
    <3>1. n + 1 <= MaxPaymentNo => g[n + 1] = g[n]
      <4>1. (n + 1) - 1 = n /\ n + 1 # 0
        OBVIOUS
      <4>2. n + 1 <= MaxPaymentNo => zero[n + 1] = 0 /\ n \in PaymentNos /\ g[n] \in Int
        BY DEF zero
      <4> QED BY <2>2, <4>1, <4>2 DEF Sums
    <3> QED BY <2>4, <3>1
  <2>5. Nat \subseteq S
    <3> HIDE DEF S
    <3> QED BY <2>3, <2>4, Induct
  <2> QED BY <2>2, <2>5
<1>3. ASSUME NEW d, NEW method, method # "none" PROVE Moved(d, method) = 0
  <2>1. \A n \in PaymentNos : Share(d, method, n) = 0
    BY DEF Init, NoPayment, Share
  <2> QED BY <1>1, <1>2, <2>1, MovedType
<1>4. BooksBalance
  <2> SUFFICES ASSUME NEW d \in Distributors
               PROVE balance[d] = OpeningBalance[d] + Moved(d, "transfer") - Moved(d, "balance")
    BY DEF BooksBalance
  <2>1. Moved(d, "transfer") = 0 /\ Moved(d, "balance") = 0
    BY <1>3
  <2>2. balance[d] = OpeningBalance[d] /\ OpeningBalance[d] \in Nat
    BY DEF Init
  <2> QED BY <2>1, <2>2
<1>5. \A n \in PaymentNos : payment[n].method \in {"transfer", "balance"} => Completed(n)
  BY DEF Init, NoPayment, Completed
<1> QED BY <1>4, <1>5 DEF Booked

\* The share of the row a session inserts: its amount, to its payer's sum of
\* its own method, once it is completed.
LEMMA InsertedShare ==
  ASSUME TypeOK, TypeOK', NEW s \in Sessions, no[s] \in PaymentNos,
         payment[no[s]].status = "none",
         \A n \in PaymentNos : payment'[n] = IF n = no[s] THEN Inserted(s) ELSE payment[n],
         NEW d, NEW method
  PROVE  /\ Moved(d, method) \in Int
         /\ Moved(d, method)' = Moved(d, method) +
              (IF Inserted(s).method = method /\ Inserted(s).status = "completed" /\ Payer(s) = d
               THEN Inserted(s).amount ELSE 0)
<1>1. PICK k \in PaymentNos : k = no[s]
  OBVIOUS
<1>2. payment'[k] = Inserted(s) /\ \A n \in PaymentNos \ {k} : payment'[n] = payment[n]
  BY <1>1
<1>3. /\ Moved(d, method)' = Moved(d, method) + Share(d, method, k)' - Share(d, method, k)
      /\ Moved(d, method) \in Int
  BY <1>2, MovedChanges
<1>4. Share(d, method, k) = 0
  BY <1>1 DEF Share
<1>5. Share(d, method, k)' = IF Inserted(s).method = method /\ Inserted(s).status = "completed" /\ Payer(s) = d
                            THEN Inserted(s).amount ELSE 0
  BY <1>2 DEF Share, Inserted
<1>6. Share(d, method, k)' \in Int
  BY <1>2 DEF Share, TypeOK, Payments
<1> QED BY <1>3, <1>4, <1>5, <1>6

LEMMA BookedStep == IInv /\ Booked /\ [Next]_vars => Booked'
<1> SUFFICES ASSUME IInv, Booked, [Next]_vars PROVE Booked'
  OBVIOUS
<1> USE DEF Booked, BooksBalance, Completed
<1>0. TypeOK /\ TypeOK'
  BY TypeStep DEF IInv
<1>1. ASSUME UNCHANGED <<balance, payment>> PROVE Booked'
  BY <1>1 DEF Moved
<1>2. ASSUME NEW s \in Sessions, Commits(s) PROVE Booked'
  <2>1. CASE CommitTopUp(s)
    <3>1. /\ req[s] \in TopUpReqs /\ Payer(s) \in Distributors /\ no[s] \in PaymentNos
          /\ balance' = [balance EXCEPT ![Payer(s)] = @ + req[s].amount]
          /\ payment[no[s]].status = "none"
          /\ payment' = [payment EXCEPT ![no[s]] = Inserted(s)]
          /\ Inserted(s).method = "transfer" /\ Inserted(s).status = "completed"
      BY <2>1, TopUpWrites, <1>0 DEF IInv
    <3>a. \A n \in PaymentNos : payment'[n] = IF n = no[s] THEN Inserted(s) ELSE payment[n]
      BY <1>0, <3>1 DEF TypeOK
    <3>2. Inserted(s).amount = req[s].amount /\ req[s].amount \in Nat
      BY <3>1 DEF Inserted, TopUpReqs
    <3>3. ASSUME NEW d \in Distributors
          PROVE  balance'[d] = OpeningBalance[d] + Moved(d, "transfer")' - Moved(d, "balance")'
      <4>0. ASSUME NEW method
            PROVE  /\ Moved(d, method) \in Int
                   /\ Moved(d, method)' = Moved(d, method) +
                        (IF Inserted(s).method = method /\ Inserted(s).status = "completed" /\ Payer(s) = d
                         THEN Inserted(s).amount ELSE 0)
        BY <1>0, <3>1, <3>a, InsertedShare
      <4>1. /\ Moved(d, "transfer") \in Int /\ Moved(d, "balance") \in Int
            /\ Moved(d, "transfer")' = Moved(d, "transfer") + (IF Payer(s) = d THEN req[s].amount ELSE 0)
            /\ Moved(d, "balance")' = Moved(d, "balance") + 0
        BY <4>0, <3>1, <3>2
      <4>2. balance'[d] = balance[d] + (IF Payer(s) = d THEN req[s].amount ELSE 0)
        BY <1>0, <3>1, <3>2 DEF TypeOK
      <4>3. balance[d] = OpeningBalance[d] + Moved(d, "transfer") - Moved(d, "balance")
        OBVIOUS
      <4>4. OpeningBalance[d] \in Int
        OBVIOUS
      <4> HIDE DEF Booked, BooksBalance
      <4> QED BY <4>1, <4>2, <4>3, <4>4, <3>2
    <3> QED BY <3>1, <3>3, <3>a
  <2>2. CASE CommitPayByBalance(s)
    <3> DEFINE i == req[s].inv
    <3>1. /\ req[s] \in PayReqs /\ i \in Invoices /\ no[s] \in PaymentNos
          /\ balance' = [balance EXCEPT ![OwnerOf[i]] = @ - TotalOf[i]]
          /\ payment[no[s]].status = "none"
          /\ payment' = [payment EXCEPT ![no[s]] = Inserted(s)]
          /\ Inserted(s).method = "balance" /\ Inserted(s).status = "completed"
          /\ Inserted(s).amount = TotalOf[i]
      BY <2>2, BalancePaymentWrites, <1>0 DEF IInv
    <3>a. \A n \in PaymentNos : payment'[n] = IF n = no[s] THEN Inserted(s) ELSE payment[n]
      BY <1>0, <3>1 DEF TypeOK
    <3>2. Payer(s) = OwnerOf[i] /\ TotalOf[i] \in Nat /\ OwnerOf[i] \in Distributors
      BY <3>1 DEF Payer, PayReqs
    <3> HIDE DEF i
    <3>3. ASSUME NEW d \in Distributors
          PROVE  balance'[d] = OpeningBalance[d] + Moved(d, "transfer")' - Moved(d, "balance")'
      <4>1. /\ Moved(d, "transfer") \in Int /\ Moved(d, "balance") \in Int
            /\ Moved(d, "transfer")' = Moved(d, "transfer") + 0
            /\ Moved(d, "balance")' = Moved(d, "balance") + (IF OwnerOf[i] = d THEN TotalOf[i] ELSE 0)
        BY <1>0, <3>1, <3>2, <3>a, InsertedShare
      <4>2. balance'[d] = balance[d] - (IF OwnerOf[i] = d THEN TotalOf[i] ELSE 0)
        BY <1>0, <3>1, <3>2 DEF TypeOK
      <4>3. balance[d] = OpeningBalance[d] + Moved(d, "transfer") - Moved(d, "balance")
        OBVIOUS
      <4>4. OpeningBalance[d] \in Int
        OBVIOUS
      <4> HIDE DEF Booked, BooksBalance
      <4> QED BY <4>1, <4>2, <4>3, <4>4, <3>2
    <3> QED BY <3>1, <3>3, <3>a
  <2>3. CASE CommitCreatePayment(s)
    <3>1. /\ no[s] \in PaymentNos /\ payment[no[s]].status = "none"
          /\ payment' = [payment EXCEPT ![no[s]] = Inserted(s)]
          /\ Inserted(s).method = "gateway" /\ balance' = balance
      BY <2>3, CreationWrites
    <3>a. \A n \in PaymentNos : payment'[n] = IF n = no[s] THEN Inserted(s) ELSE payment[n]
      BY <1>0, <3>1 DEF TypeOK
    <3>2. ASSUME NEW d \in Distributors
          PROVE  /\ Moved(d, "transfer")' = Moved(d, "transfer")
                 /\ Moved(d, "balance")' = Moved(d, "balance")
      BY <1>0, <3>1, <3>a, InsertedShare
    <3> QED BY <3>1, <3>2, <3>a
  <2>4. CASE CommitCallback(s) \/ CommitDuplicate(s)
    <3>1. PICK k \in PaymentNos : k = req[s].no
      BY <2>4, CreditWrites
    <3>2. PICK t \in Trades \cup {Nobody} : Credit(k, t)
      BY <2>4, <3>1, CreditWrites
    <3>3. payment[k].status # "completed" /\ balance' = balance
      BY <2>4, <3>1, CreditWrites
    <3>4. payment[k].method \notin {"transfer", "balance"}
      BY <3>3
    <3>5. /\ \A n \in PaymentNos \ {k} : payment'[n] = payment[n]
          /\ payment'[k].method = payment[k].method
      BY <1>0, <3>2 DEF Credit, TypeOK
    <3>6. ASSUME NEW d \in Distributors, NEW method \in {"transfer", "balance"}
          PROVE  Moved(d, method)' = Moved(d, method)
      <4>1. /\ Moved(d, method)' = Moved(d, method) + Share(d, method, k)' - Share(d, method, k)
            /\ Moved(d, method) \in Int
        BY <1>0, <3>5, MovedChanges
      <4>2. Share(d, method, k)' = 0 /\ Share(d, method, k) = 0
        BY <3>4, <3>5 DEF Share
      <4> QED BY <4>1, <4>2
    <3> QED BY <3>3, <3>4, <3>5, <3>6
  <2> QED BY <1>2, <2>1, <2>2, <2>3, <2>4 DEF Commits
<1>3. ASSUME NEW i \in Invoices, MarkOverdue(i) PROVE Booked'
  BY <1>1, <1>3 DEF MarkOverdue
<1> QED BY <1>1, <1>2, <1>3, Effects DEF db

\* Every balance is its opening balance, plus the top-ups the payments table
\* holds, less the invoices it says were paid out of it: the absolute value
\* each transaction writes is computed from what it read under the row's lock,
\* so no concurrent top-up or payment is lost (balance_service.cc:108-119,
\* invoice_service.cc:679-708).
THEOREM Balanced == Spec => []BooksBalance
<1>1. Booked => BooksBalance
  BY DEF Booked
<1> QED BY <1>1, InitBooked, BookedStep, Invariant, PTL DEF Spec

-------------------------------------------------------------------------------
\* What is paid and completed stays so.
Keeps == /\ \A i \in Invoices : invoice[i] = "paid" => invoice'[i] = "paid"
         /\ \A n \in PaymentNos : Completed(n) => payment'[n] = payment[n]

LEMMA SettledKept == ASSUME IInv, [Next]_vars PROVE Keeps
<1> USE DEF Completed, Keeps
<1>1. CASE UNCHANGED db
  BY <1>1 DEF db
<1>2. ASSUME NEW s \in Sessions, Commits(s) PROVE Keeps
  <2>1. CASE CommitTopUp(s) BY <2>1, TopUpWrites DEF IInv, TypeOK
  <2>2. CASE CommitPayByBalance(s) BY <2>2, BalancePaymentWrites DEF IInv, TypeOK
  <2>3. CASE CommitCreatePayment(s) BY <2>3, CreationWrites DEF IInv, TypeOK
  <2>4. CASE CommitCallback(s) \/ CommitDuplicate(s)
    BY <2>4, CreditWrites DEF Credit, IInv, TypeOK
  <2> QED BY <1>2, <2>1, <2>2, <2>3, <2>4 DEF Commits
<1>3. ASSUME NEW i \in Invoices, MarkOverdue(i) PROVE Keeps
  BY <1>3 DEF MarkOverdue, IInv, TypeOK
<1> QED BY <1>1, <1>2, <1>3, Effects

\* No step un-pays an invoice or rewrites a completed payment.
THEOREM Final == Spec => SettledIsFinal
<1>1. IInv /\ [Next]_vars => [Keeps]_vars
  BY SettledKept
<1> QED BY <1>1, Invariant, PTL DEF Spec, SettledIsFinal, Keeps

-------------------------------------------------------------------------------
\* The gateway.

\* The customer has paid an order if and only if it has a trade.
TradesPaid == \A n \in PaymentNos : charge[n].trade # Nobody <=> charge[n].state = "paid"

\* A notification of success is about a paid order and carries its trade; one
\* that has its payment is of success, and a trade it has seen before is that of
\* another completed payment.
Told(s) ==
    /\ req[s] \in CallbackReqs /\ req[s].success =>
          charge[req[s].no].state = "paid" /\ charge[req[s].no].trade = req[s].trade
    /\ HasPayment(s) => req[s].success
    /\ pc[s] = "commitDuplicate" =>
          \E m \in PaymentNos \ {req[s].no} : Settling(m) /\ payment[m].trade = req[s].trade

\* Past the precreate, which is not taken back before the COMMIT unless the
\* process dies.
Placing(s) == pc[s] = "commit" /\ req[s] \in CreateReqs

\* While no process has died, each order at the gateway is that of one payment.
Ordered ==
    /\ \A n \in PaymentNos : charge[n].state # "none" =>
          payment[n].status # "none" \/ \E s \in Sessions : Placing(s) /\ no[s] = n
    /\ \A n \in PaymentNos : payment[n].status # "none" /\ payment[n].method = "gateway" =>
          charge[n].state # "none" /\ charge[n].inv = payment[n].inv
    /\ \A s \in Sessions : Placing(s) =>
          charge[no[s]].state # "none" /\ charge[no[s]].inv = req[s].inv

Agreement ==
    /\ TradesPaid
    /\ \A s \in Sessions : Told(s)
    /\ CompletedSettles
    /\ crashes = 0 => Ordered /\ AckedIsCompleted /\ SettledWasCharged

\* What a step does to the orders at the gateway.
LEMMA OrdersStep ==
  ASSUME [Next]_vars
  PROVE  \/ charge' = charge
         \/ \E s \in Sessions : PlacePayment(s)
         \/ \E n \in PaymentNos, t \in Trades : CustomerPays(n, t)
BY DEF Next, Request, Statement, StartTopUp, StartPayByBalance, StartCreatePayment, StartCallback, Start,
       RefuseInvoice, InsufficientBalance, NumberTaken, LogRefused, CallbackRejected,
       AmountMismatch, DeadlockVictim, Rollback, LockInvoice, LockDistributor, TakeNumber,
       InsertPayment, CallbackDuplicate, LockPayment, TradeSeen, TradeNew, SettleInvoice,
       CommitTopUp, CommitPayByBalance, CommitCreatePayment, CommitCallback, CommitDuplicate,
       MarkOverdue, Crash, vars, gw

\* Trades come with the customer's payment, and a paid order is left alone.
LEMMA PaidKept ==
  ASSUME IInv, TradesPaid, [Next]_vars
  PROVE  /\ TradesPaid'
         /\ \A n \in PaymentNos : charge[n].state = "paid" => charge'[n] = charge[n]
<1>0. charge \in [PaymentNos -> Charges] /\ no \in [Sessions -> PaymentNos]
  BY DEF IInv, TypeOK
<1>1. CASE charge' = charge
  BY <1>1 DEF TradesPaid
<1>2. ASSUME NEW s \in Sessions, PlacePayment(s)
      PROVE  /\ TradesPaid'
             /\ \A n \in PaymentNos : charge[n].state = "paid" => charge'[n] = charge[n]
  BY <1>0, <1>2 DEF PlacePayment, Precreate, TradesPaid
<1>3. ASSUME NEW m \in PaymentNos, NEW t \in Trades, CustomerPays(m, t)
      PROVE  /\ TradesPaid'
             /\ \A n \in PaymentNos : charge[n].state = "paid" => charge'[n] = charge[n]
  BY <1>0, <1>3 DEF CustomerPays, TradesPaid
<1> QED BY <1>1, <1>2, <1>3, OrdersStep

\* What a session knows of the gateway and of completed payments stays true.
LEMMA OthersTold ==
  ASSUME IInv, TradesPaid, NEW t \in Sessions, Told(t), [Next]_vars,
         pc'[t] = pc[t], req'[t] = req[t]
  PROVE  Told(t)'
<1>1. HasPayment(t)' = HasPayment(t)
  BY DEF HasPayment
<1>2. req[t] \in CallbackReqs => req[t].no \in PaymentNos
  BY DEF CallbackReqs
<1>3. \A m \in PaymentNos : Settling(m) => Settling(m)' /\ payment'[m].trade = payment[m].trade
  BY SettledKept DEF Keeps, Settling, Completed
<1> QED BY <1>1, <1>2, <1>3, PaidKept DEF Told

\* A session that is over, or has begun another request, knows nothing.
LEMMA IdleTold ==
  ASSUME NEW s \in Sessions, pc'[s] = "idle", req'[s] = NoReq
  PROVE  Told(s)'
<1>1. NoReq \notin CallbackReqs
  BY DEF NoReq, CallbackReqs
<1> QED BY <1>1 DEF Told, HasPayment

LEMMA MineTold ==
  ASSUME IInv, TradesPaid, NEW s \in Sessions, Told(s), Request(s) \/ Statement(s), [Next]_vars
  PROVE  Told(s)'
<1> USE DEF IInv
<1>1. CASE Request(s)
  <2>1. ASSUME NEW r, NEW l, Start(s, r, l) PROVE pc'[s] = l /\ req'[s] = r /\ charge' = charge
    BY <2>1 DEF Start, Goto, TypeOK, gw
  <2>2. ASSUME NEW n \in PaymentNos, StartCallback(s, n) PROVE Told(s)'
    <3>1. PICK b \in BOOLEAN : Start(s, Notification(n, b), "payment") /\ (b => charge[n].state = "paid")
      BY <2>2 DEF StartCallback
    <3>2. pc'[s] = "payment" /\ req'[s] = Notification(n, b) /\ charge' = charge
      BY <2>1, <3>1
    <3> QED BY <3>1, <3>2 DEF Told, HasPayment, Notification
  <2>3. ASSUME NEW r \in TopUpReqs \cup PayReqs \cup CreateReqs, NEW l \in {"distributor", "invoice"},
               Start(s, r, l)
        PROVE  Told(s)'
    <3>1. pc'[s] = l /\ req'[s] = r
      BY <2>1, <2>3
    <3>2. r \notin CallbackReqs
      BY DEF TopUpReqs, PayReqs, CreateReqs, CallbackReqs
    <3> QED BY <3>1, <3>2 DEF Told, HasPayment
  <2> QED BY <1>1, <2>2, <2>3 DEF Request, StartTopUp, StartPayByBalance, StartCreatePayment
<1>2. CASE Release(s)
  BY <1>2, ReleaseMine, IdleTold
<1>3. ASSUME req' = req, charge' = charge, pc'[s] # "commitDuplicate", HasPayment(s)' => HasPayment(s)
      PROVE  Told(s)'
  BY <1>3 DEF Told
<1>4. CASE LockInvoice(s) \/ LockDistributor(s) \/ TakeNumber(s) \/ InsertPayment(s)
  <2>1. /\ req' = req /\ charge' = charge /\ req[s] \notin CallbackReqs
        /\ pc'[s] \in {"distributor", "number", "insert", "reference", "commit"}
    BY <1>4 DEF LockInvoice, LockDistributor, TakeNumber, InsertPayment, Goto, TypeOK, gw, Control,
                TopUpReqs, PayReqs, CreateReqs, CallbackReqs
  <2> QED BY <2>1, <1>3 DEF HasPayment
<1>5. CASE PlacePayment(s)
  <2>1. req' = req /\ req[s] \notin CallbackReqs /\ pc'[s] = "commit"
    BY <1>5 DEF PlacePayment, Goto, TypeOK, Control, CreateReqs, CallbackReqs
  <2> QED BY <2>1 DEF Told, HasPayment
<1>6. CASE LockPayment(s)
  <2>1. req' = req /\ charge' = charge /\ pc'[s] = "dedup" /\ req[s].success
    BY <1>6 DEF LockPayment, Approved, Goto, TypeOK, gw
  <2> QED BY <2>1 DEF Told
<1>7. CASE TradeNew(s) \/ SettleInvoice(s)
  <2>1. /\ req' = req /\ charge' = charge /\ pc'[s] \in {"settle", "commit"} /\ HasPayment(s)
    BY <1>7 DEF TradeNew, SettleInvoice, HasPayment, Goto, TypeOK, gw
  <2> QED BY <2>1, <1>3
<1>8. CASE TradeSeen(s)
  <2>1. /\ req' = req /\ charge' = charge /\ payment' = payment /\ HasPayment(s)
        /\ pc[s] = "dedup" /\ req[s] \in CallbackReqs /\ SameTrade(s) # {}
    BY <1>8 DEF TradeSeen, HasPayment, Control, db
  <2>2. charge[req[s].no].state = "paid" /\ charge[req[s].no].trade = req[s].trade
    BY <2>1 DEF Told
  <2>3. req[s].no \in PaymentNos /\ req[s].trade # Nobody
    BY <2>1, <2>2 DEF TradesPaid, CallbackReqs
  <2>4. PICK m \in PaymentNos : payment[m].status = "completed" /\ payment[m].trade = req[s].trade
    BY <2>1 DEF SameTrade
  <2>5. m # req[s].no /\ Settling(m)
    BY <2>1, <2>3, <2>4 DEF Locks, Settling, Completed
  <2>6. m \in PaymentNos \ {req[s].no} /\ Settling(m)' /\ payment'[m].trade = req'[s].trade
    BY <2>1, <2>4, <2>5 DEF Settling, Completed
  <2> QED BY <2>1, <2>6 DEF Told
<1> QED
  BY <1>1, <1>2, <1>4, <1>5, <1>6, <1>7, <1>8
     DEF Statement, RefuseInvoice, InsufficientBalance, NumberTaken, LogRefused, CallbackRejected,
         AmountMismatch, DeadlockVictim, Rollback, CommitTopUp, CommitPayByBalance,
         CommitCreatePayment, CommitCallback, CommitDuplicate, CallbackDuplicate

LEMMA ToldStep ==
  ASSUME IInv, TradesPaid, \A s \in Sessions : Told(s), [Next]_vars
  PROVE  \A s \in Sessions : Told(s)'
<1>1. ASSUME NEW s \in Sessions, Request(s) \/ Statement(s), NEW t \in Sessions PROVE Told(t)'
  <2>1. CASE t = s
    BY <1>1, <2>1, MineTold
  <2>2. CASE t # s
    BY <1>1, <2>2, Footprint, OthersTold DEF OnlyMine
  <2> QED BY <2>1, <2>2
<1>2. CASE Crash
  BY <1>2, IdleTold DEF Crash
<1>3. CASE UNCHANGED sess
  BY <1>3, OthersTold DEF sess
<1> QED BY <1>1, <1>2, <1>3 DEF Next, CustomerPays, MarkOverdue, vars

\* What a commit shows, row by row.
LEMMA CommitRows ==
  ASSUME IInv, NEW s \in Sessions, Commits(s)
  PROVE  \/ /\ no[s] \in PaymentNos /\ payment[no[s]].status = "none"
            /\ \A n \in PaymentNos : n # no[s] => payment'[n] = payment[n]
            /\ \/ /\ CommitTopUp(s) /\ payment'[no[s]].inv = Nobody
                  /\ payment'[no[s]].method = "transfer" /\ req[s] \in TopUpReqs
               \/ /\ CommitPayByBalance(s) /\ payment'[no[s]].inv \in Invoices
                  /\ invoice'[payment'[no[s]].inv] = "paid"
                  /\ payment'[no[s]].method = "balance" /\ req[s] \in PayReqs
               \/ /\ CommitCreatePayment(s) /\ payment'[no[s]].inv = req[s].inv
                  /\ payment'[no[s]].status = "pending" /\ req[s] \in CreateReqs
            /\ payment'[no[s]].status # "none"
         \/ /\ HasPayment(s) /\ req[s] \in CallbackReqs
            /\ req[s].no \in PaymentNos /\ payment[req[s].no].status \notin {"none", "completed"}
            /\ \A n \in PaymentNos : n # req[s].no => payment'[n] = payment[n]
            /\ payment'[req[s].no].status = "completed"
            /\ payment'[req[s].no].inv = payment[req[s].no].inv
            /\ payment'[req[s].no].method = payment[req[s].no].method
            /\ pc[s] = "commit" => invoice'[payment[req[s].no].inv] = "paid"
            /\ pc[s] \in {"commit", "commitDuplicate"}
<1>0. payment \in [PaymentNos -> Payments] /\ invoice \in [Invoices -> InvoiceStatus]
  BY DEF IInv, TypeOK
<1>1. CASE CommitTopUp(s)
  BY <1>0, <1>1, TopUpWrites
<1>2. CASE CommitPayByBalance(s)
  BY <1>0, <1>2, BalancePaymentWrites
<1>3. CASE CommitCreatePayment(s)
  <2>1. req[s] \in CreateReqs
    BY <1>3, ReqTypes DEF CommitCreatePayment, IInv
  <2> QED BY <1>0, <1>3, <2>1, CreationWrites
<1>4. CASE CommitCallback(s) \/ CommitDuplicate(s)
  <2>1. req[s] \in CallbackReqs /\ HasPayment(s) /\ pc[s] \in {"commit", "commitDuplicate"}
    BY <1>4, ReqTypes DEF CommitCallback, CommitDuplicate, IInv, Control, HasPayment
  <2>2. /\ req[s].no \in PaymentNos /\ payment[req[s].no].inv \in Invoices
        /\ payment[req[s].no].status # "completed"
    BY <1>4, CreditWrites
  <2>3. payment[req[s].no].status # "none"
    BY <2>2 DEF IInv, AbsentIsEmpty
  <2>4. PICK t \in Trades \cup {Nobody} : Credit(req[s].no, t)
    BY <1>4, CreditWrites
  <2>5. pc[s] = "commit" => invoice'[payment[req[s].no].inv] = "paid"
    BY <1>0, <1>4, <2>2 DEF CommitCallback, CommitDuplicate
  <2>6. /\ \A n \in PaymentNos : n # req[s].no => payment'[n] = payment[n]
        /\ payment'[req[s].no].status = "completed"
        /\ payment'[req[s].no].inv = payment[req[s].no].inv
        /\ payment'[req[s].no].method = payment[req[s].no].method
    BY <1>0, <2>2, <2>4 DEF Credit
  <2> QED BY <2>1, <2>2, <2>3, <2>5, <2>6
<1> QED BY <1>1, <1>2, <1>3, <1>4 DEF Commits

\* A completed payment has a paid invoice, or a twin of its trade.
LEMMA SettlesStep ==
  ASSUME IInv, TradesPaid, \A s \in Sessions : Told(s), CompletedSettles, [Next]_vars
  PROVE  CompletedSettles'
<1> SUFFICES ASSUME NEW n \in PaymentNos, Completed(n)', payment'[n].inv # Nobody
             PROVE  \/ invoice'[payment'[n].inv] = "paid"
                    \/ \E m \in PaymentNos \ {n} : Settling(m)' /\ payment'[m].trade = charge'[n].trade
  BY DEF CompletedSettles
<1>0. payment \in [PaymentNos -> Payments]
  BY DEF IInv, TypeOK
<1>1. ASSUME charge[n].state = "paid",
             NEW m \in PaymentNos \ {n}, Settling(m), payment[m].trade = charge[n].trade
      PROVE  Settling(m)' /\ payment'[m].trade = charge'[n].trade
  BY <1>1, SettledKept, PaidKept DEF Keeps, Settling, Completed
<1>2. CASE Completed(n)
  <2>1. payment'[n] = payment[n] /\ payment[n].inv \in Invoices
    BY <1>0, <1>2, SettledKept DEF Keeps, Payments
  <2>2. CASE invoice[payment[n].inv] = "paid"
    BY <2>1, <2>2, SettledKept DEF Keeps
  <2>3. ASSUME NEW m \in PaymentNos \ {n}, Settling(m), payment[m].trade = charge[n].trade
        PROVE  Settling(m)' /\ payment'[m].trade = charge'[n].trade
    <3>1. charge[n].state = "paid"
      BY <2>3 DEF Settling, TradesPaid
    <3> QED BY <1>1, <2>3, <3>1
  <2> QED BY <1>2, <2>1, <2>2, <2>3 DEF CompletedSettles
<1>3. CASE ~Completed(n)
  <2>1. PICK s \in Sessions : Commits(s)
    BY <1>3, Effects DEF Completed, MarkOverdue, db
  <2>2. CASE HasPayment(s) /\ req[s] \in CallbackReqs /\ n = req[s].no
    <3>0. req[s] \notin TopUpReqs \cup PayReqs \cup CreateReqs
      BY <2>2 DEF TopUpReqs, PayReqs, CreateReqs, CallbackReqs
    <3>1. CASE pc[s] = "commit"
      BY <2>1, <2>2, <3>0, <3>1, CommitRows
    <3>2. CASE pc[s] = "commitDuplicate"
      <4>1. PICK m \in PaymentNos \ {n} : Settling(m) /\ payment[m].trade = req[s].trade
        BY <2>2, <3>2 DEF Told
      <4>2. charge[n].state = "paid" /\ charge[n].trade = req[s].trade
        BY <2>2 DEF Told
      <4> QED BY <1>1, <4>1, <4>2
    <3> QED BY <2>1, <2>2, <3>1, <3>2, CommitRows DEF Commits, CommitTopUp, CommitPayByBalance,
               CommitCreatePayment, CommitCallback, CommitDuplicate
  <2> QED BY <1>3, <2>1, <2>2, CommitRows DEF Completed
<1> QED BY <1>2, <1>3

\* The end of a transaction is never refused: only a crash keeps it away.
LEMMA AtCommit ==
  ASSUME IInv, NEW s \in Sessions, pc[s] \in {"commit", "commitDuplicate"},
         [Next]_vars, crashes' = crashes
  PROVE  \/ pc'[s] = pc[s] /\ req'[s] = req[s] /\ no'[s] = no[s]
         \/ Commits(s)
<1>1. ASSUME NEW t \in Sessions \ {s}, Request(t) \/ Statement(t)
      PROVE  pc'[s] = pc[s] /\ req'[s] = req[s] /\ no'[s] = no[s]
  BY <1>1, Footprint DEF OnlyMine
<1>2. ~DeadlockVictim(s)
  <2>1. Wants(s) = {}
    BY DEF Wants
  <2>2. \A t \in Sessions : ~WaitsFor(s, t)
    BY <2>1 DEF WaitsFor
  <2> QED BY <2>2 DEF DeadlockVictim
<1>3. Request(s) \/ Statement(s) => Commits(s)
  BY <1>2 DEF Request, Statement, StartTopUp, StartPayByBalance, StartCreatePayment, StartCallback, Start,
         RefuseInvoice, InsufficientBalance, NumberTaken, LogRefused, CallbackRejected,
         AmountMismatch, LockInvoice, LockDistributor, TakeNumber, InsertPayment, PlacePayment,
         CallbackDuplicate, LockPayment, TradeSeen, TradeNew, SettleInvoice, Commits
<1>4. ~Crash
  BY DEF Crash, IInv, TypeOK
<1>5. CASE UNCHANGED sess
  BY <1>5 DEF sess
<1> QED BY <1>1, <1>3, <1>4, <1>5 DEF Next, CustomerPays, MarkOverdue, vars

\* A session is past the precreate if it was, or makes it now.
LEMMA PlacingStep ==
  ASSUME IInv, NEW t \in Sessions, [Next]_vars, Placing(t)'
  PROVE  \/ Placing(t) /\ no'[t] = no[t] /\ req'[t] = req[t]
         \/ PlacePayment(t)
<1> USE DEF IInv
<1>1. CASE pc'[t] = pc[t] /\ req'[t] = req[t] /\ no'[t] = no[t]
  BY <1>1 DEF Placing
<1>2. ASSUME NEW s \in Sessions \ {t}, Request(s) \/ Statement(s)
      PROVE  pc'[t] = pc[t] /\ req'[t] = req[t] /\ no'[t] = no[t]
  BY <1>2, Footprint DEF OnlyMine
<1>3. CASE Request(t) \/ Statement(t)
  <2>1. ~Release(t)
    BY ReleaseMine DEF Placing
  <2>2. ~Request(t)
    BY DEF Placing, Request, StartTopUp, StartPayByBalance, StartCreatePayment, StartCallback, Start,
           Goto, TypeOK
  <2>3. ~(LockInvoice(t) \/ LockDistributor(t) \/ TakeNumber(t) \/ LockPayment(t) \/ TradeSeen(t) \/ TradeNew(t))
    BY DEF Placing, LockInvoice, LockDistributor, TakeNumber, LockPayment, TradeSeen, TradeNew, Goto, TypeOK
  <2>4. ~InsertPayment(t)
    BY ReqTypes DEF Placing, InsertPayment, Goto, TypeOK
  <2>5. ~SettleInvoice(t)
    BY DEF Placing, SettleInvoice, Control, CreateReqs, CallbackReqs
  <2> QED
    BY <1>3, <2>1, <2>2, <2>3, <2>4, <2>5
       DEF Statement, RefuseInvoice, InsufficientBalance, NumberTaken, LogRefused, CallbackRejected,
           AmountMismatch, DeadlockVictim, Rollback, CommitTopUp, CommitPayByBalance,
           CommitCreatePayment, CommitCallback, CommitDuplicate, CallbackDuplicate
<1>4. CASE Crash
  BY <1>4 DEF Crash, Placing
<1>5. CASE UNCHANGED sess
  BY <1>1, <1>5 DEF sess
<1> QED BY <1>1, <1>2, <1>3, <1>4, <1>5 DEF Next, CustomerPays, MarkOverdue, vars

LEMMA OrderedStep ==
  ASSUME IInv, TradesPaid, Ordered, [Next]_vars, crashes' = crashes
  PROVE  Ordered'
<1>0. /\ payment \in [PaymentNos -> Payments] /\ charge \in [PaymentNos -> Charges]
      /\ no \in [Sessions -> PaymentNos]
  BY DEF IInv, TypeOK
<1>1. CASE UNCHANGED <<payment, charge>> /\ \A s \in Sessions : ~PlacePayment(s) /\ ~Commits(s)
  <2>1. \A s \in Sessions : Placing(s) => Placing(s)' /\ no'[s] = no[s]
    BY <1>1, AtCommit DEF Placing
  <2> QED BY <1>1, <2>1, PlacingStep DEF Ordered
<1>2. ASSUME NEW s \in Sessions, Commits(s) PROVE Ordered'
  <2>1. charge' = charge /\ OnlyMine(s) /\ pc'[s] = "idle"
    BY <1>2, Footprint, ReleaseMine
       DEF Commits, CommitTopUp, CommitPayByBalance, CommitCreatePayment, CommitCallback,
           CommitDuplicate, Statement, gw, IInv
  <2>2. \A t \in Sessions : Placing(t)' => Placing(t) /\ no'[t] = no[t] /\ req'[t] = req[t]
    BY <2>1 DEF OnlyMine, Placing
  <2>3. \A t \in Sessions \ {s} : Placing(t) => Placing(t)' /\ no'[t] = no[t]
    BY <2>1 DEF OnlyMine, Placing
  <2>4. CASE CommitCreatePayment(s)
    <3>1. /\ no[s] \in PaymentNos /\ payment'[no[s]].status # "none"
          /\ payment'[no[s]].inv = req[s].inv
          /\ \A n \in PaymentNos : n # no[s] => payment'[n] = payment[n]
      BY <1>0, <2>4, CreationWrites
    <3>2. Placing(s)
      BY <2>4, ReqTypes DEF CommitCreatePayment, Placing, IInv
    <3> QED BY <2>1, <2>2, <2>3, <3>1, <3>2 DEF Ordered
  <2>5. ASSUME NEW n \in PaymentNos, ~Placing(s), payment'[n].status # "none",
               \A m \in PaymentNos : m # n => payment'[m] = payment[m],
               payment'[n].method = "gateway" =>
                  payment[n].status # "none" /\ payment[n].method = "gateway" /\ payment'[n].inv = payment[n].inv
        PROVE  Ordered'
    BY <2>1, <2>2, <2>3, <2>5 DEF Ordered
  <2>6. CASE CommitTopUp(s) \/ CommitPayByBalance(s)
    <3>1. /\ no[s] \in PaymentNos /\ payment'[no[s]].status # "none"
          /\ payment'[no[s]].method # "gateway"
          /\ \A n \in PaymentNos : n # no[s] => payment'[n] = payment[n]
      BY <1>0, <2>6, TopUpWrites, BalancePaymentWrites
    <3>2. ~Placing(s)
      BY <2>6 DEF CommitTopUp, CommitPayByBalance, Placing, CreateReqs
    <3> QED BY <2>5, <3>1, <3>2
  <2>7. CASE HasPayment(s) /\ req[s] \in CallbackReqs
    <3>1. ~Placing(s) /\ ~CommitTopUp(s) /\ ~CommitPayByBalance(s) /\ ~CommitCreatePayment(s)
      BY <2>7 DEF Placing, CommitTopUp, CommitPayByBalance, CommitCreatePayment, CreateReqs, CallbackReqs
    <3> QED BY <1>2, <2>5, <2>7, <3>1, CommitRows
  <2> QED BY <1>2, <2>4, <2>6, <2>7, CommitRows
<1>3. ASSUME NEW s \in Sessions, PlacePayment(s) PROVE Ordered'
  <2> DEFINE n == no[s]
  <2>1. /\ pc[s] = "reference" /\ payment' = payment /\ no' = no /\ req' = req /\ n \in PaymentNos
        /\ req[s] \in CreateReqs /\ pc' = [pc EXCEPT ![s] = "commit"]
    BY <1>0, <1>3 DEF PlacePayment, Goto, db, IInv, Control
  <2>2. <<"payment", n>> \in held[s] /\ payment[n].status = "none"
    BY <2>1 DEF IInv, Locks, HasNumber, CreateReqs, CallbackReqs
  <2>3. ASSUME NEW t \in Sessions, Placing(t) PROVE no[t] # n
    <3>1. HasNumber(t) /\ t # s
      BY <2>1, <2>3 DEF Placing, HasNumber, CreateReqs, CallbackReqs
    <3>2. <<"payment", no[t]>> \in held[t]
      BY <3>1 DEF IInv, Locks
    <3> SUFFICES ASSUME no[t] = n PROVE FALSE
      OBVIOUS
    <3>3. <<"payment", n>> \in held[s] \cap held[t]
      BY <2>2, <3>2
    <3> QED BY <3>1, <3>3 DEF IInv, Exclusive
  <2>4. charge[n].state = "none"
    BY <2>1, <2>2, <2>3 DEF Ordered
  <2>5. /\ charge'[n].state = "open" /\ charge'[n].inv = req[s].inv
        /\ \A m \in PaymentNos : m # n => charge'[m] = charge[m]
    BY <1>0, <1>3, <2>1, <2>4 DEF PlacePayment, Precreate
  <2>6. \A t \in Sessions : Placing(t)' <=> Placing(t) \/ t = s
    BY <2>1 DEF Placing, IInv, TypeOK
  <2> HIDE DEF n
  <2>7. no[s] = n
    BY DEF n
  <2>8. ASSUME NEW m \in PaymentNos, charge'[m].state # "none"
        PROVE  payment'[m].status # "none" \/ \E t \in Sessions : Placing(t)' /\ no'[t] = m
    <3>1. CASE m = n
      BY <2>1, <2>6, <2>7, <3>1
    <3>2. CASE m # n
      <4>1. charge[m].state # "none"
        BY <2>5, <2>8, <3>2
      <4>2. payment[m].status # "none" \/ \E t \in Sessions : Placing(t) /\ no[t] = m
        BY <4>1 DEF Ordered
      <4> QED BY <2>1, <2>6, <4>2
    <3> QED BY <3>1, <3>2
  <2>9. ASSUME NEW m \in PaymentNos, payment'[m].status # "none", payment'[m].method = "gateway"
        PROVE  charge'[m].state # "none" /\ charge'[m].inv = payment'[m].inv
    BY <2>1, <2>2, <2>5, <2>9 DEF Ordered
  <2>10. ASSUME NEW t \in Sessions, Placing(t)'
         PROVE  charge'[no'[t]].state # "none" /\ charge'[no'[t]].inv = req'[t].inv
    <3>1. CASE t = s
      BY <2>1, <2>5, <2>7, <3>1
    <3>2. CASE t # s
      <4>1. Placing(t) /\ no[t] # n /\ no[t] \in PaymentNos
        BY <1>0, <2>3, <2>6, <2>10, <3>2
      <4> QED BY <2>1, <2>5, <4>1 DEF Ordered
    <3> QED BY <3>1, <3>2
  <2> QED BY <2>8, <2>9, <2>10 DEF Ordered
<1>4. ASSUME NEW n \in PaymentNos, NEW t \in Trades, CustomerPays(n, t) PROVE Ordered'
  <2>1. \A m \in PaymentNos : /\ charge'[m].state = "none" <=> charge[m].state = "none"
                              /\ charge'[m].inv = charge[m].inv
    BY <1>0, <1>4 DEF CustomerPays
  <2>2. payment' = payment /\ no' = no /\ req' = req /\ \A s \in Sessions : Placing(s)' <=> Placing(s)
    BY <1>4 DEF CustomerPays, Placing, db, sess
  <2> QED BY <1>0, <2>1, <2>2 DEF Ordered
<1>5. CASE UNCHANGED <<payment, charge>>
  BY <1>1, <1>2, <1>3, <1>5
<1>6. CASE \E s \in Sessions : Commits(s)
  BY <1>2, <1>6
<1>7. UNCHANGED payment \/ \E s \in Sessions : Commits(s)
  BY Effects DEF db, MarkOverdue
<1> QED BY <1>3, <1>4, <1>5, <1>6, <1>7, OrdersStep

\* What was answered is completed, or its COMMIT on the way.
LEMMA AckedStep ==
  ASSUME IInv, AckedIsCompleted, [Next]_vars, crashes' = crashes
  PROVE  AckedIsCompleted'
<1> SUFFICES ASSUME NEW n \in acked' PROVE Completed(n)' \/ Committing(n)'
  BY DEF AckedIsCompleted
<1>0. n \in PaymentNos
  BY TypeStep DEF TypeOK
<1>1. Completed(n) => Completed(n)'
  BY <1>0, SettledKept DEF Keeps, Completed
<1>2. ASSUME NEW s \in Sessions, pc[s] \in {"commit", "commitDuplicate"}, req[s].op = "callback", req[s].no = n
      PROVE  Completed(n)' \/ Committing(n)'
  <2>1. CASE Commits(s)
    <3>1. ~CommitTopUp(s) /\ ~CommitPayByBalance(s) /\ ~CommitCreatePayment(s)
      BY <1>2 DEF CommitTopUp, CommitPayByBalance, CommitCreatePayment
    <3>2. req[s] \in CallbackReqs
      BY <1>2, ReqTypes DEF IInv
    <3>3. req[s] \notin TopUpReqs \cup PayReqs \cup CreateReqs
      BY <3>2 DEF TopUpReqs, PayReqs, CreateReqs, CallbackReqs
    <3> QED BY <1>2, <2>1, <3>1, <3>3, CommitRows DEF Completed
  <2> QED BY <1>2, <2>1, AtCommit DEF Committing
<1>3. CASE n \in acked
  BY <1>1, <1>2, <1>3 DEF AckedIsCompleted, Committing
<1>4. ASSUME NEW s \in Sessions, CallbackDuplicate(s), n \notin acked PROVE Completed(n)'
  BY <1>1, <1>4 DEF CallbackDuplicate, Completed
<1>5. ASSUME NEW s \in Sessions, TradeSeen(s) \/ SettleInvoice(s), n \notin acked PROVE Committing(n)'
  <2>1. req' = req /\ req[s].no = n /\ pc'[s] \in {"commit", "commitDuplicate"}
    BY <1>5 DEF TradeSeen, SettleInvoice, Goto, IInv, TypeOK
  <2>2. req[s].op = "callback"
    BY <1>5, ReqTypes DEF TradeSeen, SettleInvoice, IInv, Control
  <2> QED BY <2>1, <2>2 DEF Committing
<1>6. \/ acked' = acked
      \/ \E s \in Sessions : CallbackDuplicate(s) \/ TradeSeen(s) \/ SettleInvoice(s)
  BY DEF Next, Request, Statement, StartTopUp, StartPayByBalance, StartCreatePayment, StartCallback, Start,
       RefuseInvoice, InsufficientBalance, NumberTaken, LogRefused, CallbackRejected,
       AmountMismatch, DeadlockVictim, Rollback, LockInvoice, LockDistributor, TakeNumber,
       InsertPayment, PlacePayment, LockPayment, TradeNew, CommitTopUp, CommitPayByBalance,
       CommitCreatePayment, CommitCallback, CommitDuplicate, CustomerPays, MarkOverdue, Crash, vars, gw
<1> QED BY <1>3, <1>4, <1>5, <1>6

\* What is completed has been paid, for the invoice it is of.
LEMMA ChargedStep ==
  ASSUME IInv, TradesPaid, \A s \in Sessions : Told(s), Ordered, SettledWasCharged, [Next]_vars
  PROVE  SettledWasCharged'
<1> SUFFICES ASSUME NEW n \in PaymentNos, Completed(n)', payment'[n].method = "gateway"
             PROVE  charge'[n].state = "paid" /\ charge'[n].inv = payment'[n].inv
  BY DEF SettledWasCharged
<1>1. CASE Completed(n)
  BY <1>1, SettledKept, PaidKept DEF Keeps, SettledWasCharged
<1>2. CASE ~Completed(n)
  <2>1. PICK s \in Sessions : Commits(s)
    BY <1>2, Effects DEF Completed, MarkOverdue, db
  <2>2. /\ HasPayment(s) /\ req[s] \in CallbackReqs /\ n = req[s].no /\ payment[n].status # "none"
        /\ payment'[n].inv = payment[n].inv /\ payment[n].method = "gateway"
    BY <1>2, <2>1, CommitRows DEF Completed
  <2>3. charge[n].state = "paid" /\ charge[n].inv = payment[n].inv
    BY <2>2 DEF Told, Ordered
  <2> QED BY <2>2, <2>3, PaidKept
<1> QED BY <1>1, <1>2

LEMMA AgreementInvariant == Spec => []Agreement
<1>1. Init => Agreement
  BY DEF Init, Agreement, TradesPaid, Told, HasPayment, CompletedSettles, Completed, Ordered, Placing,
         AckedIsCompleted, SettledWasCharged, NoCharge, NoPayment, NoReq, CallbackReqs
<1>2. IInv /\ Agreement /\ [Next]_vars => Agreement'
  <2> SUFFICES ASSUME IInv, Agreement, [Next]_vars PROVE Agreement'
    OBVIOUS
  <2>1. crashes' = 0 => crashes = 0
    <3>1. ASSUME NEW s \in Sessions, Request(s) PROVE crashes' = crashes
      BY <3>1 DEF Request, StartTopUp, StartPayByBalance, StartCreatePayment, StartCallback, Start, world
    <3>2. ASSUME NEW s \in Sessions, Statement(s) PROVE crashes' = crashes
      BY <3>2
         DEF Statement, RefuseInvoice, InsufficientBalance, NumberTaken, LogRefused, CallbackRejected,
             AmountMismatch, DeadlockVictim, Rollback, LockInvoice, LockDistributor, TakeNumber,
             InsertPayment, PlacePayment, LockPayment, TradeNew, TradeSeen, SettleInvoice,
             CallbackDuplicate, CommitTopUp, CommitPayByBalance, CommitCreatePayment,
             CommitCallback, CommitDuplicate, world
    <3>3. CASE Crash
      BY <3>3 DEF Crash, IInv, TypeOK
    <3> QED BY <3>1, <3>2, <3>3 DEF Next, CustomerPays, MarkOverdue, vars, world
  <2>2. crashes' = 0 => Ordered' /\ AckedIsCompleted' /\ SettledWasCharged'
    BY <2>1, OrderedStep, AckedStep, ChargedStep DEF Agreement
  <2> QED BY <2>2, PaidKept, ToldStep, SettlesStep DEF Agreement
<1> QED BY <1>1, <1>2, Invariant, PTL DEF Spec

\* A completed payment has settled its invoice or repeats a trade.  As long as no
\* process has died, the gateway is besides answered "success" only of a payment
\* that is completed or whose COMMIT is queued, and nothing is completed that the
\* customer has not paid for that invoice (payment_service.cc:200-406).
THEOREM Agrees == Spec => [](CompletedSettles /\ (crashes = 0 => GatewayAgrees))
<1>1. Agreement => CompletedSettles /\ (crashes = 0 => GatewayAgrees)
  BY DEF Agreement, GatewayAgrees
<1> QED BY <1>1, AgreementInvariant, PTL

-------------------------------------------------------------------------------
\* Interleaved statements, locks and crashes implement the ledger, whose
\* operations are atomic: the COMMIT is the step at which each one happens.
THEOREM Implements == Spec => LedgerSpec
<1> USE DEF Atomic!Init, Atomic!Next, Atomic!TopUp, Atomic!PayFromBalance, Atomic!PayByGateway,
            Atomic!MarkOverdue
<1>1. Init => Atomic!Init
  BY DEF Init
<1>2. IInv /\ [Next]_vars => [Atomic!Next]_<<balance, invoice>>
  <2> SUFFICES ASSUME IInv, [Next]_vars PROVE [Atomic!Next]_<<balance, invoice>>
    OBVIOUS
  <2>1. CASE UNCHANGED db
    BY <2>1 DEF db
  <2>2. ASSUME NEW s \in Sessions, Commits(s) PROVE [Atomic!Next]_<<balance, invoice>>
    <3>1. CASE CommitTopUp(s)
      <4>1. /\ req[s].amount \in TopUpAmounts /\ Payer(s) \in Distributors
            /\ balance' = [balance EXCEPT ![Payer(s)] = @ + req[s].amount] /\ invoice' = invoice
        BY <3>1, TopUpWrites DEF TopUpReqs
      <4>2. Atomic!TopUp(Payer(s)) BY <4>1
      <4> QED BY <4>1, <4>2
    <3>2. CASE CommitPayByBalance(s) BY <3>2, BalancePaymentWrites
    <3>3. CASE CommitCreatePayment(s) BY <3>3, CreationWrites
    <3>4. CASE CommitCallback(s) \/ CommitDuplicate(s) BY <3>4, CreditWrites
    <3> QED BY <2>2, <3>1, <3>2, <3>3, <3>4 DEF Commits
  <2>3. ASSUME NEW i \in Invoices, MarkOverdue(i) PROVE [Atomic!Next]_<<balance, invoice>>
    BY <2>3 DEF MarkOverdue
  <2> QED BY <2>1, <2>2, <2>3, Effects
<1> QED BY <1>1, <1>2, Invariant, PTL DEF Spec, LedgerSpec, Atomic!Spec
===============================================================================
