------------------------------ MODULE Settlement ------------------------------
(***************************************************************************)
(* How an invoice is settled: balance_service.cc (topUpBalance), the        *)
(* payByBalance of invoice_service.cc (the one of balance_service.cc runs   *)
(* the same statements and has no caller), payment_service.cc (createPayment *)
(* and processPaymentCallback) and the overdue marking of dunning_service.cc. *)
(*                                                                          *)
(* A session is one request running DbClient::transaction (db_client.h:41)  *)
(* on a connection of the pool.  It advances one statement at a time:       *)
(* SELECT .. FOR UPDATE takes row locks, what it writes becomes visible      *)
(* when it commits, and an exception rolls it back.  The HTTP answer leaves *)
(* when the lambda returns; the COMMIT is only queued by then (it is issued *)
(* by the Transaction's destructor), so it is a step of its own and a crash *)
(* may come between the two.  generatePaymentNo and isTransactionDuplicate  *)
(* run on another connection and see committed rows only.  Sessions that    *)
(* wait for each other in a circle are found by PostgreSQL, which aborts one. *)
(***************************************************************************)
EXTENDS Integers, FiniteSets

CONSTANTS
    Distributors, Invoices, OwnerOf, TotalOf, TopUpAmounts, OpeningBalance,
    Sessions,        \* requests in flight
    Trades,          \* transaction ids the gateway assigns
    MaxPaymentNo,    \* bound: payment numbers of one day run from 0 to this
    MaxCrashes       \* bound: crashes of the backend

Nobody == "nobody"
PaymentNos == 0..MaxPaymentNo

\* The shape of the data: every total is positive (an invoice whose total is
\* not is never generated, invoice_service.cc:252-255), top-ups are positive
\* (balance_service.cc:87-90) and no balance starts below zero.
ASSUME SettlementAssumption ==
    /\ OwnerOf \in [Invoices -> Distributors]
    /\ TotalOf \in [Invoices -> Nat \ {0}]
    /\ TopUpAmounts \subseteq Nat \ {0}
    /\ OpeningBalance \in [Distributors -> Nat]
    /\ MaxPaymentNo \in Nat
    /\ MaxCrashes \in Nat
    /\ Nobody \notin Invoices \cup Trades \cup Distributors

VARIABLES
    balance,   \* distributors.balance
    invoice,   \* invoices.status
    payment,   \* the payments table by payment_no
    pc,        \* the statement each session runs next
    req,       \* what the session was asked to do
    bal,       \* the balance it read under the row lock
    no,        \* the payment number it generated
    held,      \* the row locks it holds
    charge,    \* external: the gateway's order for a payment number
    acked,     \* external: numbers the gateway was answered "success" for
    crashes,
    systemUser \* is there a users row 0?  The migrations create none.

db   == <<balance, invoice, payment>>
sess == <<pc, req, bal, no, held>>
gw   == <<charge, acked>>
world == <<crashes, systemUser>>
vars == <<db, sess, gw, world>>

-------------------------------------------------------------------------------
\* Data.

InvoiceStatus == {"unpaid", "overdue", "paid"}
PaymentStatus == {"none", "pending", "completed", "failed"}
Methods == {"none", "transfer", "balance", "gateway"}

Payments == [status : PaymentStatus, method : Methods,
             inv : Invoices \cup {Nobody}, dist : Distributors \cup {Nobody},
             amount : Nat, trade : Trades \cup {Nobody}]

NoPayment == [status |-> "none", method |-> "none", inv |-> Nobody,
              dist |-> Nobody, amount |-> 0, trade |-> Nobody]

\* A gateway order: made for an invoice at precreate, then paid by the
\* customer once, with the amount and trade number the callbacks will carry.
Charges == [state : {"none", "open", "paid"}, inv : Invoices \cup {Nobody},
            amount : Nat, trade : Trades \cup {Nobody}]

NoCharge == [state |-> "none", inv |-> Nobody, amount |-> 0, trade |-> Nobody]

TopUpReqs    == [op : {"topUp"}, dist : Distributors, amount : TopUpAmounts]
PayReqs      == [op : {"payByBalance"}, inv : Invoices]
CreateReqs   == [op : {"createPayment"}, inv : Invoices]
CallbackReqs == [op : {"callback"}, no : PaymentNos, success : BOOLEAN,
                 trade : Trades \cup {Nobody}, amount : Nat]
NoReq        == [op |-> "none"]

Requests == TopUpReqs \cup PayReqs \cup CreateReqs \cup CallbackReqs \cup {NoReq}

PCs == {"idle", "invoice", "distributor", "number", "insert", "payment",
        "reference", "dedup", "settle", "commit", "commitDuplicate"}

Rows == ({"invoice"} \X Invoices) \cup ({"distributor"} \X Distributors)
        \cup ({"reference"} \X Distributors) \cup ({"payment"} \X PaymentNos)

Init ==
    /\ balance = OpeningBalance
    /\ invoice = [i \in Invoices |-> "unpaid"]
    /\ payment = [n \in PaymentNos |-> NoPayment]
    /\ pc = [s \in Sessions |-> "idle"]
    /\ req = [s \in Sessions |-> NoReq]
    /\ bal = [s \in Sessions |-> 0]
    /\ no = [s \in Sessions |-> 0]
    /\ held = [s \in Sessions |-> {}]
    /\ charge = [n \in PaymentNos |-> NoCharge]
    /\ acked = {}
    /\ crashes = 0
    /\ systemUser \in BOOLEAN

-------------------------------------------------------------------------------
\* The distributor whose balance the session changes, and by how much.
Payer(s) == IF req[s].op = "topUp" THEN req[s].dist ELSE OwnerOf[req[s].inv]
NewBalance(s) == IF req[s].op = "topUp" THEN bal[s] + req[s].amount
                                         ELSE bal[s] - TotalOf[req[s].inv]

-------------------------------------------------------------------------------
\* Row locks, and the ends of a transaction.

\* A payments row another session has written and not committed.
Written(n) == \E t \in Sessions : <<"payment", n>> \in held[t] /\ pc[t] # "dedup"

\* The locks that make the next statement of s wait: SELECT .. FOR UPDATE and
\* UPDATE for the row, INSERT for an uncommitted row with the same unique
\* payment_no, the foreign key of payments.distributor_id (KEY SHARE) for a
\* distributor locked FOR UPDATE.
Wants(s) ==
    CASE pc[s] = "invoice" -> {<<"invoice", req[s].inv>>}
      [] pc[s] = "distributor" -> {<<"distributor", Payer(s)>>, <<"reference", Payer(s)>>}
      [] pc[s] = "insert" -> IF Written(no[s]) THEN {<<"payment", no[s]>>} ELSE {}
      [] pc[s] = "reference" -> {<<"distributor", Payer(s)>>}
      [] pc[s] = "payment" -> IF payment[req[s].no].inv = Nobody THEN {} ELSE {<<"payment", req[s].no>>}
      [] pc[s] = "settle" -> {<<"invoice", payment[req[s].no].inv>>}
      [] OTHER -> {}

WaitsFor(s, t) == held[t] \cap Wants(s) # {}

\* Mutant: no lock is ever refused.
NeverWaits(s) == TRUE
Granted(s) == \A t \in Sessions : ~WaitsFor(s, t)

Lock(s, row) ==
    /\ Granted(s)
    /\ held' = [held EXCEPT ![s] = @ \cup {row}]

Goto(s, label) == pc' = [pc EXCEPT ![s] = label]

\* Mutant: a transaction ends with its locks held.
ReleaseKeepsLocks(s) ==
    /\ Goto(s, "idle")
    /\ req' = [req EXCEPT ![s] = NoReq]
    /\ bal' = [bal EXCEPT ![s] = 0]
    /\ no' = [no EXCEPT ![s] = 0]
    /\ UNCHANGED held
\* The session's connection returns to the pool.
Release(s) ==
    /\ Goto(s, "idle")
    /\ req' = [req EXCEPT ![s] = NoReq]
    /\ bal' = [bal EXCEPT ![s] = 0]
    /\ no' = [no EXCEPT ![s] = 0]
    /\ held' = [held EXCEPT ![s] = {}]

\* An exception in the lambda: ROLLBACK, an error answer, nothing written.
Rollback(s) == Release(s) /\ UNCHANGED <<db, gw, world>>

\* External: after deadlock_timeout PostgreSQL aborts a session of a circle.
DeadlockVictim(s) ==
    /\ \E C \in SUBSET Sessions :
          /\ s \in C
          /\ \A x \in C : /\ \E y \in C : WaitsFor(x, y)
                          /\ \E y \in C : WaitsFor(y, x)
    /\ Rollback(s)

-------------------------------------------------------------------------------
\* Requests arrive.  A new one is taken only while every open one can still
\* get a payment number (a bound of the model).

Recorded == {n \in PaymentNos : payment[n].status # "none"}
Busy == {s \in Sessions : pc[s] # "idle"}
RoomForOne == Cardinality(Recorded) + Cardinality(Busy) < MaxPaymentNo

Start(s, r, label) ==
    /\ pc[s] = "idle"
    /\ req' = [req EXCEPT ![s] = r]
    /\ Goto(s, label)
    /\ UNCHANGED <<db, bal, no, held, gw, world>>

StartTopUp(s) == /\ RoomForOne
                 /\ \E r \in TopUpReqs : Start(s, r, "distributor")

StartPayByBalance(s) == /\ RoomForOne
                        /\ \E r \in PayReqs : Start(s, r, "invoice")

StartCreatePayment(s) == /\ RoomForOne
                         /\ \E r \in CreateReqs : Start(s, r, "invoice")

\* POST /payments/notify.  The gateway notifies as often as it likes about
\* an order it knows: without success while the customer has not paid, with
\* success, again and again, once he has.
Notification(n, success) ==
    [op |-> "callback", no |-> n, success |-> success,
     trade |-> charge[n].trade, amount |-> charge[n].amount]

StartCallback(s, n) ==
    \/ /\ charge[n].state = "open"
       /\ Start(s, Notification(n, FALSE), "payment")
    \/ /\ charge[n].state = "paid"
       /\ Start(s, Notification(n, TRUE), "payment")

-------------------------------------------------------------------------------
\* topUpBalance, payByBalance, createPayment: one action per statement.

\* Mutant: the status is not tested under the lock.
LockInvoiceUnchecked(s) ==
    /\ pc[s] = "invoice"
    /\ Lock(s, <<"invoice", req[s].inv>>)
    /\ Goto(s, IF req[s].op = "payByBalance" THEN "distributor" ELSE "number")
    /\ UNCHANGED <<db, req, bal, no, gw, world>>
\* SELECT .. FROM invoices FOR UPDATE, and the checks on the row: an invoice
\* that is not 'unpaid' is refused, an overdue one too.  An invoice of
\* another distributor is refused before any write and is not modelled.
LockInvoice(s) ==
    /\ pc[s] = "invoice"
    /\ Lock(s, <<"invoice", req[s].inv>>)
    /\ invoice[req[s].inv] = "unpaid"
    /\ Goto(s, IF req[s].op = "payByBalance" THEN "distributor" ELSE "number")
    /\ UNCHANGED <<db, req, bal, no, gw, world>>

RefuseInvoice(s) ==
    /\ pc[s] = "invoice"
    /\ Granted(s)
    /\ invoice[req[s].inv] # "unpaid"
    /\ Rollback(s)

\* Mutant: a balance too small is spent.
AnyBalance(s) == TRUE
\* credit_limit is read but plays no part.
Sufficient(s) ==
    req[s].op = "payByBalance" => balance[Payer(s)] >= TotalOf[req[s].inv]

\* Mutant: no row lock on the distributor.
ReadDistributor(s) ==
    /\ pc[s] = "distributor"
    /\ Sufficient(s)
    /\ bal' = [bal EXCEPT ![s] = balance[Payer(s)]]
    /\ Goto(s, "number")
    /\ UNCHANGED <<db, req, no, held, gw, world>>
\* SELECT balance FROM distributors FOR UPDATE: the new balance is computed
\* in C++ from the value read here and written as an absolute value.
LockDistributor(s) ==
    /\ pc[s] = "distributor"
    /\ Lock(s, <<"distributor", Payer(s)>>)
    /\ Sufficient(s)
    /\ bal' = [bal EXCEPT ![s] = balance[Payer(s)]]
    /\ Goto(s, "number")
    /\ UNCHANGED <<db, req, no, gw, world>>

InsufficientBalance(s) ==
    /\ pc[s] = "distributor"
    /\ Granted(s)
    /\ ~Sufficient(s)
    /\ Rollback(s)

\* generatePaymentNo counts the day's committed payments and adds one;
\* InvoiceService::payByBalance draws std::rand() % 10000 instead.  Both
\* write the same prefix.
TakeNumber(s) ==
    /\ pc[s] = "number"
    /\ \E n \in PaymentNos :
          /\ req[s].op # "payByBalance" => n = Cardinality(Recorded) + 1
          /\ no' = [no EXCEPT ![s] = n]
    /\ Goto(s, "insert")
    /\ UNCHANGED <<db, req, bal, held, gw, world>>

\* The gateway has an order under the number, and the customer its QR code as
\* soon as the request is answered.
Precreate(n, i) ==
    charge' = [charge EXCEPT ![n] =
        IF @.state = "paid" THEN @
        ELSE [state |-> "open", inv |-> i, amount |-> TotalOf[i],
              trade |-> Nobody]]

\* INSERT INTO payments: payment_no is UNIQUE.  The foreign key on the
\* distributor is checked next; topUp and payByBalance hold that row.
InsertPayment(s) ==
    /\ pc[s] = "insert"
    /\ payment[no[s]].status = "none"
    /\ Lock(s, <<"payment", no[s]>>)
    /\ Goto(s, IF req[s].op = "createPayment" THEN "reference" ELSE "commit")
    /\ UNCHANGED <<db, req, bal, no, gw, world>>

NumberTaken(s) ==
    /\ pc[s] = "insert"
    /\ payment[no[s]].status # "none"
    /\ Granted(s)
    /\ Rollback(s)

\* createPayment goes on with the foreign key, the precreate and the operation
\* log, which names user 0: operation_logs.user_id references users.
PlacePayment(s) ==
    /\ pc[s] = "reference"
    /\ systemUser
    /\ Lock(s, <<"reference", Payer(s)>>)
    /\ Precreate(no[s], req[s].inv)
    /\ Goto(s, "commit")
    /\ UNCHANGED <<db, req, bal, no, acked, world>>

LogRefused(s) ==
    /\ pc[s] = "reference"
    /\ ~systemUser
    /\ Granted(s)
    /\ Rollback(s)

\* The row each of the three inserts, and the COMMIT that shows its writes.
Method(s) == IF req[s].op = "topUp" THEN "transfer"
             ELSE IF req[s].op = "payByBalance" THEN "balance" ELSE "gateway"
Inserted(s) ==
    [status |-> IF req[s].op = "createPayment" THEN "pending" ELSE "completed",
     method |-> Method(s),
     inv    |-> IF req[s].op = "topUp" THEN Nobody ELSE req[s].inv,
     dist   |-> Payer(s),
     amount |-> IF req[s].op = "topUp" THEN req[s].amount ELSE TotalOf[req[s].inv],
     trade  |-> Nobody]

CommitTopUp(s) ==
    /\ pc[s] = "commit" /\ req[s].op = "topUp"
    /\ balance' = [balance EXCEPT ![Payer(s)] = NewBalance(s)]
    /\ payment' = [payment EXCEPT ![no[s]] = Inserted(s)]
    /\ Release(s)
    /\ UNCHANGED <<invoice, gw, world>>

\* Mutant: the invoice is paid without its payment.
CommitUnrecorded(s) ==
    /\ pc[s] = "commit" /\ req[s].op = "payByBalance"
    /\ balance' = [balance EXCEPT ![Payer(s)] = NewBalance(s)]
    /\ invoice' = [invoice EXCEPT ![req[s].inv] = "paid"]
    /\ Release(s)
    /\ UNCHANGED <<payment, gw, world>>
CommitPayByBalance(s) ==
    /\ pc[s] = "commit" /\ req[s].op = "payByBalance"
    /\ balance' = [balance EXCEPT ![Payer(s)] = NewBalance(s)]
    /\ invoice' = [invoice EXCEPT ![req[s].inv] = "paid"]
    /\ payment' = [payment EXCEPT ![no[s]] = Inserted(s)]
    /\ Release(s)
    /\ UNCHANGED <<gw, world>>

CommitCreatePayment(s) ==
    /\ pc[s] = "commit" /\ req[s].op = "createPayment"
    /\ payment' = [payment EXCEPT ![no[s]] = Inserted(s)]
    /\ Release(s)
    /\ UNCHANGED <<balance, invoice, gw, world>>

-------------------------------------------------------------------------------
\* processPaymentCallback.

\* Alipay and WeChat amounts may differ from the total by one cent.
AmountMatches(s, i) == /\ req[s].amount <= TotalOf[i] + 1
                       /\ TotalOf[i] <= req[s].amount + 1

\* trade_status / result_code say the customer paid.
Approved(s) == req[s].success

\* Two of the UPDATEs write status 'failed' and are rolled back by the throw
\* that follows them; a number with no payments row of an invoice is "not
\* found".  The gateway reads "fail" and notifies again.
CallbackRejected(s) ==
    LET p == payment[req[s].no] IN
    /\ pc[s] = "payment"
    /\ Granted(s)
    /\ \/ p.inv = Nobody
       \/ p.status # "completed" /\ ~Approved(s)
    /\ Rollback(s)

\* The payment is already completed: "success", nothing to do.
CallbackDuplicate(s) ==
    LET p == payment[req[s].no] IN
    /\ pc[s] = "payment"
    /\ Granted(s)
    /\ p.inv # Nobody /\ p.status = "completed"
    /\ acked' = acked \cup {req[s].no}
    /\ Release(s)
    /\ UNCHANGED <<db, charge, world>>

\* SELECT .. FOR UPDATE OF p: the payment is locked, its invoice is not.
LockPayment(s) ==
    LET p == payment[req[s].no] IN
    /\ pc[s] = "payment"
    /\ p.inv # Nobody /\ p.status # "completed" /\ Approved(s)
    /\ Lock(s, <<"payment", req[s].no>>)
    /\ Goto(s, "dedup")
    /\ UNCHANGED <<db, req, bal, no, gw, world>>

\* isTransactionDuplicate: committed completed payments of this trade.  The
\* rows' age is not modelled: a match older than 7 days does not count, so
\* with a match both answers are possible.
SameTrade(s) == {n \in PaymentNos : /\ payment[n].status = "completed"
                                    /\ payment[n].trade = req[s].trade}

\* Answered "success": the payment becomes 'completed', the invoice is left.
TradeSeen(s) ==
    /\ pc[s] = "dedup"
    /\ SameTrade(s) # {}
    /\ acked' = acked \cup {req[s].no}
    /\ Goto(s, "commitDuplicate")
    /\ UNCHANGED <<db, req, bal, no, held, charge, world>>

TradeNew(s) ==
    /\ pc[s] = "dedup"
    /\ AmountMatches(s, payment[req[s].no].inv)
    /\ Goto(s, "settle")
    /\ UNCHANGED <<db, req, bal, no, held, gw, world>>

AmountMismatch(s) ==
    /\ pc[s] = "dedup"
    /\ ~AmountMatches(s, payment[req[s].no].inv)
    /\ Rollback(s)

\* UPDATE invoices SET status = 'paid', whatever it is, and the log; the
\* signature check before them is a stub that accepts.  The log is written as
\* user 0, like createPayment's: without that user no payment gets this far.
SettleInvoice(s) ==
    /\ pc[s] = "settle"
    /\ systemUser
    /\ Lock(s, <<"invoice", payment[req[s].no].inv>>)
    /\ acked' = acked \cup {req[s].no}
    /\ Goto(s, "commit")
    /\ UNCHANGED <<db, req, bal, no, charge, world>>

\* UPDATE payments SET status = 'completed', transaction_id = the trade's.
Credit(n, trade) ==
    payment' = [payment EXCEPT ![n] =
        [status |-> "completed", method |-> @.method, inv |-> @.inv,
         dist |-> @.dist, amount |-> @.amount, trade |-> trade]]

\* Mutant: the invoice of the payment stays open.
CommitPaymentOnly(s) ==
    /\ pc[s] = "commit" /\ req[s].op = "callback"
    /\ Credit(req[s].no, req[s].trade)
    /\ Release(s)
    /\ UNCHANGED <<balance, invoice, gw, world>>
CommitCallback(s) ==
    /\ pc[s] = "commit" /\ req[s].op = "callback"
    /\ Credit(req[s].no, req[s].trade)
    /\ invoice' = [invoice EXCEPT ![payment[req[s].no].inv] = "paid"]
    /\ Release(s)
    /\ UNCHANGED <<balance, gw, world>>

\* Mutant: a repeated notification completes nothing.
CommitNothing(s) ==
    /\ pc[s] = "commitDuplicate"
    /\ Release(s)
    /\ UNCHANGED <<db, gw, world>>
CommitDuplicate(s) ==
    /\ pc[s] = "commitDuplicate"
    /\ Credit(req[s].no, payment[req[s].no].trade)
    /\ Release(s)
    /\ UNCHANGED <<balance, invoice, gw, world>>

-------------------------------------------------------------------------------
\* The rest of the world.

\* The customer pays an order at the gateway, in full or short of 5 cents.
CustomerPays(n, t) ==
    /\ charge[n].state = "open"
    /\ \E short \in {0, 5} :
          /\ short <= charge[n].amount
          /\ charge' = [charge EXCEPT ![n] =
                [state |-> "paid", inv |-> @.inv, amount |-> @.amount - short,
                 trade |-> t]]
    /\ UNCHANGED <<db, sess, acked, world>>

\* Mutant: a paid invoice is marked too.
MarkOverdueUnguarded(i) ==
    /\ \A s \in Sessions : <<"invoice", i>> \notin held[s]
    /\ invoice' = [invoice EXCEPT ![i] = "overdue"]
    /\ UNCHANGED <<balance, payment, sess, gw, world>>
\* processOverdueMarking: UPDATE invoices SET status = 'overdue' WHERE id = $1
\* AND status = 'unpaid', autocommitted; it waits for the row's lock and then
\* tests the status again.
MarkOverdue(i) ==
    /\ \A s \in Sessions : <<"invoice", i>> \notin held[s]
    /\ invoice[i] = "unpaid"
    /\ invoice' = [invoice EXCEPT ![i] = "overdue"]
    /\ UNCHANGED <<balance, payment, sess, gw, world>>

\* The backend dies: what was not committed is gone, the answers are out.
Crash ==
    /\ crashes < MaxCrashes
    /\ crashes' = crashes + 1
    /\ pc' = [s \in Sessions |-> "idle"]
    /\ req' = [s \in Sessions |-> NoReq]
    /\ bal' = [s \in Sessions |-> 0]
    /\ no' = [s \in Sessions |-> 0]
    /\ held' = [s \in Sessions |-> {}]
    /\ UNCHANGED <<db, gw, systemUser>>

-------------------------------------------------------------------------------
Statement(s) ==
    \/ LockInvoice(s) \/ RefuseInvoice(s)
    \/ LockDistributor(s) \/ InsufficientBalance(s)
    \/ TakeNumber(s) \/ InsertPayment(s) \/ NumberTaken(s) \/ PlacePayment(s) \/ LogRefused(s)
    \/ CommitTopUp(s) \/ CommitPayByBalance(s) \/ CommitCreatePayment(s)
    \/ CallbackRejected(s) \/ CallbackDuplicate(s) \/ LockPayment(s)
    \/ TradeSeen(s) \/ TradeNew(s) \/ AmountMismatch(s)
    \/ SettleInvoice(s)
    \/ CommitCallback(s) \/ CommitDuplicate(s)
    \/ DeadlockVictim(s)

Request(s) ==
    \/ StartTopUp(s) \/ StartPayByBalance(s) \/ StartCreatePayment(s)
    \/ \E n \in PaymentNos : StartCallback(s, n)

Next ==
    \/ \E s \in Sessions : Request(s) \/ Statement(s)
    \/ \E n \in PaymentNos, t \in Trades : CustomerPays(n, t)
    \/ \E i \in Invoices : MarkOverdue(i)
    \/ Crash

Spec == Init /\ [][Next]_vars

\* PostgreSQL queues the waiters of a lock, so a session whose statement is
\* enabled again and again runs it (SF); the gateway repeats a notification
\* until it reads "success".
Renotify(s, n) == n \notin acked /\ charge[n].state = "paid" /\ StartCallback(s, n)

FairSpec ==
    /\ Spec
    /\ \A s \in Sessions : SF_vars(Statement(s))
    /\ \A n \in PaymentNos : SF_vars(\E s \in Sessions : Renotify(s, n))

-------------------------------------------------------------------------------
\* Properties.

\* Types, and that no balance is ever negative: a payByBalance deducts only
\* what it found there, and nothing else spends the balance in between.
TypeOK ==
    /\ balance \in [Distributors -> Nat]
    /\ invoice \in [Invoices -> InvoiceStatus]
    /\ payment \in [PaymentNos -> Payments]
    /\ pc \in [Sessions -> PCs]
    /\ req \in [Sessions -> Requests]
    /\ bal \in [Sessions -> Nat]
    /\ no \in [Sessions -> PaymentNos]
    /\ held \in [Sessions -> SUBSET Rows]
    /\ charge \in [PaymentNos -> Charges]
    /\ acked \subseteq PaymentNos
    /\ crashes \in 0..MaxCrashes
    /\ systemUser \in BOOLEAN

\* The sum of the completed payments of distributor d made with a method.
Total(amount) ==
    LET upTo[n \in PaymentNos] == amount[n] + (IF n = 0 THEN 0 ELSE upTo[n-1])
    IN  upTo[MaxPaymentNo]
Moved(d, method) == Total([n \in PaymentNos |->
    IF payment[n].method = method /\ payment[n].status = "completed" /\ payment[n].dist = d
    THEN payment[n].amount ELSE 0])

\* The balance is what the payments table says it is, top-ups less balance
\* payments: no concurrent top-up or payment is lost to another's
\* read-modify-write (balance_service.cc:108-119, invoice_service.cc:679-708).
BooksBalance == \A d \in Distributors :
    balance[d] = OpeningBalance[d] + Moved(d, "transfer") - Moved(d, "balance")

Completed(n) == payment[n].status = "completed"
Settling(n) == Completed(n) /\ payment[n].trade # Nobody

\* An invoice is taken out of a balance at most once, whoever races to pay it.
PaidOnceFromBalance == \A n, m \in PaymentNos :
    /\ payment[n].method = "balance" /\ payment[m].method = "balance"
    /\ payment[n].inv = payment[m].inv
    => n = m

\* A paid invoice has a completed payment of (about) its total behind it.
PaidIsCovered == \A i \in Invoices : invoice[i] = "paid" =>
    \E n \in PaymentNos : /\ Completed(n) /\ payment[n].inv = i
                          /\ payment[n].amount = TotalOf[i]

\* The other way round: a completed payment of an invoice means a paid
\* invoice, except where the callback carried a trade number another
\* completed payment already has (payment_service.cc:283-301).
CompletedSettles == \A n \in PaymentNos :
    Completed(n) /\ payment[n].inv # Nobody =>
        \/ invoice[payment[n].inv] = "paid"
        \/ \E m \in PaymentNos \ {n} : /\ Settling(m)
                                       /\ payment[m].trade = charge[n].trade

\* Nothing undoes a settled invoice or rewrites a completed payment: not a
\* late callback, not the overdue marking, not a crash.
SettledIsFinal ==
    [][/\ \A i \in Invoices : invoice[i] = "paid" => invoice'[i] = "paid"
       /\ \A n \in PaymentNos : Completed(n) => payment'[n] = payment[n]]_vars

\* A session in the course of committing the completion of payment n.
Committing(n) == \E s \in Sessions :
    pc[s] \in {"commit", "commitDuplicate"} /\ req[s].op = "callback" /\ req[s].no = n

\* The gateway is answered "success", and stops notifying, only about a
\* payment that is completed or whose COMMIT is queued.
AckedIsCompleted == \A n \in acked : Completed(n) \/ Committing(n)

\* A completed gateway payment was paid by the customer, and for that invoice:
\* no notification settles the invoice of another order.
SettledWasCharged == \A n \in PaymentNos :
    Completed(n) /\ payment[n].method = "gateway" =>
        charge[n].state = "paid" /\ charge[n].inv = payment[n].inv

\* What the gateway and the books say of one another agrees, when no process
\* dies: no success is answered to a payment that stays open, none is completed
\* without its invoice, and none on the word of another order.
GatewayAgrees == AckedIsCompleted /\ CompletedSettles /\ SettledWasCharged

\* Every transaction ends: no lock outlives its transaction, and sessions that
\* wait in a circle (two that drew the same payment number, say, one of them
\* holding the distributor the other's foreign key needs) do not wait forever.
Finishes == \A s \in Sessions : pc[s] # "idle" ~> pc[s] = "idle"

\* What the customer paid in full is credited to a payment in the end, however
\* many notifications fail on the way; unless balance payments go on forever,
\* each drawing the number of the payment and winning the deadlock that makes.
CollectedIsCompleted ==
    <>[][\A s \in Sessions : ~StartPayByBalance(s)]_vars =>
        \A n \in PaymentNos :
            charge[n].state = "paid" /\ charge[n].amount = TotalOf[charge[n].inv]
                ~> Completed(n)

\* Sessions and locks implement the atomic ledger.
Atomic == INSTANCE Ledger
LedgerSpec == Atomic!Spec

\* "Still record the callback but don't double-charge" (payment_service.cc:286):
\* no invoice is paid for twice.
NotChargedTwice == \A n, m \in PaymentNos :
    /\ Completed(n) /\ Completed(m)
    /\ payment[n].inv = payment[m].inv /\ payment[n].inv # Nobody
    => n = m
===============================================================================
