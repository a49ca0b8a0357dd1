-------------------------------- MODULE Ledger --------------------------------
(***************************************************************************)
(* What settling an invoice promises, with no sessions, locks or statements *)
(* in sight: every distributor has a balance, every invoice a status, and   *)
(* each operation of balance_service.cc, invoice_service.cc (payByBalance), *)
(* payment_service.cc and dunning_service.cc that touches them happens in   *)
(* one indivisible step.  Settlement.tla is the detailed specification; it  *)
(* implements this one.                                                     *)
(***************************************************************************)
EXTENDS Integers

CONSTANTS
    Distributors,    \* rows of the table distributors
    Invoices,        \* rows of the table invoices
    OwnerOf,         \* invoices.distributor_id
    TotalOf,         \* invoices.total_amount, in cents
    TopUpAmounts,    \* the amounts an administrator may top up
    OpeningBalance   \* distributors.balance at the start

VARIABLES
    balance,         \* distributors.balance
    invoice          \* invoices.status

InvoiceStatus == {"unpaid", "overdue", "paid"}

Init ==
    /\ balance = OpeningBalance
    /\ invoice = [i \in Invoices |-> "unpaid"]

TopUp(d) == \E a \in TopUpAmounts :
    /\ balance' = [balance EXCEPT ![d] = @ + a]
    /\ UNCHANGED invoice

PayFromBalance(i) ==
    /\ invoice[i] = "unpaid"
    /\ balance[OwnerOf[i]] >= TotalOf[i]
    /\ balance' = [balance EXCEPT ![OwnerOf[i]] = @ - TotalOf[i]]
    /\ invoice' = [invoice EXCEPT ![i] = "paid"]

\* The gateway's money never enters a balance; the invoice is settled
\* whatever its status was.
PayByGateway(i) ==
    /\ invoice' = [invoice EXCEPT ![i] = "paid"]
    /\ UNCHANGED balance

MarkOverdue(i) ==
    /\ invoice[i] = "unpaid"
    /\ invoice' = [invoice EXCEPT ![i] = "overdue"]
    /\ UNCHANGED balance

Next ==
    \/ \E d \in Distributors : TopUp(d)
    \/ \E i \in Invoices : PayFromBalance(i) \/ PayByGateway(i) \/ MarkOverdue(i)

Spec == Init /\ [][Next]_<<balance, invoice>>
===============================================================================
