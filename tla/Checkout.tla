------------------------------- MODULE Checkout -------------------------------
(***************************************************************************)
(* What a cart promises the customer who uses it alone: an item is in the   *)
(* cart as it was last changed until it is removed, expires or is ordered,  *)
(* and an order takes the whole cart, each item once.                       *)
(***************************************************************************)
CONSTANTS Distributors, ItemIds, Products, Quantities, Months, Absent

VARIABLES
    cart,     \* the items of each distributor's cart
    orders    \* the contents of the orders placed

vars == <<cart, orders>>

Values == Products \X Quantities \X Months
Empty == [i \in ItemIds |-> Absent]

Init ==
    /\ cart = [d \in Distributors |-> Empty]
    /\ orders = {}

Put(d, i, v) ==
    /\ cart[d][i] = Absent
    /\ cart' = [cart EXCEPT ![d][i] = v]
    /\ UNCHANGED orders

\* A change is of the quantity, of the months or of both, and leaves the product.
Change(d, i, v) ==
    /\ cart[d][i] # Absent
    /\ cart[d][i][1] = v[1]
    /\ cart' = [cart EXCEPT ![d][i] = v]
    /\ UNCHANGED orders

Discard(d, S) ==
    /\ cart' = [cart EXCEPT ![d] = [i \in ItemIds |-> IF i \in S THEN Absent ELSE @[i]]]
    /\ UNCHANGED orders

Order(d) ==
    /\ cart[d] # Empty
    /\ orders' = orders \cup {<<d, cart[d]>>}
    /\ cart' = [cart EXCEPT ![d] = Empty]

Next ==
    \E d \in Distributors :
        \/ \E i \in ItemIds, v \in Values : Put(d, i, v) \/ Change(d, i, v)
        \/ \E S \in SUBSET ItemIds : Discard(d, S)
        \/ Order(d)

Spec == Init /\ [][Next]_vars
===============================================================================
