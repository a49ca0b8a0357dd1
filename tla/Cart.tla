--------------------------------- MODULE Cart ---------------------------------
(***************************************************************************)
(* The cart of cart_controller.cc, a Redis hash per distributor, and the    *)
(* order OrderService::createOrder makes of it.  Each Redis command and      *)
(* each SQL statement is a step: the cart is read before the transaction    *)
(* of the order begins and deleted inside it, and Redis takes no part in    *)
(* its rollback.  Two tables with unique numbers, counted up by the         *)
(* requests themselves, are all that keeps two orders apart.                *)
(***************************************************************************)
EXTENDS Integers, FiniteSets

CONSTANTS
    Distributors,
    Threads,         \* requests served at a time
    Products, Quantities, Months,
    Absent,
    Base,            \* 10000: what the last four digits of a number can tell apart
    MaxItems,        \* bound: items ever added to a cart
    MaxOrders,       \* bound: no submission starts when so many are placed
    MaxCrashes       \* bound: crashes of the backend

ItemIds == 1..MaxItems
Values == Products \X Quantities \X Months
Empty == [i \in ItemIds |-> Absent]

CartAssumption ==
    /\ MaxItems \in Nat /\ MaxOrders \in Nat /\ MaxCrashes \in Nat
    /\ Base \in Nat \ {0}
    /\ Distributors # {} /\ Absent \notin Values

VARIABLES
    seq,        \* cart:{d}:seq, the last item id given out
    cart,       \* cart:{d}
    ttl,        \* the key cart:{d} has an expiry
    orders,     \* committed orders: number, distributor, lines
    subNos,     \* numbers of the committed subscriptions
    pc, who,    \* next statement of each request, and its distributor
    item, value,\* the item it puts or changes
    lines,      \* the cart it has read
    todo,       \* number of order lines it has no subscription for yet
    number,     \* the number it has drawn last
    order,      \* the order number it has inserted, 0 before
    mySubs,     \* the subscription numbers it has inserted
    crashes

redis   == <<seq, cart, ttl>>
tables  == <<orders, subNos>>
request == <<who, item, value, lines, todo, number, order, mySubs>>
vars    == <<redis, tables, pc, request, crashes>>

None == CHOOSE d \in Distributors : TRUE

Init ==
    /\ seq = [d \in Distributors |-> 0]
    /\ cart = [d \in Distributors |-> Empty]
    /\ ttl = [d \in Distributors |-> FALSE]
    /\ orders = {}
    /\ subNos = {}
    /\ pc = [t \in Threads |-> "idle"]
    /\ who = [t \in Threads |-> None]
    /\ item = [t \in Threads |-> 0]
    /\ value = [t \in Threads |-> Absent]
    /\ lines = [t \in Threads |-> Empty]
    /\ todo = [t \in Threads |-> 0]
    /\ number = [t \in Threads |-> 0]
    /\ order = [t \in Threads |-> 0]
    /\ mySubs = [t \in Threads |-> {}]
    /\ crashes = 0

Goto(t, label) == pc' = [pc EXCEPT ![t] = label]
Items(content) == {i \in ItemIds : content[i] # Absent}

\* A request that ends, or whose transaction rolls back, leaves nothing.
Forget(T) ==
    /\ pc'     = [t \in Threads |-> IF t \in T THEN "idle" ELSE pc[t]]
    /\ who'    = [t \in Threads |-> IF t \in T THEN None ELSE who[t]]
    /\ item'   = [t \in Threads |-> IF t \in T THEN 0 ELSE item[t]]
    /\ value'  = [t \in Threads |-> IF t \in T THEN Absent ELSE value[t]]
    /\ lines'  = [t \in Threads |-> IF t \in T THEN Empty ELSE lines[t]]
    /\ todo'   = [t \in Threads |-> IF t \in T THEN 0 ELSE todo[t]]
    /\ number' = [t \in Threads |-> IF t \in T THEN 0 ELSE number[t]]
    /\ order'  = [t \in Threads |-> IF t \in T THEN 0 ELSE order[t]]
    /\ mySubs' = [t \in Threads |-> IF t \in T THEN {} ELSE mySubs[t]]

-------------------------------------------------------------------------------
\* POST /cart/items: INCR, HSET, EXPIRE.

\* Mutant: the item id is not counted up.
AddItemUncounted(t, d, v) ==
    /\ pc[t] = "idle"
    /\ seq[d] < MaxItems
    /\ Goto(t, "put")
    /\ who' = [who EXCEPT ![t] = d]
    /\ item' = [item EXCEPT ![t] = seq[d] + 1]
    /\ value' = [value EXCEPT ![t] = v]
    /\ UNCHANGED <<redis, tables, lines, todo, number, order, mySubs, crashes>>
AddItem(t, d, v) ==
    /\ pc[t] = "idle"
    /\ seq[d] < MaxItems
    /\ seq' = [seq EXCEPT ![d] = @ + 1]
    /\ Goto(t, "put")
    /\ who' = [who EXCEPT ![t] = d]
    /\ item' = [item EXCEPT ![t] = seq[d] + 1]
    /\ value' = [value EXCEPT ![t] = v]
    /\ UNCHANGED <<cart, ttl, tables, lines, todo, number, order, mySubs, crashes>>

Store(t) == cart' = [cart EXCEPT ![who[t]][item[t]] = value[t]]

PutItem(t) ==
    /\ pc[t] = "put"
    /\ Store(t)
    /\ Goto(t, "expire")
    /\ UNCHANGED <<seq, ttl, tables, request, crashes>>

\* EXPIRE does nothing when the key is gone by now.
SetExpiry(t) ==
    /\ pc[t] = "expire"
    /\ ttl' = [ttl EXCEPT ![who[t]] = cart[who[t]] # Empty]
    /\ Forget({t})
    /\ UNCHANGED <<seq, cart, tables, crashes>>

-------------------------------------------------------------------------------
\* PUT /cart/items/{id}: HEXISTS, HGET, HSET.

UpdateItem(t, d, i) ==
    /\ pc[t] = "idle"
    /\ cart[d][i] # Absent
    /\ Goto(t, "get")
    /\ who' = [who EXCEPT ![t] = d]
    /\ item' = [item EXCEPT ![t] = i]
    /\ UNCHANGED <<redis, tables, value, lines, todo, number, order, mySubs, crashes>>

\* Nothing is left to parse when the item has gone since.
GetMissing(t) ==
    /\ pc[t] = "get"
    /\ cart[who[t]][item[t]] = Absent
    /\ Forget({t})
    /\ UNCHANGED <<redis, tables, crashes>>

\* The body names the quantity, the months or both, and what it does not name is
\* the old value: any quantity and months come out, of the product there was.
GetItem(t) ==
    /\ pc[t] = "get"
    /\ cart[who[t]][item[t]] # Absent
    /\ \E q \in Quantities, m \in Months :
          value' = [value EXCEPT ![t] = <<cart[who[t]][item[t]][1], q, m>>]
    /\ Goto(t, "putback")
    /\ UNCHANGED <<redis, tables, who, item, lines, todo, number, order, mySubs, crashes>>

\* Mutant: the change is lost on the way back.
PutBackDefault(t) ==
    /\ pc[t] = "putback"
    /\ cart' = [cart EXCEPT ![who[t]][item[t]] = CHOOSE v \in Values : TRUE]
    /\ Forget({t})
    /\ UNCHANGED <<seq, ttl, tables, crashes>>
PutBack(t) ==
    /\ pc[t] = "putback"
    /\ Store(t)
    /\ Forget({t})
    /\ UNCHANGED <<seq, ttl, tables, crashes>>

-------------------------------------------------------------------------------
\* DELETE /cart/items/{id} is one HDEL, which deletes a key it leaves empty.
RemoveItem(d, i) ==
    /\ \E t \in Threads : pc[t] = "idle"
    /\ cart[d][i] # Absent
    /\ cart' = [cart EXCEPT ![d][i] = Absent]
    /\ ttl' = [ttl EXCEPT ![d] = @ /\ Items(cart[d]) # {i}]
    /\ UNCHANGED <<seq, tables, pc, request, crashes>>

\* Seven days after the last item was added.
CartExpires(d) ==
    /\ ttl[d]
    /\ cart' = [cart EXCEPT ![d] = Empty]
    /\ ttl' = [ttl EXCEPT ![d] = FALSE]
    /\ UNCHANGED <<seq, tables, pc, request, crashes>>

-------------------------------------------------------------------------------
\* POST /orders: createOrder.

Submit(t, d) ==
    /\ pc[t] = "idle"
    /\ cart[d] # Empty
    /\ Cardinality(orders) < MaxOrders
    /\ who' = [who EXCEPT ![t] = d]
    /\ lines' = [lines EXCEPT ![t] = cart[d]]
    /\ Goto(t, "validate")
    /\ UNCHANGED <<redis, tables, item, value, todo, number, order, mySubs, crashes>>

\* A product is gone or has no price: std::invalid_argument.
Refuse(t) ==
    /\ pc[t] = "validate"
    /\ Forget({t})
    /\ UNCHANGED <<redis, tables, crashes>>

Taken == {o.no : o \in orders}

\* MAX(last four digits) + 1 over the rows this transaction can see.
NextNumber(visible) ==
    LET tails == {n % Base : n \in visible} \cup {0}
    IN  1 + CHOOSE n \in tails : \A m \in tails : m <= n

DrawOrderNo(t) ==
    /\ pc[t] = "validate"
    /\ number' = [number EXCEPT ![t] = NextNumber(Taken)]
    /\ Goto(t, "insert")
    /\ UNCHANGED <<redis, tables, who, item, value, lines, todo, order, mySubs, crashes>>

\* A number another transaction has inserted makes the INSERT wait for its end.
\* Mutant: no unique index.
OrderNoUnchecked(t) == TRUE
OrderNoFree(t) == \A s \in Threads \ {t} : order[s] # number[t]

InsertOrder(t) ==
    /\ pc[t] = "insert"
    /\ OrderNoFree(t) /\ number[t] \notin Taken
    /\ order' = [order EXCEPT ![t] = number[t]]
    /\ todo' = [todo EXCEPT ![t] = Cardinality(Items(lines[t]))]
    /\ Goto(t, "lines")
    /\ UNCHANGED <<redis, tables, who, item, value, lines, number, mySubs, crashes>>

OrderNoTaken(t) ==
    /\ pc[t] = "insert"
    /\ OrderNoFree(t) /\ number[t] \in Taken
    /\ Forget({t})
    /\ UNCHANGED <<redis, tables, crashes>>

DrawSubNo(t) ==
    /\ pc[t] = "lines" /\ todo[t] > 0
    /\ number' = [number EXCEPT ![t] = NextNumber(subNos \cup mySubs[t])]
    /\ Goto(t, "sub")
    /\ UNCHANGED <<redis, tables, who, item, value, lines, todo, order, mySubs, crashes>>

SubNoFree(t) == \A s \in Threads \ {t} : number[t] \notin mySubs[s]

\* Or the second unique index, of sub_no, refuses the number.
InsertSub(t) ==
    /\ pc[t] = "sub" /\ SubNoFree(t)
    /\ IF number[t] \in subNos
       THEN Forget({t})
       ELSE /\ mySubs' = [mySubs EXCEPT ![t] = @ \cup {number[t]}]
            /\ todo' = [todo EXCEPT ![t] = @ - 1]
            /\ Goto(t, "lines")
            /\ UNCHANGED <<who, item, value, lines, number, order>>
    /\ UNCHANGED <<redis, tables, crashes>>

\* The DEL, inside the lambda.
DeleteCart(t) ==
    /\ cart' = [cart EXCEPT ![who[t]] = Empty]
    /\ ttl' = [ttl EXCEPT ![who[t]] = FALSE]

ClearCart(t) ==
    /\ pc[t] = "lines" /\ todo[t] = 0
    /\ DeleteCart(t)
    /\ Goto(t, "commit")
    /\ UNCHANGED <<seq, tables, request, crashes>>

\* The COMMIT the destructor has queued.
CommitOrder(t) ==
    /\ pc[t] = "commit"
    /\ orders' = orders \cup {[no |-> order[t], dist |-> who[t], lines |-> lines[t]]}
    /\ subNos' = subNos \cup mySubs[t]
    /\ Forget({t})
    /\ UNCHANGED <<redis, crashes>>

-------------------------------------------------------------------------------
\* Redis or its connection fails: the command, if it changes anything, has been
\* executed or not, and the exception ends the handler and rolls back.
RedisFails(t) ==
    /\ crashes < MaxCrashes
    /\ crashes' = crashes + 1
    /\ \/ pc[t] \in {"put", "expire", "get", "putback"} /\ UNCHANGED <<cart, ttl>>
       \/ /\ pc[t] \in {"put", "putback"}
          /\ Store(t)
                /\ UNCHANGED ttl
       \/ /\ pc[t] = "lines" /\ todo[t] = 0
          /\ DeleteCart(t) \/ UNCHANGED <<cart, ttl>>
    /\ Forget({t})
    /\ UNCHANGED <<seq, tables>>

Crash ==
    /\ crashes < MaxCrashes
    /\ crashes' = crashes + 1
    /\ Forget(Threads)
    /\ UNCHANGED <<redis, tables>>

-------------------------------------------------------------------------------
Statement(t) ==
    \/ PutItem(t) \/ SetExpiry(t)
    \/ GetMissing(t) \/ GetItem(t) \/ PutBack(t)
    \/ Refuse(t) \/ DrawOrderNo(t) \/ InsertOrder(t) \/ OrderNoTaken(t)
    \/ DrawSubNo(t) \/ InsertSub(t)
    \/ ClearCart(t) \/ CommitOrder(t)

Next ==
    \/ \E t \in Threads :
          \/ Statement(t)
          \/ \E d \in Distributors :
                \/ \E v \in Values : AddItem(t, d, v)
                \/ \E i \in ItemIds : UpdateItem(t, d, i)
                \/ Submit(t, d)
          \/ RedisFails(t)
    \/ \E d \in Distributors :
          \/ \E i \in ItemIds : RemoveItem(d, i)
          \/ CartExpires(d)
    \/ Crash

Spec == Init /\ [][Next]_vars

-------------------------------------------------------------------------------
\* Every variable stays in its domain; items in a cart have been numbered.
TypeOK ==
    /\ seq \in [Distributors -> 0..MaxItems]
    /\ cart \in [Distributors -> [ItemIds -> Values \cup {Absent}]]
    /\ \A d \in Distributors : Items(cart[d]) \subseteq 1..seq[d]
    /\ ttl \in [Distributors -> BOOLEAN]
    /\ orders \subseteq [no : Nat, dist : Distributors, lines : [ItemIds -> Values \cup {Absent}]]
    /\ subNos \subseteq Nat
    /\ pc \in [Threads -> {"idle", "put", "expire", "get", "putback", "validate",
                           "insert", "lines", "sub", "commit"}]
    /\ who \in [Threads -> Distributors]
    /\ item \in [Threads -> ItemIds \cup {0}]
    /\ value \in [Threads -> Values \cup {Absent}]
    /\ lines \in [Threads -> [ItemIds -> Values \cup {Absent}]]
    /\ todo \in [Threads -> 0..MaxItems]
    /\ number \in [Threads -> Nat] /\ order \in [Threads -> Nat]
    /\ mySubs \in [Threads -> SUBSET Nat]
    /\ crashes \in 0..MaxCrashes

\* The orders of a day, whoever placed them and whatever failed, are numbered
\* 1, 2, 3 .. without a gap or a repetition, and their subscriptions too.
\* Submissions that race draw the same order number and wait for each other at
\* its index, so no two get as far as numbering subscriptions: the unique index
\* of sub_no is never hit.
NumberedWithoutGaps ==
    /\ Taken = 1..Cardinality(orders)
    /\ subNos = 1..Cardinality(subNos)
    /\ \A t \in Threads : pc[t] = "sub" => SubNoFree(t) /\ number[t] \notin subNos

\* A customer alone with the cart gets what Checkout promises.  From HGETALL to
\* COMMIT the cart counts as what was read, though it may expire in between.
Submitting == {t \in Threads : lines[t] # Empty}
CartSeen ==
    [d \in Distributors |->
        IF \E t \in Submitting : who[t] = d
        THEN lines[CHOOSE t \in Submitting : who[t] = d]
        ELSE cart[d]]
OrdersSeen == {<<o.dist, o.lines>> : o \in orders}

Book == INSTANCE Checkout WITH cart <- CartSeen, orders <- OrdersSeen
CheckoutSpec == Book!Spec
===============================================================================
