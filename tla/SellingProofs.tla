------------------------------ MODULE SellingProofs ------------------------------
(***************************************************************************)
(* Proofs about Cart, for any distributors, requests, items and crashes.     *)
(*                                                                          *)
(* Numbering.  Order and subscription numbers are one more than the greatest  *)
(* one that is committed, so racing submissions draw the same.  The index of  *)
(* order_no makes them wait for one another: of those past their INSERT there *)
(* is never more than one (Alone), and it draws its subscription numbers as   *)
(* if nobody else was there.  Both numbers start again from 1 when they reach *)
(* Base, so all this is for a day with less than that (Small).               *)
(*                                                                          *)
(* Then two parts of the system that share no variable with the cart, each   *)
(* an instance of its module with variables and constants of its own: the    *)
(* price chains (Pricing, as Chains) and the distributors (Distributors, as  *)
(* Hierarchy).                                                               *)
(***************************************************************************)
EXTENDS Cart, TLAPS, FiniteSetTheorems, WellFoundedInduction

Contents == [ItemIds -> Values \cup {Absent}]

\* Carts and requests, without the numbers.
CartTypes ==
    /\ seq \in [Distributors -> 0..MaxItems]
    /\ cart \in [Distributors -> Contents]
    /\ \A d \in Distributors : Items(cart[d]) \subseteq 1..seq[d]
    /\ ttl \in [Distributors -> BOOLEAN]
    /\ pc \in [Threads -> {"idle", "put", "expire", "get", "putback", "validate",
                           "insert", "lines", "sub", "commit"}]
    /\ who \in [Threads -> Distributors]
    /\ item \in [Threads -> ItemIds \cup {0}]
    /\ value \in [Threads -> Values \cup {Absent}]
    /\ lines \in [Threads -> Contents]
    /\ \A t \in Threads :
          /\ pc[t] \in {"put", "expire", "get", "putback"} => item[t] \in 1..seq[who[t]]
          /\ pc[t] \in {"put", "putback"} => value[t] \in Values

-------------------------------------------------------------------------------
LEMMA Constant ==
    ASSUME CartAssumption
    PROVE  /\ MaxItems \in Nat /\ MaxOrders \in Nat /\ Base \in Nat /\ Base > 0
           /\ None \in Distributors /\ Absent \notin Values /\ Empty \in Contents
           /\ ItemIds = 1..MaxItems /\ \A i \in ItemIds : Empty[i] = Absent
           /\ Items(Empty) = {}
<1>1. None \in Distributors
  BY DEF CartAssumption, None
<1>. QED BY <1>1 DEF CartAssumption, ItemIds, Empty, Contents, Items

LEMMA InitTypes == ASSUME CartAssumption, Init PROVE CartTypes
BY Constant DEF Init, CartTypes

\* A request that ends has nothing; the others keep what they have.
LEMMA Forgotten ==
    ASSUME CartAssumption, CartTypes, NEW T \in SUBSET Threads, Forget(T)
    PROVE  /\ pc' \in [Threads -> {"idle", "put", "expire", "get", "putback", "validate",
                                   "insert", "lines", "sub", "commit"}]
           /\ who' \in [Threads -> Distributors] /\ item' \in [Threads -> ItemIds \cup {0}]
           /\ value' \in [Threads -> Values \cup {Absent}] /\ lines' \in [Threads -> Contents]
           /\ \A t \in T : pc'[t] = "idle" /\ lines'[t] = Empty
           /\ \A t \in Threads \ T : /\ pc'[t] = pc[t] /\ who'[t] = who[t] /\ item'[t] = item[t]
                                     /\ value'[t] = value[t] /\ lines'[t] = lines[t]
BY Constant DEF Forget, CartTypes

LEMMA ForgetTypes ==
    ASSUME CartAssumption, CartTypes, NEW T \in SUBSET Threads, Forget(T), seq' = seq,
           cart' \in [Distributors -> Contents], ttl' \in [Distributors -> BOOLEAN],
           \A d \in Distributors : Items(cart'[d]) \subseteq 1..seq[d]
    PROVE  CartTypes'
BY Forgotten DEF CartTypes, Items

\* What is stored is an item of the cart that was numbered before.
LEMMA Stored ==
    ASSUME CartAssumption, CartTypes, NEW t \in Threads, pc[t] \in {"put", "putback"}, Store(t)
    PROVE  /\ cart' \in [Distributors -> Contents]
           /\ \A d \in Distributors : Items(cart'[d]) \subseteq 1..seq[d]
<1>1. who[t] \in Distributors /\ item[t] \in 1..seq[who[t]] /\ value[t] \in Values
  BY DEF CartTypes
<1>2. cart' = [cart EXCEPT ![who[t]] = [cart[who[t]] EXCEPT ![item[t]] = value[t]]]
  BY DEF Store
<1>3. [cart[who[t]] EXCEPT ![item[t]] = value[t]] \in Contents
  BY <1>1 DEF CartTypes, Contents
<1>4. cart' \in [Distributors -> Contents]
  BY <1>1, <1>2, <1>3 DEF CartTypes
<1>5. ASSUME NEW d \in Distributors PROVE Items(cart'[d]) \subseteq 1..seq[d]
  <2>1. CASE d # who[t]
    BY <1>2, <2>1 DEF CartTypes
  <2>2. CASE d = who[t]
    <3>1. \A i \in ItemIds : cart'[d][i] = IF i = item[t] THEN value[t] ELSE cart[d][i]
      BY <1>1, <1>2, <2>2 DEF CartTypes, Contents
    <3>2. Items(cart'[d]) \subseteq Items(cart[d]) \cup {item[t]}
      BY <3>1 DEF Items
    <3>. QED BY <1>1, <2>2, <3>2 DEF CartTypes
  <2>. QED BY <2>1, <2>2
<1>. QED BY <1>4, <1>5

LEMMA NextTypes == ASSUME CartAssumption, CartTypes, [Next]_vars PROVE CartTypes'
<1>1. ASSUME NEW t \in Threads, NEW d \in Distributors, NEW v \in Values, AddItem(t, d, v)
      PROVE  CartTypes'
  <2>1. seq' \in [Distributors -> 0..MaxItems] /\ \A e \in Distributors : seq[e] <= seq'[e]
    BY <1>1, Constant DEF AddItem, CartTypes
  <2>2. seq'[d] = seq[d] + 1 /\ seq[d] + 1 \in ItemIds
    BY <1>1, Constant DEF AddItem, CartTypes
  <2>3. \A e \in Distributors : 1..seq[e] \subseteq 1..seq'[e]
    BY <2>1 DEF CartTypes
  <2>4. \A e \in Distributors : Items(cart'[e]) \subseteq 1..seq'[e]
    BY <1>1, <2>3 DEF AddItem, CartTypes
  <2>5. pc' = [pc EXCEPT ![t] = "put"]
    BY <1>1 DEF AddItem, Goto
  <2>6. \A s \in Threads : pc'[s] \in {"put", "expire", "get", "putback"} => item'[s] \in 1..seq'[who'[s]]
    <3>1. item'[t] \in 1..seq'[who'[t]]
      BY <1>1, <2>2, Constant DEF AddItem, CartTypes
    <3>2. \A s \in Threads \ {t} : pc'[s] = pc[s] /\ item'[s] = item[s] /\ who'[s] = who[s]
      BY <1>1, <2>5 DEF AddItem, CartTypes
    <3>. QED BY <2>3, <3>1, <3>2 DEF CartTypes
  <2>. QED BY <1>1, <2>1, <2>2, <2>4, <2>5, <2>6 DEF AddItem, CartTypes
<1>2. ASSUME NEW t \in Threads, PutItem(t) PROVE CartTypes'
  <2>1. pc' = [pc EXCEPT ![t] = "expire"] /\ pc[t] = "put"
    BY <1>2 DEF PutItem, Goto
  <2>. QED BY <1>2, <2>1, Stored DEF PutItem, CartTypes, request
<1>3. ASSUME NEW t \in Threads, SetExpiry(t) PROVE CartTypes'
  <2>1. ttl' \in [Distributors -> BOOLEAN]
    BY <1>3 DEF SetExpiry, CartTypes
  <2>. QED BY <1>3, <2>1, ForgetTypes DEF SetExpiry, CartTypes
<1>4. ASSUME NEW t \in Threads, NEW d \in Distributors, NEW i \in ItemIds, UpdateItem(t, d, i)
      PROVE  CartTypes'
  <2>1. i \in 1..seq[d]
    BY <1>4 DEF UpdateItem, CartTypes, Items
  <2>2. pc' = [pc EXCEPT ![t] = "get"]
    BY <1>4 DEF UpdateItem, Goto
  <2>. QED BY <1>4, <2>1, <2>2 DEF UpdateItem, CartTypes, redis
<1>5. ASSUME NEW t \in Threads, GetItem(t) PROVE CartTypes'
  <2>1. PICK q \in Quantities, m \in Months :
            value' = [value EXCEPT ![t] = <<cart[who[t]][item[t]][1], q, m>>]
    BY <1>5 DEF GetItem
  <2>2. cart[who[t]][item[t]] \in Values
    <3>1. item[t] \in ItemIds /\ who[t] \in Distributors
      BY <1>5, Constant DEF GetItem, CartTypes
    <3>. QED BY <1>5, <3>1 DEF GetItem, CartTypes, Contents
  <2>3. value' \in [Threads -> Values \cup {Absent}] /\ value'[t] \in Values
    BY <2>1, <2>2 DEF Values, CartTypes
  <2>4. pc' = [pc EXCEPT ![t] = "putback"] /\ pc[t] = "get"
    BY <1>5 DEF GetItem, Goto
  <2>. QED BY <1>5, <2>3, <2>4 DEF GetItem, CartTypes, redis
<1>6. ASSUME NEW t \in Threads, PutBack(t) PROVE CartTypes'
  BY <1>6, Stored, ForgetTypes DEF PutBack, CartTypes
<1>7. ASSUME NEW d \in Distributors, NEW i \in ItemIds, RemoveItem(d, i) PROVE CartTypes'
  <2>1. cart' = [cart EXCEPT ![d] = [cart[d] EXCEPT ![i] = Absent]]
    BY <1>7 DEF RemoveItem
  <2>2. cart' \in [Distributors -> Contents]
    BY <2>1 DEF CartTypes, Contents
  <2>3. \A e \in Distributors : Items(cart'[e]) \subseteq Items(cart[e])
    BY <2>1 DEF CartTypes, Contents, Items
  <2>4. ttl' \in [Distributors -> BOOLEAN]
    BY <1>7 DEF RemoveItem, CartTypes
  <2>. QED BY <1>7, <2>2, <2>3, <2>4 DEF RemoveItem, CartTypes, request
<1>8. ASSUME NEW d \in Distributors, cart' = [cart EXCEPT ![d] = Empty], ttl' = [ttl EXCEPT ![d] = FALSE]
      PROVE  /\ cart' \in [Distributors -> Contents] /\ ttl' \in [Distributors -> BOOLEAN]
             /\ \A e \in Distributors : Items(cart'[e]) \subseteq 1..seq[e]
  BY <1>8, Constant DEF CartTypes
<1>9. ASSUME NEW d \in Distributors, CartExpires(d) PROVE CartTypes'
  BY <1>8, <1>9 DEF CartExpires, CartTypes, request
<1>10. ASSUME NEW t \in Threads, NEW d \in Distributors, Submit(t, d) PROVE CartTypes'
  <2>1. pc' = [pc EXCEPT ![t] = "validate"]
    BY <1>10 DEF Submit, Goto
  <2>. QED BY <1>10, <2>1 DEF Submit, CartTypes, redis
<1>11. ASSUME NEW t \in Threads, GetMissing(t) \/ Refuse(t) \/ OrderNoTaken(t) \/ CommitOrder(t)
       PROVE  CartTypes'
  BY <1>11, ForgetTypes DEF GetMissing, Refuse, OrderNoTaken, CommitOrder, redis, CartTypes
<1>12. ASSUME NEW t \in Threads, DrawOrderNo(t) \/ InsertOrder(t) \/ DrawSubNo(t) PROVE CartTypes'
  <2>1. PICK to \in {"insert", "lines", "sub"} : pc' = [pc EXCEPT ![t] = to]
    BY <1>12 DEF DrawOrderNo, InsertOrder, DrawSubNo, Goto
  <2>2. UNCHANGED <<seq, cart, ttl, who, item, value, lines>>
    BY <1>12 DEF DrawOrderNo, InsertOrder, DrawSubNo, redis
  <2>. QED BY <2>1, <2>2 DEF CartTypes
<1>13. ASSUME NEW t \in Threads, InsertSub(t) PROVE CartTypes'
  <2>1. \/ Forget({t})
        \/ pc' = [pc EXCEPT ![t] = "lines"] /\ UNCHANGED <<who, item, value, lines>>
    BY <1>13 DEF InsertSub, Goto
  <2>2. UNCHANGED <<seq, cart, ttl>>
    BY <1>13 DEF InsertSub, redis
  <2>3. CASE Forget({t})
    BY <2>2, <2>3, ForgetTypes DEF CartTypes
  <2>4. CASE pc' = [pc EXCEPT ![t] = "lines"] /\ UNCHANGED <<who, item, value, lines>>
    BY <2>2, <2>4 DEF CartTypes
  <2>. QED BY <2>1, <2>3, <2>4
<1>14. ASSUME NEW t \in Threads, DeleteCart(t)
       PROVE  /\ cart' \in [Distributors -> Contents] /\ ttl' \in [Distributors -> BOOLEAN]
              /\ \A e \in Distributors : Items(cart'[e]) \subseteq 1..seq[e]
  BY <1>8, <1>14 DEF DeleteCart, CartTypes
<1>15. ASSUME NEW t \in Threads, ClearCart(t) PROVE CartTypes'
  <2>1. pc' = [pc EXCEPT ![t] = "commit"]
    BY <1>15 DEF ClearCart, Goto
  <2>. QED BY <1>14, <1>15, <2>1 DEF ClearCart, CartTypes, request
<1>16. ASSUME NEW t \in Threads, RedisFails(t) PROVE CartTypes'
  <2>1. /\ cart' \in [Distributors -> Contents] /\ ttl' \in [Distributors -> BOOLEAN]
        /\ \A e \in Distributors : Items(cart'[e]) \subseteq 1..seq[e]
    BY <1>14, <1>16, Stored DEF RedisFails, CartTypes
  <2>. QED BY <1>16, <2>1, ForgetTypes DEF RedisFails
<1>17. CASE Crash
  BY <1>17, ForgetTypes DEF Crash, redis, CartTypes
<1>18. CASE UNCHANGED vars
  BY <1>18 DEF vars, redis, request, CartTypes
<1>. QED
  BY <1>1, <1>2, <1>3, <1>4, <1>5, <1>6, <1>7, <1>9, <1>10, <1>11, <1>12, <1>13, <1>15, <1>16, <1>17,
     <1>18 DEF Next, Statement

-------------------------------------------------------------------------------
\* Numbering.

\* The day is not over the range of the numbers, with room for one more cart.
Small ==
    /\ Cardinality(orders) < Base
    /\ Cardinality(subNos) + MaxItems <= Base

Past(t) == pc[t] \in {"lines", "sub", "commit"}

\* What holds of the rows and of a request on any day.
Rows ==
    /\ IsFiniteSet(orders) /\ IsFiniteSet(subNos)
    /\ todo \in [Threads -> 0..MaxItems]
    /\ number = [t \in Threads |-> number[t]]
    /\ order = [t \in Threads |-> order[t]]
    /\ mySubs = [t \in Threads |-> mySubs[t]]
    /\ \A t \in Threads : IsFiniteSet(mySubs[t]) /\ (pc[t] = "sub" => todo[t] > 0)

\* The order that is being placed has the next number, and its subscriptions
\* the next numbers; the second says how far t has got.
Inserted(t, m) ==
    /\ mySubs[t] = (Cardinality(subNos) + 1)..(Cardinality(subNos) + m)
    /\ m + todo[t] <= MaxItems
    /\ pc[t] = "sub" => number[t] = Cardinality(subNos) + m + 1

Consecutive ==
    /\ Taken = 1..Cardinality(orders)
    /\ subNos = 1..Cardinality(subNos)
Drawn == \A t \in Threads : pc[t] = "insert" => number[t] \in 1..(Cardinality(orders) + 1)
Placing ==
    \A t \in Threads :
        IF Past(t)
        THEN order[t] = Cardinality(orders) + 1 /\ \E m \in Nat : Inserted(t, m)
        ELSE order[t] = 0 /\ mySubs[t] = {}
Alone == \A s, t \in Threads : Past(s) /\ Past(t) => s = t

Numbered == Consecutive /\ Drawn /\ Placing /\ Alone

CartInv == CartTypes /\ Rows /\ (Small => Numbered)

-------------------------------------------------------------------------------
\* NextNumber, of the numbers given out so far, is the next one.
LEMMA NextOfInterval ==
    ASSUME CartAssumption, NEW k \in Nat, k < Base
    PROVE  NextNumber(1..k) = k + 1
<1>. DEFINE tails == {n % Base : n \in 1..k} \cup {0}
            top == CHOOSE n \in tails : \A m \in tails : m <= n
<1>1. \A n \in 1..k : n % Base = n
  BY Constant
<1>2. tails = 0..k
  BY <1>1
<1>3. \E n \in tails : \A m \in tails : m <= n
  BY <1>2
<1>4. top \in tails /\ \A m \in tails : m <= top
  BY <1>3, Zenon
<1>5. NextNumber(1..k) = 1 + top
  BY DEF NextNumber
<1>. HIDE DEF top, tails
<1>6. top \in 0..k /\ k <= top
  BY <1>2, <1>4
<1>. QED BY <1>5, <1>6

LEMMA ItemsCounted ==
    ASSUME CartAssumption, NEW content
    PROVE  Cardinality(Items(content)) \in 0..MaxItems
<1>1. IsFiniteSet(1..MaxItems) /\ Cardinality(1..MaxItems) = MaxItems
  BY Constant, FS_Interval
<1>2. Items(content) \subseteq 1..MaxItems
  BY DEF Items, ItemIds
<1>. QED BY <1>1, <1>2, FS_Subset, FS_CardinalityType, Constant

LEMMA InitRows == ASSUME CartAssumption, Init PROVE Rows /\ Numbered
<1>1. Cardinality({}) = 0 /\ IsFiniteSet({})
  BY FS_EmptySet
<1>2. Rows
  BY <1>1, Constant DEF Init, Rows
<1>3. Numbered
  BY <1>1 DEF Init, Numbered, Consecutive, Drawn, Placing, Alone, Past, Taken
<1>. QED BY <1>2, <1>3

\* What a request that ends leaves of the numbers.
LEMMA ForgetRows ==
    ASSUME CartAssumption, CartTypes, Rows, NEW T \in SUBSET Threads, Forget(T), UNCHANGED tables
    PROVE  Rows' /\ (Numbered => Numbered')
<1>1. /\ \A t \in T : /\ pc'[t] = "idle" /\ todo'[t] = 0 /\ number'[t] = 0 /\ order'[t] = 0
                      /\ mySubs'[t] = {}
      /\ \A t \in Threads \ T :
            /\ pc'[t] = pc[t] /\ todo'[t] = todo[t] /\ number'[t] = number[t] /\ order'[t] = order[t]
            /\ mySubs'[t] = mySubs[t]
  BY DEF Forget
<1>2. IsFiniteSet({})
  BY FS_EmptySet
<1>3. Rows'
  <2>1. todo' \in [Threads -> 0..MaxItems]
    BY Constant DEF Forget, Rows
  <2>2. /\ number' = [t \in Threads |-> number'[t]] /\ order' = [t \in Threads |-> order'[t]]
        /\ mySubs' = [t \in Threads |-> mySubs'[t]]
    BY DEF Forget
  <2>. QED BY <1>1, <1>2, <2>1, <2>2 DEF Rows, tables
<1>4. ASSUME Numbered PROVE Numbered'
  <2>1. Consecutive' /\ Drawn' /\ Alone'
    BY <1>1, <1>4 DEF Numbered, Consecutive, Drawn, Alone, Past, Taken, tables
  <2>2. Placing'
    BY <1>1, <1>4 DEF Numbered, Placing, Inserted, Past, tables
  <2>. QED BY <2>1, <2>2 DEF Numbered
<1>. QED BY <1>3, <1>4

\* Nor does a step that touches no number and stays before the INSERT.
LEMMA OtherRows ==
    ASSUME CartTypes, Rows, UNCHANGED <<tables, todo, number, order, mySubs>>,
           \A t \in Threads : \/ pc'[t] = pc[t]
                              \/ ~Past(t) /\ pc'[t] \notin {"insert", "lines", "sub", "commit"}
    PROVE  Rows' /\ (Numbered => Numbered')
<1>1. Rows'
  BY DEF Rows, tables, Past
<1>2. ASSUME Numbered PROVE Numbered'
  <2>1. Consecutive' /\ Drawn' /\ Alone'
    BY <1>2 DEF Numbered, Consecutive, Drawn, Alone, Past, Taken, tables
  <2>2. Placing'
    BY <1>2 DEF Numbered, Placing, Inserted, Past, tables
  <2>. QED BY <2>1, <2>2 DEF Numbered
<1>. QED BY <1>1, <1>2

\* A day has no fewer orders after a step than before it.
LEMMA StillSmall ==
    ASSUME CartAssumption, Rows, [Next]_vars, Rows', Small'
    PROVE  Small
<1>1. orders \subseteq orders' /\ subNos \subseteq subNos'
  BY DEF Next, vars, tables, Statement, AddItem, PutItem, SetExpiry, UpdateItem, GetMissing, GetItem,
     PutBack, RemoveItem, CartExpires, Submit, Refuse, DrawOrderNo, InsertOrder, OrderNoTaken,
     DrawSubNo, InsertSub, ClearCart, CommitOrder, RedisFails, Crash
<1>2. /\ IsFiniteSet(orders') /\ IsFiniteSet(subNos')
      /\ IsFiniteSet(orders) /\ IsFiniteSet(subNos)
  BY DEF Rows
<1>3. Cardinality(orders) <= Cardinality(orders') /\ Cardinality(subNos) <= Cardinality(subNos')
  BY <1>1, <1>2, FS_Subset
<1>. QED BY <1>2, <1>3, FS_CardinalityType, Constant DEF Small

LEMMA NextRows ==
    ASSUME CartAssumption, CartTypes, Rows, [Next]_vars
    PROVE  Rows' /\ (Small /\ Numbered => Numbered')
<1>1. ASSUME NEW t \in Threads,
             \/ \E d \in Distributors : \E v \in Values : AddItem(t, d, v)
             \/ PutItem(t)
             \/ \E d \in Distributors : \E i \in ItemIds : UpdateItem(t, d, i)
             \/ GetItem(t)
             \/ \E d \in Distributors : Submit(t, d)
      PROVE  Rows' /\ (Numbered => Numbered')
  <2>1. UNCHANGED <<tables, todo, number, order, mySubs>>
    BY <1>1 DEF AddItem, PutItem, UpdateItem, GetItem, Submit, request
  <2>2. pc[t] \in {"idle", "put", "get"}
    BY <1>1 DEF AddItem, PutItem, UpdateItem, GetItem, Submit
  <2>3. PICK to \in {"put", "expire", "get", "putback", "validate"} : pc' = [pc EXCEPT ![t] = to]
    BY <1>1 DEF AddItem, PutItem, UpdateItem, GetItem, Submit, Goto
  <2>. QED BY <2>1, <2>2, <2>3, OtherRows DEF CartTypes, Past
<1>2. ASSUME NEW t \in Threads,
             SetExpiry(t) \/ GetMissing(t) \/ PutBack(t) \/ Refuse(t) \/ OrderNoTaken(t) \/ RedisFails(t)
      PROVE  Rows' /\ (Numbered => Numbered')
  BY <1>2, ForgetRows DEF SetExpiry, GetMissing, PutBack, Refuse, OrderNoTaken, RedisFails, tables
<1>3. CASE \E d \in Distributors : CartExpires(d) \/ \E i \in ItemIds : RemoveItem(d, i)
  BY <1>3, OtherRows DEF CartExpires, RemoveItem, request
<1>4. CASE Crash
  BY <1>4, ForgetRows DEF Crash, tables
<1>5. CASE UNCHANGED vars
  BY <1>5, OtherRows DEF vars, request
<1>6. ASSUME NEW t \in Threads, DrawOrderNo(t) PROVE Rows' /\ (Small /\ Numbered => Numbered')
  <2>1. pc' = [pc EXCEPT ![t] = "insert"] /\ pc[t] = "validate"
    BY <1>6 DEF DrawOrderNo, Goto
  <2>2. UNCHANGED <<orders, subNos, todo, order, mySubs>>
    BY <1>6 DEF DrawOrderNo, tables
  <2>3. number' = [number EXCEPT ![t] = NextNumber(Taken)]
    BY <1>6 DEF DrawOrderNo
  <2>4. Rows'
    BY <2>1, <2>2, <2>3 DEF Rows, CartTypes
  <2>5. ASSUME Small, Numbered PROVE Numbered'
    <3>1. NextNumber(Taken) = Cardinality(orders) + 1
      BY <2>5, NextOfInterval, FS_CardinalityType DEF Small, Numbered, Consecutive, Rows
    <3>2. Consecutive' /\ Alone'
      BY <2>1, <2>2, <2>5 DEF Numbered, Consecutive, Alone, Past, Taken, CartTypes
    <3>3. Drawn'
      BY <2>1, <2>2, <2>3, <2>5, <3>1, FS_CardinalityType DEF Numbered, Drawn, Rows, CartTypes
    <3>4. Placing'
      BY <2>1, <2>2, <2>3, <2>5 DEF Numbered, Placing, Inserted, Past, Rows, CartTypes
    <3>. QED BY <3>2, <3>3, <3>4 DEF Numbered
  <2>. QED BY <2>4, <2>5
<1>7. ASSUME NEW t \in Threads, InsertOrder(t) PROVE Rows' /\ (Small /\ Numbered => Numbered')
  <2>1. pc' = [pc EXCEPT ![t] = "lines"] /\ pc[t] = "insert"
    BY <1>7 DEF InsertOrder, Goto
  <2>2. UNCHANGED <<orders, subNos, number, mySubs>>
    BY <1>7 DEF InsertOrder, tables
  <2>3. /\ order' = [order EXCEPT ![t] = number[t]]
        /\ todo' = [todo EXCEPT ![t] = Cardinality(Items(lines[t]))]
    BY <1>7 DEF InsertOrder
  <2>4. Rows'
    BY <2>1, <2>2, <2>3, ItemsCounted DEF Rows, CartTypes
  <2>5. ASSUME Numbered PROVE Numbered'
    <3>1. number[t] = Cardinality(orders) + 1
      BY <1>7, <2>1, <2>5, FS_CardinalityType DEF InsertOrder, Numbered, Consecutive, Drawn, Rows
    <3>2. \A s \in Threads \ {t} : ~Past(s)
      BY <1>7, <2>5, <3>1 DEF InsertOrder, OrderNoFree, Numbered, Placing
    <3>3. Consecutive' /\ Drawn'
      BY <2>1, <2>2, <2>5 DEF Numbered, Consecutive, Drawn, Taken, CartTypes
    <3>4. \A s \in Threads \ {t} : pc'[s] = pc[s] /\ order'[s] = order[s] /\ mySubs'[s] = mySubs[s]
      BY <2>1, <2>2, <2>3 DEF CartTypes, Rows
    <3>5. Alone'
      BY <3>2, <3>4 DEF Alone, Past
    <3>6. mySubs'[t] = {} /\ order'[t] = Cardinality(orders) + 1 /\ pc'[t] = "lines"
      BY <2>1, <2>2, <2>3, <2>5, <3>1 DEF Numbered, Placing, Past, Rows, CartTypes
    <3>7. Inserted(t, 0)'
      <4>1. Cardinality(subNos) \in Nat /\ todo'[t] \in 0..MaxItems
        BY <2>4, FS_CardinalityType DEF Rows
      <4>2. (Cardinality(subNos) + 1)..(Cardinality(subNos) + 0) = {} /\ 0 + todo'[t] <= MaxItems
        BY <4>1, Constant
      <4>. QED BY <2>2, <3>6, <4>2 DEF Inserted
    <3>8. Placing'
      BY <2>2, <2>5, <3>2, <3>4, <3>6, <3>7 DEF Numbered, Placing, Past
    <3>. QED BY <3>3, <3>5, <3>8 DEF Numbered
  <2>. QED BY <2>4, <2>5
<1>8. ASSUME NEW t \in Threads, DrawSubNo(t) PROVE Rows' /\ (Small /\ Numbered => Numbered')
  <2>1. pc' = [pc EXCEPT ![t] = "sub"] /\ pc[t] = "lines" /\ todo[t] > 0
    BY <1>8 DEF DrawSubNo, Goto
  <2>2. UNCHANGED <<orders, subNos, todo, order, mySubs>>
    BY <1>8 DEF DrawSubNo, tables
  <2>3. number' = [number EXCEPT ![t] = NextNumber(subNos \cup mySubs[t])]
    BY <1>8 DEF DrawSubNo
  <2>4. Rows'
    BY <2>1, <2>2, <2>3 DEF Rows, CartTypes
  <2>5. ASSUME Small, Numbered PROVE Numbered'
    <3>. DEFINE n == Cardinality(subNos)
    <3>1. n \in Nat /\ n + MaxItems <= Base /\ subNos = 1..n
      BY <2>5, FS_CardinalityType DEF Rows, Small, Numbered, Consecutive
    <3>2. PICK m \in Nat : Inserted(t, m)
      BY <2>1, <2>5 DEF Numbered, Placing, Past
    <3>3. m + 1 <= MaxItems /\ mySubs[t] = (n + 1)..(n + m)
      BY <2>1, <3>2, Constant DEF Inserted, Rows
    <3>4. subNos \cup mySubs[t] = 1..(n + m)
      BY <3>1, <3>3
    <3>5. NextNumber(subNos \cup mySubs[t]) = n + m + 1
      <4>1. n + m \in Nat /\ n + m < Base
        BY <3>1, <3>3, Constant
      <4>. HIDE DEF n
      <4>. QED BY <3>4, <4>1, NextOfInterval
    <3>6. \A s \in Threads \ {t} : /\ pc'[s] = pc[s] /\ order'[s] = order[s] /\ mySubs'[s] = mySubs[s]
                                   /\ number'[s] = number[s] /\ todo'[s] = todo[s]
      BY <2>1, <2>2, <2>3 DEF CartTypes, Rows
    <3>7. Consecutive' /\ Drawn' /\ Alone'
      BY <2>1, <2>2, <2>5, <3>6 DEF Numbered, Consecutive, Drawn, Alone, Past, Taken, CartTypes
    <3>8. Inserted(t, m)'
      BY <2>2, <2>3, <3>2, <3>5 DEF Inserted, Rows
    <3>9. ASSUME NEW s \in Threads, s # t, NEW k, Inserted(s, k) PROVE Inserted(s, k)'
      BY <2>2, <3>6, <3>9 DEF Inserted
    <3>10. Placing'
      BY <2>1, <2>2, <2>5, <3>6, <3>8, <3>9 DEF Numbered, Placing, Past, CartTypes
    <3>. QED BY <3>7, <3>10 DEF Numbered
  <2>. QED BY <2>4, <2>5
<1>9. ASSUME NEW t \in Threads, InsertSub(t) PROVE Rows' /\ (Small /\ Numbered => Numbered')
  <2>1. CASE number[t] \in subNos
    BY <1>9, <2>1, ForgetRows DEF InsertSub
  <2>2. CASE number[t] \notin subNos
    <3>1. pc' = [pc EXCEPT ![t] = "lines"] /\ pc[t] = "sub"
      BY <1>9, <2>2 DEF InsertSub, Goto
    <3>2. /\ mySubs' = [mySubs EXCEPT ![t] = @ \cup {number[t]}]
          /\ todo' = [todo EXCEPT ![t] = @ - 1]
          /\ UNCHANGED <<orders, subNos, number, order>>
      BY <1>9, <2>2 DEF InsertSub, tables
    <3>3. \A s \in Threads \ {t} : /\ pc'[s] = pc[s] /\ order'[s] = order[s] /\ mySubs'[s] = mySubs[s]
                                   /\ number'[s] = number[s] /\ todo'[s] = todo[s]
      BY <3>1, <3>2 DEF CartTypes, Rows
    <3>4. /\ pc'[t] = "lines" /\ mySubs'[t] = mySubs[t] \cup {number[t]} /\ todo'[t] = todo[t] - 1
          /\ todo[t] > 0 /\ order'[t] = order[t]
      BY <3>1, <3>2 DEF CartTypes, Rows
    <3>5. Rows'
      <4>1. todo' \in [Threads -> 0..MaxItems]
        BY <3>2, <3>4, Constant DEF Rows
      <4>2. \A s \in Threads : IsFiniteSet(mySubs'[s])
        BY <3>3, <3>4, FS_AddElement DEF Rows
      <4>. QED BY <3>1, <3>2, <3>3, <3>4, <4>1, <4>2 DEF Rows, CartTypes
    <3>6. ASSUME Numbered PROVE Numbered'
      <4>. DEFINE n == Cardinality(subNos)
      <4>1. n \in Nat
        BY FS_CardinalityType DEF Rows
      <4>2. PICK m \in Nat : Inserted(t, m)
        BY <3>1, <3>6 DEF Numbered, Placing, Past
      <4>3. /\ mySubs[t] = (n + 1)..(n + m) /\ m + todo[t] <= MaxItems
            /\ number[t] = n + m + 1
        BY <3>1, <4>2 DEF Inserted
      <4>4. mySubs'[t] = (n + 1)..(n + (m + 1)) /\ (m + 1) + todo'[t] <= MaxItems
        <5>1. todo[t] \in Int
          BY Constant DEF Rows
        <5>2. (m + 1) + todo'[t] <= MaxItems
          BY <3>4, <4>3, <5>1, Constant
        <5>3. mySubs'[t] = ((n + 1)..(n + m)) \cup {n + m + 1}
          BY <3>4, <4>3
        <5>. HIDE DEF n
        <5>4. ((n + 1)..(n + m)) \cup {n + m + 1} = (n + 1)..(n + (m + 1))
          BY <4>1
        <5>. QED BY <5>2, <5>3, <5>4
      <4>5. Inserted(t, m + 1)'
        BY <3>2, <3>4, <4>4 DEF Inserted
      <4>6. ASSUME NEW s \in Threads, s # t, NEW k, Inserted(s, k) PROVE Inserted(s, k)'
        BY <3>2, <3>3, <4>6 DEF Inserted
      <4>7. Consecutive' /\ Drawn' /\ Alone'
        BY <3>1, <3>2, <3>6 DEF Numbered, Consecutive, Drawn, Alone, Past, Taken, CartTypes
      <4>8. ASSUME NEW s \in Threads
            PROVE  IF Past(s)' THEN order'[s] = Cardinality(orders') + 1 /\ \E k \in Nat : Inserted(s, k)'
                   ELSE order'[s] = 0 /\ mySubs'[s] = {}
        <5>1. CASE s = t
          BY <3>1, <3>2, <3>4, <3>6, <4>5, <5>1 DEF Numbered, Placing, Past
        <5>2. CASE s # t
          BY <3>2, <3>3, <3>6, <4>6, <5>2 DEF Numbered, Placing, Past
        <5>. QED BY <5>1, <5>2
      <4>9. Placing'
        BY <4>8 DEF Placing
      <4>. QED BY <4>7, <4>9 DEF Numbered
    <3>. QED BY <3>5, <3>6
  <2>. QED BY <2>1, <2>2
<1>10. ASSUME NEW t \in Threads, ClearCart(t) PROVE Rows' /\ (Small /\ Numbered => Numbered')
  <2>1. pc' = [pc EXCEPT ![t] = "commit"] /\ pc[t] = "lines"
    BY <1>10 DEF ClearCart, Goto
  <2>2. UNCHANGED <<orders, subNos, todo, number, order, mySubs>>
    BY <1>10 DEF ClearCart, tables, request
  <2>3. Rows'
    BY <2>1, <2>2 DEF Rows, CartTypes
  <2>4. ASSUME Numbered PROVE Numbered'
    <3>1. Consecutive' /\ Drawn' /\ Alone'
      BY <2>1, <2>2, <2>4 DEF Numbered, Consecutive, Drawn, Alone, Past, Taken, CartTypes
    <3>2. \A s \in Threads : \A k : Inserted(s, k) => Inserted(s, k)'
      BY <2>1, <2>2 DEF Inserted, CartTypes
    <3>3. \A s \in Threads : Past(s)' <=> Past(s)
      BY <2>1 DEF Past, CartTypes
    <3>4. Placing'
      BY <2>2, <2>4, <3>2, <3>3 DEF Numbered, Placing
    <3>. QED BY <3>1, <3>4 DEF Numbered
  <2>. QED BY <2>3, <2>4
<1>11. ASSUME NEW t \in Threads, CommitOrder(t) PROVE Rows' /\ (Small /\ Numbered => Numbered')
  <2>. DEFINE row == [no |-> order[t], dist |-> who[t], lines |-> lines[t]]
              N == Cardinality(orders)
              n == Cardinality(subNos)
  <2>1. pc[t] = "commit" /\ orders' = orders \cup {row} /\ subNos' = subNos \cup mySubs[t] /\ Forget({t})
    BY <1>11 DEF CommitOrder
  <2>2. /\ \A s \in Threads \ {t} :
              /\ pc'[s] = pc[s] /\ todo'[s] = todo[s] /\ number'[s] = number[s] /\ order'[s] = order[s]
              /\ mySubs'[s] = mySubs[s]
        /\ pc'[t] = "idle" /\ todo'[t] = 0 /\ number'[t] = 0 /\ order'[t] = 0 /\ mySubs'[t] = {}
    BY <2>1 DEF Forget
  <2>3. Rows'
    <3>1. IsFiniteSet(orders') /\ IsFiniteSet(subNos')
      BY <2>1, FS_AddElement, FS_Union DEF Rows
    <3>2. todo' \in [Threads -> 0..MaxItems]
      BY <2>1, Constant DEF Forget, Rows
    <3>3. /\ number' = [s \in Threads |-> number'[s]] /\ order' = [s \in Threads |-> order'[s]]
          /\ mySubs' = [s \in Threads |-> mySubs'[s]]
      BY <2>1 DEF Forget
    <3>4. IsFiniteSet({})
      BY FS_EmptySet
    <3>. QED BY <2>2, <3>1, <3>2, <3>3, <3>4 DEF Rows
  <2>4. ASSUME Numbered PROVE Numbered'
    <3>1. PICK m \in Nat : Inserted(t, m)
      BY <2>1, <2>4 DEF Numbered, Placing, Past
    <3>2. /\ N \in Nat /\ n \in Nat /\ Taken = 1..N /\ subNos = 1..n
          /\ order[t] = N + 1 /\ mySubs[t] = (n + 1)..(n + m)
      BY <2>1, <2>4, <3>1, FS_CardinalityType DEF Rows, Numbered, Consecutive, Placing, Past, Inserted
    <3>3. row \notin orders
      <4>1. row.no = N + 1 /\ N + 1 \notin 1..N
        BY <3>2
      <4>2. \A o \in orders : o.no \in 1..N
        BY <3>2 DEF Taken
      <4>. QED BY <4>1, <4>2
    <3>4. Cardinality(orders') = N + 1
      BY <2>1, <3>3, FS_AddElement DEF Rows
    <3>5. Taken' = 1..(N + 1)
      <4>1. Taken' = Taken \cup {order[t]}
        <5>1. row.no = order[t]
          OBVIOUS
        <5>. HIDE DEF row
        <5>. QED BY <2>1, <5>1 DEF Taken
      <4>. QED BY <3>2, <4>1
    <3>6. subNos' = 1..(n + m)
      BY <2>1, <3>2
    <3>7. Cardinality(subNos') = n + m
      <4>. HIDE DEF n
      <4>1. 1 \in Int /\ n + m \in Int /\ n + m >= 0
        BY <3>1, <3>2
      <4>2. Cardinality(1..(n + m)) = n + m
        BY <4>1, FS_Interval
      <4>. QED BY <3>6, <4>2
    <3>8. Consecutive'
      BY <3>4, <3>5, <3>6, <3>7 DEF Consecutive
    <3>9. \A s \in Threads \ {t} : ~Past(s)
      BY <2>1, <2>4 DEF Numbered, Alone, Past
    <3>10. Drawn'
      BY <2>2, <2>4, <3>2, <3>4 DEF Numbered, Drawn
    <3>11. Placing' /\ Alone'
      BY <2>2, <2>4, <3>9 DEF Numbered, Placing, Alone, Past
    <3>. QED BY <3>8, <3>10, <3>11 DEF Numbered
  <2>. QED BY <2>3, <2>4
<1>. QED
  BY <1>1, <1>2, <1>3, <1>4, <1>5, <1>6, <1>7, <1>8, <1>9, <1>10, <1>11 DEF Next, Statement

-------------------------------------------------------------------------------
\* Carts, requests and rows are of their types in every reachable state, and
\* while numbers suffice at most one submission is past the INSERT of its order.
THEOREM Invariance == ASSUME CartAssumption PROVE Spec => []CartInv
<1>1. Init => CartInv
  BY InitTypes, InitRows DEF CartInv
<1>2. CartInv /\ [Next]_vars => CartInv'
  BY NextTypes, NextRows, StillSmall DEF CartInv
<1>. QED BY <1>1, <1>2, PTL DEF Spec

\* On a day with fewer orders than the numbers tell apart, the orders and the
\* subscriptions of createOrder are numbered 1, 2, 3 .. whatever the requests
\* that race and fail, and the unique index of sub_no is never hit.
THEOREM Gapless == ASSUME CartAssumption PROVE Spec => [](Small => NumberedWithoutGaps)
<1>1. ASSUME CartInv, Small PROVE NumberedWithoutGaps
  <2>1. CartTypes /\ Rows /\ Numbered
    BY <1>1 DEF CartInv
  <2>2. ASSUME NEW t \in Threads, pc[t] = "sub" PROVE SubNoFree(t) /\ number[t] \notin subNos
    <3>1. PICK m \in Nat : Inserted(t, m)
      BY <2>1, <2>2 DEF Numbered, Placing, Past
    <3>2. number[t] = Cardinality(subNos) + m + 1 /\ Cardinality(subNos) \in Nat
      BY <2>1, <2>2, <3>1, FS_CardinalityType DEF Inserted, Rows
    <3>3. \A s \in Threads \ {t} : mySubs[s] = {}
      BY <2>1, <2>2 DEF Numbered, Placing, Alone, Past
    <3>. QED BY <2>1, <3>2, <3>3 DEF SubNoFree, Numbered, Consecutive
  <2>. QED BY <2>1, <2>2 DEF NumberedWithoutGaps, Numbered, Consecutive
<1>. QED BY <1>1, Invariance, PTL

-------------------------------------------------------------------------------
\* One request at a time: the statements amount to the atomic cart.

\* What the only request t knows agrees with the cart.  A submission may find
\* the cart it has read gone, but not changed.
Ordering == {"validate", "insert", "lines", "sub", "commit"}
Faithful(t) ==
    /\ lines[t] # Empty <=> pc[t] \in Ordering
    /\ pc[t] \in Ordering => cart[who[t]] \in {lines[t], Empty}
    /\ pc[t] = "commit" => cart[who[t]] = Empty
    /\ pc[t] = "put" => cart[who[t]][item[t]] = Absent
    /\ pc[t] = "putback" =>
          LET old == cart[who[t]][item[t]]
          IN  old = Absent \/ old[1] = value[t][1]

LEMMA InitFaithful ==
    ASSUME NEW t \in Threads, CartAssumption, Init
    PROVE  Faithful(t)
BY Constant DEF Init, Faithful, Ordering

LEMMA NextFaithful ==
    ASSUME NEW t, Threads = {t}, CartAssumption, CartTypes, Faithful(t), [Next]_vars
    PROVE  Faithful(t)'
<1>1. ASSUME NEW d \in Distributors, NEW v \in Values, AddItem(t, d, v) PROVE Faithful(t)'
  <2>1. pc'[t] = "put" /\ who'[t] = d /\ item'[t] = seq[d] + 1 /\ lines'[t] = lines[t] /\ cart' = cart
    BY <1>1 DEF AddItem, Goto, CartTypes
  <2>2. seq[d] + 1 \in ItemIds \ Items(cart[d])
    BY <1>1, Constant DEF AddItem, CartTypes
  <2>. QED BY <1>1, <2>1, <2>2 DEF AddItem, Faithful, Ordering, Items
<1>2. CASE PutItem(t)
  BY <1>2 DEF PutItem, Goto, Faithful, Ordering, CartTypes, request
<1>3. ASSUME NEW d \in Distributors, NEW i \in ItemIds, UpdateItem(t, d, i) PROVE Faithful(t)'
  BY <1>3 DEF UpdateItem, Goto, Faithful, Ordering, CartTypes
<1>4. CASE GetItem(t)
  <2>1. PICK v : v[1] = cart[who[t]][item[t]][1] /\ value' = [value EXCEPT ![t] = v]
    BY <1>4 DEF GetItem
  <2>2. pc'[t] = "putback" /\ value'[t] = v /\ UNCHANGED <<cart, who, item, lines>> /\ pc[t] = "get"
    BY <1>4, <2>1 DEF GetItem, Goto, CartTypes, redis
  <2>. QED BY <2>1, <2>2 DEF Faithful, Ordering
<1>5. ASSUME Forget({t}) \/ Forget(Threads) PROVE Faithful(t)'
  BY <1>5 DEF Forget, Faithful, Ordering
<1>6. CASE \/ SetExpiry(t) \/ GetMissing(t) \/ PutBack(t) \/ Refuse(t) \/ OrderNoTaken(t)
           \/ CommitOrder(t) \/ RedisFails(t) \/ Crash
  BY <1>5, <1>6 DEF SetExpiry, GetMissing, PutBack, Refuse, OrderNoTaken, CommitOrder, RedisFails, Crash
<1>7. ASSUME NEW d \in Distributors, NEW i \in ItemIds, RemoveItem(d, i) PROVE Faithful(t)'
  BY <1>7 DEF RemoveItem, Faithful, Ordering, CartTypes, request
<1>8. ASSUME NEW d \in Distributors, CartExpires(d) PROVE Faithful(t)'
  <2>1. /\ UNCHANGED <<pc, who, item, value, lines>>
        /\ \A e \in Distributors : cart'[e] = cart[e] \/ cart'[e] = Empty
    BY <1>8 DEF CartExpires, CartTypes, request
  <2>2. pc[t] = "put" => item[t] \in ItemIds
    BY Constant DEF CartTypes
  <2>3. pc[t] = "putback" => item[t] \in ItemIds
    BY Constant DEF CartTypes
  <2>. QED BY <2>1, <2>2, <2>3, Constant DEF Faithful, Ordering, CartTypes
<1>9. ASSUME NEW d \in Distributors, Submit(t, d) PROVE Faithful(t)'
  BY <1>9 DEF Submit, Goto, Faithful, Ordering, CartTypes, redis
<1>10. CASE DrawOrderNo(t) \/ InsertOrder(t) \/ DrawSubNo(t)
  <2>1. PICK to \in {"insert", "lines", "sub"} : pc' = [pc EXCEPT ![t] = to]
    BY <1>10 DEF DrawOrderNo, InsertOrder, DrawSubNo, Goto
  <2>2. UNCHANGED <<cart, who, item, value, lines>> /\ pc[t] \in Ordering
    BY <1>10 DEF DrawOrderNo, InsertOrder, DrawSubNo, redis, Ordering
  <2>. QED BY <2>1, <2>2 DEF Faithful, Ordering, CartTypes
<1>11. CASE InsertSub(t)
  <2>1. \/ Forget({t})
        \/ pc' = [pc EXCEPT ![t] = "lines"] /\ UNCHANGED <<cart, who, item, value, lines>>
    BY <1>11 DEF InsertSub, Goto, redis
  <2>2. pc[t] = "sub"
    BY <1>11 DEF InsertSub
  <2>3. CASE pc' = [pc EXCEPT ![t] = "lines"] /\ UNCHANGED <<cart, who, item, value, lines>>
    BY <2>2, <2>3 DEF Faithful, Ordering, CartTypes
  <2>. QED BY <1>5, <2>1, <2>3
<1>12. CASE ClearCart(t)
  BY <1>12 DEF ClearCart, DeleteCart, Goto, Faithful, Ordering, CartTypes, request
<1>13. CASE UNCHANGED vars
  BY <1>13 DEF vars, redis, request, Faithful
<1>. QED
  BY <1>1, <1>2, <1>3, <1>4, <1>6, <1>7, <1>8, <1>9, <1>10, <1>11, <1>12, <1>13 DEF Next, Statement

\* The cart as t sees it.
Seen(t) ==
    [d \in Distributors |-> IF lines[t] # Empty /\ who[t] = d THEN lines[t] ELSE cart[d]]

LEMMA SeenByOne ==
    ASSUME NEW t, Threads = {t}
    PROVE  CartSeen = Seen(t) /\ CartSeen' = Seen(t)'
<1>1. ASSUME Submitting = {t} PROVE CartSeen = Seen(t)
  <2>1. lines[t] # Empty
    BY <1>1 DEF Submitting
  <2>2. ASSUME who[t] \in Distributors PROVE (CHOOSE s \in Submitting : who[s] = who[t]) = t
    BY <1>1
  <2>3. ASSUME NEW d \in Distributors
        PROVE  (IF \E s \in Submitting : who[s] = d
                THEN lines[CHOOSE s \in Submitting : who[s] = d] ELSE cart[d])
               = IF who[t] = d THEN lines[t] ELSE cart[d]
    BY <1>1, <2>2
  <2>. QED BY <2>1, <2>3 DEF CartSeen, Seen
<1>2. ASSUME Submitting = {} PROVE CartSeen = Seen(t)
  <2>1. ~(lines[t] # Empty)
    BY <1>2 DEF Submitting
  <2>. QED BY <1>2, <2>1 DEF CartSeen, Seen
<1>3. Submitting = {t} \/ Submitting = {}
  BY DEF Submitting
<1>4. ASSUME Submitting' = {t} PROVE CartSeen' = Seen(t)'
  <2>1. lines'[t] # Empty
    BY <1>4 DEF Submitting
  <2>2. ASSUME who'[t] \in Distributors PROVE (CHOOSE s \in Submitting' : who'[s] = who'[t]) = t
    BY <1>4
  <2>3. ASSUME NEW d \in Distributors
        PROVE  (IF \E s \in Submitting' : who'[s] = d
                THEN lines'[CHOOSE s \in Submitting' : who'[s] = d] ELSE cart'[d])
               = IF who'[t] = d THEN lines'[t] ELSE cart'[d]
    BY <1>4, <2>2
  <2>. QED BY <2>1, <2>3 DEF CartSeen, Seen
<1>5. ASSUME Submitting' = {} PROVE CartSeen' = Seen(t)'
  <2>1. ~(lines'[t] # Empty)
    BY <1>5 DEF Submitting
  <2>. QED BY <1>5, <2>1 DEF CartSeen, Seen
<1>6. Submitting' = {t} \/ Submitting' = {}
  BY DEF Submitting
<1>. QED BY <1>1, <1>2, <1>3, <1>4, <1>5, <1>6

\* Outside a submission the cart as it is seen is the cart as it is.
LEMMA SeenIsCart ==
    ASSUME NEW t, Threads = {t}, CartTypes
    PROVE  /\ lines[t] = Empty => CartSeen = cart
           /\ lines'[t] = Empty /\ CartTypes' => CartSeen' = cart'
BY SeenByOne DEF Seen, CartTypes

\* Steps of Checkout.
LEMMA StoreIsPutOrChange ==
    ASSUME NEW t, Threads = {t}, CartAssumption, CartTypes, CartTypes', Faithful(t),
           pc[t] \in {"put", "putback"}, Store(t), lines'[t] = lines[t], UNCHANGED orders
    PROVE  Book!Next
<1>1. CartSeen = cart /\ CartSeen' = cart'
  BY SeenIsCart DEF Faithful, Ordering
<1>2. OrdersSeen' = OrdersSeen
  BY DEF OrdersSeen
<1>. DEFINE d == who[t]
            i == item[t]
            v == value[t]
<1>3. d \in Distributors /\ i \in ItemIds /\ v \in Values
  BY Constant DEF CartTypes
<1>4. cart' = [cart EXCEPT ![d][i] = v]
  BY DEF Store
<1>5. cart[d][i] = Absent \/ cart[d][i][1] = v[1]
  BY DEF Faithful
<1>6. Book!Put(d, i, v) \/ Book!Change(d, i, v)
  BY <1>1, <1>2, <1>4, <1>5 DEF Book!Put, Book!Change
<1>7. v \in Book!Values
  BY <1>3 DEF Values, Book!Values
<1>. QED BY <1>3, <1>6, <1>7 DEF Book!Next

LEMMA DiscardSteps ==
    ASSUME NEW d \in Distributors, NEW S \in SUBSET ItemIds, UNCHANGED orders,
           CartSeen' = [CartSeen EXCEPT ![d] = [i \in ItemIds |-> IF i \in S THEN Absent ELSE CartSeen[d][i]]]
    PROVE  Book!Next
<1>1. OrdersSeen' = OrdersSeen
  BY DEF OrdersSeen
<1>2. Book!Discard(d, S)
  BY <1>1 DEF Book!Discard
<1>. QED BY <1>2 DEF Book!Next

LEMMA EmptyingSteps ==
    ASSUME NEW d \in Distributors, UNCHANGED orders, CartSeen' = [CartSeen EXCEPT ![d] = Empty]
    PROVE  Book!Next
<1>1. Empty = [i \in ItemIds |-> IF i \in ItemIds THEN Absent ELSE CartSeen[d][i]]
  BY DEF Empty
<1>. QED BY <1>1, DiscardSteps

\* The end of a request that has placed no order.
LEMMA ForgetSteps ==
    ASSUME NEW t, Threads = {t}, CartAssumption, CartTypes, CartTypes', Faithful(t), UNCHANGED orders,
           Forget({t}) \/ Forget(Threads),
           \/ cart' = cart
           \/ pc[t] \in Ordering /\ cart' = [cart EXCEPT ![who[t]] = Empty]
    PROVE  Book!Next \/ UNCHANGED <<CartSeen, OrdersSeen>>
<1>1. lines'[t] = Empty
  BY DEF Forget
<1>2. CartSeen' = cart'
  BY <1>1, SeenIsCart
<1>3. OrdersSeen' = OrdersSeen
  BY DEF OrdersSeen
<1>4. CASE pc[t] \notin Ordering
  BY <1>2, <1>3, <1>4, SeenIsCart DEF Faithful
<1>5. CASE pc[t] \in Ordering
  <2>1. CartSeen = [cart EXCEPT ![who[t]] = lines[t]]
    BY <1>5, SeenByOne DEF Seen, Faithful, CartTypes
  <2>2. who[t] \in Distributors /\ cart'[who[t]] \in {lines[t], Empty}
    BY <1>5 DEF Faithful, CartTypes
  <2>3. \A d \in Distributors \ {who[t]} : cart'[d] = cart[d]
    BY DEF CartTypes
  <2>4. cart \in [Distributors -> Contents] /\ cart' \in [Distributors -> Contents]
    BY DEF CartTypes
  <2>5. CASE cart'[who[t]] = lines[t]
    <3>1. CartSeen = cart'
      BY <2>1, <2>2, <2>3, <2>4, <2>5
    <3>. QED BY <1>2, <1>3, <3>1
  <2>6. CASE cart'[who[t]] = Empty
    <3>1. cart' = [CartSeen EXCEPT ![who[t]] = Empty]
      BY <2>1, <2>2, <2>3, <2>4, <2>6
    <3>. QED BY <1>2, <2>2, <3>1, EmptyingSteps
  <2>. QED BY <2>2, <2>5, <2>6
<1>. QED BY <1>4, <1>5

LEMMA BookSteps ==
    ASSUME NEW t, Threads = {t}, CartAssumption, CartTypes, CartTypes', Faithful(t), [Next]_vars
    PROVE  Book!Next \/ UNCHANGED <<CartSeen, OrdersSeen>>
<1>. DEFINE Goal == Book!Next \/ UNCHANGED <<CartSeen, OrdersSeen>>
<1>1. ASSUME UNCHANGED <<cart, orders, lines>>, lines[t] # Empty => who'[t] = who[t] PROVE Goal
  <2>1. Seen(t)' = Seen(t) /\ OrdersSeen' = OrdersSeen
    BY <1>1 DEF Seen, OrdersSeen
  <2>. QED BY <2>1, SeenByOne
<1>2. ASSUME NEW d \in Distributors, NEW v \in Values, AddItem(t, d, v) PROVE Goal
  BY <1>1, <1>2 DEF AddItem, Faithful, Ordering, tables
<1>3. ASSUME NEW d \in Distributors, NEW i \in ItemIds, UpdateItem(t, d, i) PROVE Goal
  BY <1>1, <1>3 DEF UpdateItem, Faithful, Ordering, redis, tables
<1>4. CASE GetItem(t) \/ DrawOrderNo(t) \/ InsertOrder(t) \/ DrawSubNo(t)
  BY <1>1, <1>4 DEF GetItem, DrawOrderNo, InsertOrder, DrawSubNo, redis, tables
<1>5. CASE UNCHANGED vars
  BY <1>1, <1>5 DEF vars, redis, tables, request
<1>6. CASE PutItem(t)
  BY <1>6, StoreIsPutOrChange DEF PutItem, tables, request
<1>7. CASE PutBack(t)
  <2>1. lines[t] = Empty /\ lines'[t] = Empty
    BY <1>7 DEF PutBack, Forget, Faithful, Ordering
  <2>. QED BY <1>7, <2>1, StoreIsPutOrChange DEF PutBack, tables
<1>8. CASE SetExpiry(t) \/ GetMissing(t) \/ Refuse(t) \/ OrderNoTaken(t) \/ Crash
  BY <1>8, ForgetSteps DEF SetExpiry, GetMissing, Refuse, OrderNoTaken, Crash, redis, tables
<1>9. ASSUME RedisFails(t) PROVE Goal
  <2>1. Forget({t}) /\ UNCHANGED orders
    BY <1>9 DEF RedisFails, tables
  <2>2. ASSUME pc[t] \in {"put", "putback"}, Store(t) PROVE Goal
    <3>1. lines[t] = Empty /\ lines'[t] = Empty
      BY <2>1, <2>2 DEF Forget, Faithful, Ordering
    <3>. QED BY <2>1, <2>2, <3>1, StoreIsPutOrChange
  <2>3. ASSUME cart' = cart \/ (pc[t] = "lines" /\ DeleteCart(t)) PROVE Goal
    BY <2>1, <2>3, ForgetSteps DEF DeleteCart, Ordering
  <2>4. \/ pc[t] \in {"put", "putback"} /\ Store(t)
        \/ cart' = cart
        \/ pc[t] = "lines" /\ DeleteCart(t)
    BY <1>9 DEF RedisFails
  <2>. HIDE DEF Goal
  <2>. QED BY <2>2, <2>3, <2>4
<1>10. ASSUME NEW d \in Distributors, NEW i \in ItemIds, RemoveItem(d, i) PROVE Goal
  <2>1. /\ pc[t] = "idle" /\ UNCHANGED <<lines, orders>>
        /\ cart' = [cart EXCEPT ![d] = [cart[d] EXCEPT ![i] = Absent]]
    BY <1>10 DEF RemoveItem, request, tables
  <2>2. CartSeen = cart /\ CartSeen' = cart'
    BY <2>1, SeenIsCart DEF Faithful, Ordering
  <2>. DEFINE c(b) == [j \in ItemIds |-> IF j \in {i} THEN Absent ELSE b[d][j]]
  <2>3. [cart[d] EXCEPT ![i] = Absent] = c(cart)
    BY DEF CartTypes, Contents
  <2>4. cart' = [cart EXCEPT ![d] = c(cart)]
    <3>. HIDE DEF c
    <3>. QED BY <2>1, <2>3
  <2>5. CartSeen' = [CartSeen EXCEPT ![d] = c(CartSeen)]
    BY <2>2, <2>4, Zenon
  <2>6. OrdersSeen' = OrdersSeen
    BY <2>1 DEF OrdersSeen
  <2>7. Book!Discard(d, {i})
    BY <2>5, <2>6 DEF Book!Discard
  <2>. QED BY <2>7 DEF Book!Next
<1>11. ASSUME NEW d \in Distributors, CartExpires(d) PROVE Goal
  <2>1. UNCHANGED <<orders, lines, who>> /\ cart' = [cart EXCEPT ![d] = Empty]
    BY <1>11 DEF CartExpires, tables, request
  <2>2. CASE lines[t] # Empty /\ who[t] = d
    <3>1. Seen(t)' = Seen(t) /\ OrdersSeen' = OrdersSeen
      BY <2>1, <2>2 DEF Seen, OrdersSeen, CartTypes
    <3>. QED BY <3>1, SeenByOne
  <2>3. CASE ~(lines[t] # Empty /\ who[t] = d)
    <3>1. Seen(t)' = [Seen(t) EXCEPT ![d] = Empty]
      BY <2>1, <2>3 DEF Seen, CartTypes
    <3>. QED BY <2>1, <3>1, SeenByOne, EmptyingSteps
  <2>. QED BY <2>2, <2>3
<1>12. ASSUME NEW d \in Distributors, Submit(t, d) PROVE Goal
  <2>1. /\ lines[t] = Empty /\ lines'[t] = cart[d] /\ who'[t] = d /\ cart[d] # Empty
        /\ UNCHANGED <<cart, orders>>
    BY <1>12 DEF Submit, Faithful, Ordering, CartTypes, redis, tables
  <2>2. Seen(t)' = cart
    BY <2>1 DEF Seen, CartTypes
  <2>3. CartSeen = cart /\ OrdersSeen' = OrdersSeen
    BY <2>1, SeenIsCart DEF OrdersSeen
  <2>. QED BY <2>2, <2>3, SeenByOne
<1>13. CASE InsertSub(t)
  <2>1. UNCHANGED <<cart, orders>> /\ (Forget({t}) \/ UNCHANGED <<who, lines>>)
    BY <1>13 DEF InsertSub, redis, tables
  <2>. QED BY <1>1, <2>1, ForgetSteps
<1>14. CASE ClearCart(t)
  <2>1. /\ UNCHANGED <<orders, lines, who>> /\ pc[t] = "lines"
        /\ cart' = [cart EXCEPT ![who[t]] = Empty]
    BY <1>14 DEF ClearCart, DeleteCart, tables, request
  <2>2. Seen(t)' = Seen(t) /\ OrdersSeen' = OrdersSeen
    BY <2>1 DEF Seen, OrdersSeen, Faithful, Ordering, CartTypes
  <2>. QED BY <2>2, SeenByOne
<1>15. CASE CommitOrder(t)
  <2>. DEFINE d == who[t]
  <2>1. /\ pc[t] = "commit" /\ cart' = cart /\ Forget({t})
        /\ orders' = orders \cup {[no |-> order[t], dist |-> d, lines |-> lines[t]]}
    BY <1>15 DEF CommitOrder, redis
  <2>2. d \in Distributors /\ lines[t] # Empty /\ cart[d] = Empty /\ lines'[t] = Empty
    BY <2>1 DEF CartTypes, Faithful, Ordering, Forget
  <2>3. CartSeen = Seen(t) /\ CartSeen' = cart /\ Seen(t)[d] = lines[t]
    BY <2>1, <2>2, SeenByOne, SeenIsCart DEF Seen
  <2>4. cart = [Seen(t) EXCEPT ![d] = Empty]
    BY <2>2 DEF Seen, CartTypes
  <2>5. OrdersSeen' = OrdersSeen \cup {<<d, lines[t]>>}
    <3>. DEFINE row == [no |-> order[t], dist |-> d, lines |-> lines[t]]
    <3>1. <<row.dist, row.lines>> = <<d, lines[t]>> /\ orders' = orders \cup {row}
      BY <2>1
    <3>. HIDE DEF row
    <3>. QED BY <3>1 DEF OrdersSeen
  <2>6. Book!Empty = Empty
    BY DEF Empty, Book!Empty
  <2>7. Book!Order(d)
    BY <2>2, <2>3, <2>4, <2>5, <2>6 DEF Book!Order
  <2>. QED BY <2>2, <2>7 DEF Book!Next
<1>. QED
  BY <1>2, <1>3, <1>4, <1>5, <1>6, <1>7, <1>8, <1>9, <1>10, <1>11, <1>12, <1>13, <1>14, <1>15
     DEF Next, Statement

\* A customer alone with the cart: with one request at a time, whatever expires,
\* fails or crashes on the way, the Redis commands and statements of addItem,
\* updateItem, removeItem and createOrder do what Checkout does in one step.
THEOREM Implements ==
    ASSUME CartAssumption, NEW t, Threads = {t}
    PROVE  Spec => CheckoutSpec
<1>1. Init => Book!Init
  <2>1. ASSUME Init PROVE Book!Init
    <3>1. lines[t] = Empty /\ cart = [d \in Distributors |-> Empty] /\ orders = {}
      BY <2>1 DEF Init
    <3>2. CartSeen = [d \in Distributors |-> Empty]
      BY <3>1, SeenByOne DEF Seen
    <3>3. OrdersSeen = {}
      BY <3>1 DEF OrdersSeen
    <3>. QED BY <3>2, <3>3 DEF Book!Init, Book!Empty, Empty
  <2>. QED BY <2>1
<1>2. Init => Faithful(t)
  BY InitFaithful
<1>3. CartInv /\ Faithful(t) /\ [Next]_vars => Faithful(t)'
  BY NextFaithful DEF CartInv
<1>4. CartInv /\ CartInv' /\ Faithful(t) /\ [Next]_vars => [Book!Next]_(Book!vars)
  BY BookSteps DEF CartInv, Book!vars
<1>. QED BY <1>1, <1>2, <1>3, <1>4, Invariance, PTL DEF Spec, CheckoutSpec, Book!Spec

-------------------------------------------------------------------------------
(* Induction, for chains of templates and levels of the hierarchy. *)

LEMMA Induct ==
    ASSUME NEW S, 0 \in S, \A n \in Nat : n \in S => n + 1 \in S
    PROVE  Nat \subseteq S
<1> SUFFICES ASSUME Nat \ S # {} PROVE FALSE
  OBVIOUS
<1>1. PICK x \in Nat \ S : \A y \in Nat \ S : <<y, x>> \notin OpToRel(<, Nat)
  BY NatLessThanWellFounded, WFMin
<1>2. x # 0 /\ x \in Nat
  OBVIOUS
<1>3. x - 1 \in Nat /\ (x - 1) + 1 = x /\ x - 1 < x
  BY <1>2
<1>4. x - 1 \notin S
  BY <1>3
<1>5. <<x - 1, x>> \in OpToRel(<, Nat)
  BY <1>2, <1>3 DEF OpToRel
<1>. QED BY <1>1, <1>3, <1>4, <1>5

-------------------------------------------------------------------------------
(* Pricing, for any templates, prices, buyers and administrators. *)

CONSTANTS Buyers, Admins, Templates, Prices, NoRow, NoPrice, LastDay, MaxWrites, MaxDepth, Known, Priced

VARIABLES today, templates, price, assigned, quotePc, kind, first, at, left, quote, steady,
          step, target, writes

Chains == INSTANCE Pricing WITH pc <- quotePc, None <- NoRow, Null <- NoPrice

\* What the chain of a template is, one template after the other.
Climbs(c, x, d) ==
    /\ c[0] = x
    /\ \A n \in 0..(d - 1) :
          c[n + 1] = IF c[n] = NoRow THEN NoRow ELSE Chains!Parent(c[n])

LEMMA ChainClimbs ==
    ASSUME NEW x, NEW d \in Nat
    PROVE  Climbs(Chains!Chain(x, d), x, d)
<1>. DEFINE Upto(m) == \E g : DOMAIN g = 0..m /\ Climbs(g, x, m)
            S == {m \in Nat : Upto(m)}
<1>1. Upto(0)
  <2>1. Climbs([n \in 0..0 |-> x], x, 0)
    BY DEF Climbs
  <2>. QED BY <2>1
<1>2. ASSUME NEW m \in Nat, Upto(m) PROVE Upto(m + 1)
  <2>1. PICK g : DOMAIN g = 0..m /\ Climbs(g, x, m)
    BY <1>2
  <2>. DEFINE next == IF g[m] = NoRow THEN NoRow ELSE Chains!Parent(g[m])
              h == [n \in 0..(m + 1) |-> IF n = m + 1 THEN next ELSE g[n]]
  <2>2. h[0] = x /\ h[m + 1] = next /\ \A n \in 0..m : h[n] = g[n]
    BY <2>1 DEF Climbs
  <2>. HIDE DEF h, next
  <2>3. ASSUME NEW n \in 0..((m + 1) - 1)
        PROVE  h[n + 1] = IF h[n] = NoRow THEN NoRow ELSE Chains!Parent(h[n])
    <3>1. CASE n = m
      <4>1. h[n + 1] = next /\ h[n] = g[m]
        BY <2>2, <3>1
      <4>. QED BY <4>1 DEF next
    <3>2. CASE n # m
      <4>1. n \in 0..(m - 1) /\ n + 1 \in 0..m /\ n \in 0..m
        BY <3>2
      <4>. QED BY <2>1, <2>2, <4>1 DEF Climbs
    <3>. QED BY <3>1, <3>2
  <2>4. DOMAIN h = 0..(m + 1)
    BY DEF h
  <2>. QED BY <2>2, <2>3, <2>4 DEF Climbs
<1>3. Upto(d)
  <2>1. 0 \in S /\ \A m \in Nat : m \in S => m + 1 \in S
    <3>. HIDE DEF Upto
    <3>. QED BY <1>1, <1>2
  <2>2. d \in S
    <3>. HIDE DEF S
    <3>. QED BY <2>1, Induct
  <2>. QED BY <2>2
<1>4. PICK g : DOMAIN g = 0..d /\ Climbs(g, x, d)
  BY <1>3
<1>. DEFINE Above(c, n) == IF n = 0 THEN x ELSE IF c[n-1] = NoRow THEN NoRow ELSE Chains!Parent(c[n-1])
            Up(c) == c = [n \in 0..d |-> Above(c, n)]
            f == [n \in 0..d |-> g[n]]
<1>5. Up(f)
  <2>1. ASSUME NEW n \in 0..d PROVE g[n] = Above(f, n)
    <3>1. CASE n = 0
      BY <1>4, <3>1 DEF Climbs
    <3>2. CASE n # 0
      <4>1. n - 1 \in 0..(d - 1) /\ (n - 1) + 1 = n /\ n - 1 \in 0..d
        BY <3>2
      <4>2. g[n] = IF g[n - 1] = NoRow THEN NoRow ELSE Chains!Parent(g[n - 1])
        BY <1>4, <4>1 DEF Climbs
      <4>. QED BY <3>2, <4>1, <4>2
    <3>. QED BY <3>1, <3>2
  <2>. QED BY <2>1
<1>6. Up(CHOOSE c : Up(c))
  <2>. HIDE DEF Up
  <2>. QED BY <1>5
<1>7. Chains!Chain(x, d) = CHOOSE c : Up(c)
  BY DEF Chains!Chain
<1>8. PICK c : c = Chains!Chain(x, d) /\ Up(c)
  BY <1>6, <1>7
<1>9. c[0] = x
  BY <1>8
<1>10. ASSUME NEW n \in 0..(d - 1)
       PROVE  c[n + 1] = IF c[n] = NoRow THEN NoRow ELSE Chains!Parent(c[n])
  <2>1. n + 1 \in 0..d /\ (n + 1) - 1 = n /\ n + 1 # 0
    OBVIOUS
  <2>. QED BY <1>8, <2>1
<1>. QED BY <1>8, <1>9, <1>10 DEF Climbs
-------------------------------------------------------------------------------
\* The tables are what TypeOK says, and each request a function of the requests.
Shapes ==
    /\ quotePc = [b \in Buyers |-> quotePc[b]] /\ kind = [b \in Buyers |-> kind[b]]
    /\ first = [b \in Buyers |-> first[b]] /\ at = [b \in Buyers |-> at[b]]
    /\ left = [b \in Buyers |-> left[b]] /\ quote = [b \in Buyers |-> quote[b]]
    /\ steady = [b \in Buyers |-> steady[b]]
    /\ step = [a \in Admins |-> step[a]] /\ target = [a \in Admins |-> target[a]]

TemplateTypes ==
    /\ DOMAIN templates \subseteq Templates
    /\ \A x \in DOMAIN templates :
          /\ templates[x] \in Chains!Rows
          /\ templates[x].parent \in DOMAIN templates \cup {NoRow}
    /\ price \in [Templates -> Prices \cup {NoPrice, NoRow}]
    /\ assigned \in DOMAIN templates \cup {NoRow}

Walking == {"price", "parent", "ancestor", "inherit"}
WalkTypes(b) ==
    /\ quotePc[b] \in Walking => at[b] \in DOMAIN templates /\ left[b] \in 1..MaxDepth
    /\ quotePc[b] = "direct" => first[b] \in DOMAIN templates
    /\ quote[b] # NoRow <=> quotePc[b] = "quoted"
AdminTypes(a) == step[a] = "write" => target[a] \in DOMAIN templates

PricingTypes ==
    /\ Shapes /\ TemplateTypes
    /\ \A b \in Buyers : WalkTypes(b)
    /\ \A a \in Admins : AdminTypes(a)

LEMMA InitPricing == Chains!PricingAssumption /\ Chains!Init => PricingTypes
<1>. SUFFICES ASSUME Chains!PricingAssumption, Chains!Init PROVE PricingTypes
  OBVIOUS
<1>1. TemplateTypes
  BY DEF Chains!PricingAssumption, Chains!Init, TemplateTypes
<1>2. Shapes
  BY DEF Chains!Init, Shapes
<1>3. (\A b \in Buyers : WalkTypes(b)) /\ \A a \in Admins : AdminTypes(a)
  BY DEF Chains!Init, WalkTypes, AdminTypes, Walking
<1>. QED BY <1>1, <1>2, <1>3 DEF PricingTypes

\* What a request for a price changes: its own walk.
OwnWalk(b) ==
    /\ UNCHANGED <<today, templates, price, assigned, step, target, writes>>
    /\ \A c \in Buyers \ {b} :
          /\ quotePc'[c] = quotePc[c] /\ kind'[c] = kind[c] /\ first'[c] = first[c] /\ at'[c] = at[c]
          /\ left'[c] = left[c] /\ quote'[c] = quote[c] /\ steady'[c] = steady[c]

LEMMA BuyerShapes ==
    ASSUME Shapes, NEW b \in Buyers, Chains!Ask(b) \/ Chains!Statement(b)
    PROVE  Shapes' /\ OwnWalk(b)
<1>. USE DEF Shapes, OwnWalk, Chains!rows, Chains!admin, Chains!Goto, Chains!Reach, Chains!Quote
<1>1. CASE Chains!Ask(b) BY <1>1 DEF Chains!Ask
<1>2. CASE Chains!User(b) BY <1>2 DEF Chains!User
<1>3. CASE Chains!Distributor(b) BY <1>3 DEF Chains!Distributor
<1>4. CASE Chains!Look(b) BY <1>4 DEF Chains!Look
<1>5. CASE Chains!Up(b) BY <1>5 DEF Chains!Up, Chains!Climb
<1>6. CASE Chains!Default(b) BY <1>6 DEF Chains!Default
<1>7. CASE Chains!Direct(b) BY <1>7 DEF Chains!Direct
<1>8. CASE Chains!Ancestor(b) BY <1>8 DEF Chains!Ancestor
<1>9. CASE Chains!Inherit(b) BY <1>9 DEF Chains!Inherit
<1>10. CASE Chains!Answer(b) BY <1>10 DEF Chains!Answer
<1>. QED BY <1>1, <1>2, <1>3, <1>4, <1>5, <1>6, <1>7, <1>8, <1>9, <1>10 DEF Chains!Statement

LEMMA BuyerTypes ==
    ASSUME Chains!PricingAssumption, PricingTypes, NEW b \in Buyers,
           Chains!Ask(b) \/ Chains!Statement(b)
    PROVE  PricingTypes'
<1>0. Shapes /\ Shapes' /\ OwnWalk(b) /\ TemplateTypes /\ WalkTypes(b) /\ MaxDepth \in Nat \ {0}
      /\ NoRow \notin DOMAIN templates
  BY BuyerShapes DEF PricingTypes, Chains!PricingAssumption, TemplateTypes
<1>1. TemplateTypes' /\ \A a \in Admins : AdminTypes(a)'
  BY <1>0 DEF PricingTypes, TemplateTypes, AdminTypes, OwnWalk
<1>2. ASSUME NEW c \in Buyers \ {b} PROVE WalkTypes(c)'
  BY <1>0 DEF PricingTypes, WalkTypes, OwnWalk
<1>3. \A x \in DOMAIN templates : Chains!Parent(x) \in DOMAIN templates \cup {NoRow}
  BY <1>0 DEF TemplateTypes, Chains!Parent
<1>4. WalkTypes(b)'
  <2>. USE <1>0 DEF Shapes, WalkTypes, Walking, Chains!rows, Chains!admin, Chains!Goto, Chains!Reach, Chains!Quote
  <2>1. CASE Chains!Ask(b) BY <2>1 DEF Chains!Ask
  <2>2. CASE Chains!User(b) BY <2>2 DEF Chains!User
  <2>3. CASE Chains!Distributor(b) BY <2>3 DEF Chains!Distributor, TemplateTypes
  <2>4. CASE Chains!Look(b) BY <2>4 DEF Chains!Look
  <2>5. CASE Chains!Up(b) BY <2>5, <1>3 DEF Chains!Up, Chains!Climb
  <2>6. CASE Chains!Default(b)
    <3>1. quotePc' = [quotePc EXCEPT ![b] = "quoted"] /\ UNCHANGED <<templates, first, at, left>>
      BY <2>6 DEF Chains!Default
    <3>2. \E p : p # NoRow /\ quote' = [quote EXCEPT ![b] = p]
      BY <2>6 DEF Chains!Default, Chains!Defaults, Chains!PricingAssumption
    <3>. QED BY <3>1, <3>2
  <2>7. CASE Chains!Direct(b) BY <2>7 DEF Chains!Direct
  <2>8. CASE Chains!Ancestor(b) BY <2>8, <1>3 DEF Chains!Ancestor
  <2>9. CASE Chains!Inherit(b) BY <2>9 DEF Chains!Inherit
  <2>10. CASE Chains!Answer(b) BY <2>10 DEF Chains!Answer
  <2>. QED BY <2>1, <2>2, <2>3, <2>4, <2>5, <2>6, <2>7, <2>8, <2>9, <2>10 DEF Chains!Statement
<1>. QED BY <1>0, <1>1, <1>2, <1>4 DEF PricingTypes

\* What an administrator, an assignment and the day change: the tables, and
\* with them the steadiness of every walk.
LEMMA AdminStep ==
    ASSUME Chains!PricingAssumption, PricingTypes, Chains!Disturb, UNCHANGED Chains!walk,
           step' = [a \in Admins |-> step'[a]] /\ target' = [a \in Admins |-> target'[a]],
           \A a \in Admins : step'[a] = "write" => step[a] = "write" /\ target'[a] = target[a],
           DOMAIN templates \subseteq DOMAIN templates', TemplateTypes'
    PROVE  PricingTypes'
<1>1. Shapes'
  BY DEF PricingTypes, Shapes, Chains!Disturb, Chains!walk
<1>2. (\A b \in Buyers : WalkTypes(b)') /\ \A a \in Admins : AdminTypes(a)'
  BY DEF PricingTypes, WalkTypes, AdminTypes, Chains!walk
<1>. QED BY <1>1, <1>2 DEF PricingTypes

LEMMA PricingStep ==
    ASSUME Chains!PricingAssumption, PricingTypes, [Chains!Next]_(Chains!vars)
    PROVE  PricingTypes'
<1>. USE DEF Chains!rows, Chains!admin, Chains!Count
<1>0. Shapes /\ TemplateTypes /\ \A a \in Admins : AdminTypes(a)
  BY DEF PricingTypes
<1>1. ASSUME NEW b \in Buyers, Chains!Ask(b) \/ Chains!Statement(b) PROVE PricingTypes'
  BY <1>1, BuyerTypes
<1>2. ASSUME NEW a \in Admins, Chains!Verify(a) PROVE PricingTypes'
  <2>1. UNCHANGED <<templates, price, assigned, quotePc, kind, first, at, left, quote, steady>>
    BY <1>2 DEF Chains!Verify, Chains!walk
  <2>2. Shapes' /\ \A c \in Admins : AdminTypes(c)'
    BY <1>0, <1>2, <2>1 DEF Chains!Verify, Shapes, AdminTypes
  <2>. QED BY <1>0, <2>1, <2>2 DEF PricingTypes, TemplateTypes, WalkTypes
<1>3. ASSUME NEW a \in Admins, Chains!Update(a) PROVE PricingTypes'
  <2>1. PICK new \in Chains!Changed(templates[target[a]]) : templates' = [templates EXCEPT ![target[a]] = new]
    BY <1>3 DEF Chains!Update
  <2>2. target[a] \in DOMAIN templates
    BY <1>0, <1>3 DEF Chains!Update, AdminTypes
  <2>3. TemplateTypes'
    BY <1>0, <1>3, <2>1, <2>2 DEF Chains!Update, Chains!Changed, TemplateTypes
  <2>4. /\ step' = [c \in Admins |-> step'[c]] /\ target' = [c \in Admins |-> target'[c]]
        /\ \A c \in Admins : step'[c] = "write" => step[c] = "write" /\ target'[c] = target[c]
    BY <1>0, <1>3 DEF Chains!Update, Chains!Close, Shapes
  <2>. QED BY <1>3, <2>1, <2>3, <2>4, AdminStep DEF Chains!Update
<1>4. ASSUME NEW a \in Admins, Chains!SetPrice(a) PROVE PricingTypes'
  <2>1. target[a] \in DOMAIN templates
    BY <1>0, <1>4 DEF Chains!SetPrice, AdminTypes
  <2>2. TemplateTypes'
    BY <1>0, <1>4, <2>1 DEF Chains!SetPrice, TemplateTypes
  <2>3. /\ step' = [c \in Admins |-> step'[c]] /\ target' = [c \in Admins |-> target'[c]]
        /\ \A c \in Admins : step'[c] = "write" => step[c] = "write" /\ target'[c] = target[c]
    BY <1>0, <1>4 DEF Chains!SetPrice, Chains!Close, Shapes
  <2>. QED BY <1>4, <2>2, <2>3, AdminStep DEF Chains!SetPrice
<1>5. ASSUME NEW a \in Admins, NEW x \in Templates, Chains!Create(a, x) PROVE PricingTypes'
  <2>1. PICK row \in Chains!Rows :
          /\ row.parent \in DOMAIN templates \cup {NoRow}
          /\ templates' = [y \in DOMAIN templates \cup {x} |-> IF y = x THEN row ELSE templates[y]]
    BY <1>5 DEF Chains!Create
  <2>2. TemplateTypes'
    BY <1>0, <1>5, <2>1 DEF Chains!Create, TemplateTypes
  <2>3. /\ step' = [c \in Admins |-> step'[c]] /\ target' = [c \in Admins |-> target'[c]]
        /\ \A c \in Admins : step'[c] = "write" => step[c] = "write" /\ target'[c] = target[c]
    BY <1>0, <1>5 DEF Chains!Create, Shapes
  <2>. QED BY <1>5, <2>1, <2>2, <2>3, AdminStep DEF Chains!Create
<1>6. ASSUME NEW a \in Admins, NEW x \in Templates, Chains!Delete(a, x) PROVE PricingTypes'
  <2>1. TemplateTypes'
    BY <1>0, <1>6 DEF Chains!Delete, TemplateTypes, Chains!Rows
  <2>2. /\ step' = [c \in Admins |-> step'[c]] /\ target' = [c \in Admins |-> target'[c]]
        /\ \A c \in Admins : step'[c] = "write" => step[c] = "write" /\ target'[c] = target[c]
    BY <1>0, <1>6 DEF Chains!Delete, Shapes
  <2>. QED BY <1>6, <2>1, <2>2, AdminStep DEF Chains!Delete
<1>7. CASE Chains!Assign \/ Chains!NextDay
  <2>1. TemplateTypes'
    BY <1>0, <1>7 DEF Chains!Assign, Chains!NextDay, TemplateTypes
  <2>2. /\ step' = [c \in Admins |-> step'[c]] /\ target' = [c \in Admins |-> target'[c]]
        /\ \A c \in Admins : step'[c] = "write" => step[c] = "write" /\ target'[c] = target[c]
    BY <1>0, <1>7 DEF Chains!Assign, Chains!NextDay, Shapes
  <2>3. DOMAIN templates \subseteq DOMAIN templates' /\ Chains!Disturb /\ UNCHANGED Chains!walk
    BY <1>7 DEF Chains!Assign, Chains!NextDay
  <2>. QED BY <2>1, <2>2, <2>3, AdminStep
<1>8. CASE UNCHANGED Chains!vars
  BY <1>0, <1>8 DEF PricingTypes, Shapes, TemplateTypes, WalkTypes, AdminTypes, Chains!vars, Chains!walk
<1>. QED BY <1>1, <1>2, <1>3, <1>4, <1>5, <1>6, <1>7, <1>8 DEF Chains!Next

LEMMA PricingInvariant == ASSUME Chains!PricingAssumption PROVE Chains!Spec => []PricingTypes
<1>1. Chains!Init => PricingTypes
  BY InitPricing
<1>2. PricingTypes /\ [Chains!Next]_(Chains!vars) => PricingTypes'
  BY PricingStep
<1>. QED BY <1>1, <1>2, PTL DEF Chains!Spec

\* Whatever is created, changed, deleted and asked for at once: a template's
\* parent and the distributors' template are rows of the table, and every walk
\* stands at one with steps left (pricing_service.cc).
THEOREM PricingTypesOK == ASSUME Chains!PricingAssumption PROVE Chains!Spec => []Chains!TypeOK
<1>1. PricingTypes => Chains!TypeOK
  BY DEF PricingTypes, TemplateTypes, WalkTypes, AdminTypes, Walking, Chains!TypeOK
<1>. QED BY <1>1, PricingInvariant, PTL
-------------------------------------------------------------------------------
\* The chain a request that is charged climbs, and how far it has come.
Path == Chains!Chain(assigned, MaxDepth - 1)
Height(b) == MaxDepth - left[b]
Passed(h) == \A m \in 0..(h - 1) : ~Chains!Sells(Path[m])

\* While nothing changes, a walk stands on the chain of the distributors'
\* template and has passed by templates that do not sell.
Climbed(b) ==
    /\ quotePc[b] \in {"price", "parent"} => Path[Height(b)] = at[b] /\ Passed(Height(b))
    /\ quotePc[b] = "parent" => ~Chains!Sells(at[b])
    /\ quotePc[b] = "default" => Passed(MaxDepth)
    /\ quotePc[b] = "quoted" => quote[b] \in Chains!Right(assigned, MaxDepth - 1)
Charged(b) ==
    /\ quotePc[b] \in {"direct", "ancestor", "inherit"} => kind[b] # "charged"
    /\ steady[b] /\ kind[b] = "charged" => Climbed(b)
AllCharged == \A b \in Buyers : Charged(b)

LEMMA InitCharged == Chains!Init => \A b \in Buyers : Charged(b)
BY DEF Chains!Init, Charged, Climbed

\* The chain is a function of the tables.
LEMMA SameChain ==
    ASSUME UNCHANGED <<today, templates, price, assigned>>
    PROVE  /\ Path' = Path /\ \A h : Passed(h)' = Passed(h)
           /\ Chains!Right(assigned, MaxDepth - 1)' = Chains!Right(assigned, MaxDepth - 1)
           /\ \A x : Chains!Sells(x)' = Chains!Sells(x)
BY DEF Path, Passed, Chains!Chain, Chains!Right, Chains!Sells, Chains!InForce, Chains!Live,
       Chains!Parent, Chains!Defaults

\* Who does not move finds the tables as they were.
LEMMA SameTables ==
    ASSUME UNCHANGED <<today, templates, price, assigned>>, NEW b \in Buyers, Charged(b),
           quotePc'[b] = quotePc[b], kind'[b] = kind[b], at'[b] = at[b], left'[b] = left[b],
           quote'[b] = quote[b], steady'[b] = steady[b]
    PROVE  Charged(b)'
<1>1. /\ Path' = Path /\ \A h : Passed(h)' = Passed(h)
      /\ Chains!Right(assigned, MaxDepth - 1)' = Chains!Right(assigned, MaxDepth - 1)
      /\ \A x : Chains!Sells(x)' = Chains!Sells(x)
  BY SameChain
<1>2. Height(b)' = Height(b)
  BY DEF Height
<1>. QED BY <1>1, <1>2 DEF Charged, Climbed

\* One statement of a request that is charged.
LEMMA ChargedMoves ==
    ASSUME Chains!PricingAssumption, PricingTypes, NEW b \in Buyers, Charged(b),
           Chains!Ask(b) \/ Chains!Statement(b)
    PROVE  Charged(b)'
<1>0. /\ Shapes /\ Shapes' /\ OwnWalk(b) /\ WalkTypes(b) /\ MaxDepth \in Nat \ {0}
      /\ NoRow \notin DOMAIN templates
  BY BuyerShapes DEF PricingTypes, Chains!PricingAssumption, TemplateTypes
<1>1. /\ Path' = Path /\ \A h : Passed(h)' = Passed(h)
      /\ Chains!Right(assigned, MaxDepth - 1)' = Chains!Right(assigned, MaxDepth - 1)
      /\ \A x : Chains!Sells(x)' = Chains!Sells(x)
  BY <1>0, SameChain DEF OwnWalk
<1>2. Climbs(Path, assigned, MaxDepth - 1)
  BY <1>0, ChainClimbs DEF Path
<1>. USE <1>0 DEF Shapes, Chains!rows, Chains!admin, Chains!Goto, Chains!Reach
<1>3. CASE Chains!Ask(b)
  BY <1>3 DEF Chains!Ask, Charged, Climbed
<1>4. CASE Chains!User(b)
  BY <1>4 DEF Chains!User, Charged, Climbed
<1>5. CASE Chains!Distributor(b)
  <2>1. left'[b] = MaxDepth /\ at'[b] = assigned /\ quotePc'[b] = IF assigned = NoRow THEN "default" ELSE "price"
    BY <1>5 DEF Chains!Distributor
  <2>2. Path[0] = assigned
    BY <1>2 DEF Climbs
  <2>3. CASE assigned # NoRow
    <3>1. Height(b)' = 0
      BY <2>1 DEF Height
    <3>2. Passed(0)
      BY DEF Passed
    <3>. QED BY <1>1, <2>1, <2>2, <2>3, <3>1, <3>2 DEF Charged, Climbed
  <2>4. CASE assigned = NoRow
    <3>. DEFINE S == {m \in Nat : m <= MaxDepth - 1 => Path[m] = NoRow}
    <3>1. 0 \in S
      BY <2>2, <2>4
    <3>2. ASSUME NEW m \in Nat, m \in S PROVE m + 1 \in S
      BY <1>2, <3>2 DEF Climbs
    <3>3. Nat \subseteq S
      <4>. HIDE DEF S
      <4>. QED BY <3>1, <3>2, Induct
    <3>4. Passed(MaxDepth)
      BY <3>3 DEF Passed, Chains!Sells
    <3>. QED BY <1>1, <2>1, <2>4, <3>4 DEF Charged, Climbed
  <2>. QED BY <2>3, <2>4
<1>6. CASE Chains!Look(b)
  <2>1. at[b] \in DOMAIN templates /\ left[b] \in 1..MaxDepth
    BY <1>6 DEF Chains!Look, WalkTypes, Walking
  <2>2. UNCHANGED <<kind, at, left, steady>>
    BY <1>6 DEF Chains!Look
  <2>3. CASE Chains!Sells(at[b])
    <3>1. quotePc'[b] = "quoted" /\ quote'[b] = price[at[b]]
      BY <1>6, <2>3 DEF Chains!Look, Chains!Sells, Chains!Quote
    <3>2. ASSUME steady[b], kind[b] = "charged" PROVE quote'[b] \in Chains!Right(assigned, MaxDepth - 1)
      <4>. DEFINE h == Height(b)
      <4>1. Path[h] = at[b] /\ Passed(h) /\ h \in 0..(MaxDepth - 1)
        BY <1>6, <2>1, <3>2 DEF Chains!Look, Charged, Climbed, Height
      <4>. HIDE DEF h
      <4>2. Chains!Sells(Path[h]) /\ \A m \in 0..(h - 1) : ~Chains!Sells(Path[m])
        BY <2>3, <4>1 DEF Passed
      <4>. QED BY <3>1, <4>1, <4>2 DEF Chains!Right, Path
    <3>. QED BY <1>1, <2>2, <3>1, <3>2 DEF Charged, Climbed
  <2>4. CASE ~Chains!Sells(at[b])
    <3>1. quotePc'[b] = "parent"
      BY <1>6, <2>1, <2>4 DEF Chains!Look, Chains!Sells
    <3>2. Height(b)' = Height(b)
      BY <2>2 DEF Height
    <3>. QED BY <1>1, <1>6, <2>2, <2>4, <3>1, <3>2 DEF Charged, Climbed, Chains!Look
  <2>. QED BY <2>3, <2>4
<1>7. CASE Chains!Up(b)
  <2>1. at[b] \in DOMAIN templates /\ left[b] \in 1..MaxDepth /\ quotePc[b] = "parent"
    BY <1>7 DEF Chains!Up, WalkTypes, Walking
  <2>2. /\ UNCHANGED <<kind, steady>>
        /\ left'[b] = left[b] - 1 /\ at'[b] = Chains!Parent(at[b])
        /\ quotePc'[b] = IF Chains!Parent(at[b]) = NoRow \/ left[b] = 1 THEN "default" ELSE "price"
    BY <1>7 DEF Chains!Up, Chains!Climb
  <2>3. ASSUME steady[b], kind[b] = "charged" PROVE Climbed(b)'
    <3>1. PICK h \in 0..(MaxDepth - 1) : h = Height(b) /\ Height(b)' = h + 1
      BY <2>1, <2>2 DEF Height
    <3>2. Path[h] = at[b] /\ Passed(h) /\ ~Chains!Sells(at[b])
      BY <2>1, <2>3, <3>1 DEF Charged, Climbed
    <3>3. Passed(h + 1)
      BY <3>2 DEF Passed
    <3>4. left[b] = 1 <=> h + 1 = MaxDepth
      BY <2>1, <3>1 DEF Height
    <3>5. h + 1 # MaxDepth => Path[h + 1] = Chains!Parent(at[b])
      BY <1>2, <2>1, <3>2 DEF Climbs
    <3>6. CASE left[b] = 1
      BY <1>1, <2>2, <3>3, <3>4, <3>6 DEF Climbed
    <3>7. CASE left[b] # 1 /\ Chains!Parent(at[b]) # NoRow
      BY <1>1, <2>2, <3>1, <3>3, <3>4, <3>5, <3>7 DEF Climbed
    <3>8. CASE left[b] # 1 /\ Chains!Parent(at[b]) = NoRow
      <4>. DEFINE S == {m \in Nat : m <= MaxDepth - 1 => m <= h \/ Path[m] = NoRow}
      <4>1. 0 \in S
        OBVIOUS
      <4>2. ASSUME NEW m \in Nat, m \in S PROVE m + 1 \in S
        <5>1. m + 1 <= MaxDepth - 1 =>
                Path[m + 1] = IF Path[m] = NoRow THEN NoRow ELSE Chains!Parent(Path[m])
          BY <1>2 DEF Climbs
        <5>2. m = h => (m + 1 <= MaxDepth - 1 => Path[m + 1] = NoRow)
          BY <3>2, <3>4, <3>5, <3>8
        <5>. QED BY <4>2, <5>1, <5>2
      <4>3. Nat \subseteq S
        <5>. HIDE DEF S
        <5>. QED BY <4>1, <4>2, Induct
      <4>4. \A m \in 0..(MaxDepth - 1) : m > h => ~Chains!Sells(Path[m])
        BY <4>3 DEF Chains!Sells
      <4>5. Passed(MaxDepth)
        BY <3>3, <4>4 DEF Passed
      <4>. QED BY <1>1, <2>2, <3>8, <4>5 DEF Climbed
    <3>. QED BY <3>6, <3>7, <3>8
  <2>. QED BY <1>1, <2>2, <2>3 DEF Charged
<1>8. CASE Chains!Default(b)
  <2>1. UNCHANGED <<kind, steady>> /\ quotePc[b] = "default" /\ quotePc'[b] = "quoted"
    BY <1>8 DEF Chains!Default, Chains!Quote
  <2>2. ASSUME Passed(MaxDepth) PROVE quote'[b] \in Chains!Right(assigned, MaxDepth - 1)
    <3>. DEFINE near == {n \in 0..(MaxDepth - 1) :
                          /\ Chains!Sells(Chains!Chain(assigned, MaxDepth - 1)[n])
                          /\ \A m \in 0..(n - 1) : ~Chains!Sells(Chains!Chain(assigned, MaxDepth - 1)[m])}
    <3>1. near = {}
      BY <2>2 DEF Passed, Path
    <3>2. \/ Chains!Defaults = {} /\ quote'[b] = NoPrice
          \/ Chains!Defaults # {} /\ \E x \in Chains!Defaults : quote'[b] = price[x]
      BY <1>8 DEF Chains!Default, Chains!Quote
    <3>. QED BY <3>1, <3>2 DEF Chains!Right
  <2>. QED BY <1>1, <2>1, <2>2 DEF Charged, Climbed
<1>9. CASE Chains!Direct(b)
  BY <1>9 DEF Chains!Direct, Chains!Quote, Charged
<1>10. CASE Chains!Ancestor(b)
  BY <1>10 DEF Chains!Ancestor, Charged
<1>11. CASE Chains!Inherit(b)
  BY <1>11 DEF Chains!Inherit, Chains!Quote, Charged
<1>12. CASE Chains!Answer(b)
  BY <1>12 DEF Chains!Answer, Charged, Climbed
<1>. QED BY <1>3, <1>4, <1>5, <1>6, <1>7, <1>8, <1>9, <1>10, <1>11, <1>12 DEF Chains!Statement
LEMMA ChargedStep ==
    ASSUME Chains!PricingAssumption, PricingTypes, \A b \in Buyers : Charged(b),
           [Chains!Next]_(Chains!vars)
    PROVE  \A b \in Buyers : Charged(b)'
<1>1. ASSUME NEW b \in Buyers, Chains!Ask(b) \/ Chains!Statement(b) PROVE \A c \in Buyers : Charged(c)'
  <2>1. Charged(b)'
    BY <1>1, ChargedMoves
  <2>2. OwnWalk(b)
    BY <1>1, BuyerShapes DEF PricingTypes
  <2>3. ASSUME NEW c \in Buyers \ {b} PROVE Charged(c)'
    BY <2>2, SameTables DEF OwnWalk
  <2>. QED BY <2>1, <2>3
<1>2. ASSUME Chains!Disturb, UNCHANGED Chains!walk PROVE \A b \in Buyers : Charged(b)'
  BY <1>2 DEF Chains!Disturb, Chains!walk, Charged
<1>3. ASSUME UNCHANGED <<today, templates, price, assigned, Chains!walk, steady>>
      PROVE  \A b \in Buyers : Charged(b)'
  BY <1>3, SameTables DEF Chains!walk
<1>4. ASSUME NEW a \in Admins,
             Chains!Verify(a) \/ Chains!Update(a) \/ Chains!SetPrice(a)
             \/ \E x \in Templates : Chains!Create(a, x) \/ Chains!Delete(a, x)
      PROVE  \A b \in Buyers : Charged(b)'
  <2>1. CASE Chains!Verify(a) BY <1>3, <2>1 DEF Chains!Verify, Chains!rows
  <2>2. CASE Chains!Update(a) BY <1>2, <2>2 DEF Chains!Update
  <2>3. CASE Chains!SetPrice(a) BY <1>2, <2>3 DEF Chains!SetPrice
  <2>4. ASSUME NEW x \in Templates, Chains!Create(a, x) \/ Chains!Delete(a, x)
        PROVE  \A b \in Buyers : Charged(b)'
    BY <1>2, <2>4 DEF Chains!Create, Chains!Delete
  <2>. QED BY <1>4, <2>1, <2>2, <2>3, <2>4
<1>5. CASE Chains!Assign \/ Chains!NextDay
  BY <1>2, <1>5 DEF Chains!Assign, Chains!NextDay
<1>6. CASE UNCHANGED Chains!vars
  BY <1>3, <1>6 DEF Chains!vars, Chains!rows
<1>. QED BY <1>1, <1>4, <1>5, <1>6 DEF Chains!Next

\* Of a chain of rows, the first so many as there are templates are all there
\* are: what comes after them is one of them again.
LEMMA ChainRepeats ==
    ASSUME TemplateTypes, IsFiniteSet(Templates), NoRow \notin Templates, NEW d \in Nat,
           NEW c, Climbs(c, assigned, d), NEW n \in 0..d, c[n] # NoRow
    PROVE  \E m \in 0..(Cardinality(Templates) - 1) : c[m] = c[n]
<1>. DEFINE N == Cardinality(Templates)
<1>0. N \in Nat
  BY FS_CardinalityType
<1>1. CASE n < N
  BY <1>0, <1>1
<1>2. CASE n >= N
  \* c ends for good where it ends.
  <2>1. \A m \in 0..(d - 1) : c[m] = NoRow => c[m + 1] = NoRow
    BY DEF Climbs
  <2>2. ASSUME NEW m \in 0..n, c[m] = NoRow PROVE FALSE
    <3>. DEFINE S == {k \in Nat : m + k <= d => c[m + k] = NoRow}
    <3>1. 0 \in S
      BY <2>2
    <3>2. ASSUME NEW k \in Nat, k \in S PROVE k + 1 \in S
      <4>1. CASE m + (k + 1) <= d
        <5>1. c[m + k] = NoRow /\ m + k \in 0..(d - 1)
          BY <3>2, <4>1
        <5>2. c[(m + k) + 1] = NoRow
          BY <2>1, <5>1
        <5>3. (m + k) + 1 = m + (k + 1)
          OBVIOUS
        <5>. QED BY <5>2, <5>3
      <4>. QED BY <4>1
    <3>3. n - m \in Nat /\ m + (n - m) = n
      OBVIOUS
    <3>4. n - m \in S
      <4>1. Nat \subseteq S
        <5>. HIDE DEF S
        <5>. QED BY <3>1, <3>2, Induct
      <4>. HIDE DEF S
      <4>. QED BY <3>3, <4>1
    <3>. QED BY <3>3, <3>4
  \* Up to n it runs over templates.
  <2>3. \A m \in 0..n : c[m] \in Templates
    <3>. DEFINE S == {m \in Nat : m <= n => c[m] \in DOMAIN templates}
    <3>1. 0 \in S
      BY <2>2 DEF Climbs, TemplateTypes
    <3>2. ASSUME NEW m \in Nat, m \in S PROVE m + 1 \in S
      <4>1. CASE m + 1 <= n
        <5>1. c[m] \in DOMAIN templates /\ m \in 0..(d - 1) /\ m + 1 \in 0..n /\ m \in 0..n
          BY <3>2, <4>1
        <5>2. c[m + 1] # NoRow /\ c[m] # NoRow
          BY <2>2, <5>1
        <5>3. c[m + 1] = Chains!Parent(c[m])
          BY <5>1, <5>2 DEF Climbs
        <5>4. Chains!Parent(c[m]) \in DOMAIN templates \cup {NoRow}
          BY <5>1 DEF TemplateTypes, Chains!Parent
        <5>. QED BY <5>2, <5>3, <5>4
      <4>. QED BY <4>1
    <3>3. Nat \subseteq S
      <4>. HIDE DEF S
      <4>. QED BY <3>1, <3>2, Induct
    <3>. QED BY <3>3 DEF TemplateTypes
  <2>4. PICK x \in 0..N, y \in 0..N : x < y /\ c[x] = c[y]
    <3>. DEFINE f == [m \in 0..N |-> c[m]]
    <3>1. f \in [0..N -> Templates]
      BY <1>0, <1>2, <2>3
    <3>2. IsFiniteSet(0..N) /\ Cardinality(0..N) = N + 1
      BY <1>0, FS_Interval
    <3>3. Cardinality(Templates) < Cardinality(0..N)
      BY <1>0, <3>2
    <3>. HIDE DEF N
    <3>4. \E x, y \in 0..N : x # y /\ f[x] = f[y]
      <4>. HIDE DEF f
      <4>. QED BY <3>1, <3>2, <3>3, FS_PigeonHole
    <3>5. PICK x, y \in 0..N : x # y /\ f[x] = f[y]
      BY <3>4
    <3>6. c[x] = c[y] /\ (x < y \/ y < x)
      BY <1>0, <3>5
    <3>. QED BY <3>6
  \* So everything up to n has occurred before y.
  <2>. DEFINE S == {m \in Nat : m <= n => \E k \in 0..(y - 1) : c[k] = c[m]}
  <2>5. 0 \in S
    BY <1>0, <2>4
  <2>6. ASSUME NEW m \in Nat, m \in S PROVE m + 1 \in S
    <3>1. CASE m + 1 <= n
      <4>1. PICK k \in 0..(y - 1) : c[k] = c[m]
        BY <2>6, <3>1
      <4>2. k \in 0..(d - 1) /\ m \in 0..(d - 1)
        BY <1>0, <1>2, <2>4, <3>1
      <4>3. c[k + 1] = c[m + 1]
        BY <4>1, <4>2 DEF Climbs
      <4>4. CASE k + 1 = y
        BY <1>0, <2>4, <4>3, <4>4
      <4>5. CASE k + 1 # y
        BY <1>0, <2>4, <4>3, <4>5
      <4>. QED BY <4>4, <4>5
    <3>. QED BY <3>1
  <2>7. Nat \subseteq S
    <3>. HIDE DEF S, N
    <3>. QED BY <2>5, <2>6, Induct
  <2>8. \E k \in 0..(y - 1) : c[k] = c[n]
    BY <2>7
  <2>9. (y - 1) <= N - 1
    BY <1>0, <2>4
  <2>. QED BY <1>0, <2>4, <2>8, <2>9
<1>. QED BY <1>0, <1>1, <1>2

\* So the nearest that sells is among them.
LEMMA NearIsEarly ==
    ASSUME TemplateTypes, IsFiniteSet(Templates), NoRow \notin Templates, NEW d \in Nat,
           NEW c, Climbs(c, assigned, d), NEW n \in 0..d,
           Chains!Sells(c[n]), \A m \in 0..(n - 1) : ~Chains!Sells(c[m])
    PROVE  n < Cardinality(Templates)
<1>0. Cardinality(Templates) \in Nat
  BY FS_CardinalityType
<1>1. PICK m \in 0..(Cardinality(Templates) - 1) : c[m] = c[n]
  BY ChainRepeats DEF Chains!Sells
<1>. QED BY <1>0, <1>1

\* And a walk that may visit as many templates as there are misses none.
LEMMA DeepEnough ==
    ASSUME Chains!PricingAssumption, TemplateTypes, IsFiniteSet(Templates),
           Cardinality(Templates) <= MaxDepth
    PROVE  Chains!Right(assigned, MaxDepth - 1) = Chains!Right(assigned, Cardinality(Templates))
<1>. DEFINE N == Cardinality(Templates)
            D == MaxDepth - 1
            near(c, h) == {n \in 0..h : Chains!Sells(c[n]) /\ \A m \in 0..(n - 1) : ~Chains!Sells(c[m])}
<1>0. N \in Nat /\ D \in Nat /\ N - 1 <= D /\ NoRow \notin Templates
  BY FS_CardinalityType DEF Chains!PricingAssumption
<1>1. PICK c : c = Chains!Chain(assigned, D)
  OBVIOUS
<1>2. PICK s : s = Chains!Chain(assigned, N)
  OBVIOUS
<1>3. Climbs(c, assigned, D) /\ Climbs(s, assigned, N)
  BY <1>0, <1>1, <1>2, ChainClimbs
<1>4. /\ \A n \in near(c, D) : n < N
      /\ \A n \in near(s, N) : n < N
  BY <1>0, <1>3, NearIsEarly
<1>. HIDE DEF N, D
<1>5. \A n \in 0..(N - 1) : s[n] = c[n]
  <2>. DEFINE S == {n \in Nat : n < N => s[n] = c[n]}
  <2>1. 0 \in S
    BY <1>3 DEF Climbs
  <2>2. ASSUME NEW n \in Nat, n \in S PROVE n + 1 \in S
    <3>1. n + 1 < N => n \in 0..(N - 1) /\ n \in 0..(D - 1)
      BY <1>0
    <3>. QED BY <1>0, <1>3, <2>2, <3>1 DEF Climbs
  <2>3. Nat \subseteq S
    <3>. HIDE DEF S
    <3>. QED BY <2>1, <2>2, Induct
  <2>. QED BY <1>0, <2>3
<1>6. near(s, N) = near(c, D)
  BY <1>0, <1>4, <1>5
<1>7. Chains!Right(assigned, D) = IF near(c, D) # {} THEN {price[c[n]] : n \in near(c, D)}
                                 ELSE IF Chains!Defaults # {} THEN {price[y] : y \in Chains!Defaults}
                                 ELSE {NoPrice}
  BY <1>1 DEF Chains!Right
<1>8. Chains!Right(assigned, N) = IF near(s, N) # {} THEN {price[s[n]] : n \in near(s, N)}
                                 ELSE IF Chains!Defaults # {} THEN {price[y] : y \in Chains!Defaults}
                                 ELSE {NoPrice}
  BY <1>2 DEF Chains!Right
<1>9. {price[c[n]] : n \in near(c, D)} = {price[s[n]] : n \in near(s, N)}
  <2>1. \A n \in near(c, D) : s[n] = c[n]
    BY <1>0, <1>4, <1>5
  <2>. HIDE DEF near
  <2>. QED BY <1>6, <2>1
<1>10. Chains!Right(assigned, D) = Chains!Right(assigned, N)
  <2>. HIDE DEF near
  <2>. QED BY <1>6, <1>7, <1>8, <1>9
<1>. QED BY <1>10 DEF N, D

LEMMA ChargedInvariant ==
    ASSUME Chains!PricingAssumption
    PROVE  Chains!Spec => [](PricingTypes /\ AllCharged)
<1>1. Chains!Init => AllCharged
  BY InitCharged DEF AllCharged
<1>2. PricingTypes /\ AllCharged /\ [Chains!Next]_(Chains!vars)
        => AllCharged'
  BY ChargedStep DEF AllCharged
<1>. QED BY <1>1, <1>2, PricingInvariant, PTL DEF Chains!Spec

\* However many templates there are: a walk that nothing has disturbed charges
\* what the nearest template in force that has a row for the product holds, be
\* it NULL, among the MaxDepth it may visit, or else the default
\* (pricing_service.cc).
THEOREM NearestWithinDepth ==
    ASSUME Chains!PricingAssumption
    PROVE  Chains!Spec => [](\A b \in Buyers : Chains!Undisturbed(b, "charged") =>
                                quote[b] \in Chains!Right(assigned, MaxDepth - 1))
<1>1. AllCharged =>
        \A b \in Buyers : Chains!Undisturbed(b, "charged") =>
            quote[b] \in Chains!Right(assigned, MaxDepth - 1)
  BY DEF AllCharged, Charged, Climbed, Chains!Undisturbed
<1>. QED BY <1>1, ChargedInvariant, PTL

\* And with no more templates than that, of the nearest there is: a walk that
\* does not end has been round a circle of parents and seen them all.
THEOREM Nearest ==
    ASSUME Chains!PricingAssumption, IsFiniteSet(Templates), Cardinality(Templates) <= MaxDepth
    PROVE  Chains!Spec => []Chains!QuoteIsNearest
<1>1. PricingTypes /\ AllCharged => Chains!QuoteIsNearest
  <2>. SUFFICES ASSUME PricingTypes, AllCharged, NEW b \in Buyers, Chains!Undisturbed(b, "charged")
                PROVE  quote[b] \in Chains!Right(assigned, Cardinality(Templates))
    <3>1. Chains!Cardinality(Templates) = Cardinality(Templates)
      BY DEF Chains!Cardinality, Cardinality
    <3>. QED BY <3>1 DEF Chains!QuoteIsNearest
  <2>1. quote[b] \in Chains!Right(assigned, MaxDepth - 1)
    BY DEF AllCharged, Charged, Climbed, Chains!Undisturbed
  <2>. QED BY <2>1, DeepEnough DEF PricingTypes
<1>. QED BY <1>1, ChargedInvariant, PTL

-------------------------------------------------------------------------------
(* Distributors: the types for any number of requests, and one request at a
   time, which amounts to Forest. *)

CONSTANTS KnownRows, MaxId, Names, Terms, MaxUp, MaxUpdates

VARIABLES rows, distPc, id, copy, distAt, seen, steps, updates

Hierarchy == INSTANCE Distributors WITH
    pc <- distPc, at <- distAt, Known <- KnownRows, MaxDepth <- MaxUp

RowTypes ==
    /\ rows \in [DOMAIN rows -> Hierarchy!Row]
    /\ \E n \in 0..MaxId : DOMAIN rows = 1..n
CallTypes ==
    /\ distPc = [t \in Threads |-> distPc[t]] /\ id = [t \in Threads |-> id[t]]
    /\ copy \in [Threads -> Hierarchy!Row]
    /\ distAt \in [Threads -> Hierarchy!Ids \cup {Hierarchy!Top}]
    /\ seen \in [Threads -> SUBSET Hierarchy!Ids] /\ steps \in [Threads -> 0..MaxUp]
    /\ updates \in 0..MaxUpdates
HierarchyTypes == RowTypes /\ CallTypes

Making == {"activeParent", "freeName", "insert"}
Changing == {"exists", "current", "walk", "parentExists", "freeToName", "write"}

\* Which row a request is about.
About(t) ==
    /\ distPc[t] \in Making \cup Changing \cup {"idle"}
    /\ distPc[t] \in Changing <=> id[t] \in DOMAIN rows
    /\ distPc[t] \notin Changing => id[t] = Hierarchy!Top

HierarchyInv == HierarchyTypes /\ \A t \in Threads : About(t)

LEMMA HierarchyConstant ==
    ASSUME Hierarchy!DistributorsAssumption
    PROVE  /\ MaxId \in Nat /\ MaxUp \in Nat /\ MaxUpdates \in Nat
           /\ Hierarchy!Top = 0 /\ Hierarchy!Ids = 1..MaxId
           /\ Hierarchy!Blank \in Hierarchy!Row
BY DEF Hierarchy!DistributorsAssumption, Hierarchy!Top, Hierarchy!Ids,
       Hierarchy!Blank, Hierarchy!Row, Hierarchy!Statuses

\* The rows are numbered from 1 on.
LEMMA NextId ==
    ASSUME NEW n \in Nat, DOMAIN rows = 1..n
    PROVE  Hierarchy!Cardinality(Hierarchy!Existing) = n
<1>1. Cardinality(1..n) = n
  BY FS_Interval
<1>2. Hierarchy!Cardinality(1..n) = Cardinality(1..n)
  BY DEF Hierarchy!Cardinality, Cardinality
<1>. QED BY <1>1, <1>2 DEF Hierarchy!Existing

LEMMA InitHierarchy ==
    ASSUME Hierarchy!DistributorsAssumption, Hierarchy!Init PROVE HierarchyInv
<1>1. PICK n \in 0..MaxId : KnownRows \in [1..n -> Hierarchy!Row]
  BY DEF Hierarchy!DistributorsAssumption
<1>2. rows = KnownRows /\ DOMAIN rows = 1..n
  BY <1>1 DEF Hierarchy!Init
<1>. QED BY <1>1, <1>2, HierarchyConstant
            DEF Hierarchy!Init, HierarchyInv, HierarchyTypes, RowTypes, CallTypes, About, Making, Changing

\* A request changes nothing of the others.
Mine(t) == \A s \in Threads \ {t} :
    /\ distPc'[s] = distPc[s] /\ id'[s] = id[s] /\ copy'[s] = copy[s]
    /\ distAt'[s] = distAt[s] /\ seen'[s] = seen[s] /\ steps'[s] = steps[s]

LEMMA FinishTypes ==
    ASSUME Hierarchy!DistributorsAssumption, HierarchyTypes, NEW t \in Threads, Hierarchy!Finish(t),
           rows' \in [DOMAIN rows' -> Hierarchy!Row], \E n \in 0..MaxId : DOMAIN rows' = 1..n
    PROVE  HierarchyTypes' /\ Mine(t) /\ About(t)' /\ updates' = updates
<1>1. 0 \notin DOMAIN rows' /\ Hierarchy!Top = 0
  BY HierarchyConstant
<1>2. /\ Hierarchy!Blank \in Hierarchy!Row /\ MaxUp \in Nat
      /\ distPc' = [distPc EXCEPT ![t] = "idle"] /\ id' = [id EXCEPT ![t] = Hierarchy!Top]
      /\ copy' = [copy EXCEPT ![t] = Hierarchy!Blank] /\ distAt' = [distAt EXCEPT ![t] = Hierarchy!Top]
      /\ seen' = [seen EXCEPT ![t] = {}] /\ steps' = [steps EXCEPT ![t] = 0] /\ updates' = updates
  BY HierarchyConstant DEF Hierarchy!Finish, Hierarchy!Goto
<1>3. HierarchyTypes'
  <2>1. RowTypes'
    BY DEF RowTypes
  <2>2. CallTypes'
    <3>1. distPc' = [s \in Threads |-> distPc'[s]] /\ id' = [s \in Threads |-> id'[s]]
      BY <1>2 DEF CallTypes, HierarchyTypes
    <3>2. /\ copy' \in [Threads -> Hierarchy!Row]
          /\ distAt' \in [Threads -> Hierarchy!Ids \cup {Hierarchy!Top}]
          /\ seen' \in [Threads -> SUBSET Hierarchy!Ids] /\ steps' \in [Threads -> 0..MaxUp]
      BY <1>2 DEF CallTypes, HierarchyTypes
    <3>. QED BY <1>2, <3>1, <3>2 DEF CallTypes, HierarchyTypes
  <2>. QED BY <2>1, <2>2 DEF HierarchyTypes
<1>5. Mine(t)
  BY <1>2 DEF HierarchyTypes, RowTypes, CallTypes, Mine
<1>4. distPc'[t] = "idle" /\ id'[t] = 0
  BY <1>1, <1>2 DEF HierarchyTypes, RowTypes, CallTypes
<1>. QED BY <1>1, <1>2, <1>3, <1>4, <1>5 DEF About, Making, Changing

\* Each statement keeps the types, says what its own request is about, and
\* leaves the others alone; only INSERT and UPDATE change rows.
LEMMA HierarchyMoves ==
    ASSUME Hierarchy!DistributorsAssumption, HierarchyInv, NEW t \in Threads,
           Hierarchy!Create(t) \/ Hierarchy!Update(t) \/ Hierarchy!Statement(t)
    PROVE  /\ HierarchyTypes' /\ Mine(t) /\ About(t)' /\ DOMAIN rows \subseteq DOMAIN rows'
           /\ rows' = rows \/ Hierarchy!Insert(t) \/ Hierarchy!Write(t)
<1>0. /\ HierarchyTypes /\ About(t) /\ MaxUp \in Nat /\ MaxId \in Nat /\ MaxUpdates \in Nat
      /\ Hierarchy!Top = 0 /\ Hierarchy!Ids = 1..MaxId /\ Hierarchy!Blank \in Hierarchy!Row
  BY HierarchyConstant DEF HierarchyInv
<1>1. PICK n \in 0..MaxId : DOMAIN rows = 1..n
  BY <1>0 DEF HierarchyTypes, RowTypes, CallTypes
<1>2. ASSUME rows' = rows, Hierarchy!Finish(t) PROVE HierarchyTypes' /\ Mine(t) /\ About(t)'
  BY <1>0, <1>1, <1>2, FinishTypes DEF HierarchyTypes, RowTypes, CallTypes
<1>3. ASSUME UNCHANGED <<rows, id, copy, distAt, seen, steps, updates>>,
             NEW to, Hierarchy!Goto(t, to),
             (to \in Making /\ distPc[t] \in Making) \/ (to \in Changing /\ distPc[t] \in Changing)
      PROVE  HierarchyTypes' /\ Mine(t) /\ About(t)'
  BY <1>0, <1>3 DEF HierarchyTypes, RowTypes, CallTypes, Mine, About, Making, Changing, Hierarchy!Goto
<1>. USE <1>0 DEF Making, Changing, Hierarchy!Goto
<1>4. CASE Hierarchy!Create(t)
  <2>1. PICK row \in Hierarchy!Row :
          /\ copy' = [copy EXCEPT ![t] = row]
          /\ distPc' = [distPc EXCEPT ![t] = IF row.parent = Hierarchy!Top THEN "freeName" ELSE "activeParent"]
    BY <1>4 DEF Hierarchy!Create
  <2>2. copy' \in [Threads -> Hierarchy!Row]
    BY <2>1 DEF HierarchyTypes, RowTypes, CallTypes
  <2>. QED BY <1>4, <2>1, <2>2 DEF Hierarchy!Create, HierarchyTypes, RowTypes, CallTypes, Mine, About
<1>5. CASE Hierarchy!ActiveParent(t)
  <2>1. CASE Hierarchy!Finish(t) /\ rows' = rows
    BY <1>2, <2>1
  <2>2. CASE ~(Hierarchy!Finish(t) /\ rows' = rows)
    <3>1. /\ UNCHANGED <<rows, id, copy, distAt, seen, steps, updates>>
          /\ Hierarchy!Goto(t, "freeName") /\ distPc[t] = "activeParent"
      BY <1>5, <2>2 DEF Hierarchy!ActiveParent
    <3>. HIDE DEF Hierarchy!Goto
    <3>. QED BY <1>3, <3>1
  <2>. QED BY <1>5, <2>1, <2>2 DEF Hierarchy!ActiveParent
<1>6. CASE Hierarchy!FreeName(t)
  <2>1. CASE Hierarchy!Finish(t) /\ rows' = rows
    BY <1>2, <2>1
  <2>2. CASE ~(Hierarchy!Finish(t) /\ rows' = rows)
    <3>1. /\ UNCHANGED <<rows, id, copy, distAt, seen, steps, updates>>
          /\ Hierarchy!Goto(t, "insert") /\ distPc[t] = "freeName"
      BY <1>6, <2>2 DEF Hierarchy!FreeName
    <3>. HIDE DEF Hierarchy!Goto
    <3>. QED BY <1>3, <3>1
  <2>. QED BY <1>6, <2>1, <2>2 DEF Hierarchy!FreeName
<1>7. CASE Hierarchy!Insert(t)
  <2>. DEFINE d == Hierarchy!Cardinality(Hierarchy!Existing) + 1
  <2>1. d = n + 1
    BY <1>1, NextId
  <2>2. /\ Hierarchy!Finish(t)
        /\ rows' = IF d \in Hierarchy!Ids
                   THEN [x \in DOMAIN rows \cup {d} |-> IF x = d THEN copy[t] ELSE rows[x]] ELSE rows
    BY <1>7 DEF Hierarchy!Insert, Hierarchy!Existing
  <2>. HIDE DEF d
  <2>3. /\ rows' \in [DOMAIN rows' -> Hierarchy!Row] /\ \E k \in 0..MaxId : DOMAIN rows' = 1..k
        /\ DOMAIN rows \subseteq DOMAIN rows'
    <3>1. CASE d \in Hierarchy!Ids
      <4>1. DOMAIN rows' = 1..(n + 1) /\ n + 1 \in 0..MaxId
        BY <1>1, <2>1, <2>2, <3>1
      <4>2. \A x \in DOMAIN rows' : rows'[x] \in Hierarchy!Row
        BY <1>1, <2>1, <2>2, <3>1 DEF HierarchyTypes, RowTypes, CallTypes
      <4>3. rows' = [x \in DOMAIN rows' |-> rows'[x]]
        BY <2>2, <3>1
      <4>. QED BY <1>1, <4>1, <4>2, <4>3
    <3>2. CASE d \notin Hierarchy!Ids
      BY <1>1, <2>2, <3>2 DEF HierarchyTypes, RowTypes, CallTypes
    <3>. QED BY <3>1, <3>2
  <2>. QED BY <1>7, <2>2, <2>3, FinishTypes
<1>8. CASE Hierarchy!Update(t)
  <2>1. PICK d \in DOMAIN rows : id' = [id EXCEPT ![t] = d]
    BY <1>8 DEF Hierarchy!Update, Hierarchy!Existing
  <2>2. /\ distPc' = [distPc EXCEPT ![t] = "exists"] /\ UNCHANGED <<rows, copy, distAt, seen, steps>>
        /\ updates < MaxUpdates /\ updates' = updates + 1
    BY <1>8 DEF Hierarchy!Update
  <2>3. HierarchyTypes'
    <3>1. RowTypes'
      BY <2>2 DEF RowTypes, HierarchyTypes
    <3>2. CallTypes'
      <4>1. distPc' = [s \in Threads |-> distPc'[s]] /\ id' = [s \in Threads |-> id'[s]]
        BY <2>1, <2>2 DEF CallTypes, HierarchyTypes
      <4>2. updates' \in 0..MaxUpdates
        BY <2>2 DEF CallTypes, HierarchyTypes
      <4>. QED BY <2>2, <4>1, <4>2 DEF CallTypes, HierarchyTypes
    <3>. QED BY <3>1, <3>2 DEF HierarchyTypes
  <2>5. Mine(t)
    BY <2>1, <2>2 DEF HierarchyTypes, RowTypes, CallTypes, Mine
  <2>4. distPc'[t] = "exists" /\ id'[t] = d
    BY <2>1, <2>2 DEF HierarchyTypes, CallTypes
  <2>. QED BY <2>1, <2>2, <2>3, <2>4, <2>5 DEF About
<1>9. CASE Hierarchy!Exists(t)
  BY <1>2, <1>3, <1>9 DEF Hierarchy!Exists
<1>10. CASE Hierarchy!Current(t)
  <2>1. CASE Hierarchy!Finish(t) /\ rows' = rows
    BY <1>2, <2>1
  <2>2. CASE ~(Hierarchy!Finish(t) /\ rows' = rows)
    <3>1. PICK new \in Hierarchy!Row, to \in {"walk", "freeToName"},
              p \in Hierarchy!Ids \cup {Hierarchy!Top} :
            /\ UNCHANGED <<rows, id, seen, steps, updates>>
            /\ copy' = [copy EXCEPT ![t] = new] /\ distAt' = [distAt EXCEPT ![t] = p]
            /\ distPc' = [distPc EXCEPT ![t] = to]
      BY <1>10, <2>2 DEF Hierarchy!Current, Hierarchy!Row
    <3>2. distPc[t] = "current"
      BY <1>10 DEF Hierarchy!Current
    <3>. QED BY <3>1, <3>2 DEF HierarchyTypes, RowTypes, CallTypes, Mine, About
  <2>. QED BY <1>10, <2>1, <2>2 DEF Hierarchy!Current
<1>11. CASE Hierarchy!Walk(t)
  <2>1. CASE Hierarchy!Finish(t) /\ rows' = rows
    BY <1>2, <2>1
  <2>2. CASE ~(Hierarchy!Finish(t) /\ rows' = rows)
    <3>. DEFINE up == IF distAt[t] \in Hierarchy!Live THEN rows[distAt[t]].parent ELSE Hierarchy!Top
    <3>1. UNCHANGED <<rows, id, copy, updates>> /\ distPc[t] = "walk"
      BY <1>11, <2>2 DEF Hierarchy!Walk
    <3>2. up \in Hierarchy!Ids \cup {Hierarchy!Top}
      BY DEF HierarchyTypes, RowTypes, CallTypes, Hierarchy!Live, Hierarchy!Existing, Hierarchy!Row
    <3>3. CASE up = Hierarchy!Top \/ up \in seen[t] \/ steps[t] = MaxUp
      BY <1>3, <1>11, <2>2, <3>1, <3>3 DEF Hierarchy!Walk
    <3>4. CASE ~(up = Hierarchy!Top \/ up \in seen[t] \/ steps[t] = MaxUp)
      <4>1. /\ distAt' = [distAt EXCEPT ![t] = up] /\ seen' = [seen EXCEPT ![t] = @ \cup {up}]
            /\ steps' = [steps EXCEPT ![t] = @ + 1] /\ distPc' = distPc
        BY <1>11, <2>2, <3>4 DEF Hierarchy!Walk
      <4>. HIDE DEF up
      <4>. QED BY <3>1, <3>2, <3>4, <4>1 DEF HierarchyTypes, RowTypes, CallTypes, Mine, About
    <3>. QED BY <3>1, <3>3, <3>4
  <2>. QED BY <1>11, <2>1, <2>2 DEF Hierarchy!Walk
<1>12. CASE Hierarchy!ParentExists(t)
  BY <1>2, <1>3, <1>12 DEF Hierarchy!ParentExists
<1>13. CASE Hierarchy!FreeToName(t)
  BY <1>2, <1>3, <1>13 DEF Hierarchy!FreeToName
<1>14. CASE Hierarchy!Write(t)
  <2>1. rows' \in [DOMAIN rows' -> Hierarchy!Row] /\ DOMAIN rows' = DOMAIN rows
    BY <1>14 DEF Hierarchy!Write, HierarchyTypes, RowTypes, CallTypes
  <2>. QED BY <1>1, <1>14, <2>1, FinishTypes DEF Hierarchy!Write
<1>. QED BY <1>4, <1>5, <1>6, <1>7, <1>8, <1>9, <1>10, <1>11, <1>12, <1>13, <1>14
         DEF Hierarchy!Statement

LEMMA HierarchyStep ==
    ASSUME Hierarchy!DistributorsAssumption, HierarchyInv, [Hierarchy!Next]_(Hierarchy!vars)
    PROVE  HierarchyInv'
<1>1. ASSUME NEW t \in Threads, Hierarchy!Create(t) \/ Hierarchy!Update(t) \/ Hierarchy!Statement(t)
      PROVE  HierarchyInv'
  <2>1. /\ HierarchyTypes' /\ Mine(t) /\ About(t)' /\ DOMAIN rows \subseteq DOMAIN rows'
    BY <1>1, HierarchyMoves
  <2>2. ASSUME NEW s \in Threads \ {t} PROVE About(s)'
    <3>1. 0 \notin DOMAIN rows' /\ Hierarchy!Top = 0
      BY <2>1, HierarchyConstant DEF HierarchyTypes, RowTypes, CallTypes
    <3>. QED BY <2>1, <3>1 DEF About, Mine, HierarchyInv
  <2>. QED BY <2>1, <2>2 DEF HierarchyInv
<1>2. CASE UNCHANGED Hierarchy!vars
  BY <1>2 DEF HierarchyInv, HierarchyTypes, RowTypes, CallTypes, About, Hierarchy!vars, Hierarchy!request
<1>. QED BY <1>1, <1>2 DEF Hierarchy!Next

LEMMA HierarchyInvariant ==
    ASSUME Hierarchy!DistributorsAssumption PROVE Hierarchy!Spec => []HierarchyInv
<1>1. Hierarchy!Init => HierarchyInv
  BY InitHierarchy
<1>2. HierarchyInv /\ [Hierarchy!Next]_(Hierarchy!vars) => HierarchyInv'
  BY HierarchyStep
<1>. QED BY <1>1, <1>2, PTL DEF Hierarchy!Spec

\* However many requests race: a row is a row with every column in its domain,
\* and a walk stands at an id, with no more steps taken than it may take.
THEOREM HierarchyTypesOK ==
    ASSUME Hierarchy!DistributorsAssumption PROVE Hierarchy!Spec => []Hierarchy!TypeOK
<1>1. HierarchyInv => Hierarchy!TypeOK
  <2>. SUFFICES ASSUME HierarchyInv PROVE Hierarchy!TypeOK
    OBVIOUS
  <2>1. \E n \in 0..MaxId : rows \in [1..n -> Hierarchy!Row]
    BY DEF HierarchyInv, HierarchyTypes, RowTypes, CallTypes
  <2>2. \A t \in Threads : id[t] \in Hierarchy!Existing \cup {Hierarchy!Top}
    BY DEF HierarchyInv, About, Hierarchy!Existing
  <2>3. \A t \in Threads : distPc[t] = "idle" => id[t] = Hierarchy!Top
    BY DEF HierarchyInv, About, Changing
  <2>. QED BY <2>1, <2>2, <2>3 DEF HierarchyInv, HierarchyTypes, RowTypes, CallTypes, Hierarchy!TypeOK
<1>. QED BY <1>1, HierarchyInvariant, PTL
-------------------------------------------------------------------------------
\* One request at a time.  What it has established, and nothing has undone.

Asked(t) == copy[t].parent
Met(t) == {Asked(t)} \cup seen[t]
Up(t) == IF distAt[t] \in Hierarchy!Live THEN rows[distAt[t]].parent ELSE Hierarchy!Top

\* The walk: every row it has left is live and has its parent among those it
\* has met, none of them is the one to be moved, and it is back at the new
\* parent only at its end.
OnTheWay(t) ==
    /\ Asked(t) \in Hierarchy!Ids /\ Asked(t) # id[t]
    /\ distAt[t] \in Met(t)
    /\ id[t] \notin Met(t) \ {distAt[t]}
    /\ \A x \in Met(t) \ {distAt[t]} : x \in Hierarchy!Live /\ rows[x].parent \in seen[t]
    /\ Asked(t) \in seen[t] => distAt[t] = Asked(t)
    /\ seen[t] # {} => Asked(t) \in Hierarchy!Live /\ rows[Asked(t)].parent \in seen[t]
    /\ steps[t] = Cardinality(seen[t])

\* The parent it asks for is the one it has, none, or one that may be had.
MayHave(t) ==
    \/ Asked(t) \in {rows[id[t]].parent, Hierarchy!Top}
    \/ Asked(t) \in Hierarchy!Live /\ id[t] \notin Hierarchy!F!Above(Asked(t))

Established(t) ==
    /\ distPc[t] \in {"freeName", "insert"} =>
          copy[t].parent = Hierarchy!Top \/ copy[t].parent \in Hierarchy!Live
    /\ distPc[t] = "insert" => ~Hierarchy!Taken(copy[t].name, Hierarchy!Top)
    /\ distPc[t] \in Changing \ {"exists"} => id[t] \in Hierarchy!Live
    /\ distPc[t] = "walk" => OnTheWay(t)
    /\ distPc[t] = "parentExists" => id[t] \notin Hierarchy!F!Above(Asked(t))
    /\ distPc[t] \in {"freeToName", "write"} => MayHave(t)
    /\ distPc[t] = "write" => ~Hierarchy!Taken(copy[t].name, id[t])
    /\ distPc[t] \in {"idle", "exists", "current"} => seen[t] = {} /\ steps[t] = 0

LEMMA Lives ==
    /\ Hierarchy!F!Live = Hierarchy!Live
    /\ \A d : d \in Hierarchy!Live <=> d \in DOMAIN rows /\ rows[d].status # Hierarchy!Deleted
BY DEF Hierarchy!F!Live, Hierarchy!Live, Hierarchy!Existing

LEMMA SeenFinite ==
    ASSUME Hierarchy!DistributorsAssumption, HierarchyInv, NEW t \in Threads
    PROVE  IsFiniteSet(seen[t])
<1>. PICK W, J : W = seen[t] /\ J = Hierarchy!Ids
  OBVIOUS
<1>1. IsFiniteSet(J) /\ W \in SUBSET J
  <2>1. MaxId \in Int /\ J = 1..MaxId /\ 1 \in Int
    BY HierarchyConstant
  <2>2. IsFiniteSet(1..MaxId)
    BY <2>1, FS_Interval
  <2>. QED BY <2>1, <2>2 DEF HierarchyInv, HierarchyTypes, CallTypes
<1>. QED BY <1>1, FS_Subset

\* A walk that comes to its end has met all there is above the new parent.
LEMMA WalkSeesAll ==
    ASSUME Hierarchy!DistributorsAssumption, HierarchyInv, NEW t \in Threads, MaxUp >= MaxId,
           OnTheWay(t), id[t] \in Hierarchy!Live,
           ~(distAt[t] = id[t] /\ steps[t] < MaxUp),
           \/ Up(t) = Hierarchy!Top \/ Up(t) \in seen[t] \/ steps[t] = MaxUp
    PROVE  id[t] \notin Hierarchy!F!Above(Asked(t))
<1>1. /\ MaxId \in Nat /\ MaxUp \in Nat /\ Hierarchy!Ids = 1..MaxId /\ Hierarchy!Top = 0
      /\ id[t] \in Hierarchy!Ids
  BY HierarchyConstant, Lives DEF HierarchyInv, HierarchyTypes, RowTypes
<1>2. IsFiniteSet(Hierarchy!Ids) /\ Cardinality(Hierarchy!Ids) = MaxId
  BY <1>1, FS_Interval, 1 \in Int
<1>3. steps[t] # MaxUp
  <2>. SUFFICES ASSUME steps[t] = MaxUp PROVE FALSE
    OBVIOUS
  <2>1. seen[t] = Hierarchy!Ids
    <3>. PICK W, J : W = seen[t] /\ J = Hierarchy!Ids
      OBVIOUS
    <3>1. W \in SUBSET J /\ IsFiniteSet(J) /\ Cardinality(J) = MaxId /\ Cardinality(W) >= MaxId
      BY <1>1, <1>2 DEF OnTheWay, HierarchyInv, HierarchyTypes, CallTypes
    <3>2. IsFiniteSet(W) /\ Cardinality(W) <= MaxId /\ (Cardinality(J) = Cardinality(W) => J = W)
      BY <3>1, FS_Subset
    <3>3. Cardinality(W) = MaxId
      BY <1>1, <3>1, <3>2, FS_CardinalityType
    <3>. QED BY <3>1, <3>2, <3>3
  <2>2. distAt[t] = Asked(t) /\ id[t] \in seen[t]
    BY <1>1, <2>1 DEF OnTheWay
  <2>. QED BY <2>2 DEF OnTheWay, Met
<1>4. steps[t] < MaxUp /\ distAt[t] # id[t]
  <2>1. steps[t] \in 0..MaxUp
    BY DEF HierarchyInv, HierarchyTypes, CallTypes
  <2>. QED BY <1>1, <1>3, <2>1
<1>5. id[t] \notin Met(t)
  BY <1>4 DEF OnTheWay
<1>6. Met(t) \in SUBSET Hierarchy!Ids /\ Asked(t) \in Met(t)
  BY DEF Met, OnTheWay, HierarchyInv, HierarchyTypes, CallTypes
<1>7. \A x \in Met(t) \cap Hierarchy!Live : rows[x].parent \in Met(t) \cup {Hierarchy!Top}
  BY <1>3 DEF OnTheWay, Met, Up
<1>8. Hierarchy!F!Upwards(Met(t))
  BY <1>7, Lives DEF Hierarchy!F!Upwards
<1>. QED BY <1>5, <1>6, <1>8 DEF Hierarchy!F!Above

\* One step up keeps to the way.
LEMMA WalkOn ==
    ASSUME Hierarchy!DistributorsAssumption, HierarchyInv, NEW t \in Threads, OnTheWay(t), UNCHANGED <<rows, id, copy>>,
           Up(t) # Hierarchy!Top, Up(t) \notin seen[t], steps[t] # MaxUp,
           ~(distAt[t] = id[t] /\ steps[t] < MaxUp), MaxUp \in Nat,
           distAt'[t] = Up(t), seen'[t] = seen[t] \cup {Up(t)}, steps'[t] = steps[t] + 1
    PROVE  OnTheWay(t)'
<1>1. Asked(t)' = Asked(t) /\ Hierarchy!Live' = Hierarchy!Live
  BY DEF Asked, Hierarchy!Live, Hierarchy!Existing
<1>2. Met(t)' = Met(t) \cup {Up(t)}
  BY <1>1 DEF Met
<1>3. distAt[t] # id[t]
  BY DEF HierarchyInv, HierarchyTypes, CallTypes
<1>4. distAt[t] \in Hierarchy!Live /\ rows[distAt[t]].parent = Up(t)
  BY DEF Up
<1>5. \A x \in Met(t)' \ {distAt'[t]} : x \in Met(t) /\ x # Up(t)
  BY <1>2
<1>6. \A x \in Met(t)' \ {distAt'[t]} :
          x # id'[t] /\ x \in Hierarchy!Live' /\ rows'[x].parent \in seen'[t]
  BY <1>1, <1>3, <1>4, <1>5 DEF OnTheWay
<1>7. steps'[t] = Cardinality(seen'[t])
  <2>. PICK W, u : W = seen[t] /\ u = Up(t)
    OBVIOUS
  <2>1. IsFiniteSet(W)
    BY SeenFinite
  <2>2. Cardinality(W \cup {u}) = Cardinality(W) + 1
    BY <2>1, FS_AddElement
  <2>. QED BY <2>2 DEF OnTheWay
<1>8. Asked(t)' \in seen'[t] => distAt'[t] = Asked(t)'
  <2>. SUFFICES ASSUME Asked(t) \in seen[t] PROVE FALSE
    BY <1>1
  <2>1. distAt[t] = Asked(t) /\ seen[t] # {}
    BY DEF OnTheWay
  <2>. QED BY <1>4, <2>1 DEF OnTheWay
<1>9. Asked(t)' \in Hierarchy!Live' /\ rows'[Asked(t)'].parent \in seen'[t]
  <2>1. CASE seen[t] = {}
    BY <1>1, <1>4, <2>1 DEF OnTheWay, Met
  <2>2. CASE seen[t] # {}
    BY <1>1, <2>2 DEF OnTheWay
  <2>. QED BY <2>1, <2>2
<1>. QED BY <1>1, <1>2, <1>6, <1>7, <1>8, <1>9 DEF OnTheWay

\* With one request there is nobody to undo it.
LEMMA EstablishedStep ==
    ASSUME Hierarchy!DistributorsAssumption, HierarchyInv, NEW t \in Threads, MaxUp >= MaxId,
           Established(t),
           Hierarchy!Create(t) \/ Hierarchy!Update(t) \/ Hierarchy!Statement(t)
    PROVE  Established(t)'
<1>0. /\ HierarchyTypes /\ About(t) /\ MaxUp \in Nat /\ MaxId \in Nat
      /\ Hierarchy!Top = 0 /\ Hierarchy!Ids = 1..MaxId /\ Hierarchy!Deleted = -1
  BY HierarchyConstant DEF HierarchyInv, Hierarchy!Deleted
<1>1. /\ distPc = [s \in Threads |-> distPc[s]] /\ id = [s \in Threads |-> id[s]]
      /\ copy = [s \in Threads |-> copy[s]]
      /\ distAt = [s \in Threads |-> distAt[s]]
      /\ seen = [s \in Threads |-> seen[s]] /\ steps = [s \in Threads |-> steps[s]]
  BY <1>0 DEF HierarchyTypes, CallTypes
<1>2. ASSUME Hierarchy!Finish(t) PROVE Established(t)'
  <2>1. distPc'[t] = "idle" /\ seen'[t] = {} /\ steps'[t] = 0
    BY <1>1, <1>2 DEF Hierarchy!Finish, Hierarchy!Goto
  <2>. QED BY <2>1 DEF Established, Making, Changing
<1>3. ASSUME rows' = rows
      PROVE  /\ Hierarchy!Live' = Hierarchy!Live
             /\ \A n, e : Hierarchy!Taken(n, e)' <=> Hierarchy!Taken(n, e)
             /\ \A d : Hierarchy!F!Above(d)' = Hierarchy!F!Above(d)
  BY <1>3 DEF Hierarchy!Live, Hierarchy!Existing, Hierarchy!Taken, Hierarchy!F!Above,
              Hierarchy!F!Upwards, Hierarchy!F!Live
<1>4. CASE Hierarchy!Create(t)
  <2>1. PICK row \in Hierarchy!Row :
          /\ copy' = [copy EXCEPT ![t] = row]
          /\ distPc' = [distPc EXCEPT ![t] = IF row.parent = Hierarchy!Top THEN "freeName" ELSE "activeParent"]
    BY <1>4 DEF Hierarchy!Create, Hierarchy!Goto
  <2>2. /\ distPc'[t] = (IF row.parent = Hierarchy!Top THEN "freeName" ELSE "activeParent")
        /\ copy'[t].parent = row.parent
    BY <1>1, <2>1
  <2>. QED BY <2>2 DEF Established, Making, Changing
<1>5. CASE Hierarchy!ActiveParent(t)
  <2>1. CASE Hierarchy!Finish(t)
    BY <1>2, <2>1
  <2>2. CASE ~Hierarchy!Finish(t)
    <3>1. /\ UNCHANGED <<rows, copy>> /\ distPc'[t] = "freeName"
          /\ copy[t].parent \in DOMAIN rows /\ rows[copy[t].parent].status = 1
          /\ distPc[t] = "activeParent"
      BY <1>1, <1>5, <2>2 DEF Hierarchy!ActiveParent, Hierarchy!Goto, Hierarchy!Existing
    <3>2. copy[t].parent \in Hierarchy!Live
      BY <1>0, <3>1, Lives
    <3>. QED BY <1>3, <3>1, <3>2 DEF Established, Making, Changing
  <2>. QED BY <2>1, <2>2
<1>6. CASE Hierarchy!FreeName(t)
  <2>1. CASE Hierarchy!Finish(t)
    BY <1>2, <2>1
  <2>2. CASE ~Hierarchy!Finish(t)
    <3>1. /\ UNCHANGED <<rows, copy>> /\ distPc'[t] = "insert" /\ distPc[t] = "freeName"
          /\ ~Hierarchy!Taken(copy[t].name, Hierarchy!Top)
      BY <1>1, <1>6, <2>2 DEF Hierarchy!FreeName, Hierarchy!Goto
    <3>. QED BY <1>3, <3>1 DEF Established, Making, Changing
  <2>. QED BY <2>1, <2>2
<1>7. CASE Hierarchy!Insert(t)
  BY <1>2, <1>7 DEF Hierarchy!Insert
<1>8. CASE Hierarchy!Update(t)
  <2>1. /\ distPc'[t] = "exists" /\ distPc[t] = "idle" /\ UNCHANGED <<seen, steps>>
    BY <1>1, <1>8 DEF Hierarchy!Update, Hierarchy!Goto
  <2>. QED BY <2>1 DEF Established, Making, Changing
<1>9. CASE Hierarchy!Exists(t)
  <2>1. CASE Hierarchy!Finish(t)
    BY <1>2, <2>1
  <2>2. CASE ~Hierarchy!Finish(t)
    <3>1. /\ UNCHANGED <<rows, id, seen, steps>> /\ distPc'[t] = "current" /\ distPc[t] = "exists"
          /\ id[t] \in Hierarchy!Live
      BY <1>1, <1>9, <2>2 DEF Hierarchy!Exists, Hierarchy!Goto
    <3>. QED BY <1>3, <3>1 DEF Established, Making, Changing
  <2>. QED BY <2>1, <2>2
<1>10. CASE Hierarchy!Current(t)
  <2>1. CASE Hierarchy!Finish(t)
    BY <1>2, <2>1
  <2>2. CASE ~Hierarchy!Finish(t)
    <3>1. PICK new \in Hierarchy!Row, moved \in BOOLEAN :
            /\ moved => new.parent # Hierarchy!Top /\ new.parent # id[t]
            /\ ~moved => new.parent \in {rows[id[t]].parent, Hierarchy!Top}
            /\ UNCHANGED <<rows, id, seen, steps>>
            /\ copy' = [copy EXCEPT ![t] = new]
            /\ distAt' = [distAt EXCEPT ![t] = IF moved THEN new.parent ELSE Hierarchy!Top]
            /\ distPc' = [distPc EXCEPT ![t] = IF moved THEN "walk" ELSE "freeToName"]
      BY <1>10, <2>2 DEF Hierarchy!Current, Hierarchy!Goto
    <3>2. /\ Asked(t)' = new.parent /\ new.parent \in Hierarchy!Ids \cup {Hierarchy!Top}
          /\ distAt'[t] = (IF moved THEN new.parent ELSE Hierarchy!Top)
          /\ distPc'[t] = (IF moved THEN "walk" ELSE "freeToName")
      BY <1>1, <3>1 DEF Asked, Hierarchy!Row
    <3>3. id[t] \in Hierarchy!Live /\ seen[t] = {} /\ steps[t] = 0
      BY <1>10 DEF Hierarchy!Current, Established, Changing
    <3>4. CASE moved
      <4>1. Met(t)' = {new.parent} /\ distAt'[t] = new.parent /\ seen'[t] = {} /\ steps'[t] = 0
        BY <3>1, <3>2, <3>3, <3>4 DEF Met
      <4>2. OnTheWay(t)'
        BY <3>1, <3>2, <3>4, <4>1, FS_EmptySet DEF OnTheWay
      <4>. QED BY <1>3, <3>1, <3>2, <3>3, <3>4, <4>2 DEF Established, Making, Changing
    <3>5. CASE ~moved
      <4>1. MayHave(t)'
        BY <3>1, <3>2, <3>5 DEF MayHave
      <4>. QED BY <1>3, <3>1, <3>2, <3>3, <3>5, <4>1 DEF Established, Making, Changing
    <3>. QED BY <3>4, <3>5
  <2>. QED BY <2>1, <2>2
<1>11. CASE Hierarchy!Walk(t)
  <2>1. CASE Hierarchy!Finish(t)
    BY <1>2, <2>1
  <2>2. CASE ~Hierarchy!Finish(t)
    <3>1. /\ UNCHANGED <<rows, id, copy>> /\ distPc[t] = "walk"
          /\ ~(distAt[t] = id[t] /\ steps[t] < MaxUp)
          /\ OnTheWay(t) /\ id[t] \in Hierarchy!Live
      BY <1>11, <2>2 DEF Hierarchy!Walk, Established, OnTheWay, Changing
    <3>2. Asked(t)' = Asked(t)
      BY <3>1 DEF Asked
    <3>3. CASE Up(t) = Hierarchy!Top \/ Up(t) \in seen[t] \/ steps[t] = MaxUp
      <4>1. distPc'[t] = "parentExists"
        BY <1>1, <1>11, <2>2, <3>1, <3>3 DEF Hierarchy!Walk, Hierarchy!Goto, Up
      <4>2. id[t] \notin Hierarchy!F!Above(Asked(t))
        BY <3>1, <3>3, WalkSeesAll
      <4>. QED BY <1>3, <3>1, <3>2, <4>1, <4>2 DEF Established, Making, Changing
    <3>4. CASE ~(Up(t) = Hierarchy!Top \/ Up(t) \in seen[t] \/ steps[t] = MaxUp)
      <4>1. /\ distAt'[t] = Up(t) /\ seen'[t] = seen[t] \cup {Up(t)}
            /\ steps'[t] = steps[t] + 1 /\ distPc'[t] = "walk"
        BY <1>1, <1>11, <2>2, <3>1, <3>4 DEF Hierarchy!Walk, Up
      <4>2. OnTheWay(t)'
        BY <1>0, <1>3, <3>1, <3>2, <3>4, <4>1, WalkOn
      <4>. QED BY <1>3, <3>1, <3>2, <4>1, <4>2 DEF Established, Making, Changing
    <3>. QED BY <3>3, <3>4
  <2>. QED BY <2>1, <2>2
<1>12. CASE Hierarchy!ParentExists(t)
  <2>1. CASE Hierarchy!Finish(t)
    BY <1>2, <2>1
  <2>2. CASE ~Hierarchy!Finish(t)
    <3>1. /\ UNCHANGED <<rows, id, copy>> /\ distPc'[t] = "freeToName"
          /\ distPc[t] = "parentExists" /\ Asked(t) \in Hierarchy!Live
      BY <1>1, <1>12, <2>2 DEF Hierarchy!ParentExists, Hierarchy!Goto, Asked
    <3>2. Asked(t)' = Asked(t)
      BY <3>1 DEF Asked
    <3>3. MayHave(t)'
      BY <1>3, <3>1, <3>2 DEF MayHave, Established
    <3>. QED BY <1>3, <3>1, <3>2, <3>3 DEF Established, Making, Changing
  <2>. QED BY <2>1, <2>2
<1>13. CASE Hierarchy!FreeToName(t)
  <2>1. CASE Hierarchy!Finish(t)
    BY <1>2, <2>1
  <2>2. CASE ~Hierarchy!Finish(t)
    <3>1. /\ UNCHANGED <<rows, id, copy>> /\ distPc'[t] = "write"
          /\ distPc[t] = "freeToName" /\ ~Hierarchy!Taken(copy[t].name, id[t])
      BY <1>1, <1>13, <2>2 DEF Hierarchy!FreeToName, Hierarchy!Goto
    <3>2. Asked(t)' = Asked(t)
      BY <3>1 DEF Asked
    <3>3. MayHave(t)'
      BY <1>3, <3>1, <3>2 DEF MayHave, Established
    <3>. QED BY <1>3, <3>1, <3>2, <3>3 DEF Established, Making, Changing
  <2>. QED BY <2>1, <2>2
<1>14. CASE Hierarchy!Write(t)
  BY <1>2, <1>14 DEF Hierarchy!Write
<1>. QED BY <1>4, <1>5, <1>6, <1>7, <1>8, <1>9, <1>10, <1>11, <1>12, <1>13, <1>14
         DEF Hierarchy!Statement

-------------------------------------------------------------------------------
\* Every statement is a step of Forest, or none.

Lone(t) == HierarchyInv /\ Established(t)

LEMMA InsertJoins ==
    ASSUME Hierarchy!DistributorsAssumption, NEW t \in Threads, Lone(t), Hierarchy!Insert(t)
    PROVE  [Hierarchy!F!Next]_rows
<1>. DEFINE d == Hierarchy!Cardinality(Hierarchy!Existing) + 1
<1>1. PICK n \in 0..MaxId : DOMAIN rows = 1..n
  BY DEF Lone, HierarchyInv, HierarchyTypes, RowTypes
<1>2. d = n + 1 /\ d \notin DOMAIN rows
  BY <1>1, NextId
<1>3. /\ rows' = IF d \in Hierarchy!Ids
                 THEN [x \in DOMAIN rows \cup {d} |-> IF x = d THEN copy[t] ELSE rows[x]] ELSE rows
      /\ distPc[t] = "insert"
  BY DEF Hierarchy!Insert, Hierarchy!Existing
<1>. HIDE DEF d
<1>4. CASE d \in Hierarchy!Ids
  <2>1. copy[t] \in Hierarchy!Row
    BY DEF Lone, HierarchyInv, HierarchyTypes, CallTypes
  <2>2. copy[t] \in [name: Names, parent: Hierarchy!Ids \cup {Hierarchy!Top},
                   status: {0, 1, Hierarchy!Deleted}, terms: Terms]
    BY <2>1 DEF Hierarchy!Row, Hierarchy!Statuses
  <2>3. copy[t].parent # Hierarchy!Top => copy[t].parent \in Hierarchy!F!Live
    BY <1>3, Lives DEF Lone, Established
  <2>4. Hierarchy!F!Free(copy[t].name, d)
    <3>1. 0 \notin Hierarchy!Live /\ Hierarchy!Top = 0
      BY <1>1, Lives, HierarchyConstant
    <3>. QED BY <1>3, <3>1, Lives DEF Lone, Established, Hierarchy!Taken, Hierarchy!F!Free
  <2>5. Hierarchy!F!Join(d, copy[t])
    BY <1>2, <1>3, <1>4, <2>3, <2>4 DEF Hierarchy!F!Join
  <2>. QED BY <1>4, <2>2, <2>5 DEF Hierarchy!F!Next
<1>5. CASE d \notin Hierarchy!Ids
  BY <1>3, <1>5
<1>. QED BY <1>4, <1>5

LEMMA WriteChanges ==
    ASSUME Hierarchy!DistributorsAssumption, NEW t \in Threads, Lone(t), Hierarchy!Write(t)
    PROVE  [Hierarchy!F!Next]_rows
<1>. DEFINE d == id[t]
            new == copy[t]
<1>1. /\ d \in Hierarchy!F!Live /\ ~Hierarchy!Taken(new.name, d)
      /\ \/ new.parent \in {rows[d].parent, Hierarchy!Top}
         \/ new.parent \in Hierarchy!F!Live /\ d \notin Hierarchy!F!Above(new.parent)
  <2>1. distPc[t] = "write" /\ Established(t)
    BY DEF Hierarchy!Write, Lone
  <2>. QED BY <2>1, Lives DEF Established, MayHave, Asked, Changing
<1>2. new \in Hierarchy!Row /\ d \in Hierarchy!Ids
  <2>1. new \in Hierarchy!Row
    BY DEF Lone, HierarchyInv, HierarchyTypes, CallTypes
  <2>2. d \in DOMAIN rows
    BY <1>1, Lives
  <2>3. PICK n \in 0..MaxId : DOMAIN rows = 1..n
    BY DEF Lone, HierarchyInv, HierarchyTypes, RowTypes
  <2>4. d \in 1..MaxId
    BY <2>2, <2>3, HierarchyConstant
  <2>. QED BY <2>1, <2>4, HierarchyConstant
<1>3. new \in [name: Names, parent: Hierarchy!Ids \cup {Hierarchy!Top},
              status: {0, 1, Hierarchy!Deleted}, terms: Terms]
  BY <1>2 DEF Hierarchy!Row, Hierarchy!Statuses
<1>4. Hierarchy!F!Free(new.name, d)
  BY <1>1, Lives DEF Hierarchy!F!Free, Hierarchy!Taken
<1>5. rows' = [rows EXCEPT ![d] = new]
  BY DEF Hierarchy!Write
<1>. HIDE DEF new, d
<1>. QED BY <1>1, <1>2, <1>3, <1>4, <1>5 DEF Hierarchy!F!Next, Hierarchy!F!Change

LEMMA LoneStep ==
    ASSUME Hierarchy!DistributorsAssumption, MaxUp >= MaxId, NEW t, Threads = {t}, Lone(t),
           [Hierarchy!Next]_(Hierarchy!vars)
    PROVE  Lone(t)' /\ [Hierarchy!F!Next]_rows
<1>1. HierarchyInv'
  BY HierarchyStep DEF Lone
<1>2. CASE Hierarchy!Create(t) \/ Hierarchy!Update(t) \/ Hierarchy!Statement(t)
  <2>1. Established(t)'
    BY <1>2, EstablishedStep DEF Lone
  <2>2. rows' = rows \/ Hierarchy!Insert(t) \/ Hierarchy!Write(t)
    BY <1>2, HierarchyMoves DEF Lone
  <2>. QED BY <1>1, <2>1, <2>2, InsertJoins, WriteChanges DEF Lone
<1>3. CASE UNCHANGED Hierarchy!vars
  BY <1>1, <1>3 DEF Hierarchy!vars, Hierarchy!request, Lone, Established, OnTheWay, MayHave, Asked, Met,
        Hierarchy!Taken, Hierarchy!Live, Hierarchy!Existing,
        Hierarchy!F!Above, Hierarchy!F!Upwards, Hierarchy!F!Live
<1>. QED BY <1>2, <1>3 DEF Hierarchy!Next

LEMMA LoneInvariant ==
    ASSUME Hierarchy!DistributorsAssumption, MaxUp >= MaxId, NEW t, Threads = {t}
    PROVE  Hierarchy!Spec => []Lone(t)
<1>1. Hierarchy!Init => Lone(t)
  <2>. SUFFICES ASSUME Hierarchy!Init PROVE Lone(t)
    OBVIOUS
  <2>1. distPc[t] = "idle" /\ seen[t] = {} /\ steps[t] = 0
    BY DEF Hierarchy!Init
  <2>2. Established(t)
    BY <2>1 DEF Established, Making, Changing
  <2>. QED BY <2>2, InitHierarchy DEF Lone
<1>2. Lone(t) /\ [Hierarchy!Next]_(Hierarchy!vars) => Lone(t)'
  BY LoneStep
<1>. QED BY <1>1, <1>2, PTL DEF Hierarchy!Spec

\* One request at a time, and a walk that may go as far as there are ids: every
\* INSERT and UPDATE is one step of Forest, on what Forest asks of it, though
\* the code has checked it some statements ago (distributor_service.cc).
THEOREM HierarchyImplementsForest ==
    ASSUME Hierarchy!DistributorsAssumption, MaxUp >= MaxId, NEW t, Threads = {t}
    PROVE  Hierarchy!Spec => Hierarchy!ForestSpec
<1>1. Hierarchy!Init => Hierarchy!F!Init
  BY DEF Hierarchy!Init, Hierarchy!F!Init
<1>2. Lone(t) /\ [Hierarchy!Next]_(Hierarchy!vars) => [Hierarchy!F!Next]_rows
  BY LoneStep
<1>. QED BY <1>1, <1>2, LoneInvariant, PTL DEF Hierarchy!Spec, Hierarchy!ForestSpec, Hierarchy!F!Spec

-------------------------------------------------------------------------------
\* What Forest promises.

ForestInv == Hierarchy!F!Sound /\ DOMAIN rows \subseteq Hierarchy!Ids

LEMMA JoinSound ==
    ASSUME ForestInv, Hierarchy!Top \notin Hierarchy!Ids, NEW d \in Hierarchy!Ids, NEW row,
           Hierarchy!F!Join(d, row)
    PROVE  ForestInv'
<1>1. /\ d \notin DOMAIN rows
      /\ row.parent # Hierarchy!Top => row.parent \in Hierarchy!F!Live
      /\ Hierarchy!F!Free(row.name, d)
      /\ DOMAIN rows' = DOMAIN rows \cup {d} /\ rows'[d] = row
      /\ \A x \in DOMAIN rows : rows'[x] = rows[x]
  BY DEF Hierarchy!F!Join
<1>2. /\ Hierarchy!F!Live' \subseteq Hierarchy!F!Live \cup {d}
      /\ Hierarchy!F!Live \subseteq DOMAIN rows
  BY <1>1 DEF Hierarchy!F!Live
<1>3. /\ row.parent \in Hierarchy!F!Live \cup {Hierarchy!Top} /\ row.parent # d
      /\ \A x \in DOMAIN rows : rows[x].parent \in DOMAIN rows \cup {Hierarchy!Top}
  BY <1>1, <1>2 DEF ForestInv, Hierarchy!F!Sound, Hierarchy!F!Rooted
<1>4. Hierarchy!F!NoCircle'
  <2>. SUFFICES ASSUME NEW S \in SUBSET Hierarchy!F!Live', \A x \in S : rows'[x].parent \in S,
                       S # {}
                PROVE  FALSE
    BY DEF Hierarchy!F!NoCircle
  <2>. DEFINE R == S \ {d}
  <2>1. Hierarchy!Top \notin S
    BY <1>1, <1>2 DEF ForestInv
  <2>2. R \in SUBSET Hierarchy!F!Live /\ R # {}
    BY <1>1, <1>2, <1>3
  <2>3. \A x \in R : rows[x].parent \in R
    BY <1>1, <1>2, <1>3, <2>1
  <2>. QED BY <2>2, <2>3 DEF ForestInv, Hierarchy!F!Sound, Hierarchy!F!NoCircle
<1>5. Hierarchy!F!NamesApart'
  BY <1>1, <1>2 DEF ForestInv, Hierarchy!F!Sound, Hierarchy!F!NamesApart, Hierarchy!F!Free
<1>6. Hierarchy!F!Rooted'
  BY <1>1, <1>2, <1>3 DEF Hierarchy!F!Rooted
<1>. QED BY <1>1, <1>4, <1>5, <1>6 DEF ForestInv, Hierarchy!F!Sound

\* A circle after a change would have d and its new parent in it: what of it
\* lies above that one has been a circle before.
LEMMA ChangeSound ==
    ASSUME ForestInv, Hierarchy!Top \notin Hierarchy!Ids, NEW d \in Hierarchy!F!Live,
           NEW row, Hierarchy!F!Change(d, row)
    PROVE  ForestInv'
<1>. DEFINE p == row.parent
<1>1. /\ \/ p \in {rows[d].parent, Hierarchy!Top}
         \/ p \in Hierarchy!F!Live /\ d \notin Hierarchy!F!Above(p)
      /\ Hierarchy!F!Free(row.name, d) /\ rows' = [rows EXCEPT ![d] = row]
  BY DEF Hierarchy!F!Change
<1>2. Hierarchy!F!Live \subseteq DOMAIN rows /\ d \in DOMAIN rows
  BY DEF Hierarchy!F!Live
<1>3. /\ DOMAIN rows' = DOMAIN rows /\ rows'[d] = row
      /\ \A x \in DOMAIN rows \ {d} : rows'[x] = rows[x]
  BY <1>1, <1>2
<1>4. Hierarchy!F!Live' \subseteq Hierarchy!F!Live
  BY <1>3 DEF Hierarchy!F!Live
<1>5. Hierarchy!F!NoCircle'
  <2>. SUFFICES ASSUME NEW S \in SUBSET Hierarchy!F!Live, \A x \in S : rows'[x].parent \in S,
                       S # {}
                PROVE  FALSE
    BY <1>4 DEF Hierarchy!F!NoCircle
  <2>0. Hierarchy!Top \notin S
    BY <1>2 DEF ForestInv
  <2>1. CASE d \notin S \/ p = rows[d].parent
    <3>1. \A x \in S : rows[x].parent \in S
      BY <1>2, <1>3, <2>1
    <3>. QED BY <3>1 DEF ForestInv, Hierarchy!F!Sound, Hierarchy!F!NoCircle
  <2>2. CASE d \in S /\ p # rows[d].parent
    <3>1. p \in S /\ p # Hierarchy!Top
      BY <1>3, <2>0, <2>2
    <3>2. PICK U \in SUBSET Hierarchy!Ids : p \in U /\ Hierarchy!F!Upwards(U) /\ d \notin U
      BY <1>1, <1>2, <2>2, <3>1 DEF Hierarchy!F!Above, ForestInv
    <3>3. S \cap U \in SUBSET Hierarchy!F!Live /\ S \cap U # {}
      BY <3>1, <3>2
    <3>4. \A x \in S \cap U : rows[x].parent \in S \cap U
      BY <1>2, <1>3, <2>0, <3>2 DEF Hierarchy!F!Upwards
    <3>. QED BY <3>3, <3>4 DEF ForestInv, Hierarchy!F!Sound, Hierarchy!F!NoCircle
  <2>. QED BY <2>1, <2>2
<1>6. Hierarchy!F!NamesApart'
  BY <1>1, <1>2, <1>3, <1>4 DEF ForestInv, Hierarchy!F!Sound, Hierarchy!F!NamesApart, Hierarchy!F!Free
<1>7. Hierarchy!F!Rooted'
  BY <1>1, <1>2, <1>3 DEF ForestInv, Hierarchy!F!Sound, Hierarchy!F!Rooted
<1>. QED BY <1>3, <1>5, <1>6, <1>7 DEF ForestInv, Hierarchy!F!Sound

LEMMA ForestStep ==
    ASSUME ForestInv, Hierarchy!Top \notin Hierarchy!Ids, [Hierarchy!F!Next]_rows
    PROVE  ForestInv'
<1>1. CASE UNCHANGED rows
  BY <1>1 DEF ForestInv, Hierarchy!F!Sound, Hierarchy!F!NoCircle, Hierarchy!F!NamesApart,
              Hierarchy!F!Free, Hierarchy!F!Rooted, Hierarchy!F!Live
<1>. QED BY <1>1, JoinSound, ChangeSound DEF Hierarchy!F!Next

LEMMA ForestInvariant ==
    ASSUME Hierarchy!DistributorsAssumption, MaxUp >= MaxId, NEW t, Threads = {t}
    PROVE  Hierarchy!F!Sound /\ Hierarchy!Spec => [](Lone(t) /\ ForestInv)
<1>1. Lone(t) => /\ DOMAIN rows \subseteq Hierarchy!Ids /\ Hierarchy!Top \notin Hierarchy!Ids
  BY HierarchyConstant DEF Lone, HierarchyInv, HierarchyTypes, RowTypes
<1>2. Lone(t) /\ Hierarchy!F!Sound => ForestInv
  BY <1>1 DEF ForestInv
<1>3. Lone(t) /\ ForestInv /\ [Hierarchy!Next]_(Hierarchy!vars) => ForestInv'
  BY <1>1, LoneStep, ForestStep
<1>. QED BY <1>2, <1>3, LoneInvariant, PTL DEF Hierarchy!Spec

\* A hierarchy that is rooted, without a circle and with every name in service
\* once stays so, whatever one request after the other creates, renames, hangs
\* below another, disables and deletes, at once or one by one.
THEOREM HierarchyStaysSound ==
    ASSUME Hierarchy!DistributorsAssumption, MaxUp >= MaxId, NEW t, Threads = {t}
    PROVE  Hierarchy!F!Sound /\ Hierarchy!Spec => []Hierarchy!F!Sound
<1>1. ForestInv => Hierarchy!F!Sound
  BY DEF ForestInv
<1>. QED BY <1>1, ForestInvariant, PTL

-------------------------------------------------------------------------------
\* The recursive query for the tree.

\* What the query makes of a level.
Below(L) == {x \in Hierarchy!Live : rows[x].parent \in L}
Levels(c, d, n) == c[0] = {d} /\ \A i \in 0..(n - 1) : c[i + 1] = Below(c[i])

LEMMA LevelLevels ==
    ASSUME NEW d, NEW m \in Nat
    PROVE  Levels(Hierarchy!Level(d, m), d, m)
<1>. DEFINE Upto(n) == \E g : DOMAIN g = 0..n /\ Levels(g, d, n)
            S == {n \in Nat : Upto(n)}
<1>1. Upto(0)
  <2>1. Levels([n \in 0..0 |-> {d}], d, 0)
    BY DEF Levels
  <2>. QED BY <2>1
<1>2. ASSUME NEW n \in Nat, Upto(n) PROVE Upto(n + 1)
  <2>1. PICK g : DOMAIN g = 0..n /\ Levels(g, d, n)
    BY <1>2
  <2>. DEFINE next == Below(g[n])
              h == [i \in 0..(n + 1) |-> IF i = n + 1 THEN next ELSE g[i]]
  <2>2. h[0] = {d} /\ h[n + 1] = next /\ \A i \in 0..n : h[i] = g[i]
    BY <2>1 DEF Levels
  <2>3. DOMAIN h = 0..(n + 1)
    OBVIOUS
  <2>. HIDE DEF h, next
  <2>4. ASSUME NEW i \in 0..((n + 1) - 1) PROVE h[i + 1] = Below(h[i])
    <3>1. CASE i = n
      BY <2>2, <3>1 DEF next
    <3>2. CASE i # n
      <4>1. i \in 0..(n - 1) /\ i + 1 \in 0..n /\ i \in 0..n
        BY <3>2
      <4>. QED BY <2>1, <2>2, <4>1 DEF Levels
    <3>. QED BY <3>1, <3>2
  <2>. QED BY <2>2, <2>3, <2>4 DEF Levels
<1>3. Upto(m)
  <2>1. 0 \in S /\ \A n \in Nat : n \in S => n + 1 \in S
    <3>. HIDE DEF Upto
    <3>. QED BY <1>1, <1>2
  <2>2. m \in S
    <3>. HIDE DEF S
    <3>. QED BY <2>1, Induct
  <2>. QED BY <2>2
<1>4. PICK g : DOMAIN g = 0..m /\ Levels(g, d, m)
  BY <1>3
<1>. DEFINE At(c, n) == IF n = 0 THEN {d} ELSE {x \in Hierarchy!Live : rows[x].parent \in c[n-1]}
            Down(c) == c = [n \in 0..m |-> At(c, n)]
            f == [n \in 0..m |-> g[n]]
<1>5. Down(f)
  <2>1. ASSUME NEW n \in 0..m PROVE g[n] = At(f, n)
    <3>1. CASE n = 0
      BY <1>4, <3>1 DEF Levels
    <3>2. CASE n # 0
      <4>1. n - 1 \in 0..(m - 1) /\ (n - 1) + 1 = n /\ n - 1 \in 0..m
        BY <3>2
      <4>2. g[n] = Below(g[n - 1])
        BY <1>4, <4>1 DEF Levels
      <4>. QED BY <3>2, <4>1, <4>2 DEF Below
    <3>. QED BY <3>1, <3>2
  <2>. QED BY <2>1
<1>6. Down(CHOOSE c : Down(c))
  <2>. HIDE DEF Down
  <2>. QED BY <1>5
<1>7. Hierarchy!Level(d, m) = CHOOSE c : Down(c)
  BY DEF Hierarchy!Level
<1>8. PICK c : c = Hierarchy!Level(d, m) /\ Down(c)
  BY <1>6, <1>7
<1>9. c[0] = {d}
  BY <1>8
<1>10. ASSUME NEW n \in 0..(m - 1) PROVE c[n + 1] = Below(c[n])
  <2>1. n + 1 \in 0..m /\ (n + 1) - 1 = n /\ n + 1 # 0
    OBVIOUS
  <2>. QED BY <1>8, <2>1 DEF Below
<1>. QED BY <1>8, <1>9, <1>10 DEF Levels

\* A row on level n is n rows below d.
Descends(c, d, n) ==
    /\ c \in [0..n -> DOMAIN rows] /\ c[0] = d
    /\ \A i \in 0..(n - 1) : c[i + 1] \in Hierarchy!Live /\ rows[c[i + 1]].parent = c[i]

LEMMA LevelDescends ==
    ASSUME NEW d \in DOMAIN rows, NEW m \in Nat, NEW L, Levels(L, d, m), NEW x \in L[m]
    PROVE  \E c : Descends(c, d, m)
<1>. DEFINE Reached(n) == n <= m => \A y \in L[n] : \E c : Descends(c, d, n) /\ c[n] = y
            S == {n \in Nat : Reached(n)}
<1>1. Reached(0)
  <2>1. Descends([i \in 0..0 |-> d], d, 0)
    BY DEF Descends
  <2>. QED BY <2>1 DEF Levels
<1>2. ASSUME NEW n \in Nat, Reached(n) PROVE Reached(n + 1)
  <2>. SUFFICES ASSUME n + 1 <= m, NEW y \in L[n + 1]
                PROVE  \E c : Descends(c, d, n + 1) /\ c[n + 1] = y
    OBVIOUS
  <2>1. y \in Hierarchy!Live /\ y \in DOMAIN rows /\ rows[y].parent \in L[n]
    BY Lives DEF Levels, Below
  <2>2. PICK c : Descends(c, d, n) /\ c[n] = rows[y].parent
    BY <1>2, <2>1
  <2>. DEFINE h == [i \in 0..(n + 1) |-> IF i = n + 1 THEN y ELSE c[i]]
  <2>3. h \in [0..(n + 1) -> DOMAIN rows] /\ h[n + 1] = y /\ \A i \in 0..n : h[i] = c[i]
    BY <2>1, <2>2 DEF Descends
  <2>. HIDE DEF h
  <2>4. ASSUME NEW i \in 0..((n + 1) - 1) PROVE h[i + 1] \in Hierarchy!Live /\ rows[h[i + 1]].parent = h[i]
    <3>1. CASE i = n
      BY <2>1, <2>2, <2>3, <3>1
    <3>2. CASE i # n
      <4>1. i \in 0..(n - 1) /\ i + 1 \in 0..n /\ i \in 0..n
        BY <3>2
      <4>. QED BY <2>2, <2>3, <4>1 DEF Descends
    <3>. QED BY <3>1, <3>2
  <2>5. Descends(h, d, n + 1)
    <3>1. h[0] = d
      BY <2>2, <2>3 DEF Descends
    <3>. QED BY <2>3, <2>4, <3>1 DEF Descends
  <2>. QED BY <2>3, <2>5
<1>3. Reached(m)
  <2>1. 0 \in S /\ \A n \in Nat : n \in S => n + 1 \in S
    <3>. HIDE DEF Reached
    <3>. QED BY <1>1, <1>2
  <2>2. m \in S
    <3>. HIDE DEF S
    <3>. QED BY <2>1, Induct
  <2>. QED BY <2>2
<1>. QED BY <1>3

\* As many rows down as there are rows, one is met twice, and lies on a circle.
LEMMA NoCircleEnds ==
    ASSUME NEW n \in Nat, DOMAIN rows = 1..n, Hierarchy!F!NoCircle, NEW d \in DOMAIN rows
    PROVE  Hierarchy!TreeEnds(d)
<1>0. Hierarchy!Cardinality(Hierarchy!Existing) = n
  BY NextId
<1>. SUFFICES ASSUME NEW x \in Hierarchy!Level(d, n)[n] PROVE FALSE
  BY <1>0 DEF Hierarchy!TreeEnds
<1>1. PICK c : Descends(c, d, n)
  <2>. PICK L : L = Hierarchy!Level(d, n)
    OBVIOUS
  <2>. QED BY LevelLevels, LevelDescends
<1>2. PICK i, j \in 0..n : i # j /\ c[i] = c[j]
  <2>1. IsFiniteSet(0..n) /\ Cardinality(0..n) = n + 1 /\ IsFiniteSet(1..n) /\ Cardinality(1..n) = n
    BY FS_Interval
  <2>2. c \in [0..n -> 1..n]
    BY <1>1 DEF Descends
  <2>3. Cardinality(1..n) < Cardinality(0..n)
    BY <2>1
  <2>. QED BY <2>1, <2>2, <2>3, FS_PigeonHole
<1>3. ASSUME NEW k \in 0..n, NEW l \in 0..n, k < l, c[k] = c[l] PROVE FALSE
  <2>. DEFINE S == {c[m] : m \in (k + 1)..l}
  <2>1. S \in SUBSET Hierarchy!F!Live /\ c[l] \in S
    <3>1. ASSUME NEW m \in (k + 1)..l PROVE c[m] \in Hierarchy!Live
      <4>1. m - 1 \in 0..(n - 1) /\ (m - 1) + 1 = m
        OBVIOUS
      <4>. QED BY <1>1, <4>1 DEF Descends
    <3>2. l \in (k + 1)..l
      BY <1>3
    <3>. QED BY <3>1, <3>2, Lives
  <2>2. ASSUME NEW m \in (k + 1)..l PROVE rows[c[m]].parent \in S
    <3>1. m - 1 \in 0..(n - 1) /\ (m - 1) + 1 = m
      OBVIOUS
    <3>2. rows[c[m]].parent = c[m - 1]
      BY <1>1, <3>1 DEF Descends
    <3>3. m - 1 = k \/ m - 1 \in (k + 1)..l
      OBVIOUS
    <3>. QED BY <1>3, <2>1, <3>2, <3>3
  <2>. QED BY <2>1, <2>2 DEF Hierarchy!F!NoCircle
<1>4. i < j \/ j < i
  BY <1>2
<1>. QED BY <1>2, <1>3, <1>4

\* So the recursive query of getDistributorTree ends for every distributor.
THEOREM HierarchyTreeQueryEnds ==
    ASSUME Hierarchy!DistributorsAssumption, MaxUp >= MaxId, NEW t, Threads = {t}
    PROVE  Hierarchy!F!Sound /\ Hierarchy!Spec => []Hierarchy!TreeQueryEnds
<1>1. Lone(t) /\ ForestInv => Hierarchy!TreeQueryEnds
  <2>. SUFFICES ASSUME Lone(t), ForestInv, NEW d \in DOMAIN rows PROVE Hierarchy!TreeEnds(d)
    BY DEF Hierarchy!TreeQueryEnds, Hierarchy!Existing
  <2>1. PICK n \in 0..MaxId : DOMAIN rows = 1..n
    BY DEF Lone, HierarchyInv, HierarchyTypes, RowTypes
  <2>. QED BY <2>1, NoCircleEnds, HierarchyConstant DEF ForestInv, Hierarchy!F!Sound
<1>. QED BY <1>1, ForestInvariant, PTL
===============================================================================
