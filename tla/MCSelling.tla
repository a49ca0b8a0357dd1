------------------------------ MODULE MCSelling ------------------------------
(***************************************************************************)
(* What is sold, for how much and to whom: Cart, Pricing and Distributors.   *)
(* They share no state, so a step of one is a stutter of the others and each *)
(* is checked by itself: `part` is chosen at the start, only that component   *)
(* moves.  Cart is checked twice, each with a crash: for two requests that   *)
(* race, and for one request at a time, in the variables that end in 1.     *)
(***************************************************************************)
EXTENDS Cart

CONSTANTS
    t1, t2,            \* requests
    x1, x2,            \* templates; x2 is below x1, or still to come
    p1, p2, NoPrice,   \* prices, and a NULL
    na, nb, nc,        \* names
    Nil, Idle

Parts == {"carts", "cart", "pricing", "distributors"}

VARIABLES
    part,
    seq1, cart1, ttl1, orders1, subNos1, pc1, who1, item1, value1, lines1, todo1, number1, order1,
    mySubs1, crashes1,
    today, templates, price, assigned, pricePc, kind, first, at, left, quote, steady, step, target,
    writes,
    rows, distPc, id, copy, distAt, seen, steps, updates

cartVars == vars
aloneVars == <<seq1, cart1, ttl1, orders1, subNos1, pc1, who1, item1, value1, lines1, todo1, number1,
               order1, mySubs1, crashes1>>
pricingVars == <<today, templates, price, assigned, pricePc, kind, first, at, left, quote, steady,
                 step, target, writes>>
hierarchyVars == <<rows, distPc, id, copy, distAt, seen, steps, updates>>
allVars == <<part, cartVars, aloneVars, pricingVars, hierarchyVars>>

OneRequest == INSTANCE Cart WITH
    seq <- seq1, cart <- cart1, ttl <- ttl1, orders <- orders1, subNos <- subNos1, pc <- pc1,
    who <- who1, item <- item1, value <- value1, lines <- lines1, todo <- todo1, number <- number1,
    order <- order1, mySubs <- mySubs1, crashes <- crashes1,
    Threads <- {t1}, Products <- {"server", "disk"}, Quantities <- {1, 2}, Months <- {1, 12}

Template(parent, global) ==
    [parent |-> parent, global |-> global, from |-> 1, until |-> 3, status |-> 1]
Chains == INSTANCE Pricing WITH
    pc <- pricePc, Templates <- {x1, x2}, Prices <- {p1, p2}, Buyers <- {t1}, Admins <- {t2},
    None <- Nil, Null <- NoPrice, LastDay <- 2, MaxWrites <- 2, MaxDepth <- 2,
    Known <- {[x \in {x1} |-> Template(Nil, TRUE)],
              [x \in {x1, x2} |-> IF x = x1 THEN Template(Nil, TRUE) ELSE Template(x1, FALSE)]},
    Priced <- {[x \in {x1, x2} |-> IF x = x1 THEN p1 ELSE Nil]}

Hierarchy == INSTANCE Distributors WITH
    pc <- distPc, at <- distAt, Threads <- {t1}, Known <- << >>, MaxId <- 3, Names <- {na, nb, nc},
    Terms <- {0}, MaxDepth <- 3, MaxUpdates <- 2

AloneIdle ==
    /\ seq1 = Idle /\ cart1 = Idle /\ ttl1 = Idle /\ orders1 = Idle /\ subNos1 = Idle /\ pc1 = Idle
    /\ who1 = Idle /\ item1 = Idle /\ value1 = Idle /\ lines1 = Idle /\ todo1 = Idle
    /\ number1 = Idle /\ order1 = Idle /\ mySubs1 = Idle /\ crashes1 = Idle
PricingIdle ==
    /\ today = Idle /\ templates = Idle /\ price = Idle /\ assigned = Idle /\ pricePc = Idle
    /\ kind = Idle /\ first = Idle /\ at = Idle /\ left = Idle /\ quote = Idle /\ steady = Idle
    /\ step = Idle /\ target = Idle /\ writes = Idle
DistributorsIdle ==
    /\ rows = Idle /\ distPc = Idle /\ id = Idle /\ copy = Idle /\ distAt = Idle
    /\ seen = Idle /\ steps = Idle /\ updates = Idle

SellingInit ==
    /\ part \in Parts /\ Init
    /\ IF part = "cart" THEN OneRequest!Init ELSE AloneIdle
    /\ IF part = "pricing" THEN Chains!Init ELSE PricingIdle
    /\ IF part = "distributors" THEN Hierarchy!Init ELSE DistributorsIdle

SellingNext ==
    \/ part = "carts" /\ Next /\ UNCHANGED <<part, aloneVars, pricingVars, hierarchyVars>>
    \/ part = "cart" /\ OneRequest!Next /\ UNCHANGED <<part, cartVars, pricingVars, hierarchyVars>>
    \/ part = "pricing" /\ Chains!Next /\ UNCHANGED <<part, cartVars, aloneVars, hierarchyVars>>
    \/ part = "distributors" /\ Hierarchy!Next /\ UNCHANGED <<part, cartVars, aloneVars, pricingVars>>

SellingSpec == SellingInit /\ [][SellingNext]_allVars

ASSUME SellingAssumption ==
    /\ CartAssumption /\ OneRequest!CartAssumption
    /\ Chains!PricingAssumption /\ Hierarchy!DistributorsAssumption

-------------------------------------------------------------------------------
\* Every table, key and request of the component that runs stays in its domain.
AllTypesOK ==
    /\ part \in Parts
    /\ part = "carts" => TypeOK
    /\ part = "cart" => OneRequest!TypeOK
    /\ part = "pricing" => Chains!TypeOK
    /\ part = "distributors" => Hierarchy!TypeOK

\* While an administrator changes templates, prices and assignments, a quote
\* that nothing has disturbed is what the nearest template in force with a row
\* for the product holds, though the walk may visit no more than there are.
QuoteIsNearest == part = "pricing" => Chains!QuoteIsNearest

\* One request at a time, whatever expires, fails or crashes, the Redis commands
\* and statements of addItem, updateItem, removeItem and createOrder amount to
\* the atomic cart.
AloneSpec ==
    /\ part = "cart" => OneRequest!Book!Init
    /\ [][part = "cart" => [OneRequest!Book!Next]_<<OneRequest!CartSeen, OneRequest!OrdersSeen>>]_allVars

\* One request at a time, the statements of create and update amount to the
\* atomic hierarchy: whatever columns its body names, a request makes no circle,
\* shares no name and changes no other distributor; and the recursive query for
\* the tree of each distributor ends.
ForestSpec ==
    /\ part = "distributors" => Hierarchy!F!Init
    /\ [][part = "distributors" => [Hierarchy!F!Next]_rows]_allVars
    /\ [](part = "distributors" => Hierarchy!TreeQueryEnds)
===============================================================================
