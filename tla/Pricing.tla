-------------------------------- MODULE Pricing --------------------------------
(***************************************************************************)
(* Which price a buyer is charged: pricing_service.cc walks from the         *)
(* template of the buyer's distributor to its parents, statement by          *)
(* statement, while price_template_controller.cc changes templates, and      *)
(* shows inherited prices by a walk of its own.  One product: the walks of   *)
(* different products share nothing.                                        *)
(***************************************************************************)
EXTENDS Integers, FiniteSets

CONSTANTS
    Buyers, Admins,   \* requests for a price, and requests that change one
    Templates, Prices,
    None, Null,       \* no row, or no template; and a column that is NULL
    LastDay,          \* bound: the last day
    MaxWrites,        \* bound: changes of templates, prices and assignments
    MaxDepth,         \* maxDepth of both walks, 20 in the code
    Known, Priced     \* the templates and the prices at the start

Days == 1..LastDay
Forever == LastDay + 1    \* expiry_date IS NULL

Rows == [parent: Templates \cup {None}, global: BOOLEAN,
         from: Days, until: Days \cup {Forever}, status: {0, 1}]

\* The parent of a template is a template: parent_id is a foreign key (001_init.sql:382).
PricingAssumption ==
    /\ LastDay \in Nat \ {0} /\ MaxWrites \in Nat /\ MaxDepth \in Nat \ {0}
    /\ None \notin Templates \cup Prices \cup {Null}
    /\ \A known \in Known :
          /\ DOMAIN known \subseteq Templates
          /\ \A x \in DOMAIN known :
                known[x] \in Rows /\ known[x].parent \in DOMAIN known \cup {None}
    /\ Priced \subseteq [Templates -> Prices \cup {Null, None}]

VARIABLES
    today,
    templates,    \* partial: the rows of price_templates
    price,        \* the product's row of each template: its price or Null, None where there is none
    assigned,     \* the template of the buyers' distributor, None when there is none
    pc, kind, first, at, left,  \* each walk: where it began, where it is, steps left
    quote,        \* the price found, Null included
    steady,       \* history: nothing has changed since the walk began
    step, target, \* each administrator's request
    writes

rows == <<templates, price, assigned>>
walk == <<pc, kind, first, at, left, quote>>
admin == <<step, target>>
vars == <<today, rows, walk, steady, admin, writes>>

Init ==
    /\ today = 1
    /\ templates \in Known /\ price \in Priced
    /\ assigned \in DOMAIN templates \cup {None}
    /\ pc = [b \in Buyers |-> "idle"]
    /\ kind = [b \in Buyers |-> None]
    /\ first = [b \in Buyers |-> None]
    /\ at = [b \in Buyers |-> None]
    /\ left = [b \in Buyers |-> 0]
    /\ quote = [b \in Buyers |-> None]
    /\ steady = [b \in Buyers |-> TRUE]
    /\ step = [a \in Admins |-> "idle"]
    /\ target = [a \in Admins |-> None]
    /\ writes = 0

Goto(b, to) == pc' = [pc EXCEPT ![b] = to]
Reach(b, x) == at' = [at EXCEPT ![b] = x]
Quote(b, p) == quote' = [quote EXCEPT ![b] = p] /\ Goto(b, "quoted")

Live(x) == templates[x].status = 1
InForce(x) == Live(x) /\ templates[x].from <= today /\ today <= templates[x].until
Parent(x) == IF Live(x) THEN templates[x].parent ELSE None

-------------------------------------------------------------------------------
\* getPriceForUser, and getTemplateProducts of a live template.
Ask(b) ==
    /\ pc[b] = "idle"
    /\ \/ /\ kind' = [kind EXCEPT ![b] = "charged"]
          /\ Goto(b, "user")
          /\ UNCHANGED first
       \/ \E x \in DOMAIN templates :
             /\ Live(x)
             /\ kind' = [kind EXCEPT ![b] = "shown"]
             /\ first' = [first EXCEPT ![b] = x]
             /\ Goto(b, "direct")
    /\ steady' = [steady EXCEPT ![b] = TRUE]
    /\ UNCHANGED <<today, rows, at, left, quote, admin, writes>>

\* An administrator and a user of no distributor buy at the default price.
User(b) ==
    /\ pc[b] = "user"
    /\ \/ Goto(b, "distributor") /\ UNCHANGED kind
       \/ Goto(b, "default") /\ kind' = [kind EXCEPT ![b] = "listed"]
    /\ UNCHANGED <<today, rows, first, at, left, quote, steady, admin, writes>>

Distributor(b) ==
    /\ pc[b] = "distributor"
    /\ first' = [first EXCEPT ![b] = assigned]
    /\ Reach(b, assigned)
    /\ left' = [left EXCEPT ![b] = MaxDepth]
    /\ Goto(b, IF assigned = None THEN "default" ELSE "price")
    /\ UNCHANGED <<today, rows, kind, quote, steady, admin, writes>>

\* Mutant: a deleted template's price is taken.
LookAtAny(b) ==
    /\ pc[b] = "price"
    /\ IF price[at[b]] # None
       THEN Quote(b, price[at[b]])
       ELSE Goto(b, "parent") /\ UNCHANGED quote
    /\ UNCHANGED <<today, rows, kind, first, at, left, steady, admin, writes>>

\* The product's row in a template that is live and in its dates, whatever the
\* price it holds.
Look(b) ==
    /\ pc[b] = "price"
    /\ IF InForce(at[b]) /\ price[at[b]] # None
       THEN Quote(b, price[at[b]])
       ELSE Goto(b, "parent") /\ UNCHANGED quote
    /\ UNCHANGED <<today, rows, kind, first, at, left, steady, admin, writes>>

\* Mutant: the walk gives up one template too early.
ClimbTooLittle(b, p) ==
    /\ Reach(b, p)
    /\ left' = [left EXCEPT ![b] = @ - 1]
    /\ Goto(b, IF p = None \/ left[b] <= 2 THEN "default" ELSE "price")

Climb(b, p) ==
    /\ Reach(b, p)
    /\ left' = [left EXCEPT ![b] = @ - 1]
    /\ Goto(b, IF p = None \/ left[b] = 1 THEN "default" ELSE "price")

\* A deleted template ends the chain, one out of its dates is passed over.
Up(b) ==
    /\ pc[b] = "parent"
    /\ Climb(b, Parent(at[b]))
    /\ UNCHANGED <<today, rows, kind, first, quote, steady, admin, writes>>

\* LIMIT 1 without an order: any global template in force that has a row will do,
\* and without any the answer is a skeleton of nulls.
Defaults == {x \in DOMAIN templates : templates[x].global /\ InForce(x) /\ price[x] # None}

Default(b) ==
    /\ pc[b] = "default"
    /\ IF Defaults = {} THEN Quote(b, Null)
                        ELSE \E x \in Defaults : Quote(b, price[x])
    /\ UNCHANGED <<today, rows, kind, first, at, left, steady, admin, writes>>

Direct(b) ==
    /\ pc[b] = "direct"
    /\ IF price[first[b]] # None
       THEN Quote(b, price[first[b]]) /\ UNCHANGED <<at, left>>
       ELSE /\ Goto(b, "ancestor")
            /\ Reach(b, first[b])
            /\ left' = [left EXCEPT ![b] = MaxDepth]
            /\ UNCHANGED quote
    /\ UNCHANGED <<today, rows, kind, first, steady, admin, writes>>

Ancestor(b) ==
    /\ pc[b] = "ancestor"
    /\ Reach(b, Parent(at[b]))
    /\ Goto(b, IF Parent(at[b]) = None THEN "default" ELSE "inherit")
    /\ UNCHANGED <<today, rows, kind, first, left, quote, steady, admin, writes>>

\* The ancestor's price, whatever its status and its dates.
Inherit(b) ==
    /\ pc[b] = "inherit"
    /\ IF price[at[b]] # None
       THEN Quote(b, price[at[b]]) /\ UNCHANGED left
       ELSE /\ left' = [left EXCEPT ![b] = @ - 1]
            /\ Goto(b, IF left[b] = 1 THEN "default" ELSE "ancestor")
            /\ UNCHANGED quote
    /\ UNCHANGED <<today, rows, kind, first, at, steady, admin, writes>>

Answer(b) ==
    /\ pc[b] = "quoted"
    /\ Goto(b, "idle")
    /\ kind' = [kind EXCEPT ![b] = None]
    /\ first' = [first EXCEPT ![b] = None]
    /\ at' = [at EXCEPT ![b] = None]
    /\ left' = [left EXCEPT ![b] = 0]
    /\ quote' = [quote EXCEPT ![b] = None]
    /\ UNCHANGED <<today, rows, steady, admin, writes>>

-------------------------------------------------------------------------------
Disturb == steady' = [b \in Buyers |-> FALSE]
Count == writes < MaxWrites /\ writes' = writes + 1
Close(a) ==
    /\ step' = [step EXCEPT ![a] = "idle"]
    /\ target' = [target EXCEPT ![a] = None]

\* createTemplate: the parent must exist, and an expiry is taken as it comes.
Create(a, x) ==
    /\ step[a] = "idle" /\ Count /\ Disturb
    /\ x \notin DOMAIN templates
    /\ \E row \in Rows :
          /\ row.status = 1 /\ row.parent \in DOMAIN templates \cup {None}
          /\ templates' = [y \in DOMAIN templates \cup {x} |->
                              IF y = x THEN row ELSE templates[y]]
    /\ UNCHANGED <<today, price, assigned, walk, admin>>

\* updateTemplate and setProductPrice first look for a live template.
Verify(a) ==
    /\ step[a] = "idle"
    /\ \E x \in DOMAIN templates :
          /\ Live(x)
          /\ target' = [target EXCEPT ![a] = x]
          /\ step' = [step EXCEPT ![a] = "write"]
    /\ UNCHANGED <<today, rows, walk, steady, writes>>

\* What a body can make of a row: a null in it changes nothing.
Changed(row) ==
    {new \in Rows :
        /\ new.parent \in DOMAIN templates \cup {None}
        /\ row.parent # None => new.parent # None
        /\ row.until # Forever => new.until # Forever
        /\ ~row.global => ~new.global}

Update(a) ==
    /\ step[a] = "write" /\ Count /\ Disturb
    /\ \E new \in Changed(templates[target[a]]) :
          templates' = [templates EXCEPT ![target[a]] = new]
    /\ Close(a)
    /\ UNCHANGED <<today, price, assigned, walk>>

\* An UPSERT: a price the body leaves out becomes NULL, in a row that is there
\* from now on.
SetPrice(a) ==
    /\ step[a] = "write" /\ Count /\ Disturb
    /\ \E p \in Prices \cup {Null} : price' = [price EXCEPT ![target[a]] = p]
    /\ Close(a)
    /\ UNCHANGED <<today, templates, assigned, walk>>

Delete(a, x) ==
    /\ step[a] = "idle" /\ Count /\ Disturb
    /\ x \in DOMAIN templates /\ Live(x)
    /\ templates' = [templates EXCEPT ![x].status = 0]
    /\ UNCHANGED <<today, price, assigned, walk, admin>>

\* distributor_service.cc assigns any template, or disables the distributor.
Assign ==
    /\ Count /\ Disturb
    /\ \E x \in DOMAIN templates \cup {None} : assigned' = x
    /\ UNCHANGED <<today, templates, price, walk, admin>>

NextDay ==
    /\ today < LastDay
    /\ today' = today + 1
    /\ Disturb
    /\ UNCHANGED <<rows, walk, admin, writes>>

-------------------------------------------------------------------------------
Statement(b) ==
    \/ User(b) \/ Distributor(b) \/ Look(b) \/ Up(b) \/ Default(b)
    \/ Direct(b) \/ Ancestor(b) \/ Inherit(b) \/ Answer(b)

Next ==
    \/ \E b \in Buyers : Ask(b) \/ Statement(b)
    \/ \E a \in Admins :
          \/ Verify(a) \/ Update(a) \/ SetPrice(a)
          \/ \E x \in Templates : Create(a, x) \/ Delete(a, x)
    \/ Assign \/ NextDay

Spec == Init /\ [][Next]_vars

-------------------------------------------------------------------------------
\* Rows, walks and requests stay in their domains; parents and assignments exist.
TypeOK ==
    /\ DOMAIN templates \subseteq Templates
    /\ \A x \in DOMAIN templates :
          templates[x] \in Rows /\ templates[x].parent \in DOMAIN templates \cup {None}
    /\ price \in [Templates -> Prices \cup {Null, None}]
    /\ assigned \in DOMAIN templates \cup {None}
    /\ \A b \in Buyers :
          /\ pc[b] \in {"price", "parent", "ancestor", "inherit"} =>
                at[b] \in DOMAIN templates /\ left[b] \in 1..MaxDepth
          /\ quote[b] # None <=> pc[b] = "quoted"
    /\ \A a \in Admins : step[a] = "write" => target[a] \in DOMAIN templates

\* The chain from x upwards, as far as so many templates above it, and the
\* prices the nearest template of it that is in force and has a row can give.
Chain(x, depth) ==
    LET up[n \in 0..depth] ==
            IF n = 0 THEN x ELSE IF up[n-1] = None THEN None ELSE Parent(up[n-1])
    IN  up

Sells(x) == x # None /\ InForce(x) /\ price[x] # None
Right(x, depth) ==
    LET c == Chain(x, depth)
        near == {n \in 0..depth : Sells(c[n]) /\ \A m \in 0..(n-1) : ~Sells(c[m])}
    IN  IF near # {} THEN {price[c[n]] : n \in near}
        ELSE IF Defaults # {} THEN {price[y] : y \in Defaults}
        ELSE {Null}

Undisturbed(b, k) == pc[b] = "quoted" /\ kind[b] = k /\ steady[b]

\* "The first price found in the chain, or system default" (pricing_service.h:31):
\* when nothing changes during the walk, what is charged is the price of the
\* nearest template in force that has a row for the product, NULL when that row
\* has none; cycles of parents, deleted templates and templates out of their
\* dates included, when the walk may visit as many templates as there are.
QuoteIsNearest == \A b \in Buyers :
    Undisturbed(b, "charged") => quote[b] \in Right(assigned, Cardinality(Templates))

===============================================================================
