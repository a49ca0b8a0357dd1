---------------------------------- MODULE Sync ----------------------------------
(***************************************************************************)
(* The synchronisation of products, stock, clients and invoices from the     *)
(* upstream ZJMF systems: ZJMFSyncCron, ZJMFSyncService, the adapters'        *)
(* sync functions and the table zjmf_entity_mappings.  A job is a thread      *)
(* that runs tasks <<connection, entity>>; every statement commits by itself. *)
(***************************************************************************)
EXTENDS Integers, Sequences, FiniteSetsExt

CONSTANTS
    V10, Finance,   \* upstream connections by type; their ids
    Jobs, Cron,     \* threads; the one of the timers
    Ids,            \* ids the remote systems give
    Own,            \* products made here before
    Servers,        \* subscriptions whose server is mapped in the meantime
    MaxVersion,     \* bound: changes of a remote entity
    MaxRows,        \* bound: rows of a table
    MaxAttempts,    \* kMaxRetries
    MaxFaults,      \* bound: failing calls and statements, and crashes
    None

Conns == V10 \cup Finance
Kinds == {"product", "client", "invoice"}
Entities == Kinds \cup {"inventory"}
EntitiesOf(c) == IF c \in V10 THEN {"product", "inventory"} ELSE {"client", "invoice"}
Items == {x \in Conns \X Kinds \X Ids : x[2] \in EntitiesOf(x[1])}
System(c) == IF c \in V10 THEN "zjmf_v10" ELSE "zjmf_finance"

SyncAssumption ==
    /\ V10 \cap Finance = {} /\ Conns \subseteq Nat \ {0} /\ Ids \subseteq Nat \ {0}
    /\ IsFiniteSet(Conns) /\ IsFiniteSet(Jobs) /\ Cron \in Jobs
    /\ None \notin Jobs \cup Conns \cup Items \cup Items \X (0..MaxVersion)
    /\ Own \in Nat /\ Servers \subseteq Nat \ {0}
    /\ MaxVersion \in Nat /\ MaxRows \in Nat /\ MaxFaults \in Nat
    /\ MaxAttempts \in Nat \ {0}

VARIABLES
    remote,       \* the version of each remote entity; 0: there is none
    enabled,      \* zjmf_connections with status = 1
    rows,         \* products, distributors, invoices: [of, version, stock]
    maps,         \* zjmf_entity_mappings
    log,          \* the last row of zjmf_sync_logs, by connection
    adapters,     \* connections with a cached adapter
    inProgress,   \* syncInProgress_
    pc, manual,   \* next statement of each job; it was triggered for one connection
    plan,         \* tasks it has left, the current one first
    attempt, fetched, item, local, errors,
    faults, cut   \* history: faults so far, and items cut short after their row

tables == <<rows, maps, log>>
shared == <<adapters, inProgress>>
loop   == <<attempt, fetched, item, local, errors>>
vars   == <<remote, enabled, tables, shared, pc, manual, plan, loop, faults, cut>>

Blank == [of |-> None, version |-> 0, stock |-> None]    \* a product made here

Init ==
    /\ remote \in [Items -> {0, 1} \cap (0..MaxVersion)]
    /\ enabled = Conns
    /\ rows = [k \in Kinds |-> IF k = "product" THEN [n \in 1..Own |-> Blank] ELSE << >>]
    /\ maps = {}
    /\ log = [c \in Conns |-> "none"]
    /\ adapters = {}
    /\ inProgress = {}
    /\ pc = [j \in Jobs |-> "idle"]
    /\ manual = [j \in Jobs |-> FALSE]
    /\ plan = [j \in Jobs |-> << >>]
    /\ attempt = [j \in Jobs |-> 0]
    /\ fetched = [j \in Jobs |-> {}]
    /\ item = [j \in Jobs |-> None]
    /\ local = [j \in Jobs |-> 0]
    /\ errors = [j \in Jobs |-> 0]
    /\ faults = 0
    /\ cut = [i \in Items |-> 0]

Task(j) == Head(plan[j])
Conn(j) == Task(j)[1]
Entity(j) == Task(j)[2]
Goto(j, to) == pc' = [pc EXCEPT ![j] = to]
MayFail == faults < MaxFaults /\ faults' = faults + 1
NoFault == UNCHANGED <<faults, cut>>

-------------------------------------------------------------------------------
\* The tables.

\* Mutant: the local id for the remote one.
MappedByLocal(k, c, i) == {m \in maps : m.system = System(c) /\ m.type = k /\ m.local = i}
\* The rows a lookup finds: of any type and any connection for a product.
Mapped(k, c, i) ==
    {m \in maps : /\ m.system = System(c) /\ m.id = i
                  /\ k = "product" \/ m.type = k}

\* UNIQUE (remote_system, remote_id) and UNIQUE (local_type, local_id, remote_system).
Holder(s, i)   == {m \in maps : m.system = s /\ m.id = i}
Holding(t, n, s) == {m \in maps : m.type = t /\ m.local = n /\ m.system = s}

\* Mutant: an insert that leaves a known row alone.
UpdateNothing(k, n, of, v) == UNCHANGED rows
\* The specs of a product are replaced, with the stock among them; no row has the
\* number of a subscription above those of the products.
Update(k, n, of, v) ==
    rows' = IF n \in DOMAIN rows[k]
            THEN [rows EXCEPT ![k][n] = [of |-> of, version |-> v, stock |-> None]]
            ELSE rows

-------------------------------------------------------------------------------
\* The timers of the cron, and the requests of an administrator.

\* ORDER BY id; not more than one order.
Sorted(S) == {s \in [1..Cardinality(S) -> S] : \A a, b \in DOMAIN s : a < b => s[a] < s[b]}

Begin(j, tasks, one) ==
    /\ pc[j] = "idle" /\ tasks # << >>
    /\ plan' = [plan EXCEPT ![j] = tasks]
    /\ manual' = [manual EXCEPT ![j] = one]
    /\ Goto(j, "adapter")
    /\ UNCHANGED <<remote, enabled, tables, shared, loop>> /\ NoFault

RunFor(S, what, j) ==
    \E s \in Sorted(S) : Begin(j, [n \in DOMAIN s |-> <<s[n], what>>], FALSE)
RunProductSync(j) == RunFor(V10 \cap enabled, "product", j)
RunInventorySync(j) == RunFor(V10 \cap enabled, "inventory", j)

\* For each connection the clients, then the invoices.
RunClientSync(j) ==
    \E s \in Sorted(Finance \cap enabled) :
        Begin(j, [n \in 1..(2 * Len(s)) |->
                     <<s[(n + 1) \div 2], IF n % 2 = 1 THEN "client" ELSE "invoice">>], FALSE)

Trigger(j) ==
    \E c \in Conns, what \in {"product", "inventory"} : Begin(j, << <<c, what>> >>, TRUE)

\* With no connection in its body a request runs what the timer runs.
Request(j) == j # Cron /\ (Trigger(j) \/ RunProductSync(j) \/ RunInventorySync(j))

OnProductSync   == RunProductSync(Cron)
OnInventorySync == RunInventorySync(Cron)
OnClientSync    == RunClientSync(Cron)

\* The task is over; the next one, if any.
Onward(j, rest) ==
    /\ plan' = [plan EXCEPT ![j] = rest]
    /\ Goto(j, IF rest = << >> THEN "idle" ELSE "adapter")
    /\ manual' = IF rest = << >> THEN [manual EXCEPT ![j] = FALSE] ELSE manual
    /\ attempt' = [attempt EXCEPT ![j] = 0] /\ errors' = [errors EXCEPT ![j] = 0]
    /\ fetched' = [fetched EXCEPT ![j] = {}]
    /\ item' = [item EXCEPT ![j] = None] /\ local' = [local EXCEPT ![j] = 0]

\* The cached adapter, whatever the connection's status is by now, or a new one.
GetAdapter(j) ==
    /\ pc[j] = "adapter" /\ Conn(j) \in adapters \cup enabled
    /\ adapters' = adapters \cup {Conn(j)}
    /\ Goto(j, IF manual[j] THEN "check" ELSE "mark")
    /\ UNCHANGED <<remote, enabled, tables, inProgress, manual, plan, loop>> /\ NoFault

\* Disabled, or not read: the tasks of the connection, one after the other, are left out.
NoAdapter(j) ==
    /\ pc[j] = "adapter" /\ Conn(j) \notin adapters
    /\ IF Conn(j) \in enabled THEN MayFail ELSE UNCHANGED faults
    /\ \E n \in 1..Len(plan[j]) :
          /\ \A m \in 1..n : plan[j][m][1] = Conn(j)
          /\ n < Len(plan[j]) => plan[j][n + 1][1] # Conn(j)
          /\ Onward(j, SubSeq(plan[j], n + 1, Len(plan[j])))
    /\ UNCHANGED <<remote, enabled, tables, shared, cut>>

\* isSyncInProgress, asked for a manual trigger only.
Check(j) ==
    /\ pc[j] = "check"
    /\ IF Task(j) \in inProgress
       THEN Onward(j, Tail(plan[j]))
       ELSE Goto(j, "mark") /\ UNCHANGED <<manual, plan, loop>>
    /\ UNCHANGED <<remote, enabled, tables, shared>> /\ NoFault

-------------------------------------------------------------------------------
\* executeWithRetry.
Mark(j) ==
    /\ pc[j] = "mark"
    /\ inProgress' = inProgress \cup {Task(j)}
    /\ Goto(j, "fetch")
    /\ attempt' = [attempt EXCEPT ![j] = 1]
    /\ UNCHANGED <<remote, enabled, tables, adapters, manual, plan, fetched, item, local, errors>>
    /\ NoFault

\* A finance adapter has nothing to do for products and stock.
NothingToSync(j) ==
    /\ pc[j] = "fetch" /\ Entity(j) \notin EntitiesOf(Conn(j))
    /\ Goto(j, "clear")
    /\ UNCHANGED <<remote, enabled, tables, shared, manual, plan, loop>> /\ NoFault

\* The stock of a product comes with the product's id.
Listed(c, what) ==
    LET k == IF what = "inventory" THEN "product" ELSE what IN
    {<<x, remote[x]>> : x \in {y \in {c} \X {k} \X Ids : remote[y] > 0}}

Fetch(j) ==
    /\ pc[j] = "fetch" /\ Entity(j) \in EntitiesOf(Conn(j))
    /\ fetched' = [fetched EXCEPT ![j] = Listed(Conn(j), Entity(j))]
    /\ errors' = [errors EXCEPT ![j] = 0]
    /\ Goto(j, "item")
    /\ UNCHANGED <<remote, enabled, tables, shared, manual, plan, attempt, item, local>> /\ NoFault

Retry(j) ==
    IF attempt[j] >= MaxAttempts
    THEN Goto(j, "clear") /\ UNCHANGED attempt
    ELSE UNCHANGED pc /\ attempt' = [attempt EXCEPT ![j] = @ + 1]

\* An error or a body of another form is logged; no token left is not.
FetchFails(j) ==
    /\ pc[j] = "fetch" /\ Entity(j) \in EntitiesOf(Conn(j)) /\ MayFail
    /\ log' \in {log, [log EXCEPT ![Conn(j)] = "failed"]}
    /\ Retry(j)
    /\ UNCHANGED <<remote, enabled, rows, maps, shared, manual, plan, fetched, item, local,
                   errors, cut>>

Clear(j) ==
    /\ pc[j] = "clear"
    /\ inProgress' = inProgress \ {Task(j)}
    /\ Onward(j, Tail(plan[j]))
    /\ UNCHANGED <<remote, enabled, tables, adapters>> /\ NoFault

-------------------------------------------------------------------------------
\* One item: syncProducts, syncClients, syncInvoices and syncInventory.

NextItem(j, bad) ==
    /\ Goto(j, "item")
    /\ item' = [item EXCEPT ![j] = None] /\ local' = [local EXCEPT ![j] = 0]
    /\ errors' = [errors EXCEPT ![j] = IF bad THEN @ + 1 ELSE @]

Lookup(j) ==
    /\ pc[j] = "item" /\ Entity(j) # "inventory"
    /\ \E x \in fetched[j] :
          /\ fetched' = [fetched EXCEPT ![j] = @ \ {x}]
          /\ item' = [item EXCEPT ![j] = x]
          /\ LET found == Mapped(Entity(j), Conn(j), x[1][3]) IN
                local' = [local EXCEPT ![j] =
                             IF found = {} THEN 0 ELSE (CHOOSE m \in found : TRUE).local]
    /\ Goto(j, "write")
    /\ UNCHANGED <<remote, enabled, tables, shared, manual, plan, attempt, errors>> /\ NoFault

WriteFound(j) ==
    /\ pc[j] = "write" /\ local[j] # 0
    /\ Update(Entity(j), local[j], item[j][1], item[j][2])
    /\ Goto(j, "map")
    /\ UNCHANGED <<remote, enabled, maps, log, shared, manual, plan, loop>> /\ NoFault

WriteNew(j) ==
    /\ pc[j] = "write" /\ local[j] = 0 /\ Entity(j) # "invoice"
    /\ Len(rows[Entity(j)]) < MaxRows
    /\ rows' = [rows EXCEPT ![Entity(j)] =
                   Append(@, [of |-> item[j][1], version |-> item[j][2], stock |-> None])]
    /\ local' = [local EXCEPT ![j] = Len(rows'[Entity(j)])]
    /\ Goto(j, "map")
    /\ UNCHANGED <<remote, enabled, maps, log, shared, manual, plan, attempt, fetched, item, errors>>
    /\ NoFault

\* distributor_id 0 is no distributor, and an invoice must have its period.
WriteInvoice(j) ==
    /\ pc[j] = "write" /\ local[j] = 0 /\ Entity(j) = "invoice"
    /\ NextItem(j, TRUE)
    /\ UNCHANGED <<remote, enabled, tables, shared, manual, plan, attempt, fetched>> /\ NoFault

\* INSERT .. ON CONFLICT (local_type, local_id, remote_system) DO UPDATE.
MapIt(j) ==
    /\ pc[j] = "map"
    /\ LET s == System(Conn(j))
           i == item[j][1][3]
           held == Holding(Entity(j), local[j], s) # {}
           taken == Holder(s, i) # {} IN
       /\ maps' = IF held \/ taken THEN maps
                  ELSE maps \cup {[type |-> Entity(j), local |-> local[j], system |-> s, id |-> i]}
       /\ NextItem(j, taken /\ ~held)
    /\ UNCHANGED <<remote, enabled, rows, log, shared, manual, plan, attempt, fetched>> /\ NoFault

\* Mutant: the row is taken back, one that was there before too.
ItemFailsUndone(j) ==
    /\ pc[j] \in {"write", "map"} /\ MayFail
    /\ rows' = IF pc[j] = "map" THEN [rows EXCEPT ![Entity(j)][local[j]] = Blank] ELSE rows
    /\ NextItem(j, TRUE)
    /\ UNCHANGED <<remote, enabled, maps, log, shared, manual, plan, attempt, fetched, cut>>
\* A statement of an item fails; the item before its mapping keeps its row.
ItemFails(j) ==
    /\ pc[j] \in {"write", "map"} /\ MayFail
    /\ cut' = IF pc[j] = "map" THEN [cut EXCEPT ![item[j][1]] = @ + 1] ELSE cut
    /\ NextItem(j, TRUE)
    /\ UNCHANGED <<remote, enabled, tables, shared, manual, plan, attempt, fetched>>

\* The product with the remote product's id here.
Stock(j) ==
    /\ pc[j] = "item" /\ Entity(j) = "inventory"
    /\ \E x \in fetched[j] :
          /\ fetched' = [fetched EXCEPT ![j] = @ \ {x}]
          /\ rows' = IF x[1][3] \in DOMAIN rows["product"]
                     THEN [rows EXCEPT !["product"][x[1][3]].stock = x[1]]
                     ELSE rows
    /\ UNCHANGED <<remote, enabled, maps, log, shared, pc, manual, plan, attempt, item, local, errors>>
    /\ NoFault

StockFails(j) ==
    /\ pc[j] = "item" /\ Entity(j) = "inventory" /\ MayFail
    /\ \E x \in fetched[j] : fetched' = [fetched EXCEPT ![j] = @ \ {x}]
    /\ errors' = [errors EXCEPT ![j] = @ + 1]
    /\ UNCHANGED <<remote, enabled, tables, shared, pc, manual, plan, attempt, item, local, cut>>

\* A success, whatever became of the items; a log that cannot be written is left out.
Finish(j) ==
    /\ pc[j] = "item" /\ fetched[j] = {}
    /\ \/ log' = [log EXCEPT ![Conn(j)] = "success"] /\ UNCHANGED faults
       \/ MayFail /\ UNCHANGED log
    /\ Goto(j, "clear")
    /\ UNCHANGED <<remote, enabled, rows, maps, shared, manual, plan, loop, cut>>

-------------------------------------------------------------------------------
\* What others do.

RemoteChanges(i) ==
    /\ remote[i] < MaxVersion
    /\ remote' = [remote EXCEPT ![i] = @ + 1]
    /\ UNCHANGED <<enabled, tables, shared, pc, manual, plan, loop>> /\ NoFault

Switch(c) ==
    /\ enabled' = IF c \in enabled THEN enabled \ {c} ELSE enabled \cup {c}
    /\ UNCHANGED <<remote, tables, shared, pc, manual, plan, loop>> /\ NoFault

\* The provisioning stores a server's id: the number of servers created, 1.
StoreEntityMapping(n) ==
    /\ Holder("zjmf_v10", 1) = {}
    /\ maps' = {m \in maps : m \notin Holding("subscription", n, "zjmf_v10")}
                \cup {[type |-> "subscription", local |-> n, system |-> "zjmf_v10", id |-> 1]}
    /\ UNCHANGED <<remote, enabled, rows, log, shared, pc, manual, plan, loop>> /\ NoFault

\* The process dies and starts again: the flags and the adapters were in memory.
Crash ==
    /\ MayFail
    /\ pc' = [j \in Jobs |-> "idle"] /\ manual' = [j \in Jobs |-> FALSE]
    /\ plan' = [j \in Jobs |-> << >>]
    /\ attempt' = [j \in Jobs |-> 0] /\ errors' = [j \in Jobs |-> 0]
    /\ fetched' = [j \in Jobs |-> {}]
    /\ item' = [j \in Jobs |-> None] /\ local' = [j \in Jobs |-> 0]
    /\ adapters' = {} /\ inProgress' = {}
    /\ cut' = [i \in Items |->
                  cut[i] + Cardinality({j \in Jobs : pc[j] = "map" /\ item[j][1] = i})]
    /\ UNCHANGED <<remote, enabled, tables>>

-------------------------------------------------------------------------------
Run(j) ==
    \/ GetAdapter(j) \/ NoAdapter(j) \/ Check(j) \/ Mark(j)
    \/ NothingToSync(j) \/ Fetch(j) \/ Clear(j)
    \/ Lookup(j) \/ WriteFound(j) \/ WriteNew(j) \/ WriteInvoice(j) \/ MapIt(j)
    \/ Stock(j) \/ Finish(j)

Fails(j) == FetchFails(j) \/ ItemFails(j) \/ StockFails(j)

Outside ==
    \/ \E i \in Items : RemoteChanges(i)
    \/ \E c \in Conns : Switch(c)
    \/ \E n \in Servers : StoreEntityMapping(n)

Timers == OnProductSync \/ OnInventorySync \/ OnClientSync

Next ==
    \/ Timers
    \/ \E j \in Jobs : Request(j) \/ Run(j) \/ Fails(j)
    \/ Outside
    \/ Crash

Spec == Init /\ [][Next]_vars

-------------------------------------------------------------------------------
(* Properties. *)

(* Columns, flags, logs and jobs stay in their domains. *)
TypeOK ==
    /\ remote \in [Items -> 0..MaxVersion]
    /\ enabled \subseteq Conns /\ adapters \subseteq Conns
    /\ inProgress \subseteq Conns \X Entities
    /\ \A k \in Kinds : \A n \in DOMAIN rows[k] :
          /\ rows[k][n].of \in Items \cup {None} /\ rows[k][n].version \in 0..MaxVersion
          /\ rows[k][n].stock \in Items \cup {None}
    /\ \A m \in maps : /\ m.type \in Kinds \cup {"subscription"}
                       /\ m.system \in {"zjmf_v10", "zjmf_finance"} /\ m.id \in Ids \cup {1}
    /\ log \in [Conns -> {"none", "success", "failed"}]
    /\ \A j \in Jobs : /\ pc[j] # "idle" <=> plan[j] # << >>
                       /\ attempt[j] \in 0..MaxAttempts
                       /\ item[j] # None <=> pc[j] \in {"write", "map"}
    /\ faults \in 0..MaxFaults

RowsOf(i) == {n \in DOMAIN rows[i[2]] : rows[i[2]][n].of = i}
Latest(i) == Max({0} \cup {rows[i[2]][n].version : n \in RowsOf(i)})
Running(j) == pc[j] \in {"fetch", "item", "write", "map", "clear"}

\* A subscription's server has the remote id of a product: the lookup, of any
\* type, finds it, and the product made here with that number gets the copy.
Misled(i) == \E m \in Mapped(i[2], i[1], i[3]) : m.type # i[2]

(* However tasks are retried, fail or die, and however many threads run them, a
   remote entity gets no more rows than there are threads that can look it up at
   once, one for each time one was cut short before its mapping, and one made for
   something else when a server has its id. *)
CopiesBounded ==
    \A i \in Items :
        Cardinality(RowsOf(i)) <= Cardinality(Jobs) + cut[i] + (IF Misled(i) THEN 1 ELSE 0)

(* The flag of a connection and entity is up only while a task of it runs: no
   failure, refusal or exception leaves a synchronisation locked out for good. *)
FlagMeansRunning ==
    \A t \in inProgress : \E j \in Jobs : Running(j) /\ Task(j) = t

(* The copies of a remote entity only move forward, to versions it has had. *)
Copies == [i \in Items |-> Latest(i)]
M == INSTANCE Mirror WITH shown <- Copies
MirrorSpec == M!Spec

(* When a remote system stops changing, its products and clients end up here as they
   are there, whatever failed meanwhile. *)
CaughtUp == \A i \in Items : i[2] # "invoice" => Latest(i) = remote[i]
CatchesUp == <>[]CaughtUp

===============================================================================
