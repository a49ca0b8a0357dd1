------------------------------- MODULE Lifecycle -------------------------------
(***************************************************************************)
(* An order from its creation to the services it pays for:                  *)
(* OrderService::transitionOrder (order_service.cc), the provisioning of its *)
(* subscriptions downstream (zjmf_provisioning_service.cc: provisionOrder,   *)
(* doProvision, the webhook, the 30 s polling, the manual retry) and the     *)
(* suspensions and terminations of subscription_service.cc.                  *)
(*                                                                          *)
(* transitionOrder is one transaction, whose COMMIT is queued when the call  *)
(* returns (queued); everything in the provisioning service is a statement   *)
(* of its own, autocommitted, and workers interleave between any two.        *)
(***************************************************************************)
EXTENDS Integers, FiniteSets

CONSTANTS
    Orders, Subs, OrderOf,
    Handlers,     \* threads that serve HTTP requests
    Poller,       \* the main event loop, which runs runPollingCheck
    ServerIds,    \* ids the downstream system assigns
    FirstId,      \* the id 1, which the platform takes every server to have
    kMaxRetries,  \* attempts HttpClient makes at one call
    MaxPolls,     \* kMaxPollCount; also kMaxPollTimeSeconds in polling intervals
    MaxCrashes    \* bound: crashes of the backend

Nothing == "nothing"
Open == -1    \* poll_until IS NULL
Workers == Handlers \cup {Poller}

ASSUME LifecycleAssumption ==
    /\ OrderOf \in [Subs -> Orders]
    /\ Poller \notin Handlers
    /\ FirstId \in ServerIds
    /\ kMaxRetries \in Nat \ {0}
    /\ MaxPolls \in Nat \ {0}
    /\ MaxCrashes \in Nat
    /\ Nothing \notin Subs \cup Orders \cup ServerIds

VARIABLES
    order,      \* orders.status
    status,     \* subscriptions.status
    prov,       \* subscriptions.provision_status
    polls,      \* subscriptions.poll_count
    until,      \* subscriptions.poll_until, in polling intervals from now
    recorded,   \* subscriptions.remote_resource_id is set (to "1")
    mapping,    \* the subscription zjmf_entity_mappings has for remote id "1"
    queued,     \* the transition of an order whose COMMIT is queued
    pc,         \* what each worker does next
    sub,        \* the subscription it works on
    ord,        \* the order id it was given; the webhook has none
    todo,       \* the subscriptions it has still to do
    onError,    \* what an exception leads to
    expired,    \* subscriptions the poller read with poll_count at its limit
    server,     \* external: the state of each server downstream
    servers,    \* external: the servers created for a subscription
    remote,     \* subscriptions with remote_system set (no code sets it)
    systemUser, \* is there a users row 0, the operator of system timelines?
    crashes

rows   == <<order, status, prov, polls, until, recorded, mapping>>
work   == <<pc, sub, ord, todo, onError>>
world  == <<server, servers, remote, systemUser>>
outside == <<queued, world, expired, crashes>>
vars   == <<rows, work, outside>>

-------------------------------------------------------------------------------
OrderStatus == {"pending", "approved", "rejected", "cancelled", "provisioning",
                "provisioning_failed", "active"}
SubStatus   == {"pending", "provisioning", "active", "suspended", "terminated",
                "cancelled"}
\* "stopped" is 'suspended' or 'terminated', which nothing tells apart.
ProvStatus   == {"pending", "provisioning", "done", "failed", "stopped"}
ServerStatus == {"none", "creating", "running", "terminated", "error"}

PCs == {"idle", "select", "start", "call", "record", "map", "complete", "completeLog",
        "count", "activate", "fail", "failLog", "failOrder", "poll", "query",
        "reset", "reopen"}

SubsOf(o) == {u \in Subs : OrderOf[u] = o}

\* createOrder leaves the order and its subscriptions 'pending'.
Init ==
    /\ order = [o \in Orders |-> "pending"]
    /\ status = [u \in Subs |-> "pending"]
    /\ prov = [u \in Subs |-> "pending"]
    /\ polls = [u \in Subs |-> 0]
    /\ until = [u \in Subs |-> Open]
    /\ recorded = [u \in Subs |-> FALSE]
    /\ mapping = Nothing
    /\ queued = [o \in Orders |-> Nothing]
    /\ pc = [w \in Workers |-> "idle"]
    /\ sub = [w \in Workers |-> Nothing]
    /\ ord = [w \in Workers |-> Nothing]
    /\ todo = [w \in Workers |-> {}]
    /\ onError = [w \in Workers |-> "stop"]
    /\ expired = {}
    /\ server = [k \in ServerIds |-> "none"]
    /\ servers = [u \in Subs |-> {}]
    /\ remote \in SUBSET Subs
    /\ systemUser \in BOOLEAN
    /\ crashes = 0

-------------------------------------------------------------------------------
\* transitionOrder: approve, reject, cancel.

\* Mutant: no row of the order is locked.
AlwaysFree(o) == TRUE
\* The uncommitted transition holds the order's row and its subscriptions'.
OrderFree(o) == queued[o] = Nothing
Free(u) == OrderFree(OrderOf[u])

\* Mutant: an order can be decided again.
AnyOrder(o) == TRUE
\* isValidTransition: every decision starts from a pending order.
Undecided(o) == order[o] = "pending"

\* kOrderTransitions: what a request can do to a pending order.  The other
\* rules are never asked for: no controller calls transitionOrder for them.
Decisions == {"approved", "rejected", "cancelled"}

\* SELECT .. FOR UPDATE, isValidTransition, the updates; the lambda returns and
\* the controller of an approval goes on to provisionOrder.
Decide(w, o, to) ==
    /\ pc[w] = "idle"
    /\ OrderFree(o)
    /\ Undecided(o)
    /\ queued' = [queued EXCEPT ![o] = to]
    /\ \/ /\ to = "approved"
          /\ pc' = [pc EXCEPT ![w] = "select"]
          /\ ord' = [ord EXCEPT ![w] = o]
          /\ UNCHANGED <<sub, todo, onError>>
       \/ /\ to # "approved"
          /\ UNCHANGED work
    /\ UNCHANGED <<rows, world, expired, crashes>>

\* The queued COMMIT of the order, and of what it does to its subscriptions.
Commit(o) ==
    LET to == queued[o]
        Becomes(u) == CASE to = "approved"  -> status[u] = "pending"
                        [] to = "cancelled" -> TRUE
                        [] OTHER            -> FALSE
        Moved == {u \in SubsOf(o) : Becomes(u)}
    IN
    /\ to # Nothing
    /\ order' = [order EXCEPT ![o] = to]
    /\ status' = [u \in Subs |-> IF u \notin Moved THEN status[u]
                                 ELSE IF to = "approved" THEN "provisioning" ELSE "cancelled"]
    /\ prov' = [u \in Subs |-> IF u \in Moved /\ to = "approved" THEN "provisioning" ELSE prov[u]]
    /\ queued' = [queued EXCEPT ![o] = Nothing]
    /\ UNCHANGED <<polls, until, recorded, mapping, work, world, expired, crashes>>

-------------------------------------------------------------------------------
\* How a worker goes on.

Goto(w, label) == pc' = [pc EXCEPT ![w] = label]
Stays(w) == UNCHANGED <<sub, ord, todo, onError>>

Stop(w) ==
    /\ Goto(w, "idle")
    /\ sub' = [sub EXCEPT ![w] = Nothing]
    /\ ord' = [ord EXCEPT ![w] = Nothing]
    /\ todo' = [todo EXCEPT ![w] = {}]
    /\ onError' = [onError EXCEPT ![w] = "stop"]

\* The loop over subscriptions: the next one, or the end of the handler.
Proceed(w, rest) ==
    \/ rest = {} /\ Stop(w)
    \/ \E u \in rest :
          /\ Goto(w, IF w = Poller THEN "poll" ELSE "start")
          /\ sub' = [sub EXCEPT ![w] = u]
          /\ ord' = [ord EXCEPT ![w] = OrderOf[u]]
          /\ todo' = [todo EXCEPT ![w] = rest \ {u}]
          /\ onError' = [onError EXCEPT ![w] = "stop"]

\* Mutant: an exception leaves the thread where it is.
ThrowForever(w) ==
    \/ onError[w] = "stop" /\ Stop(w)
    \/ onError[w] = "again" /\ Goto(w, "fail") /\ UNCHANGED <<sub, ord, todo, onError>>
    \/ onError[w] = "skip" /\ Proceed(w, todo[w])
\* An exception: doProvision catches it around the call and fails the
\* subscription once more, runPollingCheck goes on to the next one.
Throw(w) ==
    \/ onError[w] = "stop" /\ Stop(w)
    \/ /\ onError[w] = "again"
       /\ Goto(w, "fail")
       /\ onError' = [onError EXCEPT ![w] = "stop"]
       /\ UNCHANGED <<sub, ord, todo>>
    \/ onError[w] = "skip" /\ Proceed(w, todo[w])

-------------------------------------------------------------------------------
\* provisionOrder and doProvision.

\* SELECT .. WHERE provision_status = 'pending': on another connection than
\* the approval's, whose commit moves them to 'provisioning'.  It finds them
\* only while that COMMIT is still queued.
SelectPending(w) ==
    /\ pc[w] = "select"
    /\ Proceed(w, {u \in SubsOf(ord[w]) : prov[u] = "pending"})
    /\ UNCHANGED <<rows, outside>>

\* Without a remote system the subscription is done at once.
StartLocal(w) ==
    /\ pc[w] = "start" /\ sub[w] \notin remote
    /\ Goto(w, "complete") /\ Stays(w)
    /\ UNCHANGED <<rows, outside>>

\* findDownstreamConnection or getAdapter finds none.
NoConnection(w) ==
    /\ pc[w] = "start" /\ sub[w] \in remote
    /\ Goto(w, "fail") /\ Stays(w)
    /\ UNCHANGED <<rows, outside>>

\* Reads the number of polls and the window anew, then calls the adapter.
MarkProvisioning(w) ==
    LET u == sub[w] IN
    /\ pc[w] = "start" /\ u \in remote
    /\ Free(u)
    /\ prov' = [prov EXCEPT ![u] = "provisioning"]
    /\ polls' = [polls EXCEPT ![u] = 0]
    /\ until' = [until EXCEPT ![u] = MaxPolls]
    /\ Goto(w, "call")
    /\ onError' = [onError EXCEPT ![w] = "again"]
    /\ UNCHANGED <<order, status, recorded, mapping, queued, sub, ord, todo, world,
                   expired, crashes>>

\* The POST is repeated while it is not answered, and each attempt that got
\* through has made downstream create a server, under an id of its own.
Create(u, K) ==
    /\ server' = [k \in ServerIds |-> IF k \in K THEN "creating" ELSE server[k]]
    /\ servers' = [servers EXCEPT ![u] = @ \cup K]
    /\ UNCHANGED <<remote, systemUser>>

Creatable == {K \in SUBSET {k \in ServerIds : server[k] = "none"} : Cardinality(K) <= kMaxRetries}

CallSucceeds(w) ==
    /\ pc[w] = "call"
    /\ \E K \in Creatable \ {{}} : Create(sub[w], K)
    /\ \/ Goto(w, "record") /\ Stays(w)
       \/ Proceed(w, todo[w])     \* an answer without an id
    /\ UNCHANGED <<rows, queued, expired, crashes>>

\* An error answer or a timeout, which failProvisioning handles inside the
\* try, or an exception, which it handles in the catch.  Servers may be there
\* all the same when only the answers were lost.
CallFails(w) ==
    /\ pc[w] = "call"
    /\ \E K \in Creatable : Create(sub[w], K)
    /\ Goto(w, "fail")
    /\ \E caught \in BOOLEAN : onError' = [onError EXCEPT ![w] = IF caught THEN "stop" ELSE @]
    /\ UNCHANGED <<rows, sub, ord, todo, queued, expired, crashes>>

\* remote_resource_id: the adapters count the servers they created in
\* itemsCreated, one, and doProvision takes that for the id.
RecordRemoteId(w) ==
    /\ pc[w] = "record"
    /\ Free(sub[w])
    /\ recorded' = [recorded EXCEPT ![sub[w]] = TRUE]
    /\ Goto(w, "map") /\ Stays(w)
    /\ UNCHANGED <<order, status, prov, polls, until, mapping, outside>>

\* storeEntityMapping: UNIQUE (remote_system, remote_id) lets the first
\* subscription in; the error of the others is swallowed.
StoreMapping(w) ==
    /\ pc[w] = "map"
    /\ mapping' = IF mapping = Nothing THEN sub[w] ELSE mapping
    /\ Proceed(w, todo[w])
    /\ UNCHANGED <<order, status, prov, polls, until, recorded, outside>>

-------------------------------------------------------------------------------
\* completeProvisioning: four statements.

Complete(w) ==
    LET u == sub[w] IN
    /\ pc[w] = "complete"
    /\ Free(u)
    /\ \/ /\ prov[u] \in {"provisioning", "pending"}
          /\ prov' = [prov EXCEPT ![u] = "done"]
          /\ status' = [status EXCEPT ![u] = "active"]
          /\ polls' = [polls EXCEPT ![u] = 0]
          /\ until' = [until EXCEPT ![u] = Open]
       \/ /\ prov[u] \notin {"provisioning", "pending"}
          /\ UNCHANGED <<prov, status, polls, until>>
    /\ Goto(w, "completeLog") /\ Stays(w)
    /\ UNCHANGED <<order, recorded, mapping, outside>>

\* The timeline row names operator 0, which references users.
LogComplete(w) ==
    /\ pc[w] = "completeLog"
    /\ \/ systemUser /\ Goto(w, "count") /\ Stays(w)
       \/ ~systemUser /\ Throw(w)
    /\ UNCHANGED <<rows, outside>>

\* Mutant: no other subscription is counted.
CountNothing(w) ==
    /\ pc[w] = "count"
    /\ Goto(w, "activate") /\ Stays(w)
    /\ UNCHANGED <<rows, outside>>
CountRemaining(w) ==
    LET o == OrderOf[sub[w]] IN
    /\ pc[w] = "count"
    /\ \/ /\ \A u \in SubsOf(o) : prov[u] = "done"
          /\ Goto(w, "activate") /\ Stays(w)
       \/ /\ \E u \in SubsOf(o) : prov[u] # "done"
          /\ Proceed(w, todo[w])
    /\ UNCHANGED <<rows, outside>>

ActivateOrder(w) ==
    LET o == OrderOf[sub[w]] IN
    /\ pc[w] = "activate"
    /\ OrderFree(o)
    /\ order' = IF order[o] \in {"provisioning", "approved"}
                THEN [order EXCEPT ![o] = "active"] ELSE order
    /\ Proceed(w, todo[w])
    /\ UNCHANGED <<status, prov, polls, until, recorded, mapping, outside>>

-------------------------------------------------------------------------------
\* failProvisioning.

Fail(w) ==
    /\ pc[w] = "fail"
    /\ Free(sub[w])
    /\ prov' = [prov EXCEPT ![sub[w]] = "failed"]
    /\ until' = [until EXCEPT ![sub[w]] = Open]
    /\ Goto(w, "failLog") /\ Stays(w)
    /\ UNCHANGED <<order, status, polls, recorded, mapping, outside>>

LogFail(w) ==
    /\ pc[w] = "failLog"
    /\ \/ systemUser /\ ord[w] # Nothing /\ Goto(w, "failOrder") /\ Stays(w)
       \/ systemUser /\ ord[w] = Nothing /\ Proceed(w, todo[w])
       \/ ~systemUser /\ Throw(w)
    /\ UNCHANGED <<rows, outside>>

FailOrder(w) ==
    /\ pc[w] = "failOrder"
    /\ OrderFree(ord[w])
    /\ order' = IF order[ord[w]] = "provisioning"
                THEN [order EXCEPT ![ord[w]] = "provisioning_failed"] ELSE order
    /\ Proceed(w, todo[w])
    /\ UNCHANGED <<status, prov, polls, until, recorded, mapping, outside>>

-------------------------------------------------------------------------------
\* runPollingCheck, every kPollIntervalSeconds on the main event loop.

InWindow(u) == until[u] = Open \/ until[u] > 0
Polled == {u \in Subs : prov[u] = "provisioning" /\ recorded[u] /\ InWindow(u)}

\* An interval goes by, and the timer runs the loop over a snapshot of the
\* rows, poll counts included.  A loop that is still busy misses its turn.
Tick ==
    /\ \/ /\ pc[Poller] = "idle"
          /\ Proceed(Poller, Polled)
          /\ expired' = {u \in Polled : polls[u] >= MaxPolls}
       \/ /\ pc[Poller] # "idle"
          /\ UNCHANGED <<work, expired>>
    /\ until' = [u \in Subs |-> IF until[u] \in 1..MaxPolls THEN until[u] - 1 ELSE until[u]]
    /\ UNCHANGED <<order, status, prov, polls, recorded, mapping, queued, world, crashes>>

\* Too many polls; failProvisioning runs outside the try.
PollTimeout ==
    /\ pc[Poller] = "poll" /\ sub[Poller] \in expired
    /\ Goto(Poller, "fail") /\ Stays(Poller)
    /\ UNCHANGED <<rows, outside>>

PollDisconnected ==
    /\ pc[Poller] = "poll" /\ sub[Poller] \notin expired
    /\ Goto(Poller, "fail")
    /\ onError' = [onError EXCEPT ![Poller] = "skip"]
    /\ UNCHANGED <<rows, sub, ord, todo, outside>>

\* Mutant: polls are counted past their limit.
CountUnbounded ==
    LET u == sub[Poller] IN
    /\ pc[Poller] = "poll"
    /\ Free(u)
    /\ polls' = [polls EXCEPT ![u] = @ + 1]
    /\ Goto(Poller, "query")
    /\ onError' = [onError EXCEPT ![Poller] = "skip"]
    /\ UNCHANGED <<order, status, prov, until, recorded, mapping,
                   sub, ord, todo, outside>>
CountPoll ==
    LET u == sub[Poller] IN
    /\ pc[Poller] = "poll" /\ u \notin expired
    /\ Free(u)
    /\ polls' = [polls EXCEPT ![u] = @ + 1]
    /\ Goto(Poller, "query")
    /\ onError' = [onError EXCEPT ![Poller] = "skip"]
    /\ UNCHANGED <<order, status, prov, until, recorded, mapping,
                   sub, ord, todo, outside>>

\* queryServerStatus(remote_resource_id), and every recorded id is "1".  Any
\* other answer, or none, leaves the subscription for the next interval.
Query ==
    /\ pc[Poller] = "query"
    /\ \/ server[FirstId] = "running" /\ Goto(Poller, "complete") /\ Stays(Poller)
       \/ server[FirstId] \in {"terminated", "error"} /\ Goto(Poller, "fail") /\ Stays(Poller)
       \/ Proceed(Poller, todo[Poller])
    /\ UNCHANGED <<rows, outside>>

-------------------------------------------------------------------------------
\* handleWebhookCallback.  Notifications about FirstId arrive at any time,
\* any number of times, in any order.

Happened(st) ==
    \/ st = "in progress" /\ server[FirstId] # "none"
    \/ st \in {"running", "stopped"} /\ server[FirstId] \in {"running", "terminated"}
    \/ st = "error" /\ server[FirstId] = "error"

Told(w, label) ==
    /\ pc[w] = "idle" /\ mapping # Nothing
    /\ Goto(w, label)
    /\ sub' = [sub EXCEPT ![w] = mapping]
    /\ UNCHANGED <<rows, ord, todo, onError, outside>>

WebhookDone(w)   == Happened("running") /\ Told(w, "complete")
WebhookFailed(w) == Happened("error") /\ Told(w, "fail")

\* Any other status overwrites provision_status, whatever it is by now.
WebhookStatus ==
    /\ mapping # Nothing
    /\ Free(mapping)
    /\ \/ Happened("in progress") /\ prov' = [prov EXCEPT ![mapping] = "provisioning"]
       \/ Happened("stopped") /\ prov' = [prov EXCEPT ![mapping] = "stopped"]
    /\ UNCHANGED <<order, status, polls, until, recorded, mapping, work, outside>>

-------------------------------------------------------------------------------
\* retryProvisioning.

Retry(w, u) ==
    /\ pc[w] = "idle"
    /\ Free(u)
    /\ prov[u] = "failed"
    /\ Goto(w, "reset")
    /\ sub' = [sub EXCEPT ![w] = u]
    /\ ord' = [ord EXCEPT ![w] = OrderOf[u]]
    /\ UNCHANGED <<rows, todo, onError, outside>>

Reset(w) ==
    LET u == sub[w] IN
    /\ pc[w] = "reset"
    /\ Free(u)
    /\ prov' = [prov EXCEPT ![u] = "provisioning"]
    /\ polls' = [polls EXCEPT ![u] = 0]
    /\ until' = [until EXCEPT ![u] = MaxPolls]
    /\ Goto(w, "reopen") /\ Stays(w)
    /\ UNCHANGED <<order, status, recorded, mapping, outside>>

\* Mutant: a retry goes on to doProvision.
ReopenAndProvision(w) ==
    /\ pc[w] = "reopen"
    /\ OrderFree(ord[w])
    /\ order' = IF order[ord[w]] = "provisioning_failed"
                THEN [order EXCEPT ![ord[w]] = "provisioning"] ELSE order
    /\ Goto(w, "start") /\ Stays(w)
    /\ UNCHANGED <<status, prov, polls, until, recorded, mapping, outside>>
\* The timeline entry then asks the row for a column its SELECT left out,
\* which throws: doProvision is never reached.
Reopen(w) ==
    /\ pc[w] = "reopen"
    /\ OrderFree(ord[w])
    /\ order' = IF order[ord[w]] = "provisioning_failed"
                THEN [order EXCEPT ![ord[w]] = "provisioning"] ELSE order
    /\ Throw(w)
    /\ UNCHANGED <<status, prov, polls, until, recorded, mapping, outside>>

-------------------------------------------------------------------------------
\* subscription_service.cc: suspend, resume, terminate, by an administrator or
\* by the dunning cron; each locks the row and checks kSubTransitions.
Move(u, from, to) ==
    /\ Free(u)
    /\ status[u] \in from
    /\ status' = [status EXCEPT ![u] = to]
    /\ UNCHANGED <<order, prov, polls, until, recorded, mapping, queued, work, world,
                   expired, crashes>>

Suspend(u)   == Move(u, {"active"}, "suspended")
Resume(u)    == Move(u, {"suspended"}, "active")
Terminate(u) == Move(u, {"active", "suspended"}, "terminated")

-------------------------------------------------------------------------------
\* External: the servers downstream, those of other customers included.  One
\* that runs may be suspended and resumed meanwhile.

BecomesServer(k, st) ==
    /\ server' = [server EXCEPT ![k] = st]
    /\ UNCHANGED <<rows, work, servers, remote, systemUser, queued, expired, crashes>>

ForeignServer(k) == server[k] = "none" /\ BecomesServer(k, "creating")

ServerStep(k) ==
    \/ server[k] = "creating" /\ \E st \in {"running", "error"} : BecomesServer(k, st)
    \/ server[k] = "running" /\ BecomesServer(k, "terminated")

\* The process dies: nothing resumes what a worker was doing, and a COMMIT
\* that was only queued never happens.
Crash ==
    /\ crashes < MaxCrashes
    /\ crashes' = crashes + 1
    /\ queued' = [o \in Orders |-> Nothing]
    /\ pc' = [w \in Workers |-> "idle"]
    /\ sub' = [w \in Workers |-> Nothing]
    /\ ord' = [w \in Workers |-> Nothing]
    /\ todo' = [w \in Workers |-> {}]
    /\ onError' = [w \in Workers |-> "stop"]
    /\ UNCHANGED <<rows, world, expired>>

-------------------------------------------------------------------------------
Work(w) ==
    \/ SelectPending(w) \/ StartLocal(w) \/ NoConnection(w) \/ MarkProvisioning(w)
    \/ CallSucceeds(w) \/ CallFails(w) \/ RecordRemoteId(w) \/ StoreMapping(w)
    \/ Complete(w) \/ LogComplete(w) \/ CountRemaining(w) \/ ActivateOrder(w)
    \/ Fail(w) \/ LogFail(w) \/ FailOrder(w)
    \/ Reset(w) \/ Reopen(w)

Poll == PollTimeout \/ PollDisconnected \/ CountPoll \/ Query

Ask(w) ==
    \/ \E o \in Orders, to \in Decisions : Decide(w, o, to)
    \/ WebhookDone(w) \/ WebhookFailed(w)
    \/ \E u \in Subs : Retry(w, u)

Next ==
    \/ \E w \in Handlers : Ask(w) \/ Work(w)
    \/ \E o \in Orders : Commit(o)
    \/ Tick \/ Poll \/ Work(Poller)
    \/ WebhookStatus
    \/ \E u \in Subs : Suspend(u) \/ Resume(u) \/ Terminate(u)
    \/ \E k \in ServerIds : ForeignServer(k) \/ ServerStep(k)
    \/ Crash

Spec == Init /\ [][Next]_vars

\* A thread that works goes on, the connection's loop sends the COMMIT it has
\* queued, the timer fires and the servers downstream get on.
FairSpec ==
    /\ Spec
    /\ \A w \in Workers : WF_vars(Work(w))
    /\ \A o \in Orders : WF_vars(Commit(o))
    /\ WF_vars(Tick) /\ WF_vars(Poll)
    /\ \A k \in ServerIds : WF_vars(ServerStep(k))

-------------------------------------------------------------------------------
\* Properties.

\* Every column holds a value of its domain and every worker knows what its
\* next statement needs (the columns of 001_init.sql and 008_provisioning.sql).
TypeOK ==
    /\ order \in [Orders -> OrderStatus]
    /\ status \in [Subs -> SubStatus]
    /\ prov \in [Subs -> ProvStatus]
    /\ polls \in [Subs -> 0..MaxPolls]
    /\ until \in [Subs -> (0..MaxPolls) \cup {Open}]
    /\ recorded \in [Subs -> BOOLEAN]
    /\ mapping \in Subs \cup {Nothing}
    /\ queued \in [Orders -> Decisions \cup {Nothing}]
    /\ pc \in [Workers -> PCs]
    /\ sub \in [Workers -> Subs \cup {Nothing}]
    /\ ord \in [Workers -> Orders \cup {Nothing}]
    /\ todo \in [Workers -> SUBSET Subs]
    /\ onError \in [Workers -> {"stop", "again", "skip"}]
    /\ expired \subseteq Subs
    /\ server \in [ServerIds -> ServerStatus]
    /\ servers \in [Subs -> SUBSET ServerIds]
    /\ remote \subseteq Subs
    /\ systemUser \in BOOLEAN
    /\ crashes \in 0..MaxCrashes
    /\ \A w \in Workers :
          /\ pc[w] \notin {"idle", "select"} => sub[w] # Nothing
          /\ pc[w] \in {"select", "reopen", "failOrder"} => ord[w] # Nothing

\* An order is decided once: approvals, rejections and cancellations that race
\* do not overrule each other, and only an approved order moves on.
OrderDecidedOnce ==
    [][\A o \in Orders : order'[o] # order[o] =>
          <<order[o], order'[o]>> \in ({"pending"} \X Decisions) \cup {<<"approved", "active">>}]_vars

\* Nothing is delivered that is not sold: a subscription is in service, or has
\* a server downstream, only if its order was approved, though provisionOrder
\* starts before the approval is committed; a crash in between takes neither
\* the order back nor the subscription along.
Delivered(u) == status[u] \in {"active", "suspended", "terminated"} \/ servers[u] # {}
OnlyApprovedDelivered ==
    \A u \in Subs : Delivered(u) => order[OrderOf[u]] \in {"approved", "active"}

\* Whatever repeats (approvals, notifications, polls, manual retries), the
\* platform makes one createServer call per subscription: what can be left
\* downstream is what the attempts of one call created.
ServersBounded == \A u \in Subs : Cardinality(servers[u]) <= kMaxRetries

\* An order is active only when all it contains has been put into service,
\* though each of its subscriptions is completed by whichever thread hears of
\* it and a late notification may rewrite a provision_status meanwhile.
ActiveOrderDelivered ==
    \A u \in Subs : order[OrderOf[u]] = "active" =>
        status[u] \in {"active", "suspended", "terminated"}

\* A failed call that fails to be recorded is tried once more and then given
\* up: every request and every run of the polling loop ends.
HandlersEnd == \A w \in Workers : pc[w] # "idle" ~> pc[w] = "idle"

\* zjmf_provisioning_service.h:15-25: an approved order is provisioned and ends
\* active or provisioning_failed.  It does not: the approval's own commit moves
\* the subscriptions out of the status provisionOrder selects.
ApprovedSettles ==
    \A o \in Orders : order[o] = "approved" ~> order[o] # "approved"

===============================================================================
