---------------------------- MODULE LifecycleProofs ----------------------------
(***************************************************************************)
(* For any number of orders, subscriptions, threads, servers, polls and       *)
(* crashes: an order is decided once, nothing is delivered that is not sold,   *)
(* an active order is delivered in full, and one createServer call is made of  *)
(* each subscription.                                                         *)
(*                                                                          *)
(* All but the last follow from what a row may hold given the order's status   *)
(* (RowFacts) and from what a worker may rely on (WorkFacts): provisionOrder   *)
(* starts before the approval's COMMIT, so a worker only knows the order to be *)
(* approved once that is done (Promised).  One call is made because the worker *)
(* that has the subscriptions of an order before it has them alone and their   *)
(* servers are still to be created (ClaimFacts): the order was free and not    *)
(* decided when it took them, and nothing comes to a pending order's.          *)
(***************************************************************************)
EXTENDS Lifecycle, TLAPS, FiniteSetTheorems

Approved(o) == order[o] \in {"approved", "active"}
Promised(o) == Approved(o) \/ queued[o] = "approved"
Served(u) == status[u] \in {"active", "suspended", "terminated"}

\* The statuses of orders that no controller asks for are never reached, and a
\* transition is only queued for a pending order.
OrderFacts ==
    \A o \in Orders :
        /\ order[o] \in Decisions \cup {"pending", "active"}
        /\ queued[o] # Nothing => order[o] = "pending"

\* The row of a subscription, its mapping and its servers are as they were
\* created, or its order is approved.
Touched(u) == prov[u] # "pending" \/ Served(u) \/ recorded[u] \/ mapping = u \/ servers[u] # {}
RowFacts ==
    \A u \in Subs :
        /\ Touched(u) => Approved(OrderOf[u])
        /\ prov[u] = "done" => Served(u)
        /\ order[OrderOf[u]] = "active" => Served(u)

\* What a worker relies on at each statement.
WorkFact(w) ==
    /\ pc[w] = "select" => Promised(ord[w])
    /\ pc[w] \notin {"idle", "select"} => Promised(OrderOf[sub[w]])
    /\ \A u \in todo[w] : Promised(OrderOf[u])
    /\ pc[w] \in {"call", "record", "map"} => Approved(OrderOf[sub[w]])
    /\ pc[w] = "activate" => \A u \in SubsOf(OrderOf[sub[w]]) : Served(u)
    /\ pc[w] \in {"idle", "select", "reset", "reopen"} => todo[w] = {}
    /\ pc[w] \in {"start", "call", "poll"} => sub[w] \notin todo[w]
    /\ pc[w] = "reset" => ord[w] # Nothing
WorkFacts == \A w \in Workers : WorkFact(w)

\* The poller only polls, and what it has before it is below the limit unless
\* it knows better.
PollFacts ==
    /\ pc[Poller] \notin {"select", "start", "call", "reset", "reopen"}
    /\ \A u \in Subs : u \in todo[Poller] \/ (pc[Poller] = "poll" /\ u = sub[Poller]) =>
          u \in expired \/ polls[u] < MaxPolls

\* The subscriptions a handler may still call createServer for.
Claim(w) ==
    {u \in Subs : \/ u \in todo[w]
                  \/ pc[w] \in {"start", "call"} /\ u = sub[w]
                  \/ pc[w] = "select" /\ OrderOf[u] = ord[w]}
ClaimFacts ==
    /\ \A w \in Handlers : \A u \in Claim(w) : servers[u] = {}
    /\ \A w, t \in Handlers : w # t => Claim(w) \cap Claim(t) = {}

IInv == TypeOK /\ OrderFacts /\ RowFacts /\ WorkFacts /\ PollFacts /\ ClaimFacts /\ ServersBounded

USE LifecycleAssumption DEF Workers

-------------------------------------------------------------------------------
(* Type correctness. *)

\* The part of TypeOK about the workers, and the rest.
WorkType ==
    /\ pc \in [Workers -> PCs]
    /\ sub \in [Workers -> Subs \cup {Nothing}]
    /\ ord \in [Workers -> Orders \cup {Nothing}]
    /\ todo \in [Workers -> SUBSET Subs]
    /\ onError \in [Workers -> {"stop", "again", "skip"}]
    /\ \A w \in Workers :
          /\ pc[w] \notin {"idle", "select"} => sub[w] # Nothing
          /\ pc[w] \in {"select", "reopen", "failOrder"} => ord[w] # Nothing
RestType ==
    /\ order \in [Orders -> OrderStatus]
    /\ status \in [Subs -> SubStatus]
    /\ prov \in [Subs -> ProvStatus]
    /\ polls \in [Subs -> 0..MaxPolls]
    /\ until \in [Subs -> (0..MaxPolls) \cup {Open}]
    /\ recorded \in [Subs -> BOOLEAN]
    /\ mapping \in Subs \cup {Nothing}
    /\ queued \in [Orders -> Decisions \cup {Nothing}]
    /\ expired \subseteq Subs
    /\ server \in [ServerIds -> ServerStatus]
    /\ servers \in [Subs -> SUBSET ServerIds]
    /\ remote \subseteq Subs
    /\ systemUser \in BOOLEAN
    /\ crashes \in 0..MaxCrashes

LEMMA TypeParts == TypeOK <=> WorkType /\ RestType
BY DEF TypeOK, WorkType, RestType

LEMMA ProceedType ==
  ASSUME WorkType, NEW w \in Workers, NEW rest \in SUBSET Subs, Proceed(w, rest)
  PROVE  WorkType'
BY DEF WorkType, Proceed, Stop, Goto, PCs

LEMMA ThrowType ==
  ASSUME WorkType, NEW w \in Workers, pc[w] \notin {"idle", "select"}, Throw(w)
  PROVE  WorkType'
<1>1. CASE Stop(w)
  BY <1>1 DEF WorkType, Stop, Goto, PCs
<1>2. CASE Goto(w, "fail") /\ onError' = [onError EXCEPT ![w] = "stop"] /\ UNCHANGED <<sub, ord, todo>>
  BY <1>2 DEF WorkType, Goto, PCs
<1>3. CASE Proceed(w, todo[w])
  BY <1>3, ProceedType DEF WorkType
<1> QED BY <1>1, <1>2, <1>3 DEF Throw

LEMMA NextWorkType == TypeOK /\ WorkFacts /\ [Next]_vars => WorkType'
<1> SUFFICES ASSUME TypeOK, WorkFacts, [Next]_vars PROVE WorkType'
  OBVIOUS
<1>t. WorkType /\ RestType
  BY TypeParts
<1>1. ASSUME NEW w \in Workers, NEW o \in Orders, NEW to \in Decisions, Decide(w, o, to) PROVE WorkType'
  BY <1>t, <1>1 DEF Decide, WorkType, PCs, work
<1>2. ASSUME NEW w \in Workers, SelectPending(w) PROVE WorkType'
  BY <1>t, <1>2, ProceedType DEF SelectPending, SubsOf, WorkType, PCs
<1>3. ASSUME NEW w \in Workers, StartLocal(w) \/ NoConnection(w) PROVE WorkType'
  BY <1>t, <1>3 DEF StartLocal, NoConnection, Goto, Stays, WorkType, PCs
<1>4. ASSUME NEW w \in Workers, MarkProvisioning(w) PROVE WorkType'
  BY <1>t, <1>4 DEF MarkProvisioning, Goto, WorkType, PCs
<1>5. ASSUME NEW w \in Workers, CallSucceeds(w) PROVE WorkType'
  BY <1>t, <1>5, ProceedType DEF CallSucceeds, Goto, Stays, WorkType, PCs
<1>6. ASSUME NEW w \in Workers, CallFails(w) PROVE WorkType'
  BY <1>t, <1>6 DEF CallFails, Goto, WorkType, PCs
<1>7. ASSUME NEW w \in Workers, RecordRemoteId(w) PROVE WorkType'
  BY <1>t, <1>7 DEF RecordRemoteId, Goto, Stays, WorkType, PCs
<1>8. ASSUME NEW w \in Workers, StoreMapping(w) PROVE WorkType'
  BY <1>t, <1>8, ProceedType DEF StoreMapping, WorkType, PCs
<1>9. ASSUME NEW w \in Workers, Complete(w) PROVE WorkType'
  BY <1>t, <1>9 DEF Complete, Goto, Stays, WorkType, PCs
<1>10. ASSUME NEW w \in Workers, LogComplete(w) PROVE WorkType'
  BY <1>t, <1>10, ThrowType DEF LogComplete, Goto, Stays, WorkType, PCs
<1>11. ASSUME NEW w \in Workers, CountRemaining(w) PROVE WorkType'
  BY <1>t, <1>11, ProceedType DEF CountRemaining, Goto, Stays, WorkType, PCs
<1>12. ASSUME NEW w \in Workers, ActivateOrder(w) PROVE WorkType'
  BY <1>t, <1>12, ProceedType DEF ActivateOrder, WorkType, PCs
<1>13. ASSUME NEW w \in Workers, Fail(w) PROVE WorkType'
  BY <1>t, <1>13 DEF Fail, Goto, Stays, WorkType, PCs
<1>14. ASSUME NEW w \in Workers, LogFail(w) PROVE WorkType'
  BY <1>t, <1>14, ProceedType, ThrowType DEF LogFail, Goto, Stays, WorkType, PCs
<1>15. ASSUME NEW w \in Workers, FailOrder(w) PROVE WorkType'
  BY <1>t, <1>15, ProceedType DEF FailOrder, WorkType, PCs
<1>16. ASSUME Tick PROVE WorkType'
  BY <1>t, <1>16, ProceedType DEF Tick, Polled, InWindow, WorkType, PCs, work
<1>17. ASSUME PollTimeout \/ PollDisconnected PROVE WorkType'
  BY <1>t, <1>17 DEF PollTimeout, PollDisconnected, Goto, Stays, WorkType, PCs
<1>18. ASSUME CountPoll PROVE WorkType'
  BY <1>t, <1>18 DEF CountPoll, Goto, WorkType, PCs
<1>19. ASSUME Query PROVE WorkType'
  BY <1>t, <1>19, ProceedType DEF Query, Goto, Stays, WorkType, PCs
<1>20. ASSUME NEW w \in Workers, WebhookDone(w) \/ WebhookFailed(w) PROVE WorkType'
  BY <1>t, <1>20 DEF WebhookDone, WebhookFailed, Told, Goto, WorkType, RestType, PCs
<1>21. ASSUME NEW w \in Workers, NEW u \in Subs, Retry(w, u) PROVE WorkType'
  BY <1>t, <1>21 DEF Retry, Goto, WorkType, PCs
<1>22. ASSUME NEW w \in Workers, Reset(w) PROVE WorkType'
  BY <1>t, <1>22 DEF Reset, Goto, Stays, WorkType, WorkFacts, WorkFact, PCs
<1>23. ASSUME NEW w \in Workers, Reopen(w) PROVE WorkType'
  BY <1>t, <1>23, ThrowType DEF Reopen, WorkType, PCs
<1>24. ASSUME Crash PROVE WorkType'
  BY <1>t, <1>24 DEF Crash, WorkType, PCs
<1> QED
  BY <1>t, <1>1, <1>2, <1>3, <1>4, <1>5, <1>6, <1>7, <1>8, <1>9, <1>10, <1>11, <1>12, <1>13, <1>14,
     <1>15, <1>16, <1>17, <1>18, <1>19, <1>20, <1>21, <1>22, <1>23, <1>24
     DEF Next, Ask, Work, Poll, Commit, WebhookStatus, Suspend, Resume, Terminate, Move, ForeignServer,
         ServerStep, BecomesServer, WorkType, vars, work

LEMMA NextRestType == TypeOK /\ PollFacts /\ [Next]_vars => RestType'
<1> SUFFICES ASSUME TypeOK, PollFacts, [Next]_vars PROVE RestType'
  OBVIOUS
<1>t. WorkType /\ RestType
  BY TypeParts
<1>1. ASSUME NEW w \in Workers, NEW o \in Orders, NEW to \in Decisions, Decide(w, o, to) PROVE RestType'
  BY <1>t, <1>1 DEF Decide, OrderFree, Undecided, RestType, rows, world
<1>2. ASSUME NEW o \in Orders, Commit(o) PROVE RestType'
  BY <1>t, <1>2 DEF Commit, RestType, OrderStatus, SubStatus, ProvStatus, Decisions, world
<1>3. ASSUME NEW w \in Workers, MarkProvisioning(w) PROVE RestType'
  BY <1>t, <1>3 DEF MarkProvisioning, Free, OrderFree, WorkType, RestType, ProvStatus, Open, world
<1>4. ASSUME NEW w \in Workers, CallSucceeds(w) PROVE RestType'
  BY <1>t, <1>4 DEF CallSucceeds, Creatable, Create, WorkType, RestType, ServerStatus, rows
<1>5. ASSUME NEW w \in Workers, CallFails(w) PROVE RestType'
  BY <1>t, <1>5 DEF CallFails, Creatable, Create, WorkType, RestType, ServerStatus, rows
<1>6. ASSUME NEW w \in Workers, RecordRemoteId(w) PROVE RestType'
  BY <1>t, <1>6 DEF RecordRemoteId, Free, OrderFree, WorkType, RestType, world, outside
<1>7. ASSUME NEW w \in Workers, StoreMapping(w) PROVE RestType'
  BY <1>t, <1>7 DEF StoreMapping, WorkType, RestType, world, outside
<1>8. ASSUME NEW w \in Workers, Complete(w) PROVE RestType'
  BY <1>t, <1>8 DEF Complete, Free, OrderFree, WorkType, RestType, SubStatus, ProvStatus, Open, world, outside
<1>9. ASSUME NEW w \in Workers, ActivateOrder(w) PROVE RestType'
  BY <1>t, <1>9 DEF ActivateOrder, OrderFree, WorkType, RestType, OrderStatus, Decisions, world, outside
<1>10. ASSUME NEW w \in Workers, Fail(w) PROVE RestType'
  BY <1>t, <1>10 DEF Fail, Free, OrderFree, WorkType, RestType, ProvStatus, Open, world, outside
<1>11. ASSUME NEW w \in Workers, FailOrder(w) PROVE RestType'
  BY <1>t, <1>11 DEF FailOrder, OrderFree, RestType, OrderStatus, Decisions, world, outside
<1>12. ASSUME Tick PROVE RestType'
  BY <1>t, <1>12 DEF Tick, Polled, InWindow, RestType, Open, world
<1>13. ASSUME CountPoll PROVE RestType'
  BY <1>t, <1>13 DEF CountPoll, WorkType, RestType, PollFacts, world, outside
<1>14. ASSUME WebhookStatus PROVE RestType'
  BY <1>t, <1>14 DEF WebhookStatus, Free, OrderFree, RestType, ProvStatus, world, outside
<1>15. ASSUME NEW w \in Workers, Reset(w) PROVE RestType'
  BY <1>t, <1>15 DEF Reset, Free, OrderFree, WorkType, RestType, ProvStatus, Open, world, outside
<1>16. ASSUME NEW w \in Workers, Reopen(w) PROVE RestType'
  BY <1>t, <1>16 DEF Reopen, RestType, OrderStatus, Decisions, world, outside
<1>17. ASSUME NEW u \in Subs, Suspend(u) \/ Resume(u) \/ Terminate(u) PROVE RestType'
  BY <1>t, <1>17 DEF Suspend, Resume, Terminate, Move, Free, OrderFree, RestType, SubStatus, world
<1>18. ASSUME NEW k \in ServerIds, ForeignServer(k) \/ ServerStep(k) PROVE RestType'
  BY <1>t, <1>18 DEF ForeignServer, ServerStep, BecomesServer, RestType, ServerStatus, rows
<1>19. ASSUME Crash PROVE RestType'
  BY <1>t, <1>19 DEF Crash, RestType, rows, world
<1> QED
  BY <1>t, <1>1, <1>2, <1>3, <1>4, <1>5, <1>6, <1>7, <1>8, <1>9, <1>10, <1>11, <1>12, <1>13, <1>14,
     <1>15, <1>16, <1>17, <1>18, <1>19
     DEF Next, Ask, Work, Poll, SelectPending, StartLocal, NoConnection, LogComplete, CountRemaining,
         LogFail, PollTimeout, PollDisconnected, Query, WebhookDone, WebhookFailed, Told, Retry, RestType,
         vars, rows, outside, world

LEMMA NextType == TypeOK /\ WorkFacts /\ PollFacts /\ [Next]_vars => TypeOK'
<1>1. WorkType' /\ RestType' => TypeOK'
  BY DEF TypeOK, WorkType, RestType
<1> QED BY <1>1, NextWorkType, NextRestType

-------------------------------------------------------------------------------
(* What a step never takes back. *)

\* The only ways the status of an order changes.
LEMMA OrderSteps ==
  ASSUME TypeOK, OrderFacts, [Next]_vars, NEW o \in Orders, order'[o] # order[o]
  PROVE  \/ /\ order[o] = "pending" /\ queued[o] \in Decisions
            /\ order'[o] = queued[o] /\ queued'[o] = Nothing
         \/ order[o] = "approved" /\ order'[o] = "active" /\ queued[o] = Nothing
<1>1. ASSUME NEW p \in Orders, Commit(p)
      PROVE  /\ order[o] = "pending" /\ queued[o] \in Decisions
             /\ order'[o] = queued[o] /\ queued'[o] = Nothing
  <2>1. p = o
    BY <1>1 DEF Commit, TypeOK
  <2> QED BY <1>1, <2>1 DEF Commit, TypeOK, OrderFacts
<1>2. ASSUME NEW w \in Workers, ActivateOrder(w)
      PROVE  order[o] = "approved" /\ order'[o] = "active" /\ queued[o] = Nothing
  BY <1>2 DEF ActivateOrder, OrderFree, TypeOK, OrderFacts, Decisions
<1>3. ASSUME NEW w \in Workers, FailOrder(w) \/ Reopen(w) PROVE order'[o] = order[o]
  <2>1. order[o] \notin {"provisioning", "provisioning_failed"}
    BY DEF OrderFacts, Decisions
  <2> QED BY <1>3, <2>1 DEF FailOrder, Reopen, TypeOK
<1> QED
  BY <1>1, <1>2, <1>3
     DEF Next, Ask, Work, Poll, Decide, SelectPending, StartLocal, NoConnection, MarkProvisioning,
         CallSucceeds, CallFails, RecordRemoteId, StoreMapping, Complete, LogComplete, CountRemaining,
         Fail, LogFail, Tick, PollTimeout, PollDisconnected, CountPoll, Query, WebhookDone, WebhookFailed,
         Told, WebhookStatus, Retry, Reset, Suspend, Resume, Terminate, Move, ForeignServer, ServerStep,
         BecomesServer, Crash, vars, rows

\* An approval is not taken back.
LEMMA ApprovedStays ==
  ASSUME TypeOK, OrderFacts, [Next]_vars, NEW o \in Orders, Approved(o)
  PROVE  Approved(o)'
BY OrderSteps DEF Approved

\* One that is queued is committed, unless the process dies.
LEMMA PromisedStays ==
  ASSUME TypeOK, OrderFacts, [Next]_vars, ~Crash, NEW o \in Orders, Promised(o)
  PROVE  Promised(o)'
<1>1. CASE Approved(o)
  BY <1>1, ApprovedStays DEF Promised
<1>2. CASE queued[o] = "approved"
  <2>1. ASSUME NEW p \in Orders, Commit(p) PROVE Promised(o)'
    BY <1>2, <2>1 DEF Commit, TypeOK, Promised, Approved
  <2>2. ASSUME NEW w \in Workers, NEW p \in Orders, NEW to \in Decisions, Decide(w, p, to)
        PROVE  queued'[o] = queued[o]
    BY <1>2, <2>2 DEF Decide, OrderFree, Nothing, TypeOK
  <2>3. \/ \E p \in Orders : Commit(p)
        \/ \E w \in Workers, p \in Orders, to \in Decisions : Decide(w, p, to)
        \/ queued' = queued
    BY DEF Next, Ask, Work, Poll, SelectPending, StartLocal, NoConnection, MarkProvisioning,
           CallSucceeds, CallFails, RecordRemoteId, StoreMapping, Complete, LogComplete, CountRemaining,
           ActivateOrder, Fail, LogFail, FailOrder, Tick, PollTimeout, PollDisconnected, CountPoll, Query,
           WebhookDone, WebhookFailed, Told, WebhookStatus, Retry, Reset, Reopen, Suspend, Resume,
           Terminate, Move, ForeignServer, ServerStep, BecomesServer, vars, outside
  <2> QED BY <1>2, <2>1, <2>2, <2>3 DEF Promised
<1> QED BY <1>1, <1>2 DEF Promised

\* A subscription in service is not put back.
LEMMA ServedStays ==
  ASSUME TypeOK, OrderFacts, RowFacts, [Next]_vars, NEW u \in Subs, Served(u)
  PROVE  Served(u)'
<1>1. ASSUME NEW o \in Orders, Commit(o) PROVE Served(u)'
  <2>1. OrderOf[u] # o
    BY <1>1 DEF Commit, OrderFacts, RowFacts, Touched, Approved
  <2> QED BY <1>1, <2>1 DEF Commit, SubsOf, Served
<1>2. ASSUME NEW w \in Workers, Complete(w) PROVE Served(u)'
  BY <1>2 DEF Complete, Served, TypeOK
<1>3. ASSUME NEW v \in Subs, Suspend(v) \/ Resume(v) \/ Terminate(v) PROVE Served(u)'
  BY <1>3 DEF Suspend, Resume, Terminate, Move, Served, TypeOK
<1>4. \/ \E o \in Orders : Commit(o)
      \/ \E w \in Workers : Complete(w)
      \/ \E v \in Subs : Suspend(v) \/ Resume(v) \/ Terminate(v)
      \/ UNCHANGED status
  BY DEF Next, Ask, Work, Poll, Decide, SelectPending, StartLocal, NoConnection, MarkProvisioning,
         CallSucceeds, CallFails, RecordRemoteId, StoreMapping, LogComplete, CountRemaining,
         ActivateOrder, Fail, LogFail, FailOrder, Tick, PollTimeout, PollDisconnected, CountPoll, Query,
         WebhookDone, WebhookFailed, Told, WebhookStatus, Retry, Reset, Reopen, ForeignServer, ServerStep,
         BecomesServer, Crash, vars, rows
<1> QED BY <1>1, <1>2, <1>3, <1>4 DEF Served

-------------------------------------------------------------------------------
(* Orders. *)

LEMMA NextOrderFacts == TypeOK /\ OrderFacts /\ [Next]_vars => OrderFacts'
<1> SUFFICES ASSUME TypeOK, OrderFacts, [Next]_vars, NEW o \in Orders
             PROVE  /\ order'[o] \in Decisions \cup {"pending", "active"}
                    /\ queued'[o] # Nothing => order'[o] = "pending"
  BY DEF OrderFacts
<1>1. order'[o] \in Decisions \cup {"pending", "active"}
  BY OrderSteps DEF OrderFacts
<1>2. ASSUME NEW w \in Workers, NEW p \in Orders, NEW to \in Decisions, Decide(w, p, to), queued'[o] # Nothing
      PROVE  order'[o] = "pending"
  BY <1>2 DEF Decide, Undecided, OrderFacts, TypeOK, rows
<1>3. \/ \E w \in Workers, p \in Orders, to \in Decisions : Decide(w, p, to)
      \/ \E p \in Orders : Commit(p)
      \/ Crash
      \/ queued' = queued
  BY DEF Next, Ask, Work, Poll, SelectPending, StartLocal, NoConnection, MarkProvisioning,
         CallSucceeds, CallFails, RecordRemoteId, StoreMapping, Complete, LogComplete, CountRemaining,
         ActivateOrder, Fail, LogFail, FailOrder, Tick, PollTimeout, PollDisconnected, CountPoll, Query,
         WebhookDone, WebhookFailed, Told, WebhookStatus, Retry, Reset, Reopen, Suspend, Resume,
         Terminate, Move, ForeignServer, ServerStep, BecomesServer, vars, outside
<1>4. Crash \/ (\E p \in Orders : Commit(p)) => queued'[o] \in {queued[o], Nothing}
  BY DEF Crash, Commit, TypeOK
<1>5. queued[o] # Nothing => order[o] = "pending"
  BY DEF OrderFacts
<1> QED BY <1>1, <1>2, <1>3, <1>4, <1>5, OrderSteps

-------------------------------------------------------------------------------
(* The rows of the subscriptions. *)

\* What is done to a subscription is done to one whose order is approved.
LEMMA TouchedApproved ==
  ASSUME TypeOK, OrderFacts, RowFacts, WorkFacts, [Next]_vars, NEW u \in Subs, Touched(u)'
  PROVE  Approved(OrderOf[u])'
<1>o. OrderOf[u] \in Orders
  OBVIOUS
<1>a. Approved(OrderOf[u]) => Approved(OrderOf[u])'
  BY <1>o, ApprovedStays
<1>u. Touched(u) => Approved(OrderOf[u])
  BY DEF RowFacts
<1>f. ASSUME NEW w \in Workers, sub[w] = u, pc[w] \notin {"idle", "select"}, Free(u)
      PROVE  Approved(OrderOf[u])
  BY <1>f DEF WorkFacts, WorkFact, Promised, Free, OrderFree, Nothing
<1>1. ASSUME NEW o \in Orders, Commit(o) PROVE Touched(u) \/ Approved(OrderOf[u])'
  <2>1. CASE o = OrderOf[u] /\ queued[o] = "approved"
    BY <1>1, <2>1 DEF Commit, Approved, TypeOK
  <2>2. CASE ~(o = OrderOf[u] /\ queued[o] = "approved")
    BY <1>1, <2>2 DEF Commit, Touched, Served, SubsOf, world
  <2> QED BY <2>1, <2>2
<1>2. ASSUME NEW w \in Workers, MarkProvisioning(w) PROVE Touched(u) \/ Approved(OrderOf[u])
  BY <1>2, <1>f DEF MarkProvisioning, Touched, Served, TypeOK, world
<1>3. ASSUME NEW w \in Workers, CallSucceeds(w) \/ CallFails(w) PROVE Touched(u) \/ Approved(OrderOf[u])
  BY <1>3 DEF CallSucceeds, CallFails, Create, WorkFacts, WorkFact, Touched, Served, TypeOK, rows
<1>4. ASSUME NEW w \in Workers, RecordRemoteId(w) \/ StoreMapping(w) PROVE Touched(u) \/ Approved(OrderOf[u])
  BY <1>4 DEF RecordRemoteId, StoreMapping, WorkFacts, WorkFact, Touched, Served, TypeOK, world, outside
<1>5. ASSUME NEW w \in Workers, Complete(w) \/ Fail(w) PROVE Touched(u) \/ Approved(OrderOf[u])
  BY <1>5, <1>f DEF Complete, Fail, Touched, Served, TypeOK, world, outside
<1>6. ASSUME NEW w \in Workers, Reset(w) PROVE Touched(u) \/ Approved(OrderOf[u])
  BY <1>6, <1>f DEF Reset, Touched, Served, TypeOK, world, outside
<1>7. ASSUME WebhookStatus PROVE Touched(u)
  BY <1>7 DEF WebhookStatus, Touched, Served, TypeOK, world, outside
<1>8. ASSUME NEW v \in Subs, Suspend(v) \/ Resume(v) \/ Terminate(v) PROVE Touched(u)
  BY <1>8 DEF Suspend, Resume, Terminate, Move, Touched, Served, TypeOK, world
<1>9. ASSUME UNCHANGED <<prov, status, recorded, mapping, servers>> PROVE Touched(u)
  BY <1>9 DEF Touched, Served
<1> QED
  BY <1>a, <1>u, <1>1, <1>2, <1>3, <1>4, <1>5, <1>6, <1>7, <1>8, <1>9
     DEF Next, Ask, Work, Poll, Decide, SelectPending, StartLocal, NoConnection, LogComplete, CountRemaining,
         ActivateOrder, LogFail, FailOrder, Tick, PollTimeout, PollDisconnected, CountPoll, Query,
         WebhookDone, WebhookFailed, Told, Retry, Reopen, ForeignServer, ServerStep, BecomesServer,
         Crash, vars, rows, outside, world

\* provision_status is 'done' only of a subscription in service.
LEMMA DoneServed ==
  ASSUME TypeOK, OrderFacts, RowFacts, [Next]_vars, NEW u \in Subs, prov'[u] = "done"
  PROVE  Served(u)'
<1>1. ASSUME NEW w \in Workers, Complete(w) PROVE prov[u] = "done" \/ Served(u)'
  BY <1>1 DEF Complete, Served, TypeOK
<1>2. ASSUME NEW o \in Orders, Commit(o) PROVE prov[u] = "done"
  BY <1>2 DEF Commit
<1>3. (\E w \in Workers : MarkProvisioning(w) \/ Fail(w) \/ Reset(w)) \/ WebhookStatus => prov[u] = "done"
  BY DEF MarkProvisioning, Fail, Reset, WebhookStatus, TypeOK
<1>4. \/ \E w \in Workers : Complete(w) \/ MarkProvisioning(w) \/ Fail(w) \/ Reset(w)
      \/ \E o \in Orders : Commit(o)
      \/ WebhookStatus
      \/ prov' = prov
  BY DEF Next, Ask, Work, Poll, Decide, SelectPending, StartLocal, NoConnection, CallSucceeds, CallFails,
         RecordRemoteId, StoreMapping, LogComplete, CountRemaining, ActivateOrder, LogFail, FailOrder, Tick,
         PollTimeout, PollDisconnected, CountPoll, Query, WebhookDone, WebhookFailed, Told, Retry, Reopen,
         Suspend, Resume, Terminate, Move, ForeignServer, ServerStep, BecomesServer, Crash, vars, rows
<1>5. prov[u] = "done" => Served(u)'
  BY ServedStays DEF RowFacts
<1> QED BY <1>1, <1>2, <1>3, <1>4, <1>5

\* An order becomes active once all its subscriptions are in service.
LEMMA ActiveServed ==
  ASSUME TypeOK, OrderFacts, RowFacts, WorkFacts, [Next]_vars, NEW u \in Subs, order'[OrderOf[u]] = "active"
  PROVE  Served(u)'
<1>1. CASE order[OrderOf[u]] = "active"
  BY <1>1, ServedStays DEF RowFacts
<1>2. CASE order[OrderOf[u]] # "active"
  <2>1. \E w \in Workers : ActivateOrder(w) /\ OrderOf[sub[w]] = OrderOf[u]
    <3>1. ASSUME NEW w \in Workers, ActivateOrder(w) PROVE OrderOf[sub[w]] = OrderOf[u]
      BY <1>2, <3>1 DEF ActivateOrder, TypeOK
    <3>2. ASSUME NEW o \in Orders, Commit(o) PROVE FALSE
      BY <1>2, <3>2 DEF Commit, TypeOK, Decisions
    <3>3. ASSUME NEW w \in Workers, FailOrder(w) \/ Reopen(w) PROVE FALSE
      BY <1>2, <3>3 DEF FailOrder, Reopen, TypeOK
    <3> QED
      BY <1>2, <3>1, <3>2, <3>3
         DEF Next, Ask, Work, Poll, Decide, SelectPending, StartLocal, NoConnection, MarkProvisioning,
             CallSucceeds, CallFails, RecordRemoteId, StoreMapping, Complete, LogComplete, CountRemaining,
             Fail, LogFail, Tick, PollTimeout, PollDisconnected, CountPoll, Query, WebhookDone, WebhookFailed,
             Told, WebhookStatus, Retry, Reset, Suspend, Resume, Terminate, Move, ForeignServer, ServerStep,
             BecomesServer, Crash, vars, rows
  <2>2. Served(u)
    BY <2>1 DEF ActivateOrder, WorkFacts, WorkFact, SubsOf
  <2> QED BY <2>2, ServedStays
<1> QED BY <1>1, <1>2

LEMMA NextRowFacts == TypeOK /\ OrderFacts /\ RowFacts /\ WorkFacts /\ [Next]_vars => RowFacts'
BY TouchedApproved, DoneServed, ActiveServed DEF RowFacts

-------------------------------------------------------------------------------
(* The workers. *)

\* A worker that does not move can rely on what it relied on.
LEMMA WorkFactStays ==
  ASSUME TypeOK, OrderFacts, RowFacts, WorkFacts, [Next]_vars, ~Crash, NEW t \in Workers,
         pc'[t] = pc[t], sub'[t] = sub[t], ord'[t] = ord[t], todo'[t] = todo[t]
  PROVE  WorkFact(t)'
<1>1. \A o \in Orders : (Approved(o) => Approved(o)') /\ (Promised(o) => Promised(o)')
  BY ApprovedStays, PromisedStays
<1>2. \A u \in Subs : Served(u) => Served(u)'
  BY ServedStays
<1>3. /\ pc[t] = "select" => ord[t] \in Orders
      /\ pc[t] \notin {"idle", "select"} => sub[t] \in Subs
      /\ todo[t] \subseteq Subs
      /\ \A u \in Subs : OrderOf[u] \in Orders
  BY DEF TypeOK
<1> QED BY <1>1, <1>2, <1>3 DEF WorkFacts, WorkFact, SubsOf

\* The loop goes on with a subscription of those it had.
LEMMA ProceedFact ==
  ASSUME TypeOK, NEW w \in Workers, NEW rest \in SUBSET Subs, \A u \in rest : Promised(OrderOf[u])',
         Proceed(w, rest)
  PROVE  /\ WorkFact(w)'
         /\ \A t \in Workers \ {w} : pc'[t] = pc[t] /\ sub'[t] = sub[t] /\ ord'[t] = ord[t] /\ todo'[t] = todo[t]
<1>1. CASE Stop(w)
  BY <1>1 DEF Stop, Goto, WorkFact, TypeOK
<1>2. ASSUME NEW u \in rest,
             pc' = [pc EXCEPT ![w] = IF w = Poller THEN "poll" ELSE "start"],
             sub' = [sub EXCEPT ![w] = u],
             ord' = [ord EXCEPT ![w] = OrderOf[u]],
             todo' = [todo EXCEPT ![w] = rest \ {u}]
      PROVE  /\ WorkFact(w)'
             /\ \A t \in Workers \ {w} :
                   pc'[t] = pc[t] /\ sub'[t] = sub[t] /\ ord'[t] = ord[t] /\ todo'[t] = todo[t]
  BY <1>2 DEF WorkFact, TypeOK
<1> QED BY <1>1, <1>2 DEF Proceed, Goto

\* So does one whose statement has thrown.
LEMMA ThrowFact ==
  ASSUME TypeOK, NEW w \in Workers, \A u \in todo[w] : Promised(OrderOf[u])',
         sub[w] \in Subs, \A o \in Orders : o = OrderOf[sub[w]] => Promised(o)',
         Throw(w)
  PROVE  /\ WorkFact(w)'
         /\ \A t \in Workers \ {w} : pc'[t] = pc[t] /\ sub'[t] = sub[t] /\ ord'[t] = ord[t] /\ todo'[t] = todo[t]
<1>1. CASE Stop(w)
  BY <1>1 DEF Stop, Goto, WorkFact, TypeOK
<1>2. CASE Goto(w, "fail") /\ UNCHANGED <<sub, ord, todo>>
  BY <1>2 DEF Goto, WorkFact, TypeOK
<1>3. CASE Proceed(w, todo[w])
  BY <1>3, ProceedFact DEF TypeOK
<1> QED BY <1>1, <1>2, <1>3 DEF Throw

LEMMA NextWorkFacts == TypeOK /\ OrderFacts /\ RowFacts /\ WorkFacts /\ PollFacts /\ [Next]_vars => WorkFacts'
<1> SUFFICES ASSUME TypeOK, OrderFacts, RowFacts, WorkFacts, PollFacts, [Next]_vars PROVE WorkFacts'
  OBVIOUS
<1>c. CASE Crash
  BY <1>c DEF Crash, WorkFacts, WorkFact
<1>n. CASE ~Crash
  <2> DEFINE Kept(t) == pc'[t] = pc[t] /\ sub'[t] = sub[t] /\ ord'[t] = ord[t] /\ todo'[t] = todo[t]
  <2>a. \A o \in Orders : (Approved(o) => Approved(o)') /\ (Promised(o) => Promised(o)')
    BY <1>n, ApprovedStays, PromisedStays
  <2>b. \A w \in Workers : WorkFact(w) /\ todo[w] \in SUBSET Subs
    BY DEF WorkFacts, TypeOK
  <2>c. \A w \in Workers : \A u \in todo[w] : Promised(OrderOf[u])'
    BY <2>a, <2>b DEF WorkFact
  <2>d. \A w \in Workers : pc[w] \notin {"idle", "select"} =>
            sub[w] \in Subs /\ \A o \in Orders : o = OrderOf[sub[w]] => Promised(o)'
    <3> SUFFICES ASSUME NEW w \in Workers, pc[w] \notin {"idle", "select"}
                 PROVE  sub[w] \in Subs /\ \A o \in Orders : o = OrderOf[sub[w]] => Promised(o)'
      OBVIOUS
    <3>1. sub[w] \in Subs
      BY DEF TypeOK
    <3>2. Promised(OrderOf[sub[w]]) /\ OrderOf[sub[w]] \in Orders
      BY <2>b, <3>1 DEF WorkFact
    <3> QED BY <2>a, <3>1, <3>2
  <2>e. \A u \in Subs : Approved(OrderOf[u]) => Promised(OrderOf[u])'
    BY <2>a DEF Promised
  <2>g. ASSUME NEW w \in Workers, WorkFact(w)', \A t \in Workers \ {w} : Kept(t) PROVE WorkFacts'
    <3>1. ASSUME NEW t \in Workers \ {w} PROVE WorkFact(t)'
      BY <1>n, <2>g, <3>1, WorkFactStays
    <3> QED BY <2>g, <3>1 DEF WorkFacts
  <2>p. ASSUME NEW w \in Workers, NEW rest \in SUBSET Subs, \A u \in rest : Promised(OrderOf[u])', Proceed(w, rest)
        PROVE  WorkFacts'
    BY <2>g, <2>p, ProceedFact
  <2>q. ASSUME NEW w \in Workers, pc[w] \notin {"idle", "select"}, Throw(w) PROVE WorkFacts'
    BY <2>c, <2>d, <2>g, <2>q, ThrowFact
  <2>u. ASSUME UNCHANGED work PROVE WorkFacts'
    <3>1. \A t \in Workers : WorkFact(t)'
      BY <1>n, <2>u, WorkFactStays DEF work
    <3> QED BY <3>1 DEF WorkFacts
  <2> HIDE DEF Kept
  <2>1. ASSUME NEW w \in Workers, NEW o \in Orders, NEW to \in Decisions, Decide(w, o, to) PROVE WorkFacts'
    <3>1. CASE to # "approved"
      BY <2>1, <2>u, <3>1 DEF Decide
    <3>2. CASE to = "approved"
      <4>1. WorkFact(w)' /\ \A t \in Workers \ {w} : Kept(t)
        BY <2>1, <2>b, <3>2 DEF Decide, WorkFact, Promised, TypeOK, Kept
      <4> QED BY <2>g, <4>1
    <3> QED BY <3>1, <3>2
  <2>2. ASSUME NEW w \in Workers, SelectPending(w) PROVE WorkFacts'
    <3> DEFINE rest == {u \in SubsOf(ord[w]) : prov[u] = "pending"}
    <3>1. \A o \in Orders : o = ord[w] => Promised(o)'
      <4>1. pc[w] = "select"
        BY <2>2 DEF SelectPending
      <4>2. Promised(ord[w])
        BY <2>b, <4>1 DEF WorkFact
      <4> QED BY <2>a, <4>2
    <3>2. rest \in SUBSET Subs /\ \A u \in rest : OrderOf[u] \in Orders /\ OrderOf[u] = ord[w]
      BY DEF SubsOf
    <3>3. \A u \in rest : Promised(OrderOf[u])'
      BY <3>1, <3>2
    <3> HIDE DEF rest
    <3>4. Proceed(w, rest)
      BY <2>2 DEF SelectPending, rest
    <3> QED BY <2>p, <3>2, <3>3, <3>4
  <2>3. ASSUME NEW w \in Workers, StartLocal(w) \/ NoConnection(w) PROVE WorkFacts'
    <3>1. WorkFact(w)' /\ \A t \in Workers \ {w} : Kept(t)
      BY <2>a, <2>b, <2>d, <2>3 DEF StartLocal, NoConnection, Goto, Stays, WorkFact, TypeOK, Kept
    <3> QED BY <2>g, <3>1
  <2>4. ASSUME NEW w \in Workers, MarkProvisioning(w) PROVE WorkFacts'
    <3>1. Approved(OrderOf[sub[w]])'
      BY <2>4, <2>a, <2>b, <2>d DEF MarkProvisioning, Free, OrderFree, WorkFact, Promised, Nothing
    <3>2. WorkFact(w)' /\ \A t \in Workers \ {w} : Kept(t)
      BY <2>4, <2>b, <2>c, <2>d, <3>1 DEF MarkProvisioning, Goto, WorkFact, TypeOK, Kept
    <3> QED BY <2>g, <3>2
  <2>5. ASSUME NEW w \in Workers, CallSucceeds(w) PROVE WorkFacts'
    <3>1. CASE Goto(w, "record") /\ Stays(w)
      <4>1. WorkFact(w)' /\ \A t \in Workers \ {w} : Kept(t)
        BY <2>5, <2>a, <2>b, <2>c, <2>d, <3>1 DEF CallSucceeds, Goto, Stays, WorkFact, TypeOK, Kept
      <4> QED BY <2>g, <4>1
    <3> QED BY <2>5, <2>b, <2>c, <2>p, <3>1 DEF CallSucceeds
  <2>6. ASSUME NEW w \in Workers, CallFails(w) PROVE WorkFacts'
    <3>1. WorkFact(w)' /\ \A t \in Workers \ {w} : Kept(t)
      BY <2>a, <2>b, <2>d, <2>6 DEF CallFails, Goto, WorkFact, TypeOK, Kept
    <3> QED BY <2>g, <3>1
  <2>7. ASSUME NEW w \in Workers, RecordRemoteId(w) PROVE WorkFacts'
    <3>1. WorkFact(w)' /\ \A t \in Workers \ {w} : Kept(t)
      BY <2>a, <2>b, <2>d, <2>7 DEF RecordRemoteId, Goto, Stays, WorkFact, TypeOK, Kept
    <3> QED BY <2>g, <3>1
  <2>8. ASSUME NEW w \in Workers, StoreMapping(w) \/ ActivateOrder(w) \/ FailOrder(w) PROVE WorkFacts'
    BY <2>8, <2>b, <2>c, <2>p DEF StoreMapping, ActivateOrder, FailOrder
  <2>9. ASSUME NEW w \in Workers, Complete(w) \/ Fail(w) PROVE WorkFacts'
    <3>1. WorkFact(w)' /\ \A t \in Workers \ {w} : Kept(t)
      BY <2>a, <2>b, <2>d, <2>9 DEF Complete, Fail, Goto, Stays, WorkFact, TypeOK, Kept
    <3> QED BY <2>g, <3>1
  <2>10. ASSUME NEW w \in Workers, LogComplete(w) PROVE WorkFacts'
    <3>1. CASE Goto(w, "count") /\ Stays(w)
      <4>1. WorkFact(w)' /\ \A t \in Workers \ {w} : Kept(t)
        BY <2>10, <2>c, <2>d, <3>1 DEF LogComplete, Goto, Stays, WorkFact, TypeOK, Kept
      <4> QED BY <2>g, <4>1
    <3> QED BY <2>10, <2>q, <3>1 DEF LogComplete
  <2>11. ASSUME NEW w \in Workers, CountRemaining(w) PROVE WorkFacts'
    <3>1. CASE Goto(w, "activate") /\ Stays(w) /\ \A u \in SubsOf(OrderOf[sub[w]]) : prov[u] = "done"
      <4>1. \A u \in SubsOf(OrderOf[sub[w]]) : Served(u)'
        BY <3>1, ServedStays DEF RowFacts, SubsOf
      <4>2. WorkFact(w)' /\ \A t \in Workers \ {w} : Kept(t)
        BY <2>11, <2>c, <2>d, <3>1, <4>1 DEF CountRemaining, Goto, Stays, SubsOf, WorkFact, TypeOK, Kept
      <4> QED BY <2>g, <4>2
    <3> QED BY <2>11, <2>b, <2>c, <2>p, <3>1 DEF CountRemaining
  <2>12. ASSUME NEW w \in Workers, LogFail(w) PROVE WorkFacts'
    <3>1. CASE Goto(w, "failOrder") /\ Stays(w)
      <4>1. WorkFact(w)' /\ \A t \in Workers \ {w} : Kept(t)
        BY <2>12, <2>c, <2>d, <3>1 DEF LogFail, Goto, Stays, WorkFact, TypeOK, Kept
      <4> QED BY <2>g, <4>1
    <3> QED BY <2>12, <2>b, <2>c, <2>p, <2>q, <3>1 DEF LogFail
  <2>13. ASSUME Tick PROVE WorkFacts'
    <3>1. Polled \in SUBSET Subs /\ \A u \in Polled : Promised(OrderOf[u])'
      BY <2>e DEF Polled, RowFacts, Touched
    <3> QED BY <2>13, <2>p, <2>u, <3>1 DEF Tick
  <2>14. ASSUME PollTimeout \/ PollDisconnected \/ CountPoll PROVE WorkFacts'
    <3>1. WorkFact(Poller)' /\ \A t \in Workers \ {Poller} : Kept(t)
      BY <2>a, <2>b, <2>d, <2>14 DEF PollTimeout, PollDisconnected, CountPoll, Goto, Stays, WorkFact, TypeOK, Kept
    <3> QED BY <2>g, <3>1
  <2>15. ASSUME Query PROVE WorkFacts'
    <3>1. CASE \E label \in {"complete", "fail"} : Goto(Poller, label) /\ Stays(Poller)
      <4>1. WorkFact(Poller)' /\ \A t \in Workers \ {Poller} : Kept(t)
        BY <2>15, <2>c, <2>d, <3>1 DEF Query, Goto, Stays, WorkFact, TypeOK, Kept
      <4> QED BY <2>g, <4>1
    <3> QED BY <2>15, <2>b, <2>c, <2>p, <3>1 DEF Query
  <2>16. ASSUME NEW w \in Workers, WebhookDone(w) \/ WebhookFailed(w) PROVE WorkFacts'
    <3>1. mapping \in Subs /\ \A o \in Orders : o = OrderOf[mapping] => Promised(o)'
      <4>1. mapping \in Subs
        BY <2>16 DEF WebhookDone, WebhookFailed, Told, TypeOK
      <4>2. Approved(OrderOf[mapping])
        BY <4>1 DEF RowFacts, Touched
      <4> QED BY <2>a, <4>1, <4>2 DEF Promised
    <3>2. /\ pc[w] = "idle" /\ sub' = [sub EXCEPT ![w] = mapping] /\ UNCHANGED <<ord, todo>>
          /\ \E label \in {"complete", "fail"} : pc' = [pc EXCEPT ![w] = label]
      BY <2>16 DEF WebhookDone, WebhookFailed, Told, Goto
    <3>3. WorkFact(w)' /\ \A t \in Workers \ {w} : Kept(t)
      BY <2>b, <3>1, <3>2 DEF WorkFact, TypeOK, Kept
    <3> QED BY <2>g, <3>3
  <2>17. ASSUME NEW w \in Workers, NEW u \in Subs, Retry(w, u) PROVE WorkFacts'
    <3>1. Promised(OrderOf[u])' /\ OrderOf[u] # Nothing
      BY <2>17, <2>e DEF Retry, RowFacts, Touched
    <3>2. WorkFact(w)' /\ \A t \in Workers \ {w} : Kept(t)
      BY <2>17, <2>b, <3>1 DEF Retry, Goto, WorkFact, TypeOK, Kept
    <3> QED BY <2>g, <3>2
  <2>18. ASSUME NEW w \in Workers, Reset(w) PROVE WorkFacts'
    <3>1. WorkFact(w)' /\ \A t \in Workers \ {w} : Kept(t)
      BY <2>a, <2>b, <2>d, <2>18 DEF Reset, Goto, Stays, WorkFact, TypeOK, Kept
    <3> QED BY <2>g, <3>1
  <2>19. ASSUME NEW w \in Workers, Reopen(w) PROVE WorkFacts'
    BY <2>19, <2>q DEF Reopen
  <2>20. \/ \E o \in Orders : Commit(o)
         \/ WebhookStatus
         \/ \E u \in Subs : Suspend(u) \/ Resume(u) \/ Terminate(u)
         \/ \E k \in ServerIds : ForeignServer(k) \/ ServerStep(k)
         \/ UNCHANGED vars
         => UNCHANGED work
    BY DEF Commit, WebhookStatus, Suspend, Resume, Terminate, Move, ForeignServer, ServerStep, BecomesServer,
           vars
  <2> QED
    BY <1>n, <2>u, <2>1, <2>2, <2>3, <2>4, <2>5, <2>6, <2>7, <2>8, <2>9, <2>10, <2>11, <2>12, <2>13, <2>14,
       <2>15, <2>16, <2>17, <2>18, <2>19, <2>20 DEF Next, Ask, Work, Poll
<1> QED BY <1>c, <1>n

-------------------------------------------------------------------------------
(* The poller. *)

\* A worker leaves the others alone.
LEMMA OwnWork ==
  ASSUME TypeOK, NEW w \in Workers, Ask(w) \/ Work(w), NEW t \in Workers \ {w}
  PROVE  pc'[t] = pc[t] /\ sub'[t] = sub[t] /\ ord'[t] = ord[t] /\ todo'[t] = todo[t]
<1> DEFINE Kept == pc'[t] = pc[t] /\ sub'[t] = sub[t] /\ ord'[t] = ord[t] /\ todo'[t] = todo[t]
<1>s. Stop(w) => Kept
  BY DEF Stop, Goto, TypeOK
<1>g. ASSUME NEW label, Goto(w, label), UNCHANGED <<sub, ord, todo>> PROVE Kept
  BY <1>g DEF Goto, TypeOK
<1>p. ASSUME NEW rest, Proceed(w, rest) PROVE Kept
  BY <1>s, <1>p DEF Proceed, Goto, TypeOK
<1>t. Throw(w) => Kept
  BY <1>s, <1>g, <1>p DEF Throw
<1>a. Ask(w) => Kept
  BY DEF Ask, Decide, WebhookDone, WebhookFailed, Told, Retry, Goto, work, TypeOK
<1> HIDE DEF Kept
<1>w. Work(w) => Kept
  BY <1>p, <1>t, <1>g
     DEF Work, SelectPending, StartLocal, NoConnection, MarkProvisioning, CallSucceeds, CallFails,
         RecordRemoteId, StoreMapping, Complete, LogComplete, CountRemaining, ActivateOrder, Fail, LogFail,
         FailOrder, Reset, Reopen, Stays
<1> QED BY <1>a, <1>w DEF Kept

\* The subscriptions the poller has still to ask for.
ToPoll == todo[Poller] \cup (IF pc[Poller] = "poll" THEN {sub[Poller]} ELSE {})

\* It takes no more of them on than those it had.
LEMMA PollerProceeds ==
  ASSUME TypeOK, NEW rest \in SUBSET Subs, Proceed(Poller, rest)
  PROVE  ToPoll' \subseteq rest /\ pc'[Poller] \in {"idle", "poll"}
<1>1. CASE Stop(Poller)
  BY <1>1 DEF Stop, Goto, ToPoll, TypeOK
<1>2. ASSUME NEW u \in rest, Goto(Poller, "poll"), sub' = [sub EXCEPT ![Poller] = u],
             todo' = [todo EXCEPT ![Poller] = rest \ {u}]
      PROVE  ToPoll' \subseteq rest /\ pc'[Poller] \in {"idle", "poll"}
  BY <1>2 DEF Goto, ToPoll, TypeOK
<1> QED BY <1>1, <1>2 DEF Proceed

LEMMA PollerWorks ==
  ASSUME TypeOK, PollFacts, Work(Poller) \/ PollTimeout \/ PollDisconnected \/ Query
  PROVE  ToPoll' \subseteq ToPoll /\ pc'[Poller] \notin {"select", "start", "call", "reset", "reopen"}
<1> DEFINE Goal == ToPoll' \subseteq ToPoll /\ pc'[Poller] \notin {"select", "start", "call", "reset", "reopen"}
<1>p. Proceed(Poller, todo[Poller]) => Goal
  <2>1. todo[Poller] \in SUBSET Subs
    BY DEF TypeOK
  <2> QED BY <2>1, PollerProceeds DEF ToPoll
<1>t. Throw(Poller) => Goal
  <2>1. Stop(Poller) => Goal
    BY DEF Stop, Goto, ToPoll, TypeOK
  <2>2. Goto(Poller, "fail") /\ UNCHANGED <<sub, ord, todo>> => Goal
    BY DEF Goto, ToPoll, TypeOK
  <2> QED BY <1>p, <2>1, <2>2 DEF Throw
<1>g. ASSUME NEW label \in {"map", "complete", "completeLog", "count", "activate", "fail", "failLog", "failOrder"},
             Goto(Poller, label), UNCHANGED <<sub, ord, todo>>
      PROVE  Goal
  BY <1>g DEF Goto, ToPoll, TypeOK
<1> HIDE DEF Goal
<1>1. Work(Poller) => Goal
  BY <1>p, <1>t, <1>g
     DEF Work, SelectPending, StartLocal, NoConnection, MarkProvisioning, CallSucceeds, CallFails,
         RecordRemoteId, StoreMapping, Complete, LogComplete, CountRemaining, ActivateOrder, Fail, LogFail,
         FailOrder, Reset, Reopen, Stays, PollFacts
<1>2. PollTimeout \/ PollDisconnected \/ Query => Goal
  BY <1>p, <1>g DEF PollTimeout, PollDisconnected, Query, Stays
<1> QED BY <1>1, <1>2 DEF Goal

LEMMA NextPollFacts == TypeOK /\ WorkFacts /\ PollFacts /\ [Next]_vars => PollFacts'
<1> SUFFICES ASSUME TypeOK, WorkFacts, PollFacts, [Next]_vars PROVE PollFacts'
  OBVIOUS
<1>l. \A u \in ToPoll : u \in Subs /\ (u \in expired \/ polls[u] < MaxPolls)
  BY DEF ToPoll, PollFacts, TypeOK
<1>r. ASSUME pc'[Poller] \notin {"select", "start", "call", "reset", "reopen"},
             \A u \in ToPoll' : u \in expired' \/ polls'[u] < MaxPolls
      PROVE  PollFacts'
  BY <1>r DEF ToPoll, PollFacts
<1>1. CASE Tick /\ pc[Poller] = "idle"
  <2>1. Polled \in SUBSET Subs
    BY DEF Polled
  <2>2. ToPoll' \subseteq Polled /\ pc'[Poller] \in {"idle", "poll"}
    BY <1>1, <2>1, PollerProceeds DEF Tick
  <2>3. \A u \in Subs : polls[u] \in 0..MaxPolls
    BY DEF TypeOK
  <2>4. polls' = polls /\ expired' = {u \in Polled : polls[u] >= MaxPolls}
    BY <1>1 DEF Tick
  <2> QED BY <1>r, <2>1, <2>2, <2>3, <2>4
<1>2. CASE CountPoll
  <2>1. ToPoll' = todo[Poller] /\ pc'[Poller] = "query" /\ sub[Poller] \notin todo[Poller]
    BY <1>2 DEF CountPoll, Goto, ToPoll, WorkFacts, WorkFact, TypeOK
  <2>2. expired' = expired /\ \A u \in Subs \ {sub[Poller]} : polls'[u] = polls[u]
    BY <1>2 DEF CountPoll, TypeOK, outside
  <2>3. ToPoll' \subseteq ToPoll
    BY <2>1 DEF ToPoll
  <2> QED BY <1>l, <1>r, <2>1, <2>2, <2>3
<1>3. CASE ~CountPoll /\ ~(Tick /\ pc[Poller] = "idle")
  <2>1. ToPoll' \subseteq ToPoll /\ pc'[Poller] \notin {"select", "start", "call", "reset", "reopen"}
    <3>1. ASSUME pc'[Poller] = pc[Poller], sub'[Poller] = sub[Poller], todo'[Poller] = todo[Poller]
          PROVE  ToPoll' = ToPoll /\ pc'[Poller] \notin {"select", "start", "call", "reset", "reopen"}
      BY <3>1 DEF ToPoll, PollFacts
    <3>2. ASSUME NEW w \in Handlers, Ask(w) \/ Work(w)
          PROVE  pc'[Poller] = pc[Poller] /\ sub'[Poller] = sub[Poller] /\ todo'[Poller] = todo[Poller]
      BY <3>2, OwnWork
    <3>3. Crash => ToPoll' = {} /\ pc'[Poller] = "idle"
      BY DEF Crash, ToPoll
    <3>4. \/ \E o \in Orders : Commit(o)
          \/ WebhookStatus \/ Tick
          \/ \E u \in Subs : Suspend(u) \/ Resume(u) \/ Terminate(u)
          \/ \E k \in ServerIds : ForeignServer(k) \/ ServerStep(k)
          \/ UNCHANGED vars
          => UNCHANGED work
      BY <1>3 DEF Commit, WebhookStatus, Tick, Suspend, Resume, Terminate, Move, ForeignServer, ServerStep,
                  BecomesServer, vars
    <3>5. UNCHANGED work => pc'[Poller] = pc[Poller] /\ sub'[Poller] = sub[Poller] /\ todo'[Poller] = todo[Poller]
      BY DEF work
    <3> QED BY <1>3, <3>1, <3>2, <3>3, <3>4, <3>5, PollerWorks DEF Next, Poll
  <2>2. \A u \in Subs : polls'[u] \in {polls[u], 0}
    <3>1. (\E w \in Workers : MarkProvisioning(w) \/ Complete(w) \/ Reset(w)) \/ polls' = polls
      BY <1>3
         DEF Next, Ask, Work, Poll, Decide, Commit, SelectPending, StartLocal, NoConnection, CallSucceeds,
             CallFails, RecordRemoteId, StoreMapping, LogComplete, CountRemaining, ActivateOrder, Fail,
             LogFail, FailOrder, Tick, PollTimeout, PollDisconnected, Query, WebhookDone, WebhookFailed,
             Told, WebhookStatus, Retry, Reopen, Suspend, Resume, Terminate, Move, ForeignServer,
             ServerStep, BecomesServer, Crash, vars, rows
    <3>2. (\E w \in Workers : MarkProvisioning(w) \/ Complete(w) \/ Reset(w)) =>
             \A u \in Subs : polls'[u] \in {polls[u], 0}
      BY DEF MarkProvisioning, Complete, Reset, TypeOK
    <3> QED BY <3>1, <3>2
  <2>3. expired' = expired
    BY <1>3
       DEF Next, Ask, Work, Poll, Decide, Commit, SelectPending, StartLocal, NoConnection, MarkProvisioning,
           CallSucceeds, CallFails, RecordRemoteId, StoreMapping, Complete, LogComplete, CountRemaining,
           ActivateOrder, Fail, LogFail, FailOrder, Tick, PollTimeout, PollDisconnected, Query, WebhookDone,
           WebhookFailed, Told, WebhookStatus, Retry, Reset, Reopen, Suspend, Resume, Terminate, Move,
           ForeignServer, ServerStep, BecomesServer, Crash, vars, outside
  <2>4. ASSUME NEW u \in ToPoll' PROVE u \in expired' \/ polls'[u] < MaxPolls
    <3>1. u \in Subs /\ (u \in expired \/ polls[u] < MaxPolls)
      BY <1>l, <2>1
    <3>2. polls'[u] = polls[u] \/ polls'[u] = 0
      BY <2>2, <3>1
    <3> QED BY <2>3, <3>1, <3>2
  <2> QED BY <1>r, <2>1, <2>4
<1> QED BY <1>1, <1>2, <1>3

-------------------------------------------------------------------------------
(* Claims. *)

\* What a handler claims is sold.
LEMMA ClaimsPromised ==
  ASSUME TypeOK, WorkFacts, NEW w \in Handlers, NEW u \in Claim(w)
  PROVE  u \in Subs /\ Promised(OrderOf[u])
BY DEF WorkFacts, WorkFact, Claim

LEMMA ProceedClaim ==
  ASSUME TypeOK, NEW w \in Handlers, NEW rest \in SUBSET Subs, Proceed(w, rest)
  PROVE  Claim(w)' \subseteq rest
<1>1. CASE Stop(w)
  BY <1>1 DEF Stop, Goto, Claim, TypeOK
<1>2. ASSUME NEW u \in rest, Goto(w, "start"), sub' = [sub EXCEPT ![w] = u],
             todo' = [todo EXCEPT ![w] = rest \ {u}]
      PROVE  Claim(w)' \subseteq rest
  BY <1>2 DEF Goto, Claim, TypeOK
<1>3. w # Poller
  OBVIOUS
<1> QED BY <1>1, <1>2, <1>3 DEF Proceed

\* Working, a handler claims no more, and it gives up what it makes the call for.
LEMMA WorkClaim ==
  ASSUME TypeOK, WorkFacts, NEW w \in Handlers, Work(w)
  PROVE  /\ Claim(w)' \subseteq Claim(w)
         /\ pc[w] = "call" => sub[w] \in Claim(w) /\ sub[w] \notin Claim(w)'
<1> DEFINE Goal == /\ Claim(w)' \subseteq Claim(w)
                   /\ pc[w] = "call" => sub[w] \in Claim(w) /\ sub[w] \notin Claim(w)'
<1>c. /\ pc[w] = "call" => sub[w] \in Claim(w) /\ sub[w] \notin todo[w]
      /\ todo[w] \in SUBSET Subs /\ todo[w] \subseteq Claim(w)
  BY DEF WorkFacts, WorkFact, Claim, TypeOK
<1>r. Claim(w)' \subseteq todo[w] => Goal
  BY <1>c
<1>p. Proceed(w, todo[w]) => Goal
  BY <1>c, <1>r, ProceedClaim
<1>g. ASSUME NEW label \in PCs \ {"idle", "select", "start", "call"}, Goto(w, label), UNCHANGED <<sub, ord, todo>>
      PROVE  Goal
  BY <1>r, <1>g DEF Goto, Claim, TypeOK
<1>t. Throw(w) => Goal
  <2>1. Stop(w) => Goal
    BY <1>r DEF Stop, Goto, Claim, TypeOK
  <2>2. Goto(w, "fail") /\ UNCHANGED <<sub, ord, todo>> => Goal
    BY <1>g DEF PCs
  <2> QED BY <1>p, <2>1, <2>2 DEF Throw
<1>1. SelectPending(w) => Goal
  <2> SUFFICES ASSUME SelectPending(w) PROVE Goal
    OBVIOUS
  <2>1. {u \in SubsOf(ord[w]) : prov[u] = "pending"} \in SUBSET Subs
    BY DEF SubsOf
  <2>2. Claim(w)' \subseteq {u \in SubsOf(ord[w]) : prov[u] = "pending"}
    BY <2>1, ProceedClaim DEF SelectPending
  <2> QED BY <2>2 DEF SelectPending, SubsOf, Claim
<1>2. MarkProvisioning(w) => Goal
  BY DEF MarkProvisioning, Goto, Claim, TypeOK
<1> HIDE DEF Goal
<1>3. Work(w) => Goal
  BY <1>p, <1>t, <1>g, <1>1, <1>2
     DEF Work, StartLocal, NoConnection, CallSucceeds, CallFails, RecordRemoteId, StoreMapping, Complete,
         LogComplete, CountRemaining, ActivateOrder, Fail, LogFail, FailOrder, Reset, Reopen, Stays, PCs
<1> QED BY <1>3 DEF Goal

\* What one handler asks for leaves the claims of the others alone.
LEMMA ClaimKept ==
  ASSUME NEW t \in Handlers, pc'[t] = pc[t], sub'[t] = sub[t], ord'[t] = ord[t], todo'[t] = todo[t]
  PROVE  Claim(t)' = Claim(t)
BY DEF Claim

\* The approval of an order gives its handler the subscriptions, of which
\* nobody has any: nothing is promised of a pending order.
LEMMA AskClaim ==
  ASSUME TypeOK, OrderFacts, RowFacts, WorkFacts, NEW w \in Handlers, Ask(w)
  PROVE  \/ Claim(w)' \subseteq Claim(w)
         \/ \A u \in Claim(w)' : servers[u] = {} /\ \A t \in Handlers : u \notin Claim(t)
<1>1. ASSUME NEW o \in Orders, NEW to \in Decisions, Decide(w, o, to), to = "approved"
      PROVE  \A u \in Claim(w)' : servers[u] = {} /\ \A t \in Handlers : u \notin Claim(t)
  <2>1. ~Promised(o)
    BY <1>1 DEF Decide, OrderFree, Undecided, Promised, Approved, Nothing
  <2>2. todo[w] = {}
    BY <1>1 DEF Decide, WorkFacts, WorkFact
  <2>3. \A u \in Claim(w)' : u \in Subs /\ OrderOf[u] = o
    BY <1>1, <2>2 DEF Decide, Claim, TypeOK
  <2>4. \A u \in Claim(w)' : servers[u] = {}
    BY <2>1, <2>3 DEF RowFacts, Touched, Promised
  <2> QED BY <2>1, <2>3, <2>4, ClaimsPromised
<1>2. ASSUME NEW o \in Orders, NEW to \in Decisions, Decide(w, o, to), to # "approved"
      PROVE  Claim(w)' = Claim(w)
  BY <1>2 DEF Decide, Claim, work
<1>3. ASSUME NEW label \in {"complete", "fail", "reset"}, pc' = [pc EXCEPT ![w] = label], UNCHANGED todo
      PROVE  Claim(w)' \subseteq Claim(w)
  BY <1>3 DEF Claim, TypeOK
<1>4. WebhookDone(w) \/ WebhookFailed(w) => Claim(w)' \subseteq Claim(w)
  BY <1>3 DEF WebhookDone, WebhookFailed, Told, Goto
<1>5. (\E u \in Subs : Retry(w, u)) => Claim(w)' \subseteq Claim(w)
  BY <1>3 DEF Retry, Goto
<1> QED BY <1>1, <1>2, <1>4, <1>5 DEF Ask

\* A call creates servers for the subscription it is made for, and nothing else
\* does for any.
LEMMA ServersGrow ==
  ASSUME TypeOK, NEW w \in Workers, Work(w), NEW u \in Subs, servers'[u] # servers[u]
  PROVE  pc[w] = "call" /\ u = sub[w] /\ \E K \in Creatable : servers'[u] = servers[u] \cup K
<1>1. CallSucceeds(w) \/ CallFails(w)
  BY DEF Work, SelectPending, StartLocal, NoConnection, MarkProvisioning, RecordRemoteId, StoreMapping,
         Complete, LogComplete, CountRemaining, ActivateOrder, Fail, LogFail, FailOrder, Reset, Reopen,
         outside, world
<1>2. PICK K \in Creatable : Create(sub[w], K)
  BY <1>1 DEF CallSucceeds, CallFails
<1>3. u = sub[w] /\ servers'[u] = servers[u] \cup K
  BY <1>2 DEF Create, TypeOK
<1> QED BY <1>1, <1>3 DEF CallSucceeds, CallFails

\* What no handler does leaves servers and claims alone.
LEMMA OthersKeep ==
  ASSUME TypeOK, PollFacts, [Next]_vars, ~Crash, \A w \in Handlers : ~(Ask(w) \/ Work(w)), NEW t \in Handlers
  PROVE  servers' = servers /\ Claim(t)' = Claim(t)
<1> DEFINE Kept == pc'[t] = pc[t] /\ sub'[t] = sub[t] /\ ord'[t] = ord[t] /\ todo'[t] = todo[t]
<1>1. Work(Poller) => Kept /\ servers' = servers
  <2>1. Work(Poller) => Kept
    BY OwnWork
  <2>2. Work(Poller) => servers' = servers
    BY DEF Work, SelectPending, StartLocal, NoConnection, MarkProvisioning, CallSucceeds, CallFails,
           RecordRemoteId, StoreMapping, Complete, LogComplete, CountRemaining, ActivateOrder, Fail, LogFail,
           FailOrder, Reset, Reopen, PollFacts, outside, world
  <2> QED BY <2>1, <2>2
<1>2. Poll \/ Tick => Kept /\ servers' = servers
  <2>1. ASSUME NEW rest, Proceed(Poller, rest) PROVE Kept
    BY <2>1 DEF Proceed, Stop, Goto, TypeOK
  <2>2. ASSUME NEW label, Goto(Poller, label), UNCHANGED <<sub, ord, todo>> PROVE Kept
    BY <2>2 DEF Goto, TypeOK
  <2>3. UNCHANGED work => Kept
    BY DEF work
  <2> HIDE DEF Kept
  <2> QED
    BY <2>1, <2>2, <2>3 DEF Poll, Tick, PollTimeout, PollDisconnected, CountPoll, Query, Stays, outside, world
<1>3. \/ \E o \in Orders : Commit(o)
      \/ WebhookStatus
      \/ \E u \in Subs : Suspend(u) \/ Resume(u) \/ Terminate(u)
      \/ \E k \in ServerIds : ForeignServer(k) \/ ServerStep(k)
      \/ UNCHANGED vars
      => Kept /\ servers' = servers
  BY DEF Commit, WebhookStatus, Suspend, Resume, Terminate, Move, ForeignServer, ServerStep, BecomesServer,
         vars, work, outside, world
<1>4. Kept /\ servers' = servers
  BY <1>1, <1>2, <1>3 DEF Next
<1> QED BY <1>4, ClaimKept

LEMMA NextClaimFacts ==
  TypeOK /\ OrderFacts /\ RowFacts /\ WorkFacts /\ PollFacts /\ ClaimFacts /\ [Next]_vars => ClaimFacts'
<1> SUFFICES ASSUME TypeOK, OrderFacts, RowFacts, WorkFacts, PollFacts, ClaimFacts, [Next]_vars
             PROVE  ClaimFacts'
  OBVIOUS
<1>1. CASE Crash
  BY <1>1 DEF Crash, Claim, ClaimFacts
<1>2. ASSUME NEW w \in Handlers, Ask(w) PROVE ClaimFacts'
  <2>1. \A t \in Handlers \ {w} : Claim(t)' = Claim(t)
    BY <1>2, OwnWork, ClaimKept
  <2>2. servers' = servers
    BY <1>2 DEF Ask, Decide, WebhookDone, WebhookFailed, Told, Retry, outside, world
  <2> QED BY <1>2, <2>1, <2>2, AskClaim DEF ClaimFacts
<1>3. ASSUME NEW w \in Handlers, Work(w) PROVE ClaimFacts'
  <2>1. \A t \in Handlers \ {w} : Claim(t)' = Claim(t)
    BY <1>3, OwnWork, ClaimKept
  <2>2. Claim(w)' \subseteq Claim(w)
    BY <1>3, WorkClaim
  <2>3. ASSUME NEW t \in Handlers, NEW u \in Claim(t)' PROVE servers'[u] = {}
    <3>1. u \in Subs /\ u \in Claim(t) /\ servers[u] = {}
      BY <2>1, <2>2, <2>3 DEF Claim, ClaimFacts
    <3>2. servers'[u] # servers[u] => pc[w] = "call" /\ u = sub[w]
      BY <1>3, <3>1, ServersGrow
    <3>3. ~(pc[w] = "call" /\ u = sub[w])
      <4>1. pc[w] = "call" => sub[w] \in Claim(w) /\ sub[w] \notin Claim(w)'
        BY <1>3, WorkClaim
      <4> QED BY <2>3, <3>1, <4>1 DEF ClaimFacts
    <3> QED BY <3>1, <3>2, <3>3
  <2> QED BY <2>1, <2>2, <2>3 DEF ClaimFacts
<1>4. CASE ~Crash /\ \A w \in Handlers : ~(Ask(w) \/ Work(w))
  <2>1. \A t \in Handlers : Claim(t)' = Claim(t) /\ servers' = servers
    BY <1>4, OthersKeep
  <2> QED BY <2>1 DEF ClaimFacts
<1> QED BY <1>1, <1>2, <1>3, <1>4

LEMMA NextServersBounded ==
  TypeOK /\ WorkFacts /\ PollFacts /\ ClaimFacts /\ ServersBounded /\ [Next]_vars => ServersBounded'
<1> SUFFICES ASSUME TypeOK, WorkFacts, PollFacts, ClaimFacts, ServersBounded, [Next]_vars, NEW u \in Subs,
                    servers'[u] # servers[u]
             PROVE  Cardinality(servers'[u]) <= kMaxRetries
  BY DEF ServersBounded
<1>1. PICK w \in Workers : Work(w)
  BY DEF Next, Ask, Poll, Decide, Commit, Tick, PollTimeout, PollDisconnected, CountPoll, Query, WebhookDone,
         WebhookFailed, Told, WebhookStatus, Retry, Suspend, Resume, Terminate, Move, ForeignServer, ServerStep,
         BecomesServer, Crash, vars, outside, world
<1>2. pc[w] = "call" /\ u = sub[w]
  BY <1>1, ServersGrow
<1>3. PICK K \in Creatable : servers'[u] = servers[u] \cup K
  BY <1>1, ServersGrow
<1>4. w \in Handlers /\ servers[u] = {}
  BY <1>2 DEF PollFacts, ClaimFacts, Claim
<1>5. servers'[u] = K /\ Cardinality(K) <= kMaxRetries
  BY <1>3, <1>4 DEF Creatable
<1> QED BY <1>5

-------------------------------------------------------------------------------
(* The theorems. *)

LEMMA InitInv == Init => IInv
<1> SUFFICES ASSUME Init PROVE IInv
  OBVIOUS
<1>1. TypeOK
  BY DEF Init, TypeOK, OrderStatus, SubStatus, ProvStatus, ServerStatus, PCs, Open
<1>2. OrderFacts /\ RowFacts
  BY DEF Init, OrderFacts, RowFacts, Touched, Served, Nothing
<1>3. WorkFacts /\ PollFacts /\ ClaimFacts
  BY DEF Init, WorkFacts, WorkFact, PollFacts, ClaimFacts, Claim
<1>4. ServersBounded
  BY FS_EmptySet DEF Init, ServersBounded
<1> QED BY <1>1, <1>2, <1>3, <1>4 DEF IInv

LEMMA NextInv == IInv /\ [Next]_vars => IInv'
BY NextType, NextOrderFacts, NextRowFacts, NextWorkFacts, NextPollFacts, NextClaimFacts, NextServersBounded
   DEF IInv

\* What holds of orders, subscriptions and workers at once, in every state.
THEOREM Invariance == Spec => []IInv
BY InitInv, NextInv, PTL DEF Spec

\* Every column keeps its domain and every worker knows what its next statement
\* needs; no subscription is polled more often than kMaxPollCount.
THEOREM TypeCorrect == Spec => []TypeOK
<1>1. IInv => TypeOK
  BY DEF IInv
<1> QED BY Invariance, <1>1, PTL

\* Decisions that race do not overrule each other, and only an approved order
\* moves on, to 'active'.
THEOREM DecidedOnce == Spec => OrderDecidedOnce
<1>1. IInv /\ [Next]_vars =>
        [\A o \in Orders : order'[o] # order[o] =>
            <<order[o], order'[o]>> \in ({"pending"} \X Decisions) \cup {<<"approved", "active">>}]_vars
  BY OrderSteps DEF IInv
<1> QED BY Invariance, <1>1, PTL DEF Spec, OrderDecidedOnce

\* A subscription is in service, or has a server, only if its order has been
\* approved, whenever the process dies.
THEOREM SoldBeforeDelivered == Spec => []OnlyApprovedDelivered
<1>1. IInv => OnlyApprovedDelivered
  BY DEF IInv, RowFacts, Touched, Served, Approved, OnlyApprovedDelivered, Delivered
<1> QED BY Invariance, <1>1, PTL

\* All that is ever created downstream for a subscription is what the attempts
\* of one createServer call created.
THEOREM OneCall == Spec => []ServersBounded
<1>1. IInv => ServersBounded
  BY DEF IInv
<1> QED BY Invariance, <1>1, PTL

\* Whoever completes the last subscription of an order: it becomes active when
\* all of them are in service.
THEOREM DeliveredInFull == Spec => []ActiveOrderDelivered
<1>1. IInv => ActiveOrderDelivered
  BY DEF IInv, RowFacts, Served, ActiveOrderDelivered
<1> QED BY Invariance, <1>1, PTL
===============================================================================
