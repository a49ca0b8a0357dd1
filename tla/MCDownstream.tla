----------------------------- MODULE MCDownstream -----------------------------
(***************************************************************************)
(* Copying what downstream systems hold, and the rate at which they may be   *)
(* asked: Sync and Limiter.  They share no state, so a step of one is a       *)
(* stutter of the other and each is checked by itself: both begin in an       *)
(* initial state, and only the one that `part` names moves.  Sync is checked *)
(* four times: one thread, with connections that are switched off; the cron  *)
(* and a request that race, for each type of connection; and fair, with      *)
(* connections of both types.                                                *)
(***************************************************************************)
EXTENDS Limiter

CONSTANTS j1, j2

VARIABLES
    part,
    remote, enabled, rows, maps, log, adapters, inProgress, jobPc, manual, plan, attempt, fetched,
    item, local, errors, faults, cut

syncVars == <<remote, enabled, rows, maps, log, adapters, inProgress, jobPc, manual, plan, attempt,
              fetched, item, local, errors, faults, cut>>
limiterVars == vars
allVars == <<part, limiterVars, syncVars>>

Switched == INSTANCE Sync WITH
    pc <- jobPc, V10 <- {1}, Finance <- {}, Jobs <- {j1}, Cron <- j1, Ids <- {1}, Own <- 1,
    Servers <- {}, MaxVersion <- 2, MaxRows <- 5, MaxAttempts <- 2, MaxFaults <- 2
Racing == INSTANCE Sync WITH
    pc <- jobPc, V10 <- {1}, Finance <- {}, Jobs <- {j1, j2}, Cron <- j1, Ids <- {1}, Own <- 1,
    Servers <- {1}, MaxVersion <- 1, MaxRows <- 4, MaxAttempts <- 2, MaxFaults <- 1
Asked == INSTANCE Sync WITH
    pc <- jobPc, V10 <- {}, Finance <- {2}, Jobs <- {j1, j2}, Cron <- j1, Ids <- {1}, Own <- 0,
    Servers <- {}, MaxVersion <- 1, MaxRows <- 4, MaxAttempts <- 2, MaxFaults <- 1
Live == INSTANCE Sync WITH
    pc <- jobPc, V10 <- {1}, Finance <- {2}, Jobs <- {j1}, Cron <- j1, Ids <- {1}, Own <- 0,
    Servers <- {}, MaxVersion <- 2, MaxRows <- 4, MaxAttempts <- 2, MaxFaults <- 2

SyncOnly(A) == A /\ UNCHANGED <<part, limiterVars>>

BothInit ==
    \/ part = "switched" /\ Init /\ Switched!Init
    \/ part = "racing" /\ Init /\ Racing!Init
    \/ part = "asked" /\ Init /\ Asked!Init
    \/ part = "live" /\ Init /\ Live!Init
    \/ part = "limiter" /\ Init /\ Live!Init /\ remote = [i \in Live!Items |-> 0]

\* No connection is switched off while the remote systems are to be caught up with.
LiveNext ==
    \/ Live!Timers \/ Live!Crash
    \/ Live!Run(j1) \/ Live!Fails(j1)
    \/ \E i \in Live!Items : Live!RemoteChanges(i)

BothNext ==
    \/ part = "switched" /\ SyncOnly(Switched!Next)
    \/ part = "racing" /\ SyncOnly(Racing!Next)
    \/ part = "asked" /\ SyncOnly(Asked!Next)
    \/ part = "live" /\ SyncOnly(LiveNext)
    \/ part = "limiter" /\ Next /\ UNCHANGED <<part, syncVars>>

Live_(A) == part = "live" /\ SyncOnly(A)

\* The fairness of Sync, for the part that moves.
BothSpec ==
    /\ BothInit /\ [][BothNext]_allVars
    /\ WF_allVars(Live_(Live!Run(j1)))
    /\ SF_allVars(Live_(Live!OnProductSync)) /\ SF_allVars(Live_(Live!OnClientSync))

ASSUME DownstreamAssumption ==
    /\ Switched!SyncAssumption /\ Racing!SyncAssumption
    /\ Asked!SyncAssumption /\ Live!SyncAssumption

-------------------------------------------------------------------------------
\* One thread or two, failures and crashes: a remote entity gets no more rows than
\* threads can look it up at once, and one more for each time one was cut short
\* before its mapping; and no failed task leaves its flag up.  Meanwhile every
\* variable, those of the token buckets too, stays in its domain.
FailuresContained ==
    /\ TypeOK
    /\ part = "switched" => Switched!TypeOK
    /\ part = "racing" => Racing!TypeOK
    /\ part = "asked" => Asked!TypeOK
    /\ part = "live" => Live!TypeOK
    /\ part = "switched" => Switched!CopiesBounded /\ Switched!FlagMeansRunning
    /\ part = "racing" => Racing!CopiesBounded /\ Racing!FlagMeansRunning
    /\ part = "asked" => Asked!CopiesBounded /\ Asked!FlagMeansRunning
    /\ part = "live" => Live!CopiesBounded /\ Live!FlagMeansRunning

\* One thread, failures, crashes and connections that are switched off: the
\* copies of a remote entity only move forward, to versions it has had.
MirrorSpec ==
    /\ part = "switched" => Switched!M!Init
    /\ [][part = "switched" => [Switched!M!Next]_<<remote, Switched!Copies>>]_allVars

\* When the remote systems stop changing, products and clients end up here as
\* they are there, whatever failed meanwhile.
CatchesUp == <>[](part = "live" => Live!CaughtUp)
===============================================================================
