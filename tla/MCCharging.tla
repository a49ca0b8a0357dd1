------------------------------ MODULE MCCharging ------------------------------
(***************************************************************************)
(* What customers are charged besides their subscriptions, and what happens  *)
(* when they do not pay: Metered, Addons, Bandwidth and Dunning.  They share *)
(* no state, so a step of one is a stutter of the others and each is checked *)
(* by itself: all begin in an initial state, and only the one that `part`    *)
(* names moves.  Dunning is checked twice, with runs that may be late,       *)
(* missed or cut short and a batch of one row, and with prompt daily runs;    *)
(* Bandwidth with one port and with two.                                    *)
(***************************************************************************)
EXTENDS Dunning

CONSTANTS i1, i2, u1, u2, r1, r2, a1, b1, s1, None

VARIABLES
    part,
    listed, chained, metered, bills, lock, meterPc, meterSub, first, last, hours, price, attempt, seen,
    addons, addonPc, addon, date, version,
    samples, commit, oldest, portPc, from, n, size, done, todo, port, count, rate, total, lacking,
    answer, lost, owed, steady, kept

dunningVars == vars
meteredVars == <<listed, chained, metered, bills, lock, meterPc, meterSub, first, last, hours, price,
                 attempt, seen>>
addonsVars == <<addons, addonPc, addon, date, version>>
bandwidthVars == <<samples, commit, oldest, portPc, from, n, size, done, todo, port, count, rate,
                   total, lacking, answer, lost, owed, steady, kept>>
allVars == <<part, dunningVars, meteredVars, addonsVars, bandwidthVars>>

Requests == {r1, r2}

\* u1 is charged on both invoices, u2 on the second, which is due a day later.
Charges == [i \in {i1, i2} |-> IF i = i1 THEN {u1} ELSE {u1, u2}]
DueDays == [i \in {i1, i2} |-> IF i = i1 THEN 1 ELSE 2]

Daily == INSTANCE Dunning WITH
    BatchSize <- 3, Prompt <- TRUE, MaxMissed <- 0, MaxDay <- 5

Metering == INSTANCE Metered WITH
    pc <- meterPc, sub <- meterSub, from <- first, until <- last, rate <- price,
    Subs <- {u1, u2}, Hourly <- {u1}, LastDay <- 1, MaxHours <- 1, Prices <- {1, 2}, MaxAttempts <- 2,
    MaxVersion <- 1, MaxBills <- 2, Unreliable <- TRUE

At(y, m, d) == [y |-> y, m |-> m, d |-> d]
Years == {2000, 2023}

\* Dates at and around the ends of months, of a leap year and of a common one;
\* calendar months, and months from the 15th to the 14th.
Ends == UNION {{At(y, 1, 31), At(y, 2, 1), At(y, 2, 15), At(y, 2, 28), At(y, 3, 1)}
               : y \in Years} \cup {At(2000, 2, 29)}
Months == UNION {{<<At(y, 1, 1), At(y, 1, 31)>>, <<At(y, 2, 1), At(y, 2, IF y = 2000 THEN 29 ELSE 28)>>,
                  <<At(y, 1, 15), At(y, 2, 14)>>, <<At(y, 2, 15), At(y, 3, 14)>>} : y \in Years}
Addon == INSTANCE Addons WITH
    pc <- addonPc, Addons <- {a1}, Dates <- Ends, Periods <- Months

OnePort == INSTANCE Bandwidth WITH
    pc <- portPc, Samplers <- {s1}, Billers <- {b1}, NPorts <- 1, LastSlot <- 4, Rates <- {1, 2},
    Share <- 2, Batch <- 2, Commits <- {0, 3}, Failing <- TRUE
TwoPorts == INSTANCE Bandwidth WITH
    pc <- portPc, Samplers <- {s1}, Billers <- {b1}, NPorts <- 2, LastSlot <- 2, Rates <- {1, 2},
    Share <- 2, Batch <- 2, Commits <- {0}, Failing <- FALSE

ChargingInit ==
    /\ part \in {"late", "daily", "metered", "addons", "one port", "two ports"}
    /\ IF part = "daily" THEN Daily!Init ELSE Init
    /\ Metering!Init /\ Addon!Init
    /\ IF part = "two ports" THEN TwoPorts!Init ELSE OnePort!Init
    /\ part # "metered" => listed = 1 /\ chained = 1
    /\ part # "one port" => commit = 0

DunningOnly(A) == A /\ UNCHANGED <<part, meteredVars, addonsVars, bandwidthVars>>
BandwidthOnly(A) == A /\ UNCHANGED <<part, dunningVars, meteredVars, addonsVars>>

ChargingNext ==
    \/ part = "late" /\ DunningOnly(Next)
    \/ part = "daily" /\ DunningOnly(Daily!Next)
    \/ part = "metered" /\ Metering!Next /\ UNCHANGED <<part, dunningVars, addonsVars, bandwidthVars>>
    \/ part = "addons" /\ Addon!Next /\ UNCHANGED <<part, dunningVars, meteredVars, bandwidthVars>>
    \/ part = "one port" /\ BandwidthOnly(OnePort!Next)
    \/ part = "two ports" /\ BandwidthOnly(TwoPorts!Next)

ChargingSpec == ChargingInit /\ [][ChargingNext]_allVars

ASSUME ChargingAssumption ==
    /\ DunningAssumption /\ Daily!DunningAssumption
    /\ Metering!MeteredAssumption /\ Addon!AddonsAssumption /\ Addon!Monthly
    /\ OnePort!BandwidthAssumption /\ TwoPorts!BandwidthAssumption

-------------------------------------------------------------------------------
\* Every table and request of the component that moves stays in its domain.
AllTypesOK ==
    /\ part = "late" => TypeOK
    /\ part = "daily" => Daily!TypeOK
    /\ part = "metered" => Metering!TypeOK
    /\ part = "addons" => Addon!TypeOK
    /\ part = "one port" => OnePort!TypeOK
    /\ part = "two ports" => TwoPorts!TypeOK

\* Prompt daily runs with room in their batches mark what is overdue in time and
\* terminate what has been for long.
PromptRunsEscalate == part = "daily" => Daily!OverdueIsMarked /\ Daily!LongOverdueIsTerminated

\* Reports, price changes, crashes and two calculations at once: a period is
\* billed once.
PeriodBilledOnce == Metering!PeriodBilledOnce

\* A prorata counts the days an addon was there for, for every start and end
\* around the ends of months, and of two cancellations at once the first stands.
AddonsSettle == [](part = "addons" => Addon!ChargedByTheDay) /\ Addon!CancelledOnce

\* A bill that no sample came or went during is the exact 95th percentile of
\* its port, and with two ports the sum of both; one that samples only arrived
\* during is no lower than if they had not.
BillsFollowSamples ==
    /\ part = "one port" => OnePort!ExactWhenSteady /\ OnePort!NotBelowCounted
    /\ part = "two ports" => TwoPorts!ExactWhenSteady
===============================================================================
