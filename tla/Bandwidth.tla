------------------------------- MODULE Bandwidth -------------------------------
(***************************************************************************)
(* Bandwidth of one subscription: generateMockSamples of                     *)
(* bandwidth_sampler.cc stores samples batch by batch, and                   *)
(* calculate95thPercentile of bandwidth_billing.cc counts the samples of     *)
(* each port and then picks the one at a rank, by two statements, while      *)
(* other samples arrive and the retention policy drops old ones.             *)
(***************************************************************************)
EXTENDS Integers, FiniteSetsExt

CONSTANTS
    Samplers, Billers, \* simulations, and bills or charts, served at a time
    NPorts,      \* bound: ports of the subscription
    LastSlot,    \* bound: intervals of five minutes
    Rates,       \* bytes_out_rate
    Share,       \* one sample in Share is excluded, and fewer do not do: 20
    Batch,       \* rows of an INSERT: 100
    Commits,     \* commit rates that a product may have, 0 when it has none
    Failing      \* whether an INSERT may fail for a reason of the database

Ports == 1..NPorts
Slots == 1..LastSlot
NoRate == 0

BandwidthAssumption ==
    /\ NPorts \in Nat \ {0} /\ LastSlot \in Nat
    /\ Rates \subseteq Nat \ {NoRate} /\ Commits \subseteq Nat
    /\ IsFiniteSet(Rates) /\ IsFiniteSet(Commits)
    /\ Share \in Nat \ {0, 1} /\ Batch \in Nat \ {0}
    /\ Failing \in BOOLEAN

VARIABLES
    samples,     \* bandwidth_samples: the rate of each slot and port, or NoRate
    commit,      \* specs.bandwidth.commit of the product
    oldest,      \* the first slot that the retention policy keeps
    pc,
    from, n, size, done,  \* a simulation: first slot, ports, rows, rows sent
    todo, port, count,    \* a bill: ports left, port at hand, its samples
    rate, total, lacking,
    answer,      \* what the request has answered last
    lost,        \* history: whether rows of the simulation were not stored
    owed,        \* history: the sum of the exact rates of the ports counted
    steady, kept \* history: no sample came or went, none went, since it began

sampling == <<from, n, size, done, lost>>
billing  == <<todo, port, count, rate, total, lacking, owed>>
history  == <<steady, kept>>
vars     == <<samples, commit, oldest, pc, sampling, billing, answer, history>>

Requests == Samplers \cup Billers
Each(set, x) == [r \in set |-> x]
All(x) == Each(Billers, x)

Init ==
    /\ samples = [c \in Slots \X Ports |-> NoRate]
    /\ commit \in Commits
    /\ oldest = 1
    /\ pc = Each(Requests, "idle") /\ answer = Each(Requests, "none")
    /\ from = Each(Samplers, 1) /\ n = Each(Samplers, 1) /\ size = Each(Samplers, 0)
    /\ done = Each(Samplers, 0) /\ lost = Each(Samplers, FALSE)
    /\ todo = All({}) /\ port = All(1) /\ count = All(0)
    /\ rate = All(0) /\ total = All(0) /\ lacking = All(FALSE) /\ owed = All(0)
    /\ steady = All(TRUE) /\ kept = All(TRUE)

Goto(r, to) == pc' = [pc EXCEPT ![r] = to]
Reply(r, a) == answer' = [answer EXCEPT ![r] = a]
Of(p) == {s \in Slots : samples[<<s, p>>] # NoRate}
Rank(k) == (k \div Share) + 1

\* ROW_NUMBER() OVER (ORDER BY bytes_out_rate DESC) = k
Above(p, s) == {x \in Of(p) : samples[<<x, p>>] > samples[<<s, p>>]}
AtLeast(p, s) == {x \in Of(p) : samples[<<x, p>>] >= samples[<<s, p>>]}
AtRank(p, k) ==
    {samples[<<s, p>>] : s \in {x \in Of(p) : Cardinality(Above(p, x)) < k
                                          /\ k <= Cardinality(AtLeast(p, x))}}

\* The exact rate: the least of the port's rates that at most one sample in
\* Share exceeds.
Percentile(p) ==
    Min({samples[<<s, p>>] : s \in {x \in Of(p) : Cardinality(Above(p, x)) * Share <= Cardinality(Of(p))}})

-------------------------------------------------------------------------------
\* generateMockSamples: slot by slot, and in a slot port by port.
Simulate(r) ==
    /\ pc[r] = "idle"
    /\ \E s \in Slots, z \in Slots, k \in Ports :
          /\ s <= z
          /\ from' = [from EXCEPT ![r] = s]
          /\ n' = [n EXCEPT ![r] = k]
          /\ size' = [size EXCEPT ![r] = (z - s + 1) * k]
    /\ lost' = [lost EXCEPT ![r] = FALSE]
    /\ UNCHANGED done
    /\ Goto(r, "insert")
    /\ Reply(r, "none")
    /\ UNCHANGED <<samples, commit, oldest, billing, history>>

Row(r, i) == <<from[r] + ((i - 1) \div n[r]), 1 + ((i - 1) % n[r])>>
Sent(r) == (done[r] + 1)..(IF done[r] + Batch < size[r] THEN done[r] + Batch ELSE size[r])

\* One INSERT of a batch: all of it, or none when a row of it is there already.
\* The exception is swallowed and the rows count as generated either way.
Insert(r) ==
    /\ pc[r] = "insert"
    /\ LET rows == {Row(r, i) : i \in Sent(r)} IN
          \/ /\ \A c \in rows : samples[c] = NoRate
             /\ \E f \in [rows -> Rates] :
                   samples' = [c \in DOMAIN samples |-> IF c \in rows THEN f[c] ELSE samples[c]]
             /\ steady' = All(FALSE)
             /\ UNCHANGED lost
          \/ /\ Failing \/ \E c \in rows : samples[c] # NoRate
             /\ lost' = [lost EXCEPT ![r] = TRUE]
             /\ UNCHANGED <<samples, steady>>
    /\ IF Max(Sent(r)) = size[r]
       THEN /\ from' = [from EXCEPT ![r] = 1] /\ n' = [n EXCEPT ![r] = 1]
            /\ size' = [size EXCEPT ![r] = 0] /\ done' = [done EXCEPT ![r] = 0]
            /\ Goto(r, "idle") /\ Reply(r, "generated")
       ELSE /\ done' = [done EXCEPT ![r] = Max(Sent(r))]
            /\ UNCHANGED <<from, n, size, pc, answer>>
    /\ UNCHANGED <<commit, oldest, billing, kept>>

-------------------------------------------------------------------------------
\* calculate95thPercentile: the ports that have samples.
Discover(r) ==
    /\ pc[r] = "idle"
    /\ todo' = [todo EXCEPT ![r] = {p \in Ports : Of(p) # {}}]
    /\ rate' = [rate EXCEPT ![r] = 0] /\ total' = [total EXCEPT ![r] = 0]
    /\ owed' = [owed EXCEPT ![r] = 0]
    /\ lacking' = [lacking EXCEPT ![r] = FALSE]
    /\ steady' = [steady EXCEPT ![r] = TRUE] /\ kept' = [kept EXCEPT ![r] = TRUE]
    /\ Goto(r, IF todo'[r] = {} THEN "fallback" ELSE "count")
    /\ Reply(r, "none")
    /\ UNCHANGED <<samples, commit, oldest, sampling, port, count>>

Onward(r) == Goto(r, IF todo'[r] # {} THEN "count"
                    ELSE IF lacking'[r] \/ total'[r] < Share THEN "fallback" ELSE "amount")

\* A port of too few samples is left out.
Count(r) ==
    /\ pc[r] = "count"
    /\ LET p == Min(todo[r])
           k == Cardinality(Of(p))
       IN  /\ port' = [port EXCEPT ![r] = p]
           /\ count' = [count EXCEPT ![r] = k]
           /\ IF k < Share
              THEN /\ todo' = [todo EXCEPT ![r] = @ \ {p}]
                   /\ lacking' = [lacking EXCEPT ![r] = TRUE]
                   /\ UNCHANGED <<rate, total, owed>>
                   /\ Onward(r)
              ELSE /\ owed' = [owed EXCEPT ![r] = @ + Percentile(p)]
                   /\ UNCHANGED <<todo, rate, total, lacking>>
                   /\ Goto(r, "pick")
    /\ UNCHANGED <<samples, commit, oldest, sampling, answer, history>>

\* Mutant: the rank is one too far.
PickNext(r) ==
    /\ pc[r] = "pick"
    /\ LET found == AtRank(port[r], Rank(count[r]) + 1)
       IN  rate' = [rate EXCEPT ![r] = @ + (IF found = {} THEN 0 ELSE Min(found))]
    /\ total' = [total EXCEPT ![r] = @ + count[r]]
    /\ todo' = [todo EXCEPT ![r] = @ \ {port[r]}]
    /\ UNCHANGED <<port, count, lacking, owed>>
    /\ Onward(r)
    /\ UNCHANGED <<samples, commit, oldest, sampling, answer, history>>
\* The sample at the rank of what was counted, by a statement of its own; the
\* rate is 0 when there is none any more.
Pick(r) ==
    /\ pc[r] = "pick"
    /\ LET found == AtRank(port[r], Rank(count[r]))
       IN  rate' = [rate EXCEPT ![r] = @ + (IF found = {} THEN 0 ELSE Min(found))]
    /\ total' = [total EXCEPT ![r] = @ + count[r]]
    /\ todo' = [todo EXCEPT ![r] = @ \ {port[r]}]
    /\ UNCHANGED <<port, count, lacking, owed>>
    /\ Onward(r)
    /\ UNCHANGED <<samples, commit, oldest, sampling, answer, history>>

Close(r) ==
    /\ Goto(r, "idle")
    /\ todo' = [todo EXCEPT ![r] = {}]
    /\ port' = [port EXCEPT ![r] = 1]
    /\ count' = [count EXCEPT ![r] = 0]
    /\ total' = [total EXCEPT ![r] = 0]

\* The commit rate instead, when the product has one.
Fallback(r) ==
    /\ pc[r] = "fallback"
    /\ IF commit > 0
       THEN rate' = [rate EXCEPT ![r] = commit] /\ Reply(r, "committed")
       ELSE UNCHANGED rate /\ Reply(r, "measured")
    /\ Close(r)
    /\ UNCHANGED <<samples, commit, oldest, sampling, lacking, owed, history>>

Amount(r) ==
    /\ pc[r] = "amount"
    /\ Reply(r, "measured")
    /\ Close(r)
    /\ UNCHANGED <<samples, commit, oldest, sampling, rate, lacking, owed, history>>

\* getTimeSeries: its statement lacks the space before WHERE, and PostgreSQL
\* refuses it.
TimeSeries == "error"

\* getBandwidth begins with the time series, and gets no further.
Chart(r) ==
    /\ pc[r] = "idle"
    /\ Reply(r, TimeSeries)
    /\ UNCHANGED <<samples, commit, oldest, pc, sampling, billing, history>>

-------------------------------------------------------------------------------
\* The retention policy drops the oldest samples.
Retain ==
    /\ oldest <= LastSlot
    /\ oldest' = oldest + 1
    /\ samples' = [c \in DOMAIN samples |-> IF c[1] = oldest THEN NoRate ELSE samples[c]]
    /\ steady' = All(FALSE) /\ kept' = All(FALSE)
    /\ UNCHANGED <<commit, pc, sampling, billing, answer>>

\* updateProduct changes the specs.
Recommit ==
    /\ commit' \in Commits
    /\ UNCHANGED <<samples, oldest, pc, sampling, billing, answer, history>>

Next ==
    \/ \E r \in Samplers : Simulate(r) \/ Insert(r)
    \/ \E r \in Billers :
          \/ Discover(r) \/ Count(r) \/ Pick(r) \/ Fallback(r) \/ Amount(r)
          \/ Chart(r)
    \/ Retain \/ Recommit

Spec == Init /\ [][Next]_vars

-------------------------------------------------------------------------------
\* Every row and every request stays in its domain.
TypeOK ==
    /\ samples \in [Slots \X Ports -> Rates \cup {NoRate}]
    /\ commit \in Commits
    /\ \A r \in Samplers : pc[r] = "insert" <=> done[r] < size[r]
    /\ \A r \in Billers :
          /\ todo[r] \subseteq Ports
          /\ pc[r] = "pick" => count[r] >= Share /\ port[r] \in todo[r]
          /\ rate[r] <= NPorts * Max(Rates \cup Commits)

Measured(r) == answer[r] = "measured" /\ ~lacking[r]

\* FLOOR(total_count * 0.05) + 1 is the nearest rank of the 95th percentile: a
\* bill that no sample came or went during is the sum of the exact ones.
ExactWhenSteady == \A r \in Billers : Measured(r) /\ steady[r] => rate[r] = owed[r]

\* Samples that arrive between the count and the pick never lower a bill: the
\* rank, computed for fewer of them, is as high or higher among the more.
NotBelowCounted == \A r \in Billers : Measured(r) /\ kept[r] => rate[r] >= owed[r]

===============================================================================
