--------------------------------- MODULE Limiter --------------------------------
(***************************************************************************)
(* The token bucket of one connection (rate_limiter.cc), and the adapters     *)
(* whose creation replaces it (getAdapter of zjmf_adapter.cc).  A bucket is    *)
(* its address; tokens are counted in milliseconds of refill, and the clock    *)
(* in parts of a millisecond, because refill() rounds the elapsed time down.   *)
(***************************************************************************)
EXTENDS Integers, Sequences, FiniteSetsExt

CONSTANTS
    Threads,
    Burst,         \* kDefaultBurst tokens
    PerToken,      \* milliseconds for a token: 60000 / rate
    Timeout,       \* timeoutMs
    Parts,         \* parts of a millisecond
    LastTime,      \* bound: the clock
    MaxBuckets,    \* bound: buckets made
    None

Buckets == 1..MaxBuckets

ASSUME LimiterAssumption ==
    /\ {Burst, PerToken, Timeout, Parts} \subseteq Nat \ {0}
    /\ LastTime \in Nat /\ MaxBuckets \in Nat \ {0}

VARIABLES
    now,
    made, entry,        \* buckets made so far, and the map's; 0: none
    tokens, lastRefill, \* of each bucket
    cached,             \* whether the connection has a cached adapter
    pc, bucket, until,  \* next step of each thread, its reference, the end of its wait
    born, spent         \* history: when each bucket was made, and the tokens it gave

map     == <<made, entry, cached>>
history == <<born, spent>>
vars    == <<now, map, tokens, lastRefill, pc, bucket, until, history>>

Init ==
    /\ now = 0
    /\ made = 0 /\ entry = 0 /\ cached = FALSE
    /\ tokens = [b \in Buckets |-> 0] /\ lastRefill = [b \in Buckets |-> 0]
    /\ pc = [t \in Threads |-> "idle"]
    /\ bucket = [t \in Threads |-> None] /\ until = [t \in Threads |-> 0]
    /\ born = [b \in Buckets |-> 0] /\ spent = [b \in Buckets |-> 0]

Goto(t, to) == pc' = [pc EXCEPT ![t] = to]
Freed(b) == b # entry

\* Mutant: the time of the last refill stays.
RefillAgain(b) ==
    LET elapsed == (now - lastRefill[b]) \div Parts IN
    [tokens |-> Min({tokens[b] + elapsed, Burst * PerToken}), last |-> lastRefill[b]]
Refill(b) ==
    LET elapsed == (now - lastRefill[b]) \div Parts IN
    IF elapsed > 0
    THEN [tokens |-> Min({tokens[b] + elapsed, Burst * PerToken}), last |-> now]
    ELSE [tokens |-> tokens[b], last |-> lastRefill[b]]

\* A new bucket takes the place of the connection's, which is destroyed.
NewBucket ==
    /\ made < MaxBuckets
    /\ made' = made + 1 /\ entry' = made + 1
    /\ tokens' = [tokens EXCEPT ![made + 1] = Burst * PerToken]
    /\ lastRefill' = [lastRefill EXCEPT ![made + 1] = now]
    /\ born' = [born EXCEPT ![made + 1] = now]
    /\ UNCHANGED spent

-------------------------------------------------------------------------------
\* getAdapter.
Cached(t) ==
    /\ pc[t] = "idle" /\ now <= LastTime
    /\ Goto(t, IF cached THEN "get" ELSE "create")
    /\ UNCHANGED <<now, map, tokens, lastRefill, bucket, until, history>>

SetRate(t) ==
    /\ pc[t] = "create"
    /\ NewBucket
    /\ cached' = TRUE
    /\ Goto(t, "get")
    /\ UNCHANGED <<now, bucket, until>>

\* Every caller has an adapter, whose creation has made an entry.
GetBucket(t) ==
    /\ pc[t] = "get" /\ entry # 0
    /\ bucket' = [bucket EXCEPT ![t] = entry]
    /\ Goto(t, "consume")
    /\ UNCHANGED <<now, map, tokens, lastRefill, until, history>>

-------------------------------------------------------------------------------
\* tryConsume.
Answer(t, b, granted) ==
    /\ spent' = IF granted THEN [spent EXCEPT ![b] = @ + 1] ELSE spent
    /\ UNCHANGED born
    /\ Goto(t, "idle")
    /\ bucket' = [bucket EXCEPT ![t] = None] /\ until' = [until EXCEPT ![t] = 0]

Put(b, f, cost) ==
    /\ tokens' = [tokens EXCEPT ![b] = f.tokens - cost]
    /\ lastRefill' = [lastRefill EXCEPT ![b] = f.last]

Wait == Parts * Min({Timeout, PerToken})

TryConsume(t) ==
    /\ pc[t] = "consume" /\ ~Freed(bucket[t])
    /\ LET b == bucket[t] f == Refill(b) IN
       IF f.tokens >= PerToken
       THEN Put(b, f, PerToken) /\ Answer(t, b, TRUE)
       ELSE /\ Put(b, f, 0)
            /\ until' = [until EXCEPT ![t] = now + Wait]
            /\ Goto(t, "wait") /\ UNCHANGED <<bucket, history>>
    /\ UNCHANGED <<now, map>>

TryAgain(t) ==
    /\ LET b == bucket[t] f == Refill(b) IN
       IF f.tokens >= PerToken
       THEN Put(b, f, PerToken) /\ Answer(t, b, TRUE)
       ELSE Put(b, f, 0) /\ Answer(t, b, FALSE)
    /\ UNCHANGED <<now, map>>

\* wait_for without a predicate: its time is over, or it woke up for no reason.
WakeUp(t) == pc[t] = "wait" /\ now >= until[t] /\ ~Freed(bucket[t]) /\ TryAgain(t)
WakeEarly(t) == pc[t] = "wait" /\ now < until[t] /\ ~Freed(bucket[t]) /\ TryAgain(t)

\* The bucket was destroyed under the reference: an answer, or none; no other bucket
\* is touched.
UseFreed(t) ==
    /\ pc[t] \in {"consume", "wait"} /\ Freed(bucket[t])
    /\ \/ Answer(t, bucket[t], FALSE)
       \/ Goto(t, "lost") /\ UNCHANGED <<bucket, until, history>>
    /\ UNCHANGED <<now, map, tokens, lastRefill>>

\* The bound on the clock leaves out calls, never the end of a wait.
Tick ==
    /\ now < LastTime \/ \E t \in Threads : now < until[t]
    /\ now' = now + 1
    /\ UNCHANGED <<map, tokens, lastRefill, pc, bucket, until, history>>

-------------------------------------------------------------------------------
Step(t) ==
    \/ Cached(t) \/ SetRate(t) \/ GetBucket(t)
    \/ TryConsume(t) \/ WakeUp(t) \/ WakeEarly(t) \/ UseFreed(t)

Next == Tick \/ \E t \in Threads : Step(t)

Spec == Init /\ [][Next]_vars

-------------------------------------------------------------------------------
(* Properties. *)

(* A bucket never holds more than its burst, and its clock is never ahead. *)
TypeOK ==
    /\ now \in Nat /\ made \in 0..MaxBuckets /\ entry = made
    /\ tokens \in [Buckets -> 0..(Burst * PerToken)]
    /\ lastRefill \in [Buckets -> Nat] /\ born \in [Buckets -> Nat] /\ spent \in [Buckets -> Nat]
    /\ \A b \in Buckets : born[b] <= lastRefill[b] /\ lastRefill[b] <= now
    /\ bucket \in [Threads -> 1..made \cup {None}]
    /\ pc \in [Threads -> {"idle", "create", "get", "consume", "wait", "lost"}]

(* Since it was made a bucket has given no more tokens than its burst and the refill
   of that time, however the threads that share it wait, wake up early and round the
   time: nothing is counted twice. *)
Conserved ==
    \A b \in Buckets :
        Parts * (spent[b] * PerToken + tokens[b])
            <= Parts * Burst * PerToken + (lastRefill[b] - born[b])

================================================================================
