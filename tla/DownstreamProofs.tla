------------------------------ MODULE DownstreamProofs ------------------------------
(***************************************************************************)
(* What is asked of downstream systems and what is copied from them, for     *)
(* every value of the constants.                                             *)
(*                                                                          *)
(* Limiter: a bucket keeps its type and never gives more than its burst and   *)
(* the refill of its time.  What is inductive is the conservation itself,      *)
(* counted in parts of a millisecond: a refill adds no more than the time      *)
(* since the last one, which it uses up, because the division rounds down; and *)
(* a thread that consumes or waits does so in a bucket that was made           *)
(* (References), while those not yet made have given nothing (Unused).         *)
(*                                                                          *)
(* Sync is an instance, with variables and constants of its own.  Its copies   *)
(* stay few because an item that has been mapped keeps its one mapping         *)
(* (MapsOnce), and every row that is not mapped is owed to a job that is about *)
(* to map it, to one that looked the item up before it was mapped, or to a     *)
(* run that was cut short between the two (Few).  With one thread the copies   *)
(* implement Mirror: what a run holds is never older than the rows (Forward),  *)
(* and no row belongs to two items (OwnRows).                                  *)
(***************************************************************************)
EXTENDS Limiter, TLAPS, FiniteSetTheorems, SequenceTheorems, WellFoundedInduction

References == \A t \in Threads : pc[t] \in {"consume", "wait"} => bucket[t] \in 1..made
Unused == \A b \in Buckets : b > made => spent[b] = 0

IInv ==
    /\ TypeOK
    /\ until \in [Threads -> Nat]
    /\ References
    /\ Unused
    /\ Conserved

USE LimiterAssumption

-------------------------------------------------------------------------------
(* Arithmetic. *)

\* A product with a natural number keeps an order.
LEMMA TimesMonotone ==
  ASSUME NEW p \in Nat, NEW x \in Int, NEW y \in Int, x <= y
  PROVE  p * x <= p * y
  OBVIOUS

\* Division rounds down.
LEMMA DivRounds ==
  ASSUME NEW x \in Nat, NEW p \in Nat \ {0}
  PROVE  x \div p \in Nat /\ p * (x \div p) <= x
  OBVIOUS

\* Min of two numbers is one of them and at most each.
LEMMA MinOfTwo ==
  ASSUME NEW x \in Int, NEW y \in Int
  PROVE  Min({x, y}) \in {x, y} /\ Min({x, y}) <= x /\ Min({x, y}) <= y
<1>1. \E m \in {x, y} : \A z \in {x, y} : m =< z
  OBVIOUS
<1> QED BY <1>1 DEF Min

\* The longest wait is a span of time.
LEMMA WaitType == Wait \in Nat
<1>1. Min({Timeout, PerToken}) \in Nat
  BY MinOfTwo
<1> QED BY <1>1 DEF Wait

-------------------------------------------------------------------------------
\* A refill stays within the burst and gains at most the time it takes from the
\* clock of the bucket.
LEMMA RefillGains ==
  ASSUME TypeOK, NEW b \in Buckets
  PROVE  /\ Refill(b).tokens \in 0..(Burst * PerToken)
         /\ Refill(b).last \in Nat
         /\ lastRefill[b] <= Refill(b).last /\ Refill(b).last <= now
         /\ Parts * (Refill(b).tokens - tokens[b]) <= Refill(b).last - lastRefill[b]
<1> DEFINE e == (now - lastRefill[b]) \div Parts
           cap == Burst * PerToken
<1>1. /\ now \in Nat /\ lastRefill[b] \in Nat /\ lastRefill[b] <= now
      /\ tokens[b] \in 0..cap
  BY DEF TypeOK
<1>2. cap \in Nat
  OBVIOUS
<1>3. e \in Nat /\ Parts * e <= now - lastRefill[b]
  BY <1>1, DivRounds
<1>e. Refill(b) = IF e > 0 THEN [tokens |-> Min({tokens[b] + e, cap}), last |-> now]
                           ELSE [tokens |-> tokens[b], last |-> lastRefill[b]]
  BY DEF Refill
<1> HIDE DEF e, cap
<1>4. CASE e > 0
  <2> DEFINE m == Min({tokens[b] + e, cap})
  <2>1. Refill(b) = [tokens |-> m, last |-> now]
    BY <1>4, <1>e
  <2>2. m \in 0..cap /\ m <= tokens[b] + e
    <3> DEFINE x == tokens[b] + e
    <3>1. x \in Nat
      BY <1>1, <1>3
    <3> HIDE DEF x
    <3>2. Min({x, cap}) \in {x, cap} /\ Min({x, cap}) <= x /\ Min({x, cap}) <= cap
      <4>1. x \in Int /\ cap \in Int
        BY <3>1, <1>2
      <4> QED BY <4>1, MinOfTwo
    <3>3. m = Min({x, cap})
      BY DEF x
    <3> HIDE DEF m
    <3>4. m \in 0..cap /\ m <= x
      BY <3>1, <3>2, <3>3, <1>2
    <3> QED BY <3>4 DEF x
  <2> HIDE DEF m
  <2>3. m - tokens[b] \in Int /\ m - tokens[b] <= e
    BY <2>2, <1>1, <1>2, <1>3
  <2>4. Parts * (m - tokens[b]) <= Parts * e
    BY <2>3, <1>3, TimesMonotone
  <2>5. Parts * (m - tokens[b]) \in Int /\ Parts * e \in Int
    BY <2>3, <1>3
  <2>6. Parts * (m - tokens[b]) <= now - lastRefill[b]
    BY <2>4, <2>5, <1>3, <1>1
  <2> QED BY <2>1, <2>2, <2>6, <1>1 DEF cap
<1>5. CASE ~(e > 0)
  <2>1. Refill(b) = [tokens |-> tokens[b], last |-> lastRefill[b]]
    BY <1>5, <1>e
  <2>2. Parts * (tokens[b] - tokens[b]) = 0
    BY <1>1
  <2> QED BY <2>1, <2>2, <1>1 DEF cap
<1> QED BY <1>4, <1>5

\* What a bucket has given and holds, in milliseconds of refill.
Given(b) == spent[b] * PerToken + tokens[b]

\* A refill, and a token moved from what is held to what is given, keep to the
\* conservation.
LEMMA PutKeeps ==
  ASSUME NEW a \in Int, NEW c \in Int, NEW old \in Nat, NEW new \in Nat, NEW start \in Nat,
         NEW limit \in Int,
         Parts * (c - a) <= new - old,
         Parts * a <= limit + (old - start)
  PROVE  Parts * c <= limit + (new - start)
<1>1. Parts * c = Parts * a + Parts * (c - a)
  OBVIOUS
<1>2. Parts * a \in Int /\ Parts * (c - a) \in Int /\ Parts * c \in Int
  OBVIOUS
<1> HIDE LimiterAssumption
<1> QED BY <1>1, <1>2

-------------------------------------------------------------------------------
\* Initially no bucket is made.
LEMMA InitIInv == Init => IInv
<1> SUFFICES ASSUME Init PROVE IInv
  OBVIOUS
<1>1. Burst * PerToken \in Nat
  OBVIOUS
<1>2. TypeOK
  BY <1>1 DEF Init, TypeOK, Buckets
<1>3. until \in [Threads -> Nat] /\ References /\ Unused
  BY DEF Init, References, Unused
<1>4. Conserved
  <2> SUFFICES ASSUME NEW b \in Buckets
               PROVE  Parts * (spent[b] * PerToken + tokens[b])
                        <= Parts * Burst * PerToken + (lastRefill[b] - born[b])
    BY DEF Conserved
  <2>1. spent[b] = 0 /\ tokens[b] = 0 /\ lastRefill[b] = 0 /\ born[b] = 0
    BY DEF Init
  <2>2. Parts * (0 * PerToken + 0) = 0
    OBVIOUS
  <2>3. Parts * Burst * PerToken \in Nat
    OBVIOUS
  <2> QED BY <2>1, <2>2, <2>3
<1> QED BY <1>2, <1>3, <1>4 DEF IInv

-------------------------------------------------------------------------------
(* Steps. *)

\* What a bucket's refill does to its books when the cost is what it gives.
LEMMA BookKept ==
  ASSUME IInv, NEW b \in Buckets,
         tokens' = [tokens EXCEPT ![b] = tokens'[b]], tokens'[b] \in Int,
         lastRefill' = [lastRefill EXCEPT ![b] = Refill(b).last],
         spent' = [spent EXCEPT ![b] = spent'[b]], spent'[b] \in Nat,
         born' = born,
         spent'[b] * PerToken + tokens'[b] = spent[b] * PerToken + Refill(b).tokens
  PROVE  Conserved'
<1>t. TypeOK /\ Conserved
  BY DEF IInv
<1> SUFFICES ASSUME NEW c \in Buckets
             PROVE  Parts * (spent'[c] * PerToken + tokens'[c])
                      <= Parts * Burst * PerToken + (lastRefill'[c] - born'[c])
  BY DEF Conserved
<1>1. Parts * (spent[c] * PerToken + tokens[c])
        <= Parts * Burst * PerToken + (lastRefill[c] - born[c])
  BY <1>t DEF Conserved
<1>2. CASE c # b
  <2>1. tokens'[c] = tokens[c] /\ lastRefill'[c] = lastRefill[c] /\ spent'[c] = spent[c]
    BY <1>2, <1>t DEF TypeOK
  <2> QED BY <2>1, <1>1
<1>3. CASE c = b
  <2> DEFINE held == Given(b)  kept == spent[b] * PerToken + Refill(b).tokens
             limit == Parts * Burst * PerToken
  <2>1. /\ tokens[b] \in Int /\ spent[b] \in Nat /\ lastRefill[b] \in Nat /\ born[b] \in Nat
        /\ Burst * PerToken \in Nat
    BY <1>t DEF TypeOK
  <2>2. Refill(b).tokens \in Int /\ Refill(b).last \in Nat
        /\ Parts * (Refill(b).tokens - tokens[b]) <= Refill(b).last - lastRefill[b]
    BY <1>t, <2>1, RefillGains
  <2>3. spent[b] * PerToken \in Int
    BY <2>1
  <2>4. held \in Int /\ kept \in Int /\ kept - held = Refill(b).tokens - tokens[b]
    BY <2>1, <2>2, <2>3 DEF Given
  <2>5. limit \in Int
    OBVIOUS
  <2>6. Parts * held <= limit + (lastRefill[b] - born[b])
    BY <1>1, <1>3 DEF Given
  <2>7. lastRefill'[b] = Refill(b).last /\ born'[b] = born[b]
        /\ spent'[b] * PerToken + tokens'[b] = kept
    BY <1>t DEF TypeOK
  <2> HIDE DEF held, kept, limit
  <2>8. Parts * (kept - held) <= Refill(b).last - lastRefill[b]
    BY <2>2, <2>4
  <2>9. Parts * kept <= limit + (Refill(b).last - born[b])
    BY <2>1, <2>2, <2>4, <2>5, <2>6, <2>8, PutKeeps
  <2> QED BY <2>7, <2>9, <1>3 DEF limit
<1> QED BY <1>2, <1>3

\* A thread that consumes or waits does not disturb what is known of the buckets, in
\* either of its two outcomes: tokens for PerToken, or none.
LEMMA PutType ==
  ASSUME IInv, NEW t \in Threads, pc[t] \in {"consume", "wait"}, NEW cost \in {0, PerToken},
         Refill(bucket[t]).tokens >= cost,
         Put(bucket[t], Refill(bucket[t]), cost)
  PROVE  /\ bucket[t] \in Buckets /\ bucket[t] <= made
         /\ tokens' \in [Buckets -> 0..(Burst * PerToken)]
         /\ tokens'[bucket[t]] = Refill(bucket[t]).tokens - cost
         /\ lastRefill' \in [Buckets -> Nat]
         /\ \A b \in Buckets : lastRefill[b] <= lastRefill'[b] /\ lastRefill'[b] <= now
<1> DEFINE b == bucket[t]  cap == Burst * PerToken
<1>1. TypeOK /\ b \in 1..made /\ made \in 0..MaxBuckets
  BY DEF IInv, References, TypeOK
<1>2. b \in Buckets /\ b <= made
  BY <1>1 DEF Buckets
<1>3. /\ Refill(b).tokens \in 0..cap /\ Refill(b).last \in Nat
      /\ lastRefill[b] <= Refill(b).last /\ Refill(b).last <= now
  BY <1>1, <1>2, RefillGains
<1>4. /\ tokens' = [tokens EXCEPT ![b] = Refill(b).tokens - cost]
      /\ lastRefill' = [lastRefill EXCEPT ![b] = Refill(b).last]
  BY DEF Put
<1>5. /\ tokens \in [Buckets -> 0..cap] /\ lastRefill \in [Buckets -> Nat]
      /\ \A c \in Buckets : lastRefill[c] <= now
      /\ cap \in Nat
  BY <1>1 DEF TypeOK
<1>6. Refill(b).tokens >= cost
  OBVIOUS
<1> HIDE DEF b, cap
<1>7. Refill(b).tokens - cost \in 0..cap
  BY <1>3, <1>5, <1>6
<1>8. tokens' \in [Buckets -> 0..cap] /\ tokens'[b] = Refill(b).tokens - cost
  BY <1>2, <1>4, <1>5, <1>7
<1>9. lastRefill' \in [Buckets -> Nat]
  BY <1>2, <1>3, <1>4, <1>5
<1>10. ASSUME NEW c \in Buckets
       PROVE  lastRefill[c] <= lastRefill'[c] /\ lastRefill'[c] <= now
  BY <1>2, <1>3, <1>4, <1>5
<1> QED BY <1>2, <1>8, <1>9, <1>10 DEF b, cap

\* A granted token: the bucket has given one more, the thread is idle again.
LEMMA Granted ==
  ASSUME IInv, NEW t \in Threads, pc[t] \in {"consume", "wait"},
         Refill(bucket[t]).tokens >= PerToken,
         Put(bucket[t], Refill(bucket[t]), PerToken), Answer(t, bucket[t], TRUE),
         UNCHANGED <<now, map>>
  PROVE  IInv'
<1> DEFINE b == bucket[t]
<1>1. /\ b \in Buckets /\ b <= made
      /\ tokens' \in [Buckets -> 0..(Burst * PerToken)]
      /\ tokens'[b] = Refill(b).tokens - PerToken
      /\ lastRefill' \in [Buckets -> Nat]
      /\ \A c \in Buckets : lastRefill[c] <= lastRefill'[c] /\ lastRefill'[c] <= now
  BY PutType
<1>2. TypeOK /\ until \in [Threads -> Nat] /\ References /\ Unused
  BY DEF IInv
<1>3. /\ spent' = [spent EXCEPT ![b] = @ + 1] /\ born' = born
      /\ pc' = [pc EXCEPT ![t] = "idle"] /\ bucket' = [bucket EXCEPT ![t] = None]
      /\ until' = [until EXCEPT ![t] = 0]
      /\ now' = now /\ made' = made /\ entry' = entry /\ cached' = cached
  BY DEF Answer, Goto, map
<1>4. spent' \in [Buckets -> Nat] /\ spent'[b] = spent[b] + 1
  BY <1>1, <1>2, <1>3 DEF TypeOK
<1>5. \A c \in Buckets : born'[c] <= lastRefill'[c]
  BY <1>1, <1>2, <1>3 DEF TypeOK
<1>6. TypeOK'
  BY <1>1, <1>2, <1>3, <1>4, <1>5 DEF TypeOK
<1>7. until' \in [Threads -> Nat]
  BY <1>2, <1>3
<1>8. References'
  BY <1>2, <1>3 DEF References, TypeOK
<1>9. Unused'
  <2> SUFFICES ASSUME NEW c \in Buckets, c > made PROVE spent'[c] = 0
    BY <1>3 DEF Unused
  <2>1. spent[c] = 0
    BY <1>2 DEF Unused
  <2>2. c \in Int /\ b \in Int /\ made \in Int
    BY <1>1, <1>2 DEF TypeOK, Buckets
  <2>3. c # b
    BY <1>1, <2>2
  <2> QED BY <2>1, <2>3, <1>2, <1>3 DEF TypeOK
<1>10. Conserved'
  <2>1. Refill(b).tokens \in Int /\ spent[b] \in Nat
    BY <1>1, <1>2, RefillGains DEF TypeOK
  <2>2. (spent[b] + 1) * PerToken = spent[b] * PerToken + PerToken
    BY <2>1
  <2>3. spent[b] * PerToken \in Int
    BY <2>1
  <2>4. spent'[b] * PerToken + tokens'[b] = spent[b] * PerToken + Refill(b).tokens
    BY <1>1, <1>4, <2>1, <2>2, <2>3
  <2>5. tokens' = [tokens EXCEPT ![b] = tokens'[b]] /\ tokens'[b] \in Int
    BY <1>1, <1>2, <2>1 DEF Put, TypeOK
  <2>6. lastRefill' = [lastRefill EXCEPT ![b] = Refill(b).last]
    BY DEF Put
  <2>7. spent' = [spent EXCEPT ![b] = spent'[b]] /\ spent'[b] \in Nat
    BY <1>1, <1>2, <1>3, <1>4 DEF TypeOK
  <2> HIDE DEF b
  <2> QED BY <1>1, <1>3, <2>4, <2>5, <2>6, <2>7, BookKept
<1> QED BY <1>6, <1>7, <1>8, <1>9, <1>10 DEF IInv

\* No token: the bucket is refilled; the thread waits, or has its answer.
LEMMA NotGranted ==
  ASSUME IInv, NEW t \in Threads, pc[t] \in {"consume", "wait"},
         Put(bucket[t], Refill(bucket[t]), 0),
         UNCHANGED <<now, map, history>>,
         until' \in [Threads -> Nat],
         NEW to \in {"idle", "wait"}, pc' = [pc EXCEPT ![t] = to],
         \/ bucket' = bucket
         \/ bucket' = [bucket EXCEPT ![t] = None] /\ to = "idle"
  PROVE  IInv'
<1> DEFINE b == bucket[t]
<1>0. TypeOK /\ References /\ Unused
  BY DEF IInv
<1>r. b \in Buckets /\ Refill(b).tokens \in Nat
  <2>1. b \in Buckets
    BY <1>0 DEF References, TypeOK, Buckets
  <2> HIDE DEF b
  <2>2. Refill(b).tokens \in 0..(Burst * PerToken)
    BY <2>1, <1>0, RefillGains
  <2> QED BY <2>1, <2>2
<1>1. /\ b <= made
      /\ tokens' \in [Buckets -> 0..(Burst * PerToken)]
      /\ tokens'[b] = Refill(b).tokens - 0
      /\ lastRefill' \in [Buckets -> Nat]
      /\ \A c \in Buckets : lastRefill[c] <= lastRefill'[c] /\ lastRefill'[c] <= now
  <2>1. Refill(b).tokens >= 0
    BY <1>r
  <2> QED BY <2>1, PutType
<1>3. /\ spent' = spent /\ born' = born
      /\ now' = now /\ made' = made /\ entry' = entry /\ cached' = cached
  BY DEF map, history
<1>5. \A c \in Buckets : born'[c] <= lastRefill'[c]
  BY <1>0, <1>1, <1>3 DEF TypeOK
<1>b. bucket' \in [Threads -> 1..made \cup {None}] /\ pc' \in
        [Threads -> {"idle", "create", "get", "consume", "wait", "lost"}]
  BY <1>0 DEF TypeOK
<1>c. \A c \in Buckets : lastRefill'[c] <= now'
  BY <1>1, <1>3
<1>d. spent' \in [Buckets -> Nat] /\ born' \in [Buckets -> Nat] /\ now' \in Nat
      /\ made' \in 0..MaxBuckets /\ entry' = made'
  BY <1>0, <1>3 DEF TypeOK
<1>6. TypeOK'
  BY <1>1, <1>3, <1>5, <1>b, <1>c, <1>d DEF TypeOK
<1>8. References'
  BY <1>0, <1>3 DEF References, TypeOK
<1>9. Unused'
  BY <1>0, <1>3 DEF Unused
<1>10. Conserved'
  <2>1. tokens'[b] = Refill(b).tokens /\ spent[b] \in Nat
    BY <1>1, <1>r, <1>0 DEF TypeOK
  <2>5. tokens' = [tokens EXCEPT ![b] = tokens'[b]] /\ tokens'[b] \in Int
    BY <1>r, <1>0, <2>1 DEF Put, TypeOK
  <2>6. lastRefill' = [lastRefill EXCEPT ![b] = Refill(b).last]
    BY DEF Put
  <2>7. spent' = [spent EXCEPT ![b] = spent'[b]] /\ spent'[b] \in Nat
    BY <1>r, <1>0, <1>3 DEF TypeOK
  <2>8. spent'[b] * PerToken + tokens'[b] = spent[b] * PerToken + Refill(b).tokens
    BY <1>3, <2>1
  <2> HIDE DEF b
  <2> QED BY <1>r, <1>3, <2>5, <2>6, <2>7, <2>8, BookKept
<1> QED BY <1>6, <1>8, <1>9, <1>10 DEF IInv

\* A new bucket is full, and was never used.
LEMMA Made ==
  ASSUME IInv, NEW t \in Threads, SetRate(t)
  PROVE  IInv'
<1> DEFINE n == made + 1  cap == Burst * PerToken
<1>0. TypeOK /\ References /\ Unused /\ Conserved /\ until \in [Threads -> Nat]
  BY DEF IInv
<1>1. /\ n \in Buckets /\ made' = n /\ entry' = n /\ made \in Nat
      /\ tokens' = [tokens EXCEPT ![n] = cap]
      /\ lastRefill' = [lastRefill EXCEPT ![n] = now]
      /\ born' = [born EXCEPT ![n] = now]
      /\ spent' = spent /\ now' = now /\ bucket' = bucket /\ until' = until
      /\ pc' = [pc EXCEPT ![t] = "get"]
  BY <1>0 DEF SetRate, NewBucket, Goto, Buckets, TypeOK
<1>2. cap \in Nat
  OBVIOUS
<1>3. TypeOK'
  <2>1. tokens' \in [Buckets -> 0..cap]
    <3> HIDE DEF cap, n
    <3>1. tokens \in [Buckets -> 0..cap] /\ cap \in 0..cap
      BY <1>0, <1>2 DEF TypeOK, cap
    <3> QED BY <1>1, <3>1
  <2>2. /\ lastRefill' \in [Buckets -> Nat] /\ born' \in [Buckets -> Nat]
        /\ \A b \in Buckets : born'[b] <= lastRefill'[b] /\ lastRefill'[b] <= now'
    <3> HIDE DEF n
    <3> QED BY <1>0, <1>1 DEF TypeOK
  <2>3. bucket' \in [Threads -> 1..made' \cup {None}]
    BY <1>0, <1>1 DEF TypeOK
  <2>4. pc' \in [Threads -> {"idle", "create", "get", "consume", "wait", "lost"}]
    BY <1>0, <1>1 DEF TypeOK
  <2>5. made' \in 0..MaxBuckets
    BY <1>1 DEF Buckets
  <2>6. entry' = made' /\ now' \in Nat /\ spent' \in [Buckets -> Nat]
    BY <1>0, <1>1 DEF TypeOK
  <2> QED BY <2>1, <2>2, <2>3, <2>4, <2>5, <2>6 DEF TypeOK
<1>4. References'
  BY <1>0, <1>1 DEF References, TypeOK
<1>5. Unused'
  BY <1>0, <1>1 DEF Unused, Buckets
<1>6. Conserved'
  <2> SUFFICES ASSUME NEW b \in Buckets
               PROVE  Parts * (spent'[b] * PerToken + tokens'[b])
                        <= Parts * Burst * PerToken + (lastRefill'[b] - born'[b])
    BY DEF Conserved
  <2>1. CASE b # n
    <3>1. /\ tokens'[b] = tokens[b] /\ lastRefill'[b] = lastRefill[b]
          /\ born'[b] = born[b] /\ spent'[b] = spent[b]
      BY <1>0, <1>1, <2>1 DEF TypeOK
    <3> QED BY <1>0, <3>1 DEF Conserved
  <2>2. CASE b = n
    <3>1. spent'[b] = 0 /\ tokens'[b] = cap /\ lastRefill'[b] = now /\ born'[b] = now
      BY <1>0, <1>1, <2>2 DEF TypeOK, Unused
    <3>2. now \in Nat /\ Parts * (0 * PerToken + cap) = Parts * Burst * PerToken
      BY <1>0 DEF TypeOK
    <3>3. Parts * Burst * PerToken \in Int
      OBVIOUS
    <3> HIDE DEF cap
    <3> QED BY <3>1, <3>2, <3>3
  <2> QED BY <2>1, <2>2
<1> QED BY <1>0, <1>1, <1>3, <1>4, <1>5, <1>6 DEF IInv

\* Steps that touch no bucket.
LEMMA Untouched ==
  ASSUME IInv,
         UNCHANGED <<map, tokens, lastRefill, history>>,
         now' \in Nat, now <= now',
         bucket' \in [Threads -> 1..made \cup {None}],
         pc' \in [Threads -> {"idle", "create", "get", "consume", "wait", "lost"}],
         until' \in [Threads -> Nat],
         References'
  PROVE  IInv'
<1>0. TypeOK /\ Unused /\ Conserved
  BY DEF IInv
<1>1. /\ made' = made /\ entry' = entry /\ tokens' = tokens /\ lastRefill' = lastRefill
      /\ born' = born /\ spent' = spent
  BY DEF map, history
<1>2. \A b \in Buckets : lastRefill'[b] <= now'
  BY <1>0, <1>1 DEF TypeOK
<1>3. TypeOK'
  BY <1>0, <1>1, <1>2 DEF TypeOK
<1>4. Unused' /\ Conserved'
  BY <1>0, <1>1 DEF Unused, Conserved
<1> QED BY <1>3, <1>4 DEF IInv

\* Every step keeps the invariant.
LEMMA StepIInv == IInv /\ [Next]_vars => IInv'
<1> SUFFICES ASSUME IInv, [Next]_vars PROVE IInv'
  OBVIOUS
<1>0. TypeOK /\ References /\ until \in [Threads -> Nat]
  BY DEF IInv
<1>1. CASE UNCHANGED vars
  BY <1>0, <1>1, Untouched DEF vars, map, history, TypeOK, References
<1>2. CASE Tick
  BY <1>0, <1>2, Untouched DEF Tick, map, TypeOK, References
<1>3. ASSUME NEW t \in Threads, Cached(t)
      PROVE  IInv'
  BY <1>0, <1>3, Untouched DEF Cached, Goto, map, TypeOK, References
<1>4. ASSUME NEW t \in Threads, SetRate(t)
      PROVE  IInv'
  BY <1>4, Made
<1>5. ASSUME NEW t \in Threads, GetBucket(t)
      PROVE  IInv'
  <2>1. entry \in 1..made /\ made' = made
    BY <1>0, <1>5 DEF GetBucket, map, TypeOK
  <2>2. References'
    BY <1>0, <1>5, <2>1 DEF GetBucket, Goto, TypeOK, References
  <2>3. bucket' \in [Threads -> 1..made \cup {None}]
    BY <1>0, <1>5, <2>1 DEF GetBucket, TypeOK
  <2> QED BY <1>0, <1>5, <2>2, <2>3, Untouched DEF GetBucket, Goto, TypeOK
<1>6. ASSUME NEW t \in Threads, TryConsume(t)
      PROVE  IInv'
  <2>1. CASE Refill(bucket[t]).tokens >= PerToken
    BY <1>6, <2>1, Granted DEF TryConsume
  <2>2. CASE ~(Refill(bucket[t]).tokens >= PerToken)
    <3>1. /\ pc[t] = "consume" /\ Put(bucket[t], Refill(bucket[t]), 0)
          /\ until' = [until EXCEPT ![t] = now + Wait]
          /\ pc' = [pc EXCEPT ![t] = "wait"] /\ bucket' = bucket
          /\ UNCHANGED <<now, map, history>>
      BY <1>6, <2>2 DEF TryConsume, Goto
    <3>2. until' \in [Threads -> Nat]
      BY <1>0, <3>1, WaitType DEF TypeOK
    <3> QED BY <3>1, <3>2, NotGranted
  <2> QED BY <2>1, <2>2
<1>7. ASSUME NEW t \in Threads, pc[t] = "wait", TryAgain(t)
      PROVE  IInv'
  <2>1. CASE Refill(bucket[t]).tokens >= PerToken
    BY <1>7, <2>1, Granted DEF TryAgain
  <2>2. CASE ~(Refill(bucket[t]).tokens >= PerToken)
    <3>1. /\ Put(bucket[t], Refill(bucket[t]), 0)
          /\ until' = [until EXCEPT ![t] = 0]
          /\ pc' = [pc EXCEPT ![t] = "idle"] /\ bucket' = [bucket EXCEPT ![t] = None]
          /\ UNCHANGED <<now, map, history>>
      BY <1>7, <2>2 DEF TryAgain, Answer, Goto, history
    <3>2. until' \in [Threads -> Nat]
      BY <1>0, <3>1
    <3> QED BY <1>7, <3>1, <3>2, NotGranted
  <2> QED BY <2>1, <2>2
<1>8. ASSUME NEW t \in Threads, UseFreed(t)
      PROVE  IInv'
  <2>1. /\ UNCHANGED <<map, tokens, lastRefill, history>> /\ now' = now
    BY <1>8 DEF UseFreed, Answer, history
  <2>2. /\ until' \in [Threads -> Nat] /\ bucket' \in [Threads -> 1..made \cup {None}]
        /\ pc' \in [Threads -> {"idle", "create", "get", "consume", "wait", "lost"}]
    BY <1>0, <1>8 DEF UseFreed, Answer, Goto, TypeOK
  <2>3. References'
    BY <1>0, <1>8 DEF UseFreed, Answer, Goto, TypeOK, References, map
  <2> QED BY <1>0, <2>1, <2>2, <2>3, Untouched DEF TypeOK
<1> QED BY <1>1, <1>2, <1>3, <1>4, <1>5, <1>6, <1>7, <1>8
        DEF Next, Step, WakeUp, WakeEarly

\* The strengthened invariant always holds.
LEMMA Inductive == Spec => []IInv
<1> QED BY InitIInv, StepIInv, PTL DEF Spec

-------------------------------------------------------------------------------
(* Theorems. *)

\* A bucket never holds more than its burst, whatever threads share it.
THEOREM TypeCorrect == Spec => []TypeOK
<1>1. IInv => TypeOK
  BY DEF IInv
<1> QED BY <1>1, Inductive, PTL

\* A bucket never gives more than its burst and the refill of the time since it was
\* made.
THEOREM Conservation == Spec => []Conserved
<1>1. IInv => Conserved
  BY DEF IInv
<1> QED BY <1>1, Inductive, PTL
-------------------------------------------------------------------------------
(* Sync, for any connections, jobs and remote entities. *)
HIDE LimiterAssumption

CONSTANTS V10, Finance, Jobs, Cron, Ids, Own, Servers, MaxVersion, MaxRows, MaxAttempts, MaxFaults

VARIABLES remote, enabled, rows, maps, log, adapters, inProgress, jobPc, manual, plan, attempt,
          fetched, item, local, errors, faults, cut

Sync == INSTANCE Sync WITH pc <- jobPc

Tasks == Sync!Conns \X Sync!Entities
Copied == [of: Sync!Items \cup {None}, version: 0..MaxVersion, stock: Sync!Items \cup {None}]
Versions == Sync!Items \X (0..MaxVersion)
Mapping == [type: Sync!Kinds \cup {"subscription"}, local: Nat \ {0},
            system: {"zjmf_v10", "zjmf_finance"}, id: Ids \cup {1}]

SyncTables ==
    /\ remote \in [Sync!Items -> 0..MaxVersion] /\ enabled \subseteq Sync!Conns
    /\ rows \in [Sync!Kinds -> Seq(Copied)]
    /\ maps \subseteq Mapping
    /\ log \in [Sync!Conns -> {"none", "success", "failed"}]
    /\ faults \in 0..MaxFaults /\ cut \in [Sync!Items -> Nat]
SyncShared == adapters \subseteq Sync!Conns /\ inProgress \subseteq Tasks

\* No clean up is left to do.
JobPcs == {"idle", "adapter", "check", "mark", "fetch", "item", "write", "map", "clear"}
SyncJobs ==
    /\ jobPc \in [Jobs -> JobPcs]
    /\ manual \in [Jobs -> BOOLEAN] /\ plan \in [Jobs -> Seq(Tasks)]
    /\ attempt \in [Jobs -> 0..MaxAttempts] /\ errors \in [Jobs -> Nat]
    /\ fetched \in [Jobs -> SUBSET Versions] /\ item \in [Jobs -> Versions \cup {None}]
    /\ local \in [Jobs -> Nat]

\* Where a job is, what it has read and of which connection and entity.
Busy == {"item", "write", "map"}
JobAt(j) ==
    /\ jobPc[j] # "idle" <=> plan[j] # << >>
    /\ item[j] # None <=> jobPc[j] \in {"write", "map"}
    /\ jobPc[j] \notin Busy => fetched[j] = {}
    /\ jobPc[j] \in Busy => Sync!Entity(j) \in Sync!EntitiesOf(Sync!Conn(j))
    /\ jobPc[j] \in {"write", "map"} =>
          /\ Sync!Entity(j) # "inventory"
          /\ item[j][1][1] = Sync!Conn(j) /\ item[j][1][2] = Sync!Entity(j)
    /\ \A x \in fetched[j] :
          /\ x[1][1] = Sync!Conn(j)
          /\ Sync!Entity(j) # "inventory" => x[1][2] = Sync!Entity(j)
    /\ jobPc[j] = "map" => local[j] # 0

SyncTypes == SyncTables /\ SyncShared /\ SyncJobs /\ \A j \in Jobs : JobAt(j)

\* A job touches nothing of the others.
OwnJob(j) ==
    /\ \A k \in Jobs \ {j} :
          /\ jobPc'[k] = jobPc[k] /\ manual'[k] = manual[k] /\ plan'[k] = plan[k]
          /\ attempt'[k] = attempt[k] /\ fetched'[k] = fetched[k] /\ item'[k] = item[k]
          /\ local'[k] = local[k] /\ errors'[k] = errors[k]

LEMMA SyncConstant ==
    ASSUME Sync!SyncAssumption
    PROVE  /\ V10 \cap Finance = {} /\ Sync!Conns \subseteq Nat \ {0} /\ Ids \subseteq Nat \ {0}
           /\ Cron \in Jobs /\ Own \in Nat /\ Servers \subseteq Nat \ {0}
           /\ MaxVersion \in Nat /\ MaxRows \in Nat /\ MaxFaults \in Nat /\ MaxAttempts \in Nat \ {0}
           /\ None \notin Sync!Items /\ None \notin Versions /\ Sync!Conns = V10 \cup Finance
           /\ Sync!Kinds = {"product", "client", "invoice"}
           /\ Sync!Entities = {"product", "client", "invoice", "inventory"}
           /\ \A c \in Sync!Conns : /\ Sync!System(c) \in {"zjmf_v10", "zjmf_finance"}
                                    /\ Sync!EntitiesOf(c) \subseteq Sync!Entities
           /\ \A x \in Sync!Items : /\ x = <<x[1], x[2], x[3]>> /\ x[1] \in Sync!Conns
                                    /\ x[2] \in Sync!Kinds /\ x[3] \in Ids
BY DEF Sync!SyncAssumption, Sync!Conns, Sync!Kinds, Sync!Entities, Sync!System, Sync!EntitiesOf,
       Sync!Items, Versions

LEMMA SameJob ==
    ASSUME NEW j \in Jobs, JobAt(j),
           jobPc'[j] = jobPc[j], plan'[j] = plan[j], fetched'[j] = fetched[j], item'[j] = item[j],
           local'[j] = local[j]
    PROVE  JobAt(j)'
BY DEF JobAt, Sync!Entity, Sync!Conn, Sync!Task

LEMMA InitSync ==
    ASSUME Sync!SyncAssumption, Sync!Init PROVE SyncTypes
<1>. USE SyncConstant DEF Sync!Init
<1>1. SyncTables
  <2>1. rows \in [Sync!Kinds -> Seq(Copied)]
    <3>1. [n \in 1..Own |-> Sync!Blank] \in [1..Own -> Copied] /\ Own \in Nat
      BY DEF Sync!Blank, Copied
    <3>2. [n \in 1..Own |-> Sync!Blank] \in Seq(Copied)
      <4>. PICK f : f = [n \in 1..Own |-> Sync!Blank]
        OBVIOUS
      <4>. QED BY <3>1, SeqDef
    <3>3. << >> \in Seq(Copied)
      BY EmptySeq
    <3>. QED BY <3>2, <3>3
  <2>2. /\ remote \in [Sync!Items -> 0..MaxVersion] /\ enabled \subseteq Sync!Conns
        /\ maps \subseteq Mapping /\ log \in [Sync!Conns -> {"none", "success", "failed"}]
    OBVIOUS
  <2>3. faults \in 0..MaxFaults /\ cut \in [Sync!Items -> Nat]
    OBVIOUS
  <2>. QED BY <2>1, <2>2, <2>3 DEF SyncTables
<1>2. SyncShared /\ SyncJobs
  BY DEF SyncShared, SyncJobs, JobPcs
<1>3. \A j \in Jobs : JobAt(j)
  BY DEF JobAt, Busy
<1>. QED BY <1>1, <1>2, <1>3 DEF SyncTypes

-------------------------------------------------------------------------------
\* What a statement of one job keeps.
JobStep(j) == SyncTables' /\ SyncShared' /\ SyncJobs' /\ JobAt(j)' /\ OwnJob(j)

LEMMA BeginTypes ==
    ASSUME SyncTypes, NEW j \in Jobs, NEW tasks \in Seq(Tasks), NEW one \in BOOLEAN,
           Sync!Begin(j, tasks, one)
    PROVE  JobStep(j)
<1>1. /\ jobPc[j] = "idle" /\ tasks # << >> /\ plan' = [plan EXCEPT ![j] = tasks]
      /\ manual' = [manual EXCEPT ![j] = one] /\ jobPc' = [jobPc EXCEPT ![j] = "adapter"]
      /\ UNCHANGED <<remote, enabled, rows, maps, log, adapters, inProgress, attempt, fetched,
                     item, local, errors, faults, cut>>
  BY DEF Sync!Begin, Sync!Goto, Sync!tables, Sync!shared, Sync!loop, Sync!NoFault
<1>2. SyncTables' /\ SyncShared'
  BY <1>1 DEF SyncTypes, SyncTables, SyncShared
<1>3. SyncJobs' /\ OwnJob(j)
  BY <1>1 DEF SyncTypes, SyncJobs, OwnJob, JobPcs
<1>4. fetched'[j] = {} /\ jobPc'[j] = "adapter" /\ plan'[j] = tasks /\ item'[j] = None
  BY <1>1 DEF SyncTypes, SyncJobs, JobAt, Busy
<1>. QED BY <1>1, <1>2, <1>3, <1>4 DEF JobAt, Busy, JobStep

LEMMA OnwardTypes ==
    ASSUME Sync!SyncAssumption, SyncTypes, NEW j \in Jobs, NEW rest \in Seq(Tasks), Sync!Onward(j, rest)
    PROVE  SyncJobs' /\ JobAt(j)' /\ OwnJob(j)
<1>1. /\ plan' = [plan EXCEPT ![j] = rest]
      /\ jobPc' = [jobPc EXCEPT ![j] = IF rest = << >> THEN "idle" ELSE "adapter"]
      /\ manual' = (IF rest = << >> THEN [manual EXCEPT ![j] = FALSE] ELSE manual)
      /\ attempt' = [attempt EXCEPT ![j] = 0] /\ errors' = [errors EXCEPT ![j] = 0]
      /\ fetched' = [fetched EXCEPT ![j] = {}]
      /\ item' = [item EXCEPT ![j] = None] /\ local' = [local EXCEPT ![j] = 0]
  BY DEF Sync!Onward, Sync!Goto
<1>2. 0 \in 0..MaxAttempts
  BY SyncConstant
<1>3. SyncJobs'
  BY <1>1, <1>2 DEF SyncTypes, SyncJobs, JobPcs
<1>4. OwnJob(j)
  BY <1>1 DEF SyncTypes, SyncJobs, OwnJob
<1>5. /\ fetched'[j] = {} /\ jobPc'[j] = (IF rest = << >> THEN "idle" ELSE "adapter")
      /\ plan'[j] = rest /\ item'[j] = None
  BY <1>1 DEF SyncTypes, SyncJobs
<1>. QED BY <1>3, <1>4, <1>5 DEF JobAt, Busy

\* A timer's tasks, and a request's.
LEMMA PlanTypes ==
    ASSUME NEW S \in SUBSET Sync!Conns, Sync!SyncAssumption, NEW s \in Sync!Sorted(S)
    PROVE  /\ \A what \in Sync!Entities : [n \in DOMAIN s |-> <<s[n], what>>] \in Seq(Tasks)
           /\ [n \in 1..(2 * Len(s)) |->
                 <<s[(n + 1) \div 2], IF n % 2 = 1 THEN "client" ELSE "invoice">>] \in Seq(Tasks)
<1>1. Cardinality(S) \in Nat
  <2>1. IsFiniteSet(Sync!Conns)
    BY DEF Sync!SyncAssumption, Sync!IsFiniteSet, IsFiniteSet
  <2>. QED BY <2>1, FS_Subset, FS_CardinalityType
<1>2. Sync!Cardinality(S) = Cardinality(S)
  BY DEF Sync!Cardinality, Cardinality
<1>. PICK m \in Nat : m = Cardinality(S)
  BY <1>1
<1>3. s \in [1..m -> S] /\ DOMAIN s = 1..m /\ s \in Seq(S)
  BY <1>2, SeqDef DEF Sync!Sorted
<1>4. Len(s) = m
  BY <1>3, LenProperties
<1>5. ASSUME NEW what \in Sync!Entities PROVE [n \in DOMAIN s |-> <<s[n], what>>] \in Seq(Tasks)
  <2>1. [n \in 1..m |-> <<s[n], what>>] \in [1..m -> Tasks]
    BY <1>3 DEF Tasks
  <2>. QED BY <1>3, <2>1, SeqDef
<1>. DEFINE f == [n \in 1..(2 * m) |-> <<s[(n + 1) \div 2], IF n % 2 = 1 THEN "client" ELSE "invoice">>]
<1>6. f \in Seq(Tasks)
  <2>1. ASSUME NEW n \in 1..(2 * m) PROVE f[n] \in Tasks
    <3>1. (n + 1) \div 2 \in 1..m
      OBVIOUS
    <3>2. s[(n + 1) \div 2] \in Sync!Conns
      BY <1>3, <3>1
    <3>. QED BY <3>2, SyncConstant DEF Tasks
  <2>2. f \in [1..(2 * m) -> Tasks] /\ 2 * m \in Nat
    BY <2>1
  <2>. HIDE DEF f
  <2>. QED BY <2>2, SeqDef
<1>. QED BY <1>4, <1>5, <1>6

LEMMA StartTypes ==
    ASSUME Sync!SyncAssumption, SyncTypes, NEW j \in Jobs,
           Sync!RunProductSync(j) \/ Sync!RunInventorySync(j) \/ Sync!RunClientSync(j) \/ Sync!Trigger(j)
    PROVE  JobStep(j) /\ UNCHANGED <<inProgress, rows, maps, cut, remote>> /\ jobPc[j] = "idle"
<1>1. V10 \cap enabled \in SUBSET Sync!Conns /\ Finance \cap enabled \in SUBSET Sync!Conns
  BY DEF SyncTypes, SyncTables
<1>2. ASSUME NEW tasks \in Seq(Tasks), NEW one \in BOOLEAN, Sync!Begin(j, tasks, one)
      PROVE  JobStep(j) /\ UNCHANGED <<inProgress, rows, maps, cut, remote>> /\ jobPc[j] = "idle"
  BY <1>2, BeginTypes DEF Sync!Begin, Sync!shared, Sync!tables, Sync!NoFault
<1>3. ASSUME NEW S \in SUBSET Sync!Conns, NEW what \in Sync!Entities, Sync!RunFor(S, what, j)
      PROVE  \E tasks \in Seq(Tasks), one \in BOOLEAN : Sync!Begin(j, tasks, one)
  BY <1>3, PlanTypes DEF Sync!RunFor
<1>4. CASE Sync!RunProductSync(j)
  BY <1>1, <1>2, <1>3, <1>4, SyncConstant DEF Sync!RunProductSync
<1>5. CASE Sync!RunInventorySync(j)
  BY <1>1, <1>2, <1>3, <1>5, SyncConstant DEF Sync!RunInventorySync
<1>6. CASE Sync!RunClientSync(j)
  BY <1>1, <1>2, <1>6, PlanTypes DEF Sync!RunClientSync
<1>7. CASE Sync!Trigger(j)
  <2>1. PICK c \in Sync!Conns, what \in {"product", "inventory"} : Sync!Begin(j, << <<c, what>> >>, TRUE)
    BY <1>7 DEF Sync!Trigger
  <2>2. << <<c, what>> >> \in Seq(Tasks)
    BY <2>1, SyncConstant DEF Tasks
  <2>. QED BY <1>2, <2>1, <2>2
<1>. QED BY <1>4, <1>5, <1>6, <1>7

LEMMA TaskTypes ==
    ASSUME SyncTypes, NEW j \in Jobs, jobPc[j] # "idle"
    PROVE  /\ Sync!Task(j) \in Tasks /\ Sync!Conn(j) \in Sync!Conns /\ Sync!Entity(j) \in Sync!Entities
           /\ plan[j] \in Seq(Tasks) /\ Tail(plan[j]) \in Seq(Tasks)
<1>1. plan[j] \in Seq(Tasks) /\ plan[j] # << >>
  BY DEF SyncTypes, SyncJobs, JobAt
<1>2. Head(plan[j]) \in Tasks /\ Tail(plan[j]) \in Seq(Tasks)
  BY <1>1, HeadTailProperties
<1>. QED BY <1>1, <1>2 DEF Sync!Task, Sync!Conn, Sync!Entity, Tasks

\* Between two tasks, and before and after the items of one.
LEMMA TaskStep ==
    ASSUME Sync!SyncAssumption, SyncTypes, NEW j \in Jobs,
           \/ Sync!GetAdapter(j) \/ Sync!NoAdapter(j) \/ Sync!Check(j) \/ Sync!Mark(j)
           \/ Sync!NothingToSync(j) \/ Sync!Fetch(j) \/ Sync!FetchFails(j) \/ Sync!Clear(j)
           \/ Sync!Finish(j)
    PROVE  JobStep(j) /\ UNCHANGED <<rows, maps, cut, remote>>
<1>0. /\ SyncTables /\ SyncShared /\ SyncJobs /\ JobAt(j) /\ jobPc[j] # "idle"
      /\ MaxVersion \in Nat /\ MaxFaults \in Nat /\ MaxAttempts \in Nat \ {0}
  BY SyncConstant DEF SyncTypes, Sync!GetAdapter, Sync!NoAdapter, Sync!Check, Sync!Mark, Sync!NothingToSync,
                      Sync!Fetch, Sync!FetchFails, Sync!Clear, Sync!Finish
<1>1. /\ Sync!Task(j) \in Tasks /\ Sync!Conn(j) \in Sync!Conns /\ Sync!Entity(j) \in Sync!Entities
      /\ plan[j] \in Seq(Tasks) /\ Tail(plan[j]) \in Seq(Tasks) /\ plan[j] # << >>
  BY <1>0, TaskTypes DEF JobAt
<1>2. ASSUME UNCHANGED <<remote, rows, maps, cut>>, enabled' = enabled,
             log' = log \/ \E x \in {"success", "failed"} : log' = [log EXCEPT ![Sync!Conn(j)] = x],
             faults' = faults \/ Sync!MayFail
      PROVE  SyncTables'
  <2>1. faults' \in 0..MaxFaults
    BY <1>0, <1>2 DEF SyncTables, Sync!MayFail
  <2>2. log' \in [Sync!Conns -> {"none", "success", "failed"}]
    BY <1>0, <1>1, <1>2 DEF SyncTables
  <2>. QED BY <1>0, <1>2, <2>1, <2>2 DEF SyncTables
<1>3. ASSUME UNCHANGED <<plan, manual, fetched, item, local, errors>>,
             NEW to \in {"check", "mark", "fetch", "clear"}, NEW a \in 0..MaxAttempts,
             jobPc[j] \in JobPcs \ (Busy \cup {"idle"}),
             jobPc' = [jobPc EXCEPT ![j] = to], attempt' = [attempt EXCEPT ![j] = a] \/ attempt' = attempt
      PROVE  SyncJobs' /\ JobAt(j)' /\ OwnJob(j)
  <2>1. SyncJobs'
    BY <1>0, <1>3 DEF SyncJobs, JobPcs
  <2>2. OwnJob(j)
    BY <1>0, <1>3 DEF SyncJobs, OwnJob
  <2>3. jobPc'[j] = to /\ plan'[j] = plan[j] /\ fetched'[j] = {} /\ item'[j] = None
    BY <1>0, <1>3 DEF SyncJobs, JobAt, Busy
  <2>. QED BY <1>0, <2>1, <2>2, <2>3 DEF JobAt, Busy
<1>. USE DEF Sync!tables, Sync!shared, Sync!loop, Sync!NoFault, Sync!Goto
<1>4. CASE Sync!GetAdapter(j)
  <2>1. SyncTables' /\ SyncShared'
    BY <1>0, <1>1, <1>2, <1>4 DEF Sync!GetAdapter, SyncShared
  <2>2. PICK to \in {"check", "mark"} : jobPc' = [jobPc EXCEPT ![j] = to]
    BY <1>4 DEF Sync!GetAdapter
  <2>3. SyncJobs' /\ JobAt(j)' /\ OwnJob(j)
    <3>1. attempt' = attempt /\ jobPc[j] = "adapter" /\ UNCHANGED <<plan, manual, fetched, item, local, errors>>
      BY <1>4 DEF Sync!GetAdapter
    <3>2. 0 \in 0..MaxAttempts /\ jobPc[j] \in JobPcs \ (Busy \cup {"idle"})
      BY <1>0, <3>1 DEF JobPcs, Busy
    <3>. QED BY <1>3, <2>2, <3>1, <3>2
  <2>. QED BY <1>4, <2>1, <2>3 DEF JobStep, Sync!GetAdapter
<1>5. CASE Sync!NoAdapter(j)
  <2>1. PICK rest \in Seq(Tasks) : Sync!Onward(j, rest)
    <3>1. PICK n \in 1..Len(plan[j]) : Sync!Onward(j, SubSeq(plan[j], n + 1, Len(plan[j])))
      BY <1>5 DEF Sync!NoAdapter, Sync!Onward
    <3>. PICK p \in Seq(Tasks) : p = plan[j]
      BY <1>1
    <3>2. SubSeq(p, n + 1, Len(p)) \in Seq(Tasks)
      BY SubSeqProperties, LenProperties, ElementOfSeq
    <3>. QED BY <3>1, <3>2
  <2>2. SyncTables' /\ SyncShared'
    BY <1>0, <1>2, <1>5 DEF Sync!NoAdapter, SyncShared
  <2>. QED BY <1>5, <2>1, <2>2, OnwardTypes DEF JobStep, Sync!NoAdapter
<1>6. CASE Sync!Check(j)
  <2>2. SyncTables' /\ SyncShared'
    BY <1>0, <1>2, <1>6 DEF Sync!Check, SyncShared
  <2>3. CASE Sync!Task(j) \in inProgress
    <3>1. PICK rest \in Seq(Tasks) : Sync!Onward(j, rest)
      BY <1>1, <1>6, <2>3 DEF Sync!Check, Sync!Onward
    <3>. QED BY <1>6, <2>2, <3>1, OnwardTypes DEF JobStep, Sync!Check
  <2>4. CASE Sync!Task(j) \notin inProgress
    <3>1. /\ jobPc' = [jobPc EXCEPT ![j] = "mark"] /\ attempt' = attempt /\ jobPc[j] = "check"
          /\ UNCHANGED <<plan, manual, fetched, item, local, errors>>
      BY <1>6, <2>4 DEF Sync!Check
    <3>2. 0 \in 0..MaxAttempts /\ jobPc[j] \in JobPcs \ (Busy \cup {"idle"})
      BY <1>0, <3>1 DEF JobPcs, Busy
    <3>. QED BY <1>3, <1>6, <2>2, <3>1, <3>2 DEF JobStep, Sync!Check
  <2>. QED BY <2>3, <2>4
<1>7. CASE Sync!Mark(j)
  <2>1. SyncTables' /\ SyncShared'
    BY <1>0, <1>1, <1>2, <1>7 DEF Sync!Mark, SyncShared
  <2>2. /\ jobPc' = [jobPc EXCEPT ![j] = "fetch"] /\ attempt' = [attempt EXCEPT ![j] = 1]
        /\ jobPc[j] = "mark" /\ UNCHANGED <<plan, manual, fetched, item, local, errors>>
    BY <1>7 DEF Sync!Mark
  <2>3. 1 \in 0..MaxAttempts /\ jobPc[j] \in JobPcs \ (Busy \cup {"idle"})
    BY <1>0, <2>2 DEF JobPcs, Busy
  <2>4. SyncJobs' /\ JobAt(j)' /\ OwnJob(j)
    BY <1>3, <2>2, <2>3
  <2>. QED BY <1>7, <2>1, <2>4 DEF JobStep, Sync!Mark
<1>8. CASE Sync!NothingToSync(j)
  <2>1. SyncTables' /\ SyncShared'
    BY <1>0, <1>1, <1>2, <1>8 DEF Sync!NothingToSync, SyncShared
  <2>2. /\ jobPc' = [jobPc EXCEPT ![j] = "clear"] /\ attempt' = attempt
        /\ jobPc[j] = "fetch" /\ UNCHANGED <<plan, manual, fetched, item, local, errors>>
    BY <1>8 DEF Sync!NothingToSync
  <2>3. 0 \in 0..MaxAttempts /\ jobPc[j] \in JobPcs \ (Busy \cup {"idle"})
    BY <1>0, <2>2 DEF JobPcs, Busy
  <2>4. SyncJobs' /\ JobAt(j)' /\ OwnJob(j)
    BY <1>3, <2>2, <2>3
  <2>. QED BY <1>8, <2>1, <2>4 DEF JobStep, Sync!NothingToSync
<1>9. CASE Sync!Fetch(j)
  <2>1. SyncTables' /\ SyncShared'
    BY <1>0, <1>1, <1>2, <1>9 DEF Sync!Fetch, SyncShared
  <2>. DEFINE c == Sync!Conn(j)
              what == Sync!Entity(j)
              k == IF what = "inventory" THEN "product" ELSE what
  <2>2. /\ fetched' = [fetched EXCEPT ![j] = Sync!Listed(c, what)] /\ errors' = [errors EXCEPT ![j] = 0]
        /\ jobPc' = [jobPc EXCEPT ![j] = "item"] /\ jobPc[j] = "fetch"
        /\ what \in Sync!EntitiesOf(c) /\ UNCHANGED <<plan, manual, attempt, item, local>>
    BY <1>9 DEF Sync!Fetch
  <2>3. \A i \in Ids : <<c, k, i>> \in Sync!Items
    BY <1>1, <2>2, SyncConstant DEF Sync!Items, Sync!EntitiesOf
  <2>4. /\ Sync!Listed(c, what) \subseteq Versions
        /\ \A x \in Sync!Listed(c, what) : x[1][1] = c /\ x[1][2] = k
    <3>1. ASSUME NEW y \in {c} \X {k} \X Ids PROVE y \in Sync!Items /\ y[1] = c /\ y[2] = k
      BY <2>3
    <3>2. ASSUME NEW y \in Sync!Items PROVE remote[y] \in 0..MaxVersion
      BY <1>0 DEF SyncTables
    <3>3. Sync!Listed(c, what) = {<<x, remote[x]>> : x \in {y \in {c} \X {k} \X Ids : remote[y] > 0}}
      BY DEF Sync!Listed
    <3>. HIDE DEF c, k, what
    <3>. QED BY <3>1, <3>2, <3>3 DEF Versions
  <2>. HIDE DEF c, what, k
  <2>5. SyncJobs'
    BY <1>0, <2>2, <2>4 DEF SyncJobs, JobPcs
  <2>6. OwnJob(j)
    BY <1>0, <2>2 DEF SyncJobs, OwnJob
  <2>7. /\ jobPc'[j] = "item" /\ plan'[j] = plan[j] /\ fetched'[j] = Sync!Listed(c, what) /\ item'[j] = None
    BY <1>0, <2>2 DEF SyncJobs, JobAt
  <2>8. /\ Sync!Entity(j)' = Sync!Entity(j) /\ Sync!Conn(j)' = Sync!Conn(j)
    BY <2>7 DEF Sync!Entity, Sync!Conn, Sync!Task
  <2>9. JobAt(j)'
    BY <1>0, <2>2, <2>4, <2>7, <2>8 DEF JobAt, Busy, k, c, what
  <2>. QED BY <1>9, <2>1, <2>5, <2>6, <2>9 DEF JobStep, Sync!Fetch
<1>10. CASE Sync!FetchFails(j)
  <2>1. SyncTables' /\ SyncShared'
    <3>1. log' \in {log, [log EXCEPT ![Sync!Conn(j)] = "failed"]} /\ Sync!MayFail
      BY <1>10 DEF Sync!FetchFails
    <3>. QED BY <1>0, <1>2, <1>10, <3>1 DEF Sync!FetchFails, SyncShared
  <2>2. /\ jobPc[j] = "fetch" /\ UNCHANGED <<plan, manual, fetched, item, local, errors>>
        /\ Sync!Retry(j)
    BY <1>10 DEF Sync!FetchFails
  <2>3. 0 \in 0..MaxAttempts /\ jobPc[j] \in JobPcs \ (Busy \cup {"idle"})
    BY <1>0, <2>2 DEF JobPcs, Busy
  <2>4. CASE attempt[j] >= MaxAttempts
    BY <1>3, <1>10, <2>1, <2>2, <2>3, <2>4 DEF JobStep, Sync!FetchFails, Sync!Retry
  <2>5. CASE ~(attempt[j] >= MaxAttempts)
    <3>1. jobPc' = jobPc /\ attempt' = [attempt EXCEPT ![j] = attempt[j] + 1] /\ attempt[j] + 1 \in 0..MaxAttempts
      BY <1>0, <2>2, <2>5 DEF Sync!Retry, SyncJobs
    <3>2. jobPc' = [jobPc EXCEPT ![j] = "fetch"]
      BY <1>0, <2>2, <3>1 DEF SyncJobs
    <3>. PICK a \in 0..MaxAttempts : a = attempt[j] + 1
      BY <3>1
    <3>3. SyncJobs' /\ JobAt(j)' /\ OwnJob(j)
      BY <1>3, <2>2, <2>3, <3>1, <3>2
    <3>. QED BY <1>10, <2>1, <3>3 DEF JobStep, Sync!FetchFails
  <2>. QED BY <2>4, <2>5
<1>11. CASE Sync!Clear(j)
  <2>1. PICK rest \in Seq(Tasks) : Sync!Onward(j, rest)
    BY <1>1, <1>11 DEF Sync!Clear, Sync!Onward
  <2>2. SyncTables' /\ SyncShared'
    BY <1>0, <1>2, <1>11 DEF Sync!Clear, SyncShared
  <2>. QED BY <1>11, <2>1, <2>2, OnwardTypes DEF JobStep, Sync!Clear
<1>12. CASE Sync!Finish(j)
  <2>1. SyncTables' /\ SyncShared'
    BY <1>0, <1>2, <1>12 DEF Sync!Finish, SyncShared
  <2>2. /\ jobPc' = [jobPc EXCEPT ![j] = "clear"] /\ jobPc[j] = "item" /\ fetched[j] = {}
        /\ UNCHANGED <<plan, manual, attempt, fetched, item, local, errors>>
    BY <1>12 DEF Sync!Finish
  <2>3. SyncJobs' /\ OwnJob(j)
    BY <1>0, <2>2 DEF SyncJobs, JobPcs, OwnJob
  <2>4. jobPc'[j] = "clear" /\ plan'[j] = plan[j] /\ fetched'[j] = {} /\ item'[j] = None
    BY <1>0, <2>2 DEF SyncJobs, JobAt
  <2>. QED BY <1>0, <1>12, <2>1, <2>2, <2>3, <2>4 DEF JobAt, Busy, JobStep, Sync!Finish
<1>. QED BY <1>4, <1>5, <1>6, <1>7, <1>8, <1>9, <1>10, <1>11, <1>12

\* What the job is at, while it copies items.
LEMMA ItemTypes ==
    ASSUME Sync!SyncAssumption, SyncTypes, NEW j \in Jobs, jobPc[j] \in {"write", "map"}
    PROVE  /\ item[j] \in Versions /\ item[j] = <<item[j][1], item[j][2]>>
           /\ item[j][1] \in Sync!Items /\ item[j][2] \in 0..MaxVersion
           /\ Sync!Entity(j) \in Sync!Kinds /\ rows[Sync!Entity(j)] \in Seq(Copied)
           /\ item[j][1] = <<Sync!Conn(j), Sync!Entity(j), item[j][1][3]>> /\ item[j][1][3] \in Ids
<1>1. JobAt(j) /\ item[j] \in Versions
  BY DEF SyncTypes, SyncJobs, JobAt
<1>2. Sync!Entity(j) \in Sync!Kinds
  BY <1>1, TaskTypes, SyncConstant DEF JobAt
<1>. QED BY <1>1, <1>2, SyncConstant DEF Versions, JobAt, SyncTypes, SyncTables

\* A row written over, and one row more.
LEMMA RowsTypes ==
    ASSUME SyncTypes, NEW k \in Sync!Kinds, NEW r \in Copied
    PROVE  /\ \A n \in DOMAIN rows[k] : [rows EXCEPT ![k][n] = r] \in [Sync!Kinds -> Seq(Copied)]
           /\ [rows EXCEPT ![k] = Append(@, r)] \in [Sync!Kinds -> Seq(Copied)]
           /\ Len(rows[k]) \in Nat /\ DOMAIN rows[k] = 1..Len(rows[k])
<1>. PICK s \in Seq(Copied) : s = rows[k]
  BY DEF SyncTypes, SyncTables
<1>1. rows \in [Sync!Kinds -> Seq(Copied)]
  BY DEF SyncTypes, SyncTables
<1>2. Append(s, r) \in Seq(Copied)
  BY AppendProperties
<1>3. Len(s) \in Nat /\ DOMAIN s = 1..Len(s)
  BY LenProperties
<1>4. \A n \in DOMAIN s : [s EXCEPT ![n] = r] \in Seq(Copied)
  BY <1>3, ExceptSeq
<1>. QED BY <1>1, <1>2, <1>3, <1>4

LEMMA NextItemTypes ==
    ASSUME SyncTypes, NEW j \in Jobs, NEW bad \in BOOLEAN, Sync!NextItem(j, bad),
           UNCHANGED <<manual, plan, attempt, fetched>>, jobPc[j] \in {"write", "map"}
    PROVE  SyncJobs' /\ JobAt(j)' /\ OwnJob(j)
<1>0. SyncJobs /\ JobAt(j)
  BY DEF SyncTypes
<1>1. /\ jobPc' = [jobPc EXCEPT ![j] = "item"] /\ item' = [item EXCEPT ![j] = None]
      /\ local' = [local EXCEPT ![j] = 0]
      /\ errors' = [errors EXCEPT ![j] = IF bad THEN @ + 1 ELSE @]
  BY DEF Sync!NextItem, Sync!Goto
<1>2. SyncJobs'
  BY <1>0, <1>1 DEF SyncJobs, JobPcs
<1>3. OwnJob(j)
  BY <1>0, <1>1 DEF SyncJobs, OwnJob
<1>4. /\ jobPc'[j] = "item" /\ plan'[j] = plan[j] /\ fetched'[j] = fetched[j] /\ item'[j] = None
  BY <1>0, <1>1 DEF SyncJobs
<1>5. Sync!Entity(j)' = Sync!Entity(j) /\ Sync!Conn(j)' = Sync!Conn(j)
  BY <1>4 DEF Sync!Entity, Sync!Conn, Sync!Task
<1>6. JobAt(j)'
  BY <1>0, <1>4, <1>5 DEF JobAt, Busy
<1>. QED BY <1>2, <1>3, <1>6

LEMMA ItemStep ==
    ASSUME Sync!SyncAssumption, SyncTypes, NEW j \in Jobs,
           \/ Sync!Lookup(j) \/ Sync!WriteFound(j) \/ Sync!WriteNew(j) \/ Sync!WriteInvoice(j)
           \/ Sync!MapIt(j) \/ Sync!ItemFails(j) \/ Sync!Stock(j) \/ Sync!StockFails(j)
    PROVE  JobStep(j) /\ UNCHANGED <<inProgress, remote>> /\ Sync!Task(j)' = Sync!Task(j)
<1>0. SyncTables /\ SyncShared /\ SyncJobs /\ JobAt(j) /\ MaxFaults \in Nat /\ MaxVersion \in Nat
  BY SyncConstant DEF SyncTypes
<1>. USE DEF Sync!tables, Sync!shared, Sync!loop, Sync!NoFault, Sync!Goto
<1>1. CASE Sync!Lookup(j)
  <2>1. PICK x \in fetched[j] :
          /\ fetched' = [fetched EXCEPT ![j] = @ \ {x}] /\ item' = [item EXCEPT ![j] = x]
          /\ LET found == Sync!Mapped(Sync!Entity(j), Sync!Conn(j), x[1][3]) IN
             local' = [local EXCEPT ![j] =
                           IF found = {} THEN 0 ELSE (CHOOSE m \in found : TRUE).local]
    BY <1>1 DEF Sync!Lookup
  <2>2. /\ jobPc' = [jobPc EXCEPT ![j] = "write"] /\ jobPc[j] = "item" /\ Sync!Entity(j) # "inventory"
        /\ UNCHANGED <<remote, enabled, rows, maps, log, adapters, inProgress, manual, plan, attempt,
                       errors, faults, cut>>
    BY <1>1 DEF Sync!Lookup
  <2>. DEFINE found == Sync!Mapped(Sync!Entity(j), Sync!Conn(j), x[1][3])
              n == IF found = {} THEN 0 ELSE (CHOOSE m \in found : TRUE).local
  <2>3. n \in Nat
    BY <1>0 DEF SyncTables, Mapping, Sync!Mapped
  <2>. HIDE DEF found, n
  <2>4. local' = [local EXCEPT ![j] = n]
    BY <2>1 DEF n, found
  <2>5. x \in Versions /\ x # None
    BY <1>0, SyncConstant DEF SyncJobs
  <2>6. SyncTables' /\ SyncShared'
    BY <1>0, <2>2 DEF SyncTables, SyncShared
  <2>7. SyncJobs'
    BY <1>0, <2>1, <2>2, <2>3, <2>4, <2>5 DEF SyncJobs, JobPcs
  <2>8. OwnJob(j)
    BY <1>0, <2>1, <2>2, <2>4 DEF SyncJobs, OwnJob
  <2>9. /\ jobPc'[j] = "write" /\ plan'[j] = plan[j] /\ fetched'[j] = fetched[j] \ {x} /\ item'[j] = x
    BY <1>0, <2>1, <2>2 DEF SyncJobs
  <2>10. /\ Sync!Entity(j)' = Sync!Entity(j) /\ Sync!Conn(j)' = Sync!Conn(j)
         /\ Sync!Task(j)' = Sync!Task(j)
    BY <2>9 DEF Sync!Entity, Sync!Conn, Sync!Task
  <2>11. JobAt(j)'
    BY <1>0, <2>2, <2>5, <2>9, <2>10 DEF JobAt, Busy
  <2>. QED BY <2>2, <2>6, <2>7, <2>8, <2>10, <2>11 DEF JobStep
<1>2. CASE Sync!WriteFound(j)
  <2>1. /\ jobPc' = [jobPc EXCEPT ![j] = "map"] /\ jobPc[j] = "write" /\ local[j] # 0
        /\ UNCHANGED <<remote, enabled, maps, log, adapters, inProgress, manual, plan, attempt,
                       fetched, item, local, errors, faults, cut>>
        /\ Sync!Update(Sync!Entity(j), local[j], item[j][1], item[j][2])
    BY <1>2 DEF Sync!WriteFound
  <2>2. rows' \in [Sync!Kinds -> Seq(Copied)]
    <3>. DEFINE k == Sync!Entity(j)
                r == [of |-> item[j][1], version |-> item[j][2], stock |-> None]
    <3>1. k \in Sync!Kinds /\ r \in Copied
      BY <2>1, ItemTypes DEF Copied
    <3>2. rows' = IF local[j] \in DOMAIN rows[k] THEN [rows EXCEPT ![k][local[j]] = r] ELSE rows
      BY <2>1 DEF Sync!Update
    <3>. HIDE DEF k, r
    <3>3. \A n \in DOMAIN rows[k] : [rows EXCEPT ![k][n] = r] \in [Sync!Kinds -> Seq(Copied)]
      BY <3>1, RowsTypes
    <3>. QED BY <1>0, <3>2, <3>3 DEF SyncTables
  <2>3. SyncTables' /\ SyncShared'
    BY <1>0, <2>1, <2>2 DEF SyncTables, SyncShared
  <2>4. SyncJobs' /\ OwnJob(j)
    BY <1>0, <2>1 DEF SyncJobs, OwnJob, JobPcs
  <2>5. jobPc'[j] = "map" /\ Sync!Task(j)' = Sync!Task(j) /\ UNCHANGED <<plan, fetched, item, local>>
    BY <1>0, <2>1 DEF SyncJobs, Sync!Task
  <2>6. JobAt(j)'
    BY <1>0, <2>1, <2>5 DEF JobAt, Busy, Sync!Entity, Sync!Conn
  <2>. QED BY <2>1, <2>3, <2>4, <2>5, <2>6 DEF JobStep
<1>3. CASE Sync!WriteNew(j)
  <2>. DEFINE k == Sync!Entity(j)
              r == [of |-> item[j][1], version |-> item[j][2], stock |-> None]
  <2>1. /\ jobPc' = [jobPc EXCEPT ![j] = "map"] /\ jobPc[j] = "write" /\ local[j] = 0
        /\ UNCHANGED <<remote, enabled, maps, log, adapters, inProgress, manual, plan, attempt,
                       fetched, item, errors, faults, cut>>
        /\ rows' = [rows EXCEPT ![k] = Append(@, r)]
        /\ local' = [local EXCEPT ![j] = Len(rows'[k])]
    BY <1>3 DEF Sync!WriteNew
  <2>2. k \in Sync!Kinds /\ r \in Copied /\ rows[k] \in Seq(Copied)
    BY <2>1, ItemTypes DEF Copied
  <2>. HIDE DEF k, r
  <2>3. rows' \in [Sync!Kinds -> Seq(Copied)] /\ rows'[k] = Append(rows[k], r)
    BY <1>0, <2>1, <2>2, RowsTypes DEF SyncTables
  <2>4. Len(rows'[k]) \in Nat \ {0}
    <3>. PICK s \in Seq(Copied) : s = rows[k]
      BY <2>2
    <3>1. Len(Append(s, r)) = Len(s) + 1 /\ Len(s) \in Nat
      BY <2>2, AppendProperties, LenProperties
    <3>. QED BY <2>3, <3>1
  <2>5. SyncTables' /\ SyncShared'
    BY <1>0, <2>1, <2>3 DEF SyncTables, SyncShared
  <2>6. SyncJobs' /\ OwnJob(j)
    BY <1>0, <2>1, <2>4 DEF SyncJobs, OwnJob, JobPcs
  <2>7. /\ jobPc'[j] = "map" /\ Sync!Task(j)' = Sync!Task(j) /\ UNCHANGED <<plan, fetched, item>>
        /\ local'[j] # 0
    BY <1>0, <2>1, <2>4 DEF SyncJobs, Sync!Task
  <2>8. JobAt(j)'
    BY <1>0, <2>1, <2>7 DEF JobAt, Busy, Sync!Entity, Sync!Conn
  <2>. QED BY <2>1, <2>5, <2>6, <2>7, <2>8 DEF JobStep
<1>4. CASE Sync!WriteInvoice(j)
  <2>1. Sync!NextItem(j, TRUE) /\ jobPc[j] = "write" /\ UNCHANGED <<manual, plan, attempt, fetched>>
    BY <1>4 DEF Sync!WriteInvoice
  <2>2. SyncTables' /\ SyncShared'
    BY <1>0, <1>4 DEF SyncTables, SyncShared, Sync!WriteInvoice
  <2>3. UNCHANGED <<inProgress, remote>> /\ Sync!Task(j)' = Sync!Task(j)
    BY <1>4 DEF Sync!WriteInvoice, Sync!Task
  <2>. QED BY <2>1, <2>2, <2>3, NextItemTypes DEF JobStep
<1>5. CASE Sync!MapIt(j)
  <2>1. jobPc[j] = "map" /\ UNCHANGED <<remote, enabled, rows, log, adapters, inProgress, manual, plan,
                                        attempt, fetched, faults, cut>>
    BY <1>5 DEF Sync!MapIt
  <2>2. PICK bad \in BOOLEAN : Sync!NextItem(j, bad)
    BY <1>5 DEF Sync!MapIt, Sync!NextItem
  <2>3. maps' \subseteq Mapping
    <3>1. local[j] \in Nat \ {0}
      BY <1>0, <2>1 DEF SyncJobs, JobAt
    <3>2. Sync!System(Sync!Conn(j)) \in {"zjmf_v10", "zjmf_finance"}
      BY <2>1, TaskTypes, SyncConstant
    <3>3. /\ Sync!Entity(j) \in Sync!Kinds /\ item[j][1][3] \in Ids
      BY <2>1, ItemTypes
    <3>4. [type |-> Sync!Entity(j), local |-> local[j], system |-> Sync!System(Sync!Conn(j)),
           id |-> item[j][1][3]] \in Mapping
      BY <3>1, <3>2, <3>3 DEF Mapping
    <3>. QED BY <1>0, <1>5, <3>4 DEF Sync!MapIt, SyncTables
  <2>4. SyncTables' /\ SyncShared'
    BY <1>0, <2>1, <2>3 DEF SyncTables, SyncShared
  <2>. QED BY <2>1, <2>2, <2>4, NextItemTypes DEF JobStep, Sync!Task
<1>6. CASE Sync!ItemFails(j)
  <2>1. /\ Sync!NextItem(j, TRUE) /\ jobPc[j] \in {"write", "map"}
        /\ UNCHANGED <<remote, enabled, rows, maps, log, adapters, inProgress, manual, plan, attempt, fetched>>
    BY <1>6 DEF Sync!ItemFails
  <2>2. cut' \in [Sync!Items -> Nat]
    <3>1. item[j][1] \in Sync!Items
      BY <2>1, ItemTypes
    <3>. QED BY <1>0, <1>6, <3>1 DEF Sync!ItemFails, SyncTables
  <2>3. faults' \in 0..MaxFaults
    BY <1>0, <1>6 DEF Sync!ItemFails, SyncTables, Sync!MayFail
  <2>4. SyncTables' /\ SyncShared'
    BY <1>0, <2>1, <2>2, <2>3 DEF SyncTables, SyncShared
  <2>. QED BY <2>1, <2>4, NextItemTypes DEF JobStep, Sync!Task
<1>7. ASSUME NEW x \in fetched[j], fetched' = [fetched EXCEPT ![j] = @ \ {x}], jobPc[j] = "item",
             UNCHANGED <<jobPc, manual, plan, attempt, item, local>>,
             errors' = errors \/ errors' = [errors EXCEPT ![j] = @ + 1]
      PROVE  SyncJobs' /\ JobAt(j)' /\ OwnJob(j) /\ Sync!Task(j)' = Sync!Task(j)
  <2>1. SyncJobs'
    <3>1. fetched' \in [Jobs -> SUBSET Versions]
      BY <1>0, <1>7 DEF SyncJobs
    <3>2. errors' \in [Jobs -> Nat]
      BY <1>0, <1>7 DEF SyncJobs
    <3>. QED BY <1>0, <1>7, <3>1, <3>2 DEF SyncJobs
  <2>2. OwnJob(j)
    BY <1>0, <1>7 DEF SyncJobs, OwnJob
  <2>3. fetched'[j] \subseteq fetched[j] /\ Sync!Entity(j)' = Sync!Entity(j) /\ Sync!Conn(j)' = Sync!Conn(j)
    BY <1>0, <1>7 DEF SyncJobs, Sync!Entity, Sync!Conn, Sync!Task
  <2>. QED BY <1>0, <1>7, <2>1, <2>2, <2>3 DEF JobAt, Busy, Sync!Task
<1>8. CASE Sync!Stock(j)
  <2>1. PICK x \in fetched[j] :
          /\ fetched' = [fetched EXCEPT ![j] = @ \ {x}]
          /\ rows' = IF x[1][3] \in DOMAIN rows["product"]
                     THEN [rows EXCEPT !["product"][x[1][3]].stock = x[1]] ELSE rows
    BY <1>8 DEF Sync!Stock
  <2>2. /\ jobPc[j] = "item" /\ UNCHANGED <<remote, enabled, maps, log, adapters, inProgress, jobPc,
                                             manual, plan, attempt, item, local, errors, faults, cut>>
    BY <1>8 DEF Sync!Stock
  <2>3. rows' \in [Sync!Kinds -> Seq(Copied)]
    <3>1. CASE x[1][3] \in DOMAIN rows["product"]
      <4>. DEFINE n == x[1][3]
                  r == [rows["product"][n] EXCEPT !.stock = x[1]]
      <4>1. x[1] \in Sync!Items /\ "product" \in Sync!Kinds
        BY <1>0, SyncConstant DEF SyncJobs, Versions
      <4>2. rows["product"][n] \in Copied
        <5>. PICK s \in Seq(Copied) : s = rows["product"]
          BY <1>0, <4>1 DEF SyncTables
        <5>. QED BY <3>1, LenProperties, ElementOfSeq
      <4>3. r \in Copied
        BY <4>1, <4>2 DEF Copied
      <4>4. rows' = [rows EXCEPT !["product"][n] = r]
        BY <2>1, <3>1
      <4>. HIDE DEF r
      <4>. QED BY <3>1, <4>1, <4>3, <4>4, RowsTypes
    <3>2. CASE x[1][3] \notin DOMAIN rows["product"]
      BY <1>0, <2>1, <3>2 DEF SyncTables
    <3>. QED BY <3>1, <3>2
  <2>4. SyncTables' /\ SyncShared'
    BY <1>0, <2>2, <2>3 DEF SyncTables, SyncShared
  <2>5. SyncJobs' /\ JobAt(j)' /\ OwnJob(j) /\ Sync!Task(j)' = Sync!Task(j)
    BY <1>7, <2>1, <2>2
  <2>. QED BY <2>2, <2>4, <2>5 DEF JobStep
<1>9. CASE Sync!StockFails(j)
  <2>1. /\ jobPc[j] = "item" /\ UNCHANGED <<remote, enabled, rows, maps, log, adapters, inProgress, jobPc,
                                             manual, plan, attempt, item, local, cut>>
        /\ errors' = [errors EXCEPT ![j] = @ + 1] /\ Sync!MayFail
        /\ \E x \in fetched[j] : fetched' = [fetched EXCEPT ![j] = @ \ {x}]
    BY <1>9 DEF Sync!StockFails
  <2>2. faults' \in 0..MaxFaults
    BY <1>0, <2>1 DEF SyncTables, Sync!MayFail
  <2>3. SyncTables' /\ SyncShared'
    BY <1>0, <2>1, <2>2 DEF SyncTables, SyncShared
  <2>4. SyncJobs' /\ JobAt(j)' /\ OwnJob(j) /\ Sync!Task(j)' = Sync!Task(j)
    BY <1>7, <2>1
  <2>. QED BY <2>1, <2>3, <2>4 DEF JobStep
<1>. QED BY <1>1, <1>2, <1>3, <1>4, <1>5, <1>6, <1>8, <1>9

-------------------------------------------------------------------------------
\* The flags.  A job that does not work on a task has not put its flag up.
Flagged == \A t \in inProgress : \E j \in Jobs : Sync!Running(j) /\ Sync!Task(j) = t

JobActs(j) ==
    \/ Sync!RunProductSync(j) \/ Sync!RunInventorySync(j) \/ Sync!RunClientSync(j)
    \/ Sync!Trigger(j) \/ Sync!Run(j) \/ Sync!Fails(j)

LEMMA JobKeepsTypes ==
    ASSUME Sync!SyncAssumption, SyncTypes, NEW j \in Jobs, JobActs(j)
    PROVE  JobStep(j) /\ UNCHANGED remote
BY StartTypes, TaskStep, ItemStep DEF JobActs, Sync!Run, Sync!Fails

LEMMA JobKeepsFlags ==
    ASSUME Sync!SyncAssumption, SyncTypes, NEW j \in Jobs, JobActs(j), Flagged
    PROVE  Flagged'
<1>1. JobStep(j) /\ SyncJobs /\ JobAt(j)
  BY JobKeepsTypes DEF SyncTypes
<1>2. \A k \in Jobs \ {j} : (Sync!Running(k)' <=> Sync!Running(k)) /\ Sync!Task(k)' = Sync!Task(k)
  BY <1>1 DEF JobStep, OwnJob, Sync!Running, Sync!Task
<1>3. ASSUME inProgress' \subseteq inProgress,
             Sync!Running(j) => (Sync!Running(j)' /\ Sync!Task(j)' = Sync!Task(j)) \/ Sync!Task(j) \notin inProgress'
      PROVE  Flagged'
  BY <1>2, <1>3 DEF Flagged
<1>. USE <1>1 DEF Sync!shared, Sync!loop, Sync!Goto
<1>4. CASE \/ Sync!RunProductSync(j) \/ Sync!RunInventorySync(j) \/ Sync!RunClientSync(j) \/ Sync!Trigger(j)
  <2>1. UNCHANGED inProgress /\ ~Sync!Running(j)
    BY <1>4, StartTypes DEF Sync!Running
  <2>. QED BY <1>3, <2>1
<1>5. CASE Sync!GetAdapter(j) \/ Sync!NoAdapter(j) \/ Sync!Check(j)
  <2>1. UNCHANGED inProgress /\ ~Sync!Running(j)
    BY <1>5 DEF Sync!GetAdapter, Sync!NoAdapter, Sync!Check, Sync!Running
  <2>. QED BY <1>3, <2>1
<1>6. CASE Sync!Mark(j)
  <2>1. /\ inProgress' = inProgress \cup {Sync!Task(j)} /\ ~Sync!Running(j)
        /\ jobPc'[j] = "fetch" /\ plan' = plan
    BY <1>6 DEF Sync!Mark, SyncJobs, Sync!Running
  <2>2. Sync!Running(j)' /\ Sync!Task(j)' = Sync!Task(j)
    BY <2>1 DEF Sync!Running, Sync!Task
  <2>. QED BY <1>2, <2>1, <2>2 DEF Flagged
<1>7. CASE Sync!NothingToSync(j) \/ Sync!Fetch(j) \/ Sync!FetchFails(j) \/ Sync!Finish(j)
  <2>1. UNCHANGED <<inProgress, plan>> /\ jobPc'[j] \in {"fetch", "item", "clear"}
    BY <1>7 DEF Sync!NothingToSync, Sync!Fetch, Sync!FetchFails, Sync!Finish, Sync!Retry, SyncJobs
  <2>2. Sync!Running(j)' /\ Sync!Task(j)' = Sync!Task(j)
    BY <2>1 DEF Sync!Running, Sync!Task
  <2>. QED BY <1>3, <2>1, <2>2
<1>8. CASE Sync!Clear(j)
  <2>1. inProgress' = inProgress \ {Sync!Task(j)}
    BY <1>8 DEF Sync!Clear
  <2>. QED BY <1>3, <2>1
<1>9. CASE \/ Sync!Lookup(j) \/ Sync!WriteFound(j) \/ Sync!WriteNew(j) \/ Sync!WriteInvoice(j)
           \/ Sync!MapIt(j) \/ Sync!ItemFails(j) \/ Sync!Stock(j) \/ Sync!StockFails(j)
  <2>1. UNCHANGED inProgress /\ Sync!Task(j)' = Sync!Task(j)
    BY <1>9, ItemStep
  <2>2. jobPc'[j] \in {"item", "write", "map"}
    BY <1>9 DEF SyncJobs, Sync!Lookup, Sync!WriteFound, Sync!WriteNew, Sync!WriteInvoice, Sync!MapIt,
                Sync!ItemFails, Sync!Stock, Sync!StockFails, Sync!NextItem
  <2>. QED BY <1>3, <2>1, <2>2 DEF Sync!Running
<1>. QED BY <1>4, <1>5, <1>6, <1>7, <1>8, <1>9 DEF JobActs, Sync!Run, Sync!Fails

LEMMA OutsideTypes ==
    ASSUME Sync!SyncAssumption, SyncTypes, Sync!Outside
    PROVE  /\ SyncTables' /\ SyncShared'
           /\ UNCHANGED <<rows, inProgress, jobPc, manual, plan, attempt, fetched, item, local, errors, cut>>
<1>. USE DEF Sync!tables, Sync!shared, Sync!loop, Sync!NoFault
<1>0. SyncTables /\ SyncShared /\ MaxVersion \in Nat
  BY SyncConstant DEF SyncTypes
<1>1. ASSUME NEW i \in Sync!Items, Sync!RemoteChanges(i) PROVE SyncTables' /\ SyncShared'
  <2>1. remote' \in [Sync!Items -> 0..MaxVersion]
    BY <1>0, <1>1 DEF Sync!RemoteChanges, SyncTables
  <2>. QED BY <1>0, <1>1, <2>1 DEF Sync!RemoteChanges, SyncTables, SyncShared
<1>2. ASSUME NEW c \in Sync!Conns, Sync!Switch(c) PROVE SyncTables' /\ SyncShared'
  BY <1>0, <1>2 DEF Sync!Switch, SyncTables, SyncShared
<1>3. ASSUME NEW n \in Servers, Sync!StoreEntityMapping(n) PROVE SyncTables' /\ SyncShared'
  <2>1. maps' \subseteq Mapping
    BY <1>0, <1>3, SyncConstant DEF Sync!StoreEntityMapping, SyncTables, Mapping
  <2>. QED BY <1>0, <1>3, <2>1 DEF Sync!StoreEntityMapping, SyncTables, SyncShared
<1>. QED BY <1>1, <1>2, <1>3
         DEF Sync!Outside, Sync!RemoteChanges, Sync!Switch, Sync!StoreEntityMapping

LEMMA CrashTypes ==
    ASSUME Sync!SyncAssumption, SyncTypes, Sync!Crash
    PROVE  SyncTypes' /\ Flagged'
<1>0. SyncTables /\ SyncShared /\ MaxFaults \in Nat /\ 0 \in 0..MaxAttempts
  BY SyncConstant DEF SyncTypes
<1>1. cut' \in [Sync!Items -> Nat]
  <2>1. ASSUME NEW i \in Sync!Items
        PROVE  Sync!Cardinality({j \in Jobs : jobPc[j] = "map" /\ item[j][1] = i}) \in Nat
    <3>. PICK K : K = {j \in Jobs : jobPc[j] = "map" /\ item[j][1] = i}
      OBVIOUS
    <3>1. IsFiniteSet(Jobs)
      BY DEF Sync!SyncAssumption, Sync!IsFiniteSet, IsFiniteSet
    <3>2. Cardinality(K) \in Nat
      BY <3>1, FS_Subset, FS_CardinalityType
    <3>. QED BY <3>2 DEF Sync!Cardinality, Cardinality
  <2>. QED BY <1>0, <2>1 DEF Sync!Crash, SyncTables
<1>2. SyncTables' /\ SyncShared'
  BY <1>0, <1>1 DEF Sync!Crash, Sync!MayFail, Sync!tables, SyncTables, SyncShared
<1>3. SyncJobs'
  BY <1>0 DEF Sync!Crash, SyncJobs, JobPcs
<1>4. \A j \in Jobs : JobAt(j)'
  BY DEF Sync!Crash, JobAt, Busy
<1>5. Flagged'
  BY DEF Sync!Crash, Flagged
<1>. QED BY <1>2, <1>3, <1>4, <1>5 DEF SyncTypes

LEMMA SyncNext ==
    ASSUME Sync!SyncAssumption, SyncTypes, [Sync!Next]_(Sync!vars)
    PROVE  \/ \E j \in Jobs : JobActs(j)
           \/ Sync!Outside \/ Sync!Crash \/ UNCHANGED Sync!vars
BY SyncConstant DEF Sync!Next, JobActs, Sync!Timers, Sync!OnProductSync, Sync!OnInventorySync,
     Sync!OnClientSync, Sync!Request

LEMMA SyncStep ==
    ASSUME Sync!SyncAssumption, SyncTypes, Flagged, [Sync!Next]_(Sync!vars)
    PROVE  SyncTypes' /\ Flagged'
<1>1. ASSUME NEW j \in Jobs, JobActs(j) PROVE SyncTypes' /\ Flagged'
  <2>1. JobStep(j) /\ Flagged'
    BY <1>1, JobKeepsTypes, JobKeepsFlags
  <2>2. ASSUME NEW k \in Jobs \ {j} PROVE JobAt(k)'
    <3>1. JobAt(k) /\ jobPc'[k] = jobPc[k] /\ plan'[k] = plan[k] /\ fetched'[k] = fetched[k]
          /\ item'[k] = item[k] /\ local'[k] = local[k]
      BY <2>1 DEF JobStep, OwnJob, SyncTypes
    <3>. QED BY <3>1, SameJob
  <2>. QED BY <2>1, <2>2 DEF JobStep, SyncTypes
<1>2. ASSUME SyncTables', SyncShared', UNCHANGED <<inProgress, jobPc, manual, plan, attempt, fetched,
                                                   item, local, errors>>
      PROVE  SyncTypes' /\ Flagged'
  <2>1. SyncJobs' /\ \A j \in Jobs : JobAt(j)'
    BY <1>2, SameJob DEF SyncTypes, SyncJobs
  <2>2. Flagged'
    BY <1>2 DEF Flagged, Sync!Running, Sync!Task
  <2>. QED BY <1>2, <2>1, <2>2 DEF SyncTypes
<1>3. CASE Sync!Outside
  BY <1>2, <1>3, OutsideTypes
<1>4. CASE Sync!Crash
  BY <1>4, CrashTypes
<1>5. CASE UNCHANGED Sync!vars
  <2>1. UNCHANGED <<remote, enabled, rows, maps, log, adapters, inProgress, jobPc, manual, plan, attempt,
                    fetched, item, local, errors, faults, cut>>
    BY <1>5 DEF Sync!vars, Sync!tables, Sync!shared, Sync!loop
  <2>2. SyncTables' /\ SyncShared'
    BY <2>1 DEF SyncTypes, SyncTables, SyncShared
  <2>. QED BY <1>2, <2>1, <2>2
<1>. QED BY <1>1, <1>3, <1>4, <1>5, SyncNext

LEMMA SyncInvariant ==
    ASSUME Sync!SyncAssumption PROVE Sync!Spec => [](SyncTypes /\ Flagged)
<1>1. Sync!Init => SyncTypes /\ Flagged
  BY InitSync DEF Sync!Init, Flagged
<1>2. SyncTypes /\ Flagged /\ [Sync!Next]_(Sync!vars) => SyncTypes' /\ Flagged'
  BY SyncStep
<1>. QED BY <1>1, <1>2, PTL DEF Sync!Spec

\* However many jobs run, fail and die: every table, flag and job stays in its
\* domain.
THEOREM SyncTypesOK ==
    ASSUME Sync!SyncAssumption PROVE Sync!Spec => []Sync!TypeOK
<1>1. SyncTypes => Sync!TypeOK
  <2>. SUFFICES ASSUME SyncTypes PROVE Sync!TypeOK
    OBVIOUS
  <2>. USE DEF SyncTypes
  <2>1. ASSUME NEW k \in Sync!Kinds, NEW n \in DOMAIN rows[k] PROVE rows[k][n] \in Copied
    <3>. PICK s \in Seq(Copied) : s = rows[k]
      BY DEF SyncTables
    <3>. QED BY LenProperties, ElementOfSeq
  <2>2. \A j \in Jobs : /\ jobPc[j] # "idle" <=> plan[j] # << >>
                        /\ attempt[j] \in 0..MaxAttempts
                        /\ item[j] # None <=> jobPc[j] \in {"write", "map"}
    BY DEF SyncJobs, JobAt
  <2>3. /\ remote \in [Sync!Items -> 0..MaxVersion] /\ enabled \subseteq Sync!Conns
        /\ log \in [Sync!Conns -> {"none", "success", "failed"}] /\ faults \in 0..MaxFaults
    BY DEF SyncTables
  <2>4. adapters \subseteq Sync!Conns /\ inProgress \subseteq Sync!Conns \X Sync!Entities
    BY DEF SyncShared, Tasks
  <2>5. \A m \in maps : /\ m.type \in Sync!Kinds \cup {"subscription"}
                        /\ m.system \in {"zjmf_v10", "zjmf_finance"} /\ m.id \in Ids \cup {1}
    BY DEF SyncTables, Mapping
  <2>. QED BY <2>1, <2>2, <2>3, <2>4, <2>5 DEF Sync!TypeOK, Copied
<1>. QED BY <1>1, SyncInvariant, PTL

\* And no failure, refusal or crash leaves a flag up with nobody to take it down.
THEOREM FlagsComeDown ==
    ASSUME Sync!SyncAssumption PROVE Sync!Spec => []Sync!FlagMeansRunning
<1>1. Flagged => Sync!FlagMeansRunning
  BY DEF Flagged, Sync!FlagMeansRunning
<1>. QED BY <1>1, SyncInvariant, PTL
-------------------------------------------------------------------------------
\* Copies.  What a lookup of an item finds; the jobs that are about to store an
\* item's mapping, and to make its row; its rows that no job is about to map.
Found(i) == Sync!Mapped(i[2], i[1], i[3])
AtMap(i) == {j \in Jobs : jobPc[j] = "map" /\ item[j][1] = i}
ToMake(i) == {j \in Jobs : jobPc[j] = "write" /\ local[j] = 0 /\ item[j][1] = i}
Loose(i) == {n \in Sync!RowsOf(i) : \A j \in AtMap(i) : local[j] # n}
Making(j) == jobPc[j] = "map" /\ Found(item[j][1]) = {}

MapsOnce ==
    /\ \A m, n \in maps : m.system = n.system /\ m.id = n.id => m = n
    /\ \A m \in maps : /\ m.system = "zjmf_finance" => m.type = "client"
                       /\ m.system = "zjmf_v10" => m.type \in {"product", "subscription"}
                       /\ m.type = "subscription" => m.id = 1
                       /\ m.type \in Sync!Kinds => m.local \in DOMAIN rows[m.type]

\* A job has the row its lookup found, or makes one that no mapping holds.
CopyJob(j) ==
    /\ jobPc[j] = "write" /\ local[j] # 0 => \E m \in Found(item[j][1]) : m.local = local[j]
    /\ jobPc[j] = "map" => item[j][1][2] # "invoice"
    /\ Making(j) =>
          /\ local[j] \in DOMAIN rows[item[j][1][2]]
          /\ \A m \in maps : m.type = item[j][1][2] => m.local # local[j]
Apart(j, k) ==
    Making(j) /\ Making(k) /\ j # k /\ item[j][1][2] = item[k][1][2] => local[j] # local[k]

\* Before its mapping, the rows of an item that nobody is about to map were cut
\* short; after it, all but the mapped one come from threads that looked it up before.
Few(i) ==
    /\ Found(i) = {} => Cardinality(Loose(i)) <= cut[i]
    /\ \A m \in Found(i) :
          Cardinality(Sync!RowsOf(i) \ {m.local}) + 1 + Cardinality(ToMake(i))
             <= Cardinality(Jobs) + cut[i] + (IF m.type # i[2] THEN 1 ELSE 0)

Copying ==
    /\ MapsOnce /\ \A i \in Sync!Items : Few(i)
    /\ \A j \in Jobs : CopyJob(j) /\ \A k \in Jobs : Apart(j, k)

LEMMA Smaller ==
    ASSUME NEW S, NEW T, IsFiniteSet(S), T \subseteq S
    PROVE  /\ IsFiniteSet(T) /\ Cardinality(T) \in Nat /\ Cardinality(S) \in Nat
           /\ Cardinality(T) <= Cardinality(S)
BY FS_Subset, FS_CardinalityType

LEMMA OneMoreAtMost ==
    ASSUME NEW S, NEW T, NEW x, IsFiniteSet(S), T \subseteq S \cup {x}
    PROVE  /\ IsFiniteSet(T) /\ Cardinality(T) \in Nat /\ Cardinality(S) \in Nat
           /\ Cardinality(T) <= Cardinality(S) + 1
<1>1. /\ IsFiniteSet(S \cup {x})
      /\ Cardinality(S \cup {x}) = IF x \in S THEN Cardinality(S) ELSE Cardinality(S) + 1
  BY FS_AddElement
<1>. QED BY <1>1, Smaller, FS_CardinalityType

\* A set is no larger than what a function leaves of it, and the function's domain.
LEMMA CoveredBy ==
    ASSUME NEW R, NEW K, NEW f, IsFiniteSet(R), IsFiniteSet(K)
    PROVE  /\ IsFiniteSet({n \in R : \A k \in K : f[k] # n})
           /\ Cardinality({n \in R : \A k \in K : f[k] # n}) \in Nat /\ Cardinality(K) \in Nat
           /\ Cardinality(R) \in Nat
           /\ Cardinality(R) <= Cardinality({n \in R : \A k \in K : f[k] # n}) + Cardinality(K)
<1>. DEFINE L == {n \in R : \A k \in K : f[k] # n}
            S == {n \in R : \E k \in K : f[k] = n}
            g == [n \in S |-> CHOOSE k \in K : f[k] = n]
<1>1. \A n \in S : g[n] \in K /\ f[g[n]] = n
  OBVIOUS
<1>2. g \in Injection(S, K)
  BY <1>1 DEF Injection, IsInjective
<1>3. IsFiniteSet(S) /\ Cardinality(S) <= Cardinality(K)
  <2>. HIDE DEF g, S
  <2>. QED BY <1>2, FS_Injection
<1>4. R = L \cup S /\ L \cap S = {} /\ L \subseteq R
  OBVIOUS
<1>5. IsFiniteSet(L) /\ Cardinality(L) \in Nat /\ Cardinality(R) \in Nat
  BY <1>4, FS_Subset, FS_CardinalityType
<1>. HIDE DEF L, S, g
<1>6. Cardinality(L \cup S) = Cardinality(L) + Cardinality(S) - Cardinality(L \cap S)
  BY <1>3, <1>5, FS_Union
<1>7. Cardinality(L \cap S) = 0
  BY <1>4, FS_EmptySet
<1>8. Cardinality(S) \in Nat /\ Cardinality(K) \in Nat
  BY <1>3, FS_CardinalityType
<1>9. Cardinality(R) <= Cardinality(L) + Cardinality(K)
  BY <1>3, <1>4, <1>5, <1>6, <1>7, <1>8
<1>. QED BY <1>5, <1>8, <1>9 DEF L

LEMMA Disjoint ==
    ASSUME NEW S, NEW A, NEW B, IsFiniteSet(S), A \subseteq S, B \subseteq S, A \cap B = {}
    PROVE  /\ Cardinality(A) \in Nat /\ Cardinality(B) \in Nat /\ Cardinality(S) \in Nat
           /\ Cardinality(A) + Cardinality(B) <= Cardinality(S)
<1>1. IsFiniteSet(A) /\ IsFiniteSet(B) /\ IsFiniteSet(A \cup B)
  BY FS_Subset, FS_Union
<1>2. Cardinality(A \cup B) = Cardinality(A) + Cardinality(B) - Cardinality(A \cap B)
  BY <1>1, FS_Union
<1>3. Cardinality(A \cap B) = 0
  BY FS_EmptySet
<1>4. Cardinality(A \cup B) <= Cardinality(S)
  BY Smaller
<1>. QED BY <1>1, <1>2, <1>3, <1>4, FS_CardinalityType

LEMMA CopySets ==
    ASSUME Sync!SyncAssumption, SyncTypes, NEW i \in Sync!Items
    PROVE  /\ IsFiniteSet(Jobs) /\ Cardinality(Jobs) \in Nat /\ cut[i] \in Nat
           /\ Sync!RowsOf(i) \subseteq Nat \ {0} /\ IsFiniteSet(Sync!RowsOf(i))
           /\ AtMap(i) \subseteq Jobs /\ ToMake(i) \subseteq Jobs /\ AtMap(i) \cap ToMake(i) = {}
           /\ IsFiniteSet(AtMap(i)) /\ IsFiniteSet(ToMake(i)) /\ IsFiniteSet(Loose(i))
           /\ Cardinality(Loose(i)) \in Nat /\ Cardinality(ToMake(i)) \in Nat
<1>1. IsFiniteSet(Jobs) /\ Cardinality(Jobs) \in Nat
  BY FS_CardinalityType DEF Sync!SyncAssumption, Sync!IsFiniteSet, IsFiniteSet
<1>2. cut[i] \in Nat /\ i[2] \in Sync!Kinds
  BY SyncConstant DEF SyncTypes, SyncTables
<1>3. Sync!RowsOf(i) \subseteq Nat \ {0} /\ IsFiniteSet(Sync!RowsOf(i))
  <2>. PICK s \in Seq(Copied) : s = rows[i[2]]
    BY <1>2 DEF SyncTypes, SyncTables
  <2>1. DOMAIN s = 1..Len(s) /\ Len(s) \in Nat
    BY LenProperties
  <2>2. IsFiniteSet(1..Len(s))
    BY <2>1, FS_Interval
  <2>3. Sync!RowsOf(i) \subseteq 1..Len(s)
    BY <2>1 DEF Sync!RowsOf
  <2>. PICK R : R = Sync!RowsOf(i)
    OBVIOUS
  <2>. QED BY <2>1, <2>2, <2>3, FS_Subset
<1>4. AtMap(i) \subseteq Jobs /\ ToMake(i) \subseteq Jobs /\ AtMap(i) \cap ToMake(i) = {}
  BY DEF AtMap, ToMake
<1>5. IsFiniteSet(AtMap(i)) /\ IsFiniteSet(ToMake(i)) /\ Cardinality(ToMake(i)) \in Nat
  BY <1>1, <1>4, FS_Subset, FS_CardinalityType
<1>6. IsFiniteSet(Loose(i)) /\ Cardinality(Loose(i)) \in Nat
  <2>1. Loose(i) \subseteq Sync!RowsOf(i)
    BY DEF Loose
  <2>. QED BY <1>3, <2>1, FS_Subset, FS_CardinalityType
<1>. QED BY <1>1, <1>2, <1>3, <1>4, <1>5, <1>6

\* Before its mapping an item has a row for each job that has made one, and for each
\* time one was cut short.
LEMMA RowsBeforeMapping ==
    ASSUME Sync!SyncAssumption, SyncTypes, NEW i \in Sync!Items, Few(i), Found(i) = {}, NEW x
    PROVE  /\ Cardinality(Sync!RowsOf(i) \ {x}) \in Nat
           /\ Cardinality(Sync!RowsOf(i) \ {x}) + Cardinality(ToMake(i)) <= Cardinality(Jobs) + cut[i]
           /\ \A j \in Jobs : jobPc[j] = "map" /\ x = local[j] =>
                 Cardinality(Sync!RowsOf(i) \ {x}) + Cardinality(ToMake(i)) + 1
                    <= Cardinality(Jobs) + cut[i]
<1>. PICK A, B, R, f : A = AtMap(i) /\ B = ToMake(i) /\ R = Sync!RowsOf(i) \ {x} /\ f = local
  OBVIOUS
<1>0. /\ IsFiniteSet(Jobs) /\ Cardinality(Jobs) \in Nat /\ cut[i] \in Nat /\ IsFiniteSet(R)
      /\ A \subseteq Jobs /\ B \subseteq Jobs /\ A \cap B = {} /\ IsFiniteSet(Loose(i))
      /\ IsFiniteSet(A) /\ Cardinality(Loose(i)) <= cut[i] /\ Cardinality(Loose(i)) \in Nat
  BY CopySets, FS_Subset DEF Few
<1>1. ASSUME NEW K, K \subseteq A, A \subseteq K \/ \E j \in A : A \ {j} \subseteq K /\ f[j] = x
      PROVE  Cardinality(R) \in Nat /\ Cardinality(K) \in Nat /\ Cardinality(R) <= cut[i] + Cardinality(K)
  <2>. DEFINE L == {n \in R : \A k \in K : f[k] # n}
  <2>1. IsFiniteSet(K)
    BY <1>0, <1>1, FS_Subset
  <2>2. L \subseteq Loose(i)
    BY <1>1 DEF Loose
  <2>3. /\ Cardinality(L) \in Nat /\ Cardinality(K) \in Nat /\ Cardinality(R) \in Nat
        /\ Cardinality(R) <= Cardinality(L) + Cardinality(K)
    BY <1>0, <2>1, CoveredBy
  <2>. HIDE DEF L
  <2>4. Cardinality(L) <= cut[i]
    <3>. PICK M : M = Loose(i)
      OBVIOUS
    <3>. QED BY <1>0, <2>2, <2>3, Smaller
  <2>. QED BY <1>0, <2>3, <2>4
<1>2. /\ Cardinality(R) \in Nat /\ Cardinality(A) \in Nat
      /\ Cardinality(R) <= cut[i] + Cardinality(A)
  BY <1>1
<1>3. Cardinality(B) \in Nat /\ Cardinality(A) + Cardinality(B) <= Cardinality(Jobs)
  BY <1>0, Disjoint
<1>4. ASSUME NEW j \in Jobs, jobPc[j] = "map", x = f[j]
      PROVE  Cardinality(R) + Cardinality(B) + 1 <= Cardinality(Jobs) + cut[i]
  <2>1. Cardinality(R) <= cut[i] + Cardinality(A \ {j}) /\ Cardinality(A \ {j}) \in Nat
    <3>1. A \ {j} \subseteq A /\ (A \subseteq A \ {j} \/ \E k \in A : A \ {k} \subseteq A \ {j} /\ f[k] = x)
      BY <1>4
    <3>. QED BY <1>1, <3>1
  <2>2. Cardinality(A \ {j}) + Cardinality(B) <= Cardinality(Jobs \ {j})
    <3>1. j \notin B
      BY <1>4 DEF ToMake
    <3>2. A \ {j} \subseteq Jobs \ {j} /\ B \subseteq Jobs \ {j} /\ (A \ {j}) \cap B = {}
      BY <1>0, <3>1
    <3>3. IsFiniteSet(Jobs \ {j})
      BY <1>0, FS_Subset
    <3>. QED BY <3>2, <3>3, Disjoint
  <2>3. Cardinality(Jobs \ {j}) = Cardinality(Jobs) - 1
    BY <1>0, FS_RemoveElement
  <2>. QED BY <1>0, <1>2, <1>3, <2>1, <2>2, <2>3
<1>. QED BY <1>0, <1>2, <1>3, <1>4

\* What makes no rows more than it accounts for.
LEMMA FewStays ==
    ASSUME Sync!SyncAssumption, SyncTypes, NEW i \in Sync!Items, Few(i), Found(i)' = Found(i),
           cut'[i] \in Nat, cut'[i] >= cut[i],
           Found(i) = {} => Loose(i)' \subseteq Loose(i),
           \A m \in Found(i) : /\ Sync!RowsOf(i)' \ {m.local} \subseteq Sync!RowsOf(i)
                               /\ ToMake(i)' \subseteq ToMake(i)
    PROVE  Few(i)'
<1>0. /\ IsFiniteSet(Jobs) /\ Cardinality(Jobs) \in Nat /\ cut[i] \in Nat
      /\ IsFiniteSet(Sync!RowsOf(i)) /\ IsFiniteSet(Loose(i)) /\ IsFiniteSet(ToMake(i))
  BY CopySets
<1>1. ASSUME Found(i)' = {} PROVE Cardinality(Loose(i)') <= cut'[i]
  <2>. PICK S, T : S = Loose(i) /\ T = Loose(i)'
    OBVIOUS
  <2>1. Cardinality(T) \in Nat /\ Cardinality(S) \in Nat /\ Cardinality(T) <= Cardinality(S)
    BY <1>0, <1>1, Smaller
  <2>. QED BY <1>0, <1>1, <2>1 DEF Few
<1>2. ASSUME NEW m \in Found(i)
      PROVE  Cardinality(Sync!RowsOf(i)' \ {m.local}) + 1 + Cardinality(ToMake(i)')
                <= Cardinality(Jobs) + cut'[i] + (IF m.type # i[2] THEN 1 ELSE 0)
  <2>. PICK n : n = m.local
    OBVIOUS
  <2>. PICK S, T, A, B : /\ S = Sync!RowsOf(i) \ {n} /\ T = Sync!RowsOf(i)' \ {n}
                         /\ A = ToMake(i) /\ B = ToMake(i)'
    OBVIOUS
  <2>1. IsFiniteSet(S) /\ T \subseteq S /\ B \subseteq A
    BY <1>0, <1>2, FS_Subset
  <2>2. /\ Cardinality(T) \in Nat /\ Cardinality(S) \in Nat /\ Cardinality(T) <= Cardinality(S)
        /\ Cardinality(B) \in Nat /\ Cardinality(A) \in Nat /\ Cardinality(B) <= Cardinality(A)
    BY <1>0, <2>1, Smaller
  <2>3. Cardinality(S) + 1 + Cardinality(A)
           <= Cardinality(Jobs) + cut[i] + (IF m.type # i[2] THEN 1 ELSE 0)
    BY <1>2 DEF Few
  <2>. QED BY <1>0, <2>2, <2>3
<1>. QED BY <1>1, <1>2 DEF Few

-------------------------------------------------------------------------------
\* While no mapping is stored.
Resting(j) == jobPc'[j] = jobPc[j] /\ item'[j] = item[j] /\ local'[j] = local[j]
Aside(j) == jobPc[j] \notin {"write", "map"} /\ jobPc'[j] \notin {"write", "map"}
Longer == \A k \in Sync!Kinds : DOMAIN rows[k] \subseteq DOMAIN rows'[k]

LEMMA MapsOnceStays ==
    ASSUME MapsOnce, maps' = maps, Longer PROVE MapsOnce'
BY DEF MapsOnce, Longer

LEMMA FoundStays ==
    ASSUME maps' = maps, NEW i PROVE Found(i)' = Found(i)
BY DEF Found, Sync!Mapped

LEMMA RestingStays ==
    ASSUME Sync!SyncAssumption, SyncTypes, maps' = maps, Longer, NEW j \in Jobs,
           CopyJob(j), Resting(j) \/ Aside(j)
    PROVE  CopyJob(j)' /\ (Making(j)' => Making(j) /\ Resting(j))
<1>1. CASE Resting(j)
  <2>1. Found(item[j][1])' = Found(item[j][1])
    BY <1>1 DEF Resting, Found, Sync!Mapped
  <2>2. jobPc[j] = "map" => item[j][1][2] \in Sync!Kinds
    BY ItemTypes, SyncConstant
  <2>. QED BY <1>1, <2>1, <2>2 DEF Resting, CopyJob, Making, Longer
<1>2. CASE Aside(j)
  BY <1>2 DEF Aside, CopyJob, Making
<1>. QED BY <1>1, <1>2

LEMMA QuietCopies ==
    ASSUME Sync!SyncAssumption, SyncTypes, Copying, maps' = maps, cut' = cut,
           \A i \in Sync!Items : Sync!RowsOf(i)' = Sync!RowsOf(i), Longer,
           \A j \in Jobs : Resting(j) \/ Aside(j)
    PROVE  Copying'
<1>1. MapsOnce'
  BY MapsOnceStays DEF Copying
<1>2. ASSUME NEW i \in Sync!Items PROVE Few(i)'
  <2>1. AtMap(i)' = AtMap(i) /\ ToMake(i)' = ToMake(i)
    BY DEF AtMap, ToMake, Resting, Aside
  <2>2. Loose(i)' = Loose(i)
    BY <2>1 DEF Loose, AtMap, Resting, Aside
  <2>3. Few(i) /\ cut'[i] \in Nat /\ cut'[i] >= cut[i] /\ Found(i)' = Found(i)
    BY CopySets, FoundStays DEF Copying
  <2>. QED BY <2>1, <2>2, <2>3, FewStays
<1>3. ASSUME NEW j \in Jobs PROVE CopyJob(j)' /\ (Making(j)' => Making(j) /\ Resting(j))
  BY RestingStays DEF Copying
<1>4. \A j, k \in Jobs : Apart(j, k)'
  BY <1>3 DEF Apart, Resting, Copying
<1>. QED BY <1>1, <1>2, <1>3, <1>4 DEF Copying

\* An item is left: there was nothing to store, or it was cut short.
LEMMA LeaveItem ==
    ASSUME Sync!SyncAssumption, SyncTypes, Copying, maps' = maps, rows' = rows, NEW j \in Jobs,
           OwnJob(j), jobPc'[j] = "item", cut' \in [Sync!Items -> Nat],
           \/ cut' = cut /\ (jobPc[j] = "write" \/ (jobPc[j] = "map" /\ Found(item[j][1]) # {}))
           \/ jobPc[j] = "map" /\ cut' = [cut EXCEPT ![item[j][1]] = @ + 1]
    PROVE  Copying'
<1>0. /\ Longer /\ \A k \in Jobs \ {j} : Resting(k)
      /\ cut \in [Sync!Items -> Nat] /\ item[j][1] \in Sync!Items
  BY ItemTypes DEF Longer, OwnJob, Resting, SyncTypes, SyncTables
<1>1. MapsOnce'
  BY <1>0, MapsOnceStays DEF Copying
<1>2. ASSUME NEW i \in Sync!Items PROVE Few(i)'
  <2>1. /\ Few(i) /\ Found(i)' = Found(i) /\ Sync!RowsOf(i)' = Sync!RowsOf(i)
        /\ cut'[i] \in Nat /\ cut[i] \in Nat /\ cut'[i] >= cut[i]
    BY <1>0, FoundStays DEF Copying, Sync!RowsOf
  <2>2. ToMake(i)' \subseteq ToMake(i) /\ AtMap(i) \ {j} \subseteq AtMap(i)'
    BY <1>0 DEF ToMake, AtMap, Resting
  <2>3. Loose(i)' \subseteq Loose(i) \cup {local[j]}
    <3>1. \A k \in AtMap(i) \ {j} : k \in AtMap(i)' /\ local'[k] = local[k]
      BY <1>0, <2>2 DEF Resting, AtMap
    <3>. QED BY <2>1, <3>1 DEF Loose
  <2>4. CASE Found(i) = {} /\ jobPc[j] = "map" /\ item[j][1] = i
    <3>1. cut'[i] = cut[i] + 1
      BY <1>0, <2>4
    <3>2. Cardinality(Loose(i)') <= cut'[i]
      <4>. PICK S, T, n : S = Loose(i) /\ T = Loose(i)' /\ n = local[j]
        OBVIOUS
      <4>1. /\ Cardinality(T) \in Nat /\ Cardinality(S) \in Nat
            /\ Cardinality(T) <= Cardinality(S) + 1
        <5>1. IsFiniteSet(S) /\ T \subseteq S \cup {n}
          BY <2>3, CopySets
        <5>. QED BY <5>1, OneMoreAtMost
      <4>. QED BY <2>1, <2>4, <3>1, <4>1 DEF Few
    <3>. QED BY <2>1, <2>4, <3>2 DEF Few
  <2>5. CASE ~(Found(i) = {} /\ jobPc[j] = "map" /\ item[j][1] = i)
    <3>1. ASSUME Found(i) = {} PROVE Loose(i)' \subseteq Loose(i)
      <4>1. \A k \in AtMap(i) : k # j /\ k \in AtMap(i)' /\ local'[k] = local[k]
        BY <1>0, <2>2, <2>5, <3>1 DEF AtMap, Resting
      <4>. QED BY <2>1, <4>1 DEF Loose
    <3>. QED BY <2>1, <2>2, <3>1, FewStays
  <2>. QED BY <2>4, <2>5
<1>3. ASSUME NEW k \in Jobs \ {j} PROVE CopyJob(k)' /\ (Making(k)' => Making(k) /\ Resting(k))
  BY <1>0, RestingStays DEF Copying
<1>4. CopyJob(j)' /\ ~Making(j)'
  BY DEF CopyJob, Making
<1>5. \A k, m \in Jobs : Apart(k, m)'
  BY <1>3, <1>4 DEF Apart, Resting, Copying
<1>. QED BY <1>1, <1>2, <1>3, <1>4, <1>5 DEF Copying

LEMMA LookupCopies ==
    ASSUME Sync!SyncAssumption, SyncTypes, Copying, NEW j \in Jobs, Sync!Lookup(j)
    PROVE  Copying'
<1>1. PICK x \in fetched[j] :
        /\ item' = [item EXCEPT ![j] = x]
        /\ LET found == Sync!Mapped(Sync!Entity(j), Sync!Conn(j), x[1][3]) IN
           local' = [local EXCEPT ![j] =
                         IF found = {} THEN 0 ELSE (CHOOSE m \in found : TRUE).local]
  BY DEF Sync!Lookup
<1>2. /\ jobPc' = [jobPc EXCEPT ![j] = "write"] /\ jobPc[j] = "item" /\ Sync!Entity(j) # "inventory"
      /\ UNCHANGED <<rows, maps, cut>>
  BY DEF Sync!Lookup, Sync!Goto, Sync!NoFault, Sync!tables
<1>0. JobAt(j) /\ SyncJobs /\ x \in Versions /\ OwnJob(j) /\ \A m \in maps : m.local \in Nat \ {0}
  BY ItemStep DEF SyncTypes, SyncJobs, JobStep, SyncTables, Mapping
<1>. DEFINE i == x[1]
<1>3. i \in Sync!Items /\ Found(i) = Sync!Mapped(Sync!Entity(j), Sync!Conn(j), i[3])
  BY <1>0, <1>2 DEF Versions, Found, JobAt
<1>4. /\ jobPc'[j] = "write" /\ item'[j] = x
      /\ Found(i) = {} => local'[j] = 0
      /\ Found(i) # {} => local'[j] # 0 /\ \E m \in Found(i) : m.local = local'[j]
  <2>1. Found(i) \subseteq maps
    BY DEF Found, Sync!Mapped
  <2>. PICK F : F = Found(i)
    OBVIOUS
  <2>2. local' = [local EXCEPT ![j] = IF F = {} THEN 0 ELSE (CHOOSE m \in F : TRUE).local]
    BY <1>1, <1>3
  <2>3. F # {} => (CHOOSE m \in F : TRUE) \in F
    OBVIOUS
  <2>. QED BY <1>0, <1>1, <1>2, <2>1, <2>2, <2>3 DEF SyncJobs
<1>5. Longer /\ \A k \in Jobs \ {j} : Resting(k)
  BY <1>0, <1>2 DEF Longer, OwnJob, Resting
<1>. HIDE DEF i
<1>6. MapsOnce'
  BY <1>2, <1>5, MapsOnceStays DEF Copying
<1>7. ASSUME NEW y \in Sync!Items PROVE Few(y)'
  <2>0. cut'[y] \in Nat /\ cut[y] \in Nat /\ cut'[y] >= cut[y]
    BY <1>2, CopySets
  <2>1. Few(y) /\ Found(y)' = Found(y) /\ Sync!RowsOf(y)' = Sync!RowsOf(y)
    BY <1>2, FoundStays DEF Copying, Sync!RowsOf
  <2>2. AtMap(y)' = AtMap(y) /\ Loose(y)' = Loose(y)
    BY <1>2, <1>4, <1>5, <2>1 DEF AtMap, Resting, Loose
  <2>3. Found(y) # {} => ToMake(y)' \subseteq ToMake(y)
    BY <1>4, <1>5 DEF ToMake, Resting, i
  <2>. QED BY <2>0, <2>1, <2>2, <2>3, FewStays
<1>8. ASSUME NEW k \in Jobs \ {j} PROVE CopyJob(k)' /\ (Making(k)' => Making(k) /\ Resting(k))
  BY <1>2, <1>5, RestingStays DEF Copying
<1>9. CopyJob(j)' /\ ~Making(j)'
  BY <1>2, <1>4, FoundStays DEF CopyJob, Making, i
<1>10. \A k, m \in Jobs : Apart(k, m)'
  BY <1>8, <1>9 DEF Apart, Resting, Copying
<1>. QED BY <1>6, <1>7, <1>8, <1>9, <1>10 DEF Copying

LEMMA WriteFoundCopies ==
    ASSUME Sync!SyncAssumption, SyncTypes, Copying, NEW j \in Jobs, Sync!WriteFound(j)
    PROVE  Copying'
<1>. DEFINE i == item[j][1]
            l == local[j]
<1>1. /\ jobPc' = [jobPc EXCEPT ![j] = "map"] /\ jobPc[j] = "write" /\ l # 0
      /\ UNCHANGED <<maps, cut, item, local>>
      /\ Sync!Update(Sync!Entity(j), l, i, item[j][2])
  BY DEF Sync!WriteFound, Sync!Goto, Sync!NoFault, Sync!loop
<1>2. /\ SyncJobs /\ CopyJob(j) /\ OwnJob(j) /\ MapsOnce
      /\ i \in Sync!Items /\ i[2] \in Sync!Kinds /\ Sync!Entity(j) = i[2]
  BY <1>1, ItemTypes, ItemStep, SyncConstant DEF SyncTypes, Copying, JobStep
<1>3. /\ rows \in [Sync!Kinds -> Seq(Copied)]
      /\ rows' = IF l \in DOMAIN rows[i[2]]
                 THEN [rows EXCEPT ![i[2]][l] = [of |-> i, version |-> item[j][2], stock |-> None]]
                 ELSE rows
  BY <1>1, <1>2 DEF Sync!Update, SyncTypes, SyncTables
<1>4. PICK m \in Found(i) : m.local = l
  BY <1>1, <1>2 DEF CopyJob
<1>. HIDE DEF i, l
<1>5. Longer
  BY <1>2, <1>3 DEF Longer
<1>6. MapsOnce'
  BY <1>1, <1>2, <1>5, MapsOnceStays
<1>7. jobPc'[j] = "map" /\ item'[j] = item[j] /\ local'[j] = l
  BY <1>1, <1>2 DEF SyncJobs, l
<1>8. \A k \in Jobs \ {j} : Resting(k)
  BY <1>2 DEF OwnJob, Resting
<1>9. ASSUME NEW y \in Sync!Items PROVE Few(y)'
  <2>0. cut'[y] \in Nat /\ cut[y] \in Nat /\ cut'[y] >= cut[y]
    BY <1>1, CopySets
  <2>1. Few(y) /\ Found(y)' = Found(y)
    BY <1>1, FoundStays DEF Copying
  <2>2. ToMake(y)' \subseteq ToMake(y)
    BY <1>7, <1>8 DEF ToMake, Resting
  <2>3. Sync!RowsOf(y)' \subseteq Sync!RowsOf(y) \cup (IF y = i THEN {l} ELSE {})
    <3>1. DOMAIN rows'[y[2]] = DOMAIN rows[y[2]]
      BY <1>2, <1>3, SyncConstant
    <3>2. ASSUME NEW n \in DOMAIN rows[y[2]], rows'[y[2]][n].of = y, y # i \/ n # l
          PROVE  rows[y[2]][n].of = y
      <4>1. CASE y[2] = i[2] /\ n = l
        BY <1>2, <1>3, <3>2, <4>1
      <4>2. CASE ~(y[2] = i[2] /\ n = l)
        BY <1>2, <1>3, <3>2, <4>2, SyncConstant
      <4>. QED BY <4>1, <4>2
    <3>. QED BY <3>1, <3>2 DEF Sync!RowsOf
  <2>4. CASE y = i
    <3>1. \A n \in Found(i) : n = m
      BY <1>2 DEF MapsOnce, Found, Sync!Mapped
    <3>. QED BY <1>4, <2>0, <2>1, <2>2, <2>3, <2>4, <3>1, FewStays
  <2>5. CASE y # i
    <3>1. AtMap(y)' = AtMap(y)
      BY <1>1, <1>7, <1>8, <2>5 DEF AtMap, Resting, i
    <3>2. Loose(y)' \subseteq Loose(y)
      BY <1>1, <2>3, <2>5, <3>1 DEF Loose
    <3>. QED BY <2>0, <2>1, <2>2, <2>3, <2>5, <3>2, FewStays
  <2>. QED BY <2>4, <2>5
<1>10. ASSUME NEW k \in Jobs \ {j} PROVE CopyJob(k)' /\ (Making(k)' => Making(k) /\ Resting(k))
  BY <1>1, <1>5, <1>8, RestingStays DEF Copying
<1>11. i[2] # "invoice"
  BY <1>2, <1>4, SyncConstant DEF MapsOnce, Found, Sync!Mapped
<1>12. CopyJob(j)' /\ ~Making(j)'
  BY <1>1, <1>4, <1>7, <1>11, FoundStays DEF CopyJob, Making, i
<1>13. \A k, n \in Jobs : Apart(k, n)'
  BY <1>10, <1>12 DEF Apart, Resting, Copying
<1>. QED BY <1>6, <1>9, <1>10, <1>12, <1>13 DEF Copying

LEMMA WriteNewCopies ==
    ASSUME Sync!SyncAssumption, SyncTypes, Copying, NEW j \in Jobs, Sync!WriteNew(j)
    PROVE  Copying'
<1>. DEFINE i == item[j][1]
            r == [of |-> i, version |-> item[j][2], stock |-> None]
            k == i[2]
            n == Len(rows[k]) + 1
<1>1. /\ jobPc' = [jobPc EXCEPT ![j] = "map"] /\ jobPc[j] = "write" /\ local[j] = 0
      /\ UNCHANGED <<maps, cut, item>> /\ Sync!Entity(j) # "invoice"
      /\ rows' = [rows EXCEPT ![Sync!Entity(j)] = Append(@, r)]
      /\ local' = [local EXCEPT ![j] = Len(rows'[Sync!Entity(j)])]
  BY DEF Sync!WriteNew, Sync!Goto, Sync!NoFault
<1>2. /\ SyncJobs /\ OwnJob(j) /\ MapsOnce /\ i \in Sync!Items /\ k \in Sync!Kinds
      /\ Sync!Entity(j) = k /\ r \in Copied /\ rows \in [Sync!Kinds -> Seq(Copied)]
  <2>1. /\ i \in Sync!Items /\ k \in Sync!Kinds /\ Sync!Entity(j) = k
        /\ item[j][2] \in 0..MaxVersion
    BY <1>1, ItemTypes, SyncConstant
  <2>2. r \in Copied
    BY <2>1 DEF Copied
  <2>3. OwnJob(j)
    BY ItemStep DEF JobStep
  <2>. QED BY <2>1, <2>2, <2>3 DEF SyncTypes, Copying, SyncTables
<1>3. /\ rows' = [rows EXCEPT ![k] = Append(@, r)] /\ r.of = i
      /\ DOMAIN rows[k] = 1..(n - 1) /\ n \in Nat \ {0} /\ DOMAIN rows'[k] = 1..n
      /\ rows'[k][n] = r /\ \A x \in 1..(n - 1) : rows'[k][x] = rows[k][x]
      /\ local' = [local EXCEPT ![j] = n]
  <2>. PICK s \in Seq(Copied), e \in Copied : s = rows[k] /\ e = r
    BY <1>2
  <2>. HIDE DEF r, i
  <2>1. /\ DOMAIN s = 1..Len(s) /\ Len(s) \in Nat /\ Append(s, e) \in Seq(Copied)
        /\ Len(Append(s, e)) = Len(s) + 1 /\ Append(s, e)[Len(s) + 1] = e
        /\ \A x \in 1..Len(s) : Append(s, e)[x] = s[x]
    BY LenProperties, AppendProperties
  <2>2. DOMAIN Append(s, e) = 1..(Len(s) + 1)
    BY <2>1, LenProperties
  <2>3. rows'[k] = Append(s, e) /\ n = Len(s) + 1
    BY <1>1, <1>2
  <2>4. Len(rows'[k]) = n
    BY <2>1, <2>3
  <2>5. local' = [local EXCEPT ![j] = n]
    BY <1>1, <1>2, <2>4
  <2>6. DOMAIN rows[k] = 1..(n - 1) /\ n \in Nat \ {0} /\ DOMAIN rows'[k] = 1..n
    BY <2>1, <2>2, <2>3
  <2>7. rows'[k][n] = r /\ \A x \in 1..(n - 1) : rows'[k][x] = rows[k][x]
    BY <2>1, <2>3
  <2>8. rows' = [rows EXCEPT ![k] = Append(@, r)]
    BY <1>1, <1>2
  <2>. QED BY <2>5, <2>6, <2>7, <2>8 DEF r
<1>. HIDE DEF i, r, k, n
<1>4. /\ Longer /\ n \notin DOMAIN rows[k] /\ n \in DOMAIN rows'[k]
  BY <1>2, <1>3 DEF Longer
<1>5. MapsOnce'
  BY <1>1, <1>2, <1>4, MapsOnceStays
<1>6. jobPc'[j] = "map" /\ item'[j] = item[j] /\ local'[j] = n
  BY <1>1, <1>2, <1>3 DEF SyncJobs
<1>7. \A x \in Jobs \ {j} : Resting(x)
  BY <1>2 DEF OwnJob, Resting
<1>8. ASSUME NEW y \in Sync!Items PROVE Few(y)'
  <2>0. cut'[y] \in Nat /\ cut[y] \in Nat /\ cut'[y] >= cut[y]
    BY <1>1, CopySets
  <2>1. Few(y) /\ Found(y)' = Found(y)
    BY <1>1, FoundStays DEF Copying
  <2>2. Sync!RowsOf(y)' = Sync!RowsOf(y) \cup (IF y = i THEN {n} ELSE {})
    <3>1. CASE y[2] = k
      BY <1>3, <3>1 DEF Sync!RowsOf, k
    <3>2. CASE y[2] # k
      BY <1>2, <1>3, <3>2, SyncConstant DEF Sync!RowsOf, k
    <3>. QED BY <3>1, <3>2
  <2>3. CASE y # i
    <3>1. AtMap(y)' = AtMap(y) /\ ToMake(y)' \subseteq ToMake(y)
      BY <1>1, <1>6, <1>7, <2>3 DEF AtMap, ToMake, Resting, i
    <3>2. Loose(y)' \subseteq Loose(y)
      BY <1>1, <1>7, <2>2, <2>3, <3>1 DEF Loose, AtMap, Resting, i
    <3>. QED BY <2>0, <2>1, <2>2, <2>3, <3>1, <3>2, FewStays
  <2>4. CASE y = i
    <3>1. AtMap(y)' = AtMap(y) \cup {j} /\ ToMake(y)' = ToMake(y) \ {j} /\ j \in ToMake(y)
      BY <1>1, <1>6, <1>7, <2>4 DEF AtMap, ToMake, Resting, i
    <3>2. Loose(y)' \subseteq Loose(y)
      BY <1>1, <1>6, <1>7, <2>2, <2>4, <3>1 DEF Loose, AtMap, Resting, i
    <3>3. Cardinality(ToMake(y)') = Cardinality(ToMake(y)) - 1 /\ Cardinality(ToMake(y)) \in Nat
      <4>. PICK S, T : S = ToMake(y) /\ T = ToMake(y)'
        OBVIOUS
      <4>. QED BY <1>2, <3>1, CopySets, FS_RemoveElement
    <3>4. ASSUME NEW m \in Found(y)'
          PROVE  Cardinality(Sync!RowsOf(y)' \ {m.local}) + 1 + Cardinality(ToMake(y)')
                    <= Cardinality(Jobs) + cut'[y] + (IF m.type # y[2] THEN 1 ELSE 0)
      <4>. PICK l : l = m.local
        OBVIOUS
      <4>. PICK S, T : S = Sync!RowsOf(y) \ {l} /\ T = Sync!RowsOf(y)' \ {l}
        OBVIOUS
      <4>1. IsFiniteSet(S) /\ T \subseteq S \cup {n} /\ Cardinality(Jobs) \in Nat
        BY <1>2, <2>2, <2>4, CopySets, FS_Subset
      <4>2. /\ Cardinality(T) \in Nat /\ Cardinality(S) \in Nat /\ Cardinality(T) <= Cardinality(S) + 1
        BY <4>1, OneMoreAtMost
      <4>3. Cardinality(S) + 1 + Cardinality(ToMake(y))
               <= Cardinality(Jobs) + cut[y] + (IF m.type # y[2] THEN 1 ELSE 0)
        BY <2>1, <2>4 DEF Few
      <4>4. cut'[y] = cut[y]
        BY <1>1
      <4>. QED BY <2>0, <2>4, <3>3, <4>1, <4>2, <4>3, <4>4
    <3>5. ASSUME Found(y)' = {} PROVE Cardinality(Loose(y)') <= cut'[y]
      <4>. PICK S, T : S = Loose(y) /\ T = Loose(y)'
        OBVIOUS
      <4>1. Cardinality(T) \in Nat /\ Cardinality(S) \in Nat /\ Cardinality(T) <= Cardinality(S)
        BY <1>2, <3>2, CopySets, Smaller
      <4>. QED BY <1>1, <2>0, <2>1, <2>4, <3>5, <4>1 DEF Few
    <3>. QED BY <2>4, <3>4, <3>5 DEF Few
  <2>. QED BY <2>3, <2>4
<1>9. ASSUME NEW x \in Jobs \ {j} PROVE CopyJob(x)' /\ (Making(x)' => Making(x) /\ Resting(x))
  BY <1>1, <1>4, <1>7, RestingStays DEF Copying
<1>10. CopyJob(j)'
  <2>1. \A m \in maps : m.type = k => m.local # n
    BY <1>2, <1>4 DEF MapsOnce
  <2>. QED BY <1>1, <1>2, <1>4, <1>6, <2>1 DEF CopyJob, Making, i, k
<1>11. \A x \in Jobs \ {j} : Making(x) /\ item[x][1][2] = k => local[x] # n
  BY <1>4 DEF Copying, CopyJob
<1>12. \A x, y \in Jobs : Apart(x, y)'
  BY <1>6, <1>9, <1>11 DEF Apart, Resting, Copying, i, k
<1>. QED BY <1>5, <1>8, <1>9, <1>10, <1>12 DEF Copying

-------------------------------------------------------------------------------
\* A mapping is stored where the remote system's id had none.
LEMMA StoredMapping ==
    ASSUME Sync!SyncAssumption, SyncTypes, Copying, NEW new \in Mapping,
           maps' = maps \cup {new}, UNCHANGED <<rows, cut>>,
           \A m \in maps : m.system # new.system \/ m.id # new.id,
           /\ new.system = "zjmf_finance" => new.type = "client"
           /\ new.system = "zjmf_v10" => new.type \in {"product", "subscription"}
           /\ new.type = "subscription" => new.id = 1
           /\ new.type \in Sync!Kinds => new.local \in DOMAIN rows[new.type],
           \/ new.type = "subscription" /\ \A k \in Jobs : Resting(k)
           \/ \E j \in Jobs, y \in Sync!Items :
                 /\ jobPc[j] = "map" /\ jobPc'[j] = "item" /\ local[j] = new.local
                 /\ \A k \in Jobs \ {j} : Resting(k)
                 /\ Making(j) /\ y = item[j][1] /\ new.type = y[2] /\ new \in Found(y)'
    PROVE  Copying'
<1>0. /\ \A k \in Jobs :
            \/ Resting(k)
            \/ /\ jobPc'[k] = "item" /\ jobPc[k] = "map"
               /\ \E y \in Sync!Items : item[k][1] = y /\ new \in Found(y)'
      /\ \A i \in Sync!Items : /\ Found(i) \subseteq Found(i)' /\ Found(i)' \subseteq Found(i) \cup {new}
                               /\ new \in Found(i)' => Found(i) = {}
  BY DEF Found, Sync!Mapped
<1>1. MapsOnce'
  BY DEF Copying, MapsOnce
<1>2. ASSUME NEW i \in Sync!Items PROVE Few(i)'
  <2>1. Few(i) /\ Sync!RowsOf(i)' = Sync!RowsOf(i) /\ cut'[i] = cut[i]
    BY DEF Copying, Sync!RowsOf
  <2>2. /\ Cardinality(Jobs) \in Nat /\ cut[i] \in Nat
        /\ Cardinality(ToMake(i)) \in Nat
    BY CopySets
  <2>3. ToMake(i)' = ToMake(i)
    BY <1>0 DEF ToMake, Resting
  <2>4. CASE new \notin Found(i)'
    <3>1. AtMap(i)' = AtMap(i) /\ Found(i)' = Found(i)
      BY <1>0, <2>4 DEF AtMap, Resting
    <3>2. \A k \in AtMap(i) : local'[k] = local[k]
      BY <1>0, <2>4 DEF AtMap, Resting
    <3>3. Loose(i)' = Loose(i)
      BY <2>1, <3>1, <3>2 DEF Loose
    <3>. QED BY <2>1, <2>2, <2>3, <3>1, <3>3, FewStays
  <2>5. CASE new \in Found(i)'
    <3>. PICK n, R : n = new.local /\ R = Sync!RowsOf(i) \ {n}
      OBVIOUS
    <3>1. Found(i) = {} /\ Found(i)' = {new}
      BY <1>0, <2>5
    <3>2. /\ Cardinality(R) \in Nat
          /\ Cardinality(R) + Cardinality(ToMake(i)) <= Cardinality(Jobs) + cut[i]
          /\ \A j \in Jobs : jobPc[j] = "map" /\ n = local[j] =>
                Cardinality(R) + Cardinality(ToMake(i)) + 1 <= Cardinality(Jobs) + cut[i]
      BY <2>1, <3>1, RowsBeforeMapping
    <3>3. new.type # i[2] \/ \E j \in Jobs : jobPc[j] = "map" /\ n = local[j]
      BY SyncConstant
    <3>4. Cardinality(R) + 1 + Cardinality(ToMake(i))
             <= Cardinality(Jobs) + cut[i] + (IF new.type # i[2] THEN 1 ELSE 0)
      <4>1. CASE new.type # i[2]
        BY <2>2, <3>2, <4>1
      <4>2. CASE new.type = i[2]
        <5>1. Cardinality(R) + Cardinality(ToMake(i)) + 1 <= Cardinality(Jobs) + cut[i]
          BY <3>2, <3>3, <4>2
        <5>. QED BY <2>2, <3>2, <4>2, <5>1
      <4>. QED BY <4>1, <4>2
    <3>. QED BY <2>1, <2>3, <3>1, <3>4 DEF Few
  <2>. QED BY <2>4, <2>5
<1>3. ASSUME NEW k \in Jobs, Resting(k) PROVE CopyJob(k)' /\ (Making(k)' => Making(k))
  <2>1. CopyJob(k)
    BY DEF Copying
  <2>2. jobPc[k] \in {"write", "map"} =>
           item[k][1] \in Sync!Items /\ item[k][1][2] \in Sync!Kinds
    BY ItemTypes, SyncConstant
  <2>3. jobPc[k] \in {"write", "map"} => Found(item[k][1]) \subseteq Found(item[k][1])'
    BY <1>0, <1>3, <2>2 DEF Resting
  <2>4. Making(k)' => Making(k)
    BY <1>3, <2>3 DEF Making, Resting
  <2>5. ASSUME Making(k)', new.type = item[k][1][2] PROVE new.local # local[k]
    <3>1. jobPc[k] = "map" /\ Making(k)
      BY <1>3, <2>4, <2>5 DEF Making, Resting
    <3>2. PICK j \in Jobs : /\ jobPc[j] = "map" /\ jobPc'[j] = "item" /\ local[j] = new.local
                            /\ Making(j) /\ new.type = item[j][1][2]
      BY <2>2, <2>5, <3>1, SyncConstant
    <3>3. j # k
      BY <1>3, <3>1, <3>2 DEF Resting
    <3>. QED BY <2>5, <3>1, <3>2, <3>3 DEF Apart, Copying
  <2>6. jobPc'[k] = jobPc[k] /\ item'[k] = item[k] /\ local'[k] = local[k]
    BY <1>3 DEF Resting
  <2>8. CASE jobPc[k] = "write"
    <3>1. local[k] # 0 => \E m \in Found(item[k][1])' : m.local = local[k]
      BY <2>1, <2>3, <2>8 DEF CopyJob
    <3>. QED BY <2>4, <2>6, <2>8, <3>1 DEF CopyJob, Making
  <2>9. CASE jobPc[k] = "map"
    BY <2>1, <2>4, <2>5, <2>6, <2>9 DEF CopyJob, Making
  <2>. QED BY <2>4, <2>6, <2>8, <2>9 DEF CopyJob, Making
<1>4. \A k \in Jobs : CopyJob(k)' /\ (Making(k)' => Making(k) /\ Resting(k))
  BY <1>0, <1>3 DEF CopyJob, Making
<1>5. \A j, k \in Jobs : Apart(j, k)'
  BY <1>4 DEF Apart, Resting, Copying
<1>. QED BY <1>1, <1>2, <1>4, <1>5 DEF Copying

LEMMA MapItCopies ==
    ASSUME Sync!SyncAssumption, SyncTypes, Copying, NEW j \in Jobs, Sync!MapIt(j)
    PROVE  Copying'
<1>. DEFINE i == item[j][1]
            c == Sync!Conn(j)
            k == Sync!Entity(j)
            s == Sync!System(c)
            new == [type |-> k, local |-> local[j], system |-> s, id |-> i[3]]
<1>1. /\ jobPc[j] = "map" /\ UNCHANGED <<rows, cut>> /\ jobPc' = [jobPc EXCEPT ![j] = "item"]
      /\ maps' = IF Sync!Holding(k, local[j], s) # {} \/ Sync!Holder(s, i[3]) # {}
                 THEN maps ELSE maps \cup {new}
  BY DEF Sync!MapIt, Sync!NextItem, Sync!Goto, Sync!NoFault
<1>2. /\ SyncJobs /\ JobAt(j) /\ CopyJob(j) /\ OwnJob(j) /\ MapsOnce /\ maps \subseteq Mapping
      /\ cut \in [Sync!Items -> Nat] /\ local[j] \in Nat \ {0}
  BY <1>1, ItemStep DEF SyncTypes, SyncJobs, JobAt, JobStep, SyncTables, Copying
<1>3. /\ i \in Sync!Items /\ i[2] = k /\ i[3] \in Ids /\ i = <<c, k, i[3]>> /\ k \in Sync!Kinds
      /\ k # "invoice" /\ c \in Sync!Conns
  BY <1>1, <1>2, ItemTypes, SyncConstant DEF CopyJob
<1>4. /\ s \in {"zjmf_v10", "zjmf_finance"}
      /\ s = "zjmf_finance" => k = "client"
      /\ s = "zjmf_v10" => k = "product"
  BY <1>1, <1>2, <1>3, SyncConstant DEF JobAt, Busy, Sync!EntitiesOf, Sync!System
<1>5. /\ jobPc'[j] = "item" /\ \A x \in Jobs \ {j} : Resting(x)
  BY <1>1, <1>2 DEF SyncJobs, OwnJob, Resting
<1>6. Found(i) = {m \in maps : m.system = s /\ m.id = i[3] /\ (k = "product" \/ m.type = k)}
  BY <1>3 DEF Found, Sync!Mapped
<1>7. CASE maps' = maps
  <2>1. Found(i) # {}
    <3>. SUFFICES ASSUME Found(i) = {} PROVE FALSE
      OBVIOUS
    <3>1. \A m \in maps : m.type = k => m.local # local[j]
      BY <1>1, <1>3 DEF CopyJob, Making, Copying
    <3>2. Sync!Holding(k, local[j], s) = {}
      BY <3>1 DEF Sync!Holding
    <3>3. CASE Sync!Holder(s, i[3]) # {}
      BY <1>2, <1>3, <1>4, <1>6, <3>3 DEF Sync!Holder, MapsOnce
    <3>4. CASE Sync!Holder(s, i[3]) = {}
      <4>1. new \in maps /\ new.system = s /\ new.id = i[3]
        BY <1>1, <1>7, <3>2, <3>4
      <4>. HIDE DEF new
      <4>. QED BY <3>4, <4>1 DEF Sync!Holder
    <3>. QED BY <3>3, <3>4
  <2>. QED BY <1>1, <1>2, <1>5, <1>7, <2>1, LeaveItem
<1>8. CASE maps' # maps
  <2>1. maps' = maps \cup {new} /\ Sync!Holder(s, i[3]) = {}
    BY <1>1, <1>8
  <2>2. \A m \in maps : m.system # s \/ m.id # i[3]
    BY <2>1 DEF Sync!Holder
  <2>3. Making(j)
    BY <1>1, <1>6, <2>2 DEF Making
  <2>4. new \in Mapping
    BY <1>2, <1>3, <1>4 DEF Mapping
  <2>. PICK y \in Sync!Items : y = i
    BY <1>3
  <2>5. new \in Found(y)'
    BY <1>3, <2>1 DEF Found, Sync!Mapped
  <2>6. /\ new.system = s /\ new.id = i[3] /\ new.type = k /\ new.local = local[j]
    OBVIOUS
  <2>7. k # "subscription" /\ local[j] \in DOMAIN rows[k]
    BY <1>2, <1>3, <2>3, SyncConstant DEF CopyJob
  <2>. PICK mapping \in Mapping : mapping = new
    BY <2>4
  <2>. HIDE DEF new, s, k, c, i
  <2>. QED BY <1>1, <1>3, <1>4, <1>5, <2>1, <2>2, <2>3, <2>5, <2>6, <2>7, StoredMapping DEF i
<1>. QED BY <1>7, <1>8

LEMMA ItemFailsCopies ==
    ASSUME Sync!SyncAssumption, SyncTypes, Copying, NEW j \in Jobs,
           Sync!WriteInvoice(j) \/ Sync!ItemFails(j)
    PROVE  Copying'
<1>1. OwnJob(j) /\ cut' \in [Sync!Items -> Nat] /\ SyncJobs
  BY ItemStep DEF JobStep, SyncTables, SyncTypes
<1>2. /\ jobPc[j] \in {"write", "map"} /\ UNCHANGED <<rows, maps>> /\ jobPc' = [jobPc EXCEPT ![j] = "item"]
      /\ \/ jobPc[j] = "write" /\ cut' = cut
         \/ jobPc[j] = "map" /\ cut' = [cut EXCEPT ![item[j][1]] = @ + 1]
  BY DEF Sync!WriteInvoice, Sync!ItemFails, Sync!NextItem, Sync!Goto, Sync!NoFault, Sync!tables
<1>3. jobPc'[j] = "item"
  BY <1>1, <1>2 DEF SyncJobs
<1>4. CASE jobPc[j] = "write"
  <2>1. cut' = cut /\ rows' = rows /\ maps' = maps
    BY <1>2, <1>4
  <2>2. \/ cut' = cut /\ (jobPc[j] = "write" \/ (jobPc[j] = "map" /\ Found(item[j][1]) # {}))
        \/ jobPc[j] = "map" /\ cut' = [cut EXCEPT ![item[j][1]] = @ + 1]
    BY <1>4, <2>1
  <2>. QED BY <1>1, <1>3, <2>1, <2>2, LeaveItem
<1>5. CASE jobPc[j] = "map"
  BY <1>1, <1>2, <1>3, <1>5, LeaveItem
<1>. QED BY <1>2, <1>4, <1>5

\* The stock of a row says nothing of whose row it is.
LEMMA StockCopies ==
    ASSUME Sync!SyncAssumption, SyncTypes, Copying, NEW j \in Jobs, Sync!Stock(j) \/ Sync!StockFails(j)
    PROVE  Copying'
<1>1. /\ UNCHANGED <<maps, cut, jobPc, item, local>>
      /\ \/ rows' = rows
         \/ \E n \in DOMAIN rows["product"] : \E x : rows' = [rows EXCEPT !["product"][n].stock = x]
  BY DEF Sync!Stock, Sync!StockFails, Sync!tables, Sync!NoFault
<1>2. rows \in [Sync!Kinds -> Seq(Copied)] /\ "product" \in Sync!Kinds
  BY SyncConstant DEF SyncTypes, SyncTables
<1>3. ASSUME NEW k \in Sync!Kinds
      PROVE  DOMAIN rows'[k] = DOMAIN rows[k] /\ \A n \in DOMAIN rows[k] : rows'[k][n].of = rows[k][n].of
  <2>1. CASE rows' = rows
    BY <2>1
  <2>2. ASSUME NEW n \in DOMAIN rows["product"], NEW x, rows' = [rows EXCEPT !["product"][n].stock = x]
        PROVE  DOMAIN rows'[k] = DOMAIN rows[k] /\ \A m \in DOMAIN rows[k] : rows'[k][m].of = rows[k][m].of
    <3>. PICK s \in Seq(Copied) : s = rows["product"]
      BY <1>2
    <3>1. s[n] \in Copied
      BY <2>2, LenProperties, ElementOfSeq
    <3>. DEFINE r == [s[n] EXCEPT !.stock = x]
    <3>2. r.of = s[n].of
      BY <3>1 DEF Copied
    <3>3. rows' = [rows EXCEPT !["product"] = [s EXCEPT ![n] = r]]
      BY <1>2, <2>2
    <3>. HIDE DEF r
    <3>. QED BY <1>2, <2>2, <3>2, <3>3
  <2>. QED BY <1>1, <2>1, <2>2
<1>4. \A i \in Sync!Items : Sync!RowsOf(i)' = Sync!RowsOf(i)
  BY <1>3, SyncConstant DEF Sync!RowsOf
<1>5. Longer /\ \A k \in Jobs : Resting(k)
  BY <1>1, <1>3 DEF Longer, Resting
<1>. QED BY <1>1, <1>4, <1>5, QuietCopies

LEMMA TaskCopies ==
    ASSUME Sync!SyncAssumption, SyncTypes, Copying, NEW j \in Jobs,
           \/ Sync!RunProductSync(j) \/ Sync!RunInventorySync(j) \/ Sync!RunClientSync(j)
           \/ Sync!Trigger(j)
           \/ Sync!GetAdapter(j) \/ Sync!NoAdapter(j) \/ Sync!Check(j) \/ Sync!Mark(j)
           \/ Sync!NothingToSync(j) \/ Sync!Fetch(j) \/ Sync!FetchFails(j) \/ Sync!Clear(j)
           \/ Sync!Finish(j)
    PROVE  Copying'
<1>1. /\ OwnJob(j) /\ JobAt(j) /\ JobAt(j)' /\ UNCHANGED <<rows, maps, cut>>
  BY StartTypes, TaskStep DEF JobStep, SyncTypes
<1>2. Aside(j)
  <2>. USE DEF Sync!Goto, Sync!loop, SyncTypes, SyncJobs, Aside
  <2>1. CASE \/ Sync!RunProductSync(j) \/ Sync!RunInventorySync(j) \/ Sync!RunClientSync(j)
             \/ Sync!Trigger(j)
    <3>1. \E tasks, one : Sync!Begin(j, tasks, one)
      BY <2>1 DEF Sync!RunProductSync, Sync!RunInventorySync, Sync!RunClientSync, Sync!Trigger,
                  Sync!RunFor
    <3>. QED BY <3>1 DEF Sync!Begin
  <2>2. CASE Sync!GetAdapter(j) \/ Sync!Mark(j) \/ Sync!NothingToSync(j) \/ Sync!Fetch(j) \/ Sync!Finish(j)
    BY <2>2 DEF Sync!GetAdapter, Sync!Mark, Sync!NothingToSync, Sync!Fetch, Sync!Finish
  <2>3. CASE Sync!FetchFails(j)
    BY <2>3 DEF Sync!FetchFails, Sync!Retry
  <2>4. CASE Sync!NoAdapter(j) \/ Sync!Check(j) \/ Sync!Clear(j)
    BY <2>4 DEF Sync!NoAdapter, Sync!Check, Sync!Clear, Sync!Onward
  <2>. QED BY <2>1, <2>2, <2>3, <2>4
<1>3. Longer /\ \A i \in Sync!Items : Sync!RowsOf(i)' = Sync!RowsOf(i)
  BY <1>1 DEF Longer, Sync!RowsOf
<1>4. \A k \in Jobs : Resting(k) \/ Aside(k)
  BY <1>1, <1>2 DEF OwnJob, Resting
<1>. QED BY <1>1, <1>3, <1>4, QuietCopies

LEMMA OutsideCopies ==
    ASSUME Sync!SyncAssumption, SyncTypes, Copying, Sync!Outside PROVE Copying'
<1>1. UNCHANGED <<rows, jobPc, item, local, cut>>
  BY OutsideTypes
<1>2. Longer /\ (\A k \in Jobs : Resting(k)) /\ \A i \in Sync!Items : Sync!RowsOf(i)' = Sync!RowsOf(i)
  BY <1>1 DEF Longer, Resting, Sync!RowsOf
<1>3. CASE maps' = maps
  BY <1>1, <1>2, <1>3, QuietCopies
<1>4. ASSUME NEW n \in Servers, Sync!StoreEntityMapping(n) PROVE Copying'
  <2>. DEFINE new == [type |-> "subscription", local |-> n, system |-> "zjmf_v10", id |-> 1]
  <2>1. \A m \in maps : m.system # "zjmf_v10" \/ m.id # 1
    BY <1>4 DEF Sync!StoreEntityMapping, Sync!Holder
  <2>2. \A m \in maps : m \notin Sync!Holding("subscription", n, "zjmf_v10")
    BY <2>1 DEF Sync!Holding, Copying, MapsOnce
  <2>3. maps' = maps \cup {new}
    BY <1>4, <2>2 DEF Sync!StoreEntityMapping
  <2>4. new \in Mapping
    BY <1>4, SyncConstant DEF Mapping
  <2>5. "subscription" \notin Sync!Kinds
    BY SyncConstant
  <2>6. new.type = "subscription" /\ new.system = "zjmf_v10" /\ new.id = 1
    OBVIOUS
  <2>. HIDE DEF new
  <2>. QED BY <1>1, <1>2, <2>1, <2>3, <2>4, <2>5, <2>6, StoredMapping
<1>5. maps' = maps \/ \E n \in Servers : Sync!StoreEntityMapping(n)
  BY DEF Sync!Outside, Sync!RemoteChanges, Sync!Switch, Sync!tables
<1>. QED BY <1>3, <1>4, <1>5

\* The threads that were about to map an item leave it a row each.
LEMMA CrashCopies ==
    ASSUME Sync!SyncAssumption, SyncTypes, Copying, Sync!Crash PROVE Copying'
<1>1. /\ UNCHANGED <<rows, maps>> /\ \A j \in Jobs : jobPc'[j] = "idle"
      /\ \A i \in Sync!Items : cut'[i] = cut[i] + Sync!Cardinality(AtMap(i))
  BY DEF Sync!Crash, Sync!tables, AtMap
<1>2. MapsOnce'
  BY <1>1, MapsOnceStays DEF Copying, Longer
<1>3. ASSUME NEW i \in Sync!Items PROVE Few(i)'
  <2>0. Few(i) /\ Found(i)' = Found(i) /\ Sync!RowsOf(i)' = Sync!RowsOf(i)
    BY <1>1, FoundStays DEF Copying, Sync!RowsOf
  <2>. PICK A, R, f : A = AtMap(i) /\ R = Sync!RowsOf(i) /\ f = local
    OBVIOUS
  <2>1. /\ IsFiniteSet(A) /\ IsFiniteSet(R) /\ cut[i] \in Nat /\ Cardinality(A) \in Nat
    BY CopySets, FS_CardinalityType
  <2>2. cut'[i] = cut[i] + Cardinality(A)
    <3>1. Sync!Cardinality(A) = Cardinality(A)
      BY DEF Sync!Cardinality, Cardinality
    <3>. QED BY <1>1, <3>1
  <2>3. CASE Found(i) = {}
    <3>1. Loose(i) = {n \in R : \A k \in A : f[k] # n}
      BY DEF Loose
    <3>2. Cardinality(R) <= Cardinality(Loose(i)) + Cardinality(A) /\ Cardinality(R) \in Nat
          /\ Cardinality(Loose(i)) \in Nat
      BY <2>1, <3>1, CoveredBy
    <3>3. Loose(i)' = R
      BY <1>1, <2>0 DEF Loose, AtMap
    <3>4. Cardinality(R) <= cut'[i]
      BY <2>0, <2>1, <2>2, <2>3, <3>2 DEF Few
    <3>. QED BY <2>0, <2>3, <3>3, <3>4 DEF Few
  <2>4. CASE Found(i) # {}
    <3>1. ToMake(i)' \subseteq ToMake(i)
      BY <1>1 DEF ToMake
    <3>2. cut'[i] \in Nat /\ cut'[i] >= cut[i]
      BY <2>1, <2>2
    <3>. QED BY <2>0, <2>4, <3>1, <3>2, FewStays
  <2>. QED BY <2>3, <2>4
<1>4. \A j \in Jobs : CopyJob(j)' /\ ~Making(j)'
  BY <1>1 DEF CopyJob, Making
<1>5. \A j, k \in Jobs : Apart(j, k)'
  BY <1>4 DEF Apart
<1>. QED BY <1>2, <1>3, <1>4, <1>5 DEF Copying

LEMMA InitCopies ==
    ASSUME Sync!SyncAssumption, Sync!Init PROVE Copying
<1>. USE DEF Sync!Init
<1>1. MapsOnce
  BY DEF MapsOnce
<1>2. ASSUME NEW i \in Sync!Items PROVE Few(i)
  <2>1. Found(i) = {} /\ cut[i] = 0
    BY DEF Found, Sync!Mapped
  <2>2. Sync!RowsOf(i) = {}
    <3>1. i # None /\ i[2] \in Sync!Kinds
      BY SyncConstant
    <3>2. \A n \in DOMAIN rows[i[2]] : rows[i[2]][n].of = None
      BY <3>1 DEF Sync!Blank
    <3>. QED BY <3>1, <3>2 DEF Sync!RowsOf
  <2>3. Loose(i) = {}
    BY <2>2 DEF Loose
  <2>4. Cardinality(Loose(i)) = 0
    BY <2>3, FS_EmptySet
  <2>. QED BY <2>1, <2>4 DEF Few
<1>3. \A j, k \in Jobs : CopyJob(j) /\ Apart(j, k)
  BY DEF CopyJob, Apart, Making
<1>. QED BY <1>1, <1>2, <1>3 DEF Copying

LEMMA CopiesStep ==
    ASSUME Sync!SyncAssumption, SyncTypes, Copying, [Sync!Next]_(Sync!vars)
    PROVE  Copying'
<1>1. ASSUME NEW j \in Jobs, JobActs(j) PROVE Copying'
  BY <1>1, TaskCopies, LookupCopies, WriteFoundCopies, WriteNewCopies, MapItCopies, ItemFailsCopies,
     StockCopies DEF JobActs, Sync!Run, Sync!Fails
<1>2. CASE UNCHANGED Sync!vars
  <2>1. UNCHANGED <<rows, maps, jobPc, item, local, cut>>
    BY <1>2 DEF Sync!vars, Sync!tables, Sync!loop
  <2>2. Longer /\ (\A k \in Jobs : Resting(k)) /\ \A i \in Sync!Items : Sync!RowsOf(i)' = Sync!RowsOf(i)
    BY <2>1 DEF Longer, Resting, Sync!RowsOf
  <2>. QED BY <2>1, <2>2, QuietCopies
<1>. QED BY <1>1, <1>2, OutsideCopies, CrashCopies, SyncNext

LEMMA FewCopies ==
    ASSUME Sync!SyncAssumption, SyncTypes, Copying PROVE Sync!CopiesBounded
<1>. SUFFICES ASSUME NEW i \in Sync!Items
     PROVE  Sync!Cardinality(Sync!RowsOf(i))
               <= Sync!Cardinality(Jobs) + cut[i] + (IF Sync!Misled(i) THEN 1 ELSE 0)
  BY DEF Sync!CopiesBounded
<1>. PICK R : R = Sync!RowsOf(i)
  OBVIOUS
<1>1. Sync!Cardinality(R) = Cardinality(R) /\ Sync!Cardinality(Jobs) = Cardinality(Jobs)
  BY DEF Sync!Cardinality, Cardinality
<1>2. /\ Few(i) /\ IsFiniteSet(R) /\ R \subseteq Nat \ {0} /\ Cardinality(R) \in Nat
      /\ Cardinality(Jobs) \in Nat /\ cut[i] \in Nat /\ Cardinality(ToMake(i)) \in Nat
  BY CopySets, FS_CardinalityType DEF Copying
<1>3. CASE Found(i) = {}
  <2>1. R \ {0} = R
    BY <1>2
  <2>2. Cardinality(R \ {0}) + Cardinality(ToMake(i)) <= Cardinality(Jobs) + cut[i]
    BY <1>2, <1>3, RowsBeforeMapping
  <2>3. Cardinality(R) <= Cardinality(Jobs) + cut[i]
    BY <1>2, <2>1, <2>2
  <2>. QED BY <1>1, <1>2, <2>3
<1>4. ASSUME NEW m \in Found(i)
      PROVE  Cardinality(R) <= Cardinality(Jobs) + cut[i] + (IF Sync!Misled(i) THEN 1 ELSE 0)
  <2>1. m.type # i[2] => Sync!Misled(i)
    BY <1>4 DEF Sync!Misled, Found
  <2>. PICK n : n = m.local
    OBVIOUS
  <2>2. /\ Cardinality(R \ {n}) \in Nat /\ Cardinality(R) <= Cardinality(R \ {n}) + 1
    <3>1. IsFiniteSet(R \ {n}) /\ R \subseteq (R \ {n}) \cup {n}
      BY <1>2, FS_Subset
    <3>. QED BY <3>1, OneMoreAtMost
  <2>3. Cardinality(R \ {n}) + 1 + Cardinality(ToMake(i))
           <= Cardinality(Jobs) + cut[i] + (IF m.type # i[2] THEN 1 ELSE 0)
    BY <1>2, <1>4 DEF Few
  <2>. QED BY <1>2, <2>1, <2>2, <2>3
<1>. QED BY <1>1, <1>3, <1>4

\* However tasks are retried, fail or die, and whatever threads run them: a remote
\* entity gets no more rows than threads can look it up at once, one for each time
\* one was cut short before its mapping, and one that a server's id led it to.
THEOREM CopiesStayFew ==
    ASSUME Sync!SyncAssumption PROVE Sync!Spec => []Sync!CopiesBounded
<1>1. Sync!Init => SyncTypes /\ Copying
  BY InitSync, InitCopies
<1>2. Sync!Init => Flagged
  BY DEF Sync!Init, Flagged
<1>3. SyncTypes /\ Flagged /\ Copying /\ [Sync!Next]_(Sync!vars) => SyncTypes' /\ Flagged' /\ Copying'
  BY SyncStep, CopiesStep
<1>4. SyncTypes /\ Copying => Sync!CopiesBounded
  BY FewCopies
<1>. QED BY <1>1, <1>2, <1>3, <1>4, PTL DEF Sync!Spec
-------------------------------------------------------------------------------
\* One thread, one connection of a type, no server's mapping: the copies only move
\* forward.  Versions of an item here; items the job has read and not yet written.
OneThread ==
    /\ Jobs = {Cron} /\ Servers = {}
    /\ \A c, d \in V10 : c = d
    /\ \A c, d \in Finance : c = d

Seen(i) == {rows[i[2]][n].version : n \in Sync!RowsOf(i)}
Held == fetched[Cron] \cup ({item[Cron]} \ {None})

Forward ==
    /\ \A i \in Sync!Items : \A v \in Seen(i) : v <= remote[i]
    /\ \A x \in Held : x[2] <= remote[x[1]] /\ \A v \in Seen(x[1]) : v <= x[2]
    /\ \A x, y \in Held : x[1] = y[1] => x = y
    /\ item[Cron] \notin fetched[Cron]

\* A mapped row is nobody else's.
OwnRows ==
    /\ \A m \in maps : m.type # "subscription"
    /\ \A m, n \in maps : m.type = n.type /\ m.local = n.local => m = n
    /\ \A i \in Sync!Items : \A m \in Found(i) :
          m.local \in DOMAIN rows[i[2]] /\ rows[i[2]][m.local].of \in {i, None}
    /\ jobPc[Cron] = "map" => /\ local[Cron] \in DOMAIN rows[item[Cron][1][2]]
                              /\ rows[item[Cron][1][2]][local[Cron]].of = item[Cron][1]

MirrorInv == SyncTypes /\ Copying /\ Forward /\ OwnRows

LEMMA SyncInduct ==
    ASSUME NEW S, 0 \in S, \A n \in Nat : n \in S => n + 1 \in S
    PROVE  Nat \subseteq S
<1> SUFFICES ASSUME Nat \ S # {} PROVE FALSE
  OBVIOUS
<1>1. PICK x \in Nat \ S : \A y \in Nat \ S : <<y, x>> \notin OpToRel(<, Nat)
  BY NatLessThanWellFounded, WFMin
<1>2. x # 0 /\ x \in Nat
  OBVIOUS
<1>3. x - 1 \in Nat /\ (x - 1) + 1 = x /\ x - 1 < x
  BY <1>2
<1>4. x - 1 \notin S
  BY <1>3
<1>5. <<x - 1, x>> \in OpToRel(<, Nat)
  BY <1>2, <1>3 DEF OpToRel
<1>. QED BY <1>1, <1>3, <1>4, <1>5

LEMMA MaxOfBounded ==
    ASSUME NEW S, S \subseteq Nat, S # {}, NEW b \in Nat, \A x \in S : x <= b
    PROVE  Sync!Max(S) \in S /\ \A x \in S : x <= Sync!Max(S)
<1>. DEFINE P == {n \in Nat : \A T \in SUBSET (0..n) : T # {} => \E x \in T : \A y \in T : x >= y}
<1>1. 0 \in P
  <2>1. ASSUME NEW T \in SUBSET (0..0), T # {} PROVE \E x \in T : \A y \in T : x >= y
    <3>1. \A y \in T : y = 0
      OBVIOUS
    <3>. PICK t \in T : TRUE
      BY <2>1
    <3>2. t = 0 /\ \A y \in T : t >= y
      BY <3>1
    <3>. QED BY <3>2
  <2>. QED BY <2>1
<1>2. ASSUME NEW n \in Nat, n \in P PROVE n + 1 \in P
  <2>1. ASSUME NEW T \in SUBSET (0..(n + 1)), T # {} PROVE \E x \in T : \A y \in T : x >= y
    <3>1. CASE n + 1 \in T
      BY <3>1
    <3>2. CASE n + 1 \notin T
      <4>1. T \in SUBSET (0..n)
        BY <3>2
      <4>. QED BY <1>2, <2>1, <4>1
    <3>. QED BY <3>1, <3>2
  <2>. QED BY <2>1
<1>3. b \in P
  <2>. HIDE DEF P
  <2>. QED BY <1>1, <1>2, SyncInduct
<1>4. S \in SUBSET (0..b)
  OBVIOUS
<1>5. \E x \in S : \A y \in S : x >= y
  BY <1>3, <1>4
<1>. QED BY <1>5 DEF Sync!Max

LEMMA MaxIs ==
    ASSUME NEW S, S \subseteq Nat, NEW v \in S, \A x \in S : x <= v
    PROVE  Sync!Max(S) = v
<1>1. v \in Nat /\ S # {}
  OBVIOUS
<1>2. Sync!Max(S) \in S /\ \A x \in S : x <= Sync!Max(S)
  BY <1>1, MaxOfBounded
<1>. PICK m : m = Sync!Max(S)
  OBVIOUS
<1>3. m \in Nat /\ m <= v /\ v <= m
  BY <1>2
<1>. QED BY <1>1, <1>3

LEMMA SeenTypes ==
    ASSUME Sync!SyncAssumption, SyncTypes, NEW i \in Sync!Items
    PROVE  /\ i[2] \in Sync!Kinds /\ Seen(i) \subseteq 0..MaxVersion /\ remote[i] \in 0..MaxVersion
           /\ MaxVersion \in Nat
           /\ Sync!Latest(i) \in {0} \cup Seen(i) /\ \A v \in {0} \cup Seen(i) : v <= Sync!Latest(i)
<1>1. i[2] \in Sync!Kinds /\ remote[i] \in 0..MaxVersion /\ MaxVersion \in Nat
  BY SyncConstant DEF SyncTypes, SyncTables
<1>2. Seen(i) \subseteq 0..MaxVersion
  <2>. PICK s \in Seq(Copied) : s = rows[i[2]]
    BY <1>1 DEF SyncTypes, SyncTables
  <2>0. \A n \in DOMAIN s : s[n] \in Copied
    BY LenProperties, ElementOfSeq
  <2>1. \A n \in DOMAIN s : s[n].version \in 0..MaxVersion
    BY <2>0 DEF Copied
  <2>. QED BY <2>1 DEF Seen, Sync!RowsOf
<1>3. /\ Sync!Max({0} \cup Seen(i)) \in {0} \cup Seen(i)
      /\ \A v \in {0} \cup Seen(i) : v <= Sync!Max({0} \cup Seen(i))
  <2>. PICK S : S = {0} \cup Seen(i)
    OBVIOUS
  <2>1. S \subseteq Nat /\ S # {} /\ \A v \in S : v <= MaxVersion
    BY <1>1, <1>2
  <2>. QED BY <1>1, <2>1, MaxOfBounded
<1>4. Sync!Latest(i) = Sync!Max({0} \cup Seen(i))
  BY DEF Sync!Latest, Seen
<1>. QED BY <1>1, <1>2, <1>3, <1>4

\* A step that writes no row of an item.
LEMMA CopiesRest ==
    ASSUME \A i \in Sync!Items : Seen(i)' = Seen(i)
    PROVE  Sync!Copies' = Sync!Copies
<1>1. \A i \in Sync!Items : Sync!Latest(i)' = Sync!Latest(i)
  BY DEF Sync!Latest, Seen
<1>. QED BY <1>1 DEF Sync!Copies

LEMMA ForwardStays ==
    ASSUME Forward, \A i \in Sync!Items : Seen(i)' = Seen(i), remote' = remote,
           Held' \subseteq Held, item'[Cron] \notin fetched'[Cron],
           \A x \in Held : x[1] \in Sync!Items
    PROVE  Forward'
<1>1. \A x \in Held' : x \in Held /\ x[1] \in Sync!Items /\ Seen(x[1])' = Seen(x[1])
  OBVIOUS
<1>. QED BY <1>1 DEF Forward

-------------------------------------------------------------------------------
\* One row written, over one of the same item or of none, or as a new one.
Written(i, v, n) ==
    /\ n \in DOMAIN rows'[i[2]] /\ rows'[i[2]][n].of = i /\ rows'[i[2]][n].version = v
    /\ \A k \in Sync!Kinds :
          /\ DOMAIN rows[k] \subseteq DOMAIN rows'[k]
          /\ \A x \in DOMAIN rows'[k] : \/ k = i[2] /\ x = n
                                        \/ x \in DOMAIN rows[k] /\ rows'[k][x] = rows[k][x]
    /\ n \in DOMAIN rows[i[2]] => rows[i[2]][n].of \in {i, None}

LEMMA WrittenSeen ==
    ASSUME Sync!SyncAssumption, NEW i \in Sync!Items, NEW v, NEW n, Written(i, v, n)
    PROVE  /\ v \in Seen(i)' /\ Seen(i)' \subseteq Seen(i) \cup {v}
           /\ \A y \in Sync!Items \ {i} : Seen(y)' = Seen(y)
<1>1. i[2] \in Sync!Kinds /\ i # None
  BY SyncConstant
<1>2. v \in Seen(i)'
  BY DEF Written, Seen, Sync!RowsOf
<1>3. Seen(i)' \subseteq Seen(i) \cup {v}
  BY <1>1 DEF Written, Seen, Sync!RowsOf
<1>4. ASSUME NEW y \in Sync!Items \ {i} PROVE Seen(y)' = Seen(y)
  <2>1. y[2] \in Sync!Kinds /\ y # None
    BY SyncConstant
  <2>2. ASSUME NEW x \in Sync!RowsOf(y)' PROVE x \in Sync!RowsOf(y) /\ rows'[y[2]][x] = rows[y[2]][x]
    BY <2>1, <2>2 DEF Written, Sync!RowsOf
  <2>3. ASSUME NEW x \in Sync!RowsOf(y) PROVE x \in Sync!RowsOf(y)' /\ rows'[y[2]][x] = rows[y[2]][x]
    <3>1. x \in DOMAIN rows[y[2]] /\ rows[y[2]][x].of = y /\ x \in DOMAIN rows'[y[2]]
      BY <2>1, <2>3 DEF Written, Sync!RowsOf
    <3>2. ~(y[2] = i[2] /\ x = n)
      BY <2>1, <3>1 DEF Written
    <3>. QED BY <2>1, <3>1, <3>2 DEF Written, Sync!RowsOf
  <2>. QED BY <2>2, <2>3 DEF Seen
<1>. QED BY <1>2, <1>3, <1>4

\* To the item's newest version: a step of Mirror, or none.
LEMMA WrittenForward ==
    ASSUME Sync!SyncAssumption, SyncTypes, SyncTypes', Forward, NEW n, UNCHANGED <<remote, fetched, item>>,
           NEW i \in Sync!Items, NEW v \in 0..MaxVersion, item[Cron] = <<i, v>>, item[Cron] # None,
           Written(i, v, n)
    PROVE  Forward' /\ [Sync!M!Next]_(Sync!M!vars)
<1>1. /\ v \in Seen(i)' /\ Seen(i)' \subseteq Seen(i) \cup {v}
      /\ \A y \in Sync!Items \ {i} : Seen(y)' = Seen(y)
  BY WrittenSeen
<1>2. /\ \A w \in Seen(i) : w <= v
      /\ v <= remote[i] /\ \A x \in Held : x[1] = i => x = item[Cron]
  BY DEF Forward, Held
<1>3. /\ Seen(i) \subseteq 0..MaxVersion /\ remote[i] \in 0..MaxVersion /\ MaxVersion \in Nat
      /\ Sync!Latest(i) \in {0} \cup Seen(i)
  BY SeenTypes
<1>4. Sync!Latest(i) <= v /\ Sync!Latest(i) \in Nat
  BY <1>2, <1>3
<1>5. Sync!Latest(i)' = v
  <2>. PICK S : S = {0} \cup Seen(i)'
    OBVIOUS
  <2>1. Sync!Max(S) = v
    BY <1>1, <1>2, <1>3, MaxIs
  <2>. QED BY <2>1 DEF Sync!Latest, Seen
<1>6. \A y \in Sync!Items \ {i} : Sync!Latest(y)' = Sync!Latest(y)
  BY <1>1 DEF Sync!Latest, Seen
<1>7. Sync!Copies' = [Sync!Copies EXCEPT ![i] = v] /\ Sync!Copies[i] = Sync!Latest(i)
  BY <1>5, <1>6 DEF Sync!Copies
<1>8. [Sync!M!Next]_(Sync!M!vars)
  <2>1. CASE Sync!Latest(i) = v
    <3>1. Sync!Copies' = Sync!Copies
      BY <1>5, <1>6, <2>1 DEF Sync!Copies
    <3>. QED BY <3>1 DEF Sync!M!vars
  <2>2. CASE Sync!Latest(i) # v
    <3>1. v \in (Sync!Copies[i] + 1)..remote[i]
      BY <1>2, <1>3, <1>4, <1>7, <2>2
    <3>2. Sync!M!Copy(i)
      BY <1>7, <3>1 DEF Sync!M!Copy
    <3>. QED BY <3>2 DEF Sync!M!Next
  <2>. QED BY <2>1, <2>2
<1>9. Forward'
  <2>1. \A y \in Sync!Items : \A w \in Seen(y)' : w <= remote[y]
    BY <1>1, <1>2 DEF Forward
  <2>2. \A x \in Held : x[1] \in Sync!Items
    BY SyncConstant DEF Held, SyncTypes, SyncJobs, Versions
  <2>3. ASSUME NEW x \in Held PROVE x[2] <= remote[x[1]] /\ \A w \in Seen(x[1])' : w <= x[2]
    <3>1. CASE x[1] = i
      BY <1>1, <1>2, <1>3, <3>1
    <3>2. CASE x[1] # i
      BY <1>1, <2>2, <3>2 DEF Forward
    <3>. QED BY <3>1, <3>2
  <2>4. Held' = Held
    BY DEF Held
  <2>. QED BY <2>1, <2>3, <2>4 DEF Forward
<1>. QED BY <1>8, <1>9

\* The mapped rows are where they were, for the same items.
LEMMA OwnRowsStay ==
    ASSUME OwnRows, maps' = maps, \A i \in Sync!Items : i[2] \in Sync!Kinds,
           \A k \in Sync!Kinds :
              /\ DOMAIN rows[k] \subseteq DOMAIN rows'[k]
              /\ \A n \in DOMAIN rows[k] : rows'[k][n].of = rows[k][n].of,
           \/ jobPc'[Cron] # "map"
           \/ /\ jobPc[Cron] = "map" /\ item'[Cron] = item[Cron] /\ local'[Cron] = local[Cron]
              /\ item[Cron][1] \in Sync!Items
    PROVE  OwnRows'
<1>1. ASSUME NEW i \in Sync!Items, NEW m \in Found(i)'
      PROVE  m.local \in DOMAIN rows'[i[2]] /\ rows'[i[2]][m.local].of \in {i, None}
  <2>1. m \in Found(i)
    BY <1>1, FoundStays
  <2>. QED BY <2>1 DEF OwnRows
<1>. QED BY <1>1 DEF OwnRows

LEMMA WrittenOwnRows ==
    ASSUME Sync!SyncAssumption, OneThread, OwnRows, maps' = maps, NEW i \in Sync!Items, NEW v, NEW n,
           Written(i, v, n), item'[Cron][1] = i, local'[Cron] = n,
           n \in DOMAIN rows[i[2]] => \E m \in Found(i) : m.local = n /\ m.type = i[2],
           \A m \in maps, y \in Sync!Items : m \in Found(y) => m.type = y[2]
    PROVE  OwnRows'
<1>1. ASSUME NEW y \in Sync!Items, NEW m \in Found(y)'
      PROVE  m.local \in DOMAIN rows'[y[2]] /\ rows'[y[2]][m.local].of \in {y, None}
  <2>1. m \in Found(y) /\ m \in maps /\ y[2] \in Sync!Kinds
    BY <1>1, FoundStays, SyncConstant DEF Found, Sync!Mapped
  <2>2. m.local \in DOMAIN rows[y[2]] /\ rows[y[2]][m.local].of \in {y, None}
    BY <2>1 DEF OwnRows
  <2>3. m.local \in DOMAIN rows'[y[2]]
    BY <2>1, <2>2 DEF Written
  <2>4. CASE y[2] = i[2] /\ m.local = n
    <3>1. PICK h \in Found(i) : h.local = n /\ h.type = i[2]
      BY <2>2, <2>4
    <3>2. h = m
      BY <2>1, <2>4, <3>1 DEF OwnRows, Found, Sync!Mapped
    <3>3. y[3] = i[3] /\ Sync!System(y[1]) = Sync!System(i[1])
      BY <2>1, <3>1, <3>2 DEF Found, Sync!Mapped
    <3>4. y[1] = i[1]
      BY <3>3, SyncConstant DEF OneThread, Sync!System
    <3>5. y = i
      BY <2>4, <3>3, <3>4, SyncConstant
    <3>. QED BY <2>3, <2>4, <3>5 DEF Written
  <2>5. CASE ~(y[2] = i[2] /\ m.local = n)
    BY <2>1, <2>2, <2>3, <2>5 DEF Written
  <2>. QED BY <2>4, <2>5
<1>. QED BY <1>1 DEF OwnRows, Written

\* With no mapping of a server, a mapping found is one of the item's own kind.
LEMMA FoundKind ==
    ASSUME Sync!SyncAssumption, Copying, OwnRows
    PROVE  \A y \in Sync!Items : \A m \in Found(y) : m \in maps /\ m.type = y[2]
<1>. SUFFICES ASSUME NEW y \in Sync!Items, NEW m \in Found(y) PROVE m \in maps /\ m.type = y[2]
  OBVIOUS
<1>1. m \in maps /\ m.system = Sync!System(y[1]) /\ (y[2] = "product" \/ m.type = y[2])
  BY DEF Found, Sync!Mapped
<1>2. CASE y[2] = "product"
  <2>1. y[1] \in V10
    BY <1>2, SyncConstant DEF Sync!Items, Sync!EntitiesOf
  <2>2. m.system = "zjmf_v10"
    BY <1>1, <2>1 DEF Sync!System
  <2>. QED BY <1>1, <1>2, <2>2 DEF OwnRows, Copying, MapsOnce
<1>. QED BY <1>1, <1>2

LEMMA WriteMirrors ==
    ASSUME Sync!SyncAssumption, OneThread, MirrorInv, SyncTypes', NEW j \in Jobs,
           Sync!WriteFound(j) \/ Sync!WriteNew(j)
    PROVE  Forward' /\ OwnRows' /\ [Sync!M!Next]_(Sync!M!vars)
<1>0. j = Cron /\ SyncTypes /\ Copying /\ Forward /\ OwnRows
  BY DEF OneThread, MirrorInv
<1>1. /\ jobPc[j] = "write" /\ jobPc' = [jobPc EXCEPT ![j] = "map"]
      /\ UNCHANGED <<remote, maps, fetched, item>>
  BY DEF Sync!WriteFound, Sync!WriteNew, Sync!Goto, Sync!loop
<1>. PICK i \in Sync!Items, v \in 0..MaxVersion : item[j] = <<i, v>> /\ Sync!Entity(j) = i[2]
  BY <1>0, <1>1, ItemTypes
<1>2. i[2] \in Sync!Kinds /\ rows \in [Sync!Kinds -> Seq(Copied)] /\ item[j][1] = i /\ item[j][2] = v
  BY <1>0, SyncConstant DEF SyncTypes, SyncTables
<1>. DEFINE r == [of |-> i, version |-> v, stock |-> None]
<1>3. ASSUME NEW n, Written(i, v, n), local'[j] = n,
             n \in DOMAIN rows[i[2]] => \E m \in Found(i) : m.local = n
      PROVE  Forward' /\ OwnRows' /\ [Sync!M!Next]_(Sync!M!vars)
  <2>1. item[Cron] # None
    BY <1>0, <1>1 DEF SyncTypes, JobAt
  <2>2. Forward' /\ [Sync!M!Next]_(Sync!M!vars)
    BY <1>0, <1>1, <1>3, <2>1, WrittenForward
  <2>3. \A y \in Sync!Items : \A m \in Found(y) : m \in maps /\ m.type = y[2]
    BY <1>0, FoundKind
  <2>4. OwnRows'
    BY <1>0, <1>1, <1>2, <1>3, <2>3, WrittenOwnRows
  <2>. QED BY <2>2, <2>4
<1>4. CASE Sync!WriteFound(j)
  <2>1. /\ local[j] # 0 /\ local' = local
        /\ rows' = IF local[j] \in DOMAIN rows[i[2]] THEN [rows EXCEPT ![i[2]][local[j]] = r] ELSE rows
    BY <1>2, <1>4 DEF Sync!WriteFound, Sync!Update, Sync!loop
  <2>2. PICK m \in Found(i) : m.local = local[j]
    BY <1>0, <1>1, <1>2, <2>1 DEF Copying, CopyJob
  <2>3. local[j] \in DOMAIN rows[i[2]] /\ rows[i[2]][local[j]].of \in {i, None}
    BY <1>0, <2>2 DEF OwnRows
  <2>4. Written(i, v, local[j])
    BY <1>2, <2>1, <2>3 DEF Written
  <2>. PICK n : n = local[j]
    OBVIOUS
  <2>. QED BY <1>3, <2>1, <2>2, <2>4
<1>5. CASE Sync!WriteNew(j)
  <2>1. /\ rows' = [rows EXCEPT ![i[2]] = Append(@, r)]
        /\ local' = [local EXCEPT ![j] = Len(rows'[i[2]])]
    BY <1>2, <1>5 DEF Sync!WriteNew
  <2>. PICK s \in Seq(Copied) : s = rows[i[2]]
    BY <1>2
  <2>. PICK e \in Copied : e = r
    BY DEF Copied
  <2>2. /\ DOMAIN s = 1..Len(s) /\ Len(s) \in Nat /\ Append(s, e) \in Seq(Copied)
        /\ Len(Append(s, e)) = Len(s) + 1 /\ Append(s, e)[Len(s) + 1] = e
        /\ \A x \in 1..Len(s) : Append(s, e)[x] = s[x]
    BY LenProperties, AppendProperties
  <2>3. DOMAIN Append(s, e) = 1..(Len(s) + 1)
    BY <2>2, LenProperties
  <2>4. /\ rows'[i[2]] = Append(s, e) /\ e.of = i /\ e.version = v
        /\ \A k \in Sync!Kinds \ {i[2]} : rows'[k] = rows[k]
    BY <1>2, <2>1
  <2>. HIDE DEF r
  <2>. PICK n : n = Len(s) + 1
    OBVIOUS
  <2>5. Written(i, v, n)
    <3>1. /\ n \in DOMAIN rows'[i[2]] /\ rows'[i[2]][n] = e /\ n \notin DOMAIN rows[i[2]]
          /\ DOMAIN rows[i[2]] \subseteq DOMAIN rows'[i[2]]
          /\ \A x \in DOMAIN rows'[i[2]] : x = n \/ (x \in DOMAIN rows[i[2]] /\ rows'[i[2]][x] = rows[i[2]][x])
      BY <2>2, <2>3, <2>4
    <3>. QED BY <2>4, <3>1 DEF Written
  <2>6. local'[j] = n
    BY <1>0, <2>1, <2>2, <2>4 DEF SyncTypes, SyncJobs
  <2>7. n \notin DOMAIN rows[i[2]]
    BY <2>2
  <2>. QED BY <1>3, <2>5, <2>6, <2>7
<1>. QED BY <1>4, <1>5

-------------------------------------------------------------------------------
\* The other steps: no row gets another version.
SameVersions ==
    \A k \in Sync!Kinds :
       /\ DOMAIN rows'[k] = DOMAIN rows[k]
       /\ \A n \in DOMAIN rows[k] :
             rows'[k][n].of = rows[k][n].of /\ rows'[k][n].version = rows[k][n].version

LEMMA SameSeen ==
    ASSUME Sync!SyncAssumption, SameVersions
    PROVE  /\ \A i \in Sync!Items : Seen(i)' = Seen(i)
           /\ Sync!Copies' = Sync!Copies
<1>1. ASSUME NEW i \in Sync!Items PROVE Seen(i)' = Seen(i)
  <2>1. i[2] \in Sync!Kinds
    BY SyncConstant
  <2>2. Sync!RowsOf(i)' = Sync!RowsOf(i)
    BY <2>1 DEF SameVersions, Sync!RowsOf
  <2>3. \A n \in Sync!RowsOf(i) : rows'[i[2]][n].version = rows[i[2]][n].version
    BY <2>1 DEF SameVersions, Sync!RowsOf
  <2>. QED BY <2>2, <2>3 DEF Seen
<1>. QED BY <1>1, CopiesRest

\* It takes in hand nothing new, or has fetched what the remote system has now.
LEMMA QuietMirrors ==
    ASSUME Sync!SyncAssumption, MirrorInv, SameVersions, UNCHANGED <<remote, maps>>,
           item'[Cron] = None \/ (item'[Cron] \in Held /\ item'[Cron] \notin fetched'[Cron]),
           fetched'[Cron] \subseteq Held, None \notin fetched'[Cron],
           \/ jobPc'[Cron] # "map"
           \/ jobPc'[Cron] = "map" /\ jobPc[Cron] = "map" /\ item'[Cron] = item[Cron]
              /\ local'[Cron] = local[Cron]
    PROVE  Forward' /\ OwnRows' /\ [Sync!M!Next]_(Sync!M!vars)
<1>1. \A x \in Held : x[1] \in Sync!Items
  BY SyncConstant DEF Held, MirrorInv, SyncTypes, SyncJobs, Versions
<1>2. Forward'
  BY <1>1, SameSeen, ForwardStays DEF MirrorInv, Held
<1>3. jobPc[Cron] = "map" => item[Cron][1] \in Sync!Items
  BY ItemTypes, SyncConstant DEF MirrorInv
<1>4. OwnRows'
  BY <1>3, SyncConstant, OwnRowsStay DEF MirrorInv, SameVersions
<1>. QED BY <1>2, <1>4, SameSeen DEF Sync!M!vars

LEMMA FetchMirrors ==
    ASSUME Sync!SyncAssumption, OneThread, MirrorInv, NEW j \in Jobs, Sync!Fetch(j)
    PROVE  Forward' /\ OwnRows' /\ [Sync!M!Next]_(Sync!M!vars)
<1>0. j = Cron /\ SyncTypes /\ Copying /\ Forward /\ OwnRows
  BY DEF OneThread, MirrorInv
<1>1. /\ jobPc[j] = "fetch" /\ jobPc' = [jobPc EXCEPT ![j] = "item"]
      /\ fetched' = [fetched EXCEPT ![j] = Sync!Listed(Sync!Conn(j), Sync!Entity(j))]
      /\ UNCHANGED <<remote, rows, maps, item, local>>
  BY DEF Sync!Fetch, Sync!Goto, Sync!tables, Sync!NoFault
<1>2. item[j] = None /\ fetched'[j] = Sync!Listed(Sync!Conn(j), Sync!Entity(j)) /\ jobPc'[j] = "item"
  BY <1>0, <1>1 DEF SyncTypes, SyncJobs, JobAt
<1>3. fetched'[j] \subseteq Versions /\ None \notin Versions
  BY <1>0, SyncConstant, TaskStep DEF JobStep, SyncJobs
<1>4. SameVersions
  BY <1>1 DEF SameVersions
<1>5. \A x \in fetched'[j] : x[2] = remote[x[1]] /\ x = <<x[1], x[2]>>
  BY <1>2 DEF Sync!Listed
<1>6. Held' = fetched'[j]
  BY <1>0, <1>1, <1>2 DEF Held
<1>7. Forward'
  <2>1. \A i \in Sync!Items : Seen(i)' = Seen(i)
    BY <1>4, SameSeen
  <2>2. \A x \in Held' : x[1] \in Sync!Items
    BY <1>3, <1>6, SyncConstant DEF Versions
  <2>3. \A x \in Held' : x[2] <= remote[x[1]] /\ \A v \in Seen(x[1]) : v <= x[2]
    <3>1. ASSUME NEW i \in Sync!Items PROVE remote[i] <= remote[i] /\ \A v \in Seen(i) : v <= remote[i]
      BY <1>0, SeenTypes DEF Forward
    <3>. QED BY <1>5, <1>6, <2>2, <3>1
  <2>4. \A x, y \in Held' : x[1] = y[1] => x = y
    BY <1>5, <1>6
  <2>5. item'[Cron] \notin fetched'[Cron]
    BY <1>0, <1>1, <1>2, <1>3
  <2>6. \A x \in Held' : Seen(x[1])' = Seen(x[1])
    BY <2>1, <2>2
  <2>. QED BY <1>0, <1>1, <2>1, <2>3, <2>4, <2>5, <2>6 DEF Forward
<1>8. OwnRows'
  BY <1>0, <1>1, <1>2, <1>4, SyncConstant, OwnRowsStay DEF SameVersions
<1>. QED BY <1>1, <1>4, <1>7, <1>8, SameSeen DEF Sync!M!vars

LEMMA TaskMirrors ==
    ASSUME Sync!SyncAssumption, OneThread, MirrorInv, NEW j \in Jobs,
           \/ Sync!RunProductSync(j) \/ Sync!RunInventorySync(j) \/ Sync!RunClientSync(j)
           \/ Sync!Trigger(j)
           \/ Sync!GetAdapter(j) \/ Sync!NoAdapter(j) \/ Sync!Check(j) \/ Sync!Mark(j)
           \/ Sync!NothingToSync(j) \/ Sync!FetchFails(j) \/ Sync!Clear(j) \/ Sync!Finish(j)
    PROVE  Forward' /\ OwnRows' /\ [Sync!M!Next]_(Sync!M!vars)
<1>0. j = Cron /\ SyncTypes /\ SyncJobs /\ JobAt(j) /\ None \notin Versions
  BY SyncConstant DEF OneThread, MirrorInv, SyncTypes
<1>1. UNCHANGED <<remote, rows, maps>>
  BY <1>0, StartTypes, TaskStep
<1>2. /\ jobPc[j] \notin {"write", "map"} /\ jobPc'[j] \notin {"write", "map"}
      /\ item'[j] \in {item[j], None} /\ fetched'[j] \in {fetched[j], {}}
  <2>. USE <1>0 DEF Sync!Goto, Sync!loop, SyncJobs
  <2>1. CASE \/ Sync!RunProductSync(j) \/ Sync!RunInventorySync(j) \/ Sync!RunClientSync(j)
             \/ Sync!Trigger(j)
    <3>1. \E tasks, one : Sync!Begin(j, tasks, one)
      BY <2>1 DEF Sync!RunProductSync, Sync!RunInventorySync, Sync!RunClientSync, Sync!Trigger,
                  Sync!RunFor
    <3>. QED BY <3>1 DEF Sync!Begin
  <2>2. CASE Sync!GetAdapter(j) \/ Sync!Mark(j) \/ Sync!NothingToSync(j) \/ Sync!Finish(j)
    BY <2>2 DEF Sync!GetAdapter, Sync!Mark, Sync!NothingToSync, Sync!Finish
  <2>3. CASE Sync!FetchFails(j)
    BY <2>3 DEF Sync!FetchFails, Sync!Retry
  <2>4. CASE Sync!NoAdapter(j) \/ Sync!Check(j) \/ Sync!Clear(j)
    BY <2>4 DEF Sync!NoAdapter, Sync!Check, Sync!Clear, Sync!Onward
  <2>. QED BY <2>1, <2>2, <2>3, <2>4
<1>3. item[j] = None
  BY <1>0, <1>2 DEF JobAt
<1>4. SameVersions /\ None \notin fetched[j]
  BY <1>0, <1>1 DEF SameVersions, SyncJobs
<1>. QED BY <1>0, <1>1, <1>2, <1>3, <1>4, QuietMirrors DEF Held

LEMMA LookupMirrors ==
    ASSUME Sync!SyncAssumption, OneThread, MirrorInv, NEW j \in Jobs, Sync!Lookup(j)
    PROVE  Forward' /\ OwnRows' /\ [Sync!M!Next]_(Sync!M!vars)
<1>0. j = Cron /\ SyncTypes /\ SyncJobs /\ None \notin Versions
  BY SyncConstant DEF OneThread, MirrorInv, SyncTypes
<1>1. PICK x \in fetched[j] :
        fetched' = [fetched EXCEPT ![j] = @ \ {x}] /\ item' = [item EXCEPT ![j] = x]
  BY DEF Sync!Lookup
<1>2. jobPc' = [jobPc EXCEPT ![j] = "write"] /\ UNCHANGED <<remote, rows, maps>>
  BY DEF Sync!Lookup, Sync!Goto, Sync!tables
<1>3. /\ fetched'[j] = fetched[j] \ {x} /\ item'[j] = x /\ x # None /\ jobPc'[j] = "write"
      /\ None \notin fetched[j]
  BY <1>0, <1>1, <1>2 DEF SyncJobs
<1>4. SameVersions
  BY <1>2 DEF SameVersions
<1>. QED BY <1>0, <1>2, <1>3, <1>4, QuietMirrors DEF Held

LEMMA ItemMirrors ==
    ASSUME Sync!SyncAssumption, OneThread, MirrorInv, NEW j \in Jobs,
           Sync!WriteInvoice(j) \/ Sync!ItemFails(j) \/ Sync!Stock(j) \/ Sync!StockFails(j)
    PROVE  Forward' /\ OwnRows' /\ [Sync!M!Next]_(Sync!M!vars)
<1>0. /\ j = Cron /\ SyncTypes /\ SyncJobs /\ JobAt(j) /\ None \notin Versions
      /\ rows \in [Sync!Kinds -> Seq(Copied)] /\ "product" \in Sync!Kinds
  BY SyncConstant DEF OneThread, MirrorInv, SyncTypes, SyncTables
<1>1. CASE Sync!WriteInvoice(j) \/ Sync!ItemFails(j)
  <2>1. /\ item' = [item EXCEPT ![j] = None] /\ jobPc' = [jobPc EXCEPT ![j] = "item"]
        /\ UNCHANGED <<remote, rows, maps, fetched>>
    BY <1>1 DEF Sync!WriteInvoice, Sync!ItemFails, Sync!NextItem, Sync!Goto, Sync!tables
  <2>2. item'[j] = None /\ jobPc'[j] = "item" /\ None \notin fetched[j]
    BY <1>0, <2>1 DEF SyncJobs
  <2>3. SameVersions
    BY <2>1 DEF SameVersions
  <2>. QED BY <1>0, <2>1, <2>2, <2>3, QuietMirrors DEF Held
<1>2. CASE Sync!Stock(j) \/ Sync!StockFails(j)
  <2>1. /\ UNCHANGED <<remote, maps, jobPc, item, local>> /\ jobPc[j] = "item"
        /\ \E x \in fetched[j] : fetched' = [fetched EXCEPT ![j] = @ \ {x}]
        /\ \/ rows' = rows
           \/ \E n \in DOMAIN rows["product"] : \E x : rows' = [rows EXCEPT !["product"][n].stock = x]
    BY <1>2 DEF Sync!Stock, Sync!StockFails, Sync!tables
  <2>2. fetched'[j] \subseteq fetched[j] /\ None \notin fetched[j] /\ item[j] = None
    BY <1>0, <2>1 DEF SyncJobs, JobAt
  <2>3. ASSUME NEW n \in DOMAIN rows["product"], NEW x, rows' = [rows EXCEPT !["product"][n].stock = x]
        PROVE  SameVersions
    <3>. PICK s \in Seq(Copied) : s = rows["product"]
      BY <1>0
    <3>1. s[n] \in Copied
      BY <2>3, LenProperties, ElementOfSeq
    <3>. DEFINE r == [s[n] EXCEPT !.stock = x]
    <3>2. r.of = s[n].of /\ r.version = s[n].version
      BY <3>1 DEF Copied
    <3>3. rows' = [rows EXCEPT !["product"] = [s EXCEPT ![n] = r]]
      BY <1>0, <2>3
    <3>. HIDE DEF r
    <3>. QED BY <1>0, <2>3, <3>2, <3>3 DEF SameVersions
  <2>4. SameVersions
    <3>1. CASE rows' = rows
      BY <3>1 DEF SameVersions
    <3>. QED BY <2>1, <2>3, <3>1
  <2>. QED BY <1>0, <2>1, <2>2, <2>4, QuietMirrors DEF Held
<1>. QED BY <1>1, <1>2

LEMMA MapItMirrors ==
    ASSUME Sync!SyncAssumption, OneThread, MirrorInv, NEW j \in Jobs, Sync!MapIt(j)
    PROVE  Forward' /\ OwnRows' /\ [Sync!M!Next]_(Sync!M!vars)
<1>0. /\ j = Cron /\ SyncTypes /\ SyncJobs /\ JobAt(j) /\ None \notin Versions /\ OwnRows /\ Forward
      /\ Copying
  BY SyncConstant DEF OneThread, MirrorInv, SyncTypes
<1>. DEFINE s == Sync!System(Sync!Conn(j))
            new == [type |-> Sync!Entity(j), local |-> local[j], system |-> s, id |-> item[j][1][3]]
<1>1. /\ jobPc[j] = "map" /\ item' = [item EXCEPT ![j] = None] /\ jobPc' = [jobPc EXCEPT ![j] = "item"]
      /\ UNCHANGED <<remote, rows, fetched>>
      /\ \/ maps' = maps
         \/ /\ maps' = maps \cup {new} /\ Sync!Holding(Sync!Entity(j), local[j], s) = {}
            /\ Sync!Holder(s, item[j][1][3]) = {}
  BY DEF Sync!MapIt, Sync!NextItem, Sync!Goto, Sync!tables
<1>2. item'[j] = None /\ jobPc'[j] = "item" /\ None \notin fetched[j]
  BY <1>0, <1>1 DEF SyncJobs
<1>3. SameVersions
  BY <1>1 DEF SameVersions
<1>. PICK i \in Sync!Items : i = item[j][1]
  BY <1>0, <1>1, ItemTypes
<1>4. /\ i = <<Sync!Conn(j), Sync!Entity(j), i[3]>> /\ i[2] = Sync!Entity(j) /\ i[1] = Sync!Conn(j)
      /\ i[2] \in Sync!Kinds
  BY <1>0, <1>1, ItemTypes, SyncConstant
<1>5. /\ s \in {"zjmf_v10", "zjmf_finance"} /\ i[2] # "invoice"
      /\ s = "zjmf_finance" => i[2] = "client"
      /\ s = "zjmf_v10" => i[2] = "product"
  BY <1>0, <1>1, <1>4, SyncConstant
     DEF JobAt, Busy, Sync!EntitiesOf, Sync!System, Copying, CopyJob
<1>6. CASE maps' = maps
  BY <1>0, <1>1, <1>2, <1>3, <1>6, QuietMirrors DEF Held
<1>7. CASE maps' # maps
  <2>0. /\ maps' = maps \cup {new} /\ Sync!Holding(i[2], local[j], s) = {}
        /\ Sync!Holder(s, i[3]) = {} /\ new.type = i[2] /\ new.local = local[j] /\ new.system = s
        /\ new.id = i[3]
    BY <1>1, <1>4, <1>7
  <2>. HIDE DEF new
  <2>1. Forward'
    <3>1. \A x \in Held : x[1] \in Sync!Items
      BY <1>0, SyncConstant DEF Held, SyncJobs, Versions
    <3>2. Held' \subseteq Held /\ item'[Cron] \notin fetched'[Cron]
      BY <1>0, <1>1, <1>2 DEF Held
    <3>. QED BY <1>0, <1>1, <1>3, <3>1, <3>2, SameSeen, ForwardStays
  <2>2. \A m \in maps : m.type = i[2] => m.local # local[j]
    <3>1. ASSUME NEW m \in maps, m.type = i[2] PROVE m.system = s
      <4>1. m.system \in {"zjmf_v10", "zjmf_finance"}
        BY <1>0 DEF SyncTypes, SyncTables, Mapping
      <4>. QED BY <1>0, <1>5, <3>1, <4>1 DEF Copying, MapsOnce
    <3>. QED BY <2>0, <3>1 DEF Sync!Holding
  <2>3. \A m \in maps' : m.type # "subscription"
    BY <1>4, <2>0, SyncConstant, <1>0 DEF OwnRows
  <2>4. \A m, n \in maps' : m.type = n.type /\ m.local = n.local => m = n
    BY <1>0, <2>0, <2>2 DEF OwnRows
  <2>5. ASSUME NEW y \in Sync!Items, NEW m \in Found(y)'
        PROVE  m.local \in DOMAIN rows[y[2]] /\ rows[y[2]][m.local].of \in {y, None}
    <3>1. m \in maps' /\ m.system = Sync!System(y[1]) /\ m.id = y[3] /\ (y[2] = "product" \/ m.type = y[2])
      BY <2>5 DEF Found, Sync!Mapped
    <3>2. CASE m \in maps
      <4>1. m \in Found(y)
        BY <3>1, <3>2 DEF Found, Sync!Mapped
      <4>. QED BY <1>0, <4>1 DEF OwnRows
    <3>3. CASE m = new
      <4>1. y[3] = i[3] /\ Sync!System(y[1]) = s
        BY <2>0, <3>1, <3>3
      <4>2. y[1] = i[1]
        BY <1>4, <4>1, SyncConstant DEF OneThread, Sync!System
      <4>3. y[2] = i[2]
        <5>1. CASE y[2] = "product"
          <6>1. y[1] \in V10
            BY <5>1, SyncConstant DEF Sync!Items, Sync!EntitiesOf
          <6>. QED BY <1>5, <4>1, <5>1, <6>1 DEF Sync!System
        <5>2. CASE y[2] # "product"
          BY <2>0, <3>1, <3>3, <5>2
        <5>. QED BY <5>1, <5>2
      <4>4. y = i
        BY <4>1, <4>2, <4>3, SyncConstant
      <4>. QED BY <1>0, <1>1, <2>0, <3>3, <4>4 DEF OwnRows
    <3>. QED BY <2>0, <3>1, <3>2, <3>3
  <2>6. OwnRows'
    BY <1>0, <1>1, <1>2, <2>3, <2>4, <2>5 DEF OwnRows
  <2>7. [Sync!M!Next]_(Sync!M!vars)
    BY <1>1, <1>3, SameSeen DEF Sync!M!vars
  <2>. QED BY <2>1, <2>6, <2>7
<1>. QED BY <1>6, <1>7

LEMMA OutsideMirrors ==
    ASSUME Sync!SyncAssumption, OneThread, MirrorInv, Sync!Outside
    PROVE  Forward' /\ OwnRows' /\ [Sync!M!Next]_(Sync!M!vars)
<1>0. SyncTypes /\ SyncJobs /\ SyncTables /\ None \notin Versions /\ Forward /\ OwnRows
  BY SyncConstant DEF MirrorInv, SyncTypes
<1>1. UNCHANGED <<rows, maps, jobPc, fetched, item, local>>
  BY DEF OneThread, Sync!Outside, Sync!RemoteChanges, Sync!Switch, Sync!tables, Sync!loop
<1>2. SameVersions /\ item[Cron] \notin fetched[Cron] /\ None \notin fetched[Cron]
  BY <1>0, <1>1, SyncConstant DEF SameVersions, Forward, SyncJobs
<1>3. CASE remote' = remote
  <2>1. item'[Cron] = None \/ (item'[Cron] \in Held /\ item'[Cron] \notin fetched'[Cron])
    BY <1>1, <1>2 DEF Held
  <2>. QED BY <1>1, <1>2, <1>3, <2>1, QuietMirrors DEF Held
<1>4. ASSUME NEW i \in Sync!Items, Sync!RemoteChanges(i)
      PROVE  Forward' /\ OwnRows' /\ [Sync!M!Next]_(Sync!M!vars)
  <2>1. remote[i] < MaxVersion /\ remote' = [remote EXCEPT ![i] = @ + 1]
    BY <1>4 DEF Sync!RemoteChanges
  <2>2. Sync!M!Change(i)
    BY <1>2, <2>1, SameSeen DEF Sync!M!Change
  <2>3. \A y \in Sync!Items : /\ Seen(y)' = Seen(y) /\ remote'[y] \in Nat /\ remote[y] <= remote'[y]
                              /\ remote[y] \in Nat /\ Seen(y) \subseteq Nat
    BY <1>0, <1>2, <2>1, SameSeen, SeenTypes DEF SyncTables
  <2>4. \A x \in Held : x[1] \in Sync!Items /\ x[2] \in Nat
    BY <1>0, SyncConstant DEF Held, SyncJobs, Versions
  <2>5. Held' = Held
    BY <1>1 DEF Held
  <2>6. Forward'
    <3>1. \A y \in Sync!Items : \A v \in Seen(y)' : v <= remote'[y]
      BY <1>0, <2>3 DEF Forward
    <3>2. \A x \in Held : x[2] <= remote'[x[1]] /\ \A v \in Seen(x[1])' : v <= x[2]
      BY <1>0, <2>3, <2>4 DEF Forward
    <3>. QED BY <1>0, <1>1, <2>5, <3>1, <3>2 DEF Forward
  <2>7. jobPc[Cron] = "map" => item[Cron][1] \in Sync!Items
    BY <1>0, ItemTypes, SyncConstant
  <2>8. OwnRows'
    BY <1>0, <1>1, <1>2, <2>7, SyncConstant, OwnRowsStay DEF SameVersions
  <2>. QED BY <2>2, <2>6, <2>8 DEF Sync!M!Next
<1>5. remote' = remote \/ \E i \in Sync!Items : Sync!RemoteChanges(i)
  BY DEF OneThread, Sync!Outside, Sync!Switch
<1>. QED BY <1>3, <1>4, <1>5

LEMMA MirrorsStep ==
    ASSUME Sync!SyncAssumption, OneThread, MirrorInv, [Sync!Next]_(Sync!vars)
    PROVE  Forward' /\ OwnRows' /\ [Sync!M!Next]_(Sync!M!vars)
<1>0. SyncTypes /\ None \notin Versions /\ SyncJobs /\ Forward
  BY SyncConstant DEF MirrorInv, SyncTypes
<1>1. ASSUME NEW j \in Jobs, JobActs(j) PROVE Forward' /\ OwnRows' /\ [Sync!M!Next]_(Sync!M!vars)
  <2>1. CASE Sync!WriteFound(j) \/ Sync!WriteNew(j)
    <3>1. ASSUME NEW k \in Jobs PROVE k = j
      BY DEF OneThread
    <3>2. SyncTypes'
      BY <1>0, <1>1, <3>1, JobKeepsTypes DEF JobStep, SyncTypes
    <3>. QED BY <2>1, <3>2, WriteMirrors
  <2>2. CASE Sync!Fetch(j)
    BY <2>2, FetchMirrors
  <2>3. CASE Sync!Lookup(j)
    BY <2>3, LookupMirrors
  <2>4. CASE Sync!MapIt(j)
    BY <2>4, MapItMirrors
  <2>5. CASE Sync!WriteInvoice(j) \/ Sync!ItemFails(j) \/ Sync!Stock(j) \/ Sync!StockFails(j)
    BY <2>5, ItemMirrors
  <2>6. CASE \/ Sync!RunProductSync(j) \/ Sync!RunInventorySync(j) \/ Sync!RunClientSync(j)
             \/ Sync!Trigger(j)
             \/ Sync!GetAdapter(j) \/ Sync!NoAdapter(j) \/ Sync!Check(j) \/ Sync!Mark(j)
             \/ Sync!NothingToSync(j) \/ Sync!FetchFails(j) \/ Sync!Clear(j) \/ Sync!Finish(j)
    BY <2>6, TaskMirrors
  <2>. QED BY <1>1, <2>1, <2>2, <2>3, <2>4, <2>5, <2>6 DEF JobActs, Sync!Run, Sync!Fails
<1>2. CASE Sync!Crash
  <2>1. /\ UNCHANGED <<remote, rows, maps>> /\ jobPc'[Cron] = "idle" /\ fetched'[Cron] = {}
        /\ item'[Cron] = None
    BY <1>2, SyncConstant DEF Sync!Crash, Sync!tables
  <2>2. SameVersions
    BY <2>1 DEF SameVersions
  <2>. QED BY <2>1, <2>2, QuietMirrors
<1>3. CASE UNCHANGED Sync!vars
  <2>1. UNCHANGED <<remote, rows, maps, jobPc, fetched, item, local>>
    BY <1>3 DEF Sync!vars, Sync!tables, Sync!loop
  <2>2. SameVersions /\ item[Cron] \notin fetched[Cron] /\ None \notin fetched[Cron]
    BY <1>0, <2>1, SyncConstant DEF SameVersions, Forward, SyncJobs
  <2>3. item'[Cron] = None \/ (item'[Cron] \in Held /\ item'[Cron] \notin fetched'[Cron])
    BY <2>1, <2>2 DEF Held
  <2>. QED BY <2>1, <2>2, <2>3, QuietMirrors DEF Held
<1>. QED BY <1>0, <1>1, <1>2, <1>3, OutsideMirrors, SyncNext

LEMMA InitMirrors ==
    ASSUME Sync!SyncAssumption, Sync!Init PROVE Forward /\ OwnRows /\ Sync!M!Init
<1>. USE DEF Sync!Init
<1>1. ASSUME NEW i \in Sync!Items PROVE Seen(i) = {} /\ Sync!Latest(i) = 0
  <2>1. i # None /\ i[2] \in Sync!Kinds
    BY SyncConstant
  <2>2. \A n \in DOMAIN rows[i[2]] : rows[i[2]][n].of = None
    BY <2>1 DEF Sync!Blank
  <2>3. Seen(i) = {}
    BY <2>1, <2>2 DEF Seen, Sync!RowsOf
  <2>4. Sync!Latest(i) = Sync!Max({0})
    BY <2>3 DEF Sync!Latest, Seen
  <2>5. Sync!Max({0}) = 0
    <3>. PICK S : S = {0}
      OBVIOUS
    <3>1. S \subseteq Nat /\ 0 \in S /\ \A x \in S : x <= 0
      OBVIOUS
    <3>2. Sync!Max(S) = 0
      BY <3>1, MaxIs
    <3>. QED BY <3>2
  <2>. QED BY <2>3, <2>4, <2>5
<1>2. Held = {} /\ item[Cron] \notin fetched[Cron] /\ jobPc[Cron] # "map"
  BY SyncConstant DEF Held
<1>3. Forward
  BY <1>1, <1>2 DEF Forward
<1>4. OwnRows
  BY <1>2 DEF OwnRows, Found, Sync!Mapped
<1>5. Sync!M!Init
  <2>1. Sync!Copies = [i \in Sync!Items |-> 0]
    BY <1>1 DEF Sync!Copies
  <2>2. remote \in [Sync!Items -> 0..MaxVersion]
    BY InitSync DEF SyncTypes, SyncTables
  <2>. QED BY <2>1, <2>2 DEF Sync!M!Init
<1>. QED BY <1>3, <1>4, <1>5

\* With one thread, one upstream connection of a type and no server's mapping, the
\* copies of a remote entity only move forward, to versions it has had: whatever
\* fails, dies or is switched off in between.
THEOREM SyncImplementsMirror ==
    ASSUME Sync!SyncAssumption, OneThread PROVE Sync!Spec => Sync!MirrorSpec
<1>1. Sync!Init => MirrorInv /\ Flagged /\ Sync!M!Init
  BY InitSync, InitCopies, InitMirrors DEF MirrorInv, Sync!Init, Flagged
<1>2. MirrorInv /\ Flagged /\ [Sync!Next]_(Sync!vars)
         => MirrorInv' /\ Flagged' /\ [Sync!M!Next]_(Sync!M!vars)
  BY SyncStep, CopiesStep, MirrorsStep DEF MirrorInv
<1>. QED BY <1>1, <1>2, PTL DEF Sync!Spec, Sync!MirrorSpec, Sync!M!Spec
===============================================================================
