------------------------------- MODULE Accounts -------------------------------
(***************************************************************************)
(* Accounts and the way in: registerUser and login of auth_controller.cc,    *)
(* createUser and updatePassword of user_controller.cc.  A registration      *)
(* checks the name, and then inserts a distributor and its user in one       *)
(* transaction, where the unique name decides between two of them.  Logins   *)
(* are counted in Redis by two commands, either of which may fail.           *)
(***************************************************************************)
EXTENDS Integers, FiniteSets

CONSTANTS
    Threads,      \* requests served at a time
    Names,
    Passwords,
    Clients,      \* peer addresses
    Max,          \* kRateLimitMax
    MaxCount,     \* bound: where the counter of a client stops counting
    MaxDists,     \* bound: distributors ever inserted
    Unreliable    \* whether Redis commands may fail

Active == 1
Pending == 2
NoDist == 0     \* none, or one that no registration has made
NoOne == "nobody"

AccountsAssumption ==
    /\ Max \in Nat \ {0} /\ MaxCount \in Nat /\ MaxCount > Max
    /\ MaxDists \in Nat /\ Unreliable \in BOOLEAN
    /\ NoOne \notin Names \cup Clients

VARIABLES
    users,      \* committed users, by name: status, distributor, password, last_login_at
    dists,      \* committed distributors of registrations
    lastDist,   \* distributors_id_seq
    count, ttl, \* rate_limit:login:{client}, and whether it has an expiry
    pc, who,    \* next statement of each request, and its user or client
    dist,       \* the distributor its transaction has inserted
    user,       \* and whether it has inserted the user
    pass        \* the password it sets, and for a change the old one

tables  == <<users, dists, lastDist>>
limiter == <<count, ttl>>
request == <<pc, who, dist, user, pass>>
vars    == <<tables, limiter, request>>

Blank == << >>

Init ==
    /\ users = << >> /\ dists = {} /\ lastDist = NoDist
    /\ count = [c \in Clients |-> 0]
    /\ ttl = [c \in Clients |-> FALSE]
    /\ pc = [t \in Threads |-> "idle"]
    /\ who = [t \in Threads |-> NoOne]
    /\ dist = [t \in Threads |-> NoDist]
    /\ user = [t \in Threads |-> FALSE]
    /\ pass = [t \in Threads |-> Blank]

Known(n) == n \in DOMAIN users
With(n, row) == [x \in DOMAIN users \cup {n} |-> IF x = n THEN row ELSE users[x]]

Begin(t, to, n, p) ==
    /\ pc[t] = "idle"
    /\ pc' = [pc EXCEPT ![t] = to]
    /\ who' = [who EXCEPT ![t] = n]
    /\ pass' = [pass EXCEPT ![t] = p]
    /\ UNCHANGED <<tables, limiter, dist, user>>

Goto(t, to) == pc' = [pc EXCEPT ![t] = to] /\ UNCHANGED <<who, pass>>

\* The request answers; a transaction it has not committed is rolled back.
Finish(t) ==
    /\ pc' = [pc EXCEPT ![t] = "idle"]
    /\ who' = [who EXCEPT ![t] = NoOne]
    /\ pass' = [pass EXCEPT ![t] = Blank]
    /\ dist' = [dist EXCEPT ![t] = NoDist]
    /\ user' = [user EXCEPT ![t] = FALSE]

-------------------------------------------------------------------------------
\* registerUser.
Register(t) == \E n \in Names, p \in Passwords : Begin(t, "nameFree", n, <<p>>)

NameFree(t) ==
    /\ pc[t] = "nameFree"
    /\ UNCHANGED <<tables, limiter>>
    /\ IF Known(who[t]) THEN Finish(t) ELSE Goto(t, "insertDist") /\ UNCHANGED <<dist, user>>

\* Mutant: the distributor is committed before its user.
InsertDistAtOnce(t) ==
    /\ pc[t] = "insertDist" /\ lastDist < MaxDists
    /\ lastDist' = lastDist + 1
    /\ dist' = [dist EXCEPT ![t] = lastDist']
    /\ dists' = dists \cup {lastDist'}
    /\ Goto(t, "insertUser")
    /\ UNCHANGED <<users, limiter, user>>
InsertDist(t) ==
    /\ pc[t] = "insertDist" /\ lastDist < MaxDists
    /\ lastDist' = lastDist + 1
    /\ dist' = [dist EXCEPT ![t] = lastDist']
    /\ Goto(t, "insertUser")
    /\ UNCHANGED <<users, dists, limiter, user>>

\* A name another transaction has inserted and not committed has to be awaited.
Awaited(t) == \E s \in Threads \ {t} : user[s] /\ who[s] = who[t]

InsertUser(t) ==
    /\ pc[t] = "insertUser" /\ ~Awaited(t)
    /\ UNCHANGED <<tables, limiter>>
    /\ IF Known(who[t])
       THEN Finish(t)
       ELSE user' = [user EXCEPT ![t] = TRUE] /\ Goto(t, "commit") /\ UNCHANGED dist

Commit(t) ==
    /\ pc[t] = "commit"
    /\ users' = With(who[t], [status |-> Pending, dist |-> dist[t], pass |-> pass[t][1], seen |-> FALSE])
    /\ dists' = dists \cup {dist[t]}
    /\ UNCHANGED <<lastDist, limiter>>
    /\ Finish(t)

-------------------------------------------------------------------------------
\* createUser: the same check, and one statement outside of a transaction, of
\* any distributor the body names: a foreign key refuses one that is not there.
CreateUser(t) == \E n \in Names, p \in Passwords : Begin(t, "createFree", n, <<p>>)

CreateFree(t) ==
    /\ pc[t] = "createFree"
    /\ UNCHANGED <<tables, limiter>>
    /\ IF Known(who[t]) THEN Finish(t) ELSE Goto(t, "create") /\ UNCHANGED <<dist, user>>

Create(t) ==
    /\ pc[t] = "create" /\ ~Awaited(t)
    /\ \E d \in 0..MaxDists :
          users' = IF Known(who[t]) \/ d \notin dists \cup {NoDist}
                   THEN users
                   ELSE With(who[t], [status |-> Active, dist |-> d, pass |-> pass[t][1], seen |-> FALSE])
    /\ UNCHANGED <<dists, lastDist, limiter>>
    /\ Finish(t)

\* updatePassword.  The old password is verified when it is one's own that
\* changes and the body gives it.
ChangePassword(t) ==
    \E n \in Names, new \in Passwords :
        /\ Known(n)
        /\ \/ Begin(t, "setPassword", n, <<new>>)
           \/ \E old \in Passwords : Begin(t, "verify", n, <<new, old>>)

Verify(t) ==
    /\ pc[t] = "verify"
    /\ UNCHANGED <<tables, limiter>>
    /\ IF users[who[t]].pass # pass[t][2]
       THEN Finish(t)
       ELSE Goto(t, "setPassword") /\ UNCHANGED <<dist, user>>

SetPassword(t) ==
    /\ pc[t] = "setPassword"
    /\ users' = [users EXCEPT ![who[t]].pass = pass[t][1]]
    /\ UNCHANGED <<dists, lastDist, limiter>>
    /\ Finish(t)

-------------------------------------------------------------------------------
\* login.  The counter does not outgrow MaxCount, where it has long refused.
Remaining(n) == Max - n
Answer(r) == IF r < 0 THEN "503" ELSE IF r = 0 THEN "429" ELSE "look up"

Login(t) == \E c \in Clients : Begin(t, "incr", c, Blank)

Incr(t) ==
    /\ pc[t] = "incr"
    /\ LET c == who[t]
           n == IF count[c] < MaxCount THEN count[c] + 1 ELSE MaxCount
       IN  /\ count' = [count EXCEPT ![c] = n]
           /\ IF n = 1 THEN Goto(t, "expire") /\ UNCHANGED <<dist, user>>
              ELSE IF Answer(Remaining(n)) = "look up"
                   THEN Goto(t, "lookUp") /\ UNCHANGED <<dist, user>>
                   ELSE Finish(t)
    /\ UNCHANGED <<tables, ttl>>

\* Mutant: the window is never started.
ExpireLater(t) ==
    /\ pc[t] = "expire"
    /\ Goto(t, "lookUp")
    /\ UNCHANGED <<tables, limiter, dist, user>>
Expire(t) ==
    /\ pc[t] = "expire"
    /\ ttl' = [ttl EXCEPT ![who[t]] = count[who[t]] > 0]
    /\ Goto(t, "lookUp")
    /\ UNCHANGED <<tables, count, dist, user>>

LookUp(t) ==
    /\ pc[t] = "lookUp"
    /\ \E n \in Names, p \in Passwords :
          users' = IF Known(n) /\ users[n].pass = p /\ users[n].status = Active
                   THEN [users EXCEPT ![n].seen = TRUE] ELSE users
    /\ UNCHANGED <<dists, lastDist, limiter>>
    /\ Finish(t)

\* A command of checkRateLimit throws: the login is refused.
RedisFails(t) ==
    /\ Unreliable
    /\ pc[t] \in {"incr", "expire"}
    /\ UNCHANGED <<tables, limiter>>
    /\ Finish(t)

\* Redis drops the key at the end of the window.
WindowEnds(c) ==
    /\ ttl[c]
    /\ count' = [count EXCEPT ![c] = 0]
    /\ ttl' = [ttl EXCEPT ![c] = FALSE]
    /\ UNCHANGED <<tables, request>>

-------------------------------------------------------------------------------
\* The process dies, between any two steps, or a database error ends a request.
Crash(t) ==
    /\ Unreliable
    /\ pc[t] \in {"insertUser", "commit", "setPassword", "lookUp"}
    /\ UNCHANGED <<tables, limiter>>
    /\ Finish(t)

Statement(t) ==
    \/ NameFree(t) \/ InsertDist(t) \/ InsertUser(t) \/ Commit(t)
    \/ CreateFree(t) \/ Create(t) \/ Verify(t) \/ SetPassword(t)
    \/ Incr(t) \/ Expire(t) \/ LookUp(t)

Next ==
    \/ \E t \in Threads :
          \/ Register(t) \/ CreateUser(t) \/ ChangePassword(t) \/ Login(t)
          \/ Statement(t) \/ RedisFails(t) \/ Crash(t)
    \/ \E c \in Clients : WindowEnds(c)

Spec == Init /\ [][Next]_vars

\* The event loops serve every request, and Redis drops keys that expire.
FairSpec ==
    /\ Spec
    /\ \A t \in Threads : WF_vars(Statement(t))
    /\ \A c \in Clients : WF_vars(WindowEnds(c))

-------------------------------------------------------------------------------
\* Every table, counter and request stays in its domain.
TypeOK ==
    /\ DOMAIN users \subseteq Names
    /\ \A n \in DOMAIN users :
          users[n] \in [status: {Active, Pending}, dist: 0..MaxDists, pass: Passwords, seen: BOOLEAN]
    /\ dists \subseteq 1..MaxDists /\ lastDist \in 0..MaxDists
    /\ count \in [Clients -> 0..MaxCount] /\ ttl \in [Clients -> BOOLEAN]
    /\ \A t \in Threads : user[t] => dist[t] # NoDist
    /\ \A t \in Threads : pc[t] = "idle" <=> who[t] = NoOne

\* A registration leaves a distributor and a user of it that waits for approval,
\* or neither, whoever else takes the name after it was found free, and wherever
\* it breaks off; two registrations never come to share a distributor.
Registrants == {n \in DOMAIN users : users[n].status = Pending}
RegisteredTogether ==
    /\ \A d \in dists : \E n \in Registrants : users[n].dist = d
    /\ \A n \in Registrants : users[n].dist \in dists
    /\ \A m, n \in Registrants : users[m].dist = users[n].dist => m = n

\* An account, once there, is never replaced by another of its name, though
\* each name is checked before and outside of the insertion.
AccountIsKept ==
    [][\A n \in DOMAIN users : users'[n].dist = users[n].dist
                               /\ users'[n].status = users[n].status]_users

\* "Too many login attempts, try again later" (auth_controller.cc:182): every
\* lock-out comes to an end, however many requests count at once.
LockoutEnds == \A c \in Clients : count[c] >= Max ~> count[c] < Max

===============================================================================
