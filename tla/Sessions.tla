------------------------------- MODULE Sessions -------------------------------
(***************************************************************************)
(* The life of a token: issued by a login, checked by jwt_filter.cc on each  *)
(* request, revoked by logout and rotated by refresh of auth_controller.cc.  *)
(* The signature is valid until the token expires whatever happens; what     *)
(* revokes it is a Redis key that expires together with the token, by a      *)
(* lifetime computed from one reading of the clock and started at another.   *)
(***************************************************************************)
EXTENDS Integers

CONSTANTS
    Threads,     \* requests served at a time
    Life,        \* jwt_expires_in
    MaxTokens,   \* bound: tokens ever signed
    MaxTime,     \* bound: where the clock stops
    Unreliable   \* whether Redis commands may fail

Tokens == 1..MaxTokens
None == 0
Kinds == {"use", "logout", "refresh"}

SessionsAssumption ==
    /\ Life \in Nat \ {0} /\ MaxTokens \in Nat /\ MaxTime \in Nat \ {0}
    /\ Unreliable \in BOOLEAN

VARIABLES
    now,
    signed,      \* tokens signed so far
    exp, login,  \* expiry of each token, and the login it descends from
    given,       \* tokens that were answered to a client
    black,       \* jwt:blacklist:{jti}: when the key expires, 0 when there is none
    pc, kind, token,
    ttl,         \* the lifetime computed for the key
    fresh,       \* the token a refresh has signed
    late,        \* history: the request began after a logout of its token
    loggedOut    \* history: tokens whose logout was confirmed

issued  == <<signed, exp, login, given>>
request == <<pc, kind, token, ttl, fresh, late>>
vars    == <<now, issued, black, request, loggedOut>>

Init ==
    /\ now = 1 /\ signed = 0
    /\ exp = [j \in Tokens |-> 0] /\ login = [j \in Tokens |-> None]
    /\ given = {}
    /\ black = [j \in Tokens |-> 0]
    /\ pc = [t \in Threads |-> "idle"]
    /\ kind = [t \in Threads |-> "use"]
    /\ token = [t \in Threads |-> None]
    /\ ttl = [t \in Threads |-> 0]
    /\ fresh = [t \in Threads |-> None]
    /\ late = [t \in Threads |-> FALSE]
    /\ loggedOut = {}

Goto(t, to) == pc' = [pc EXCEPT ![t] = to]

Finish(t) ==
    /\ Goto(t, "idle")
    /\ kind' = [kind EXCEPT ![t] = "use"]
    /\ token' = [token EXCEPT ![t] = None]
    /\ ttl' = [ttl EXCEPT ![t] = 0]
    /\ fresh' = [fresh EXCEPT ![t] = None]
    /\ late' = [late EXCEPT ![t] = FALSE]

Verified(j) == now < exp[j]
Blacklisted(j) == now < black[j]

Sign(from) ==
    /\ signed < MaxTokens
    /\ signed' = signed + 1
    /\ exp' = [exp EXCEPT ![signed'] = now + Life]
    /\ login' = [login EXCEPT ![signed'] = IF from = None THEN signed' ELSE login[from]]

\* The end of a login.
LogIn ==
    /\ Sign(None)
    /\ given' = given \cup {signed'}
    /\ UNCHANGED <<now, black, request, loggedOut>>

-------------------------------------------------------------------------------
\* JWTFilter::doFilter.
Request(t) ==
    /\ pc[t] = "idle"
    /\ \E j \in given, k \in Kinds :
          /\ token' = [token EXCEPT ![t] = j]
          /\ kind' = [kind EXCEPT ![t] = k]
          /\ late' = [late EXCEPT ![t] = j \in loggedOut]
    /\ Goto(t, "verify")
    /\ UNCHANGED <<now, issued, black, ttl, fresh, loggedOut>>

Verify(t) ==
    /\ pc[t] = "verify"
    /\ IF Verified(token[t]) THEN Goto(t, "check") /\ UNCHANGED <<kind, token, ttl, fresh, late>>
                             ELSE Finish(t)
    /\ UNCHANGED <<now, issued, black, loggedOut>>

Handler(t) == IF kind[t] = "use" THEN "used" ELSE kind[t]

Check(t) ==
    /\ pc[t] = "check"
    /\ IF Blacklisted(token[t]) THEN Finish(t)
       ELSE Goto(t, Handler(t)) /\ UNCHANGED <<kind, token, ttl, fresh, late>>
    /\ UNCHANGED <<now, issued, black, loggedOut>>

\* Any other handler: it goes on with the identity the filter has attached.
Use(t) ==
    /\ pc[t] = "used"
    /\ Finish(t)
    /\ UNCHANGED <<now, issued, black, loggedOut>>

-------------------------------------------------------------------------------

\* logout: "Already logged out" when nothing is left of the token's time.
Logout(t) ==
    /\ pc[t] = "logout"
    /\ IF Verified(token[t])
       THEN /\ ttl' = [ttl EXCEPT ![t] = exp[token[t]] - now]
            /\ Goto(t, "revoke")
            /\ UNCHANGED <<kind, token, fresh, late>>
       ELSE Finish(t)
    /\ UNCHANGED <<now, issued, black, loggedOut>>

\* Mutant: the key lives shorter than the token.
RevokeShort(t) ==
    /\ pc[t] = "revoke"
    /\ black' = [black EXCEPT ![token[t]] = now + ttl[t] - 1]
    /\ loggedOut' = loggedOut \cup {token[t]}
    /\ Finish(t)
    /\ UNCHANGED <<now, issued>>
\* SETEX starts the lifetime when it arrives.
Revoke(t) ==
    /\ pc[t] = "revoke"
    /\ black' = [black EXCEPT ![token[t]] = now + ttl[t]]
    /\ loggedOut' = loggedOut \cup {token[t]}
    /\ Finish(t)
    /\ UNCHANGED <<now, issued>>

\* refresh verifies the token once more, signs the next one and revokes this.
Refresh(t) ==
    /\ pc[t] = "refresh"
    /\ IF Verified(token[t])
       THEN /\ Sign(token[t])
            /\ fresh' = [fresh EXCEPT ![t] = signed']
            /\ ttl' = [ttl EXCEPT ![t] = exp[token[t]] - now]
            /\ Goto(t, "rotate")
            /\ UNCHANGED <<kind, token, late>>
       ELSE Finish(t) /\ UNCHANGED <<signed, exp, login>>
    /\ UNCHANGED <<now, given, black, loggedOut>>

Answer(t) == given' = given \cup {fresh[t]} /\ Finish(t)

Rotate(t) ==
    /\ pc[t] = "rotate"
    /\ black' = [black EXCEPT ![token[t]] = now + ttl[t]]
    /\ Answer(t)
    /\ UNCHANGED <<now, signed, exp, login, loggedOut>>

\* A Redis command throws: the filter and logout refuse, refresh only warns.
RedisFails(t) ==
    /\ Unreliable
    /\ \/ pc[t] \in {"check", "revoke"} /\ Finish(t) /\ UNCHANGED given
       \/ pc[t] = "rotate" /\ Answer(t)
    /\ UNCHANGED <<now, signed, exp, login, black, loggedOut>>

Tick ==
    /\ now < MaxTime
    /\ now' = now + 1
    /\ UNCHANGED <<issued, black, request, loggedOut>>

-------------------------------------------------------------------------------
Next ==
    \/ LogIn \/ Tick
    \/ \E t \in Threads :
          \/ Request(t) \/ Verify(t) \/ Check(t) \/ Use(t)
          \/ Logout(t) \/ Revoke(t) \/ Refresh(t) \/ Rotate(t) \/ RedisFails(t)

Spec == Init /\ [][Next]_vars

-------------------------------------------------------------------------------
\* Every token, key and request stays in its domain.
TypeOK ==
    /\ now \in 1..MaxTime /\ signed \in 0..MaxTokens
    /\ exp \in [Tokens -> 0..(MaxTime + Life)] /\ login \in [Tokens -> Tokens \cup {None}]
    /\ given \subseteq 1..signed /\ loggedOut \subseteq given
    /\ black \in [Tokens -> 0..(MaxTime + Life)]
    /\ \A t \in Threads :
          /\ pc[t] = "idle" <=> token[t] = None
          /\ ttl[t] \in 0..Life
          /\ fresh[t] # None => pc[t] = "rotate" /\ login[fresh[t]] = login[token[t]]

\* Once a logout is confirmed, a request begun later gets past the filter only
\* when the token has expired between the two checks: the key outlives every
\* moment at which the signature is still good, however the clock moved
\* between the computation of its lifetime and SETEX.
LoggedOutStaysOut ==
    [][\A t \in Threads : late[t] /\ pc[t] = "check" /\ pc'[t] \in {"used", "logout", "refresh"}
                          => ~Verified(token[t])]_vars

===============================================================================
