----------------------------- MODULE AccessProofs -----------------------------
(***************************************************************************)
(* Proofs about Sessions and Accounts, for any number of requests, tokens,   *)
(* names and moments.                                                        *)
(*                                                                          *)
(* The lifetime of a blacklist key is computed from one reading of the clock  *)
(* and started at a later one, so the key may only outlive its token          *)
(* (Outlives), also while SETEX is on its way (Underway).                    *)
(*                                                                          *)
(* A registration answers from rows it read before others wrote theirs: what   *)
(* a request still knows is RequestFact, and Apart keeps the uncommitted rows *)
(* of two registrations from being the same.                                 *)
(***************************************************************************)
EXTENDS Sessions, TLAPS

Labels == {"idle", "verify", "check", "used", "logout", "revoke", "refresh", "rotate"}

Clocks ==
    /\ now \in 1..MaxTime /\ signed \in 0..MaxTokens
    /\ exp \in [Tokens -> 0..(MaxTime + Life)] /\ login \in [Tokens -> Tokens \cup {None}]
    /\ black \in [Tokens -> 0..(MaxTime + Life)]
    /\ given \subseteq 1..signed /\ loggedOut \subseteq given
    /\ \A j \in 1..signed : exp[j] <= now + Life /\ login[j] \in Tokens

Requests ==
    /\ pc \in [Threads -> Labels] /\ kind \in [Threads -> Kinds]
    /\ token \in [Threads -> Tokens \cup {None}] /\ fresh \in [Threads -> Tokens \cup {None}]
    /\ ttl \in [Threads -> 0..Life] /\ late \in [Threads -> BOOLEAN]
    /\ \A t \in Threads :
          /\ IF pc[t] = "idle" THEN token[t] = None ELSE token[t] \in given
          /\ fresh[t] # None => /\ pc[t] = "rotate" /\ fresh[t] \in 1..signed
                                /\ login[fresh[t]] = login[token[t]]
          /\ pc[t] = "rotate" => fresh[t] # None

Outlives == \A j \in loggedOut : exp[j] <= black[j]
Underway ==
    \A t \in Threads :
        /\ pc[t] \in {"revoke", "rotate"} => exp[token[t]] <= now + ttl[t]
        /\ late[t] => token[t] \in loggedOut

IInv == Clocks /\ Requests /\ Outlives /\ Underway

-------------------------------------------------------------------------------
LEMMA Positive == ASSUME SessionsAssumption
                  PROVE  /\ Life \in Nat /\ Life >= 1 /\ MaxTime \in Nat /\ MaxTime >= 1
                         /\ MaxTokens \in Nat /\ None \notin Tokens /\ Tokens = 1..MaxTokens
BY DEF SessionsAssumption, Tokens, None

LEMMA Facts ==
    ASSUME SessionsAssumption, IInv
    PROVE  /\ now \in Nat /\ now <= MaxTime /\ signed \in Nat /\ signed <= MaxTokens
           /\ 1..signed \subseteq Tokens /\ given \subseteq Tokens
           /\ \A j \in Tokens : exp[j] \in Nat /\ black[j] \in Nat
           /\ \A t \in Threads : /\ ttl[t] \in Nat /\ ttl[t] <= Life
                                 /\ pc[t] # "idle" => token[t] \in given /\ token[t] # None
<1>1. now \in Nat /\ now <= MaxTime /\ signed \in Nat /\ signed <= MaxTokens
  BY Positive DEF IInv, Clocks
<1>2. 1..signed \subseteq Tokens
  BY <1>1, Positive
<1>3. \A j \in Tokens : exp[j] \in 0..(MaxTime + Life) /\ black[j] \in 0..(MaxTime + Life)
  BY DEF IInv, Clocks
<1>4. \A j \in Tokens : exp[j] \in Nat /\ black[j] \in Nat
  BY <1>3, Positive
<1>6. given \subseteq 1..signed
  BY DEF IInv, Clocks
<1>7. \A t \in Threads : ttl[t] \in Nat /\ ttl[t] <= Life
  <2>1. Life \in Nat
    BY Positive
  <2>2. ttl \in [Threads -> 0..Life]
    BY DEF IInv, Requests
  <2>. QED BY <2>1, <2>2
<1>8. given \subseteq Tokens
  BY <1>2, <1>6
<1>9. \A t \in Threads : pc[t] # "idle" => token[t] \in given /\ token[t] # None
  BY <1>8, Positive DEF IInv, Requests
<1>. QED BY <1>1, <1>2, <1>4, <1>7, <1>8, <1>9

LEMMA InitInv == ASSUME SessionsAssumption, Init PROVE IInv
BY Positive DEF Init, IInv, Clocks, Requests, Outlives, Underway, Labels, Kinds

\* The end of a request, when the tokens it knew and the keys have not changed
\* or have only gained.
LEMMA Finished ==
    ASSUME SessionsAssumption, Clocks', Outlives', Requests, Underway, NEW t \in Threads, Finish(t),
           UNCHANGED <<now, signed, exp, login>>, given \subseteq given', loggedOut \subseteq loggedOut'
    PROVE  IInv'
<1>1. \A s \in Threads \ {t} : /\ pc'[s] = pc[s] /\ token'[s] = token[s] /\ ttl'[s] = ttl[s]
                               /\ fresh'[s] = fresh[s] /\ late'[s] = late[s]
  BY DEF Finish, Goto, Requests
<1>2. pc'[t] = "idle" /\ token'[t] = None /\ ttl'[t] = 0 /\ fresh'[t] = None /\ ~late'[t]
  BY DEF Finish, Goto, Requests
<1>3. Requests'
  <2>1. /\ pc' \in [Threads -> Labels] /\ kind' \in [Threads -> Kinds]
        /\ token' \in [Threads -> Tokens \cup {None}] /\ fresh' \in [Threads -> Tokens \cup {None}]
        /\ ttl' \in [Threads -> 0..Life] /\ late' \in [Threads -> BOOLEAN]
    BY Positive DEF Finish, Goto, Requests, Labels, Kinds
  <2>. QED BY <1>1, <1>2, <2>1 DEF Requests
<1>4. Underway'
  BY <1>1, <1>2 DEF Underway
<1>. QED BY <1>3, <1>4 DEF IInv

\* A step of a request that changes nothing but its pc.
LEMMA Moved ==
    ASSUME IInv, NEW t \in Threads, NEW to \in Labels \ {"idle", "revoke", "rotate"}, Goto(t, to),
           pc[t] \notin {"idle", "rotate"},
           UNCHANGED <<now, issued, black, kind, token, ttl, fresh, late, loggedOut>>
    PROVE  IInv'
<1>1. \A s \in Threads : pc'[s] = IF s = t THEN to ELSE pc[s]
  BY DEF Goto, IInv, Requests
<1>2. pc' \in [Threads -> Labels]
  BY DEF Goto, IInv, Requests
<1>3. Clocks' /\ Outlives'
  BY DEF IInv, Clocks, Outlives, issued
<1>4. Requests'
  BY <1>1, <1>2 DEF IInv, Requests, issued
<1>5. Underway'
  BY <1>1 DEF IInv, Underway, issued
<1>. QED BY <1>3, <1>4, <1>5 DEF IInv

\* A new token disturbs none of those that were given.
LEMMA Signed ==
    ASSUME SessionsAssumption, IInv, NEW from \in given \cup {None}, Sign(from),
           now' = now, given \subseteq given', given' \subseteq 1..signed', UNCHANGED <<black, loggedOut>>
    PROVE  /\ Clocks' /\ Outlives' /\ signed' = signed + 1 /\ signed' \in Tokens
           /\ \A j \in 1..signed : exp'[j] = exp[j] /\ login'[j] = login[j]
           /\ login'[signed'] = IF from = None THEN signed' ELSE login[from]
<1>1. signed' = signed + 1 /\ signed' \in Tokens /\ 1..signed \subseteq 1..signed'
  <2>1. signed' = signed + 1 /\ signed < MaxTokens
    BY DEF Sign
  <2>. QED BY <2>1, Facts, Positive
<1>2. from # None => login[from] \in Tokens
  BY DEF IInv, Clocks
<1>3. /\ exp' = [exp EXCEPT ![signed'] = now + Life]
      /\ login' = [login EXCEPT ![signed'] = IF from = None THEN signed' ELSE login[from]]
  BY DEF Sign
<1>4. /\ \A j \in 1..signed : exp'[j] = exp[j] /\ login'[j] = login[j]
      /\ login'[signed'] = (IF from = None THEN signed' ELSE login[from]) /\ exp'[signed'] = now + Life
  BY <1>1, <1>3, Positive DEF IInv, Clocks
<1>5. /\ exp' \in [Tokens -> 0..(MaxTime + Life)] /\ login' \in [Tokens -> Tokens \cup {None}]
  BY <1>1, <1>2, <1>3, Positive DEF IInv, Clocks
<1>6. \A j \in 1..signed' : j = signed' \/ j \in 1..signed
  BY <1>1 DEF IInv, Clocks
<1>7. Clocks'
  <2>1. signed' \in 0..MaxTokens
    BY <1>1, Positive
  <2>2. ASSUME NEW j \in 1..signed' PROVE exp'[j] <= now + Life /\ login'[j] \in Tokens
    <3>1. CASE j \in 1..signed
      BY <1>4, <3>1 DEF IInv, Clocks
    <3>2. CASE j = signed'
      BY <1>1, <1>2, <1>4, <3>2, Facts, Positive
    <3>. QED BY <1>6, <3>1, <3>2
  <2>. QED BY <1>1, <1>5, <2>1, <2>2, Facts DEF IInv, Clocks
<1>8. Outlives'
  BY <1>4 DEF IInv, Clocks, Outlives
<1>. QED BY <1>1, <1>4, <1>7, <1>8

LEMMA NextInv == ASSUME SessionsAssumption, IInv, [Next]_vars PROVE IInv'
<1>1. CASE LogIn
  <2>1. Clocks' /\ Outlives' /\ signed' = signed + 1
        /\ \A j \in 1..signed : exp'[j] = exp[j] /\ login'[j] = login[j]
    <3>1. given \subseteq given' /\ given' \subseteq 1..signed'
      BY <1>1, Positive DEF LogIn, Sign, IInv, Clocks
    <3>. QED BY <1>1, <3>1, Signed DEF LogIn
  <2>2. UNCHANGED <<pc, kind, token, ttl, fresh, late, now, loggedOut>> /\ given \subseteq given'
    BY <1>1 DEF LogIn, request
  <2>3. 1..signed \subseteq 1..signed'
    BY <2>1 DEF IInv, Clocks
  <2>4. \A t \in Threads : token[t] # None => token[t] \in 1..signed
    BY Positive DEF IInv, Requests, Clocks
  <2>5. Requests'
    BY <2>1, <2>2, <2>3, <2>4, Positive DEF IInv, Requests, Clocks
  <2>6. Underway'
    BY <2>1, <2>2, <2>4, Positive DEF IInv, Requests, Underway, Clocks
  <2>. QED BY <2>1, <2>5, <2>6 DEF IInv
<1>2. ASSUME NEW t \in Threads, Request(t) PROVE IInv'
  <2>1. PICK j \in given, k \in Kinds :
           /\ token' = [token EXCEPT ![t] = j]
           /\ kind' = [kind EXCEPT ![t] = k]
           /\ late' = [late EXCEPT ![t] = j \in loggedOut]
    BY <1>2 DEF Request
  <2>2. pc' = [pc EXCEPT ![t] = "verify"] /\ pc[t] = "idle"
    BY <1>2 DEF Request, Goto
  <2>3. UNCHANGED <<now, signed, exp, login, given, black, ttl, fresh, loggedOut>>
    BY <1>2 DEF Request, issued
  <2>4. Clocks' /\ Outlives'
    BY <2>3 DEF IInv, Clocks, Outlives
  <2>5. j \in Tokens
    BY Positive DEF IInv, Clocks
  <2>6. Requests'
    BY <2>1, <2>2, <2>3, <2>5, Positive DEF IInv, Requests, Labels
  <2>7. Underway'
    BY <2>1, <2>2, <2>3 DEF IInv, Requests, Underway
  <2>. QED BY <2>4, <2>6, <2>7 DEF IInv
<1>3. ASSUME NEW t \in Threads, Finish(t), UNCHANGED <<now, issued, black, loggedOut>> PROVE IInv'
  BY <1>3, Finished DEF IInv, Clocks, Outlives, issued
<1>4. ASSUME NEW t \in Threads, Verify(t) PROVE IInv'
  <2>1. CASE Verified(token[t])
    BY <1>4, <2>1, Moved DEF Verify, Labels
  <2>2. CASE ~Verified(token[t])
    BY <1>3, <1>4, <2>2 DEF Verify
  <2>. QED BY <2>1, <2>2
<1>5. ASSUME NEW t \in Threads, Check(t) PROVE IInv'
  <2>1. CASE Blacklisted(token[t])
    BY <1>3, <1>5, <2>1 DEF Check
  <2>2. CASE ~Blacklisted(token[t])
    <3>1. Handler(t) \in Labels \ {"idle", "revoke", "rotate"}
      BY DEF Handler, IInv, Requests, Labels, Kinds
    <3>. QED BY <1>5, <2>2, <3>1, Moved DEF Check
  <2>. QED BY <2>1, <2>2
<1>6. ASSUME NEW t \in Threads, Use(t) PROVE IInv'
  BY <1>3, <1>6 DEF Use
<1>7. ASSUME NEW t \in Threads, Logout(t) PROVE IInv'
  <2>1. CASE ~Verified(token[t])
    BY <1>3, <1>7, <2>1 DEF Logout
  <2>2. CASE Verified(token[t])
    <3>1. /\ pc[t] = "logout" /\ ttl' = [ttl EXCEPT ![t] = exp[token[t]] - now]
          /\ pc' = [pc EXCEPT ![t] = "revoke"]
          /\ UNCHANGED <<now, signed, exp, login, given, black, kind, token, fresh, late, loggedOut>>
      BY <1>7, <2>2 DEF Logout, Goto, issued
    <3>2. /\ token[t] \in given /\ now \in Nat /\ exp[token[t]] \in Nat /\ now < exp[token[t]]
          /\ exp[token[t]] <= now + Life
      BY <2>2, <3>1, Facts, Positive DEF IInv, Clocks, Verified
    <3>3. exp[token[t]] - now \in 0..Life
      BY <3>2, Positive
    <3>4. Clocks' /\ Outlives'
      BY <3>1 DEF IInv, Clocks, Outlives
    <3>5. Requests'
      BY <3>1, <3>2, <3>3 DEF IInv, Requests, Labels
    <3>6. Underway'
      BY <3>1, <3>2 DEF IInv, Requests, Underway
    <3>. QED BY <3>4, <3>5, <3>6 DEF IInv
  <2>. QED BY <2>1, <2>2
<1>8. ASSUME NEW t \in Threads, pc[t] \in {"revoke", "rotate"}, now' = now, UNCHANGED <<signed, exp, login>>,
             black' = [black EXCEPT ![token[t]] = now + ttl[t]],
             given \subseteq given', given' \subseteq 1..signed',
             loggedOut' \subseteq loggedOut \cup {token[t]}
      PROVE  Clocks' /\ Outlives'
  <2>1. /\ token[t] \in given /\ token[t] \in Tokens /\ now + ttl[t] \in 0..(MaxTime + Life)
        /\ exp[token[t]] <= now + ttl[t]
    <3>1. now + ttl[t] \in 0..(MaxTime + Life)
      <4>1. ttl[t] \in Nat /\ ttl[t] <= Life /\ now \in Nat /\ now <= MaxTime
        BY Facts
      <4>. QED BY <4>1, Positive
    <3>. QED BY <1>8, <3>1, Facts DEF IInv, Underway
  <2>. QED BY <1>8, <2>1 DEF IInv, Clocks, Outlives
<1>9. ASSUME NEW t \in Threads, Revoke(t) PROVE IInv'
  <2>1. /\ pc[t] = "revoke" /\ black' = [black EXCEPT ![token[t]] = now + ttl[t]]
        /\ loggedOut' = loggedOut \cup {token[t]} /\ Finish(t)
        /\ UNCHANGED <<now, signed, exp, login, given>>
    BY <1>9 DEF Revoke, issued
  <2>2. given' \subseteq 1..signed'
    BY <2>1 DEF IInv, Clocks
  <2>3. Clocks' /\ Outlives'
    BY <1>8, <2>1, <2>2
  <2>. QED BY <2>1, <2>3, Finished DEF IInv
<1>10. ASSUME NEW t \in Threads, Answer(t), pc[t] = "rotate"
       PROVE  given \subseteq given' /\ given' \subseteq 1..signed
  BY <1>10 DEF Answer, IInv, Requests, Clocks
<1>11. ASSUME NEW t \in Threads, Rotate(t) PROVE IInv'
  <2>1. /\ pc[t] = "rotate" /\ black' = [black EXCEPT ![token[t]] = now + ttl[t]]
        /\ Answer(t) /\ UNCHANGED <<now, signed, exp, login, loggedOut>>
    BY <1>11 DEF Rotate
  <2>2. given \subseteq given' /\ given' \subseteq 1..signed'
    BY <1>10, <2>1
  <2>3. Clocks' /\ Outlives'
    BY <1>8, <2>1, <2>2
  <2>. QED BY <2>1, <2>2, <2>3, Finished DEF IInv, Answer
<1>12. ASSUME NEW t \in Threads, RedisFails(t) PROVE IInv'
  <2>1. UNCHANGED <<now, signed, exp, login, black, loggedOut>>
    BY <1>12 DEF RedisFails
  <2>2. Finish(t) /\ given \subseteq given' /\ given' \subseteq 1..signed'
    <3>1. CASE Finish(t) /\ UNCHANGED given
      BY <2>1, <3>1 DEF IInv, Clocks
    <3>2. CASE pc[t] = "rotate" /\ Answer(t)
      BY <1>10, <2>1, <3>2 DEF Answer
    <3>. QED BY <1>12, <3>1, <3>2 DEF RedisFails
  <2>3. Clocks' /\ Outlives'
    BY <2>1, <2>2 DEF IInv, Clocks, Outlives
  <2>. QED BY <2>1, <2>2, <2>3, Finished DEF IInv
<1>13. ASSUME NEW t \in Threads, Refresh(t) PROVE IInv'
  <2>1. CASE ~Verified(token[t])
    BY <1>3, <1>13, <2>1 DEF Refresh, issued
  <2>2. CASE Verified(token[t])
    <3>1. /\ pc[t] = "refresh" /\ Sign(token[t])
          /\ fresh' = [fresh EXCEPT ![t] = signed'] /\ ttl' = [ttl EXCEPT ![t] = exp[token[t]] - now]
          /\ pc' = [pc EXCEPT ![t] = "rotate"]
          /\ UNCHANGED <<now, given, black, kind, token, late, loggedOut>>
      BY <1>13, <2>2 DEF Refresh, Goto
    <3>2. /\ token[t] \in given /\ now \in Nat /\ exp[token[t]] \in Nat /\ now < exp[token[t]]
          /\ exp[token[t]] <= now + Life /\ given \subseteq 1..signed
      BY <2>2, <3>1, Facts, Positive DEF IInv, Clocks, Verified
    <3>3. exp[token[t]] - now \in 0..Life
      BY <3>2, Positive
    <3>4. given' \subseteq 1..signed'
      BY <3>1, <3>2 DEF Sign, IInv, Clocks
    <3>5. /\ Clocks' /\ Outlives' /\ signed' = signed + 1 /\ signed' \in Tokens
          /\ \A j \in 1..signed : exp'[j] = exp[j] /\ login'[j] = login[j]
          /\ login'[signed'] = IF token[t] = None THEN signed' ELSE login[token[t]]
      BY <3>1, <3>2, <3>4, Signed
    <3>6. token[t] # None /\ login'[signed'] = login'[token[t]] /\ exp'[token[t]] = exp[token[t]]
      <4>1. token[t] \in 1..signed /\ token[t] # None
        BY <3>2, <3>1, Facts
      <4>. QED BY <3>5, <4>1
    <3>7. 1..signed \subseteq 1..signed' /\ signed' # None /\ signed' \in 1..signed'
      BY <3>5, Facts, Positive
    <3>8. \A s \in Threads \ {t} : token[s] # None => token[s] \in 1..signed
      BY Positive, <3>2 DEF IInv, Requests
    <3>9. Requests'
      <4>1. /\ pc' \in [Threads -> Labels] /\ kind' \in [Threads -> Kinds]
            /\ token' \in [Threads -> Tokens \cup {None}] /\ fresh' \in [Threads -> Tokens \cup {None}]
            /\ ttl' \in [Threads -> 0..Life] /\ late' \in [Threads -> BOOLEAN]
        BY <3>1, <3>3, <3>5 DEF IInv, Requests, Labels
      <4>2. pc'[t] = "rotate" /\ fresh'[t] = signed' /\ token'[t] = token[t]
        BY <3>1 DEF IInv, Requests
      <4>3. \A s \in Threads \ {t} : pc'[s] = pc[s] /\ fresh'[s] = fresh[s] /\ token'[s] = token[s]
        BY <3>1 DEF IInv, Requests
      <4>4. ASSUME NEW s \in Threads \ {t}, fresh[s] # None
            PROVE  fresh[s] \in 1..signed' /\ login'[fresh[s]] = login'[token[s]]
        BY <3>2, <3>5, <3>7, <3>8, <4>4, Positive DEF IInv, Requests
      <4>. QED BY <3>1, <3>2, <3>6, <3>7, <4>1, <4>2, <4>3, <4>4 DEF IInv, Requests
    <3>10. Underway'
      <4>1. exp'[token'[t]] <= now' + ttl'[t] /\ token'[t] = token[t] /\ late'[t] = late[t]
        BY <3>1, <3>2, <3>6 DEF IInv, Requests
      <4>2. ASSUME NEW s \in Threads \ {t}
            PROVE  /\ pc'[s] = pc[s] /\ token'[s] = token[s] /\ ttl'[s] = ttl[s] /\ late'[s] = late[s]
                   /\ pc[s] # "idle" => exp'[token[s]] = exp[token[s]]
        BY <3>1, <3>2, <3>5 DEF IInv, Requests
      <4>. QED BY <3>1, <4>1, <4>2 DEF IInv, Underway
    <3>. QED BY <3>5, <3>9, <3>10 DEF IInv
  <2>. QED BY <2>1, <2>2
<1>14. CASE Tick
  <2>1. now' = now + 1 /\ now' \in 1..MaxTime /\ UNCHANGED <<issued, black, request, loggedOut>>
    BY <1>14, Positive DEF Tick, IInv, Clocks
  <2>2. Outlives' /\ Requests'
    BY <2>1 DEF IInv, Outlives, Requests, issued, request
  <2>3. Clocks'
    <3>1. \A j \in 1..signed : exp[j] \in Nat /\ exp[j] <= now + Life
      BY Facts DEF IInv, Clocks
    <3>2. \A j \in 1..signed : exp[j] <= now' + Life
      BY <2>1, <3>1, Facts, Positive
    <3>. QED BY <2>1, <3>2 DEF IInv, Clocks, issued
  <2>4. Underway'
    <3>1. \A t \in Threads : pc[t] \in {"revoke", "rotate"} =>
             exp[token[t]] \in Nat /\ ttl[t] \in Nat /\ now \in Nat
      BY Facts
    <3>. QED BY <2>1, <3>1 DEF IInv, Underway, issued, request
  <2>. QED BY <2>2, <2>3, <2>4 DEF IInv
<1>15. CASE UNCHANGED vars
  BY <1>15 DEF vars, issued, request, IInv, Clocks, Requests, Outlives, Underway
<1>. QED
  BY <1>1, <1>2, <1>4, <1>5, <1>6, <1>7, <1>9, <1>11, <1>12, <1>13, <1>14, <1>15 DEF Next

-------------------------------------------------------------------------------
\* Tokens, keys and requests are of their types, and the key of a token that is
\* logged out, or on its way to be, outlives the token.
THEOREM Invariance == ASSUME SessionsAssumption PROVE Spec => []IInv
<1>1. Init => IInv
  BY InitInv
<1>2. IInv /\ [Next]_vars => IInv'
  BY NextInv
<1>. QED BY <1>1, <1>2, PTL DEF Spec

THEOREM TypeCorrect == ASSUME SessionsAssumption PROVE Spec => []TypeOK
<1>1. ASSUME IInv PROVE TypeOK
  BY <1>1, Facts DEF IInv, Clocks, Requests, TypeOK
<1>. QED BY <1>1, Invariance, PTL

\* A token whose logout was confirmed gets no request begun later past the
\* filter while its signature is good, at whatever moments the clock moved.
THEOREM RevokedForGood == ASSUME SessionsAssumption PROVE Spec => LoggedOutStaysOut
<1>1. ASSUME IInv, [Next]_vars, NEW t \in Threads, late[t], pc[t] = "check",
             pc'[t] \in {"used", "logout", "refresh"}
      PROVE  ~Verified(token[t])
  <2>1. token[t] \in loggedOut /\ exp[token[t]] <= black[token[t]]
    BY <1>1 DEF IInv, Underway, Outlives
  <2>2. Check(t)
    <3>1. \A s \in Threads : Finish(s) => pc'[t] = IF s = t THEN "idle" ELSE pc[t]
      BY <1>1 DEF Finish, Goto, IInv, Requests
    <3>2. \A s \in Threads : \A to : Goto(s, to) => pc'[t] = IF s = t THEN to ELSE pc[t]
      BY <1>1 DEF Goto, IInv, Requests
    <3>3. pc' = pc => pc'[t] = "check"
      BY <1>1
    <3>4. ASSUME NEW s \in Threads, Request(s) \/ Verify(s) PROVE FALSE
      <4>1. CASE Request(s)
        BY <1>1, <3>2, <4>1 DEF Request
      <4>2. CASE Verify(s)
        BY <1>1, <3>1, <3>2, <4>2 DEF Verify
      <4>. QED BY <3>4, <4>1, <4>2
    <3>5. ASSUME NEW s \in Threads, Use(s) \/ Logout(s) \/ Refresh(s) PROVE FALSE
      BY <1>1, <3>1, <3>2, <3>5 DEF Use, Logout, Refresh
    <3>6. ASSUME NEW s \in Threads, Revoke(s) \/ Rotate(s) \/ RedisFails(s) PROVE FALSE
      BY <1>1, <3>1, <3>6 DEF Revoke, Rotate, RedisFails, Answer
    <3>7. ASSUME NEW s \in Threads, Check(s) PROVE s = t
      BY <1>1, <3>1, <3>2, <3>7 DEF Check
    <3>8. ASSUME LogIn \/ Tick \/ UNCHANGED vars PROVE FALSE
      BY <1>1, <3>3, <3>8 DEF LogIn, Tick, vars, request
    <3>. QED BY <1>1, <3>4, <3>5, <3>6, <3>7, <3>8 DEF Next
  <2>3. ~Blacklisted(token[t])
    <3>1. Blacklisted(token[t]) => pc'[t] = "idle"
      BY <1>1, <2>2 DEF Check, Finish, Goto, IInv, Requests
    <3>. QED BY <1>1, <3>1
  <2>4. exp[token[t]] \in Nat /\ black[token[t]] \in Nat /\ now \in Nat
    BY <1>1, Facts
  <2>. QED BY <2>1, <2>3, <2>4 DEF Blacklisted, Verified
<1>2. IInv /\ [Next]_vars => [\A t \in Threads : late[t] /\ pc[t] = "check"
                                  /\ pc'[t] \in {"used", "logout", "refresh"} => ~Verified(token[t])]_vars
  BY <1>1
<1>. QED BY <1>2, Invariance, PTL DEF Spec, LoggedOutStaysOut
-------------------------------------------------------------------------------
(* Accounts, for any names, passwords, clients and number of requests. *)

CONSTANTS Names, Passwords, Clients, Max, MaxCount, MaxDists

VARIABLES users, dists, lastDist, count, window, accountPc, who, dist, user, pass

Registry == INSTANCE Accounts WITH ttl <- window, pc <- accountPc

Registering == {"nameFree", "insertDist", "insertUser", "commit"}
Naming == Registering \cup {"createFree", "create", "verify", "setPassword"}
Counting == {"incr", "expire"}

\* The domains of what is counted and of what a request has before it.
RequestTypes ==
    /\ count \in [Clients -> 0..MaxCount] /\ window \in [Clients -> BOOLEAN]
    /\ accountPc \in [Threads -> Naming \cup Counting \cup {"idle", "lookUp"}]
    /\ DOMAIN who = Threads /\ DOMAIN pass = Threads
    /\ dist \in [Threads -> 0..MaxDists] /\ user \in [Threads -> BOOLEAN]

\* The rows that are committed; D is the distributors they may be of.
RowsOf(D) == [status: {1, 2}, dist: D \cup {0}, pass: Passwords, seen: BOOLEAN]
TableFacts ==
    /\ DOMAIN users \subseteq Names
    /\ \A n \in DOMAIN users : users[n] \in RowsOf(dists)
    /\ lastDist \in 0..MaxDists /\ dists \subseteq 1..lastDist
    /\ Registry!RegisteredTogether

\* What a request knows: the name it is about, and that the rows it has inserted
\* are nobody else's yet.
RequestFact(t) ==
    /\ accountPc[t] = "idle" <=> who[t] = "nobody"
    /\ accountPc[t] \in Naming => who[t] \in Names /\ pass[t][1] \in Passwords
    /\ accountPc[t] \in Counting => who[t] \in Clients
    /\ accountPc[t] \in {"verify", "setPassword"} => who[t] \in DOMAIN users
    /\ accountPc[t] \in {"insertUser", "commit"} <=> dist[t] # 0
    /\ user[t] <=> accountPc[t] = "commit"
    /\ dist[t] # 0 => /\ dist[t] <= lastDist /\ dist[t] \notin dists
    /\ user[t] => who[t] \notin DOMAIN users

\* No two transactions insert one distributor, or, since the unique index makes
\* the second wait, one name.
Apart ==
    \A s, t \in Threads : s # t =>
        /\ dist[s] # 0 => dist[s] # dist[t]
        /\ user[s] /\ user[t] => who[s] # who[t]

AccountsInv == RequestTypes /\ TableFacts /\ (\A t \in Threads : RequestFact(t)) /\ Apart

\* A step of one request moves no other.
Mine(t) == \A s \in Threads \ {t} :
    /\ accountPc'[s] = accountPc[s] /\ who'[s] = who[s] /\ pass'[s] = pass[s]
    /\ dist'[s] = dist[s] /\ user'[s] = user[s]

\* Accounts are only added, and an account is not given another distributor or
\* status.
Kept == \A n \in DOMAIN users :
    n \in DOMAIN users' /\ users'[n].dist = users[n].dist /\ users'[n].status = users[n].status

LEMMA TableParts ==
    ASSUME Registry!AccountsAssumption, AccountsInv
    PROVE  /\ lastDist \in Nat /\ MaxDists \in Nat /\ lastDist <= MaxDists
           /\ \A d \in dists : d \in Nat /\ 1 <= d /\ d <= lastDist
           /\ \A t \in Threads : dist[t] \in Nat /\ (dist[t] # 0 => dist[t] <= lastDist)
           /\ \A n \in DOMAIN users : users[n].dist \in dists \cup {0} /\ users[n].status \in {1, 2}
<1>1. MaxDists \in Nat
  BY DEF Registry!AccountsAssumption
<1>2. lastDist \in 0..MaxDists /\ dists \subseteq 1..lastDist
  BY DEF AccountsInv, TableFacts
<1>3. dist \in [Threads -> 0..MaxDists]
  BY DEF AccountsInv, RequestTypes
<1>4. \A t \in Threads : dist[t] # 0 => dist[t] <= lastDist
  BY DEF AccountsInv, RequestFact
<1>5. \A n \in DOMAIN users : users[n] \in RowsOf(dists)
  BY DEF AccountsInv, TableFacts
<1>6. \A n \in DOMAIN users : users[n].dist \in dists \cup {0} /\ users[n].status \in {1, 2}
  BY <1>5 DEF RowsOf
<1>7. \A t \in Threads : dist[t] \in 0..MaxDists
  BY <1>3
<1>. QED BY <1>1, <1>2, <1>4, <1>6, <1>7

LEMMA RowsGrow == ASSUME NEW D, NEW E, D \subseteq E, NEW row \in RowsOf(D) PROVE row \in RowsOf(E)
BY DEF RowsOf

LEMMA AccountsInit == ASSUME Registry!AccountsAssumption, Registry!Init PROVE AccountsInv
BY DEF Registry!AccountsAssumption, Registry!Init, Registry!NoOne, Registry!NoDist, Registry!Blank,
       Registry!RegisteredTogether, Registry!Registrants, Registry!Pending,
       AccountsInv, RequestTypes, TableFacts, RequestFact, Apart, Naming, Registering, Counting

\* What a request leaves when it is over.
LEMMA AccountOver ==
    ASSUME Registry!AccountsAssumption, RequestTypes, NEW t \in Threads, Registry!Finish(t)
    PROVE  /\ Mine(t) /\ accountPc'[t] = "idle" /\ who'[t] = "nobody" /\ dist'[t] = 0 /\ ~user'[t]
           /\ accountPc' \in [Threads -> Naming \cup Counting \cup {"idle", "lookUp"}]
           /\ DOMAIN who' = Threads /\ DOMAIN pass' = Threads
           /\ dist' \in [Threads -> 0..MaxDists] /\ user' \in [Threads -> BOOLEAN]
BY DEF Registry!AccountsAssumption, Registry!Finish, Registry!NoOne, Registry!NoDist, Mine, RequestTypes

\* The others know what they knew, when the tables have only grown by what is
\* not theirs.
LEMMA OthersRemember ==
    ASSUME AccountsInv, NEW t \in Threads, Mine(t), lastDist <= lastDist', lastDist' \in Int, Kept,
           NEW s \in Threads \ {t},
           user[s] => who[s] \notin DOMAIN users' \ DOMAIN users,
           dist[s] # 0 => dist[s] \notin dists' \ dists
    PROVE  RequestFact(s)'
<1>1. RequestFact(s) /\ dist[s] \in Int /\ lastDist \in Int
  BY DEF AccountsInv, RequestTypes, TableFacts
<1>. QED BY <1>1 DEF Mine, Kept, RequestFact

\* A request ends and leaves the tables alone.
LEMMA AccountEnds ==
    ASSUME Registry!AccountsAssumption, AccountsInv, NEW t \in Threads, Registry!Finish(t),
           UNCHANGED <<dists, lastDist>>, TableFacts', Kept, DOMAIN users' = DOMAIN users,
           count' \in [Clients -> 0..MaxCount], window' \in [Clients -> BOOLEAN]
    PROVE  AccountsInv'
<1>1. RequestTypes' /\ Mine(t) /\ RequestFact(t)'
  BY AccountOver DEF AccountsInv, RequestTypes, RequestFact, Naming, Registering, Counting
<1>2. \A s \in Threads \ {t} : RequestFact(s)'
  BY <1>1, OthersRemember DEF AccountsInv, TableFacts
<1>3. Apart'
  BY <1>1, AccountOver DEF AccountsInv, Apart, Mine
<1>. QED BY <1>1, <1>2, <1>3 DEF AccountsInv

\* A request goes on to its next statement.
LEMMA AccountMoves ==
    ASSUME AccountsInv, NEW t \in Threads, NEW to \in Naming \cup Counting \cup {"lookUp"},
           accountPc' = [accountPc EXCEPT ![t] = to], UNCHANGED <<users, dists, dist, user>>,
           lastDist' = lastDist,
           DOMAIN who' = Threads /\ DOMAIN pass' = Threads,
           \A s \in Threads \ {t} : who'[s] = who[s] /\ pass'[s] = pass[s],
           count' \in [Clients -> 0..MaxCount], window' \in [Clients -> BOOLEAN],
           RequestFact(t)', user[t] => who'[t] = who[t]
    PROVE  AccountsInv' /\ Kept
<1>1. Mine(t) /\ Kept /\ RequestTypes' /\ TableFacts' /\ lastDist \in Int
  BY DEF AccountsInv, RequestTypes, TableFacts, Mine, Kept, Registry!RegisteredTogether, Registry!Registrants, Registry!Pending
<1>2. \A s \in Threads \ {t} : RequestFact(s)'
  BY <1>1, OthersRemember
<1>3. Apart'
  BY <1>1 DEF AccountsInv, Apart, Mine
<1>. QED BY <1>1, <1>2, <1>3 DEF AccountsInv

\* A request ends and changes no table or counter.
LEMMA AccountEndsQuietly ==
    ASSUME Registry!AccountsAssumption, AccountsInv, NEW t \in Threads, Registry!Finish(t),
           UNCHANGED <<users, dists, lastDist>>,
           count' \in [Clients -> 0..MaxCount], window' \in [Clients -> BOOLEAN]
    PROVE  AccountsInv' /\ Kept
<1>1. TableFacts' /\ Kept
  BY DEF AccountsInv, TableFacts, Kept, Registry!RegisteredTogether, Registry!Registrants, Registry!Pending
<1>. QED BY <1>1, AccountEnds

\* A user comes, under a name nobody has or awaits.
LEMMA NewUser ==
    ASSUME Registry!AccountsAssumption, AccountsInv, NEW t \in Threads, Registry!Finish(t),
           who[t] \in Names, who[t] \notin DOMAIN users,
           NEW row, users' = Registry!With(who[t], row), lastDist' = lastDist,
           \A s \in Threads \ {t} : user[s] => who[s] # who[t],
           \A s \in Threads \ {t} : dist[s] # 0 => dist[s] \notin dists' \ dists,
           TableFacts', count' = count, window' = window
    PROVE  AccountsInv' /\ Kept
<1>1. DOMAIN users' = DOMAIN users \cup {who[t]} /\ Kept
  BY DEF Registry!With, Kept
<1>2. RequestTypes' /\ Mine(t) /\ RequestFact(t)'
  BY AccountOver DEF AccountsInv, RequestTypes, RequestFact, Naming, Registering, Counting
<1>3. ASSUME NEW s \in Threads \ {t} PROVE RequestFact(s)'
  BY <1>1, <1>2, OthersRemember DEF AccountsInv, TableFacts
<1>4. Apart'
  BY <1>2, AccountOver DEF AccountsInv, Apart, Mine
<1>. QED BY <1>1, <1>2, <1>3, <1>4 DEF AccountsInv

\* An account that is changed keeps its name, its distributor and its status.
LEMMA ChangedRows ==
    ASSUME TableFacts, UNCHANGED <<dists, lastDist>>, DOMAIN users' = DOMAIN users,
           \A n \in DOMAIN users :
              /\ users'[n].dist = users[n].dist /\ users'[n].status = users[n].status
              /\ users'[n] \in RowsOf(dists)
    PROVE  TableFacts' /\ Kept
<1>1. Registry!Registrants' = Registry!Registrants
  <2>1. \A n : n \in Registry!Registrants' <=> n \in Registry!Registrants
    BY DEF Registry!Registrants
  <2>. QED BY <2>1
<1>2. Registry!Registrants \subseteq DOMAIN users
  BY DEF Registry!Registrants
<1>3. Registry!RegisteredTogether'
  <2>1. (\A d \in dists : \E n \in Registry!Registrants : users[n].dist = d)'
    BY <1>1, <1>2 DEF TableFacts, Registry!RegisteredTogether
  <2>2. (\A n \in Registry!Registrants : users[n].dist \in dists)'
    BY <1>1, <1>2 DEF TableFacts, Registry!RegisteredTogether
  <2>3. (\A m, n \in Registry!Registrants : users[m].dist = users[n].dist => m = n)'
    BY <1>1, <1>2 DEF TableFacts, Registry!RegisteredTogether
  <2>. QED BY <2>1, <2>2, <2>3 DEF Registry!RegisteredTogether
<1>. QED BY <1>3 DEF TableFacts, Kept

LEMMA RegistrationStep ==
    ASSUME Registry!AccountsAssumption, AccountsInv, NEW t \in Threads,
           \/ Registry!Register(t) \/ Registry!NameFree(t) \/ Registry!InsertDist(t)
           \/ Registry!InsertUser(t) \/ Registry!Commit(t)
    PROVE  AccountsInv' /\ Kept
<1>0. /\ RequestFact(t) /\ RequestTypes /\ TableFacts /\ lastDist \in Nat /\ MaxDists \in Nat
      /\ \A s \in Threads : RequestFact(s)
  BY DEF AccountsInv, TableFacts, Registry!AccountsAssumption
<1> USE DEF Registry!Known, Registry!NoDist, Registry!NoOne
<1>1. ASSUME NEW n \in Names, NEW p \in Passwords, Registry!Begin(t, "nameFree", n, <<p>>)
      PROVE  AccountsInv' /\ Kept
  <2>1. RequestFact(t)'
    BY <1>0, <1>1 DEF Registry!Begin, Registry!AccountsAssumption, Registry!tables, RequestFact, RequestTypes,
       Naming, Registering, Counting
  <2>. QED BY <1>0, <1>1, <2>1, AccountMoves
           DEF Registry!Begin, Registry!tables, Registry!limiter, RequestTypes, RequestFact, Naming, Registering
<1>2. CASE Registry!NameFree(t)
  <2>1. CASE Registry!Finish(t)
    BY <1>0, <1>2, <2>1, AccountEndsQuietly DEF Registry!NameFree, Registry!tables, Registry!limiter, RequestTypes
  <2>2. CASE Registry!Goto(t, "insertDist") /\ UNCHANGED <<dist, user>>
    <3>1. RequestFact(t)'
      BY <1>0, <1>2, <2>2 DEF Registry!NameFree, Registry!Goto, Registry!tables, RequestFact, RequestTypes,
         Naming, Registering, Counting
    <3>. QED BY <1>0, <1>2, <2>2, <3>1, AccountMoves
             DEF Registry!NameFree, Registry!Goto, Registry!tables, Registry!limiter, RequestTypes, Naming, Registering
  <2>. QED BY <1>2, <2>1, <2>2 DEF Registry!NameFree
<1>3. CASE Registry!InsertDist(t)
  <2>1. /\ accountPc[t] = "insertDist" /\ lastDist < MaxDists /\ lastDist' = lastDist + 1
        /\ dist' = [dist EXCEPT ![t] = lastDist + 1] /\ accountPc' = [accountPc EXCEPT ![t] = "insertUser"]
        /\ UNCHANGED <<users, dists, user, who, pass, count, window>>
    BY <1>3 DEF Registry!InsertDist, Registry!Goto, Registry!limiter
  <2>2. \A s \in Threads : dist[s] \in Nat /\ (dist[s] # 0 => dist[s] <= lastDist)
    BY TableParts
  <2>3. \A d \in dists : d <= lastDist
    BY TableParts
  <2>4. Mine(t) /\ Kept /\ dist'[t] = lastDist + 1
    BY <1>0, <2>1 DEF Mine, Kept, RequestTypes
  <2>5. RequestTypes'
    BY <1>0, <2>1 DEF RequestTypes, Naming, Registering
  <2>6. TableFacts'
    <3>1. lastDist' \in 0..MaxDists /\ dists' \subseteq 1..lastDist'
      BY <1>0, <2>1, TableParts
    <3>2. Registry!RegisteredTogether'
      BY <1>0, <2>1 DEF TableFacts, Registry!RegisteredTogether, Registry!Registrants, Registry!Pending
    <3>. QED BY <1>0, <2>1, <3>1, <3>2 DEF TableFacts
  <2>7. RequestFact(t)'
    <3>1. accountPc'[t] = "insertUser" /\ lastDist + 1 \notin dists
      BY <1>0, <2>1, <2>3 DEF RequestTypes
    <3>. QED BY <1>0, <2>1, <2>4, <3>1 DEF RequestFact, Naming, Registering, Counting
  <2>8. \A s \in Threads \ {t} : RequestFact(s)'
    BY <1>0, <2>1, <2>4, OthersRemember
  <2>9. Apart'
    BY <1>0, <2>1, <2>2, <2>4 DEF AccountsInv, Apart, Mine
  <2>. QED BY <2>4, <2>5, <2>6, <2>7, <2>8, <2>9 DEF AccountsInv
<1>4. CASE Registry!InsertUser(t)
  <2>1. CASE Registry!Finish(t)
    BY <1>0, <1>4, <2>1, AccountEndsQuietly DEF Registry!InsertUser, Registry!tables, Registry!limiter, RequestTypes
  <2>2. CASE user' = [user EXCEPT ![t] = TRUE] /\ Registry!Goto(t, "commit") /\ UNCHANGED dist /\ who[t] \notin DOMAIN users
    <3>1. /\ accountPc[t] = "insertUser" /\ accountPc' = [accountPc EXCEPT ![t] = "commit"]
          /\ UNCHANGED <<users, dists, lastDist, dist, who, pass, count, window>>
      BY <1>4, <2>2 DEF Registry!InsertUser, Registry!Goto, Registry!tables, Registry!limiter
    <3>2. \A s \in Threads \ {t} : user[s] => who[s] # who[t]
      BY <1>4 DEF Registry!InsertUser, Registry!Awaited
    <3>3. Mine(t) /\ Kept /\ user'[t] /\ RequestTypes' /\ TableFacts'
      BY <1>0, <2>2, <3>1 DEF Mine, Kept, RequestTypes, TableFacts, Registry!RegisteredTogether, Registry!Registrants, Registry!Pending, Naming, Registering
    <3>4. RequestFact(t)'
      BY <1>0, <2>2, <3>1, <3>3 DEF RequestFact, RequestTypes, Naming, Registering, Counting
    <3>5. \A s \in Threads \ {t} : RequestFact(s)'
      BY <1>0, <3>1, <3>3, OthersRemember
    <3>6. Apart'
      BY <3>1, <3>2, <3>3 DEF AccountsInv, Apart, Mine
    <3>. QED BY <3>3, <3>4, <3>5, <3>6 DEF AccountsInv
  <2>. QED BY <1>4, <2>1, <2>2 DEF Registry!InsertUser
<1>5. CASE Registry!Commit(t)
  <2> DEFINE row == [status |-> 2, dist |-> dist[t], pass |-> pass[t][1], seen |-> FALSE]
  <2>1. /\ accountPc[t] = "commit" /\ users' = Registry!With(who[t], row) /\ dists' = dists \cup {dist[t]}
        /\ Registry!Finish(t) /\ UNCHANGED <<lastDist, count, window>>
    BY <1>5 DEF Registry!Commit, Registry!limiter, Registry!Pending
  <2>2. /\ who[t] \in Names /\ who[t] \notin DOMAIN users /\ pass[t][1] \in Passwords /\ user[t]
        /\ dist[t] \in 1..lastDist /\ dist[t] \notin dists
    BY <1>0, <2>1 DEF RequestFact, RequestTypes, Naming, Registering
  <2>3. /\ DOMAIN users' = DOMAIN users \cup {who[t]} /\ users'[who[t]] = row
        /\ \A n \in DOMAIN users : users'[n] = users[n]
    BY <2>1, <2>2 DEF Registry!With
  <2>4. TableFacts'
    <3>0. dist[t] # 0
      BY <2>2, TableParts
    <3>1. \A n \in DOMAIN users : users[n].dist \in dists \cup {0} /\ users[n].dist # dist[t]
      BY <2>2, <3>0, TableParts
    <3>2. \A n \in DOMAIN users' : users'[n] \in RowsOf(dists')
      <4>1. row \in RowsOf(dists')
        BY <2>1, <2>2 DEF RowsOf
      <4>2. \A n \in DOMAIN users : users[n] \in RowsOf(dists')
        BY <1>0, <2>1, RowsGrow DEF TableFacts
      <4>. QED BY <2>3, <4>1, <4>2
    <3>3. Registry!RegisteredTogether'
      <4>1. row.dist = dist[t] /\ row.status = 2
        OBVIOUS
      <4>. HIDE DEF row
      <4>2. Registry!Registrants' = Registry!Registrants \cup {who[t]}
        BY <2>2, <2>3, <4>1 DEF Registry!Registrants, Registry!Pending
      <4>3. \A n \in Registry!Registrants : n \in DOMAIN users /\ users'[n].dist = users[n].dist
        BY <2>3 DEF Registry!Registrants
      <4>4. /\ \A d \in dists : \E n \in Registry!Registrants : users[n].dist = d
            /\ \A n \in Registry!Registrants : users[n].dist \in dists
            /\ \A m, n \in Registry!Registrants : users[m].dist = users[n].dist => m = n
        BY <1>0 DEF TableFacts, Registry!RegisteredTogether
      <4>5. \A d \in dists' : \E n \in Registry!Registrants' : users'[n].dist = d
        BY <2>1, <2>3, <4>1, <4>2, <4>3, <4>4
      <4>6. \A n \in Registry!Registrants' : users'[n].dist \in dists'
        BY <2>1, <2>3, <4>1, <4>2, <4>3, <4>4
      <4>7. \A m, n \in Registry!Registrants' : users'[m].dist = users'[n].dist => m = n
        BY <2>3, <3>1, <4>1, <4>2, <4>3, <4>4
      <4>. QED BY <4>5, <4>6, <4>7 DEF Registry!RegisteredTogether
    <3>. QED BY <1>0, <2>1, <2>2, <2>3, <3>2, <3>3 DEF TableFacts
  <2>5. \A s \in Threads \ {t} : (user[s] => who[s] # who[t]) /\ (dist[s] # 0 => dist[s] # dist[t])
    BY <2>2 DEF AccountsInv, Apart
  <2>. QED BY <2>1, <2>2, <2>4, <2>5, NewUser
<1>. QED BY <1>1, <1>2, <1>3, <1>4, <1>5 DEF Registry!Register

LEMMA AdministrationStep ==
    ASSUME Registry!AccountsAssumption, AccountsInv, NEW t \in Threads,
           \/ Registry!CreateUser(t) \/ Registry!CreateFree(t) \/ Registry!Create(t)
           \/ Registry!ChangePassword(t) \/ Registry!Verify(t) \/ Registry!SetPassword(t)
    PROVE  AccountsInv' /\ Kept
<1>0. RequestFact(t) /\ RequestTypes /\ TableFacts
  BY DEF AccountsInv
<1> USE DEF Registry!Known, Registry!NoDist, Registry!NoOne
<1>1. ASSUME NEW to \in {"createFree", "verify", "setPassword"}, NEW n \in Names, NEW p, p[1] \in Passwords,
             to # "createFree" => n \in DOMAIN users, Registry!Begin(t, to, n, p)
      PROVE  AccountsInv' /\ Kept
  <2>1. RequestFact(t)'
    BY <1>0, <1>1 DEF Registry!Begin, Registry!AccountsAssumption, Registry!tables, RequestFact, RequestTypes,
       Naming, Registering, Counting
  <2>. QED BY <1>0, <1>1, <2>1, AccountMoves
           DEF Registry!Begin, Registry!tables, Registry!limiter, RequestTypes, RequestFact, Naming, Registering
<1>2. ASSUME NEW to \in {"create", "setPassword"}, accountPc[t] \in {"createFree", "verify"},
             to = "setPassword" => accountPc[t] = "verify",
             Registry!Goto(t, to), UNCHANGED <<dist, user>>, UNCHANGED Registry!tables, UNCHANGED Registry!limiter
      PROVE  AccountsInv' /\ Kept
  <2>1. RequestFact(t)'
    BY <1>0, <1>2 DEF Registry!Goto, Registry!tables, RequestFact, RequestTypes, Naming, Registering, Counting
  <2>. QED BY <1>0, <1>2, <2>1, AccountMoves
           DEF Registry!Goto, Registry!tables, Registry!limiter, RequestTypes, Naming, Registering
<1>3. ASSUME Registry!Finish(t), UNCHANGED Registry!tables, UNCHANGED Registry!limiter
      PROVE  AccountsInv' /\ Kept
  BY <1>0, <1>3, AccountEndsQuietly DEF Registry!tables, Registry!limiter, RequestTypes
<1>4. CASE Registry!CreateUser(t) \/ Registry!ChangePassword(t)
  BY <1>1, <1>4 DEF Registry!CreateUser, Registry!ChangePassword
<1>5. CASE Registry!CreateFree(t) \/ Registry!Verify(t)
  BY <1>2, <1>3, <1>5 DEF Registry!CreateFree, Registry!Verify
<1>6. CASE Registry!Create(t)
  <2>1. /\ accountPc[t] = "create" /\ Registry!Finish(t) /\ UNCHANGED <<dists, lastDist, count, window>>
        /\ \A s \in Threads \ {t} : user[s] => who[s] # who[t]
    BY <1>6 DEF Registry!Create, Registry!limiter, Registry!Awaited
  <2>4. PICK d \in 0..MaxDists :
          users' = IF who[t] \in DOMAIN users \/ d \notin dists \cup {0}
                   THEN users
                   ELSE Registry!With(who[t], [status |-> 1, dist |-> d, pass |-> pass[t][1], seen |-> FALSE])
    BY <1>6 DEF Registry!Create, Registry!Active
  <2> DEFINE row == [status |-> 1, dist |-> d, pass |-> pass[t][1], seen |-> FALSE]
  <2>2. CASE users' = users
    BY <1>0, <2>1, <2>2, AccountEndsQuietly DEF RequestTypes
  <2>3. CASE who[t] \notin DOMAIN users /\ d \in dists \cup {0} /\ users' = Registry!With(who[t], row)
    <3>1. who[t] \in Names /\ pass[t][1] \in Passwords
      BY <1>0, <2>1 DEF RequestFact, Naming
    <3>2. /\ DOMAIN users' = DOMAIN users \cup {who[t]} /\ users'[who[t]] = row
          /\ \A n \in DOMAIN users : users'[n] = users[n]
      BY <2>3 DEF Registry!With
    <3>3. \A n \in DOMAIN users' : users'[n] \in RowsOf(dists')
      <4>1. row \in RowsOf(dists')
        BY <2>1, <2>3, <3>1 DEF RowsOf
      <4>. QED BY <1>0, <2>1, <3>2, <4>1 DEF TableFacts
    <3>4. Registry!RegisteredTogether'
      <4>1. Registry!Registrants' = Registry!Registrants
        <5>1. row.status # Registry!Pending
          BY DEF Registry!Pending
        <5>2. \A n : n \in Registry!Registrants' <=> n \in Registry!Registrants
          BY <2>3, <3>2, <5>1 DEF Registry!Registrants
        <5>. QED BY <5>2
      <4>. QED BY <1>0, <2>1, <3>2, <4>1
               DEF TableFacts, Registry!RegisteredTogether, Registry!Registrants
    <3>5. TableFacts'
      BY <1>0, <2>1, <3>1, <3>2, <3>3, <3>4 DEF TableFacts
    <3>. QED BY <2>1, <2>3, <3>1, <3>5, NewUser
  <2>. QED BY <2>2, <2>3, <2>4
<1>7. CASE Registry!SetPassword(t)
  <2>1. /\ accountPc[t] = "setPassword" /\ Registry!Finish(t) /\ UNCHANGED <<dists, lastDist, count, window>>
        /\ users' = [users EXCEPT ![who[t]].pass = pass[t][1]]
    BY <1>7 DEF Registry!SetPassword, Registry!limiter
  <2>2. pass[t][1] \in Passwords
    BY <1>0, <2>1 DEF RequestFact, Naming
  <2>3. /\ DOMAIN users' = DOMAIN users
        /\ \A n \in DOMAIN users :
              /\ users'[n].dist = users[n].dist /\ users'[n].status = users[n].status
              /\ users'[n] \in RowsOf(dists)
    BY <1>0, <2>1, <2>2 DEF TableFacts, RowsOf
  <2>4. TableFacts' /\ Kept
    BY <1>0, <2>1, <2>3, ChangedRows
  <2>. QED BY <1>0, <2>1, <2>3, <2>4, AccountEnds DEF RequestTypes
<1>. QED BY <1>4, <1>5, <1>6, <1>7

LEMMA LoginStep ==
    ASSUME Registry!AccountsAssumption, AccountsInv, NEW t \in Threads,
           \/ Registry!Login(t) \/ Registry!Incr(t) \/ Registry!Expire(t) \/ Registry!LookUp(t)
           \/ Registry!RedisFails(t) \/ Registry!Crash(t)
    PROVE  AccountsInv' /\ Kept
<1>0. RequestFact(t) /\ RequestTypes /\ TableFacts
  BY DEF AccountsInv
<1> USE DEF Registry!NoDist, Registry!NoOne
<1>1. ASSUME NEW c \in Clients, Registry!Begin(t, "incr", c, Registry!Blank) PROVE AccountsInv' /\ Kept
  <2>1. RequestFact(t)'
    BY <1>0, <1>1 DEF Registry!Begin, Registry!AccountsAssumption, Registry!tables, RequestFact, RequestTypes,
       Naming, Registering, Counting
  <2>. QED BY <1>0, <1>1, <2>1, AccountMoves
           DEF Registry!Begin, Registry!tables, Registry!limiter, RequestTypes, RequestFact, Counting
<1>2. ASSUME NEW to \in {"expire", "lookUp"}, accountPc[t] \in Counting,
             Registry!Goto(t, to), UNCHANGED <<dist, user>>, UNCHANGED Registry!tables,
             count' \in [Clients -> 0..MaxCount], window' \in [Clients -> BOOLEAN]
      PROVE  AccountsInv' /\ Kept
  <2>1. RequestFact(t)'
    BY <1>0, <1>2 DEF Registry!Goto, Registry!tables, RequestFact, RequestTypes, Naming, Registering, Counting
  <2>. QED BY <1>0, <1>2, <2>1, AccountMoves DEF Registry!Goto, Registry!tables, RequestTypes, Counting
<1>3. CASE Registry!Incr(t)
  <2>1. count' \in [Clients -> 0..MaxCount] /\ window' = window
    <3>1. who[t] \in Clients /\ MaxCount \in Nat
      BY <1>0, <1>3 DEF Registry!Incr, Registry!AccountsAssumption, RequestFact, Counting
    <3> DEFINE n == IF count[who[t]] < MaxCount THEN count[who[t]] + 1 ELSE MaxCount
    <3>2. count' = [count EXCEPT ![who[t]] = n]
      BY <1>3 DEF Registry!Incr
    <3>3. n \in 0..MaxCount
      <4>1. count[who[t]] \in 0..MaxCount
        BY <1>0, <3>1 DEF RequestTypes
      <4>. QED BY <3>1, <4>1
    <3>. HIDE DEF n
    <3>4. window' = window
      BY <1>3 DEF Registry!Incr
    <3>. QED BY <1>0, <3>2, <3>3, <3>4 DEF RequestTypes
  <2>2. CASE Registry!Finish(t)
    BY <1>0, <1>3, <2>1, <2>2, AccountEndsQuietly DEF Registry!Incr, Registry!tables, RequestTypes
  <2>3. ASSUME NEW to \in {"expire", "lookUp"}, Registry!Goto(t, to), UNCHANGED <<dist, user>>
        PROVE  AccountsInv' /\ Kept
    BY <1>0, <1>2, <1>3, <2>1, <2>3 DEF Registry!Incr, Counting, RequestTypes
  <2>. QED BY <1>3, <2>2, <2>3 DEF Registry!Incr
<1>4. CASE Registry!Expire(t)
  <2>1. count' \in [Clients -> 0..MaxCount] /\ window' \in [Clients -> BOOLEAN]
    <3>1. count' = count /\ window' = [window EXCEPT ![who[t]] = count[who[t]] > 0]
      BY <1>4 DEF Registry!Expire
    <3>2. (count[who[t]] > 0) \in BOOLEAN
      OBVIOUS
    <3>. DEFINE counted == count[who[t]] > 0
    <3>3. window' = [window EXCEPT ![who[t]] = counted] /\ counted \in BOOLEAN
      BY <3>1, <3>2
    <3>. HIDE DEF counted
    <3>4. [window EXCEPT ![who[t]] = counted] \in [Clients -> BOOLEAN]
      BY <1>0, <3>3, Zenon DEF RequestTypes
    <3>. QED BY <1>0, <3>1, <3>3, <3>4 DEF RequestTypes
  <2>2. /\ accountPc[t] \in Counting /\ Registry!Goto(t, "lookUp") /\ UNCHANGED <<dist, user>>
        /\ UNCHANGED Registry!tables
    BY <1>4 DEF Registry!Expire, Registry!tables, Counting
  <2>. QED BY <1>2, <2>1, <2>2
<1>5. CASE Registry!LookUp(t)
  <2>1. Registry!Finish(t) /\ UNCHANGED <<dists, lastDist, count, window>>
    BY <1>5 DEF Registry!LookUp, Registry!limiter
  <2>2. users' = users \/ \E n \in DOMAIN users : users' = [users EXCEPT ![n].seen = TRUE]
    BY <1>5 DEF Registry!LookUp, Registry!Known
  <2>3. /\ DOMAIN users' = DOMAIN users
        /\ \A n \in DOMAIN users :
              /\ users'[n].dist = users[n].dist /\ users'[n].status = users[n].status
              /\ users'[n] \in RowsOf(dists)
    BY <1>0, <2>2 DEF TableFacts, RowsOf
  <2>4. TableFacts' /\ Kept
    BY <1>0, <2>1, <2>3, ChangedRows
  <2>. QED BY <1>0, <2>1, <2>3, <2>4, AccountEnds DEF RequestTypes
<1>6. CASE Registry!RedisFails(t) \/ Registry!Crash(t)
  BY <1>0, <1>6, AccountEndsQuietly
     DEF Registry!RedisFails, Registry!Crash, Registry!tables, Registry!limiter, RequestTypes
<1>. QED BY <1>1, <1>3, <1>4, <1>5, <1>6 DEF Registry!Login

LEMMA AccountsStep ==
    ASSUME Registry!AccountsAssumption, AccountsInv, [Registry!Next]_Registry!vars
    PROVE  AccountsInv' /\ Kept
<1>1. ASSUME UNCHANGED <<users, dists, lastDist, accountPc, who, dist, user, pass>>,
             count' \in [Clients -> 0..MaxCount], window' \in [Clients -> BOOLEAN]
      PROVE  AccountsInv' /\ Kept
  BY <1>1 DEF AccountsInv, RequestTypes, TableFacts, RequestFact, Apart, Kept, Registry!RegisteredTogether, Registry!Registrants, Registry!Pending
<1>2. ASSUME NEW c \in Clients, Registry!WindowEnds(c) PROVE AccountsInv' /\ Kept
  BY <1>1, <1>2 DEF Registry!WindowEnds, Registry!AccountsAssumption, Registry!tables, Registry!request,
     AccountsInv, RequestTypes
<1>3. CASE UNCHANGED Registry!vars
  BY <1>1, <1>3 DEF Registry!vars, Registry!tables, Registry!limiter, Registry!request, AccountsInv, RequestTypes
<1>. QED BY <1>2, <1>3, RegistrationStep, AdministrationStep, LoginStep DEF Registry!Next, Registry!Statement

LEMMA AccountsInvariant == ASSUME Registry!AccountsAssumption PROVE Registry!Spec => []AccountsInv
BY AccountsInit, AccountsStep, PTL DEF Registry!Spec

\* Every account, counter and request stays in its domain.
THEOREM AccountTypes == ASSUME Registry!AccountsAssumption PROVE Registry!Spec => []Registry!TypeOK
<1>1. ASSUME AccountsInv PROVE Registry!TypeOK
  <2>1. \A n \in DOMAIN users : users[n] \in [status: {1, 2}, dist: 0..MaxDists, pass: Passwords, seen: BOOLEAN]
    <3>1. \A n \in DOMAIN users : users[n] \in RowsOf(dists)
      BY <1>1 DEF AccountsInv, TableFacts
    <3>2. dists \cup {0} \subseteq 0..MaxDists
      BY <1>1, TableParts
    <3>. QED BY <3>1, <3>2 DEF RowsOf
  <2>2. DOMAIN users \subseteq Names /\ dists \subseteq 1..MaxDists /\ lastDist \in 0..MaxDists
    BY <1>1, TableParts DEF AccountsInv, TableFacts
  <2>3. count \in [Clients -> 0..MaxCount] /\ window \in [Clients -> BOOLEAN]
    BY <1>1 DEF AccountsInv, RequestTypes
  <2>4. \A t \in Threads : (user[t] => dist[t] # 0) /\ (accountPc[t] = "idle" <=> who[t] = "nobody")
    BY <1>1 DEF AccountsInv, RequestFact
  <2>. QED BY <2>1, <2>2, <2>3, <2>4
           DEF Registry!TypeOK, Registry!Active, Registry!Pending, Registry!NoDist, Registry!NoOne
<1>. QED BY <1>1, AccountsInvariant, PTL

\* A distributor and a user of it that waits for approval are registered
\* together or not at all, whoever else takes the name meanwhile, whatever users
\* of that distributor an administrator creates, and wherever a registration
\* breaks off; no two registrations share a distributor.
THEOREM Together == ASSUME Registry!AccountsAssumption PROVE Registry!Spec => []Registry!RegisteredTogether
<1>1. AccountsInv => Registry!RegisteredTogether
  BY DEF AccountsInv, TableFacts
<1>. QED BY <1>1, AccountsInvariant, PTL

\* No account takes the place of another.
THEOREM AccountStays == ASSUME Registry!AccountsAssumption PROVE Registry!Spec => Registry!AccountIsKept
<1>1. AccountsInv /\ [Registry!Next]_Registry!vars =>
        [\A n \in DOMAIN users : users'[n].dist = users[n].dist /\ users'[n].status = users[n].status]_users
  BY AccountsStep DEF Kept
<1>. QED BY <1>1, AccountsInvariant, PTL DEF Registry!Spec, Registry!AccountIsKept
===============================================================================
