------------------------------ MODULE Sessions ------------------------------
(***************************************************************************)
(* Access tokens and their revocation: create_access_token and             *)
(* decode_access_token (core/security.py), get_current_user (api/deps.py), *)
(* services/token_denylist.py and the login and logout handlers.           *)
(*                                                                         *)
(* A token is good until its expiry, a whole second.  Logging out puts its *)
(* jti in Redis under a key that lives as long as the token would have.    *)
(* Every request decodes its token first and asks Redis next; the clock    *)
(* runs on in between, by ticks shorter than a second.                     *)
(***************************************************************************)
EXTENDS Integers

CONSTANTS
    Token,      \* the tokens, each issued at most once
    Bearer,     \* the requests that present one, each handled once
    Second,     \* the ticks of a second
    Lifetime,   \* ACCESS_TOKEN_EXPIRE_MINUTES, in ticks
    MaxTime     \* bound: when the clock stops

ASSUME TokensAssumption ==
    /\ Second \in Nat \ {0}
    /\ Lifetime \in Nat /\ Lifetime >= Second
    /\ MaxTime \in Nat \ {0}
    /\ Token # {}

VARIABLES
    now,        \* the clock
    expiry,     \* expiry[t]: the "exp" claim of t; Never before it is issued
    denied,     \* denied[t]: when the key of t leaves Redis; Never when not set
    durable,    \* what Redis has appended to its file
    promised,   \* promised[t]: when a logout answered that t is revoked (auxiliary)
    crashed,    \* when Redis crashed (auxiliary)
    bearer      \* bearer[r]: what the handler of request r holds

tokenVars == <<now, expiry, denied, durable, promised, crashed, bearer>>
-----------------------------------------------------------------------------
\* No time: the clock starts after it.
Never == 0
Time == 1..MaxTime

\* The TTLs of a whole number of seconds that cover a token's lifetime.
Ttl == 0..(Lifetime + Second)

Handler == [phase : {"idle", "decoded", "admitted", "ttl", "done"},
            op : {"none", "use", "logout"}, token : Token, ttl : Ttl]

TokensTypeOK ==
    /\ now \in Time
    /\ expiry \in [Token -> {Never} \cup 1..(MaxTime + Lifetime)]
    /\ denied \in [Token -> {Never} \cup 1..(MaxTime + Lifetime + Second)]
    /\ durable \in [Token -> {Never} \cup 1..(MaxTime + Lifetime + Second)]
    /\ promised \in [Token -> {Never} \cup Time]
    /\ crashed \subseteq Time
    /\ bearer \in [Bearer -> Handler]

EmptyHandler(phase) == [phase |-> phase, op |-> "none", token |-> CHOOSE t \in Token : TRUE,
                        ttl |-> 0]

TokensInit ==
    /\ now = 1
    /\ expiry = [t \in Token |-> Never]
    /\ denied = [t \in Token |-> Never]
    /\ durable = [t \in Token |-> Never]
    /\ promised = [t \in Token |-> Never]
    /\ crashed = {}
    /\ bearer = [r \in Bearer |-> EmptyHandler("idle")]
-----------------------------------------------------------------------------
FinishHandler(r) == bearer' = [bearer EXCEPT ![r] = EmptyHandler("done")]

Holding(r, phase) == [bearer[r] EXCEPT !.phase = phase]

\* A JWT timestamp is in whole seconds: the fraction is cut off.
Truncated(time) == (time \div Second) * Second

\* PyJWT refuses a token from the second of its "exp" on.
Fresh(t) == expiry[t] # Never /\ now < expiry[t]

\* Redis has the key of t.
Listed(t) == now < denied[t]

\* A variant of revoke() that rounds the seconds left down.
WholeSecondsLeft(t) == IF expiry[t] <= now THEN 0 ELSE ((expiry[t] - now) \div Second) * Second

\* math.ceil of the seconds the token has left, in ticks; none once it expired.
SecondsLeft(t) ==
    IF expiry[t] <= now THEN 0
    ELSE ((expiry[t] - now + Second - 1) \div Second) * Second

\* The expiry of a token issued now.
ExpiryOf(t) == Truncated(now + Lifetime)
-----------------------------------------------------------------------------
\* login: create_access_token.
Issue(t) ==
    /\ expiry[t] = Never
    /\ expiry' = [expiry EXCEPT ![t] = ExpiryOf(t)]
    /\ UNCHANGED <<now, denied, durable, promised, crashed, bearer>>

\* get_token_claims: signature and expiry; 401 otherwise.
Decode(r, t, op) ==
    /\ bearer[r].phase = "idle"
    /\ expiry[t] # Never
    /\ IF Fresh(t)
       THEN bearer' = [bearer EXCEPT ![r] = [EmptyHandler("decoded") EXCEPT !.token = t, !.op = op]]
       ELSE FinishHandler(r)
    /\ UNCHANGED <<now, expiry, denied, durable, promised, crashed>>

\* is_revoked: 401 when the key is there.  The account itself is in order here
\* (Accounts).
Admit(r) ==
    /\ bearer[r].phase = "decoded"
    /\ ~Listed(bearer[r].token)
    /\ bearer' = [bearer EXCEPT ![r] = Holding(r, "admitted")]
    /\ UNCHANGED <<now, expiry, denied, durable, promised, crashed>>

\* The key is there (401), or Redis cannot be asked (503): refused either way.
Refuse(r) ==
    /\ bearer[r].phase = "decoded"
    /\ FinishHandler(r)
    /\ UNCHANGED <<now, expiry, denied, durable, promised, crashed>>

\* An ordinary handler ends.
Serve(r) ==
    /\ bearer[r].phase = "admitted"
    /\ bearer[r].op = "use"
    /\ FinishHandler(r)
    /\ UNCHANGED <<now, expiry, denied, durable, promised, crashed>>

\* revoke() up to its command: nothing to store for a token that has expired.
ComputeTtl(r) ==
    LET t == bearer[r].token
    IN  /\ bearer[r].phase = "admitted"
        /\ bearer[r].op = "logout"
        /\ IF SecondsLeft(t) = 0
           THEN /\ promised' = [promised EXCEPT ![t] = now]
                /\ FinishHandler(r)
           ELSE /\ bearer' = [bearer EXCEPT ![r] = [@ EXCEPT !.phase = "ttl", !.ttl = SecondsLeft(t)]]
                /\ UNCHANGED promised
        /\ UNCHANGED <<now, expiry, denied, durable, crashed>>

\* SET key 1 EX ttl, and the answer "token revoked".
Revoke(r) ==
    LET t == bearer[r].token
    IN  /\ bearer[r].phase = "ttl"
        /\ denied' = [denied EXCEPT ![t] = now + bearer[r].ttl]
        /\ promised' = [promised EXCEPT ![t] = now]
        /\ FinishHandler(r)
        /\ UNCHANGED <<now, expiry, durable, crashed>>

\* The command fails, before or after Redis has carried it out: the answer says
\* that the token remains valid.
RevokeFails(r) ==
    LET t == bearer[r].token
    IN  /\ bearer[r].phase = "ttl"
        /\ denied' \in {denied, [denied EXCEPT ![t] = now + bearer[r].ttl]}
        /\ FinishHandler(r)
        /\ UNCHANGED <<now, expiry, durable, promised, crashed>>

\* Time passes.  With "appendonly yes" and no other setting Redis writes its file
\* out every second.
Tick ==
    /\ now < MaxTime
    /\ now' = now + 1
    /\ durable' = IF now' % Second = 0 THEN denied ELSE durable
    /\ UNCHANGED <<expiry, denied, promised, crashed, bearer>>

\* Redis crashes and is restarted from its file.
Crash ==
    /\ denied' = durable
    /\ crashed' = crashed \cup {now}
    /\ UNCHANGED <<now, expiry, durable, promised, bearer>>

TokensNext ==
    \/ Tick
    \/ Crash
    \/ \E t \in Token : Issue(t)
    \/ \E r \in Bearer :
         \/ \E t \in Token, op \in {"use", "logout"} : Decode(r, t, op)
         \/ Admit(r)
         \/ Refuse(r)
         \/ Serve(r)
         \/ ComputeTtl(r)
         \/ Revoke(r)
         \/ RevokeFails(r)

TokensSpec == TokensInit /\ [][TokensNext]_tokenVars
-----------------------------------------------------------------------------
(***************************************************************************)
(* Properties.                                                             *)
(***************************************************************************)
\* The step that lets r in with a token that a logout had revoked.
AdmittedThoughRevoked(r) ==
    /\ bearer[r].phase = "decoded" /\ bearer'[r].phase = "admitted"
    /\ promised[bearer[r].token] # Never
    /\ now < expiry[bearer[r].token]

\* logout: the token "stops working immediately rather than at expiry".  Once a
\* logout has answered that a token is revoked, no request is let in with it as
\* long as the token lasts, whatever the fractions of a second were; except
\* after a crash of Redis within a second of the answer: a revocation that was
\* written out is there again after the restart.
SettledRevocationsHold ==
    [][\A r \in Bearer :
          AdmittedThoughRevoked(r) =>
             \E c \in crashed : c \in promised[bearer[r].token]..(promised[bearer[r].token] + Second)]_tokenVars
=============================================================================
