---------------------------- MODULE Guards_proofs ----------------------------
(***************************************************************************)
(* Proofs about the guards a request passes on its way to a handler: its   *)
(* access token (Sessions), the rate limit (RateLimit) and the rights of   *)
(* its account (Accounts).  Their states have nothing in common; no two of *)
(* them use one name.                                                      *)
(***************************************************************************)
EXTENDS Sessions, RateLimit, Accounts, Sequences, SequenceTheorems, TLAPS
-----------------------------------------------------------------------------
(***************************************************************************)
(* A revocation that was answered holds.  What Redis has in memory covers  *)
(* the token to its end; what it has in its file does so too, unless the   *)
(* file has not been written since, which is for a second at most.         *)
(***************************************************************************)
\* Redis crashed within a second of the answer that t is revoked.
CrashedAfter(t) == \E c \in crashed : c \in promised[t]..(promised[t] + Second)

\* The key of t lasts as long as t, in memory and, from the next second on, on file.
Covered(t) ==
    /\ denied[t] >= expiry[t]
    /\ durable[t] >= expiry[t] \/ now \div Second = promised[t] \div Second

\* A logout computes a TTL that lasts from any later moment to the expiry.
Carries(r) ==
    /\ bearer[r].phase \in {"decoded", "admitted", "ttl"} => expiry[bearer[r].token] # Never
    /\ bearer[r].phase = "ttl" => now + bearer[r].ttl >= expiry[bearer[r].token]

Settled(t) ==
    promised[t] # Never =>
        /\ promised[t] <= now /\ expiry[t] # Never
        /\ expiry[t] <= now \/ CrashedAfter(t) \/ Covered(t)

SessionsInv ==
    /\ TokensAssumption
    /\ TokensTypeOK
    /\ \A t \in Token : expiry[t] <= now + Lifetime /\ Settled(t)
    /\ \A r \in Bearer : Carries(r)

\* Division of times: the next tick is in the same second or begins another.
LEMMA SameSecond ==
    ASSUME TokensAssumption, NEW n \in Nat
    PROVE  /\ (n + 1) % Second # 0 => (n + 1) \div Second = n \div Second
           /\ \A p \in Nat : p \div Second = n \div Second => n <= p + Second
  <1>1. Second \in Nat \ {0}
    OBVIOUS
  <1>2. (n + 1) % Second # 0 => (n + 1) \div Second = n \div Second
    BY <1>1
  <1>3. ASSUME NEW p \in Nat, p \div Second = n \div Second PROVE n <= p + Second
    BY <1>1, <1>3
  <1> QED BY <1>2, <1>3

\* Rounding down to seconds, and up.
LEMMA RoundedDown ==
    ASSUME TokensAssumption, NEW n \in Nat
    PROVE  /\ (n \div Second) * Second \in 0..n
           /\ n >= Second => (n \div Second) * Second >= 1
  <1>1. Second \in Nat \ {0}
    OBVIOUS
  <1>2. (n \div Second) * Second \in Nat
    BY <1>1
  <1>3. (n \div Second) * Second <= n
    BY <1>1
  <1>4. n >= Second => (n \div Second) * Second >= 1
    BY <1>1
  <1> QED BY <1>2, <1>3, <1>4

LEMMA RoundedUp ==
    ASSUME TokensAssumption, NEW n \in Nat
    PROVE  ((n + Second - 1) \div Second) * Second \in n..(n + Second)
  <1>1. Second \in Nat \ {0}
    OBVIOUS
  <1>2. ((n + Second - 1) \div Second) * Second \in Nat
    BY <1>1
  <1>3. ((n + Second - 1) \div Second) * Second >= n
    BY <1>1
  <1>4. ((n + Second - 1) \div Second) * Second <= n + Second
    BY <1>1
  <1> QED BY <1>2, <1>3, <1>4

LEMMA EmptyHandlerType ==
    ASSUME TokensAssumption, NEW phase \in {"idle", "decoded", "done"}
    PROVE  /\ EmptyHandler(phase) \in Handler
           /\ EmptyHandler(phase).phase = phase
  <1>1. /\ (CHOOSE t \in Token : TRUE) \in Token
        /\ 0 \in 0..(Lifetime + Second)
    OBVIOUS
  <1> QED BY <1>1 DEF EmptyHandler, Handler, Ttl

LEMMA InitSessions ==
    ASSUME TokensAssumption, TokensInit
    PROVE  SessionsInv
  <1>1. /\ EmptyHandler("idle") \in Handler
        /\ EmptyHandler("idle").phase = "idle"
    BY EmptyHandlerType
  <1>2. \A r \in Bearer : bearer[r].phase = "idle"
    BY <1>1 DEF TokensInit
  <1>3. TokensTypeOK
    <2>1. Second \in Nat /\ Lifetime \in Nat /\ MaxTime \in Nat \ {0}
      BY TokensAssumption
    <2>2. bearer \in [Bearer -> Handler]
      BY <1>1 DEF TokensInit
    <2>3. now \in Time /\ crashed \subseteq Time
      BY <2>1 DEF TokensInit, Time
    <2> QED BY <2>2, <2>3 DEF TokensInit, TokensTypeOK, Never
  <1>4. \A t \in Token : expiry[t] <= now + Lifetime /\ Settled(t)
    <2>1. Lifetime \in Nat
      BY TokensAssumption
    <2> SUFFICES ASSUME NEW t \in Token PROVE expiry[t] <= now + Lifetime /\ Settled(t)
      OBVIOUS
    <2>2. expiry[t] = 0 /\ promised[t] = 0 /\ now = 1
      BY DEF TokensInit, Never
    <2> QED BY <2>1, <2>2 DEF Settled, Never
  <1> QED BY <1>2, <1>3, <1>4 DEF SessionsInv, Carries
-----------------------------------------------------------------------------
\* A request that ends carries nothing.
LEMMA FinishCarries ==
    ASSUME SessionsInv, NEW r \in Bearer, FinishHandler(r), UNCHANGED <<now, expiry>>
    PROVE  /\ bearer' \in [Bearer -> Handler]
           /\ \A q \in Bearer : Carries(q)'
  <1>1. EmptyHandler("done") \in Handler
        /\ EmptyHandler("done").phase = "done"
    BY EmptyHandlerType DEF SessionsInv
  <1>2. bearer' \in [Bearer -> Handler]
    BY <1>1 DEF SessionsInv, TokensTypeOK, FinishHandler
  <1>3. \A q \in Bearer : bearer'[q] = bearer[q] \/ bearer'[q].phase = "done"
    BY <1>1 DEF SessionsInv, TokensTypeOK, FinishHandler
  <1> QED BY <1>2, <1>3 DEF SessionsInv, Carries

\* A request that decodes, or goes on with, its token.
LEMMA DecodeKeeps ==
    ASSUME SessionsInv, NEW r \in Bearer, NEW t \in Token, NEW op \in {"use", "logout"},
           Decode(r, t, op)
    PROVE  SessionsInv'
  <1>1. UNCHANGED <<now, expiry, denied, durable, promised, crashed>> /\ expiry[t] # Never
    BY DEF Decode, Never
  <1>2. \A u \in Token : expiry'[u] <= now' + Lifetime /\ Settled(u)'
    BY <1>1 DEF SessionsInv, Settled, CrashedAfter, Covered
  <1>3. CASE FinishHandler(r)
    BY <1>1, <1>2, <1>3, FinishCarries DEF SessionsInv, TokensTypeOK
  <1>4. CASE bearer' = [bearer EXCEPT ![r] = [EmptyHandler("decoded")
                                                EXCEPT !.token = t, !.op = op]]
    <2>1. PICK h : h = [EmptyHandler("decoded") EXCEPT !.token = t, !.op = op]
      OBVIOUS
    <2>2. h \in Handler /\ h.phase = "decoded" /\ h.token = t
      BY <2>1, EmptyHandlerType DEF SessionsInv, Handler
    <2>3. /\ bearer' \in [Bearer -> Handler]
          /\ \A q \in Bearer : bearer'[q] = IF q = r THEN h ELSE bearer[q]
      BY <1>4, <2>1, <2>2 DEF SessionsInv, TokensTypeOK
    <2>4. \A q \in Bearer : Carries(q)'
      BY <1>1, <2>2, <2>3 DEF SessionsInv, Carries
    <2> QED BY <1>1, <1>2, <2>3, <2>4 DEF SessionsInv, TokensTypeOK
  <1> QED BY <1>3, <1>4 DEF Decode

\* A login: the token lasts to a whole second, at most a lifetime from now.
LEMMA IssueKeeps ==
    ASSUME SessionsInv, NEW t \in Token, Issue(t)
    PROVE  SessionsInv'
  <1>1. PICK e : e = ExpiryOf(t)
    OBVIOUS
  <1>2. /\ now \in Nat /\ now >= 1 /\ now <= MaxTime /\ Lifetime \in Nat
        /\ Lifetime >= Second /\ Second \in Nat
    BY DEF SessionsInv, TokensTypeOK, Time
  <1>3. /\ e = ((now + Lifetime) \div Second) * Second
        /\ e \in 0..(now + Lifetime) /\ e >= 1
    <2>1. e = ((now + Lifetime) \div Second) * Second
      BY <1>1 DEF ExpiryOf, Truncated
    <2>2. now + Lifetime \in Nat /\ now + Lifetime >= Second
      BY <1>2
    <2> QED BY <2>1, <2>2, RoundedDown DEF SessionsInv
  <1>4. e \in 1..(MaxTime + Lifetime) /\ e <= now + Lifetime /\ e # Never
    BY <1>2, <1>3 DEF Never, SessionsInv
  <1>5. /\ UNCHANGED <<now, denied, durable, promised, crashed, bearer>>
        /\ expiry' = [expiry EXCEPT ![t] = e] /\ expiry[t] = Never
    BY <1>1 DEF Issue, Never
  <1>6. /\ expiry' \in [Token -> {Never} \cup 1..(MaxTime + Lifetime)]
        /\ \A u \in Token : expiry'[u] = IF u = t THEN e ELSE expiry[u]
    BY <1>4, <1>5 DEF SessionsInv, TokensTypeOK, Never
  <1>7. TokensTypeOK'
    BY <1>5, <1>6 DEF SessionsInv, TokensTypeOK, Never, Time
  <1>8. promised[t] = Never
    BY <1>5 DEF SessionsInv, Settled
  <1>9. \A u \in Token : expiry'[u] <= now' + Lifetime /\ Settled(u)'
    BY <1>4, <1>5, <1>6, <1>8 DEF SessionsInv, Settled, CrashedAfter, Covered
  <1>10. \A r \in Bearer : bearer[r].token \in Token
    BY DEF SessionsInv, TokensTypeOK, Handler
  <1>11. \A r \in Bearer : Carries(r)'
    <2> SUFFICES ASSUME NEW r \in Bearer PROVE Carries(r)'
      OBVIOUS
    <2>1. Carries(r)
      BY DEF SessionsInv
    <2>2. CASE bearer[r].phase \in {"decoded", "admitted", "ttl"}
      <3>1. bearer[r].token # t
        BY <1>5, <2>1, <2>2 DEF Carries
      <3> QED BY <1>5, <1>6, <1>10, <2>1, <3>1 DEF Carries
    <2>3. CASE bearer[r].phase \notin {"decoded", "admitted", "ttl"}
      BY <1>5, <2>3 DEF Carries
    <2> QED BY <2>2, <2>3
  <1> QED BY <1>5, <1>7, <1>9, <1>11 DEF SessionsInv

LEMMA AdmitKeeps ==
    ASSUME SessionsInv, NEW r \in Bearer, Admit(r)
    PROVE  SessionsInv'
  <1>1. UNCHANGED <<now, expiry, denied, durable, promised, crashed>>
    BY DEF Admit
  <1>2. PICK h : h = [bearer[r] EXCEPT !.phase = "admitted"]
    OBVIOUS
  <1>3. bearer[r] \in Handler /\ bearer[r].phase = "decoded"
    BY DEF SessionsInv, TokensTypeOK, Admit
  <1>4. h \in Handler /\ h.phase = "admitted" /\ h.token = bearer[r].token
    BY <1>2, <1>3 DEF Handler
  <1>5. /\ bearer' \in [Bearer -> Handler]
        /\ \A q \in Bearer : bearer'[q] = IF q = r THEN h ELSE bearer[q]
    BY <1>2, <1>4 DEF SessionsInv, TokensTypeOK, Admit, Holding
  <1>6. \A u \in Token : expiry'[u] <= now' + Lifetime /\ Settled(u)'
    BY <1>1 DEF SessionsInv, Settled, CrashedAfter, Covered
  <1>7. \A q \in Bearer : Carries(q)'
    BY <1>1, <1>3, <1>4, <1>5 DEF SessionsInv, Carries
  <1> QED BY <1>1, <1>5, <1>6, <1>7 DEF SessionsInv, TokensTypeOK

\* A request that ends and changes nothing else: refused or served.
LEMMA FinishKeeps ==
    ASSUME SessionsInv, NEW r \in Bearer, FinishHandler(r),
           UNCHANGED <<now, expiry, denied, durable, promised, crashed>>
    PROVE  SessionsInv'
  <1>1. \A u \in Token : expiry'[u] <= now' + Lifetime /\ Settled(u)'
    BY DEF SessionsInv, Settled, CrashedAfter, Covered
  <1> QED BY <1>1, FinishCarries DEF SessionsInv, TokensTypeOK

\* The seconds a token has left, rounded up, last to its expiry.
LEMMA SecondsLeftLast ==
    ASSUME SessionsInv, NEW t \in Token
    PROVE  /\ SecondsLeft(t) \in Ttl
           /\ now + SecondsLeft(t) >= expiry[t]
           /\ SecondsLeft(t) = 0 => expiry[t] <= now
  <1>1. /\ now \in Nat /\ expiry[t] \in Nat /\ expiry[t] <= now + Lifetime
        /\ Lifetime \in Nat /\ Second \in Nat
    BY DEF SessionsInv, TokensTypeOK, Time, Never
  <1>2. CASE expiry[t] <= now
    <2>1. SecondsLeft(t) = 0
      BY <1>2 DEF SecondsLeft
    <2> QED BY <1>1, <1>2, <2>1 DEF Ttl
  <1>3. CASE ~(expiry[t] <= now)
    <2>1. PICK n \in Nat : n = expiry[t] - now
      BY <1>1, <1>3
    <2>2. SecondsLeft(t) = ((n + Second - 1) \div Second) * Second
      BY <1>3, <2>1 DEF SecondsLeft
    <2>3. SecondsLeft(t) \in n..(n + Second)
      BY <2>2, RoundedUp DEF SessionsInv
    <2> QED BY <1>1, <1>3, <2>1, <2>3 DEF Ttl
  <1> QED BY <1>2, <1>3

\* A logout finds out how long its token has left, or that it has expired.
LEMMA ComputeTtlKeeps ==
    ASSUME SessionsInv, NEW r \in Bearer, ComputeTtl(r)
    PROVE  SessionsInv'
  <1>1. UNCHANGED <<now, expiry, denied, durable, crashed>>
    BY DEF ComputeTtl
  <1>2. PICK t \in Token : t = bearer[r].token
    BY DEF SessionsInv, TokensTypeOK, Handler
  <1>3. /\ bearer[r].phase = "admitted" /\ bearer[r] \in Handler
        /\ expiry[t] # Never
    BY <1>2 DEF SessionsInv, TokensTypeOK, ComputeTtl, Carries
  <1>4. CASE SecondsLeft(t) = 0
    <2>1. FinishHandler(r) /\ promised' = [promised EXCEPT ![t] = now] /\ expiry[t] <= now
      BY <1>2, <1>4, SecondsLeftLast DEF ComputeTtl
    <2>2. now \in Nat /\ now # Never
      BY DEF SessionsInv, TokensTypeOK, Time, Never
    <2>3. TokensTypeOK'
      BY <1>1, <2>1, FinishCarries DEF SessionsInv, TokensTypeOK
    <2>4. \A u \in Token : promised'[u] = IF u = t THEN now ELSE promised[u]
      BY <2>1 DEF SessionsInv, TokensTypeOK
    <2>5. \A u \in Token : expiry'[u] <= now' + Lifetime /\ Settled(u)'
      BY <1>1, <1>3, <2>1, <2>2, <2>4 DEF SessionsInv, Settled, CrashedAfter, Covered
    <2> QED BY <1>1, <2>1, <2>3, <2>5, FinishCarries DEF SessionsInv
  <1>5. CASE SecondsLeft(t) # 0
    <2>1. PICK l : l = SecondsLeft(t)
      OBVIOUS
    <2>2. l \in Ttl /\ now + l >= expiry[t]
      BY <2>1, SecondsLeftLast
    <2>3. PICK h : h = [bearer[r] EXCEPT !.phase = "ttl", !.ttl = l]
      OBVIOUS
    <2>4. /\ h \in Handler
          /\ h.phase = "ttl" /\ h.ttl = l /\ h.token = t
      BY <1>2, <1>3, <2>2, <2>3 DEF Handler
    <2>5. bearer' = [bearer EXCEPT ![r] = h] /\ UNCHANGED promised
      BY <1>2, <1>5, <2>1, <2>3 DEF ComputeTtl
    <2>6. /\ bearer' \in [Bearer -> Handler]
          /\ \A q \in Bearer : bearer'[q] = IF q = r THEN h ELSE bearer[q]
      BY <2>4, <2>5 DEF SessionsInv, TokensTypeOK
    <2>7. \A u \in Token : expiry'[u] <= now' + Lifetime /\ Settled(u)'
      BY <1>1, <2>5 DEF SessionsInv, Settled, CrashedAfter, Covered
    <2>8. \A q \in Bearer : Carries(q)'
      BY <1>1, <1>3, <2>2, <2>4, <2>6 DEF SessionsInv, Carries
    <2> QED BY <1>1, <2>5, <2>6, <2>7, <2>8 DEF SessionsInv, TokensTypeOK
  <1> QED BY <1>4, <1>5

\* A logout sets the key for as long as it had found the token to last.
LEMMA RevokeKeeps ==
    ASSUME SessionsInv, NEW r \in Bearer,
           Revoke(r) \/ RevokeFails(r)
    PROVE  SessionsInv'
  <1>1. UNCHANGED <<now, expiry, durable, crashed>> /\ FinishHandler(r)
    BY DEF Revoke, RevokeFails
  <1>2. PICK t \in Token : t = bearer[r].token
    BY DEF SessionsInv, TokensTypeOK, Handler
  <1>3. PICK d : d = now + bearer[r].ttl
    OBVIOUS
  <1>4. /\ now \in Nat /\ now >= 1 /\ now <= MaxTime /\ bearer[r].ttl \in Nat
        /\ bearer[r].ttl <= Lifetime + Second /\ Lifetime \in Nat /\ Second \in Nat
        /\ MaxTime \in Nat
    BY DEF SessionsInv, TokensTypeOK, Handler, Ttl, Time
  <1>5. /\ d \in 1..(MaxTime + Lifetime + Second)
        /\ d >= expiry[t] /\ expiry[t] # Never
    BY <1>2, <1>3, <1>4
       DEF SessionsInv, Carries, Revoke, RevokeFails
  <1>6. \/ denied' = denied /\ promised' = promised
        \/ denied' = [denied EXCEPT ![t] = d] /\ promised' = promised
        \/ denied' = [denied EXCEPT ![t] = d] /\ promised' = [promised EXCEPT ![t] = now]
    <2>1. CASE Revoke(r)
      BY <1>2, <1>3, <2>1 DEF Revoke
    <2>2. CASE RevokeFails(r)
      BY <1>2, <1>3, <2>2 DEF RevokeFails
    <2> QED BY <2>1, <2>2
  <1>7. now \in Time /\ now # Never
    BY DEF SessionsInv, TokensTypeOK, Time, Never
  <1>8. /\ denied' \in [Token -> {Never} \cup 1..(MaxTime + Lifetime + Second)]
        /\ promised' \in [Token -> {Never} \cup Time]
    BY <1>5, <1>6, <1>7 DEF SessionsInv, TokensTypeOK, Never
  <1>9. \A u \in Token :
          \/ denied'[u] = denied[u] /\ promised'[u] = promised[u]
          \/ u = t /\ denied'[u] = d /\ promised'[u] \in {promised[u], now}
    <2>1. DOMAIN denied = Token /\ DOMAIN promised = Token
      BY DEF SessionsInv, TokensTypeOK
    <2> QED BY <1>6, <2>1
  <1>10. ASSUME NEW u \in Token PROVE Settled(u)'
    <2>1. /\ durable[u] \in Nat /\ denied[u] \in Nat /\ expiry[u] \in Nat /\ promised[u] \in Nat
          /\ denied[t] \in Nat /\ expiry[t] \in Nat /\ Settled(u) /\ d \in Nat
      BY <1>3, <1>4 DEF SessionsInv, TokensTypeOK, Never, Time
    <2>2. CASE denied'[u] = denied[u] /\ promised'[u] = promised[u]
      BY <1>1, <2>1, <2>2 DEF Settled, CrashedAfter, Covered
    <2>3. CASE denied'[u] = d /\ u = t /\ promised'[u] = promised[u]
      BY <1>1, <1>4, <1>5, <2>1, <2>3 DEF Settled, CrashedAfter, Covered
    <2>4. CASE denied'[u] = d /\ u = t /\ promised'[u] = now
      BY <1>1, <1>4, <1>5, <1>7, <2>1, <2>4 DEF Settled, CrashedAfter, Covered
    <2> QED BY <1>9, <2>2, <2>3, <2>4
  <1>11. TokensTypeOK'
    BY <1>1, <1>8, FinishCarries DEF SessionsInv, TokensTypeOK, Never
  <1> QED BY <1>1, <1>10, <1>11, FinishCarries DEF SessionsInv

\* What Redis has in memory it has in its file once a second is over.
LEMMA TickKeeps ==
    ASSUME SessionsInv, Tick
    PROVE  SessionsInv'
  <1>1. /\ UNCHANGED <<expiry, denied, promised, crashed, bearer>> /\ now' = now + 1
        /\ now \in Nat /\ now < MaxTime /\ MaxTime \in Nat /\ Lifetime \in Nat
    BY DEF SessionsInv, TokensTypeOK, Time, Tick
  <1>2. durable' = denied \/ (durable' = durable /\ (now + 1) \div Second = now \div Second)
    <2>1. durable' = IF (now + 1) % Second = 0 THEN denied ELSE durable
      BY <1>1 DEF Tick
    <2>2. (now + 1) % Second # 0 => (now + 1) \div Second = now \div Second
      BY <1>1, SameSecond DEF SessionsInv
    <2> QED BY <2>1, <2>2
  <1>3. TokensTypeOK'
    BY <1>1, <1>2 DEF SessionsInv, TokensTypeOK, Time
  <1>4. ASSUME NEW u \in Token PROVE expiry'[u] <= now' + Lifetime /\ Settled(u)'
    <2>1. /\ durable[u] \in Nat /\ denied[u] \in Nat /\ expiry[u] \in Nat /\ promised[u] \in Nat
          /\ expiry[u] <= now + Lifetime /\ Settled(u)
      BY DEF SessionsInv, TokensTypeOK, Never, Time
    <2>2. (now + 1) \div Second = now' \div Second
      BY <1>1
    <2>3. Covered(u) => Covered(u)'
      BY <1>1, <1>2, <2>1, <2>2 DEF Covered
    <2> QED BY <1>1, <2>1, <2>3 DEF Settled, CrashedAfter
  <1>5. \A q \in Bearer : Carries(q)'
    <2> SUFFICES ASSUME NEW q \in Bearer PROVE Carries(q)'
      OBVIOUS
    <2>1. Carries(q) /\ bearer[q].ttl \in Nat /\ bearer[q].token \in Token
      BY DEF SessionsInv, TokensTypeOK, Handler, Ttl
    <2>2. expiry[bearer[q].token] \in Nat
      BY <2>1 DEF SessionsInv, TokensTypeOK, Never
    <2> QED BY <1>1, <2>1, <2>2 DEF Carries
  <1> QED BY <1>3, <1>4, <1>5 DEF SessionsInv

\* A crash takes what was not written out, within a second of the answer.
LEMMA CrashKeeps ==
    ASSUME SessionsInv, Crash
    PROVE  SessionsInv'
  <1>1. /\ UNCHANGED <<now, expiry, durable, promised, bearer>>
        /\ denied' = durable /\ crashed' = crashed \cup {now} /\ now \in Nat
    BY DEF SessionsInv, TokensTypeOK, Time, Crash
  <1>2. TokensTypeOK'
    BY <1>1 DEF SessionsInv, TokensTypeOK
  <1>3. ASSUME NEW u \in Token PROVE Settled(u)'
    <2>1. /\ durable[u] \in Nat /\ denied[u] \in Nat /\ expiry[u] \in Nat /\ promised[u] \in Nat
          /\ Settled(u) /\ Second \in Nat
      BY DEF SessionsInv, TokensTypeOK, Never, Time
    <2>2. CASE durable[u] >= expiry[u]
      BY <1>1, <2>1, <2>2 DEF Settled, CrashedAfter, Covered
    <2>3. CASE promised[u] <= now /\ promised[u] \div Second = now \div Second
      <3>1. now <= promised[u] + Second
        BY <1>1, <2>1, <2>3, SameSecond DEF SessionsInv
      <3>2. now \in crashed' /\ now \in promised[u]..(promised[u] + Second)
        BY <1>1, <2>1, <2>3, <3>1
      <3> QED BY <1>1, <2>1, <3>2 DEF Settled, CrashedAfter
    <2> QED BY <1>1, <2>1, <2>2, <2>3 DEF Settled, CrashedAfter, Covered
  <1>4. \A q \in Bearer : Carries(q)'
    BY <1>1 DEF SessionsInv, Carries
  <1> QED BY <1>1, <1>2, <1>3, <1>4 DEF SessionsInv
-----------------------------------------------------------------------------
LEMMA SessionsStep ==
    ASSUME SessionsInv, [TokensNext]_tokenVars
    PROVE  SessionsInv'
  <1>1. CASE UNCHANGED tokenVars
    <2>1. UNCHANGED <<now, expiry, denied, durable, promised, crashed, bearer>>
      BY <1>1 DEF tokenVars
    <2> QED BY <2>1 DEF SessionsInv, TokensTypeOK, Settled, CrashedAfter, Covered, Carries
  <1>2. ASSUME NEW r \in Bearer,
               \/ Admit(r) \/ ComputeTtl(r)
               \/ Revoke(r) \/ RevokeFails(r)
        PROVE  SessionsInv'
    BY <1>2, AdmitKeeps, ComputeTtlKeeps, RevokeKeeps
  <1>3. ASSUME NEW r \in Bearer, Refuse(r) \/ Serve(r)
        PROVE  SessionsInv'
    BY <1>3, FinishKeeps DEF Refuse, Serve
  <1> QED BY <1>1, <1>2, <1>3, TickKeeps, CrashKeeps, IssueKeeps, DecodeKeeps
          DEF TokensNext

\* Every reachable state of the token module is of its type, for any tokens,
\* requests, lifetimes and ticks.
THEOREM TokensTyped == TokensSpec => []TokensTypeOK
  <1>1. TokensInit => SessionsInv
    BY InitSessions, TokensAssumption
  <1>2. SessionsInv /\ [TokensNext]_tokenVars => SessionsInv'
    BY SessionsStep
  <1>3. SessionsInv => TokensTypeOK
    BY DEF SessionsInv
  <1> QED BY <1>1, <1>2, <1>3, PTL DEF TokensSpec

\* A handler goes from "decoded" to "admitted" only by being admitted.
LEMMA AdmitsOne ==
    ASSUME SessionsInv, [TokensNext]_tokenVars, NEW r \in Bearer,
           bearer[r].phase = "decoded", bearer'[r].phase = "admitted"
    PROVE  Admit(r)
  <1>1. ASSUME NEW h, bearer' = [bearer EXCEPT ![r] = h] PROVE h = bearer'[r]
    BY <1>1 DEF SessionsInv, TokensTypeOK
  <1>2. DOMAIN bearer = Bearer
    BY DEF SessionsInv, TokensTypeOK
  <1>3. bearer' # bearer
    OBVIOUS
  <1>4. ~FinishHandler(r)
    BY <1>1, EmptyHandlerType DEF SessionsInv, FinishHandler
  <1>5. ASSUME NEW q \in Bearer, q # r, NEW h PROVE bearer' # [bearer EXCEPT ![q] = h]
    <2>1. bearer'[r] # bearer[r]
      OBVIOUS
    <2> QED BY <1>2, <1>5, <2>1
  <1>6. ASSUME NEW q \in Bearer, FinishHandler(q) PROVE FALSE
    BY <1>4, <1>5, <1>6 DEF FinishHandler
  <1>7. ASSUME NEW q \in Bearer, NEW t \in Token, NEW op \in {"use", "logout"},
               Decode(q, t, op)
        PROVE  FALSE
    BY <1>5, <1>6, <1>7 DEF Decode
  <1>8. ASSUME NEW q \in Bearer, ComputeTtl(q) PROVE FALSE
    BY <1>5, <1>6, <1>8 DEF ComputeTtl
  <1>9. ASSUME NEW q \in Bearer, Admit(q) PROVE q = r
    BY <1>5, <1>9 DEF Admit
  <1>10. ASSUME NEW q \in Bearer,
                \/ Refuse(q) \/ Serve(q)
                \/ Revoke(q) \/ RevokeFails(q)
         PROVE  FALSE
    BY <1>6, <1>10
       DEF Refuse, Serve, Revoke, RevokeFails
  <1>11. ~Tick /\ ~Crash /\ ~UNCHANGED tokenVars
         /\ \A t \in Token : ~Issue(t)
    BY <1>3 DEF Tick, Crash, Issue, tokenVars
  <1> QED BY <1>7, <1>8, <1>9, <1>10, <1>11 DEF TokensNext

\* A logout that was answered holds to the token's end, however the fractions of
\* a second fall, except after a crash of Redis within a second of the answer
\* (services/token_denylist.py).
THEOREM RevocationsHold == TokensSpec => SettledRevocationsHold
  <1>1. TokensInit => SessionsInv
    BY InitSessions, TokensAssumption
  <1>2. SessionsInv /\ [TokensNext]_tokenVars => SessionsInv'
    BY SessionsStep
  <1>3. ASSUME SessionsInv, [TokensNext]_tokenVars, NEW r \in Bearer,
               AdmittedThoughRevoked(r)
        PROVE  CrashedAfter(bearer[r].token)
    <2>1. Admit(r)
      BY <1>3, AdmitsOne DEF AdmittedThoughRevoked
    <2>2. PICK t \in Token : t = bearer[r].token
      BY <1>3 DEF SessionsInv, TokensTypeOK, Handler
    <2>3. promised[t] # Never /\ now < expiry[t] /\ ~(now < denied[t])
      BY <1>3, <2>1, <2>2
         DEF AdmittedThoughRevoked, Admit, Listed, Never
    <2>4. denied[t] \in Nat /\ expiry[t] \in Nat /\ now \in Nat
      BY <1>3 DEF SessionsInv, TokensTypeOK, Never, Time
    <2> QED BY <1>3, <2>2, <2>3, <2>4 DEF SessionsInv, Settled, Covered
  <1>4. SessionsInv /\ [TokensNext]_tokenVars =>
           \A r \in Bearer : AdmittedThoughRevoked(r) => CrashedAfter(bearer[r].token)
    BY <1>3
  <1>5. SessionsInv /\ [TokensNext]_tokenVars =>
           [\A r \in Bearer :
              AdmittedThoughRevoked(r) =>
                \E c \in crashed :
                   c \in promised[bearer[r].token]..(promised[bearer[r].token] + Second)]_tokenVars
    BY <1>4 DEF CrashedAfter
  <1> QED BY <1>1, <1>2, <1>5, PTL DEF TokensSpec, SettledRevocationsHold
-----------------------------------------------------------------------------
(***************************************************************************)
(* A window holds at most twice the limit.  The last n requests allowed    *)
(* were counted under the key that is there now, at most the limit; those  *)
(* before them are at most the limit too, and by the time the key is gone  *)
(* they are a window old.                                                  *)
(***************************************************************************)
Straddling(n) ==
    /\ n <= count
    /\ ttl > 0 => \A k \in Last : k > n => recent[k] + ttl >= Window
    /\ \A k \in Last : k > n + Limit => recent[k] = Window

RateInv ==
    /\ RateAssumption
    /\ RateTypeOK
    /\ \E n \in 0..Limit : Straddling(n)

LEMMA InitRate ==
    ASSUME RateAssumption, RateInit
    PROVE  RateInv
  <1>1. RateTypeOK
    BY DEF RateInit, RateTypeOK, NoTtl, Top, Idle,
           Check, NothingRecent, Last
  <1>2. 0 \in 0..Limit /\ Straddling(0)
    BY DEF RateInit, NothingRecent, Straddling
  <1> QED BY <1>1, <1>2 DEF RateInv

\* The values a step gives to the counter and to the handlers are of their types.
LEMMA RateTypes ==
    ASSUME RateInv
    PROVE  /\ Limit \in Nat \ {0} /\ Window \in Nat \ {0}
           /\ count \in 0..(Limit + 1) /\ ttl \in {-1} \cup 0..Window
           /\ count = 0 <=> ttl = 0
           /\ recent \in [Last -> 0..Window]
           /\ caller \in [Caller -> Check]
           /\ Incremented \in 1..(Limit + 1)
           /\ Incremented >= count
           /\ Within(Incremented) => Incremented = count + 1
           /\ Idle \in Check /\ Passed \in Check
  BY DEF RateInv, RateTypeOK, Top, NoTtl, Incremented,
         Idle, Passed, Check, Within

\* A handler that goes on, or ends.
LEMMA CallerType ==
    ASSUME RateInv, NEW r \in Caller, NEW h \in Check,
           caller' = [caller EXCEPT ![r] = h]
    PROVE  caller' \in [Caller -> Check]
  BY RateTypes

\* The requests counted and allowed stay, and the key keeps or gains an age.
LEMMA SameRecent ==
    ASSUME RateInv, UNCHANGED recent, caller' \in [Caller -> Check],
           count' \in count..(Limit + 1),
           \/ ttl' = ttl \/ ttl' = Window
           \/ count = 0 /\ ttl' = -1,
           count' = 0 <=> ttl' = 0
    PROVE  RateInv'
  <1>1. PICK n \in 0..Limit : Straddling(n)
    BY DEF RateInv
  <1>2. RateTypeOK'
    BY RateTypes DEF RateInv, RateTypeOK, Top, NoTtl
  <1>3. \A k \in Last : recent[k] \in 0..Window
    BY RateTypes
  <1>4. Straddling(n)'
    BY <1>1, <1>3, RateTypes DEF Straddling
  <1> QED BY <1>2, <1>4 DEF RateInv

LEMMA CountKeeps ==
    ASSUME RateInv, NEW r \in Caller, Count(r)
    PROVE  RateInv'
  <1>1. PICK i : i = Incremented
    OBVIOUS
  <1>2. /\ i \in 1..(Limit + 1) /\ i >= count
        /\ Within(i) <=> i <= Limit
        /\ Within(i) => i = count + 1
        /\ count' = i
        /\ ttl' = IF count = 0 THEN -1 ELSE ttl
    BY <1>1, RateTypes DEF Count, Within, NoTtl
  <1>3. caller' \in [Caller -> Check]
    <2>1. [phase |-> "counted", count |-> i] \in Check
      BY <1>2, RateTypes DEF Check, Top
    <2>2. \E h \in Check : caller' = [caller EXCEPT ![r] = h]
      BY <1>1, <2>1, RateTypes DEF Count, Decide
    <2> QED BY <2>2, CallerType
  <1>4. CASE ~Within(i)
    <2>1. UNCHANGED recent
      BY <1>1, <1>4 DEF Count
    <2> QED BY <1>2, <1>3, <2>1, SameRecent, RateTypes
  <1>5. CASE Within(i)
    <2>1. recent' = [k \in Last |-> IF k = 1 THEN 0 ELSE recent[k - 1]]
      BY <1>1, <1>5 DEF Count
    <2>2. \A k \in Last : k # 1 => k - 1 \in Last
      BY RateTypes DEF Last
    <2>3. RateTypeOK'
      BY <1>2, <1>3, <2>1, <2>2, RateTypes
         DEF RateInv, RateTypeOK, Top, NoTtl
    <2>4. PICK n \in 0..Limit : Straddling(n)
      BY DEF RateInv
    <2>5. n + 1 \in 0..Limit /\ n + 1 <= count'
      BY <1>2, <1>5, <2>4, RateTypes DEF Straddling
    <2>6. ttl' > 0 => ttl' = ttl
      BY <1>2
    <2>7. ASSUME NEW k \in Last, k > n + 1
          PROVE  /\ recent'[k] = recent[k - 1]
                 /\ k - 1 \in Last /\ k - 1 > n
      BY <2>1, <2>2, <2>4, <2>7, RateTypes DEF Last
    <2>8. ASSUME NEW k \in Last, k > (n + 1) + Limit
          PROVE  recent'[k] = Window
      <3>1. k > n + 1 /\ k - 1 > n + Limit
        BY <2>4, <2>8, RateTypes DEF Last
      <3> QED BY <2>4, <2>7, <3>1 DEF Straddling
    <2>9. Straddling(n + 1)'
      <3>1. ttl' > 0 => \A k \in Last : k > n + 1 => recent'[k] + ttl' >= Window
        BY <2>4, <2>6, <2>7 DEF Straddling
      <3> QED BY <2>5, <2>8, <3>1 DEF Straddling, Last
    <2> QED BY <2>3, <2>5, <2>9 DEF RateInv
  <1> QED BY <1>4, <1>5

LEMMA ExpireKeeps ==
    ASSUME RateInv, NEW r \in Caller,
           Expire(r) \/ ExpireFails(r)
    PROVE  RateInv'
  <1>1. UNCHANGED <<count, recent>> /\ ttl' \in {ttl, Restarted}
    BY DEF Expire, ExpireFails
  <1>2. ttl' = ttl \/ (ttl' = Window /\ count # 0)
    BY <1>1 DEF Restarted
  <1>3. \E h \in Check : caller' = [caller EXCEPT ![r] = h]
    BY RateTypes DEF Expire, ExpireFails, Decide
  <1> QED BY <1>1, <1>2, <1>3, CallerType, SameRecent, RateTypes

LEMMA CountFailsKeeps ==
    ASSUME RateInv, NEW r \in Caller, CountFails(r)
    PROVE  RateInv'
  <1>1. caller' \in [Caller -> Check] /\ UNCHANGED recent
    BY RateTypes, CallerType DEF CountFails
  <1>2. CASE UNCHANGED <<count, ttl>>
    BY <1>1, <1>2, SameRecent, RateTypes
  <1>3. CASE count' = Incremented /\ ttl' = IF count = 0 THEN NoTtl ELSE ttl
    BY <1>1, <1>3, SameRecent, RateTypes DEF NoTtl
  <1> QED BY <1>2, <1>3 DEF CountFails

\* A handler that ends without another command, or with its process.
LEMMA IdleKeeps ==
    ASSUME RateInv, NEW r \in Caller, Die(r) \/ Answer(r)
    PROVE  RateInv'
  BY RateTypes, CallerType, SameRecent DEF Die, Answer

\* A login that succeeds begins anew.
LEMMA ResetKeeps ==
    ASSUME RateInv, NEW r \in Caller, Reset(r)
    PROVE  RateInv'
  <1>1. caller' \in [Caller -> Check]
    BY RateTypes, CallerType DEF Reset
  <1>2. /\ count' = 0 /\ ttl' = 0 /\ recent' = [k \in Last |-> Window]
    BY DEF Reset, NothingRecent
  <1>3. RateTypeOK'
    BY <1>1, <1>2, RateTypes DEF RateTypeOK, Top
  <1>4. 0 \in 0..Limit /\ Straddling(0)'
    BY <1>2, RateTypes DEF Straddling
  <1> QED BY <1>3, <1>4 DEF RateInv

LEMMA RateTickKeeps ==
    ASSUME RateInv, SecondPasses
    PROVE  RateInv'
  <1>1. UNCHANGED caller
    BY DEF SecondPasses
  <1>2. /\ recent' \in [Last -> 0..Window]
        /\ \A k \in Last :
              /\ recent[k] \in 0..Window
              /\ recent'[k] = IF recent[k] < Window THEN recent[k] + 1 ELSE Window
    BY RateTypes DEF SecondPasses
  <1>3. /\ ttl' = IF ttl > 0 THEN ttl - 1 ELSE ttl
        /\ count' = IF ttl = 1 THEN 0 ELSE count
    BY DEF SecondPasses
  <1>4. RateTypeOK'
    BY <1>1, <1>2, <1>3, RateTypes DEF RateTypeOK, Top, NoTtl
  <1>5. PICK n \in 0..Limit : Straddling(n)
    BY DEF RateInv
  <1>6. CASE ttl = 1
    <2>1. ttl' = 0 /\ count' = 0
      BY <1>3, <1>6
    <2>2. \A k \in Last : k > n => recent'[k] = Window
      BY <1>2, <1>5, <1>6, RateTypes DEF Straddling
    <2>3. Straddling(0)'
      BY <1>5, <2>1, <2>2, RateTypes DEF Straddling, Last
    <2> QED BY <1>4, <2>3, RateTypes DEF RateInv
  <1>7. CASE ttl # 1
    <2>1. count' = count /\ (ttl' > 0 => ttl > 0 /\ ttl' = ttl - 1)
      BY <1>3, <1>7, RateTypes
    <2>2. Straddling(n)'
      BY <1>2, <1>5, <2>1, RateTypes DEF Straddling
    <2> QED BY <1>4, <1>5, <2>2 DEF RateInv
  <1> QED BY <1>6, <1>7

LEMMA RateStep ==
    ASSUME RateInv, [RateNext]_rateVars
    PROVE  RateInv'
  <1>1. CASE UNCHANGED rateVars
    BY <1>1 DEF rateVars, RateInv, RateTypeOK, Straddling
  <1> QED BY <1>1, CountKeeps, ExpireKeeps, CountFailsKeeps, IdleKeeps, ResetKeeps,
             RateTickKeeps
          DEF RateNext

\* In any stretch as long as a window at most twice the limit is counted and
\* allowed, for any limit, window and number of requests, whichever commands fail
\* and whichever workers die (services/rate_limit.py).
THEOREM TwiceTheLimitAtMost == RateSpec => []AtMostTwiceTheLimit
  <1>1. RateInit => RateInv
    BY InitRate, RateAssumption
  <1>2. RateInv /\ [RateNext]_rateVars => RateInv'
    BY RateStep
  <1>3. RateInv => AtMostTwiceTheLimit
    <2> SUFFICES ASSUME RateInv PROVE recent[2 * Limit + 1] = Window
      BY DEF AtMostTwiceTheLimit
    <2>1. PICK n \in 0..Limit : Straddling(n)
      BY DEF RateInv
    <2>2. 2 * Limit + 1 \in Last /\ 2 * Limit + 1 > n + Limit
      BY RateTypes DEF Last
    <2> QED BY <2>1, <2>2 DEF Straddling
  <1> QED BY <1>1, <1>2, <1>3, PTL DEF RateSpec
-----------------------------------------------------------------------------
(***************************************************************************)
(* Rights are granted by others.  What a request is about to write over a  *)
(* row it loaded has other rights only if it may grant them: a login and a *)
(* password change carry the rights they loaded, and so does an update of  *)
(* one's own account, because the object it works on is the one the        *)
(* authentication read, and that one was active.                           *)
(***************************************************************************)
SameRights(s) == s.object.role = s.loaded.role /\ s.object.active = s.loaded.active

Warranted(s) ==
    /\ s.phase \in {"authenticated", "loaded"} /\ s.op = "grant" =>
          s.caller.role = "admin" /\ s.caller.active
    /\ s.phase = "loaded" =>
          /\ s.op \in {"admin", "login", "password", "grant"}
          /\ s.op \in {"login", "password"} => SameRights(s)
          /\ s.op = "grant" =>
                /\ s.target = s.actor => SameRights(s)
                /\ s.object.role \in {s.loaded.role, s.grant.role}
                /\ s.object.active # s.loaded.active => s.grant.active # Kept

AccountsInv ==
    /\ ConstantsAssumption
    /\ TypeOK
    /\ \A r \in Request : Warranted(req[r])

LEMMA EmptySessionType ==
    ASSUME ConstantsAssumption,
           NEW phase \in {"idle", "checked", "authenticated", "loaded", "done"}
    PROVE  /\ EmptySession(phase) \in Session
           /\ EmptySession(phase).phase = phase
           /\ EmptySession(phase).op = "none"
  <1>1. /\ Spelling # {} /\ Username # {} /\ Password # {} /\ User # {}
        /\ MaxGeneration \in Nat
    OBVIOUS
  <1>2. /\ AnyOf(User) \in User
        /\ AnyOf(Spelling) \in Spelling
        /\ AnyOf(Username) \in Username
        /\ AnyOf(Password) \in Password
    BY <1>1 DEF AnyOf
  <1>3. NoRow \in Row
    BY <1>1, <1>2 DEF NoRow, Row, Role, Rank
  <1>4. NoGrant \in Grant
    BY DEF NoGrant, Grant
  <1> QED BY <1>2, <1>3, <1>4 DEF EmptySession, Session

LEMMA InitAccounts ==
    ASSUME ConstantsAssumption, Init
    PROVE  AccountsInv
  <1>1. /\ EmptySession("idle") \in Session
        /\ EmptySession("idle").phase = "idle"
    BY EmptySessionType
  <1>2. NoRow \in Row
    <2>1. /\ AnyOf(Spelling) \in Spelling
          /\ AnyOf(Username) \in Username
          /\ AnyOf(Password) \in Password
      BY DEF AnyOf
    <2> QED BY <2>1 DEF NoRow, Row, Role, Rank
  <1>3. TypeOK
    BY <1>1, <1>2 DEF Init, TypeOK
  <1>4. \A r \in Request : Warranted(req[r])
    BY <1>1 DEF Init, Warranted
  <1> QED BY <1>3, <1>4 DEF AccountsInv
-----------------------------------------------------------------------------
\* A step that gives one request a warranted session keeps the invariant.
LEMMA SessionKeeps ==
    ASSUME AccountsInv, NEW r \in Request, NEW s \in Session, Warranted(s),
           req' = [req EXCEPT ![r] = s],
           known' \subseteq User, row' \in [User -> Row],
           generation' \in 0..MaxGeneration
    PROVE  AccountsInv'
  <1>1. \A q \in Request : req'[q] = IF q = r THEN s ELSE req[q]
    BY DEF AccountsInv, TypeOK
  <1>2. TypeOK'
    BY DEF AccountsInv, TypeOK
  <1> QED BY <1>1, <1>2 DEF AccountsInv, Warranted, SameRights

LEMMA EndKeeps ==
    ASSUME AccountsInv, NEW r \in Request, Finish(r),
           known' \subseteq User, row' \in [User -> Row],
           generation' \in 0..MaxGeneration
    PROVE  AccountsInv'
  <1>1. /\ EmptySession("done") \in Session
        /\ Warranted(EmptySession("done"))
    BY EmptySessionType DEF AccountsInv, Warranted
  <1> QED BY <1>1, SessionKeeps DEF Finish

\* What there is remains of its type when nothing of it changes.
LEMMA Unwritten ==
    ASSUME AccountsInv, UNCHANGED <<known, row, generation>>
    PROVE  /\ known' \subseteq User /\ row' \in [User -> Row]
           /\ generation' \in 0..MaxGeneration
  BY DEF AccountsInv, TypeOK

\* A registration, or create_admin, that found its names free.
LEMMA CheckKeeps ==
    ASSUME AccountsInv, NEW r \in Request, NEW email \in Spelling,
           NEW username \in Username, NEW password \in Password,
           \/ CheckRegistration(r, email, username, password)
           \/ CheckAdmin(r, email, username, password)
    PROVE  AccountsInv'
  <1>1. UNCHANGED <<known, row, generation>>
    BY DEF CheckRegistration, CheckAdmin
  <1>2. ASSUME NEW op \in {"register", "admin"}, NEW s,
               s = [EmptySession("checked") EXCEPT
                      !.op = op, !.email = email, !.username = username,
                      !.password = password]
        PROVE  s \in Session /\ Warranted(s)
    <2>1. /\ EmptySession("checked") \in Session
          /\ EmptySession("checked").phase = "checked"
      BY EmptySessionType DEF AccountsInv
    <2>2. s \in Session /\ s.phase = "checked"
      BY <1>2, <2>1 DEF Session
    <2> QED BY <2>2 DEF Warranted
  <1>3. \/ Finish(r)
        \/ \E op \in {"register", "admin"} :
              req' = [req EXCEPT ![r] =
                 [EmptySession("checked") EXCEPT
                    !.op = op, !.email = email, !.username = username,
                    !.password = password]]
    BY DEF CheckRegistration, CheckAdmin
  <1> QED BY <1>1, <1>2, <1>3, Unwritten, EndKeeps, SessionKeeps

\* The INSERT of either writes a row of its own.
LEMMA InsertKeeps ==
    ASSUME AccountsInv, NEW r \in Request, NEW u \in User, Insert(r, u)
    PROVE  AccountsInv' /\ u \notin known /\ \A v \in known : row'[v] = row[v]
  <1>1. PICK h : h = [email |-> Stored(req[r].email),
                      username |-> req[r].username,
                      password |-> req[r].password, made |-> generation,
                      role |-> IF req[r].op = "admin" THEN "admin" ELSE "viewer",
                      active |-> TRUE]
    OBVIOUS
  <1>2. h \in Row
    <2>1. /\ req[r].email \in Spelling /\ req[r].username \in Username
          /\ req[r].password \in Password /\ generation \in 0..MaxGeneration
      BY DEF AccountsInv, TypeOK, Session
    <2>2. Stored(req[r].email) \in Spelling
      BY <2>1 DEF AccountsInv, Stored
    <2>3. (IF req[r].op = "admin" THEN "admin" ELSE "viewer") \in Role
      BY DEF Role, Rank
    <2> QED BY <1>1, <2>1, <2>2, <2>3 DEF Row
  <1>3. row' = [row EXCEPT ![u] = h] /\ u \notin known /\ known' = known \cup {u}
    BY <1>1 DEF Insert
  <1>4. row' \in [User -> Row] /\ \A v \in known : row'[v] = row[v]
    BY <1>2, <1>3 DEF AccountsInv, TypeOK
  <1>5. known' \subseteq User /\ generation' \in 0..MaxGeneration
    BY <1>3 DEF AccountsInv, TypeOK, Insert
  <1>6. Finish(r)
    BY DEF Insert
  <1> QED BY <1>3, <1>4, <1>5, <1>6, EndKeeps

\* create_admin that loads an account to promote.
LEMMA PromotionKeeps ==
    ASSUME AccountsInv, NEW r \in Request, NEW u \in User, LoadPromotion(r, u)
    PROVE  AccountsInv'
  <1>1. PICK o : o = [row[u] EXCEPT !.role = "admin", !.active = TRUE]
    OBVIOUS
  <1>2. row[u] \in Row
    BY DEF AccountsInv, TypeOK
  <1>3. o \in Row
    BY <1>1, <1>2 DEF Row, Role, Rank
  <1>4. PICK s : s = [EmptySession("loaded") EXCEPT
                        !.op = "admin", !.actor = u, !.target = u, !.loaded = row[u],
                        !.object = o]
    OBVIOUS
  <1>5. /\ EmptySession("loaded") \in Session
    BY EmptySessionType DEF AccountsInv
  <1>6. s \in Session /\ s.op = "admin"
    BY <1>2, <1>3, <1>4, <1>5 DEF Session
  <1>7. Warranted(s)
    BY <1>6 DEF Warranted
  <1>8. req' = [req EXCEPT ![r] = s] /\ UNCHANGED <<known, row, generation>>
    BY <1>1, <1>4 DEF LoadPromotion
  <1> QED BY <1>6, <1>7, <1>8, Unwritten, SessionKeeps

\* A login that found its account, and may have to hash the password again.
LEMMA LoginKeeps ==
    ASSUME AccountsInv, NEW r \in Request, NEW u \in User, NEW password \in Password,
           LoadLogin(r, u, password)
    PROVE  AccountsInv'
  <1>1. UNCHANGED <<known, row, generation>>
    BY DEF LoadLogin
  <1>2. PICK o : o = Rehashed(row[u], password)
    OBVIOUS
  <1>3. row[u] \in Row /\ generation \in 0..MaxGeneration
    BY DEF AccountsInv, TypeOK
  <1>4. o \in Row /\ o.role = row[u].role /\ o.active = row[u].active
    BY <1>2, <1>3 DEF Row, Rehashed
  <1>5. PICK s : s = [EmptySession("loaded") EXCEPT
                        !.op = "login", !.actor = u, !.target = u, !.loaded = row[u],
                        !.object = o]
    OBVIOUS
  <1>6. EmptySession("loaded") \in Session
    BY EmptySessionType DEF AccountsInv
  <1>7. /\ s \in Session /\ s.op = "login"
        /\ s.loaded = row[u] /\ s.object = o
    BY <1>3, <1>4, <1>5, <1>6 DEF Session
  <1>8. Warranted(s)
    BY <1>4, <1>7 DEF Warranted, SameRights
  <1>9. Finish(r) \/ req' = [req EXCEPT ![r] = s]
    BY <1>2, <1>5 DEF LoadLogin
  <1> QED BY <1>1, <1>7, <1>8, <1>9, Unwritten, SessionKeeps, EndKeeps

\* A caller who is let in is active and, for a grant, an administrator.
LEMMA AuthenticateKeeps ==
    ASSUME AccountsInv, NEW r \in Request, NEW u \in User, NEW op \in {"grant", "password"},
           NEW target \in User, NEW grant \in Grant,
           Authenticate(r, u, op, target, grant)
    PROVE  AccountsInv'
  <1>1. UNCHANGED <<known, row, generation>>
    BY DEF Authenticate
  <1>2. row[u] \in Row
    BY DEF AccountsInv, TypeOK
  <1>3. PICK s : s = [EmptySession("authenticated") EXCEPT
                        !.op = op, !.actor = u, !.target = target, !.grant = grant,
                        !.caller = row[u]]
    OBVIOUS
  <1>4. /\ EmptySession("authenticated") \in Session
        /\ EmptySession("authenticated").phase = "authenticated"
    BY EmptySessionType DEF AccountsInv
  <1>5. /\ s \in Session /\ s.op = op /\ s.phase = "authenticated"
        /\ s.caller = row[u]
    BY <1>2, <1>3, <1>4 DEF Session
  <1>6. CASE row[u].active /\ (op = "grant" => HasAtLeast(row[u].role, "admin"))
    <2>1. op = "grant" => row[u].role = "admin"
      BY <1>2, <1>6 DEF HasAtLeast, Rank, Row, Role
    <2>2. Warranted(s)
      BY <1>5, <1>6, <2>1 DEF Warranted
    <2>3. req' = [req EXCEPT ![r] = s]
      BY <1>3, <1>6 DEF Authenticate
    <2> QED BY <1>1, <1>5, <2>2, <2>3, Unwritten, SessionKeeps
  <1>7. CASE ~(row[u].active /\ (op = "grant" => HasAtLeast(row[u].role, "admin")))
    BY <1>1, <1>7, Unwritten, EndKeeps DEF Authenticate
  <1> QED BY <1>6, <1>7

\* update_user on the target it loads: nobody changes their own rights.
LEMMA GrantKeeps ==
    ASSUME AccountsInv, NEW r \in Request, LoadGrant(r)
    PROVE  AccountsInv'
  <1>1. UNCHANGED <<known, row, generation>>
    BY DEF LoadGrant
  <1>2. PICK old \in Session : old = req[r]
    BY DEF AccountsInv, TypeOK
  <1>3. PICK loaded : loaded = IF old.target = old.actor THEN old.caller ELSE row[old.target]
    OBVIOUS
  <1>4. /\ loaded \in Row /\ old.grant \in Grant
        /\ old.phase = "authenticated" /\ old.op = "grant"
    BY <1>2, <1>3 DEF AccountsInv, TypeOK, Session, LoadGrant
  <1>5. PICK o : o = Granted(loaded, old.grant)
    OBVIOUS
  <1>6. /\ o \in Row
        /\ o.role = IF old.grant.role = Kept THEN loaded.role ELSE old.grant.role
        /\ o.active = IF old.grant.active = Kept THEN loaded.active
                      ELSE old.grant.active = "on"
    BY <1>4, <1>5 DEF Granted, Row, Grant, Kept
  <1>7. PICK s : s = [old EXCEPT !.phase = "loaded", !.loaded = loaded, !.object = o]
    OBVIOUS
  <1>8. /\ s \in Session /\ s.phase = "loaded" /\ s.op = "grant"
        /\ s.loaded = loaded /\ s.object = o /\ s.caller = old.caller
        /\ s.grant = old.grant /\ s.target = old.target /\ s.actor = old.actor
    BY <1>2, <1>4, <1>6, <1>7 DEF Session
  <1>9. old.caller.role = "admin" /\ old.caller.active
    BY <1>2, <1>4 DEF AccountsInv, Warranted
  <1>10. CASE \/ old.grant = NoGrant
              \/ OnesOwn(old.actor, old.target, loaded, old.grant)
    BY <1>1, <1>2, <1>3, <1>10, Unwritten, EndKeeps DEF LoadGrant
  <1>11. CASE ~OnesOwn(old.actor, old.target, loaded, old.grant)
              /\ old.grant # NoGrant
    <2>1. old.target = old.actor => o.role = loaded.role /\ o.active = loaded.active
      BY <1>3, <1>4, <1>6, <1>9, <1>11
         DEF OnesOwn, Grant, Kept
    <2>2. Warranted(s)
      BY <1>6, <1>8, <1>9, <2>1 DEF Warranted, SameRights
    <2>3. req' = [req EXCEPT ![r] = s]
      BY <1>2, <1>3, <1>5, <1>7, <1>11 DEF LoadGrant
    <2> QED BY <1>1, <1>8, <2>2, <2>3, Unwritten, SessionKeeps
  <1> QED BY <1>10, <1>11

LEMMA PasswordKeeps ==
    ASSUME AccountsInv, NEW r \in Request, NEW current \in Password, NEW new \in Password,
           ChangePassword(r, current, new)
    PROVE  AccountsInv'
  <1>1. UNCHANGED <<known, row, generation>>
    BY DEF ChangePassword
  <1>2. PICK old \in Session : old = req[r]
    BY DEF AccountsInv, TypeOK
  <1>3. old.caller \in Row /\ old.op = "password" /\ generation \in 0..MaxGeneration
    BY <1>2 DEF AccountsInv, TypeOK, Session, ChangePassword
  <1>4. PICK o : o = [old.caller EXCEPT !.password = new, !.made = generation]
    OBVIOUS
  <1>5. /\ o \in Row /\ o.role = old.caller.role /\ o.active = old.caller.active
    BY <1>3, <1>4 DEF Row
  <1>6. PICK s : s = [old EXCEPT !.phase = "loaded", !.loaded = old.caller, !.object = o]
    OBVIOUS
  <1>7. /\ s \in Session /\ s.op = "password"
        /\ s.loaded = old.caller /\ s.object = o
    BY <1>2, <1>3, <1>5, <1>6 DEF Session
  <1>8. Warranted(s)
    BY <1>5, <1>7 DEF Warranted, SameRights
  <1>9. Finish(r) \/ req' = [req EXCEPT ![r] = s]
    BY <1>2, <1>4, <1>6 DEF ChangePassword
  <1> QED BY <1>1, <1>7, <1>8, <1>9, Unwritten, SessionKeeps, EndKeeps

\* The flush writes a right over the row as it is by then only where the object
\* has another than the one loaded.
LEMMA FlushOfRights ==
    ASSUME ConstantsAssumption, NEW current \in Row,
           NEW loaded \in Row, NEW object \in Row
    PROVE  LET new == Flush(current, loaded, object)
           IN  /\ new \in Row
               /\ new.role = IF object.role # loaded.role THEN object.role ELSE current.role
               /\ new.active = IF object.active # loaded.active
                               THEN object.active ELSE current.active
  BY DEF Flush, Row

\* What a commit does to the one row it writes.
LEMMA CommitWrites ==
    ASSUME AccountsInv, NEW r \in Request, Commit(r)
    PROVE  /\ row' \in [User -> Row]
           /\ \A u \in User \ {req[r].target} : row'[u] = row[u]
           /\ LET s == req[r]
                  u == s.target
              IN  /\ u \in User
                  /\ row'[u].role = IF s.object.role # s.loaded.role
                                    THEN s.object.role ELSE row[u].role
                  /\ row'[u].active = IF s.object.active # s.loaded.active
                                      THEN s.object.active ELSE row[u].active
  <1>1. PICK s \in Session : s = req[r]
    BY DEF AccountsInv, TypeOK
  <1>2. PICK u \in User : u = s.target
    BY <1>1 DEF Session
  <1>3. s.loaded \in Row /\ s.object \in Row /\ row[u] \in Row
    BY <1>1, <1>2 DEF AccountsInv, TypeOK, Session
  <1>4. PICK m : m = Flush(row[u], s.loaded, s.object)
    OBVIOUS
  <1>5. /\ m \in Row
        /\ m.role = IF s.object.role # s.loaded.role THEN s.object.role ELSE row[u].role
        /\ m.active = IF s.object.active # s.loaded.active
                      THEN s.object.active ELSE row[u].active
    BY <1>3, <1>4, FlushOfRights DEF AccountsInv
  <1>6. PICK n : n = IF Hashed(s)
                     THEN [m EXCEPT !.password = s.object.password, !.made = s.object.made]
                     ELSE m
    OBVIOUS
  <1>7. n \in Row /\ n.role = m.role /\ n.active = m.active
    BY <1>3, <1>5, <1>6 DEF Row
  <1>8. row' = [row EXCEPT ![u] = n]
    BY <1>1, <1>2, <1>4, <1>6 DEF Commit
  <1>9. /\ row' \in [User -> Row]
        /\ \A v \in User : row'[v] = IF v = u THEN n ELSE row[v]
    BY <1>7, <1>8 DEF AccountsInv, TypeOK
  <1> QED BY <1>1, <1>2, <1>5, <1>7, <1>9

LEMMA CommitKeeps ==
    ASSUME AccountsInv, NEW r \in Request, Commit(r)
    PROVE  AccountsInv'
  <1>1. UNCHANGED <<known, generation>> /\ Finish(r)
    BY DEF Commit
  <1>2. known' \subseteq User /\ generation' \in 0..MaxGeneration
    BY <1>1 DEF AccountsInv, TypeOK
  <1> QED BY <1>1, <1>2, CommitWrites, EndKeeps

LEMMA AccountsStep ==
    ASSUME AccountsInv, [Next]_vars
    PROVE  AccountsInv'
  <1>1. CASE UNCHANGED vars
    BY <1>1 DEF vars, AccountsInv, TypeOK, Warranted, SameRights
  <1>2. CASE RaiseParameters
    BY <1>2 DEF RaiseParameters, AccountsInv, TypeOK, Warranted, SameRights
  <1>3. ASSUME NEW r \in Request, InsertRefused(r) PROVE AccountsInv'
    BY <1>3, Unwritten, EndKeeps DEF InsertRefused
  <1>4. ASSUME NEW r \in Request, NEW u \in User, Insert(r, u) PROVE AccountsInv'
    BY <1>4, InsertKeeps
  <1>5. ASSUME NEW r \in Request, NEW u \in User,
               Authenticate(r, u, "password", u, NoGrant)
        PROVE  AccountsInv'
    <2>1. NoGrant \in Grant
      BY DEF NoGrant, Grant
    <2> QED BY <1>5, <2>1, AuthenticateKeeps
  <1>6. ASSUME NEW r \in Request, NEW u \in User, NEW t \in User, NEW g \in Grant,
               Authenticate(r, u, "grant", t, g)
        PROVE  AccountsInv'
    BY <1>6, AuthenticateKeeps
  <1> QED BY <1>1, <1>2, <1>3, <1>4, <1>5, <1>6, CheckKeeps, PromotionKeeps, LoginKeeps,
             GrantKeeps, PasswordKeeps, CommitKeeps
          DEF Next

\* Only a commit changes a row that is there.
LEMMA WrittenByCommit ==
    ASSUME AccountsInv, [Next]_vars, NEW u \in known, row'[u] # row[u]
    PROVE  \E r \in Request : Commit(r)
  <1>1. ~UNCHANGED row
    OBVIOUS
  <1>2. ASSUME NEW r \in Request, NEW v \in User, Insert(r, v) PROVE FALSE
    BY <1>2, InsertKeeps
  <1>3. ~UNCHANGED vars /\ ~RaiseParameters
    BY <1>1 DEF vars, RaiseParameters
  <1>4. ASSUME NEW r \in Request
        PROVE  ~InsertRefused(r) /\ ~LoadGrant(r)
    BY <1>1 DEF InsertRefused, LoadGrant
  <1>5. ASSUME NEW r \in Request, NEW email \in Spelling, NEW username \in Username,
               NEW password \in Password
        PROVE  /\ ~CheckRegistration(r, email, username, password)
               /\ ~CheckAdmin(r, email, username, password)
    BY <1>1 DEF CheckRegistration, CheckAdmin
  <1>6. ASSUME NEW r \in Request, NEW current \in Password, NEW new \in Password
        PROVE  ~ChangePassword(r, current, new)
    BY <1>1 DEF ChangePassword
  <1>7. ASSUME NEW r \in Request, NEW v \in User, NEW password
        PROVE  ~LoadPromotion(r, v) /\ ~LoadLogin(r, v, password)
    BY <1>1 DEF LoadPromotion, LoadLogin
  <1>8. ASSUME NEW r \in Request, NEW v \in User, NEW op, NEW t, NEW g
        PROVE  ~Authenticate(r, v, op, t, g)
    BY <1>1 DEF Authenticate
  <1> QED BY <1>2, <1>3, <1>4, <1>5, <1>6, <1>7, <1>8 DEF Next

\* An account's rights change only by create_admin or by a grant of another
\* account, an administrator when it was authenticated, and then to what the
\* grant names, for any accounts and overlapping requests (endpoints/users.py).
THEOREM OthersGrantRights == Spec => RightsAreGrantedByOthers
  <1>1. Init => AccountsInv
    BY InitAccounts, ConstantsAssumption
  <1>2. AccountsInv /\ [Next]_vars => AccountsInv'
    BY AccountsStep
  <1> DEFINE Grants(r, u) ==
               LET s == req[r]
               IN  /\ s.phase = "loaded" /\ req'[r].phase = "done" /\ s.target = u
                   /\ \/ s.op = "admin"
                      \/ /\ s.op = "grant" /\ s.actor # u
                         /\ s.caller.role = "admin"
                         /\ row'[u].role \in {row[u].role, s.grant.role}
                         /\ row'[u].active # row[u].active => s.grant.active # Kept
  <1>3. ASSUME AccountsInv, [Next]_vars, NEW u \in known,
               Rights(u)' # Rights(u)
        PROVE  \E r \in Request : Grants(r, u)
    <2>1. row'[u].role # row[u].role \/ row'[u].active # row[u].active
      BY <1>3 DEF Rights
    <2>2. PICK r \in Request : Commit(r)
      BY <1>3, <2>1, WrittenByCommit
    <2>3. u \in User
      BY <1>3 DEF AccountsInv, TypeOK
    <2>4. req[r].target = u
      BY <1>3, <2>1, <2>2, <2>3, CommitWrites
    <2>5. PICK s : s = req[r]
      OBVIOUS
    <2>6. /\ row'[u].role = IF s.object.role # s.loaded.role THEN s.object.role ELSE row[u].role
          /\ row'[u].active = IF s.object.active # s.loaded.active
                              THEN s.object.active ELSE row[u].active
      BY <1>3, <2>2, <2>4, <2>5, CommitWrites
    <2>7. s.phase = "loaded" /\ Warranted(s)
      BY <1>3, <2>2, <2>5 DEF AccountsInv, Commit
    <2>8. req'[r].phase = "done"
      BY <1>3, <2>2, EmptySessionType
         DEF AccountsInv, TypeOK, Commit, Finish
    <2>9. ~SameRights(s)
      BY <2>1, <2>6 DEF SameRights
    <2>10. \/ s.op = "admin"
           \/ /\ s.op = "grant" /\ s.actor # u
              /\ s.caller.role = "admin"
              /\ row'[u].role \in {row[u].role, s.grant.role}
              /\ row'[u].active # row[u].active => s.grant.active # Kept
      BY <2>4, <2>5, <2>6, <2>7, <2>9 DEF Warranted
    <2> QED BY <2>4, <2>5, <2>7, <2>8, <2>10
  <1>4. AccountsInv /\ [Next]_vars =>
           [\A u \in known : Rights(u)' # Rights(u) =>
              \E r \in Request : Grants(r, u)]_vars
    BY <1>3
  <1> QED BY <1>1, <1>2, <1>4, PTL DEF Spec, RightsAreGrantedByOthers
=============================================================================
