------------------------------ MODULE RateLimit ------------------------------
(***************************************************************************)
(* The fixed-window counter of services/rate_limit.py behind one scope and *)
(* identifier, as limits.enforce and the login handler use it.             *)
(*                                                                         *)
(* INCR and TTL are one Redis transaction; the EXPIRE that starts a window *)
(* is a command of its own.  Other requests run in between, the process    *)
(* may die in between, and any command may fail, carried out or not.       *)
(*                                                                         *)
(* Time is what is left of the key's life, counted down, so the model runs *)
(* for ever: requests come again and again.                                *)
(***************************************************************************)
EXTENDS Integers

CONSTANTS
    Caller,     \* the requests in flight at once
    Limit,      \* requests allowed in a window
    Window      \* window_seconds

ASSUME RateAssumption == Limit \in Nat \ {0} /\ Window \in Nat \ {0}

VARIABLES
    count,      \* the counter; 0 when there is no key
    ttl,        \* what is left of the key's life; NoTtl for a key without one
    recent,     \* recent[k]: how long ago the k-th last request was counted and allowed
                \* (auxiliary)
    caller      \* caller[r]: what the handler of request r holds

rateVars == <<count, ttl, recent, caller>>
-----------------------------------------------------------------------------
NoTtl == -1

\* Bound: counting on past a refusal changes no verdict, so the counter stops there.
Top == Limit + 1

\* Bound: the last requests allowed, as many as no window may hold.
Last == 1..(2 * Limit + 1)

Check == [phase : {"idle", "counted", "passed"}, count : 0..Top]

RateTypeOK ==
    /\ count \in 0..Top
    /\ ttl \in {NoTtl} \cup 0..Window
    /\ count = 0 <=> ttl = 0
    /\ recent \in [Last -> 0..Window]
    /\ caller \in [Caller -> Check]

Idle == [phase |-> "idle", count |-> 0]
Passed == [phase |-> "passed", count |-> 0]

\* A window ago, or longer: the end of what recent tells.
NothingRecent == [k \in Last |-> Window]

RateInit ==
    /\ count = 0
    /\ ttl = 0
    /\ recent = NothingRecent
    /\ caller = [r \in Caller |-> Idle]
-----------------------------------------------------------------------------
Incremented == IF count < Top THEN count + 1 ELSE Top

\* A variant that refuses from the request after the first one over the limit.
WithinOneMore(n) == n <= Limit + 1

\* The verdict on a request that was counted as the n-th of its window.
Within(n) == n <= Limit

\* A variant that starts the window anew with every request.
AtEveryRequest == TRUE

\* A variant that gives a TTL to a new key only.
KeyIsNew == count = 0

\* TTL answers a negative number: the key is new, or it has lost its TTL.
WindowUnset == count = 0 \/ ttl = NoTtl

\* A request that is allowed goes on, one that is not is answered 429.
Decide(r, n) == caller' = [caller EXCEPT ![r] = IF Within(n) THEN Passed ELSE Idle]

\* EXPIRE on a key that is gone does nothing.
Restarted == IF count = 0 THEN ttl ELSE Window
-----------------------------------------------------------------------------
\* check(): INCR and TTL.
Count(r) ==
    /\ caller[r].phase = "idle"
    /\ count' = Incremented
    /\ ttl' = IF count = 0 THEN NoTtl ELSE ttl
    /\ recent' = IF Within(Incremented)
                 THEN [k \in Last |-> IF k = 1 THEN 0 ELSE recent[k - 1]]
                 ELSE recent
    /\ IF WindowUnset
       THEN caller' = [caller EXCEPT ![r] = [phase |-> "counted", count |-> Incremented]]
       ELSE Decide(r, Incremented)

\* check(): EXPIRE.
Expire(r) ==
    /\ caller[r].phase = "counted"
    /\ ttl' = Restarted
    /\ Decide(r, caller[r].count)
    /\ UNCHANGED <<count, recent>>

\* A command fails: the request is allowed, and nothing says whether Redis had
\* carried the command out.
CountFails(r) ==
    /\ caller[r].phase = "idle"
    /\ \/ UNCHANGED <<count, ttl>>
       \/ count' = Incremented /\ ttl' = IF count = 0 THEN NoTtl ELSE ttl
    /\ caller' = [caller EXCEPT ![r] = Passed]
    /\ UNCHANGED recent

ExpireFails(r) ==
    /\ caller[r].phase = "counted"
    /\ ttl' \in {ttl, Restarted}
    /\ caller' = [caller EXCEPT ![r] = Passed]
    /\ UNCHANGED <<count, recent>>

\* The worker process dies between the two commands.
Die(r) ==
    /\ caller[r].phase = "counted"
    /\ caller' = [caller EXCEPT ![r] = Idle]
    /\ UNCHANGED <<count, ttl, recent>>

\* The handler of an allowed request ends, for a login with wrong credentials.
Answer(r) ==
    /\ caller[r].phase = "passed"
    /\ caller' = [caller EXCEPT ![r] = Idle]
    /\ UNCHANGED <<count, ttl, recent>>

\* A login with the right credentials clears the counter (rate_limit.reset); what
\* was counted before is forgiven.
Reset(r) ==
    /\ caller[r].phase = "passed"
    /\ count' = 0
    /\ ttl' = 0
    /\ recent' = NothingRecent
    /\ caller' = [caller EXCEPT ![r] = Idle]

\* A second passes; a key whose time is up is gone.
SecondPasses ==
    /\ ttl' = IF ttl > 0 THEN ttl - 1 ELSE ttl
    /\ count' = IF ttl = 1 THEN 0 ELSE count
    /\ recent' = [k \in Last |-> IF recent[k] < Window THEN recent[k] + 1 ELSE Window]
    /\ UNCHANGED caller

RateNext ==
    \/ SecondPasses
    \/ \E r \in Caller :
         \/ Count(r)
         \/ Expire(r)
         \/ CountFails(r)
         \/ ExpireFails(r)
         \/ Die(r)
         \/ Answer(r)
         \/ Reset(r)

\* Time passes.  Nothing is assumed about the requests.
RateSpec == RateInit /\ [][RateNext]_rateVars /\ WF_rateVars(SecondPasses)
-----------------------------------------------------------------------------
(***************************************************************************)
(* Properties.                                                             *)
(***************************************************************************)
\* "A caller can send up to twice the limit across a window boundary", and never
\* more: of twice the limit and one requests counted and allowed, the first was a
\* window or longer before the last, whichever commands failed and whichever
\* workers died in between.
AtMostTwiceTheLimit == recent[2 * Limit + 1] = Window

\* "Otherwise a steady stream of requests would keep resetting the expiry and the
\* window would never close": a window that has an end comes to it.
WindowCloses == (count > 0 /\ ttl # NoTtl) ~> (count = 0)

\* Callers keep coming, and Redis does not fail, nor the process die, every time.
Busy == \A r \in Caller : SF_rateVars(Count(r)) /\ SF_rateVars(Expire(r)) /\ WF_rateVars(Answer(r))

\* A key that "somehow lost its TTL", because a worker died or EXPIRE failed
\* right after it was created, does not refuse its caller for ever: where callers
\* keep coming, one of them gives it an end.
LostWindowCloses == Busy => (count > 0 ~> count = 0)
=============================================================================
