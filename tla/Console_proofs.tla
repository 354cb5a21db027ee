--------------------------- MODULE Console_proofs ---------------------------
(***************************************************************************)
(* Proofs about Console, for any number of logins, calls in flight, saves  *)
(* and visits: no page is shown without a session, the token of a session  *)
(* that was signed out is never held again, and no screen is stale.        *)
(*                                                                         *)
(* None is inductive.  A late answer of restore shows a user, so there  *)
(* has to be a token while it is out, and nothing else may be under way    *)
(* that clears one; a late answer of login brings a token, so nobody can   *)
(* have held that token, or be signing out of it, before.                  *)
(***************************************************************************)
EXTENDS Console, FiniteSetTheorems, TLAPS

Tab == [token : Token \cup {NoToken}, stored : Token \cup {NoToken},
        user : User \cup {NoUser}, initialising : BOOLEAN, atLogin : BOOLEAN]

\* A tab t with the calls cs, when n tokens are issued and those in e signed out of.
Typed(t, cs, n, e) ==
    /\ t \in Tab
    /\ cs \in [Slot -> Call]
    /\ n \in 0..MaxLogins
    /\ e \subseteq 1..n
    /\ t.token \in 0..n /\ t.stored \in 0..n
    /\ \A c \in Slot : cs[c].token \in 0..n

\* While the stored session is checked there is a token, and nothing is out that clears it.
Checking(t, cs) ==
    /\ \A c \in Slot : cs[c].kind = "restore" =>
          /\ t.initialising
          /\ t.token # NoToken
          /\ cs[c].token # NoToken
          /\ \A d \in Slot : cs[d].kind = "restore" => d = c
    /\ t.initialising => \A c \in Slot : cs[c].kind \in {"free", "restore", "login"}

\* The token a login will bring is nobody's yet.
NewLogin(t, cs, e) ==
    /\ \A c, d \in Slot : cs[c].kind = "login" /\ cs[d].kind = "login" => c = d
    /\ \A c \in Slot : cs[c].kind = "login" /\ cs[c].reply = "ok" =>
          /\ cs[c].token \notin e \cup {NoToken, t.token, t.stored}
          /\ \A d \in Slot : cs[d].kind = "logout" => cs[d].token # cs[c].token

Sound(t, cs, n, e) ==
    /\ Typed(t, cs, n, e)
    /\ Checking(t, cs)
    /\ NewLogin(t, cs, e)
    /\ t.user # NoUser => t.token # NoToken
    /\ t.token \notin e /\ t.stored \notin e

Inv == Sound(tab, calls, issued, ended) /\ version \in Nat
-----------------------------------------------------------------------------
(***************************************************************************)
(* What the steps are made of.                                             *)
(***************************************************************************)
\* Sound does not depend on the data of the calls, nor on their being cancelled.
LEMMA SameCalls ==
    ASSUME NEW t, NEW cs, NEW n, NEW e, Sound(t, cs, n, e), NEW other \in [Slot -> Call],
           \A c \in Slot : /\ other[c].kind = cs[c].kind
                           /\ other[c].token = cs[c].token
                           /\ other[c].reply = cs[c].reply
    PROVE  Sound(t, other, n, e)
BY DEF Sound, Typed, Checking, NewLogin

LEMMA CancelKeeps ==
    ASSUME NEW cs \in [Slot -> Call], NEW kinds
    PROVE  /\ Cancel(cs, kinds) \in [Slot -> Call]
           /\ \A c \in Slot : /\ Cancel(cs, kinds)[c].kind = cs[c].kind
                              /\ Cancel(cs, kinds)[c].token = cs[c].token
                              /\ Cancel(cs, kinds)[c].reply = cs[c].reply
BY DEF Cancel, Call

\* The screen that goes with the tab changes nothing here.
LEMMA BecomesSound ==
    ASSUME NEW t, NEW cs, NEW v, NEW n, NEW e, Sound(t, cs, n, e), Becomes(t, cs, v)
    PROVE  tab' = t /\ Sound(t, calls', n, e)
<1>1. cs \in [Slot -> Call]
  BY DEF Sound, Typed
<1>2. PICK cancelled \in [Slot -> Call] :
          /\ cancelled = Cancel(cs, {"load", "save"})
          /\ \A c \in Slot : /\ cancelled[c].kind = cs[c].kind
                            /\ cancelled[c].token = cs[c].token
                            /\ cancelled[c].reply = cs[c].reply
  BY <1>1, CancelKeeps
<1>3. Sound(t, cancelled, n, e)
  BY <1>2, SameCalls
<1> QED
  BY <1>2, <1>3 DEF Becomes

\* A call that was answered is gone.
LEMMA FreeingSound ==
    ASSUME NEW t, NEW cs, NEW n, NEW e, Sound(t, cs, n, e), NEW c \in Slot
    PROVE  Sound(t, [cs EXCEPT ![c] = Free], n, e)
BY DEF Sound, Typed, Checking, NewLogin, Free, Call, NoToken, NoData

\* A call that is answered otherwise than a login with a new token.
LEMMA ReplySound ==
    ASSUME NEW t, NEW cs, NEW n, NEW e, Sound(t, cs, n, e), NEW c \in Slot, NEW x \in Call,
           x.kind = cs[c].kind, x.token = cs[c].token,
           x.kind # "login" \/ x.reply # "ok"
    PROVE  Sound(t, [cs EXCEPT ![c] = x], n, e)
BY DEF Sound, Typed, Checking, NewLogin

\* clearToken, when the stored session is not being checked.
LEMMA ClearSound ==
    ASSUME ConsoleAssumption, NEW t, NEW cs, NEW n, NEW e, Sound(t, cs, n, e),
           \A c \in Slot : cs[c].kind # "restore"
    PROVE  Sound(ClearToken(t), cs, n, e)
<1>1. /\ ClearToken(t) \in Tab
      /\ ClearToken(t).token = NoToken /\ ClearToken(t).stored = NoToken
      /\ ClearToken(t).user = NoUser /\ ClearToken(t).initialising = t.initialising
  BY DEF Sound, Typed, ClearToken, Tab
<1> QED
  BY <1>1 DEF Sound, Typed, Checking, NewLogin, NoToken

\* A call made with the token of the tab, or without one.
LEMMA SendingSound ==
    ASSUME NEW t, NEW cs, NEW n, NEW e, Sound(t, cs, n, e), NEW c \in Slot, NEW x \in Call,
           ~t.initialising, x.kind \in {"logout", "load", "save"}, x.token \in {t.token, NoToken}
    PROVE  Sound(t, [cs EXCEPT ![c] = x], n, e)
BY DEF Sound, Typed, Checking, NewLogin, NoToken

LEMMA LookupSound ==
    ASSUME ConsoleAssumption, NEW cs, NEW n, NEW e, Sound(tab, cs, n, e), ~tab.initialising
    PROVE  Sound(AfterLookup, cs, n, e)
<1>1. \A c \in Slot : cs[c].kind # "restore"
  BY DEF Sound, Checking
<1> QED
  BY <1>1, ClearSound DEF AfterLookup

\* What a screen or the sign-out button sends.
LEMMA SentSound ==
    ASSUME ConsoleAssumption, NEW cs, NEW n, NEW e, Sound(tab, cs, n, e), ~tab.initialising,
           NEW c \in Slot, NEW kind \in {"logout", "load", "save"}
    PROVE  Sound(AfterLookup, [cs EXCEPT ![c] = Sending(kind)], n, e)
<1>1. /\ Sending(kind) \in Call
      /\ Sending(kind).kind = kind
      /\ Sending(kind).token \in {tab.token, NoToken}
  BY DEF Sound, Typed, Tab, Sending, CurrentToken, Free, Call, NoToken, NoData
<1>2. Sound(tab, [cs EXCEPT ![c] = Sending(kind)], n, e)
  BY <1>1, SendingSound
<1> QED
  BY <1>2, LookupSound
-----------------------------------------------------------------------------
(***************************************************************************)
(* The invariant.                                                          *)
(***************************************************************************)
LEMMA InvInit == Init => Inv
BY ConsoleAssumption
DEF Init, Inv, Sound, Typed, Checking, NewLogin, Tab, Free, Call, NoToken, NoData

\* What every step that takes an answer starts from.
LEMMA AnswerTaken ==
    ASSUME Inv, NEW c \in Slot
    PROVE  Sound(tab, Done(c), issued, ended)
BY FreeingSound DEF Inv, Done

LEMMA VisitKeeps ==
    ASSUME Inv, NEW c \in Slot, NEW atLogin \in BOOLEAN, Visit(c, atLogin)
    PROVE  Inv'
<1>1. version' \in Nat
  <2>1. PICK reached \in SUBSET Slot :
            version' = version + Cardinality({d \in reached : calls[d].kind = "save"
                                                   /\ calls[d].token \in accepted})
    BY DEF Visit
  <2>2. IsFiniteSet({d \in reached : calls[d].kind = "save" /\ calls[d].token \in accepted})
    BY ConsoleAssumption, FS_Subset DEF ConsoleAssumption
  <2> QED
    BY <2>1, <2>2, FS_CardinalityType DEF Inv
<1>2. /\ tab \in Tab /\ issued \in 0..MaxLogins /\ ended \subseteq 1..issued
      /\ tab.stored \in 0..issued /\ tab.stored \notin ended
  BY DEF Inv, Sound, Typed
<1>3. UNCHANGED <<issued, ended>>
  BY DEF Visit
<1>4. CASE tab.stored # NoToken /\ tab.stored \notin lapsed
  <2>1. /\ tab' = [tab EXCEPT !.token = tab.stored, !.user = NoUser, !.initialising = TRUE,
                             !.atLogin = atLogin]
        /\ calls' = [d \in Slot |-> IF d = c THEN [Free EXCEPT !.kind = "restore",
                                                             !.token = tab.stored]
                                    ELSE Free]
    BY <1>4 DEF Visit
  <2>2. /\ tab' \in Tab
        /\ tab'.token = tab.stored /\ tab'.stored = tab.stored
        /\ tab'.user = NoUser /\ tab'.initialising
    BY <1>2, <2>1 DEF Tab
  <2>3. /\ calls' \in [Slot -> Call]
        /\ calls'[c].kind = "restore" /\ calls'[c].token = tab.stored
        /\ \A d \in Slot \ {c} : calls'[d].kind = "free" /\ calls'[d].token = NoToken
    BY <1>2, <2>1 DEF Tab, Free, Call, NoToken, NoData
  <2> QED
    BY <1>1, <1>2, <1>3, <1>4, <2>2, <2>3 DEF Inv, Sound, Typed, Checking, NewLogin, NoToken
<1>5. CASE ~(tab.stored # NoToken /\ tab.stored \notin lapsed)
  <2>1. /\ tab' = [ClearToken([tab EXCEPT !.token = tab.stored, !.user = NoUser,
                                         !.initialising = TRUE, !.atLogin = atLogin])
                     EXCEPT !.initialising = FALSE, !.atLogin = FALSE]
        /\ calls' = [d \in Slot |-> Free]
    BY <1>5 DEF Visit
  <2>2. /\ tab' \in Tab
        /\ tab'.token = NoToken /\ tab'.stored = NoToken
        /\ tab'.user = NoUser /\ ~tab'.initialising
    BY <1>2, <2>1 DEF Tab, ClearToken
  <2>3. /\ calls' \in [Slot -> Call]
        /\ \A d \in Slot : calls'[d].kind = "free" /\ calls'[d].token = NoToken
    BY <2>1 DEF Free, Call, NoToken, NoData
  <2> QED
    BY <1>1, <1>2, <1>3, <2>2, <2>3 DEF Inv, Sound, Typed, Checking, NewLogin, NoToken
<1> QED
  BY <1>4, <1>5

LEMMA SubmitLoginKeeps ==
    ASSUME Inv, NEW c \in Slot, SubmitLogin(c)
    PROVE  Inv'
<1>1. [Free EXCEPT !.kind = "login"] \in Call /\ [Free EXCEPT !.kind = "login"].kind = "login"
      /\ [Free EXCEPT !.kind = "login"].token = NoToken
      /\ [Free EXCEPT !.kind = "login"].reply = "none"
  BY DEF Free, Call, NoToken, NoData
<1> QED
  BY <1>1 DEF SubmitLogin, server, Inv, Sound, Typed, Checking, NewLogin, NoToken

LEMMA RequestKeeps ==
    ASSUME Inv, NEW c \in Slot, PressLogout(c) \/ Fetch(c) \/ Save(c)
    PROVE  Inv'
<1> SUFFICES Sound(tab', calls', issued, ended)
  BY DEF Inv, PressLogout, Fetch, Save, server
<1>1. Sound(tab, calls, issued, ended) /\ ~tab.initialising
  BY DEF Inv, PressLogout, Fetch, Save, Shell
<1>2. calls \in [Slot -> Call]
  BY <1>1 DEF Sound, Typed
<1>3. PICK others \in [Slot -> Call] :
          /\ others = Cancel(calls, {"load"})
          /\ \A d \in Slot : /\ others[d].kind = calls[d].kind
                            /\ others[d].token = calls[d].token
                            /\ others[d].reply = calls[d].reply
  BY <1>2, CancelKeeps
<1>4. Sound(tab, others, issued, ended)
  BY <1>1, <1>3, SameCalls
<1>5. \A kind \in {"logout", "load", "save"} :
          /\ Sound(AfterLookup, [calls EXCEPT ![c] = Sending(kind)], issued, ended)
          /\ Sound(AfterLookup, [others EXCEPT ![c] = Sending(kind)], issued, ended)
  BY <1>1, <1>4, SentSound, ConsoleAssumption
<1>6. CASE PressLogout(c)
  BY <1>5, <1>6, BecomesSound DEF PressLogout
<1>7. CASE Fetch(c)
  BY <1>3, <1>5, <1>7, BecomesSound DEF Fetch
<1>8. CASE Save(c)
  BY <1>5, <1>8, BecomesSound DEF Save
<1> QED
  BY <1>6, <1>7, <1>8

LEMMA ServeKeeps ==
    ASSUME Inv, NEW c \in Slot, Serve(c)
    PROVE  Inv'
<1>1. version' \in Nat /\ UNCHANGED <<tab, issued, ended>>
  BY DEF Serve, Inv
<1>2. calls \in [Slot -> Call]
  BY DEF Inv, Sound, Typed
<1>3. PICK x \in Call :
          /\ calls' = [calls EXCEPT ![c] = x]
          /\ x.kind = calls[c].kind /\ x.token = calls[c].token
          /\ x.kind # "login"
  <2> DEFINE x == [calls[c] EXCEPT
                      !.reply = IF calls[c].token \in accepted THEN "ok" ELSE "unauthorised",
                      !.data = IF calls[c].token \in accepted THEN version' ELSE NoData]
  <2>1. x \in Call /\ x.kind = calls[c].kind /\ x.token = calls[c].token /\ x.kind # "login"
    BY <1>1, <1>2 DEF Serve, Call, NoData
  <2>2. calls' = [calls EXCEPT ![c] = x]
    BY <1>2 DEF Serve, Call
  <2> QED
    BY <2>1, <2>2
<1>4. Sound(tab, calls', issued, ended)
  BY <1>3, ReplySound DEF Inv
<1> QED
  BY <1>1, <1>4 DEF Inv

LEMMA ServeLoginKeeps ==
    ASSUME Inv, NEW c \in Slot, ServeLogin(c)
    PROVE  Inv'
<1>1. /\ UNCHANGED <<tab, ended, version>>
      /\ issued' = issued + 1 /\ issued \in 0..MaxLogins /\ issued < MaxLogins
      /\ calls \in [Slot -> Call]
      /\ tab.token \in 0..issued /\ tab.stored \in 0..issued /\ ended \subseteq 1..issued
      /\ \A d \in Slot : calls[d].token \in 0..issued
  BY DEF ServeLogin, Inv, Sound, Typed
<1>2. /\ calls' \in [Slot -> Call]
      /\ calls'[c].kind = "login" /\ calls'[c].reply = "ok" /\ calls'[c].token = issued + 1
      /\ \A d \in Slot \ {c} : calls'[d] = calls[d]
  BY <1>1, ConsoleAssumption DEF ServeLogin, Call, Token, ConsoleAssumption
<1>3. calls[c].kind = "login"
  BY DEF ServeLogin
<1>4. Typed(tab', calls', issued', ended')
  BY <1>1, <1>2, ConsoleAssumption DEF Inv, Sound, Typed, ConsoleAssumption
<1>5. Checking(tab', calls')
  BY <1>1, <1>2, <1>3 DEF Inv, Sound, Checking
<1>6. NewLogin(tab', calls', ended')
  BY <1>1, <1>2, <1>3, ConsoleAssumption DEF Inv, Sound, NewLogin, NoToken, ConsoleAssumption
<1> QED
  BY <1>1, <1>4, <1>5, <1>6 DEF Inv, Sound

LEMMA BreakKeeps ==
    ASSUME Inv, NEW c \in Slot, Break(c)
    PROVE  Inv'
<1>1. calls \in [Slot -> Call]
  BY DEF Inv, Sound, Typed
<1>2. PICK x \in Call :
          /\ calls' = [calls EXCEPT ![c] = x]
          /\ x.kind = calls[c].kind /\ x.token = calls[c].token /\ x.reply = "failed"
  <2> DEFINE x == [calls[c] EXCEPT !.reply = "failed", !.data = NoData]
  <2>1. /\ x \in Call /\ x.kind = calls[c].kind /\ x.token = calls[c].token
        /\ x.reply = "failed"
    BY <1>1 DEF Call, NoData
  <2>2. calls' = [calls EXCEPT ![c] = x]
    BY <1>1 DEF Break, Call
  <2> QED
    BY <2>1, <2>2
<1>3. Sound(tab, calls', issued, ended)
  BY <1>2, ReplySound DEF Inv
<1> QED
  BY <1>3 DEF Break, Inv, server

LEMMA RestoreReturnsKeeps ==
    ASSUME Inv, NEW c \in Slot, RestoreReturns(c)
    PROVE  Inv'
<1> DEFINE t == IF calls[c].reply = "ok" THEN [tab EXCEPT !.user = OwnerOf[calls[c].token]]
                ELSE ClearToken(tab)
           u == [t EXCEPT !.initialising = FALSE, !.atLogin = FALSE]
<1>1. Sound(tab, Done(c), issued, ended)
  BY AnswerTaken
<1>2. /\ calls \in [Slot -> Call] /\ calls[c].token \in Token
      /\ tab.initialising /\ tab.token # NoToken
      /\ \A d \in Slot : calls[d].kind = "restore" => d = c
  BY DEF RestoreReturns, Inv, Sound, Typed, Checking, Call, NoToken
<1>3. /\ Done(c) \in [Slot -> Call]
      /\ \A d \in Slot : Done(c)[d].kind # "restore"
  BY <1>1, <1>2 DEF Done, Free, Sound, Typed
<1>4. Sound(t, Done(c), issued, ended)
  <2>1. CASE calls[c].reply = "ok"
    <3>1. OwnerOf[calls[c].token] \in User
      BY <1>2, ConsoleAssumption DEF ConsoleAssumption, Token
    <3>2. /\ t \in Tab /\ t.token = tab.token /\ t.stored = tab.stored
          /\ t.initialising = tab.initialising
      BY <1>1, <2>1, <3>1 DEF Sound, Typed, Tab
    <3> HIDE DEF t
    <3> QED
      BY <1>1, <1>2, <3>2 DEF Sound, Typed, Checking, NewLogin
  <2>2. CASE calls[c].reply # "ok"
    BY <1>1, <1>3, <2>2, ClearSound, ConsoleAssumption
  <2> QED
    BY <2>1, <2>2
<1>5. t \in Tab
  BY <1>4 DEF Sound, Typed
<1> HIDE DEF t
<1>6. /\ u \in Tab /\ u.token = t.token /\ u.stored = t.stored /\ u.user = t.user
      /\ ~u.initialising
  BY <1>5 DEF Tab
<1> HIDE DEF u
<1>7. Sound(u, Done(c), issued, ended)
  BY <1>3, <1>4, <1>6 DEF Sound, Typed, Checking, NewLogin
<1>8. Becomes(u, Done(c), view)
  BY DEF RestoreReturns, Checked, t, u
<1>9. tab' = u /\ Sound(u, calls', issued, ended)
  BY <1>7, <1>8, BecomesSound
<1> QED
  BY <1>9 DEF RestoreReturns, Inv, server

LEMMA LoginReturnsKeeps ==
    ASSUME Inv, NEW c \in Slot, LoginReturns(c)
    PROVE  Inv'
<1> DEFINE new == calls[c].token
           t == [SetToken(tab, new) EXCEPT !.atLogin = FALSE]
<1>1. Sound(tab, Done(c), issued, ended)
  BY AnswerTaken
<1>2. CASE calls[c].reply # "ok"
  BY <1>1, <1>2 DEF LoginReturns, Inv, server
<1>3. CASE calls[c].reply = "ok"
  <2>1. /\ calls \in [Slot -> Call] /\ new \in Token /\ new \in 0..issued
        /\ new \notin ended
        /\ \A d \in Slot : calls[d].kind = "login" => d = c
    BY <1>3 DEF LoginReturns, Inv, Sound, Typed, NewLogin, Call, NoToken
  <2>2. OwnerOf[new] \in User
    BY <2>1, ConsoleAssumption DEF ConsoleAssumption, Token
  <2>3. /\ t \in Tab /\ t.token = new /\ t.stored = new
        /\ t.initialising = tab.initialising
    BY <1>1, <2>1, <2>2 DEF Sound, Typed, Tab, SetToken
  <2>4. /\ Done(c) \in [Slot -> Call]
        /\ \A d \in Slot : Done(c)[d].kind # "login"
    BY <1>1, <2>1 DEF Done, Free, Sound, Typed
  <2>5. Becomes(t, Done(c), view)
    BY <1>3 DEF LoginReturns
  <2> HIDE DEF t
  <2>6. new # NoToken
    BY <2>1 DEF Token, NoToken
  <2>7. Sound(t, Done(c), issued, ended)
    BY <1>1, <2>1, <2>3, <2>4, <2>6 DEF Sound, Typed, Checking, NewLogin
  <2>8. tab' = t /\ Sound(t, calls', issued, ended)
    BY <2>5, <2>7, BecomesSound
  <2> QED
    BY <2>8 DEF LoginReturns, Inv, server
<1> QED
  BY <1>2, <1>3

LEMMA LogoutReturnsKeeps ==
    ASSUME Inv, NEW c \in Slot, LogoutReturns(c)
    PROVE  Inv'
<1> DEFINE t == ClearToken(tab)
           e == ended \cup ({calls[c].token} \ {NoToken})
<1>1. Sound(tab, Done(c), issued, ended)
  BY AnswerTaken
<1>2. /\ calls \in [Slot -> Call] /\ calls[c].kind = "logout"
      /\ \A d \in Slot : calls[d].kind # "restore"
  BY DEF LogoutReturns, Inv, Sound, Typed, Checking
<1>3. /\ Done(c) \in [Slot -> Call]
      /\ \A d \in Slot : Done(c)[d].kind # "restore"
  BY <1>1, <1>2 DEF Done, Free, Sound, Typed
<1>4. Sound(t, Done(c), issued, ended)
  BY <1>1, <1>3, ClearSound, ConsoleAssumption
<1>5. /\ t.token = NoToken /\ t.stored = NoToken
  BY <1>1 DEF Sound, Typed, Tab, ClearToken
<1>6. e \subseteq 1..issued
  <2>1. /\ calls[c].token \in 0..issued /\ issued \in Nat
        /\ ended \subseteq 1..issued
    BY ConsoleAssumption DEF Inv, Sound, Typed, ConsoleAssumption
  <2>2. calls[c].token # NoToken => calls[c].token \in 1..issued
    BY <2>1 DEF NoToken
  <2> QED
    BY <2>1, <2>2
<1>7. \A d \in Slot : Done(c)[d].kind = "login" /\ Done(c)[d].reply = "ok"
                         => Done(c)[d].token # calls[c].token
  BY <1>2 DEF Done, Free, Inv, Sound, NewLogin
<1>8. Becomes(t, Done(c), view)
  BY DEF LogoutReturns, SignedOut
<1>9. ended' = e
  BY DEF LogoutReturns
<1> HIDE DEF t
<1>10. NoToken \notin e
  BY <1>6 DEF NoToken
<1>11. Sound(t, Done(c), issued, e)
  BY <1>4, <1>5, <1>6, <1>7, <1>10 DEF Sound, Typed, Checking, NewLogin
<1>12. tab' = t /\ Sound(t, calls', issued, e)
  BY <1>8, <1>11, BecomesSound
<1> QED
  BY <1>9, <1>12 DEF LogoutReturns, Inv, server

\* A 401 that a load or a save brings.
LEMMA SessionEndSound ==
    ASSUME Inv, NEW c \in Slot, calls[c].kind \in {"load", "save"}
    PROVE  Sound(IF EndsSession(calls[c].reply) THEN ClearToken(tab) ELSE tab, Done(c),
                 issued, ended)
<1>1. Sound(tab, Done(c), issued, ended)
  BY AnswerTaken
<1>2. ~tab.initialising
  BY DEF Inv, Sound, Checking
<1>3. \A d \in Slot : Done(c)[d].kind # "restore"
  BY <1>1, <1>2 DEF Sound, Checking
<1> QED
  BY <1>1, <1>3, ClearSound, ConsoleAssumption

LEMMA LoadReturnsKeeps ==
    ASSUME Inv, NEW c \in Slot, LoadReturns(c)
    PROVE  Inv'
<1> DEFINE t == IF EndsSession(calls[c].reply) THEN ClearToken(tab) ELSE tab
<1>1. Sound(t, Done(c), issued, ended)
  BY SessionEndSound DEF LoadReturns
<1>2. PICK v : Becomes(t, Done(c), v)
  BY DEF LoadReturns
<1> HIDE DEF t
<1>3. tab' = t /\ Sound(t, calls', issued, ended)
  BY <1>1, <1>2, BecomesSound
<1> QED
  BY <1>3 DEF LoadReturns, Inv, server

LEMMA SaveReturnsKeeps ==
    ASSUME Inv, NEW c \in Slot, SaveReturns(c)
    PROVE  Inv'
<1> DEFINE t == IF EndsSession(calls[c].reply) THEN ClearToken(tab) ELSE tab
<1>1. CASE calls[c].reply = "ok" /\ ~calls[c].cancelled
  <2>1. Sound(tab, calls, issued, ended) /\ ~tab.initialising /\ calls \in [Slot -> Call]
    BY DEF SaveReturns, Inv, Sound, Typed, Checking
  <2>2. PICK others \in [Slot -> Call] :
            /\ others = Cancel(calls, {"load"})
            /\ \A d \in Slot : /\ others[d].kind = calls[d].kind
                              /\ others[d].token = calls[d].token
                              /\ others[d].reply = calls[d].reply
    BY <2>1, CancelKeeps
  <2>3. Sound(tab, others, issued, ended)
    BY <2>1, <2>2, SameCalls
  <2>4. Sound(AfterLookup, [others EXCEPT ![c] = Sending("load")], issued, ended)
    BY <2>1, <2>3, SentSound, ConsoleAssumption
  <2>5. PICK v : Becomes(AfterLookup, [others EXCEPT ![c] = Sending("load")], v)
    BY <1>1, <2>2 DEF SaveReturns
  <2>6. tab' = AfterLookup /\ Sound(AfterLookup, calls', issued, ended)
    BY <2>4, <2>5, BecomesSound
  <2> QED
    BY <2>6 DEF SaveReturns, Inv, server
<1>2. CASE ~(calls[c].reply = "ok" /\ ~calls[c].cancelled)
  <2>1. Sound(t, Done(c), issued, ended)
    BY SessionEndSound DEF SaveReturns
  <2>2. Becomes(t, Done(c), view)
    BY <1>2 DEF SaveReturns
  <2> HIDE DEF t
  <2>3. tab' = t /\ Sound(t, calls', issued, ended)
    BY <2>1, <2>2, BecomesSound
  <2> QED
    BY <2>3 DEF SaveReturns, Inv, server
<1> QED
  BY <1>1, <1>2

LEMMA InvHolds == Spec => []Inv
<1>1. Inv /\ [Next]_vars => Inv'
  <2> SUFFICES ASSUME Inv, [Next]_vars PROVE Inv'
    OBVIOUS
  <2>1. CASE UNCHANGED vars
    BY <2>1 DEF vars, Inv
  <2>2. ASSUME NEW c \in Slot, \E atLogin \in BOOLEAN : Visit(c, atLogin) PROVE Inv'
    BY <2>2, VisitKeeps
  <2>3. ASSUME NEW c \in Slot, SubmitLogin(c) PROVE Inv'
    BY <2>3, SubmitLoginKeeps
  <2>4. ASSUME NEW c \in Slot, PressLogout(c) \/ Fetch(c) \/ Save(c) PROVE Inv'
    BY <2>4, RequestKeeps
  <2>5. ASSUME NEW c \in Slot, Serve(c) \/ ServeLogin(c) \/ Break(c) PROVE Inv'
    BY <2>5, ServeKeeps, ServeLoginKeeps, BreakKeeps
  <2>6. ASSUME NEW c \in Slot, Returns(c) PROVE Inv'
    BY <2>6, RestoreReturnsKeeps, LoginReturnsKeeps, LogoutReturnsKeeps, LoadReturnsKeeps,
       SaveReturnsKeeps
    DEF Returns
  <2>7. ASSUME NEW t \in Token, Withdraw(t) \/ Lapse(t) PROVE Inv'
    BY <2>7 DEF Withdraw, Lapse, Inv
  <2> QED
    BY <2>1, <2>2, <2>3, <2>4, <2>5, <2>6, <2>7 DEF Next
<1> QED
  BY <1>1, InvInit, PTL DEF Spec

\* No page is shown to a user without a session behind it, whatever was in flight when the
\* session ended.
THEOREM NoPageWithoutSession == Spec => []NoShellWithoutSession
<1>1. Inv => NoShellWithoutSession
  BY DEF Inv, Sound, NoShellWithoutSession
<1> QED
  BY <1>1, InvHolds, PTL

\* The token of a session that was signed out is neither held nor stored again, whichever
\* answers come late and however often the page is loaded.
THEOREM SignOutIsFinal == Spec => []SignedOutStaysOut
<1>1. Inv => SignedOutStaysOut
  BY DEF Inv, Sound, SignedOutStaysOut
<1> QED
  BY <1>1, InvHolds, PTL
-----------------------------------------------------------------------------
(***************************************************************************)
(* A screen shows what it was told was saved.  An answer that is still     *)
(* wanted was given after the last change that was reported, because the   *)
(* report cancels every load that is out; that needs no more of the        *)
(* session than the types above.                                           *)
(***************************************************************************)
View == [open : BOOLEAN, loading : BOOLEAN, failed : BOOLEAN, data : Nat \cup {NoData}]

\* A load that brings nothing older than version s, or a save of a version up to n.
Recent(x, s, n) ==
    /\ x.kind = "load" /\ x.reply = "ok" /\ ~x.cancelled => x.data >= s
    /\ x.kind = "save" /\ x.reply = "ok" => x.data \in Nat /\ x.data <= n

\* A screen v with the calls cs, when change s was reported and n changes were made.
UpToDate(v, cs, s, n) ==
    /\ v \in View
    /\ v.open /\ ~v.loading /\ ~v.failed => v.data >= s
    /\ \A c \in Slot : Recent(cs[c], s, n)

ScreenInv ==
    /\ Inv
    /\ saved \in Nat /\ saved <= version
    /\ UpToDate(view, calls, saved, version)

LEMMA CallsTyped ==
    ASSUME Inv
    PROVE  calls \in [Slot -> Call] /\ version \in Nat
BY DEF Inv, Sound, Typed

\* Cancelling calls asks less of them.
LEMMA CancelRecent ==
    ASSUME NEW cs \in [Slot -> Call], NEW kinds, NEW s, NEW n, NEW c \in Slot,
           Recent(cs[c], s, n)
    PROVE  /\ Recent(Cancel(cs, kinds)[c], s, n)
           /\ cs[c].kind \in kinds => Cancel(cs, kinds)[c].cancelled
<1>1. CASE cs[c].kind \in kinds
  <2>1. Cancel(cs, kinds)[c] = [cs[c] EXCEPT !.cancelled = TRUE]
    BY <1>1 DEF Cancel
  <2> QED
    BY <2>1 DEF Recent, Call
<1>2. CASE cs[c].kind \notin kinds
  BY <1>2 DEF Cancel
<1> QED
  BY <1>1, <1>2

\* The calls stay recent when the screen goes, and a screen that is gone shows nothing.
LEMMA BecomesUpToDate ==
    ASSUME NEW cs \in [Slot -> Call], NEW t, NEW v, NEW s, NEW n, UpToDate(v, cs, s, n),
           Becomes(t, cs, v)
    PROVE  UpToDate(view', calls', s, n)
<1>1. Closed \in View /\ ~Closed.open
  BY DEF Closed, View
<1>2. \A c \in Slot : Recent(Cancel(cs, {"load", "save"})[c], s, n)
  BY CancelRecent DEF UpToDate
<1>3. \/ view' = Closed /\ calls' = Cancel(cs, {"load", "save"})
      \/ view' = v /\ calls' = cs
  BY DEF Becomes
<1> QED
  BY <1>1, <1>2, <1>3 DEF UpToDate

\* One call takes another's place.
LEMMA OneCall ==
    ASSUME NEW cs \in [Slot -> Call], NEW c \in Slot, NEW x \in Call, NEW s, NEW n,
           Recent(x, s, n), \A d \in Slot : Recent(cs[d], s, n)
    PROVE  /\ [cs EXCEPT ![c] = x] \in [Slot -> Call]
           /\ \A d \in Slot : Recent([cs EXCEPT ![c] = x][d], s, n)
OBVIOUS

\* What is sent has no answer yet, and what is done with is free.
LEMMA NewCalls ==
    ASSUME Inv, NEW kind \in {"logout", "load", "save"}, NEW s, NEW n
    PROVE  /\ Sending(kind) \in Call /\ Recent(Sending(kind), s, n)
           /\ Free \in Call /\ Recent(Free, s, n)
<1>1. /\ Sending(kind) \in Call
      /\ Sending(kind).reply = "none"
  BY DEF Inv, Sound, Typed, Tab, Sending, CurrentToken, Free, Call, NoToken, NoData
<1>2. Free \in Call /\ Free.reply = "none"
  BY DEF Free, Call, NoToken, NoData
<1> QED
  BY <1>1, <1>2 DEF Recent

\* The calls after another one was sent.
LEMMA SendRecent ==
    ASSUME Inv, NEW kind \in {"logout", "load", "save"}, NEW s, NEW n, NEW c \in Slot,
           NEW cs \in [Slot -> Call], \A d \in Slot : Recent(cs[d], s, n)
    PROVE  /\ [cs EXCEPT ![c] = Sending(kind)] \in [Slot -> Call]
           /\ \A d \in Slot : Recent([cs EXCEPT ![c] = Sending(kind)][d], s, n)
<1>1. PICK x \in Call : x = Sending(kind) /\ Recent(x, s, n)
  BY NewCalls
<1> QED
  BY <1>1, OneCall

\* The calls after one of them was done with.
LEMMA DoneRecent ==
    ASSUME ScreenInv, NEW c \in Slot
    PROVE  /\ Done(c) \in [Slot -> Call]
           /\ \A d \in Slot : Recent(Done(c)[d], saved, version)
BY CallsTyped, NewCalls, OneCall DEF ScreenInv, UpToDate, Done

LEMMA InitScreen == Init => ScreenInv
<1> SUFFICES ASSUME Init PROVE ScreenInv
  OBVIOUS
<1>1. Closed \in View /\ ~Closed.open
  BY DEF Closed, View
<1>2. Free.reply = "none"
  BY DEF Free
<1> QED
  BY <1>1, <1>2, InvInit DEF Init, ScreenInv, UpToDate, Recent
-----------------------------------------------------------------------------
LEMMA VisitScreen ==
    ASSUME ScreenInv, NEW c \in Slot, NEW atLogin \in BOOLEAN, Visit(c, atLogin)
    PROVE  ScreenInv'
<1>1. Inv'
  BY VisitKeeps DEF ScreenInv
<1>2. version' \in Nat /\ version' >= version
  <2>1. PICK reached \in SUBSET Slot :
            version' = version + Cardinality({d \in reached : calls[d].kind = "save"
                                                   /\ calls[d].token \in accepted})
    BY DEF Visit
  <2>2. IsFiniteSet({d \in reached : calls[d].kind = "save" /\ calls[d].token \in accepted})
    BY ConsoleAssumption, FS_Subset DEF ConsoleAssumption
  <2>3. version \in Nat
    BY DEF ScreenInv, Inv
  <2> QED
    BY <2>1, <2>2, <2>3, FS_CardinalityType
<1>3. view' = Closed /\ UNCHANGED saved
  BY DEF Visit
<1>4. \A d \in Slot : calls'[d].reply = "none"
  <2>1. Free.reply = "none" /\ [Free EXCEPT !.kind = "restore", !.token = tab.stored].reply = "none"
    BY DEF Free
  <2> QED
    BY <2>1 DEF Visit
<1>5. UpToDate(view', calls', saved', version')
  BY <1>3, <1>4 DEF UpToDate, Recent, Closed, View
<1>6. saved' \in Nat /\ saved' <= version'
  BY <1>2, <1>3 DEF ScreenInv, Inv
<1> QED
  BY <1>1, <1>5, <1>6 DEF ScreenInv

LEMMA SubmitLoginScreen ==
    ASSUME ScreenInv, NEW c \in Slot, SubmitLogin(c)
    PROVE  ScreenInv'
<1>1. [Free EXCEPT !.kind = "login"] \in Call /\ [Free EXCEPT !.kind = "login"].kind = "login"
  BY DEF Free, Call, NoToken, NoData
<1>2. Recent([Free EXCEPT !.kind = "login"], saved, version)
  BY <1>1 DEF Recent
<1>3. \A d \in Slot : Recent(calls'[d], saved, version)
  BY <1>1, <1>2, CallsTyped, OneCall DEF SubmitLogin, ScreenInv, UpToDate
<1> QED
  BY <1>3, SubmitLoginKeeps DEF SubmitLogin, server, ScreenInv, UpToDate

\* Signing out, opening a screen and saving.
LEMMA RequestScreen ==
    ASSUME ScreenInv, NEW c \in Slot, PressLogout(c) \/ Fetch(c) \/ Save(c)
    PROVE  ScreenInv'
<1>0. Inv
  BY DEF ScreenInv
<1>1. Inv'
  BY RequestKeeps DEF ScreenInv
<1>2. UNCHANGED <<saved, version>>
  BY DEF PressLogout, Fetch, Save, server
<1>3. calls \in [Slot -> Call] /\ \A d \in Slot : Recent(calls[d], saved, version)
  BY CallsTyped DEF ScreenInv, UpToDate
<1>4. PICK others \in [Slot -> Call] :
          others = Cancel(calls, {"load"}) /\ \A d \in Slot : Recent(others[d], saved, version)
  BY <1>3, CancelKeeps, CancelRecent
<1>5. UpToDate(view', calls', saved, version)
  <2>1. CASE PressLogout(c)
    <3>0. PICK cs : cs = [calls EXCEPT ![c] = Sending("logout")]
      OBVIOUS
    <3>1. cs \in [Slot -> Call] /\ \A d \in Slot : Recent(cs[d], saved, version)
      BY <1>0, <1>3, <3>0, SendRecent
    <3> QED
      BY <2>1, <3>0, <3>1, BecomesUpToDate DEF PressLogout, ScreenInv, UpToDate
  <2>2. CASE Fetch(c)
    <3>0. PICK cs : cs = [others EXCEPT ![c] = Sending("load")]
      OBVIOUS
    <3>1. cs \in [Slot -> Call] /\ \A d \in Slot : Recent(cs[d], saved, version)
      BY <1>0, <1>4, <3>0, SendRecent
    <3>2. PICK v : v = [view EXCEPT !.open = TRUE, !.loading = TRUE, !.failed = FALSE]
      OBVIOUS
    <3>3. v \in View /\ v.loading
      BY <3>2 DEF ScreenInv, UpToDate, View
    <3>4. UpToDate(v, cs, saved, version)
      BY <3>1, <3>3 DEF UpToDate
    <3>5. Becomes(AfterLookup, cs, v)
      BY <1>4, <2>2, <3>0, <3>2 DEF Fetch
    <3> QED
      BY <3>1, <3>4, <3>5, BecomesUpToDate
  <2>3. CASE Save(c)
    <3>0. PICK cs : cs = [calls EXCEPT ![c] = Sending("save")]
      OBVIOUS
    <3>1. cs \in [Slot -> Call] /\ \A d \in Slot : Recent(cs[d], saved, version)
      BY <1>0, <1>3, <3>0, SendRecent
    <3> QED
      BY <2>3, <3>0, <3>1, BecomesUpToDate DEF Save, ScreenInv, UpToDate
  <2> QED
    BY <2>1, <2>2, <2>3
<1> QED
  BY <1>1, <1>2, <1>5 DEF ScreenInv

\* A load is answered with the version there is, a save with the one it made.
LEMMA ServeScreen ==
    ASSUME ScreenInv, NEW c \in Slot, Serve(c)
    PROVE  ScreenInv'
<1>1. Inv'
  BY ServeKeeps DEF ScreenInv
<1>2. /\ version \in Nat /\ version' \in {version, version + 1} /\ version' \in Nat
      /\ UNCHANGED <<view, saved>> /\ saved \in Nat /\ saved <= version
  BY DEF Serve, ScreenInv, Inv
<1>3. calls \in [Slot -> Call]
  BY CallsTyped DEF ScreenInv
<1>4. PICK x : x = [calls[c] EXCEPT
                      !.reply = IF calls[c].token \in accepted THEN "ok" ELSE "unauthorised",
                      !.data = IF calls[c].token \in accepted THEN version' ELSE NoData]
  OBVIOUS
<1>5. /\ x \in Call
      /\ x.reply = IF calls[c].token \in accepted THEN "ok" ELSE "unauthorised"
      /\ x.data = IF calls[c].token \in accepted THEN version' ELSE NoData
  BY <1>2, <1>3, <1>4 DEF Call, NoData
<1>6. Recent(x, saved, version')
  BY <1>2, <1>5 DEF Recent
<1>7. calls' = [calls EXCEPT ![c] = x]
  BY <1>3, <1>4 DEF Serve, Call
<1>8. \A d \in Slot : Recent(calls[d], saved, version')
  BY <1>2 DEF ScreenInv, UpToDate, Recent
<1>9. \A d \in Slot : Recent(calls'[d], saved, version')
  BY <1>3, <1>5, <1>6, <1>7, <1>8, OneCall
<1> QED
  BY <1>1, <1>2, <1>9 DEF ScreenInv, UpToDate

\* A login is answered, or a call breaks: no load or save gets an answer.
LEMMA OtherReplyScreen ==
    ASSUME ScreenInv, NEW c \in Slot, ServeLogin(c) \/ Break(c)
    PROVE  ScreenInv'
<1>1. Inv'
  BY ServeLoginKeeps, BreakKeeps DEF ScreenInv
<1>2. UNCHANGED <<view, saved, version>>
  BY DEF ServeLogin, Break, server
<1>3. calls \in [Slot -> Call]
  BY CallsTyped DEF ScreenInv
<1>4. /\ \A d \in Slot \ {c} : calls'[d] = calls[d]
      /\ calls'[c].kind = "login" \/ calls'[c].reply = "failed"
  BY <1>3 DEF ServeLogin, Break, Call
<1>5. \A d \in Slot : Recent(calls'[d], saved, version)
  BY <1>4 DEF ScreenInv, UpToDate, Recent
<1> QED
  BY <1>1, <1>2, <1>5 DEF ScreenInv, UpToDate

\* The answers that tell the screen nothing.
LEMMA SessionReturnsScreen ==
    ASSUME ScreenInv, NEW c \in Slot,
           RestoreReturns(c) \/ LoginReturns(c) \/ LogoutReturns(c)
    PROVE  ScreenInv'
<1>1. Inv'
  BY RestoreReturnsKeeps, LoginReturnsKeeps, LogoutReturnsKeeps DEF ScreenInv
<1>2. UNCHANGED <<saved, version>>
  BY DEF RestoreReturns, LoginReturns, LogoutReturns, server
<1>3. Done(c) \in [Slot -> Call] /\ UpToDate(view, Done(c), saved, version)
  BY DoneRecent DEF ScreenInv, UpToDate
<1>4. \/ \E t : Becomes(t, Done(c), view)
      \/ calls' = Done(c) /\ UNCHANGED view
  <2>1. CASE RestoreReturns(c)
    BY <2>1 DEF RestoreReturns
  <2>2. CASE LoginReturns(c)
    BY <2>2 DEF LoginReturns
  <2>3. CASE LogoutReturns(c)
    BY <2>3 DEF LogoutReturns
  <2> QED
    BY <2>1, <2>2, <2>3
<1>5. UpToDate(view', calls', saved, version)
  BY <1>3, <1>4, BecomesUpToDate
<1> QED
  BY <1>1, <1>2, <1>5 DEF ScreenInv

LEMMA LoadReturnsScreen ==
    ASSUME ScreenInv, NEW c \in Slot, LoadReturns(c)
    PROVE  ScreenInv'
<1>1. Inv'
  BY LoadReturnsKeeps DEF ScreenInv
<1>2. UNCHANGED <<saved, version>>
  BY DEF LoadReturns, server
<1>3. PICK call \in Call : call = calls[c]
  BY CallsTyped DEF ScreenInv
<1>4. call.kind = "load" /\ Recent(call, saved, version)
  BY <1>3 DEF LoadReturns, ScreenInv, UpToDate
<1>5. PICK seen : seen = IF call.cancelled THEN view
                         ELSE [view EXCEPT !.loading = FALSE, !.data = call.data,
                                           !.failed = call.reply # "ok"]
  OBVIOUS
<1>6. view \in View
  BY DEF ScreenInv, UpToDate
<1>7. UpToDate(seen, Done(c), saved, version)
  <2>1. CASE call.cancelled
    BY <1>5, <2>1, DoneRecent DEF ScreenInv, UpToDate
  <2>2. CASE ~call.cancelled
    <3>1. /\ seen \in View
          /\ seen.data = call.data /\ (seen.failed <=> call.reply # "ok")
      BY <1>3, <1>5, <1>6, <2>2 DEF View, Call
    <3> QED
      BY <1>4, <2>2, <3>1, DoneRecent DEF UpToDate, Recent
  <2> QED
    BY <2>1, <2>2
<1>8. UpToDate(view, Done(c), saved, version)
  BY DoneRecent DEF ScreenInv, UpToDate
<1>9. \E t : Becomes(t, Done(c), seen) \/ Becomes(t, Done(c), view)
  BY <1>3, <1>5 DEF LoadReturns, Wanted
<1>10. UpToDate(view', calls', saved, version)
  BY <1>7, <1>8, <1>9, BecomesUpToDate, DoneRecent
<1> QED
  BY <1>1, <1>2, <1>10 DEF ScreenInv

\* A change is reported: the loads that are out are cancelled, and a new one goes out.
LEMMA SaveReturnsScreen ==
    ASSUME ScreenInv, NEW c \in Slot, SaveReturns(c)
    PROVE  ScreenInv'
<1>1. Inv'
  BY SaveReturnsKeeps DEF ScreenInv
<1>2. UNCHANGED version
  BY DEF SaveReturns, server
<1>3. PICK call \in Call : call = calls[c]
  BY CallsTyped DEF ScreenInv
<1>4. calls \in [Slot -> Call] /\ \A d \in Slot : Recent(calls[d], saved, version)
  BY CallsTyped DEF ScreenInv, UpToDate
<1>5. CASE call.reply = "ok" /\ ~call.cancelled
  <2>1. PICK s : s = call.data
    OBVIOUS
  <2>2. s \in Nat /\ s <= version
    BY <1>3, <1>4, <1>5, <2>1 DEF SaveReturns, Recent
  <2>3. PICK others \in [Slot -> Call] :
            /\ others = Cancel(calls, {"load"})
            /\ \A d \in Slot : /\ Recent(others[d], saved, version)
                               /\ calls[d].kind = "load" => others[d].cancelled
                               /\ others[d].kind = calls[d].kind
    <3>1. Cancel(calls, {"load"}) \in [Slot -> Call]
      BY <1>4, CancelKeeps
    <3>2. \A d \in Slot : Cancel(calls, {"load"})[d].kind = calls[d].kind
      BY <1>4, CancelKeeps
    <3>3. ASSUME NEW d \in Slot
          PROVE  /\ Recent(Cancel(calls, {"load"})[d], saved, version)
                 /\ calls[d].kind \in {"load"} => Cancel(calls, {"load"})[d].cancelled
      <4>1. Recent(calls[d], saved, version)
        BY <1>4
      <4> QED
        BY <1>4, <4>1, CancelRecent
    <3> QED
      BY <3>1, <3>2, <3>3
  <2>4. \A d \in Slot : Recent(others[d], s, version)
    BY <2>3 DEF Recent
  <2>5. PICK cs : cs = [others EXCEPT ![c] = Sending("load")]
    OBVIOUS
  <2>6. cs \in [Slot -> Call] /\ \A d \in Slot : Recent(cs[d], s, version)
    <3>1. Inv /\ others \in [Slot -> Call]
      BY <2>3 DEF ScreenInv
    <3>2. /\ [others EXCEPT ![c] = Sending("load")] \in [Slot -> Call]
          /\ \A d \in Slot : Recent([others EXCEPT ![c] = Sending("load")][d], s, version)
      BY <2>4, <3>1, SendRecent
    <3> QED
      BY <2>5, <3>2
  <2>7. PICK v : v = [view EXCEPT !.loading = TRUE, !.failed = FALSE]
    OBVIOUS
  <2>8. v \in View /\ v.loading
    BY <2>7 DEF ScreenInv, UpToDate, View
  <2>9. UpToDate(v, cs, s, version)
    BY <2>8, <2>6 DEF UpToDate
  <2>10. Becomes(AfterLookup, cs, v) /\ saved' = s
    BY <1>3, <1>5, <2>1, <2>3, <2>5, <2>7 DEF SaveReturns
  <2>11. UpToDate(view', calls', s, version)
    BY <2>9, <2>10, <2>6, BecomesUpToDate
  <2> QED
    BY <1>1, <1>2, <2>2, <2>10, <2>11 DEF ScreenInv
<1>6. CASE ~(call.reply = "ok" /\ ~call.cancelled)
  <2>1. UNCHANGED saved /\ \E t : Becomes(t, Done(c), view)
    BY <1>3, <1>6 DEF SaveReturns
  <2>2. Done(c) \in [Slot -> Call] /\ UpToDate(view, Done(c), saved, version)
    BY DoneRecent DEF ScreenInv, UpToDate
  <2>3. UpToDate(view', calls', saved, version)
    BY <2>1, <2>2, BecomesUpToDate
  <2> QED
    BY <1>1, <1>2, <2>1, <2>3 DEF ScreenInv
<1> QED
  BY <1>5, <1>6

LEMMA ScreenStep ==
    ASSUME ScreenInv, [Next]_vars
    PROVE  ScreenInv'
<1>1. CASE UNCHANGED vars
  BY <1>1 DEF vars, ScreenInv, Inv, UpToDate
<1>2. ASSUME NEW c \in Slot, \E atLogin \in BOOLEAN : Visit(c, atLogin) PROVE ScreenInv'
  BY <1>2, VisitScreen
<1>3. ASSUME NEW c \in Slot, SubmitLogin(c) PROVE ScreenInv'
  BY <1>3, SubmitLoginScreen
<1>4. ASSUME NEW c \in Slot, PressLogout(c) \/ Fetch(c) \/ Save(c) PROVE ScreenInv'
  BY <1>4, RequestScreen
<1>5. ASSUME NEW c \in Slot, Serve(c) \/ ServeLogin(c) \/ Break(c) PROVE ScreenInv'
  BY <1>5, ServeScreen, OtherReplyScreen
<1>6. ASSUME NEW c \in Slot, Returns(c) PROVE ScreenInv'
  BY <1>6, SessionReturnsScreen, LoadReturnsScreen, SaveReturnsScreen DEF Returns
<1>7. ASSUME NEW t \in Token, Withdraw(t) \/ Lapse(t) PROVE ScreenInv'
  BY <1>7 DEF Withdraw, Lapse, ScreenInv, Inv, UpToDate
<1> QED
  BY <1>1, <1>2, <1>3, <1>4, <1>5, <1>6, <1>7 DEF Next

\* A screen at rest shows the change it was told was saved, whatever the order in which
\* loads from before and after it are answered, and however many are out (lib/use-api.ts).
THEOREM NoStaleScreen == Spec => []ScreensShowWhatWasSaved
<1>1. ScreenInv /\ [Next]_vars => ScreenInv'
  BY ScreenStep
<1>2. ScreenInv => ScreensShowWhatWasSaved
  BY DEF ScreenInv, UpToDate, ScreensShowWhatWasSaved
<1> QED
  BY <1>1, <1>2, InitScreen, PTL DEF Spec
=============================================================================
