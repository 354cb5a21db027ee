------------------------------- MODULE Console -------------------------------
(***************************************************************************)
(* The session of one browser tab: lib/auth.tsx, lib/api-client.ts,        *)
(* lib/token-store.ts and lib/use-api.ts of the web console, with the      *)
(* screens that save something and read it again.                          *)
(*                                                                         *)
(* JavaScript runs one task at a time, so a handler up to its await is one *)
(* step and what follows the await is another.  In between, the server     *)
(* answers in any order or not at all, the token runs out, and the user    *)
(* signs in, signs out, saves, or reloads the page.                        *)
(***************************************************************************)
EXTENDS Integers, FiniteSets

CONSTANTS
    MaxLogins,  \* how many access tokens the server issues
    User,
    OwnerOf,    \* OwnerOf[t]: the user of the t-th token
    Slot,       \* room for the calls in flight
    NoUser,
    MaxSaves,   \* how often the resource on the screen is changed
    MaxVisits   \* how often the page is loaded

ASSUME ConsoleAssumption ==
    /\ MaxLogins \in Nat
    /\ OwnerOf \in [1..MaxLogins -> User]
    /\ NoUser \notin User
    /\ IsFiniteSet(Slot)
    /\ MaxSaves \in Nat /\ MaxVisits \in Nat \ {0}

VARIABLES
    tab,        \* what the tab holds: the token and its copy in sessionStorage,
                \* the user shown, whether the stored session is still being checked
                \* and whether that happens on the login page
    view,       \* the screen's useApi: its data, whether it is loading or failed
    calls,      \* the calls of fetch the tab waits for
    accepted,   \* the tokens the server accepts
    issued,     \* how many tokens it issued
    lapsed,     \* the tokens whose expiry has passed on the clock of the browser
    version,    \* the resource behind the screen: how often it was changed
    saved,      \* auxiliary: the version of the last change reported to the screen
    ended,      \* auxiliary: the tokens the user signed out of
    visits

vars == <<tab, view, calls, accepted, issued, lapsed, version, saved, ended, visits>>
server == <<accepted, issued, lapsed, version>>

\* A token is the number of its login.
Token == 1..MaxLogins
NoToken == 0
NoData == -1
Closed == [open |-> FALSE, loading |-> FALSE, failed |-> FALSE, data |-> NoData]

Free == [kind |-> "free", token |-> NoToken, reply |-> "none", data |-> NoData,
         cancelled |-> FALSE]

Call == [kind : {"free", "restore", "login", "logout", "load", "save"},
         token : Token \cup {NoToken}, reply : {"none", "ok", "unauthorised", "failed"},
         data : Nat \cup {NoData}, cancelled : BOOLEAN]

TypeOK ==
    /\ tab \in [token : Token \cup {NoToken}, stored : Token \cup {NoToken},
                user : User \cup {NoUser}, initialising : BOOLEAN, atLogin : BOOLEAN]
    /\ view \in [open : BOOLEAN, loading : BOOLEAN, failed : BOOLEAN,
                 data : (0..MaxSaves) \cup {NoData}]
    /\ calls \in [Slot -> Call]
    /\ issued \in 0..MaxLogins
    /\ accepted \subseteq 1..issued /\ lapsed \subseteq 1..issued \ accepted
    /\ version \in 0..MaxSaves /\ saved \in 0..MaxSaves
    /\ ended \subseteq 1..issued
    /\ visits \in 0..MaxVisits
-----------------------------------------------------------------------------
\* What is on the screen: AppShell shows a page to a user, the login page its form to
\* nobody; both wait for the stored session, but the form can be used meanwhile.
Shell == ~tab.initialising /\ tab.user # NoUser
Form == IF tab.initialising THEN tab.atLogin ELSE tab.user = NoUser

\* getToken: a token known to be dead is not sent.
CurrentToken(t) == IF t.token \in lapsed THEN NoToken ELSE t.token

\* Variants of clearToken that tell no listener, and that forget sessionStorage.
ClearUnnoticed(t) == [t EXCEPT !.token = NoToken, !.stored = NoToken]
ClearMemory(t) == [t EXCEPT !.token = NoToken, !.user = NoUser]

\* clearToken, and the listener of AuthProvider it notifies.
ClearToken(t) == [t EXCEPT !.token = NoToken, !.stored = NoToken, !.user = NoUser]

\* setToken, and the setUser that follows it in login.
SetToken(t, new) == [t EXCEPT !.token = new, !.stored = new, !.user = OwnerOf[new]]

\* What a screen waits for is nobody's when the screen is gone, and the cleanup of the
\* effect of useApi cancels its load when the effect runs again.
Cancel(cs, kinds) ==
    [c \in Slot |-> IF cs[c].kind \in kinds THEN [cs[c] EXCEPT !.cancelled = TRUE] ELSE cs[c]]

\* The tab becomes t while calls become cs: the screen stays if its shell does.
Becomes(t, cs, v) ==
    /\ tab' = t
    /\ IF t.user = NoUser \/ t.initialising
       THEN view' = Closed /\ calls' = Cancel(cs, {"load", "save"})
       ELSE view' = v /\ calls' = cs

\* The header of a call is made of the token at that moment; without one, or with one
\* that has run out, the call is sent without.
Sending(kind) == [Free EXCEPT !.kind = kind, !.token = CurrentToken(tab)]

\* The tab after a call looked for its token.
AfterLookup == IF tab.token \in lapsed THEN ClearToken(tab) ELSE tab
-----------------------------------------------------------------------------
\* A tab without a stored session.
Init ==
    /\ tab = [token |-> NoToken, stored |-> NoToken, user |-> NoUser,
              initialising |-> FALSE, atLogin |-> FALSE]
    /\ view = Closed
    /\ calls = [c \in Slot |-> Free]
    /\ accepted = {} /\ issued = 0 /\ lapsed = {}
    /\ version = 0 /\ saved = 0
    /\ ended = {}
    /\ visits = 0

\* The page is loaded again: memory is lost with everything in flight, of which the
\* server may still see the sign-outs and the changes; a login lost this way leaves at
\* most a token that nobody holds.  hydrate reads sessionStorage, and restore
\* asks whose token it is, if there is one.
Visit(c, atLogin) ==
    LET pending == {d \in Slot : calls[d].kind \in {"logout", "save"} /\ calls[d].reply = "none"}
        fresh == [tab EXCEPT !.token = tab.stored, !.user = NoUser, !.initialising = TRUE,
                             !.atLogin = atLogin]
        usable == tab.stored # NoToken /\ tab.stored \notin lapsed
    IN  /\ visits < MaxVisits
        /\ visits' = visits + 1
        /\ \E reached \in SUBSET pending :
              /\ accepted' = accepted \ {calls[d].token : d \in {e \in reached : calls[e].kind = "logout"}}
              /\ version' = version + Cardinality({d \in reached : calls[d].kind = "save"
                                                        /\ calls[d].token \in accepted})
        /\ view' = Closed
        /\ IF usable
           THEN /\ tab' = fresh
                /\ calls' = [d \in Slot |-> IF d = c THEN [Free EXCEPT !.kind = "restore",
                                                                       !.token = tab.stored]
                                            ELSE Free]
           ELSE /\ tab' = [ClearToken(fresh) EXCEPT !.initialising = FALSE, !.atLogin = FALSE]
                /\ calls' = [d \in Slot |-> Free]
        /\ UNCHANGED <<issued, lapsed, saved, ended>>

\* The form is submitted; its button is disabled until the answer.
SubmitLogin(c) ==
    /\ Form
    /\ \A d \in Slot : calls[d].kind # "login"
    /\ calls[c] = Free
    /\ issued < MaxLogins
    /\ calls' = [calls EXCEPT ![c] = [Free EXCEPT !.kind = "login"]]
    /\ UNCHANGED <<tab, view, server, saved, ended, visits>>

\* "Sign out", which can be pressed again while the first call is out.
PressLogout(c) ==
    /\ Shell
    /\ calls[c] = Free
    /\ Becomes(AfterLookup, [calls EXCEPT ![c] = Sending("logout")], view)
    /\ UNCHANGED <<server, saved, ended, visits>>

\* The effect of useApi runs again: a screen opens, its path or its nonce changes.
\* What it was waiting for is cancelled.
Fetch(c) ==
    /\ Shell
    /\ calls[c] = Free
    /\ Becomes(AfterLookup, [Cancel(calls, {"load"}) EXCEPT ![c] = Sending("load")],
               [view EXCEPT !.open = TRUE, !.loading = TRUE, !.failed = FALSE])
    /\ UNCHANGED <<server, saved, ended, visits>>

\* A control sends a change of the resource (patch of status-control.tsx).
Save(c) ==
    /\ Shell
    /\ view.open
    /\ \A d \in Slot : calls[d].kind # "save"
    /\ calls[c] = Free
    /\ version < MaxSaves
    /\ Becomes(AfterLookup, [calls EXCEPT ![c] = Sending("save")], view)
    /\ UNCHANGED <<server, saved, ended, visits>>
-----------------------------------------------------------------------------
\* The server handles an authenticated call: the token it was sent with decides.
Serve(c) ==
    LET call == calls[c]
        welcome == call.token \in accepted
    IN  /\ call.kind \in {"restore", "logout", "load", "save"}
        /\ call.reply = "none"
        /\ version' = IF welcome /\ call.kind = "save" THEN version + 1 ELSE version
        /\ accepted' = IF call.kind = "logout" THEN accepted \ {call.token} ELSE accepted
        /\ calls' = [calls EXCEPT ![c].reply = IF welcome THEN "ok" ELSE "unauthorised",
                                  ![c].data = IF welcome THEN version' ELSE NoData]
        /\ UNCHANGED <<tab, view, issued, lapsed, saved, ended, visits>>

\* A login is accepted with a new token.
ServeLogin(c) ==
    /\ calls[c].kind = "login"
    /\ calls[c].reply = "none"
    /\ issued < MaxLogins
    /\ issued' = issued + 1
    /\ accepted' = accepted \cup {issued'}
    /\ calls' = [calls EXCEPT ![c].reply = "ok", ![c].token = issued']
    /\ UNCHANGED <<tab, view, lapsed, version, saved, ended, visits>>

\* The network fails before or after the server, or the server answers an error that
\* is not a 401; to the login form a 401 is such an error as well.
Break(c) ==
    /\ calls[c].kind # "free"
    /\ calls[c].reply # "failed"
    /\ calls' = [calls EXCEPT ![c].reply = "failed", ![c].data = NoData]
    /\ UNCHANGED <<tab, view, server, saved, ended, visits>>

\* The token runs out or is revoked elsewhere; later its expiry passes here too.
Withdraw(t) ==
    /\ accepted' = accepted \ {t}
    /\ UNCHANGED <<tab, view, calls, issued, lapsed, version, saved, ended, visits>>

Lapse(t) ==
    /\ t \in 1..issued \ accepted
    /\ lapsed' = lapsed \cup {t}
    /\ UNCHANGED <<tab, view, calls, accepted, issued, version, saved, ended, visits>>
-----------------------------------------------------------------------------
\* A variant of apiFetch that ends the session for nothing.
NeverEnds(reply) == FALSE

\* apiFetch clears the token, whichever it is by now, on a 401.
EndsSession(reply) == reply = "unauthorised"

Done(c) == [calls EXCEPT ![c] = Free]

\* The finally of restore.
Checked(t, reply) == [t EXCEPT !.initialising = FALSE, !.atLogin = FALSE]

RestoreReturns(c) ==
    LET call == calls[c]
    IN  /\ call.kind = "restore"
        /\ call.reply # "none"
        /\ Becomes(Checked(IF call.reply = "ok" THEN [tab EXCEPT !.user = OwnerOf[call.token]]
                           ELSE ClearToken(tab), call.reply), Done(c), view)
        /\ UNCHANGED <<server, saved, ended, visits>>

LoginReturns(c) ==
    LET call == calls[c]
    IN  /\ call.kind = "login"
        /\ call.reply # "none"
        /\ IF call.reply = "ok"
           THEN Becomes([SetToken(tab, call.token) EXCEPT !.atLogin = FALSE], Done(c), view)
           ELSE calls' = Done(c) /\ UNCHANGED <<tab, view>>
        /\ UNCHANGED <<server, saved, ended, visits>>

\* A variant of logout that keeps the session when the call failed.
SignedOutIfOk(t, reply) == IF reply = "ok" THEN ClearToken(t) ELSE t

\* The finally of logout.
SignedOut(t, reply) == ClearToken(t)

LogoutReturns(c) ==
    LET call == calls[c]
    IN  /\ call.kind = "logout"
        /\ call.reply # "none"
        /\ Becomes(SignedOut(tab, call.reply), Done(c), view)
        /\ ended' = ended \cup ({call.token} \ {NoToken})
        /\ UNCHANGED <<server, saved, visits>>

\* A variant of the hook that takes the answer to whatever was asked.
TakesAny(call) == TRUE

Wanted(call) == ~call.cancelled

LoadReturns(c) ==
    LET call == calls[c]
        after == IF EndsSession(call.reply) THEN ClearToken(tab) ELSE tab
        seen == IF ~Wanted(call) THEN view
                ELSE [view EXCEPT !.loading = FALSE, !.data = call.data,
                                  !.failed = call.reply # "ok"]
    IN  /\ call.kind = "load"
        /\ call.reply # "none"
        /\ Becomes(after, Done(c), IF view.open THEN seen ELSE view)
        /\ UNCHANGED <<server, saved, ended, visits>>

\* patch: what was saved is read again (onChanged), in the place of the call.  (The effect
\* that does so is a task of its own, which React runs right after; it is one step here.)
SaveReturns(c) ==
    LET call == calls[c]
        after == IF EndsSession(call.reply) THEN ClearToken(tab) ELSE tab
        reread == call.reply = "ok" /\ ~call.cancelled
    IN  /\ call.kind = "save"
        /\ call.reply # "none"
        /\ IF reread
           THEN /\ Becomes(AfterLookup, [Cancel(calls, {"load"}) EXCEPT ![c] = Sending("load")],
                           [view EXCEPT !.loading = TRUE, !.failed = FALSE])
                /\ saved' = call.data
           ELSE Becomes(after, Done(c), view) /\ UNCHANGED saved
        /\ UNCHANGED <<server, ended, visits>>

Returns(c) ==
    \/ RestoreReturns(c) \/ LoginReturns(c) \/ LogoutReturns(c)
    \/ LoadReturns(c) \/ SaveReturns(c)

Next ==
    \/ \E c \in Slot :
        \/ \E atLogin \in BOOLEAN : Visit(c, atLogin)
        \/ SubmitLogin(c) \/ PressLogout(c) \/ Fetch(c) \/ Save(c)
        \/ Serve(c) \/ ServeLogin(c) \/ Break(c) \/ Returns(c)
    \/ \E t \in Token : Withdraw(t) \/ Lapse(t)

Spec == Init /\ [][Next]_vars

Replied(c) == Serve(c) \/ ServeLogin(c) \/ Break(c)

\* A call is answered or breaks, and the browser runs the handler that waits for it.
FairSpec ==
    /\ Spec
    /\ \A c \in Slot : WF_vars(calls[c].reply = "none" /\ Replied(c)) /\ WF_vars(Returns(c))
-----------------------------------------------------------------------------
\* "When a 401 clears the token mid-request, the user is dropped here too": no page is
\* shown to a user without a session behind it.
NoShellWithoutSession == tab.user # NoUser => tab.token # NoToken

\* Whatever was in flight, and however often the page is loaded: the token of a
\* session that was signed out is neither held nor kept in sessionStorage.
SignedOutStaysOut == {tab.token, tab.stored} \cap ended = {}

\* A screen at rest shows the change it was told was saved, although loads from before
\* and after the change may be answered in any order.
ScreensShowWhatWasSaved ==
    (view.open /\ ~view.loading /\ ~view.failed) => view.data >= saved

\* A sign-out ends the session although the call may fail, unless the page is loaded
\* again before.
SigningOutEnds ==
    \A t \in Token, n \in 0..MaxVisits :
        (visits = n /\ \E c \in Slot : calls[c].kind = "logout" /\ calls[c].token = t)
            ~> (tab.token # t \/ visits # n)

\* Screens go on loading and hear an answer now and again.
Heard == \E c \in Slot : calls[c].reply # "failed" /\ LoadReturns(c)

\* Then a session the server no longer accepts does not stay on the screen.
RejectedSessionsEnd ==
    []<><<Heard>>_vars =>
        \A t \in Token : (tab.token = t /\ t \in 1..issued \ accepted) ~> (tab.token # t)
=============================================================================
