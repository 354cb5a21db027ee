------------------------------ MODULE Accounts ------------------------------
(***************************************************************************)
(* The accounts: registration and login (services/auth.py and              *)
(* endpoints/auth.py), administration and password change                  *)
(* (endpoints/users.py), the caller's resolution (api/deps.py) and the     *)
(* create_admin script.                                                    *)
(*                                                                         *)
(* A request reads the caller's row when it is authenticated, works on     *)
(* that object and on a target it loads next, and flushes the columns that *)
(* changed.  Nothing is locked before the flush.                           *)
(***************************************************************************)
EXTENDS Naturals, FiniteSets

CONSTANTS
    User,           \* the account ids, each given out at most once
    Request,        \* the requests, each handled once
    Spelling,       \* what may be typed as an email or as a username
    Username,       \* the spellings that are typed as usernames
    Fold,           \* Fold[s]: the spelling lower() makes of s
    Password,       \* the passwords
    MaxGeneration   \* bound: how often the hashing parameters are raised

ASSUME ConstantsAssumption ==
    /\ Fold \in [Spelling -> Spelling]
    /\ \A s \in Spelling : Fold[Fold[s]] = Fold[s]
    /\ Username \subseteq Spelling
    /\ User # {} /\ Username # {} /\ Password # {}
    /\ MaxGeneration \in Nat

VARIABLES
    known,      \* the accounts there are; none is ever deleted
    row,        \* row[u]: the committed row of u
    generation, \* the hashing parameters in force
    req         \* req[r]: what the session of request r holds

vars == <<known, row, generation, req>>
-----------------------------------------------------------------------------
\* UserRole, ranked as in core/authz.py.
Rank == [viewer |-> 0, analyst |-> 10, admin |-> 20]
Role == DOMAIN Rank

HasAtLeast(role, minimum) == Rank[role] >= Rank[minimum]

\* models/user.py; a hash is the password it accepts and the parameters it was
\* made with.
Row == [email : Spelling, username : Username, password : Password,
        made : 0..MaxGeneration, role : Role, active : BOOLEAN]

\* UserUpdate: Kept where the payload leaves the field unset.
Kept == "kept"
Grant == [role : Role \cup {Kept}, active : {"on", "off", Kept}]

Session == [phase : {"idle", "checked", "authenticated", "loaded", "done"},
            op : {"none", "register", "admin", "login", "grant", "password"},
            actor : User, target : User, email : Spelling, username : Username,
            password : Password, grant : Grant, caller : Row, loaded : Row, object : Row]

TypeOK ==
    /\ known \subseteq User
    /\ row \in [User -> Row]
    /\ generation \in 0..MaxGeneration
    /\ req \in [Request -> Session]

NoGrant == [role |-> Kept, active |-> Kept]

AnyOf(S) == CHOOSE x \in S : TRUE

NoRow == [email |-> AnyOf(Spelling), username |-> AnyOf(Username),
          password |-> AnyOf(Password), made |-> 0, role |-> "viewer", active |-> TRUE]

EmptySession(phase) ==
    [phase |-> phase, op |-> "none", actor |-> AnyOf(User), target |-> AnyOf(User),
     email |-> AnyOf(Spelling), username |-> AnyOf(Username), password |-> AnyOf(Password),
     grant |-> NoGrant, caller |-> NoRow, loaded |-> NoRow, object |-> NoRow]

Init ==
    /\ known = {}
    /\ row = [u \in User |-> NoRow]
    /\ generation = 0
    /\ req = [r \in Request |-> EmptySession("idle")]
-----------------------------------------------------------------------------
Finish(r) == req' = [req EXCEPT ![r] = EmptySession("done")]

\* get_by_email and get_by_username: both compare lower-cased.
WithEmail(s) == {u \in known : Fold[row[u].email] = Fold[s]}
WithUsername(s) == {u \in known : Fold[row[u].username] = Fold[s]}

\* The address is stored lower-cased.
Stored(s) == Fold[s]

\* UNIQUE (email) and UNIQUE (username) compare what is stored.
Unique(email, username) ==
    \A u \in known : row[u].email # email /\ row[u].username # username

\* The ORM's flush: the columns that differ from the loaded ones are written.
Flush(current, loaded, object) ==
    [column \in DOMAIN current |->
        IF object[column] # loaded[column] THEN object[column] ELSE current[column]]

\* update_user: the fields the payload names, set on the target.
Granted(target, grant) ==
    [target EXCEPT !.role = IF grant.role = Kept THEN @ ELSE grant.role,
                   !.active = IF grant.active = Kept THEN @ ELSE grant.active = "on"]

\* A variant of update_user that refuses the change of one's own role only.
OnesOwnRole(actor, target, loaded, grant) ==
    target = actor /\ grant.role # Kept /\ grant.role # loaded.role

\* update_user: "You cannot change your own role", "... deactivate your own account".
OnesOwn(actor, target, loaded, grant) ==
    /\ target = actor
    /\ \/ grant.role # Kept /\ grant.role # loaded.role
       \/ grant.active = "off"

\* authenticate: a hash made with older parameters is made again.
Rehashed(object, password) ==
    IF object.made # generation
    THEN [object EXCEPT !.password = password, !.made = generation] ELSE object
-----------------------------------------------------------------------------
\* register up to its INSERT: refused (409) when either name is taken, and failing
\* (500) when a lookup finds more than one account.
CheckRegistration(r, email, username, password) ==
    /\ req[r].phase = "idle"
    /\ IF WithEmail(email) = {} /\ WithUsername(username) = {}
       THEN req' = [req EXCEPT ![r] = [EmptySession("checked") EXCEPT
                      !.op = "register", !.email = email, !.username = username,
                      !.password = password]]
       ELSE Finish(r)
    /\ UNCHANGED <<known, row, generation>>

\* create_admin for an unknown address; it looks at no username.
CheckAdmin(r, email, username, password) ==
    /\ req[r].phase = "idle"
    /\ WithEmail(email) = {}
    /\ req' = [req EXCEPT ![r] = [EmptySession("checked") EXCEPT
                 !.op = "admin", !.email = email, !.username = username,
                 !.password = password]]
    /\ UNCHANGED <<known, row, generation>>

\* The INSERT and the commit of either.
Insert(r, u) ==
    LET s == req[r]
    IN  /\ s.phase = "checked"
        /\ u \notin known
        /\ Unique(Stored(s.email), s.username)
        /\ known' = known \cup {u}
        /\ row' = [row EXCEPT ![u] =
                     [email |-> Stored(s.email), username |-> s.username,
                      password |-> s.password, made |-> generation,
                      role |-> IF s.op = "admin" THEN "admin" ELSE "viewer", active |-> TRUE]]
        /\ Finish(r)
        /\ UNCHANGED generation

\* The names were taken since the check: IntegrityError, which nothing catches.
InsertRefused(r) ==
    /\ req[r].phase = "checked"
    /\ ~Unique(Stored(req[r].email), req[r].username)
    /\ Finish(r)
    /\ UNCHANGED <<known, row, generation>>

\* create_admin for an address that has an account: promote and reactivate it.
LoadPromotion(r, u) ==
    /\ req[r].phase = "idle"
    /\ u \in known
    /\ ~(row[u].role = "admin" /\ row[u].active)
    /\ req' = [req EXCEPT ![r] = [EmptySession("loaded") EXCEPT
                 !.op = "admin", !.actor = u, !.target = u, !.loaded = row[u],
                 !.object = [row[u] EXCEPT !.role = "admin", !.active = TRUE]]]
    /\ UNCHANGED <<known, row, generation>>

\* authenticate: the account behind an address and a password.  An unknown
\* address, a wrong password or a deactivated account is a failure (401).
LoadLogin(r, u, password) ==
    /\ req[r].phase = "idle"
    /\ u \in known
    /\ WithEmail(row[u].email) = {u}
    /\ IF row[u].password = password /\ row[u].active
       THEN req' = [req EXCEPT ![r] = [EmptySession("loaded") EXCEPT
                      !.op = "login", !.actor = u, !.target = u, !.loaded = row[u],
                      !.object = Rehashed(row[u], password)]]
       ELSE Finish(r)
    /\ UNCHANGED <<known, row, generation>>

\* get_current_user and require_role: the caller's row as stored now decides.
Authenticate(r, u, op, target, grant) ==
    /\ req[r].phase = "idle"
    /\ u \in known
    /\ target \in known
    /\ IF row[u].active /\ (op = "grant" => HasAtLeast(row[u].role, "admin"))
       THEN req' = [req EXCEPT ![r] = [EmptySession("authenticated") EXCEPT
                      !.op = op, !.actor = u, !.target = target, !.grant = grant,
                      !.caller = row[u]]]
       ELSE Finish(r)
    /\ UNCHANGED <<known, row, generation>>

\* update_user: session.get of the target (of one's own account, the object the
\* authentication read), the refusal of a change to oneself, the assignments.
LoadGrant(r) ==
    LET s == req[r]
        loaded == IF s.target = s.actor THEN s.caller ELSE row[s.target]
    IN  /\ s.phase = "authenticated"
        /\ s.op = "grant"
        /\ IF s.grant = NoGrant \/ OnesOwn(s.actor, s.target, loaded, s.grant)
           THEN Finish(r)
           ELSE req' = [req EXCEPT ![r] = [s EXCEPT
                          !.phase = "loaded", !.loaded = loaded,
                          !.object = Granted(loaded, s.grant)]]
        /\ UNCHANGED <<known, row, generation>>

\* change_password: refused (400) unless the current password verifies.
ChangePassword(r, current, new) ==
    LET s == req[r]
    IN  /\ s.phase = "authenticated"
        /\ s.op = "password"
        /\ IF s.caller.password = current
           THEN req' = [req EXCEPT ![r] = [s EXCEPT
                          !.phase = "loaded", !.loaded = s.caller,
                          !.object = [s.caller EXCEPT !.password = new, !.made = generation]]]
           ELSE Finish(r)
        /\ UNCHANGED <<known, row, generation>>

\* The hashes are salted: a hash that was assigned differs from the loaded one
\* even if the password is the same.
Hashed(s) == s.op = "password" \/ s.object.made # s.loaded.made

\* The flush and the commit of every request that works on a loaded account.
Commit(r) ==
    LET s == req[r]
        merged == Flush(row[s.target], s.loaded, s.object)
    IN  /\ s.phase = "loaded"
        /\ row' = [row EXCEPT ![s.target] =
                     IF Hashed(s) THEN [merged EXCEPT !.password = s.object.password,
                                                      !.made = s.object.made]
                     ELSE merged]
        /\ Finish(r)
        /\ UNCHANGED <<known, generation>>

\* A release raises the hashing parameters.
RaiseParameters ==
    /\ generation < MaxGeneration
    /\ generation' = generation + 1
    /\ UNCHANGED <<known, row, req>>

Next ==
    \/ RaiseParameters
    \/ \E r \in Request :
         \/ \E email \in Spelling, username \in Username, password \in Password :
              \/ CheckRegistration(r, email, username, password)
              \/ CheckAdmin(r, email, username, password)
         \/ InsertRefused(r)
         \/ LoadGrant(r)
         \/ Commit(r)
         \/ \E current, new \in Password : ChangePassword(r, current, new)
         \/ \E u \in User :
              \/ Insert(r, u)
              \/ LoadPromotion(r, u)
              \/ \E password \in Password : LoadLogin(r, u, password)
              \/ Authenticate(r, u, "password", u, NoGrant)
              \/ \E target \in User, grant \in Grant : Authenticate(r, u, "grant", target, grant)

Spec == Init /\ [][Next]_vars
-----------------------------------------------------------------------------
(***************************************************************************)
(* Properties.                                                             *)
(***************************************************************************)
Rights(u) == <<row[u].role, row[u].active>>

\* An account's rights change only by create_admin or by a grant that another
\* account, an administrator when it was authenticated, makes of just these
\* rights.  Nobody gets back what was taken from them, by a login, a password
\* change or an update of their own account that was under way meanwhile.
RightsAreGrantedByOthers ==
    [][\A u \in known : Rights(u)' # Rights(u) =>
          \E r \in Request :
             LET s == req[r]
             IN  /\ s.phase = "loaded" /\ req'[r].phase = "done" /\ s.target = u
                 /\ \/ s.op = "admin"
                    \/ /\ s.op = "grant" /\ s.actor # u
                       /\ s.caller.role = "admin"
                       /\ row'[u].role \in {row[u].role, s.grant.role}
                       /\ row'[u].active # row[u].active => s.grant.active # Kept]_vars
=============================================================================
