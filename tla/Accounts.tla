------------------------------ MODULE Accounts ------------------------------
(***************************************************************************)
(* Who may do what on the sync server: users, web sessions, device tokens, *)
(* password resets and invites (store.rs, admin/*.rs, http.rs issue_token).*)
(*                                                                         *)
(* A request is a record with a program counter naming the statement it    *)
(* stands before.  Every statement is a transaction of its own; what a     *)
(* handler read in one statement may be out of date in the next.  Hashing  *)
(* a password sits between the two, so the windows are long.               *)
(***************************************************************************)
EXTENDS Naturals, FiniteSets

CONSTANTS
    Requests,      \* handlers that may run at once
    MaxRequests,   \* bound on the requests of a behaviour
    MaxUsers,      \* bound on accounts ever created
    Handles, Operator, Member,      \* names; the two accounts there are at first
    Emails, Blank, NoEmail,         \* addresses; the empty text; NULL
    NoUser, NoHandle, None,
    OpenSignup     \* BOOKLET_ALLOW_REGISTRATION

ASSUME HandlesAssumption ==
    Operator \in Handles /\ Member \in Handles /\ Operator # Member /\ NoHandle \notin Handles
ASSUME EmailsAssumption ==
    Emails # {} /\ Blank \notin Emails /\ NoEmail \notin Emails /\ Blank # NoEmail
ASSUME BoundsAssumption == MaxRequests \in Nat /\ MaxUsers \in Nat /\ MaxUsers >= 2
ASSUME OpenAssumption == OpenSignup \in BOOLEAN

Ids == 1..MaxUsers

\* Rows are numbered by the request that inserts them; those of Init have 0 and 1.
Numbers == 0..(MaxRequests + 1)

\* A row of users.  The password is not kept: a check compares with the stored
\* hash at the moment the row is read.
User == [handle : Handles, email : Emails \cup {Blank, NoEmail}, admin : BOOLEAN, disabled : BOOLEAN]

ASSUME NoUserAssumption == NoUser \notin User

\* A live credential: a row of admin_sessions, or of devices with no revoked_at.
\* cut is history: how often the account's credentials had been severed when the
\* check that justified this one was made; raced, that they were severed since,
\* but before the row was written.
Credential == [n : Numbers, user : Ids, cut : Nat, raced : BOOLEAN]

\* Rows of password_resets and invites; an expired one is as good as used.
Token == [n : Numbers, owner : Ids, email : Emails \cup {Blank, NoEmail}, live : BOOLEAN]

PortalOps   == {"own_password", "own_email", "logout"}
OperatorOps == {"create_user", "disable_user", "enable_user", "rename_user", "toggle_admin",
                "delete_user", "set_password", "set_email", "send_invite",
                "revoke_device", "delete_device"}
PublicOps   == {"login", "issue_token", "forgot", "reset", "signup"}
Ops == PortalOps \cup OperatorOps \cup PublicOps

Steps == {"extract", "account", "insert", "find", "insert_reset", "consume_reset", "password",
          "consume_invite", "create", "email", "disable", "enable", "rename", "read_admin",
          "admin", "impact", "delete", "insert_invite", "end_device", "logout"}

VARIABLES
    users,      \* id -> row, or NoUser
    nextId,     \* the sequence behind users.id
    sessions,   \* live rows of admin_sessions
    devices,    \* live rows of devices
    resets, invites,
    req,        \* the handlers in flight, or None
    left,       \* requests still to come
    cuts,       \* history: how often an account's credentials were severed
    spent       \* history: what each reset or invite brought about, by its number

tables == <<users, nextId, sessions, devices, resets, invites>>
vars == <<users, nextId, sessions, devices, resets, invites, req, left, cuts, spent>>

\* sess: the cookie's session; actor: whose it is; id: the account, device or token
\* the request is about; found: the flag an earlier statement read.  History: cut as
\* above, asAdmin that the actor was an operator when the session was looked up,
\* renamed that the account changed its name since its handle was read.
Request == [op : Ops, pc : Steps, n : Numbers, sess : Numbers, actor : Ids \cup {None},
            id : Nat, handle : Handles \cup {Blank, NoHandle}, email : Emails \cup {Blank, NoEmail},
            cut : Nat, found : BOOLEAN, asAdmin : BOOLEAN, renamed : BOOLEAN]

TypeOK ==
    /\ users \in [Ids -> User \cup {NoUser}]
    /\ nextId \in 1..(MaxUsers + 1)
    /\ sessions \subseteq Credential /\ devices \subseteq Credential
    /\ resets \subseteq Token /\ invites \subseteq Token
    /\ req \in [Requests -> Request \cup {None}]
    /\ left \in 0..MaxRequests
    /\ cuts \in [Ids -> Nat]
    /\ spent \in [Numbers -> [resets : Nat, invites : Nat]]

----------------------------------------------------------------------------
(* The tables *)

Exists(u) == u \in Ids /\ users[u] # NoUser
ByHandle(h) == {u \in Ids : Exists(u) /\ users[u].handle = h}
ByEmail(e) == {u \in Ids : Exists(u) /\ users[u].email = e}

\* A server with an operator and a member who have signed in on the web and on a
\* device, one outstanding reset and one outstanding invite.
Init ==
    /\ users = [u \in Ids |->
          IF u = 1 THEN [handle |-> Operator, email |-> NoEmail, admin |-> TRUE, disabled |-> FALSE]
          ELSE IF u = 2 THEN [handle |-> Member, email |-> CHOOSE e \in Emails : TRUE,
                              admin |-> FALSE, disabled |-> FALSE]
          ELSE NoUser]
    /\ nextId = 3
    /\ sessions = {[n |-> u - 1, user |-> u, cut |-> 0, raced |-> FALSE] : u \in {1, 2}}
    /\ devices = {[n |-> 1, user |-> 2, cut |-> 0, raced |-> FALSE]}
    /\ resets = {[n |-> 1, owner |-> 2, email |-> NoEmail, live |-> TRUE]}
    /\ invites = {[n |-> 1, owner |-> 1, email |-> CHOOSE e \in Emails : TRUE, live |-> TRUE]}
    /\ req = [r \in Requests |-> None]
    /\ left = MaxRequests
    /\ cuts = [u \in Ids |-> 0]
    /\ spent = [n \in Numbers |-> [resets |-> 0, invites |-> 0]]

At(r, pc) == req[r] # None /\ req[r].pc = pc
Goto(r, pc) == req' = [req EXCEPT ![r].pc = pc]
Answer(r) == req' = [req EXCEPT ![r] = None]

----------------------------------------------------------------------------
(* Requests arrive *)

\* What may be typed for a handle.
Typed == Handles \cup {Blank}

Fresh(op, pc) ==
    [op |-> op, pc |-> pc, n |-> MaxRequests - left + 2, sess |-> 0, actor |-> None, id |-> 0,
     handle |-> NoHandle, email |-> NoEmail, cut |-> 0, found |-> FALSE, asAdmin |-> FALSE,
     renamed |-> FALSE]

Arrive(r, q) ==
    /\ req[r] = None /\ left > 0
    /\ left' = left - 1
    /\ req' = [req EXCEPT ![r] = q]
    /\ UNCHANGED <<tables, cuts, spent>>

\* POST /login, POST /auth/token.
SignIn(r) == \E op \in {"login", "issue_token"}, h \in Handles :
    Arrive(r, [Fresh(op, "account") EXCEPT !.handle = h])

Forgot(r) == \E e \in Emails : Arrive(r, [Fresh("forgot", "find") EXCEPT !.email = e])

Reset(r) == \E t \in resets : Arrive(r, [Fresh("reset", "consume_reset") EXCEPT !.id = t.n])

\* With an invite, or while sign-up is open.
Signup(r) == \E h \in Typed :
    \/ \E t \in invites : Arrive(r, [Fresh("signup", "consume_invite") EXCEPT !.handle = h, !.id = t.n])
    \/ \E e \in Emails \cup {NoEmail} : OpenSignup /\ h # Blank /\ Arrive(r, [Fresh("signup", "create") EXCEPT !.handle = h, !.email = e])

Portal(r) == \E s \in sessions :
    \/ \E op \in {"own_password", "logout"} : Arrive(r, [Fresh(op, "extract") EXCEPT !.sess = s.n])
    \/ \E e \in Emails \cup {Blank} :
          Arrive(r, [Fresh("own_email", "extract") EXCEPT !.sess = s.n, !.email = e])

\* The operator's forms: about an account, with a handle or an address typed in.
\* They are sent from a page that an operator was shown, who may be one no longer
\* when the request is handled.  A POST that anyone else makes up is refused by the
\* same extractor whatever it asks for; toggle_admin stands for all of them.
OperatorSessions == {s \in sessions : users[s.user].admin}

Operate(r) == \E u \in {i \in Ids : Exists(i)} :
    \/ \E s \in sessions :
          Arrive(r, [Fresh("toggle_admin", "extract") EXCEPT !.sess = s.n, !.id = u])
    \/ \E s \in OperatorSessions, op \in {"disable_user", "enable_user", "set_password"} :
          Arrive(r, [Fresh(op, "extract") EXCEPT !.sess = s.n, !.id = u])
    \/ \E s \in OperatorSessions, h \in Handles :
          Arrive(r, [Fresh("delete_user", "extract") EXCEPT !.sess = s.n, !.id = u, !.handle = h])
    \/ \E s \in OperatorSessions, h \in Typed :
          Arrive(r, [Fresh("rename_user", "extract") EXCEPT !.sess = s.n, !.id = u, !.handle = h])
    \/ \E s \in OperatorSessions, e \in Emails \cup {Blank} :
          Arrive(r, [Fresh("set_email", "extract") EXCEPT !.sess = s.n, !.id = u, !.email = e])

OperateMore(r) == \E s \in OperatorSessions :
    \/ \E h \in Handles, e \in Emails \cup {NoEmail} :
          Arrive(r, [Fresh("create_user", "extract") EXCEPT !.sess = s.n, !.handle = h, !.email = e])
    \/ \E e \in Emails :
          Arrive(r, [Fresh("send_invite", "extract") EXCEPT !.sess = s.n, !.email = e])
    \/ \E d \in devices, op \in {"revoke_device", "delete_device"} :
          Arrive(r, [Fresh(op, "extract") EXCEPT !.sess = s.n, !.id = d.n])

----------------------------------------------------------------------------
(* The extractors: the cookie's session, its user enabled, an operator where needed *)

FirstStep ==
    [own_password |-> "password", own_email |-> "email", logout |-> "logout",
     create_user |-> "create", disable_user |-> "disable", enable_user |-> "enable",
     rename_user |-> "rename", toggle_admin |-> "read_admin", delete_user |-> "impact",
     set_password |-> "password", set_email |-> "email", send_invite |-> "insert_invite",
     revoke_device |-> "end_device", delete_device |-> "end_device"]

\* web_session: the row, if its user is enabled.
WebSession(n) == {s \in sessions : s.n = n /\ Exists(s.user) /\ ~users[s.user].disabled}

\* Mutant: any signed-in user passes as an operator.
Admitted_Anyone(r) == WebSession(req[r].sess)

Admitted(r) == {s \in WebSession(req[r].sess) :
                   req[r].op \in OperatorOps => users[s.user].admin}

Extract(r) ==
    /\ At(r, "extract")
    /\ IF Admitted(r) = {} THEN Answer(r)
       ELSE \E s \in Admitted(r) : req' = [req EXCEPT
              ![r].pc = FirstStep[req[r].op],
              ![r].actor = s.user,
              ![r].asAdmin = users[s.user].admin,
              ![r].id = IF req[r].op \in PortalOps THEN s.user ELSE req[r].id]
    /\ UNCHANGED <<tables, left, cuts, spent>>

----------------------------------------------------------------------------
(* Credentials *)

\* admin_login, find_user_by_handle and the check of the password; a wrong one is
\* refused like an unknown handle.
CheckPassword(r) ==
    /\ At(r, "account")
    /\ \/ \E u \in ByHandle(req[r].handle) :
             /\ ~users[u].disabled
             /\ req' = [req EXCEPT ![r].pc = "insert", ![r].id = u, ![r].cut = cuts[u]]
       \/ Answer(r)
    /\ UNCHANGED <<tables, left, cuts, spent>>

CreateDevice(row) == devices' = devices \cup {row} /\ UNCHANGED sessions

CreateAdminSession(row) == sessions' = sessions \cup {row} /\ UNCHANGED devices

\* The foreign key refuses a user who is gone.
InsertCredential(r) ==
    LET q == req[r]
        row == [n |-> q.n, user |-> q.id, cut |-> q.cut, raced |-> q.cut # cuts[q.id]]
    IN  /\ At(r, "insert")
        /\ IF ~Exists(q.id) THEN UNCHANGED <<sessions, devices>>
           ELSE IF q.op = "issue_token" THEN CreateDevice(row) ELSE CreateAdminSession(row)
        /\ Answer(r)
        /\ UNCHANGED <<users, nextId, resets, invites, left, cuts, spent>>

EndSession(r) ==
    /\ At(r, "logout")
    /\ sessions' = {s \in sessions : s.n # req[r].sess}
    /\ Answer(r)
    /\ UNCHANGED <<users, nextId, devices, resets, invites, left, cuts, spent>>

\* revoke_device, delete_device.
EndDevice(r) ==
    /\ At(r, "end_device")
    /\ devices' = {d \in devices : d.n # req[r].id}
    /\ Answer(r)
    /\ UNCHANGED <<users, nextId, sessions, resets, invites, left, cuts, spent>>

\* Mutant: the web sessions survive a new password.
Sever_KeepsSessions(u) ==
    /\ devices' = {d \in devices : d.user # u}
    /\ UNCHANGED sessions
    /\ cuts' = [cuts EXCEPT ![u] = @ + 1]

\* The part set_password and disable_user share: every live credential goes.
Sever(u) ==
    /\ devices' = {d \in devices : d.user # u}
    /\ sessions' = {s \in sessions : s.user # u}
    /\ cuts' = [cuts EXCEPT ![u] = @ + 1]

\* One transaction.  The portal then opens a session in place of the one it closed.
SetPassword(r) ==
    LET q == req[r]
    IN  /\ At(r, "password")
        /\ Sever(q.id)
        /\ IF q.op = "own_password"
           THEN req' = [req EXCEPT ![r].pc = "insert", ![r].cut = cuts[q.id] + 1]
           ELSE Answer(r)
        /\ spent' = IF q.op = "reset" THEN [spent EXCEPT ![q.sess].resets = @ + 1] ELSE spent
        /\ UNCHANGED <<users, nextId, resets, invites, left>>

----------------------------------------------------------------------------
(* Resets and invites *)

FindByEmail(r) ==
    /\ At(r, "find")
    /\ IF ByEmail(req[r].email) = {} THEN Answer(r)
       ELSE \E u \in ByEmail(req[r].email) :
              req' = [req EXCEPT ![r].pc = "insert_reset", ![r].id = u]
    /\ UNCHANGED <<tables, left, cuts, spent>>

InsertReset(r) ==
    /\ At(r, "insert_reset")
    /\ resets' = IF Exists(req[r].id)
                 THEN resets \cup {[n |-> req[r].n, owner |-> req[r].id, email |-> NoEmail, live |-> TRUE]}
                 ELSE resets
    /\ Answer(r)
    /\ UNCHANGED <<users, nextId, sessions, devices, invites, left, cuts, spent>>

\* Mutant: redeeming does not look at `used`.
Redeemable_Again(table, n) == {t \in table : t.n = n}

\* The row an UPDATE ... WHERE NOT used AND expires_at > now() finds.
Redeemable(table, n) == {t \in table : t.n = n /\ t.live}

Used(table, n) == {IF t.n = n THEN [t EXCEPT !.live = FALSE] ELSE t : t \in table}

ConsumeReset(r) ==
    LET q == req[r]
    IN  /\ At(r, "consume_reset")
        /\ IF Redeemable(resets, q.id) = {} THEN Answer(r) /\ UNCHANGED resets
           ELSE \E t \in Redeemable(resets, q.id) :
                  /\ resets' = Used(resets, q.id)
                  /\ req' = [req EXCEPT ![r].pc = "password", ![r].id = t.owner, ![r].sess = t.n]
        /\ UNCHANGED <<users, nextId, sessions, devices, invites, left, cuts, spent>>

InsertInvite(r) ==
    /\ At(r, "insert_invite")
    /\ invites' = IF Exists(req[r].actor)
                  THEN invites \cup {[n |-> req[r].n, owner |-> req[r].actor,
                                      email |-> req[r].email, live |-> TRUE]}
                  ELSE invites
    /\ Answer(r)
    /\ UNCHANGED <<users, nextId, sessions, devices, resets, left, cuts, spent>>

\* The invite's address becomes the account's.
ConsumeInvite(r) ==
    LET q == req[r]
    IN  /\ At(r, "consume_invite")
        /\ IF Redeemable(invites, q.id) = {} THEN Answer(r) /\ UNCHANGED invites
           ELSE \E t \in Redeemable(invites, q.id) :
                  /\ invites' = Used(invites, q.id)
                  /\ req' = [req EXCEPT ![r].pc = "create", ![r].email = t.email, ![r].sess = t.n]
        /\ UNCHANGED <<users, nextId, sessions, devices, resets, left, cuts, spent>>

----------------------------------------------------------------------------
(* Accounts *)

Acceptable(h, u) == h # Blank /\ ByHandle(h) \subseteq {u}

\* What comes after a new account is a statement of its own: the address if there is
\* one, then (at sign-up) the session.
AfterCreate(q) ==
    IF q.email # NoEmail THEN "email" ELSE IF q.op = "signup" THEN "insert" ELSE "answer"

\* create_user; a blank or taken handle ends the request, an invite redeemed or not.
CreateUser(r) ==
    LET q == req[r]
    IN  /\ At(r, "create") /\ nextId \in Ids
        /\ IF ~Acceptable(q.handle, nextId)
           THEN Answer(r) /\ UNCHANGED <<users, nextId, spent>>
           ELSE /\ users' = [users EXCEPT ![nextId] =
                     [handle |-> q.handle, email |-> NoEmail, admin |-> FALSE, disabled |-> FALSE]]
                /\ nextId' = nextId + 1
                /\ IF AfterCreate(q) = "answer" THEN Answer(r)
                   ELSE req' = [req EXCEPT ![r].pc = AfterCreate(q), ![r].id = nextId, ![r].cut = cuts[nextId]]
                /\ spent' = IF q.sess # 0 /\ q.op = "signup"
                            THEN [spent EXCEPT ![q.sess].invites = @ + 1] ELSE spent
        /\ UNCHANGED <<sessions, devices, resets, invites, left, cuts>>

\* set_email.  The column is unique, and the empty text is a text like any other;
\* an address that is taken is not an error for any of the callers.
SetEmail(r) ==
    LET q == req[r]
    IN  /\ At(r, "email")
        /\ users' = IF Exists(q.id) /\ ByEmail(q.email) \subseteq {q.id}
                    THEN [users EXCEPT ![q.id].email = q.email] ELSE users
        /\ IF q.op = "signup" THEN Goto(r, "insert") ELSE Answer(r)
        /\ UNCHANGED <<nextId, sessions, devices, resets, invites, left, cuts, spent>>

Disable(r) ==
    LET u == req[r].id
    IN  /\ At(r, "disable")
        /\ users' = IF Exists(u) THEN [users EXCEPT ![u].disabled = TRUE] ELSE users
        /\ Sever(u)
        /\ Answer(r)
        /\ UNCHANGED <<nextId, resets, invites, left, spent>>

Enable(r) ==
    LET u == req[r].id
    IN  /\ At(r, "enable")
        /\ users' = IF Exists(u) THEN [users EXCEPT ![u].disabled = FALSE] ELSE users
        /\ Answer(r)
        /\ UNCHANGED <<nextId, sessions, devices, resets, invites, left, cuts, spent>>

\* rename_user; a blank or taken handle changes nothing.
Rename(r) ==
    LET q == req[r]
        free == Exists(q.id) /\ Acceptable(q.handle, q.id)
    IN  /\ At(r, "rename")
        /\ users' = IF free THEN [users EXCEPT ![q.id].handle = q.handle] ELSE users
        /\ req' = [x \in Requests |->
              IF x = r THEN None
              ELSE IF free /\ At(x, "delete") /\ req[x].id = q.id
              THEN [req[x] EXCEPT !.renamed = TRUE] ELSE req[x]]
        /\ UNCHANGED <<nextId, sessions, devices, resets, invites, left, cuts, spent>>

\* toggle_admin reads the flag; a read that fails counts as no operator ...
ReadAdmin(r) ==
    LET u == req[r].id
    IN  /\ At(r, "read_admin")
        /\ \E was \in {Exists(u) /\ users[u].admin, FALSE} :
              req' = [req EXCEPT ![r].pc = "admin", ![r].found = was]
        /\ UNCHANGED <<tables, left, cuts, spent>>

\* ... and writes the opposite of what it read.
SetAdmin(r) ==
    LET u == req[r].id
    IN  /\ At(r, "admin")
        /\ users' = IF Exists(u) THEN [users EXCEPT ![u].admin = ~req[r].found] ELSE users
        /\ Answer(r)
        /\ UNCHANGED <<nextId, sessions, devices, resets, invites, left, cuts, spent>>

\* Mutant: the typed handle is not compared.
Confirmed_Always(typed, handle) == TRUE

Confirmed(typed, handle) == typed = handle

\* delete_user_impact and the typed confirmation.
ReadImpact(r) ==
    LET q == req[r]
    IN  /\ At(r, "impact")
        /\ IF Exists(q.id) /\ Confirmed(q.handle, users[q.id].handle)
           THEN Goto(r, "delete") ELSE Answer(r)
        /\ UNCHANGED <<tables, left, cuts, spent>>

\* Rows that delete_user leaves alone and that refer to the account.
Referenced(u) == \E t \in resets \cup invites : t.owner = u

\* One transaction; a remaining reference makes the database refuse it as a whole.
DeleteUser(r) ==
    LET u == req[r].id
    IN  /\ At(r, "delete")
        /\ IF Exists(u) /\ ~Referenced(u)
           THEN /\ users' = [users EXCEPT ![u] = NoUser]
                /\ sessions' = {s \in sessions : s.user # u}
                /\ devices' = {d \in devices : d.user # u}
           ELSE UNCHANGED <<users, sessions, devices>>
        /\ Answer(r)
        /\ UNCHANGED <<nextId, resets, invites, left, cuts, spent>>

----------------------------------------------------------------------------
(* The shell, time and failure *)

\* admin grant <handle>: the root of trust.
GrantAdmin ==
    /\ left > 0 /\ left' = left - 1
    /\ \E h \in Handles : \E u \in ByHandle(h) : users' = [users EXCEPT ![u].admin = TRUE]
    /\ UNCHANGED <<nextId, sessions, devices, resets, invites, req, cuts, spent>>

\* user create <handle>.
ShellCreate ==
    /\ left > 0 /\ left' = left - 1 /\ nextId \in Ids
    /\ \E h \in Handles : ByHandle(h) = {} /\ users' = [users EXCEPT ![nextId] =
          [handle |-> h, email |-> NoEmail, admin |-> FALSE, disabled |-> FALSE]]
    /\ nextId' = nextId + 1
    /\ UNCHANGED <<sessions, devices, resets, invites, req, cuts, spent>>

\* A session or a token reaches its expires_at.
Expire ==
    /\ left > 0 /\ left' = left - 1
    /\ \/ \E s \in sessions : sessions' = sessions \ {s} /\ UNCHANGED <<resets, invites>>
       \/ \E t \in resets : resets' = Used(resets, t.n) /\ UNCHANGED <<sessions, invites>>
       \/ \E t \in invites : invites' = Used(invites, t.n) /\ UNCHANGED <<sessions, resets>>
    /\ UNCHANGED <<users, nextId, devices, req, cuts, spent>>

\* A statement fails, hashing fails, the connection or the server goes away.
Fail(r) ==
    /\ req[r] # None
    /\ Answer(r)
    /\ UNCHANGED <<tables, left, cuts, spent>>

Arrivals(r) ==
    \/ SignIn(r) \/ Forgot(r) \/ Reset(r) \/ Signup(r) \/ Portal(r) \/ Operate(r) \/ OperateMore(r)

Handle(r) ==
    \/ Extract(r) \/ CheckPassword(r) \/ InsertCredential(r) \/ EndSession(r) \/ EndDevice(r)
    \/ SetPassword(r) \/ FindByEmail(r) \/ InsertReset(r) \/ ConsumeReset(r) \/ InsertInvite(r)
    \/ ConsumeInvite(r) \/ CreateUser(r) \/ SetEmail(r) \/ Disable(r) \/ Enable(r) \/ Rename(r)
    \/ ReadAdmin(r) \/ SetAdmin(r) \/ ReadImpact(r) \/ DeleteUser(r) \/ Fail(r)

Next ==
    \/ \E r \in Requests : Arrivals(r) \/ Handle(r)
    \/ GrantAdmin \/ ShellCreate \/ Expire

Spec == Init /\ [][Next]_vars

----------------------------------------------------------------------------
(* Properties *)

\* A new password, or disabling the account, locks out whoever held a session or a
\* token (store.rs, set_password and disable_user): a live credential is no older
\* than the last of these, unless its own check had passed before and its row
\* came after.
CredentialsCurrent ==
    \A c \in sessions \cup devices : c.cut = cuts[c.user] \/ c.raced

\* A reset sets one password and an invite makes one account, however many
\* requests present it at once and whatever fails (store.rs, consume_*).
SpentOnce == \A n \in Numbers : spent[n].resets <= 1 /\ spent[n].invites <= 1

\* Nobody becomes an operator but by the shell or by a request whose session
\* belonged to an operator (admin/mod.rs, the AdminSession extractor).
BecomesAdmin(u) == users[u] # NoUser /\ ~users[u].admin /\ users'[u] # NoUser /\ users'[u].admin

AdminsByAdmins ==
    [][\A u \in Ids : BecomesAdmin(u) =>
          \/ req' = req
          \/ \E r \in Requests : At(r, "admin") /\ req[r].id = u /\ req[r].asAdmin]_vars

\* An account is deleted only under the name the operator typed; it may have been
\* renamed between the check and the transaction (admin/actions.rs, delete_user).
DeletedAsTyped ==
    [][\A u \in Ids : users[u] # NoUser /\ users'[u] = NoUser =>
          \E r \in Requests : /\ At(r, "delete") /\ req[r].id = u
                              /\ req[r].handle = users[u].handle \/ req[r].renamed]_vars

=============================================================================
