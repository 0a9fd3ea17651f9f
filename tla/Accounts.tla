------------------------------- MODULE Accounts -------------------------------
(***************************************************************************)
(* The account service, services/auth.py: registration, login, rotation of *)
(* refresh tokens, logout, profile, withdrawal and password reset.  Unlike *)
(* the commands on incidents these requests carry neither a version nor an *)
(* idempotency key; some lock the row they check, others read it, compute, *)
(* and write it later without having locked it.                            *)
(*                                                                         *)
(* An attempt is one HTTP request in a worker thread with its own session  *)
(* and transaction.  Its steps are its statements as far as others can     *)
(* tell them apart: a read, the taking of a row lock, and the writes with  *)
(* the commit.  SQLAlchemy writes the columns that changed and no others.  *)
(* Row locks are InnoDB's and external to the code.                        *)
(***************************************************************************)
EXTENDS Integers, FiniteSets

CONSTANTS
    Attempts,     \* HTTP requests; also the rows that they insert
    Established,  \* accounts that are registered already
    Operators,    \* those among them with a role beside GENERAL_USER
    Opened,       \* sessions of those accounts that are open already
    Emails,       \* addresses
    Passwords,    \* what people use as passwords
    Names,        \* names people give themselves
    NoOne,        \* stands for the user of a session that was never opened
    Requests      \* bound: the requests that clients send

\* The row a transaction inserts has the name of its attempt.
ASSUME AttemptsAssumption ==
    /\ Established \cap Attempts = {} /\ Opened \cap Attempts = {}
    /\ Operators \subseteq Established
    /\ NoOne \notin Established \cup Attempts

Users == Established \cup Attempts

Sessions == Opened \cup Attempts

VARIABLES
    users,           \* [Users -> UserRow]
    user_sessions,   \* [Sessions -> SessionRow]
    audit_logs,      \* [Users -> number of AUTH.ACCOUNT_WITHDRAW rows]
    reset_tokens,    \* number of password reset tokens generated so far
    mailed,          \* those that reached a mailbox
    phase,           \* [Attempts -> where the handler is]
    request,         \* [Attempts -> what the client asked]
    seen,            \* [Attempts -> the row the handler found]
    locks,           \* [Attempts -> rows locked by its transaction]
    answer           \* [Attempts -> what the client is told]

tables == <<users, user_sessions, audit_logs, reset_tokens, mailed>>

vars == <<tables, phase, request, seen, locks, answer>>

\* deleted_at is set together with INACTIVE and stands for it; nothing sets
\* LOCKED.  A reset token is its number, 0 if the column is null.
UserRow ==
    [status : {"UNREGISTERED", "ACTIVE", "INACTIVE"},
     email : Emails \cup ({"withdrawn"} \X Users) \cup {"none"},
     password : Passwords \cup {"random"},
     name : Names \cup {"withdrawn"},
     phone : {"none", "some"},
     reset : Nat,
     reset_expired : BOOLEAN]

\* A refresh token is the session it was issued for and the number of its
\* rotation; the row has the hash of the last one.
SessionRow ==
    [user : Users \cup {NoOne}, token : Nat, expired : BOOLEAN,
     revoke_reason : {"none", "LOGOUT", "ACCOUNT_WITHDRAWAL", "PASSWORD_RESET"}]

NoRow == [status |-> "UNREGISTERED", email |-> "none", password |-> "random",
          name |-> "withdrawn", phone |-> "none", reset |-> 0,
          reset_expired |-> FALSE]

NewUser(email, password, name) ==
    [status |-> "ACTIVE", email |-> email, password |-> password, name |-> name,
     phone |-> "none", reset |-> 0, reset_expired |-> FALSE]

NoSession == [user |-> NoOne, token |-> 0, expired |-> FALSE, revoke_reason |-> "none"]

NewSession(u) == [user |-> u, token |-> 1, expired |-> FALSE, revoke_reason |-> "none"]

IsActive(u) == users[u].status = "ACTIVE"

\* A session that is neither revoked nor expired.
IsLive(s) ==
    /\ user_sessions[s].user # NoOne
    /\ user_sessions[s].revoke_reason = "none"
    /\ ~ user_sessions[s].expired

\* The session with the hash of this refresh token, if there is one.
HasToken(s, token) ==
    user_sessions[s].user # NoOne /\ token = <<s, user_sessions[s].token>>

ByEmail(e) == {u \in Users : users[u].status # "UNREGISTERED" /\ users[u].email = e}

\* What can be locked.
Rows == ({"user"} \X Users) \cup ({"session"} \X Sessions)

Free(q, x) == \A p \in Attempts \ {q} : x \notin locks[p]

\* UPDATE user_sessions ... WHERE user_id = u locks all sessions of u.
SessionsFree(q, u) ==
    \A s \in Sessions : user_sessions[s].user = u => Free(q, <<"session", s>>)

-----------------------------------------------------------------------------
(* What clients ask.  A client has any token it was ever given.            *)

Bodies ==
    [op : {"register"}, email : Emails, password : Passwords, name : Names]
    \cup
    [op : {"login"}, email : Emails, password : Passwords]
    \cup
    [op : {"refresh", "logout"},
     token : {<<s, n>> : s \in Sessions, n \in 1 .. Cardinality(Attempts) + 1}]
    \cup
    [op : {"update_me"}, session : Sessions,
     name : Names \cup {"keep"}, phone : {"none", "some", "keep"}]
    \cup
    [op : {"withdraw"}, session : Sessions, password : Passwords]
    \cup
    [op : {"request_reset"}, email : Emails]
    \cup
    [op : {"confirm_reset"}, token : 1 .. Cardinality(Attempts), password : Passwords]

\* Tokens and sessions come from earlier answers and mails.
IsKnown(m) ==
    /\ m.op \in {"refresh", "logout"} => m.token[2] <= user_sessions[m.token[1]].token
    /\ m.op \in {"update_me", "withdraw"} => user_sessions[m.session].user # NoOne
    /\ m.op = "update_me" => m.name # "keep" \/ m.phone # "keep"
    /\ m.op = "confirm_reset" => m.token \in mailed

Receive(q) ==
    /\ phase[q] = "idle"
    /\ \E m \in Bodies : /\ m.op \in Requests /\ IsKnown(m)
                         /\ request' = [request EXCEPT ![q] = m]
    /\ phase' = [phase EXCEPT ![q] = "received"]
    /\ UNCHANGED <<tables, seen, locks, answer>>

-----------------------------------------------------------------------------

\* Attempt q is at this point of its handler.
At(q, op, p) == phase[q] = p /\ request[q].op = op

\* It goes on to another one, with what it found and what it locks.
Go(q, p, found, rows) ==
    /\ phase' = [phase EXCEPT ![q] = p]
    /\ seen' = [seen EXCEPT ![q] = found]
    /\ locks' = [locks EXCEPT ![q] = rows]
    /\ UNCHANGED <<request, answer>>

\* The transaction is over and its locks are released.
Answer(q, kind) ==
    /\ phase' = [phase EXCEPT ![q] = "answered"]
    /\ answer' = [answer EXCEPT ![q] = kind]
    /\ locks' = [locks EXCEPT ![q] = {}]
    /\ UNCHANGED <<request, seen>>

Refuse(q) == Answer(q, "refused") /\ UNCHANGED tables

\* Any statement may fail, as may the delivery of a mail; what was not
\* committed is rolled back.
Fail(q) ==
    /\ phase[q] \in {"received", "read", "locked", "stored"}
    /\ Answer(q, "error")
    /\ UNCHANGED tables

-----------------------------------------------------------------------------
(* register_user                                                           *)

Register(q) ==
    /\ At(q, "register", "received")
    /\ IF ByEmail(request[q].email) # {} THEN Refuse(q)
       ELSE Go(q, "read", seen[q], {}) /\ UNCHANGED tables

\* Mutant: the column has no unique index.
InsertDuplicate(q) ==
    LET m == request[q]
    IN  /\ At(q, "register", "read")
        /\ users' = [users EXCEPT ![q] = NewUser(m.email, m.password, m.name)]
        /\ Answer(q, "ok")
        /\ UNCHANGED <<user_sessions, audit_logs, reset_tokens, mailed>>

\* The INSERT, which the unique index on the address may refuse.
InsertUser(q) ==
    LET m == request[q]
    IN  /\ At(q, "register", "read")
        /\ IF ByEmail(m.email) # {} THEN Refuse(q)
           ELSE /\ users' = [users EXCEPT ![q] = NewUser(m.email, m.password, m.name)]
                /\ Answer(q, "ok")
                /\ UNCHANGED <<user_sessions, audit_logs, reset_tokens, mailed>>

-----------------------------------------------------------------------------
(* login_user                                                              *)

Login(q) ==
    LET found == {u \in ByEmail(request[q].email) :
                    users[u].password = request[q].password /\ IsActive(u)}
    IN  /\ At(q, "login", "received")
        /\ IF found = {} THEN Refuse(q)
           ELSE /\ \E u \in found : Go(q, "read", [seen[q] EXCEPT !.user = u], {})
                /\ UNCHANGED tables

\* issue_auth_tokens: last_login_at is written to the user, whose row must be
\* free, and a session is inserted.
OpenSession(q) ==
    /\ At(q, "login", "read")
    /\ Free(q, <<"user", seen[q].user>>)
    /\ user_sessions' = [user_sessions EXCEPT ![q] = NewSession(seen[q].user)]
    /\ Answer(q, "ok")
    /\ UNCHANGED <<users, audit_logs, reset_tokens, mailed>>

-----------------------------------------------------------------------------
(* refresh_access_token                                                    *)

\* Mutant: SELECT without FOR UPDATE.
RefreshUnlocked(q) ==
    LET s == request[q].token[1]
    IN  /\ At(q, "refresh", "received")
        /\ IF HasToken(s, request[q].token) /\ IsLive(s) /\ IsActive(user_sessions[s].user)
           THEN Go(q, "locked", [seen[q] EXCEPT !.session = s], {}) /\ UNCHANGED tables
           ELSE Refuse(q)

\* Mutant: the account of the session is not looked at.
RefreshAnyAccount(q) ==
    LET s == request[q].token[1]
    IN  /\ At(q, "refresh", "received")
        /\ HasToken(s, request[q].token) => Free(q, <<"session", s>>)
        /\ IF HasToken(s, request[q].token) /\ IsLive(s)
           THEN /\ Go(q, "locked", [seen[q] EXCEPT !.session = s], {<<"session", s>>})
                /\ UNCHANGED tables
           ELSE Refuse(q)

\* The session is found by the hash of the token and locked, and its user is
\* read, not locked.
Refresh(q) ==
    LET s == request[q].token[1]
    IN  /\ At(q, "refresh", "received")
        /\ HasToken(s, request[q].token) => Free(q, <<"session", s>>)
        /\ IF HasToken(s, request[q].token) /\ IsLive(s) /\ IsActive(user_sessions[s].user)
           THEN /\ Go(q, "locked", [seen[q] EXCEPT !.session = s], {<<"session", s>>})
                /\ UNCHANGED tables
           ELSE Refuse(q)

\* Mutant: refresh writes last_login_at, too, and needs the row of the user.
RotateAndStamp(q) ==
    LET s == seen[q].session
    IN  /\ At(q, "refresh", "locked")
        /\ Free(q, <<"user", user_sessions[s].user>>)
        /\ user_sessions' =
              [user_sessions EXCEPT ![s].token = @ + 1, ![s].expired = FALSE]
        /\ Answer(q, "ok")
        /\ UNCHANGED <<users, audit_logs, reset_tokens, mailed>>

\* issue_auth_tokens: the next token of the session, and a new expiry.
Rotate(q) ==
    LET s == seen[q].session
    IN  /\ At(q, "refresh", "locked")
        /\ user_sessions' =
              [user_sessions EXCEPT ![s].token = @ + 1, ![s].expired = FALSE]
        /\ Answer(q, "ok")
        /\ UNCHANGED <<users, audit_logs, reset_tokens, mailed>>

-----------------------------------------------------------------------------
(* logout_user                                                             *)

\* A token that is not found is as good as a logout.
Logout(q) ==
    LET s == request[q].token[1]
    IN  /\ At(q, "logout", "received")
        /\ IF HasToken(s, request[q].token) /\ user_sessions[s].revoke_reason = "none"
           THEN Go(q, "read", [seen[q] EXCEPT !.session = s], {})
           ELSE Answer(q, "ok")
        /\ UNCHANGED tables

\* Mutant: the UPDATE names the token instead of the session.
RevokeByToken(q) ==
    LET s == seen[q].session
    IN  /\ At(q, "logout", "read")
        /\ Free(q, <<"session", s>>)
        /\ IF HasToken(s, request[q].token)
           THEN user_sessions' = [user_sessions EXCEPT ![s].revoke_reason = "LOGOUT"]
           ELSE UNCHANGED user_sessions
        /\ Answer(q, "ok")
        /\ UNCHANGED <<users, audit_logs, reset_tokens, mailed>>

\* The UPDATE names the session by its primary key: what happened to it since
\* it was read makes no difference.
RevokeSession(q) ==
    /\ At(q, "logout", "read")
    /\ Free(q, <<"session", seen[q].session>>)
    /\ user_sessions' =
          [user_sessions EXCEPT ![seen[q].session].revoke_reason = "LOGOUT"]
    /\ Answer(q, "ok")
    /\ UNCHANGED <<users, audit_logs, reset_tokens, mailed>>

-----------------------------------------------------------------------------
(* update_current_user_profile and withdraw_current_user                   *)

\* get_current_user: the session and its user are read, not locked.
Authenticate(q) ==
    LET s == request[q].session
        u == user_sessions[s].user
    IN  /\ phase[q] = "received" /\ request[q].op \in {"update_me", "withdraw"}
        /\ IF IsLive(s) /\ IsActive(u)
           THEN /\ Go(q, "read", [seen[q] EXCEPT !.user = u, !.session = s, !.row = users[u]], {})
                /\ UNCHANGED tables
           ELSE Refuse(q)

\* The columns that differ from what was read are written.  A phone number
\* that is given always differs: it is encrypted anew.
UpdateProfile(q) ==
    LET m == request[q]
        u == seen[q].user
        newName == m.name \notin {"keep", seen[q].row.name}
        newPhone == m.phone = "some" \/ (m.phone = "none" /\ seen[q].row.phone = "some")
    IN  /\ At(q, "update_me", "read")
        /\ newName \/ newPhone => Free(q, <<"user", u>>)
        /\ users' = [users EXCEPT ![u].name = IF newName THEN m.name ELSE @,
                                  ![u].phone = IF newPhone THEN m.phone ELSE @]
        /\ Answer(q, "ok")
        /\ UNCHANGED <<user_sessions, audit_logs, reset_tokens, mailed>>

\* Mutant: without populate_existing the session keeps the row that
\* get_current_user loaded, and the checks see that one.
LockAccountStale(q) ==
    LET u == seen[q].user
        row == seen[q].row
    IN  /\ At(q, "withdraw", "read")
        /\ Free(q, <<"user", u>>)
        /\ IF /\ row.status = "ACTIVE" /\ u \notin Operators
              /\ row.password = request[q].password
           THEN Go(q, "locked", seen[q], {<<"user", u>>}) /\ UNCHANGED tables
           ELSE Refuse(q)

\* The row is locked and read again, and so are the checks made.
LockAccount(q) ==
    LET u == seen[q].user
    IN  /\ At(q, "withdraw", "read")
        /\ Free(q, <<"user", u>>)
        /\ IF /\ IsActive(u) /\ u \notin Operators
              /\ users[u].password = request[q].password
           THEN Go(q, "locked", seen[q], {<<"user", u>>}) /\ UNCHANGED tables
           ELSE Refuse(q)

\* The sessions of u that are not revoked are.
Revoked(u, reason) ==
    [s \in Sessions |->
       IF user_sessions[s].user = u /\ user_sessions[s].revoke_reason = "none"
       THEN [user_sessions[s] EXCEPT !.revoke_reason = reason]
       ELSE user_sessions[s]]

\* The person is erased from the row, which stays.
Withdraw(q) ==
    LET u == seen[q].user
    IN  /\ At(q, "withdraw", "locked")
        /\ SessionsFree(q, u)
        /\ users' = [users EXCEPT ![u] =
                        [status |-> "INACTIVE", email |-> <<"withdrawn", u>>,
                         password |-> "random", name |-> "withdrawn",
                         phone |-> "none", reset |-> 0, reset_expired |-> FALSE]]
        /\ user_sessions' = Revoked(u, "ACCOUNT_WITHDRAWAL")
        /\ audit_logs' = [audit_logs EXCEPT ![u] = @ + 1]
        /\ Answer(q, "ok")
        /\ UNCHANGED <<reset_tokens, mailed>>

-----------------------------------------------------------------------------
(* request_password_reset and confirm_password_reset                       *)

\* A client is not told whether there is such an account.
RequestReset(q) ==
    LET found == {u \in ByEmail(request[q].email) : IsActive(u)}
    IN  /\ At(q, "request_reset", "received")
        /\ IF found = {} THEN Answer(q, "ok")
           ELSE \E u \in found : Go(q, "read", [seen[q] EXCEPT !.user = u], {})
        /\ UNCHANGED tables

\* A new token takes the place of the one before.  The row was not locked
\* since it was read.
StoreResetToken(q) ==
    LET u == seen[q].user
    IN  /\ At(q, "request_reset", "read")
        /\ Free(q, <<"user", u>>)
        /\ reset_tokens' = reset_tokens + 1
        /\ users' = [users EXCEPT ![u] =
                        [@ EXCEPT !.reset = reset_tokens + 1, !.reset_expired = FALSE]]
        /\ Go(q, "stored", [seen[q] EXCEPT !.token = reset_tokens + 1], {})
        /\ UNCHANGED <<user_sessions, audit_logs, mailed>>

\* The mail follows the commit.
SendMail(q) ==
    /\ At(q, "request_reset", "stored")
    /\ mailed' = mailed \cup {seen[q].token}
    /\ Answer(q, "ok")
    /\ UNCHANGED <<users, user_sessions, audit_logs, reset_tokens>>

\* Mutant: SELECT without FOR UPDATE.
ConfirmUnlocked(q) ==
    LET found == {u \in Users : users[u].reset = request[q].token}
    IN  /\ At(q, "confirm_reset", "received")
        /\ IF \E u \in found : ~ users[u].reset_expired /\ IsActive(u)
           THEN /\ \E u \in found : Go(q, "locked", [seen[q] EXCEPT !.user = u], {})
                /\ UNCHANGED tables
           ELSE Refuse(q)

\* Mutant: the status of the account is not looked at.
ConfirmAnyStatus(q) ==
    LET found == {u \in Users : users[u].reset = request[q].token}
    IN  /\ At(q, "confirm_reset", "received")
        /\ \A u \in found : Free(q, <<"user", u>>)
        /\ IF \E u \in found : ~ users[u].reset_expired
           THEN /\ \E u \in found :
                      Go(q, "locked", [seen[q] EXCEPT !.user = u], {<<"user", u>>})
                /\ UNCHANGED tables
           ELSE Refuse(q)

\* The user is found by the hash of the token and locked.
ConfirmReset(q) ==
    LET found == {u \in Users : users[u].reset = request[q].token}
        valid == {u \in found : ~ users[u].reset_expired /\ IsActive(u)}
    IN  /\ At(q, "confirm_reset", "received")
        /\ \A u \in found : Free(q, <<"user", u>>)
        /\ IF valid = {} THEN Refuse(q)
           ELSE /\ \E u \in valid :
                      Go(q, "locked", [seen[q] EXCEPT !.user = u], {<<"user", u>>})
                /\ UNCHANGED tables

\* The password changes, the token is used up and all sessions end.
ResetPassword(q) ==
    LET u == seen[q].user
    IN  /\ At(q, "confirm_reset", "locked")
        /\ SessionsFree(q, u)
        /\ users' = [users EXCEPT ![u] =
                        [@ EXCEPT !.password = request[q].password,
                                  !.reset = 0, !.reset_expired = FALSE]]
        /\ user_sessions' = Revoked(u, "PASSWORD_RESET")
        /\ Answer(q, "ok")
        /\ UNCHANGED <<audit_logs, reset_tokens, mailed>>

-----------------------------------------------------------------------------
(* Time passes.                                                            *)

ExpireSession(s) ==
    /\ IsLive(s)
    /\ user_sessions' = [user_sessions EXCEPT ![s].expired = TRUE]
    /\ UNCHANGED <<users, audit_logs, reset_tokens, mailed,
                   phase, request, seen, locks, answer>>

ExpireResetToken(u) ==
    /\ users[u].reset # 0 /\ ~ users[u].reset_expired
    /\ users' = [users EXCEPT ![u].reset_expired = TRUE]
    /\ UNCHANGED <<user_sessions, audit_logs, reset_tokens, mailed,
                   phase, request, seen, locks, answer>>

-----------------------------------------------------------------------------

Unasked == [op |-> "none"]

Nothing == [user |-> NoOne, session |-> NoOne, row |-> NoRow, token |-> 0]

\* Some people registered and some of them logged in before.
Init ==
    /\ \E row \in [Established -> {NewUser(e, p, n) : e \in Emails, p \in Passwords, n \in Names}] :
         /\ \A u, v \in Established : u # v => row[u].email # row[v].email
         /\ users = [u \in Users |-> IF u \in Established THEN row[u] ELSE NoRow]
    /\ \E owner \in [Opened -> Established] :
         user_sessions = [s \in Sessions |->
                            IF s \in Opened THEN NewSession(owner[s]) ELSE NoSession]
    /\ audit_logs = [u \in Users |-> 0]
    /\ reset_tokens = 0
    /\ mailed = {}
    /\ phase = [q \in Attempts |-> "idle"]
    /\ request = [q \in Attempts |-> Unasked]
    /\ seen = [q \in Attempts |-> Nothing]
    /\ locks = [q \in Attempts |-> {}]
    /\ answer = [q \in Attempts |-> "none"]

\* The statements of a handler.
Proceed(q) ==
    \/ Register(q) \/ InsertUser(q)
    \/ Login(q) \/ OpenSession(q)
    \/ Refresh(q) \/ Rotate(q)
    \/ Logout(q) \/ RevokeSession(q)
    \/ Authenticate(q) \/ UpdateProfile(q)
    \/ LockAccount(q) \/ Withdraw(q)
    \/ RequestReset(q) \/ StoreResetToken(q) \/ SendMail(q)
    \/ ConfirmReset(q) \/ ResetPassword(q)

Next ==
    \/ \E q \in Attempts : Receive(q) \/ Proceed(q) \/ Fail(q)
    \/ \E s \in Sessions : ExpireSession(s)
    \/ \E u \in Users : ExpireResetToken(u)

\* A worker thread goes on while it can; requests need not arrive, nothing
\* has to fail, and time need not pass.
Fairness == \A q \in Attempts : WF_vars(Proceed(q))

Spec == Init /\ [][Next]_vars /\ Fairness

-----------------------------------------------------------------------------
(* Properties.                                                             *)

\* Types, and what is locked: the row an attempt checked, until it answers.
TypeOK ==
    /\ users \in [Users -> UserRow]
    /\ user_sessions \in [Sessions -> SessionRow]
    /\ audit_logs \in [Users -> Nat]
    /\ reset_tokens \in Nat /\ mailed \subseteq 1 .. reset_tokens
    /\ phase \in [Attempts -> {"idle", "received", "read", "locked", "stored", "answered"}]
    /\ request \in [Attempts -> Bodies \cup {Unasked}]
    /\ locks \in [Attempts -> SUBSET Rows]
    /\ answer \in [Attempts -> {"none", "ok", "refused", "error"}]
    /\ \A q \in Attempts :
          /\ phase[q] = "idle" <=> request[q] = Unasked
          /\ phase[q] # "locked" <=> locks[q] = {}
          /\ phase[q] = "answered" <=> answer[q] # "none"

\* Each account is withdrawn at most once, and the audit log has one row for
\* each that was: of two withdrawals at once the second one finds that there
\* is no account any more.
AuditMatches ==
    \A u \in Users : audit_logs[u] = IF users[u].status = "INACTIVE" THEN 1 ELSE 0

\* A withdrawal is final.  No request that was already under way brings back
\* the address or the password, and no link that was mailed late opens the
\* account again.
WithdrawalIsFinal ==
    [][\A u \in Users :
         users[u].status = "INACTIVE" =>
            /\ users'[u].status = "INACTIVE"
            /\ users'[u].email = users[u].email
            /\ users'[u].password = users[u].password]_vars

\* What erases a person erases the name, the phone number and the pending
\* reset for good.
WithdrawnIsErased ==
    \A u \in Users :
      users[u].status = "INACTIVE" =>
         users[u].name = "withdrawn" /\ users[u].phone = "none" /\ users[u].reset = 0

\* A token works once, however often and by whatever copies of a request it is
\* presented: a refresh token buys one new token, the link in a mail one new
\* password (mail.py:33).
TokenOnce ==
    \A p, q \in Attempts :
      /\ p # q /\ answer[p] = "ok" /\ answer[q] = "ok"
      /\ request[p].op = request[q].op
      /\ request[p].op \in {"refresh", "confirm_reset"}
      => request[p].token # request[q].token

\* No session is prolonged once it was revoked, or its user has gone: refresh
\* decides on rows of which it locks only one, and withdrawals and resets wait
\* for that one.
RotationIsCurrent ==
    [][\A s \in Sessions :
         user_sessions'[s].token > user_sessions[s].token /\ user_sessions[s].token > 0 =>
            /\ user_sessions[s].revoke_reason = "none"
            /\ IsActive(user_sessions[s].user)]_vars

\* A logout that found its session ended it, even if the token was rotated
\* meanwhile, and nothing opens it again.
LogoutSticks ==
    \A q \in Attempts :
      request[q].op = "logout" /\ answer[q] = "ok" /\ seen[q].session # NoOne =>
         user_sessions[seen[q].session].revoke_reason # "none"

\* No two people have an account with one address, though the lookup takes no
\* lock and a withdrawal may set the address free at that moment: every lookup
\* by address counts on finding one row at most (models/auth.py:247).
OneAccountPerAddress ==
    \A u, v \in Users :
      u # v /\ IsActive(u) /\ IsActive(v) => users[u].email # users[v].email

\* A login that read the account before the withdrawal opens its session after
\* it, and nobody revokes that one; but it is worth the refresh token it came
\* with only, and is never rotated.
LateSessionBuysNothing ==
    \A s \in Sessions :
      /\ user_sessions[s].user # NoOne /\ user_sessions[s].revoke_reason = "none"
      /\ users[user_sessions[s].user].status = "INACTIVE"
      => user_sessions[s].token = 1

\* Users are locked before sessions, so nobody waits in a circle: while a
\* request is under way, some request can take its next step.  A request takes
\* a few steps only, so under Fairness all of them are answered.
SomebodyGoesOn ==
    (\E q \in Attempts : phase[q] \notin {"idle", "answered"}) =>
        \E q \in Attempts : ENABLED Proceed(q)

=============================================================================
