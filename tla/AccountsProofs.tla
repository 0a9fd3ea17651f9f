--------------------------- MODULE AccountsProofs ----------------------------
(***************************************************************************)
(* For any number of accounts, sessions and interleaved requests:          *)
(* withdrawals are final and each is logged once, a refresh or reset token *)
(* is used once, and what a logout revoked stays revoked.                  *)
(***************************************************************************)
EXTENDS AccountsMembership, TLAPS

Found == [user : Users \cup {NoOne}, session : Sessions \cup {NoOne},
          row : UserRow, token : Nat]

\* What an attempt found is there.
FoundOK ==
    /\ seen \in [Attempts -> Found]
    /\ \A q \in Attempts :
          /\ phase[q] \in {"read", "locked"} =>
               /\ request[q].op \in {"login", "update_me", "withdraw",
                                     "request_reset", "confirm_reset"}
                    => seen[q].user \in Users
               /\ request[q].op \in {"refresh", "logout"}
                    => seen[q].session \in Sessions
          /\ phase[q] = "stored" => seen[q].token \in 1 .. reset_tokens

\* A row is inserted by the last step of its attempt.
Fresh ==
    \A q \in Attempts : phase[q] # "answered" => users[q].status = "UNREGISTERED"

\* Whoever passed the checks of a withdrawal or a reset holds the row.
LockedActive ==
    \A q \in Attempts :
      phase[q] = "locked" /\ request[q].op \in {"withdraw", "confirm_reset"} =>
         <<"user", seen[q].user>> \in locks[q] /\ IsActive(seen[q].user)

\* No row is locked twice.
Exclusive ==
    \A p, q \in Attempts : \A x \in locks[p] : p # q => x \notin locks[q]

\* The inductive invariant.
IInv == TypeOK /\ FoundOK /\ Fresh /\ LockedActive /\ Exclusive /\ AuditMatches

\* What WithdrawalIsFinal says of one step.
FinalStep ==
    \A u \in Users :
      users[u].status = "INACTIVE" =>
         /\ users'[u].status = "INACTIVE"
         /\ users'[u].email = users[u].email
         /\ users'[u].password = users[u].password

\* The tables are written, but no account starts or ends, except that attempt
\* q may register one.
Quiet(q) ==
    /\ users' \in [Users -> UserRow]
    /\ user_sessions' \in [Sessions -> SessionRow]
    /\ audit_logs' = audit_logs
    /\ reset_tokens' \in Nat /\ reset_tokens' >= reset_tokens
    /\ mailed' \subseteq 1 .. reset_tokens'
    /\ \A u \in Users :
          \/ users'[u].status = users[u].status
          \/ u = q /\ users[u].status = "UNREGISTERED" /\ users'[u].status = "ACTIVE"
                   /\ phase'[q] = "answered"
    /\ FinalStep

-----------------------------------------------------------------------------

\* Tables that stay as they are do.
LEMMA UnchangedQuiet ==
    ASSUME TypeOK, NEW q \in Attempts, UNCHANGED tables
    PROVE  Quiet(q)
BY DEF Quiet, TypeOK, tables, FinalStep

\* The end of an attempt keeps the invariant.
LEMMA AnswerKeeps ==
    ASSUME IInv, NEW q \in Attempts, NEW kind \in {"ok", "refused", "error"},
           phase[q] # "idle", Answer(q, kind), Quiet(q)
    PROVE  IInv'
<1> USE DEF IInv, Answer
<1>1. /\ \A p \in Attempts \ {q} : phase'[p] = phase[p] /\ locks'[p] = locks[p]
                                    /\ answer'[p] = answer[p]
      /\ phase'[q] = "answered" /\ locks'[q] = {} /\ answer'[q] = kind
      /\ request' = request /\ seen' = seen
  BY DEF TypeOK, FoundOK
<1>2. TypeOK'
  BY <1>1 DEF TypeOK, Quiet
<1>3. FoundOK'
  BY <1>1 DEF FoundOK, Quiet, TypeOK
<1>4. Fresh'
  BY <1>1 DEF Fresh, Quiet, Users
<1>5. LockedActive'
  <2> SUFFICES ASSUME NEW p \in Attempts, phase'[p] = "locked",
                      request[p].op \in {"withdraw", "confirm_reset"}
               PROVE  /\ <<"user", seen[p].user>> \in locks'[p]
                      /\ users'[seen[p].user].status = "ACTIVE"
    BY <1>1 DEF LockedActive, IsActive
  <2> QED
    BY <1>1 DEF LockedActive, FoundOK, Quiet, IsActive
<1>6. Exclusive'
  BY <1>1 DEF Exclusive
<1>7. AuditMatches'
  BY DEF AuditMatches, Quiet
<1> QED
  BY <1>2, <1>3, <1>4, <1>5, <1>6, <1>7

\* So does a step within an attempt that finds a row and locks at most that
\* one.
LEMMA GoKeeps ==
    ASSUME IInv, NEW q \in Attempts, NEW p \in {"read", "locked", "stored"},
           NEW found \in Found, NEW rows \in SUBSET Rows,
           phase[q] \notin {"idle", "answered"}, Go(q, p, found, rows), Quiet(q),
           p # "locked" <=> rows = {},
           \A x \in rows : Free(q, x),
           p # "stored" =>
              /\ request[q].op \in {"login", "update_me", "withdraw",
                                    "request_reset", "confirm_reset"}
                   => found.user \in Users
              /\ request[q].op \in {"refresh", "logout"} => found.session \in Sessions,
           p = "stored" => found.token \in 1 .. reset_tokens',
           p = "locked" /\ request[q].op \in {"withdraw", "confirm_reset"} =>
              <<"user", found.user>> \in rows /\ IsActive(found.user)
    PROVE  IInv'
<1> USE DEF IInv, Go
<1>1. /\ \A o \in Attempts \ {q} : phase'[o] = phase[o] /\ locks'[o] = locks[o]
                                    /\ seen'[o] = seen[o]
      /\ phase'[q] = p /\ locks'[q] = rows /\ seen'[q] = found
      /\ request' = request /\ answer' = answer
  BY DEF TypeOK, FoundOK
<1>2. TypeOK'
  BY <1>1 DEF TypeOK, Quiet
<1>3. FoundOK'
  BY <1>1 DEF FoundOK, Quiet, TypeOK
<1>4. Fresh'
  BY <1>1 DEF Fresh, Quiet, Users
<1>5. LockedActive'
  <2> SUFFICES ASSUME NEW o \in Attempts, phase'[o] = "locked",
                      request[o].op \in {"withdraw", "confirm_reset"}
               PROVE  /\ <<"user", seen'[o].user>> \in locks'[o]
                      /\ users'[seen'[o].user].status = "ACTIVE"
    BY <1>1 DEF LockedActive, IsActive
  <2>1. CASE o = q
    BY <1>1, <2>1 DEF Quiet, IsActive
  <2>2. CASE o # q
    BY <1>1, <2>2 DEF LockedActive, FoundOK, Quiet, IsActive
  <2> QED
    BY <2>1, <2>2
<1>6. Exclusive'
  BY <1>1 DEF Exclusive, Free
<1>7. AuditMatches'
  BY <1>1 DEF AuditMatches, Quiet
<1> QED
  BY <1>2, <1>3, <1>4, <1>5, <1>6, <1>7

\* A refused attempt changes nothing else.
LEMMA RefuseKeeps ==
    ASSUME IInv, NEW q \in Attempts, phase[q] # "idle", Refuse(q)
    PROVE  IInv' /\ FinalStep
BY UnchangedQuiet, AnswerKeeps DEF Refuse, IInv, Quiet

\* The rows an attempt works with.
LEMMA SeenType ==
    ASSUME IInv, NEW q \in Attempts
    PROVE  /\ seen[q] \in Found
           /\ \A u \in Users : [seen[q] EXCEPT !.user = u] \in Found
           /\ \A s \in Sessions : [seen[q] EXCEPT !.session = s] \in Found
           /\ \A n \in Nat : [seen[q] EXCEPT !.token = n] \in Found
           /\ \A u \in Users, s \in Sessions, r \in UserRow :
                 [seen[q] EXCEPT !.user = u, !.session = s, !.row = r] \in Found
BY DEF IInv, FoundOK, Found

\* What the requests with each operation hold.
LEMMA BodyType ==
    ASSUME TypeOK, NEW q \in Attempts
    PROVE  /\ request[q].op = "register" =>
                /\ request[q].email \in Emails /\ request[q].password \in Passwords
                /\ request[q].name \in Names
           /\ request[q].op = "update_me" =>
                /\ request[q].session \in Sessions
                /\ request[q].name \in Names \cup {"keep"}
                /\ request[q].phone \in {"none", "some", "keep"}
           /\ request[q].op = "withdraw" => request[q].session \in Sessions
           /\ request[q].op \in {"refresh", "logout"} => request[q].token[1] \in Sessions
           /\ request[q].op = "confirm_reset" => request[q].password \in Passwords
BY DEF TypeOK, Bodies, Unasked

-----------------------------------------------------------------------------

\* An attempt reads and goes on.
LEMMA GoRead ==
    ASSUME IInv, NEW q \in Attempts, NEW found \in Found, phase[q] = "received",
           Go(q, "read", found, {}), UNCHANGED tables,
           \/ request[q].op = "register"
           \/ /\ request[q].op \in {"login", "update_me", "withdraw", "request_reset"}
              /\ found.user \in Users
           \/ request[q].op = "logout" /\ found.session \in Sessions
    PROVE  IInv' /\ FinalStep
<1>1. Quiet(q) /\ FinalStep
  BY UnchangedQuiet DEF IInv, Quiet
<1>2. {} \in SUBSET Rows
  OBVIOUS
<1> QED
  BY <1>1, <1>2, GoKeeps

\* An attempt takes the lock on a row that is free.
LEMMA GoLock ==
    ASSUME IInv, NEW q \in Attempts, NEW found \in Found, NEW x \in Rows,
           phase[q] \in {"received", "read"},
           Free(q, x), Go(q, "locked", found, {x}), UNCHANGED tables,
           \/ /\ request[q].op \in {"withdraw", "confirm_reset"}
              /\ found.user \in Users /\ IsActive(found.user)
              /\ x = <<"user", found.user>>
           \/ request[q].op = "refresh" /\ found.session \in Sessions
    PROVE  IInv' /\ FinalStep
<1> DEFINE rows == {x}
<1>1. Quiet(q) /\ FinalStep
  BY UnchangedQuiet DEF IInv, Quiet
<1>2. /\ rows \in SUBSET Rows /\ rows # {} /\ x \in rows
      /\ \A y \in rows : Free(q, y)
      /\ Go(q, "locked", found, rows)
  OBVIOUS
<1> HIDE DEF rows
<1> QED
  BY <1>1, <1>2, GoKeeps

\* A handler that reads, and goes on or refuses.
LEMMA ReadSteps ==
    ASSUME IInv, NEW q \in Attempts,
           Register(q) \/ Login(q) \/ Refresh(q) \/ Logout(q) \/ Authenticate(q)
             \/ LockAccount(q) \/ RequestReset(q) \/ ConfirmReset(q)
    PROVE  IInv' /\ FinalStep
<1>1. TypeOK /\ FoundOK
  BY DEF IInv
<1>2. Refuse(q) /\ phase[q] # "idle" => IInv' /\ FinalStep
  BY RefuseKeeps
<1>3. Answer(q, "ok") /\ UNCHANGED tables /\ phase[q] # "idle" => IInv' /\ FinalStep
  BY <1>1, UnchangedQuiet, AnswerKeeps DEF Quiet
<1>4. /\ seen[q] \in Found
      /\ \A u \in Users : /\ [seen[q] EXCEPT !.user = u] \in Found
                          /\ [seen[q] EXCEPT !.user = u].user = u
      /\ \A s \in Sessions : /\ [seen[q] EXCEPT !.session = s] \in Found
                             /\ [seen[q] EXCEPT !.session = s].session = s
  BY SeenType DEF Found
<1>5. CASE Register(q)
  BY <1>2, <1>4, <1>5, GoRead DEF Register, At
<1>6. CASE Login(q)
  <2>1. phase[q] = "received" /\ request[q].op = "login"
    BY <1>6 DEF Login, At
  <2>2. ASSUME NEW u \in Users, UNCHANGED tables,
               Go(q, "read", [seen[q] EXCEPT !.user = u], {})
        PROVE  IInv' /\ FinalStep
    BY <1>4, <2>1, <2>2, GoRead
  <2> QED
    BY <1>2, <1>6, <2>1, <2>2 DEF Login, ByEmail
<1>7. CASE Refresh(q)
  <2> DEFINE s == request[q].token[1]
  <2>1. s \in Sessions /\ request[q].op = "refresh" /\ phase[q] = "received"
    BY <1>1, <1>7, BodyType DEF Refresh, At
  <2>2. ASSUME UNCHANGED tables, Free(q, <<"session", s>>),
               Go(q, "locked", [seen[q] EXCEPT !.session = s], {<<"session", s>>})
        PROVE  IInv' /\ FinalStep
    <3> HIDE DEF s
    <3>1. <<"session", s>> \in Rows
      BY <2>1 DEF Rows
    <3> QED
      BY <1>4, <2>1, <2>2, <3>1, GoLock
  <2> QED
    BY <1>2, <1>7, <2>1, <2>2 DEF Refresh, At
<1>8. CASE Logout(q)
  <2> DEFINE s == request[q].token[1]
  <2>1. s \in Sessions /\ request[q].op = "logout" /\ phase[q] = "received"
    BY <1>1, <1>8, BodyType DEF Logout, At
  <2>2. ASSUME UNCHANGED tables, Go(q, "read", [seen[q] EXCEPT !.session = s], {})
        PROVE  IInv' /\ FinalStep
    <3> HIDE DEF s
    <3> QED
      BY <1>4, <2>1, <2>2, GoRead
  <2> QED
    BY <1>3, <1>8, <2>1, <2>2 DEF Logout, At
<1>9. CASE Authenticate(q)
  <2> DEFINE s == request[q].session
             u == user_sessions[s].user
             found == [seen[q] EXCEPT !.user = u, !.session = s, !.row = users[u]]
  <2>1. /\ s \in Sessions /\ phase[q] = "received"
        /\ request[q].op \in {"update_me", "withdraw"}
    BY <1>1, <1>9, BodyType DEF Authenticate
  <2>2. ASSUME UNCHANGED tables, IsLive(s), Go(q, "read", found, {})
        PROVE  IInv' /\ FinalStep
    <3>1. u \in Users /\ users[u] \in UserRow
      BY <1>1, <2>1, <2>2 DEF TypeOK, SessionRow, IsLive
    <3>2. found \in Found
      BY <2>1, <3>1, SeenType
    <3>3. found.user = u
      BY <1>4 DEF Found
    <3> HIDE DEF found, u, s
    <3> QED
      BY <2>1, <2>2, <3>1, <3>2, <3>3, GoRead
  <2> QED
    BY <1>2, <1>9, <2>1, <2>2 DEF Authenticate
<1>10. CASE LockAccount(q)
  <2> DEFINE u == seen[q].user
  <2>1. u \in Users /\ request[q].op = "withdraw" /\ phase[q] = "read"
    BY <1>1, <1>10 DEF LockAccount, At, FoundOK
  <2>2. ASSUME UNCHANGED tables, Free(q, <<"user", u>>), IsActive(u),
               Go(q, "locked", seen[q], {<<"user", u>>})
        PROVE  IInv' /\ FinalStep
    <3>1. <<"user", u>> \in Rows
      BY <2>1 DEF Rows
    <3> QED
      BY <1>4, <2>1, <2>2, <3>1, GoLock
  <2> QED
    BY <1>2, <1>10, <2>1, <2>2 DEF LockAccount, At
<1>11. CASE RequestReset(q)
  <2>1. phase[q] = "received" /\ request[q].op = "request_reset"
    BY <1>11 DEF RequestReset, At
  <2>2. ASSUME NEW u \in Users, UNCHANGED tables,
               Go(q, "read", [seen[q] EXCEPT !.user = u], {})
        PROVE  IInv' /\ FinalStep
    BY <1>4, <2>1, <2>2, GoRead
  <2> QED
    BY <1>3, <1>11, <2>1, <2>2 DEF RequestReset, ByEmail
<1>12. CASE ConfirmReset(q)
  <2>1. request[q].op = "confirm_reset" /\ phase[q] = "received"
    BY <1>12 DEF ConfirmReset, At
  <2>2. ASSUME NEW u \in Users, UNCHANGED tables, IsActive(u), Free(q, <<"user", u>>),
               Go(q, "locked", [seen[q] EXCEPT !.user = u], {<<"user", u>>})
        PROVE  IInv' /\ FinalStep
    <3>1. <<"user", u>> \in Rows
      BY DEF Rows
    <3> QED
      BY <1>4, <2>1, <2>2, <3>1, GoLock
  <2> QED
    BY <1>2, <1>12, <2>1, <2>2 DEF ConfirmReset
<1> QED
  BY <1>5, <1>6, <1>7, <1>8, <1>9, <1>10, <1>11, <1>12

\* A handler that writes and answers, except a withdrawal: no account ends.
LEMMA WriteSteps ==
    ASSUME IInv, NEW q \in Attempts,
           InsertUser(q) \/ OpenSession(q) \/ Rotate(q) \/ RevokeSession(q)
             \/ UpdateProfile(q) \/ SendMail(q) \/ ResetPassword(q)
    PROVE  IInv' /\ FinalStep
<1>1. TypeOK /\ FoundOK
  BY DEF IInv
<1>2. ASSUME Answer(q, "ok"), Quiet(q), phase[q] # "idle"
      PROVE  IInv' /\ FinalStep
  BY <1>2, AnswerKeeps DEF Quiet
<1>3. users \in [Users -> UserRow] /\ user_sessions \in [Sessions -> SessionRow]
  BY <1>1 DEF TypeOK
<1>4. CASE InsertUser(q)
  <2> DEFINE m == request[q]
             row == NewUser(m.email, m.password, m.name)
  <2>1. /\ m.email \in Emails /\ m.password \in Passwords /\ m.name \in Names
        /\ phase[q] = "read" /\ q \in Users
    BY <1>1, <1>4, BodyType DEF InsertUser, At, Users
  <2>2. users[q].status = "UNREGISTERED"
    BY <2>1 DEF IInv, Fresh
  <2>3. row \in UserRow /\ row.status = "ACTIVE"
    BY <2>1 DEF UserRow, NewUser, NoRow
  <2>4. ASSUME users' = [users EXCEPT ![q] = row], Answer(q, "ok"),
               UNCHANGED <<user_sessions, audit_logs, reset_tokens, mailed>>
        PROVE  Quiet(q)
    <3>1. phase'[q] = "answered"
      BY <1>1, <2>4 DEF Answer, TypeOK
    <3> HIDE DEF row
    <3> QED
      BY <1>1, <1>3, <2>1, <2>2, <2>3, <2>4, <3>1 DEF Quiet, FinalStep, TypeOK
  <2> HIDE DEF row
  <2>5. Refuse(q) => IInv' /\ FinalStep
    BY <2>1, RefuseKeeps
  <2> QED
    BY <1>2, <1>4, <2>1, <2>4, <2>5 DEF InsertUser, row
<1>5. ASSUME NEW s \in Sessions, NEW row \in SessionRow,
             user_sessions' = [user_sessions EXCEPT ![s] = row],
             UNCHANGED <<users, audit_logs, reset_tokens, mailed>>
      PROVE  Quiet(q)
  BY <1>1, <1>3, <1>5 DEF Quiet, FinalStep, TypeOK
<1>6. CASE OpenSession(q)
  <2> DEFINE row == NewSession(seen[q].user)
  <2>1. seen[q].user \in Users /\ phase[q] = "read" /\ q \in Sessions
    BY <1>1, <1>6 DEF OpenSession, At, FoundOK, Sessions
  <2>2. row \in SessionRow
    BY <2>1 DEF SessionRow, NewSession
  <2>3. Quiet(q)
    BY <1>5, <1>6, <2>1, <2>2 DEF OpenSession
  <2> QED
    BY <1>2, <1>6, <2>1, <2>3 DEF OpenSession
<1>7. CASE Rotate(q)
  <2> DEFINE s == seen[q].session
             row == [user_sessions[s] EXCEPT !.token = user_sessions[s].token + 1,
                                             !.expired = FALSE]
  <2>1. s \in Sessions /\ phase[q] = "locked"
    BY <1>1, <1>7 DEF Rotate, At, FoundOK
  <2>2. row \in SessionRow
    <3>1. user_sessions[s] \in SessionRow
      BY <1>3, <2>1
    <3>2. user_sessions[s].token + 1 \in Nat
      BY <3>1 DEF SessionRow
    <3> QED
      BY <3>1, <3>2 DEF SessionRow
  <2>3. /\ user_sessions' = [user_sessions EXCEPT ![s] = row]
        /\ UNCHANGED <<users, audit_logs, reset_tokens, mailed>>
    BY <1>3, <1>7, <2>1 DEF Rotate
  <2>4. Quiet(q)
    <3> HIDE DEF row, s
    <3> QED
      BY <1>5, <2>1, <2>2, <2>3
  <2> QED
    BY <1>2, <1>7, <2>1, <2>4 DEF Rotate
<1>8. CASE RevokeSession(q)
  <2> DEFINE s == seen[q].session
             row == [user_sessions[s] EXCEPT !.revoke_reason = "LOGOUT"]
  <2>1. s \in Sessions /\ phase[q] = "read"
    BY <1>1, <1>8 DEF RevokeSession, At, FoundOK
  <2>2. row \in SessionRow
    BY <1>3, <2>1 DEF SessionRow
  <2>3. Quiet(q)
    BY <1>5, <1>8, <2>1, <2>2 DEF RevokeSession
  <2> QED
    BY <1>2, <1>8, <2>1, <2>3 DEF RevokeSession
<1>9. CASE UpdateProfile(q)
  <2> DEFINE m == request[q]
             u == seen[q].user
             newName == m.name \notin {"keep", seen[q].row.name}
             newPhone == \/ m.phone = "some"
                         \/ m.phone = "none" /\ seen[q].row.phone = "some"
             name == IF newName THEN m.name ELSE users[u].name
             phone == IF newPhone THEN m.phone ELSE users[u].phone
             row == [users[u] EXCEPT !.name = name, !.phone = phone]
  <2>1. u \in Users /\ phase[q] = "read"
    BY <1>1, <1>9 DEF UpdateProfile, At, FoundOK
  <2>2. m.name \in Names \cup {"keep"} /\ m.phone \in {"none", "some", "keep"}
    BY <1>1, <1>9, BodyType DEF UpdateProfile, At
  <2>3. /\ row \in UserRow /\ row.status = users[u].status
        /\ row.email = users[u].email /\ row.password = users[u].password
    <3>1. users[u] \in UserRow
      BY <1>3, <2>1
    <3>2. name \in Names \cup {"withdrawn"} /\ phone \in {"none", "some"}
      BY <2>2, <3>1 DEF UserRow
    <3> HIDE DEF name, phone
    <3>3. row \in UserRow
      <4>1. \A r \in UserRow, n \in Names \cup {"withdrawn"}, h \in {"none", "some"} :
              [r EXCEPT !.name = n, !.phone = h] \in UserRow
        BY DEF UserRow
      <4> QED
        BY <3>1, <3>2, <4>1
    <3> QED
      BY <3>1, <3>3 DEF UserRow
  <2>4. users' = [users EXCEPT ![u] = row]
    BY <1>3, <1>9, <2>1 DEF UpdateProfile
  <2>5. /\ Answer(q, "ok")
        /\ UNCHANGED <<user_sessions, audit_logs, reset_tokens, mailed>>
    BY <1>9 DEF UpdateProfile
  <2> HIDE DEF row, name, phone
  <2>6. Quiet(q)
    BY <1>1, <1>3, <2>1, <2>3, <2>4, <2>5 DEF Quiet, FinalStep, TypeOK
  <2> QED
    BY <1>2, <2>1, <2>5, <2>6
<1>10. CASE SendMail(q)
  <2>1. seen[q].token \in 1 .. reset_tokens
    BY <1>1, <1>10 DEF SendMail, At, FoundOK
  <2>2. /\ mailed' = mailed \cup {seen[q].token}
        /\ UNCHANGED <<users, user_sessions, audit_logs, reset_tokens>>
    BY <1>10 DEF SendMail
  <2>3. FinalStep
    BY <2>2 DEF FinalStep
  <2>4. mailed' \subseteq 1 .. reset_tokens'
    BY <1>1, <2>1, <2>2 DEF TypeOK
  <2>5. Quiet(q)
    BY <1>1, <2>2, <2>3, <2>4 DEF Quiet, TypeOK
  <2> QED
    BY <1>2, <1>10, <2>5 DEF SendMail, At
<1>11. CASE ResetPassword(q)
  <2> DEFINE u == seen[q].user
             row == [users[u] EXCEPT !.password = request[q].password,
                                     !.reset = 0, !.reset_expired = FALSE]
  <2>1. u \in Users /\ phase[q] = "locked" /\ request[q].password \in Passwords
    BY <1>1, <1>11, BodyType DEF ResetPassword, At, FoundOK
  <2>2. users[u].status = "ACTIVE"
    BY <1>11, <2>1 DEF ResetPassword, At, IInv, LockedActive, IsActive
  <2>3. row \in UserRow /\ row.status = users[u].status
    <3>1. users[u] \in UserRow
      BY <1>3, <2>1
    <3> QED
      BY <2>1, <3>1 DEF UserRow
  <2>4. user_sessions' \in [Sessions -> SessionRow]
    BY <1>3, <1>11 DEF ResetPassword, Revoked, SessionRow
  <2>5. users' = [users EXCEPT ![u] = row]
    BY <1>11 DEF ResetPassword
  <2> HIDE DEF row
  <2>6. Quiet(q)
    BY <1>1, <1>3, <1>11, <2>1, <2>2, <2>3, <2>4, <2>5
    DEF ResetPassword, Quiet, FinalStep, TypeOK
  <2> QED
    BY <1>2, <1>11, <2>1, <2>6 DEF ResetPassword
<1> QED
  BY <1>4, <1>6, <1>7, <1>8, <1>9, <1>10, <1>11


\* A new reset token is one that no mail has yet.
LEMMA StoreStep ==
    ASSUME IInv, NEW q \in Attempts, StoreResetToken(q)
    PROVE  IInv' /\ FinalStep
<1> DEFINE u == seen[q].user
           n == reset_tokens + 1
           row == [users[u] EXCEPT !.reset = n, !.reset_expired = FALSE]
           found == [seen[q] EXCEPT !.token = n]
<1>1. TypeOK /\ FoundOK
  BY DEF IInv
<1>2. /\ u \in Users /\ phase[q] = "read" /\ request[q].op = "request_reset"
      /\ users[u] \in UserRow
  BY <1>1 DEF StoreResetToken, At, FoundOK, TypeOK
<1>3. /\ reset_tokens' = n /\ users' = [users EXCEPT ![u] = row]
      /\ Go(q, "stored", found, {})
      /\ UNCHANGED <<user_sessions, audit_logs, mailed>>
  BY DEF StoreResetToken
<1>4. n \in Nat /\ n >= reset_tokens /\ n \in 1 .. n
  BY <1>1 DEF TypeOK
<1>5. /\ row \in UserRow /\ row.status = users[u].status
      /\ row.email = users[u].email /\ row.password = users[u].password
  BY <1>2, <1>4 DEF UserRow
<1>6. found \in Found /\ found.token = n
  BY <1>4, SeenType DEF Found
<1> HIDE DEF row, found
<1>7. mailed' \subseteq 1 .. reset_tokens'
  BY <1>1, <1>3 DEF TypeOK
<1>8. Quiet(q)
  BY <1>1, <1>2, <1>3, <1>4, <1>5, <1>7 DEF Quiet, FinalStep, TypeOK
<1>9. {} \in SUBSET Rows
  OBVIOUS
<1> HIDE DEF n
<1>10. IInv'
  BY <1>2, <1>3, <1>4, <1>6, <1>8, <1>9, GoKeeps
<1> QED
  BY <1>8, <1>10 DEF Quiet

\* A withdrawal ends an account that is there, since it holds the row.
LEMMA WithdrawStep ==
    ASSUME IInv, NEW q \in Attempts, Withdraw(q)
    PROVE  IInv' /\ FinalStep
<1> DEFINE u == seen[q].user
           row == [status |-> "INACTIVE", email |-> <<"withdrawn", u>>,
                   password |-> "random", name |-> "withdrawn",
                   phone |-> "none", reset |-> 0, reset_expired |-> FALSE]
<1>1. TypeOK /\ FoundOK
  BY DEF IInv
<1>2. u \in Users /\ phase[q] = "locked" /\ request[q].op = "withdraw"
  BY <1>1 DEF Withdraw, At, FoundOK
<1>3. <<"user", u>> \in locks[q] /\ users[u].status = "ACTIVE"
  BY <1>2 DEF IInv, LockedActive, IsActive
<1>4. /\ users' = [users EXCEPT ![u] = row]
      /\ user_sessions' = Revoked(u, "ACCOUNT_WITHDRAWAL")
      /\ audit_logs' = [audit_logs EXCEPT ![u] = @ + 1]
      /\ Answer(q, "ok") /\ reset_tokens' = reset_tokens /\ mailed' = mailed
  BY DEF Withdraw
<1>5. row \in UserRow /\ row.status = "INACTIVE"
  BY <1>2 DEF UserRow
<1>6. user_sessions' \in [Sessions -> SessionRow]
  BY <1>1, <1>4 DEF TypeOK, Revoked, SessionRow
<1> HIDE DEF row
<1>7. /\ \A p \in Attempts \ {q} : phase'[p] = phase[p] /\ locks'[p] = locks[p]
                                    /\ answer'[p] = answer[p]
      /\ phase'[q] = "answered" /\ locks'[q] = {} /\ answer'[q] = "ok"
      /\ request' = request /\ seen' = seen
  BY <1>1, <1>4 DEF TypeOK, Answer
<1>8. /\ users' \in [Users -> UserRow] /\ users'[u].status = "INACTIVE"
      /\ \A v \in Users \ {u} : users'[v] = users[v]
  BY <1>1, <1>2, <1>4, <1>5 DEF TypeOK
<1>9. audit_logs[u] = 0
  BY <1>2, <1>3 DEF IInv, AuditMatches
<1>10. /\ audit_logs' \in [Users -> Nat] /\ audit_logs'[u] = 1
       /\ \A v \in Users \ {u} : audit_logs'[v] = audit_logs[v]
  BY <1>1, <1>2, <1>4, <1>9 DEF TypeOK
<1>11. TypeOK'
  <2>1. /\ phase' = [phase EXCEPT ![q] = "answered"]
        /\ answer' = [answer EXCEPT ![q] = "ok"]
        /\ locks' = [locks EXCEPT ![q] = {}]
    BY <1>4 DEF Answer
  <2> QED
    BY <1>1, <1>2, <1>4, <1>6, <1>7, <1>8, <1>10, <2>1 DEF TypeOK
<1>12. FoundOK'
  BY <1>1, <1>4, <1>7 DEF FoundOK
<1>13. Fresh'
  BY <1>3, <1>7, <1>8 DEF IInv, Fresh, Users
<1>14. LockedActive'
  <2> SUFFICES ASSUME NEW p \in Attempts, phase'[p] = "locked",
                      request[p].op \in {"withdraw", "confirm_reset"}
               PROVE  /\ <<"user", seen[p].user>> \in locks'[p]
                      /\ users'[seen[p].user].status = "ACTIVE"
    BY <1>7 DEF LockedActive, IsActive
  <2>1. p # q /\ phase[p] = "locked" /\ locks'[p] = locks[p]
    BY <1>7
  <2>2. /\ <<"user", seen[p].user>> \in locks[p] /\ seen[p].user \in Users
        /\ users[seen[p].user].status = "ACTIVE"
    BY <1>1, <2>1 DEF IInv, LockedActive, IsActive, FoundOK
  <2>3. seen[p].user # u
    BY <1>3, <2>1, <2>2 DEF IInv, Exclusive
  <2> QED
    BY <1>8, <2>1, <2>2, <2>3
<1>15. Exclusive'
  BY <1>7 DEF IInv, Exclusive
<1>16. AuditMatches'
  BY <1>8, <1>10 DEF IInv, AuditMatches
<1>17. FinalStep
  BY <1>3, <1>8 DEF FinalStep
<1> QED
  BY <1>11, <1>12, <1>13, <1>14, <1>15, <1>16, <1>17 DEF IInv

-----------------------------------------------------------------------------

\* The arrival of a request is none of the accounts' business.
LEMMA ReceiveStep ==
    ASSUME IInv, NEW q \in Attempts, Receive(q)
    PROVE  IInv' /\ FinalStep
<1>1. PICK m \in Bodies : request' = [request EXCEPT ![q] = m]
  BY DEF Receive
<1>2. /\ phase[q] = "idle" /\ phase' = [phase EXCEPT ![q] = "received"]
      /\ UNCHANGED <<users, user_sessions, audit_logs, reset_tokens, mailed, seen, locks, answer>>
  BY DEF Receive, tables
<1>3. m # Unasked
  BY <1>1 DEF Bodies, Unasked
<1>4. TypeOK
  BY DEF IInv
<1>5. /\ \A p \in Attempts \ {q} : phase'[p] = phase[p] /\ request'[p] = request[p]
      /\ phase'[q] = "received" /\ request'[q] = m
      /\ phase' \in [Attempts -> {"idle", "received", "read", "locked", "stored", "answered"}]
      /\ request' \in [Attempts -> Bodies \cup {Unasked}]
  BY <1>1, <1>2, <1>4 DEF TypeOK
<1>6. TypeOK'
  BY <1>2, <1>3, <1>4, <1>5 DEF TypeOK
<1>7. FoundOK'
  BY <1>2, <1>5 DEF IInv, FoundOK
<1>8. Fresh' /\ Exclusive' /\ AuditMatches' /\ FinalStep
  BY <1>2, <1>5 DEF IInv, Fresh, Exclusive, AuditMatches, FinalStep
<1>9. LockedActive'
  BY <1>2, <1>5 DEF IInv, LockedActive, IsActive
<1> QED
  BY <1>6, <1>7, <1>8, <1>9 DEF IInv

\* A failure rolls back.
LEMMA FailStep ==
    ASSUME IInv, NEW q \in Attempts, Fail(q)
    PROVE  IInv' /\ FinalStep
<1>1. TypeOK /\ phase[q] # "idle" /\ Answer(q, "error") /\ UNCHANGED tables
  BY DEF Fail, IInv
<1>2. Quiet(q)
  BY <1>1, UnchangedQuiet
<1> QED
  BY <1>1, <1>2, AnswerKeeps DEF Quiet

\* Neither does time end an account.
LEMMA ExpireSteps ==
    ASSUME IInv, \/ \E s \in Sessions : ExpireSession(s)
                 \/ \E u \in Users : ExpireResetToken(u)
    PROVE  IInv' /\ FinalStep
<1>1. /\ UNCHANGED <<audit_logs, reset_tokens, mailed, phase, request, seen, locks, answer>>
      /\ user_sessions' \in [Sessions -> SessionRow]
      /\ users' \in [Users -> UserRow]
      /\ \A u \in Users : /\ users'[u].status = users[u].status
                          /\ users'[u].email = users[u].email
                          /\ users'[u].password = users[u].password
  <2>1. users \in [Users -> UserRow] /\ user_sessions \in [Sessions -> SessionRow]
    BY DEF IInv, TypeOK
  <2>2. ASSUME NEW s \in Sessions, ExpireSession(s)
        PROVE  <1>1
    <3>1. [user_sessions[s] EXCEPT !.expired = TRUE] \in SessionRow
      BY <2>1 DEF SessionRow
    <3> QED
      BY <2>1, <2>2, <3>1 DEF ExpireSession
  <2>3. ASSUME NEW u \in Users, ExpireResetToken(u)
        PROVE  <1>1
    <3> DEFINE row == [users[u] EXCEPT !.reset_expired = TRUE]
    <3>1. /\ row \in UserRow /\ row.status = users[u].status
          /\ row.email = users[u].email /\ row.password = users[u].password
      <4>1. users[u] \in UserRow
        BY <2>1
      <4> QED
        BY <4>1 DEF UserRow
    <3>2. /\ users' = [users EXCEPT ![u] = row]
          /\ UNCHANGED <<user_sessions, audit_logs, reset_tokens, mailed,
                         phase, request, seen, locks, answer>>
      BY <2>3 DEF ExpireResetToken
    <3> HIDE DEF row
    <3> QED
      BY <2>1, <3>1, <3>2
  <2> QED
    BY <2>2, <2>3
<1>2. TypeOK'
  BY <1>1 DEF IInv, TypeOK
<1>3. FoundOK' /\ Exclusive'
  BY <1>1 DEF IInv, FoundOK, Exclusive
<1>4. LockedActive'
  BY <1>1 DEF IInv, LockedActive, FoundOK, IsActive
<1>5. Fresh' /\ AuditMatches' /\ FinalStep
  BY <1>1 DEF IInv, Fresh, AuditMatches, FinalStep, Users
<1> QED
  BY <1>2, <1>3, <1>4, <1>5 DEF IInv

\* Every step keeps the invariant, and the accounts that ended stay ended.
LEMMA NextKeeps ==
    ASSUME IInv, [Next]_vars
    PROVE  IInv' /\ FinalStep
<1>1. CASE UNCHANGED vars
  BY <1>1 DEF vars, tables, IInv, TypeOK, FoundOK, Fresh, LockedActive, Exclusive,
              AuditMatches, FinalStep, IsActive
<1>2. ASSUME NEW q \in Attempts, Receive(q) \/ Proceed(q) \/ Fail(q)
      PROVE  IInv' /\ FinalStep
  BY <1>2, ReceiveStep, ReadSteps, WriteSteps, StoreStep, WithdrawStep, FailStep DEF Proceed
<1>3. CASE \/ \E s \in Sessions : ExpireSession(s)
           \/ \E u \in Users : ExpireResetToken(u)
  BY <1>3, ExpireSteps
<1> QED
  BY <1>1, <1>2, <1>3 DEF Next

\* Nobody has withdrawn at first.
LEMMA InitKeeps ==
    ASSUME Init
    PROVE  IInv
<1>1. PICK row \in [Established -> {NewUser(e, p, n) : e \in Emails, p \in Passwords, n \in Names}] :
          users = [u \in Users |-> IF u \in Established THEN row[u] ELSE NoRow]
  BY DEF Init
<1>2. /\ \A u \in Users : users[u] \in UserRow /\ users[u].status # "INACTIVE"
      /\ \A q \in Attempts : q \in Users /\ users[q].status = "UNREGISTERED"
      /\ users \in [Users -> UserRow]
  <2>1. NoRow \in UserRow /\ NoRow.status = "UNREGISTERED"
    BY DEF NoRow, UserRow
  <2>2. ASSUME NEW u \in Users
        PROVE  users[u] \in UserRow /\ users[u].status # "INACTIVE"
    <3>1. CASE u \in Established
      <4>1. \A e \in Emails, p \in Passwords, n \in Names :
              NewUser(e, p, n) \in UserRow /\ NewUser(e, p, n).status = "ACTIVE"
        BY DEF NewUser, NoRow, UserRow
      <4> QED
        BY <1>1, <3>1, <4>1
    <3>2. CASE u \notin Established
      BY <1>1, <2>1, <3>2
    <3> QED
      BY <3>1, <3>2
  <2>3. ASSUME NEW q \in Attempts
        PROVE  q \in Users /\ users[q].status = "UNREGISTERED"
    BY <1>1, <2>1, AttemptsAssumption DEF Users
  <2> QED
    BY <1>1, <2>2, <2>3
<1>3. user_sessions \in [Sessions -> SessionRow]
  <2>1. PICK owner \in [Opened -> Established] :
          user_sessions = [s \in Sessions |->
               IF s \in Opened THEN NewSession(owner[s]) ELSE NoSession]
    BY DEF Init
  <2> QED
    BY <2>1 DEF SessionRow, Users, NewSession, NoSession
<1>4. /\ audit_logs = [u \in Users |-> 0] /\ reset_tokens = 0 /\ mailed = {}
      /\ phase = [q \in Attempts |-> "idle"] /\ request = [q \in Attempts |-> Unasked]
      /\ seen = [q \in Attempts |-> Nothing] /\ locks = [q \in Attempts |-> {}]
      /\ answer = [q \in Attempts |-> "none"]
  BY DEF Init
<1>5. TypeOK
  BY <1>2, <1>3, <1>4 DEF TypeOK
<1>6. FoundOK
  <2>1. Nothing \in Found
    BY DEF Nothing, Found, NoRow, UserRow
  <2> QED
    BY <1>4, <2>1 DEF FoundOK
<1>7. Fresh /\ LockedActive /\ Exclusive
  BY <1>2, <1>4 DEF Fresh, LockedActive, Exclusive
<1>8. AuditMatches
  BY <1>2, <1>4 DEF AuditMatches
<1> QED
  BY <1>5, <1>6, <1>7, <1>8 DEF IInv

-----------------------------------------------------------------------------

\* Whatever the requests and however they interleave, the account service
\* keeps to its types and to its row locks.
THEOREM AccountsInvariant == Spec => []IInv
<1>1. Init => IInv
  BY InitKeeps
<1>2. IInv /\ [Next]_vars => IInv'
  BY NextKeeps
<1> QED
  BY <1>1, <1>2, PTL DEF Spec

\* The types of all tables and of what attempts hold, services/auth.py.
THEOREM AccountsTyped == Spec => []TypeOK
<1>1. IInv => TypeOK
  BY DEF IInv
<1> QED
  BY <1>1, AccountsInvariant, PTL

\* withdraw_current_user ends an account at most once, and logs it.
THEOREM AuditMatchesCorrect == Spec => []AuditMatches
<1>1. IInv => AuditMatches
  BY DEF IInv
<1> QED
  BY <1>1, AccountsInvariant, PTL

\* No request, late or early, opens an account again that was withdrawn, or
\* gives it an address or a password.
THEOREM WithdrawalIsFinalCorrect == Spec => WithdrawalIsFinal
<1>1. IInv /\ [Next]_vars => [FinalStep]_vars
  BY NextKeeps
<1> QED
  BY <1>1, AccountsInvariant, PTL DEF Spec, WithdrawalIsFinal, FinalStep

-----------------------------------------------------------------------------
(* Tokens: a session or a reset is worth one rotation, or one password, and *)
(* a session that ended is not prolonged.                                   *)

\* A session has no owner until the last step of the login that opens it.
SessionsFresh ==
    \A q \in Attempts : phase[q] # "answered" => user_sessions[q] = NoSession

\* A handler that did not look for a session knows none.
NotYetFound ==
    \A q \in Attempts : phase[q] \in {"idle", "received"} => seen[q].session = NoOne

\* Between the lock and the rotation the token is the last one, the session
\* goes on, and its user, whose row is not locked, is still there.
RotationHolds ==
    \A q \in Attempts :
      phase[q] = "locked" /\ request[q].op = "refresh" =>
         LET s == seen[q].session
         IN  /\ request[q].token = <<s, user_sessions[s].token>>
             /\ <<"session", s>> \in locks[q]
             /\ user_sessions[s].user # NoOne
             /\ user_sessions[s].revoke_reason = "none"
             /\ IsActive(user_sessions[s].user)

\* A refresh token that was taken is behind the session's.
RotationsSpent ==
    \A q \in Attempts :
      request[q].op = "refresh" /\ answer[q] = "ok" =>
         request[q].token[2] < user_sessions[request[q].token[1]].token

\* Reset tokens are numbered, and no two accounts wait for the same one.
ResetsApart ==
    /\ \A u \in Users : users[u].reset <= reset_tokens
    /\ \A u, v \in Users : users[u].reset = users[v].reset => u = v \/ users[u].reset = 0

\* Who confirms a reset has the token that the account waits for; who has
\* confirmed one has a token that no account waits for.
ResetsSpent ==
    \A q \in Attempts :
      request[q].op = "confirm_reset" =>
         /\ request[q].token \in mailed
         /\ phase[q] = "locked" => users[seen[q].user].reset = request[q].token
         /\ answer[q] = "ok" => \A u \in Users : users[u].reset # request[q].token

\* A logout that found a session found one that was open.
LogoutFound ==
    \A q \in Attempts :
      phase[q] = "read" /\ request[q].op = "logout" =>
         user_sessions[seen[q].session].user # NoOne

TokensInv ==
    /\ SessionsFresh /\ NotYetFound /\ RotationHolds /\ RotationsSpent
    /\ ResetsApart /\ ResetsSpent /\ LogoutFound
    /\ LogoutSticks /\ TokenOnce

\* What a step of attempt q does to session s: nothing; a revocation or an
\* expiry; its opening; a rotation.
SessionMoves(q, s) ==
    \/ user_sessions'[s] = user_sessions[s]
    \/ /\ user_sessions[s].user # NoOne
       /\ user_sessions'[s].user = user_sessions[s].user
       /\ user_sessions'[s].token = user_sessions[s].token
       /\ \/ user_sessions'[s].revoke_reason = user_sessions[s].revoke_reason
          \/ /\ user_sessions'[s].revoke_reason # "none"
             /\ Free(q, <<"session", s>>)
    \/ /\ s = q /\ phase'[q] = "answered" /\ request[q].op = "login"
       /\ user_sessions'[s].token = 1
    \/ /\ At(q, "refresh", "locked") /\ s = seen[q].session /\ phase'[q] = "answered"
       /\ user_sessions'[s].user = user_sessions[s].user
       /\ user_sessions'[s].token = user_sessions[s].token + 1
       /\ user_sessions'[s].revoke_reason = user_sessions[s].revoke_reason

\* What it does to account u: nothing of interest here; its registration; a
\* new reset token; a new password; its end.
UserMoves(q, u) ==
    \/ /\ users'[u].status = users[u].status
       /\ users'[u].reset = users[u].reset
    \/ u = q /\ users'[u].status = "ACTIVE" /\ users'[u].reset = 0
    \/ /\ users'[u].status = users[u].status
       /\ u = seen[q].user /\ Free(q, <<"user", u>>)
       /\ users'[u].reset = reset_tokens + 1 /\ reset_tokens' = reset_tokens + 1
    \/ /\ users'[u].status = users[u].status
       /\ u = seen[q].user /\ At(q, "confirm_reset", "locked")
       /\ users'[u].reset = 0
    \/ /\ u = seen[q].user /\ At(q, "withdraw", "locked") /\ SessionsFree(q, u)
       /\ users'[u].reset = 0

\* What it does to the attempts: the others stay where they are.
AttemptMoves(q) ==
    /\ \A p \in Attempts \ {q} :
          /\ phase'[p] = phase[p] /\ request'[p] = request[p] /\ seen'[p] = seen[p]
          /\ locks'[p] = locks[p] /\ answer'[p] = answer[p]
    /\ phase[q] # "answered" /\ phase'[q] # "idle"
    /\ \/ /\ phase[q] = "idle" /\ phase'[q] = "received"
          /\ seen'[q] = seen[q] /\ answer'[q] = answer[q]
       \/ /\ request'[q] = request[q] /\ phase'[q] # "received"

-----------------------------------------------------------------------------

\* Every step moves one attempt only.
LEMMA AttemptsMove ==
    ASSUME IInv, NEW q \in Attempts, Receive(q) \/ Proceed(q) \/ Fail(q)
    PROVE  AttemptMoves(q)
<1> USE DEF IInv, TypeOK, FoundOK
<1>1. ASSUME NEW p \in {"read", "locked", "stored"}, NEW found, NEW rows,
             phase[q] \notin {"idle", "answered"}, Go(q, p, found, rows)
      PROVE  AttemptMoves(q)
  BY <1>1 DEF Go, AttemptMoves
<1>2. ASSUME NEW kind, phase[q] \notin {"idle", "answered"}, Answer(q, kind)
      PROVE  AttemptMoves(q)
  BY <1>2 DEF Answer, AttemptMoves
<1>3. ASSUME phase[q] \notin {"idle", "answered"}, Refuse(q)
      PROVE  AttemptMoves(q)
  BY <1>2, <1>3 DEF Refuse
<1>4. CASE Receive(q)
  BY <1>4 DEF Receive, AttemptMoves
<1>5. CASE Fail(q)
  BY <1>2, <1>5 DEF Fail
<1> HIDE DEF IInv, TypeOK, FoundOK
<1>6. CASE Register(q) \/ Login(q)
  BY <1>1, <1>3, <1>6 DEF Register, Login, At
<1>7. CASE Refresh(q) \/ Authenticate(q) \/ LockAccount(q)
  BY <1>1, <1>3, <1>7 DEF Refresh, Authenticate, LockAccount, At
<1>8. CASE Logout(q) \/ RequestReset(q)
  BY <1>1, <1>2, <1>8 DEF Logout, RequestReset, At
<1>9. CASE ConfirmReset(q)
  BY <1>1, <1>3, <1>9 DEF ConfirmReset, At
<1>10. CASE InsertUser(q)
  BY <1>2, <1>3, <1>10 DEF InsertUser, At
<1>11. CASE OpenSession(q) \/ Rotate(q) \/ RevokeSession(q) \/ UpdateProfile(q)
             \/ SendMail(q) \/ ResetPassword(q) \/ Withdraw(q)
  BY <1>2, <1>11 DEF OpenSession, Rotate, RevokeSession, UpdateProfile, SendMail,
                     ResetPassword, Withdraw, At
<1>12. CASE StoreResetToken(q)
  BY <1>1, <1>12 DEF StoreResetToken, At
<1> QED
  BY <1>4, <1>5, <1>6, <1>7, <1>8, <1>9, <1>10, <1>11, <1>12 DEF Proceed

\* A revocation of all sessions of u waits for each of them.
LEMMA RevokedMoves ==
    ASSUME TypeOK, NEW q \in Attempts, NEW u \in Users, NEW reason,
           reason # "none", SessionsFree(q, u), user_sessions' = Revoked(u, reason),
           NEW s \in Sessions
    PROVE  SessionMoves(q, s)
<1>1. user_sessions[s] \in SessionRow
  BY DEF TypeOK
<1>2. CASE user_sessions[s].user = u /\ user_sessions[s].revoke_reason = "none"
  <2>1. user_sessions'[s] = [user_sessions[s] EXCEPT !.revoke_reason = reason]
    BY <1>2 DEF Revoked
  <2>2. u # NoOne
    BY AttemptsAssumption DEF Users
  <2>3. Free(q, <<"session", s>>)
    BY <1>2 DEF SessionsFree
  <2> QED
    BY <1>1, <1>2, <2>1, <2>2, <2>3 DEF SessionMoves, SessionRow
<1>3. CASE ~ (user_sessions[s].user = u /\ user_sessions[s].revoke_reason = "none")
  BY <1>3 DEF Revoked, SessionMoves
<1> QED
  BY <1>2, <1>3

\* Every handler moves sessions and accounts in these ways only.
LEMMA RowsMove ==
    ASSUME IInv, TokensInv, NEW q \in Attempts, Proceed(q)
    PROVE  /\ \A s \in Sessions : SessionMoves(q, s)
           /\ \A u \in Users : UserMoves(q, u)
           /\ mailed \subseteq mailed'
<1> DEFINE Moves == /\ \A s \in Sessions : SessionMoves(q, s)
                    /\ \A u \in Users : UserMoves(q, u)
                    /\ mailed \subseteq mailed'
<1>1. TypeOK /\ FoundOK
  BY DEF IInv
<1>2. users \in [Users -> UserRow] /\ user_sessions \in [Sessions -> SessionRow]
  BY <1>1 DEF TypeOK
<1>3. UNCHANGED user_sessions => \A s \in Sessions : SessionMoves(q, s)
  BY DEF SessionMoves
<1>4. UNCHANGED users => \A u \in Users : UserMoves(q, u)
  BY DEF UserMoves
<1>5. UNCHANGED tables => Moves
  BY <1>3, <1>4 DEF tables
<1>6. \A kind : Answer(q, kind) => phase'[q] = "answered"
  BY <1>1 DEF Answer, TypeOK
<1>7. CASE Register(q) \/ Login(q) \/ Refresh(q) \/ Logout(q) \/ Authenticate(q)
            \/ LockAccount(q) \/ RequestReset(q) \/ ConfirmReset(q)
  BY <1>5, <1>7 DEF Register, Login, Refresh, Logout, Authenticate, LockAccount,
                    RequestReset, ConfirmReset, Refuse
<1>8. CASE InsertUser(q)
  <2> DEFINE row == NewUser(request[q].email, request[q].password, request[q].name)
  <2>1. row.status = "ACTIVE" /\ row.reset = 0
    BY DEF NewUser
  <2>2. ASSUME users' = [users EXCEPT ![q] = row]
        PROVE  \A u \in Users : UserMoves(q, u)
    <3> HIDE DEF row
    <3> QED
      BY <1>2, <2>1, <2>2 DEF UserMoves
  <2> QED
    BY <1>3, <1>5, <1>8, <2>2 DEF InsertUser, Refuse
<1>9. CASE OpenSession(q)
  <2> DEFINE row == NewSession(seen[q].user)
  <2>1. row.token = 1
    BY DEF NewSession
  <2>2. /\ user_sessions' = [user_sessions EXCEPT ![q] = row]
        /\ request[q].op = "login" /\ phase'[q] = "answered"
        /\ users' = users /\ mailed' = mailed
    BY <1>6, <1>9 DEF OpenSession, At
  <2> HIDE DEF row
  <2>3. \A s \in Sessions : SessionMoves(q, s)
    BY <1>2, <2>1, <2>2 DEF SessionMoves
  <2> QED
    BY <1>4, <2>2, <2>3
<1>10. CASE Rotate(q)
  <2> DEFINE t == seen[q].session
             row == [user_sessions[t] EXCEPT !.token = user_sessions[t].token + 1,
                                             !.expired = FALSE]
  <2>1. t \in Sessions /\ At(q, "refresh", "locked")
    BY <1>1, <1>10 DEF Rotate, At, FoundOK
  <2>2. /\ row.user = user_sessions[t].user /\ row.token = user_sessions[t].token + 1
        /\ row.revoke_reason = user_sessions[t].revoke_reason
    <3>1. user_sessions[t] \in SessionRow
      BY <1>2, <2>1
    <3> QED
      BY <3>1 DEF SessionRow
  <2>3. /\ user_sessions' = [user_sessions EXCEPT ![t] = row]
        /\ users' = users /\ mailed' = mailed /\ phase'[q] = "answered"
    BY <1>2, <1>6, <1>10, <2>1 DEF Rotate
  <2> HIDE DEF row
  <2>4. \A s \in Sessions : SessionMoves(q, s)
    BY <1>2, <2>1, <2>2, <2>3 DEF SessionMoves
  <2> QED
    BY <1>4, <2>3, <2>4
<1>11. CASE RevokeSession(q)
  <2> DEFINE t == seen[q].session
             row == [user_sessions[t] EXCEPT !.revoke_reason = "LOGOUT"]
  <2>1. t \in Sessions /\ phase[q] = "read" /\ request[q].op = "logout"
    BY <1>1, <1>11 DEF RevokeSession, At, FoundOK
  <2>2. /\ row.user = user_sessions[t].user /\ row.token = user_sessions[t].token
        /\ row.revoke_reason # "none" /\ user_sessions[t].user # NoOne
    <3>1. user_sessions[t] \in SessionRow
      BY <1>2, <2>1
    <3> QED
      BY <2>1, <3>1 DEF SessionRow, TokensInv, LogoutFound
  <2>3. /\ user_sessions' = [user_sessions EXCEPT ![t] = row]
        /\ Free(q, <<"session", t>>) /\ users' = users /\ mailed' = mailed
    BY <1>11 DEF RevokeSession
  <2> HIDE DEF row
  <2>4. \A s \in Sessions : SessionMoves(q, s)
    BY <1>2, <2>1, <2>2, <2>3 DEF SessionMoves
  <2> QED
    BY <1>4, <2>3, <2>4
<1>12. CASE UpdateProfile(q)
  <2>1. \A u \in Users : UserMoves(q, u)
    <3>1. PICK name, phone :
             users' = [users EXCEPT ![seen[q].user].name = name,
                                    ![seen[q].user].phone = phone]
      BY <1>12 DEF UpdateProfile
    <3> DEFINE v == seen[q].user
               row == [users[v] EXCEPT !.name = name, !.phone = phone]
    <3>2. v \in Users
      BY <1>1, <1>12 DEF UpdateProfile, At, FoundOK
    <3>3. users' = [users EXCEPT ![v] = row]
      BY <1>2, <3>1, <3>2
    <3>4. row.status = users[v].status /\ row.reset = users[v].reset
      <4>1. users[v] \in UserRow
        BY <1>2, <3>2
      <4> QED
        BY <4>1 DEF UserRow
    <3> HIDE DEF row
    <3> QED
      BY <1>2, <3>2, <3>3, <3>4 DEF UserMoves
  <2> QED
    BY <1>3, <1>12, <2>1 DEF UpdateProfile
<1>13. CASE SendMail(q)
  BY <1>3, <1>4, <1>13 DEF SendMail
<1>14. CASE StoreResetToken(q)
  <2> DEFINE v == seen[q].user
             n == reset_tokens + 1
             row == [users[v] EXCEPT !.reset = n, !.reset_expired = FALSE]
  <2>1. v \in Users
    BY <1>1, <1>14 DEF StoreResetToken, At, FoundOK
  <2>2. row.status = users[v].status /\ row.reset = n
    <3>1. users[v] \in UserRow
      BY <1>2, <2>1
    <3> QED
      BY <3>1 DEF UserRow
  <2>3. /\ users' = [users EXCEPT ![v] = row] /\ reset_tokens' = n
        /\ Free(q, <<"user", v>>) /\ user_sessions' = user_sessions /\ mailed' = mailed
    BY <1>14 DEF StoreResetToken
  <2> HIDE DEF row
  <2>4. \A u \in Users : UserMoves(q, u)
    BY <1>2, <2>1, <2>2, <2>3 DEF UserMoves
  <2> QED
    BY <1>3, <2>3, <2>4
<1>15. CASE ResetPassword(q)
  <2> DEFINE v == seen[q].user
             row == [users[v] EXCEPT !.password = request[q].password,
                                     !.reset = 0, !.reset_expired = FALSE]
  <2>1. v \in Users /\ At(q, "confirm_reset", "locked")
    BY <1>1, <1>15 DEF ResetPassword, At, FoundOK
  <2>2. row.status = users[v].status /\ row.reset = 0
    <3>1. users[v] \in UserRow
      BY <1>2, <2>1
    <3> QED
      BY <3>1 DEF UserRow
  <2>3. /\ users' = [users EXCEPT ![v] = row] /\ SessionsFree(q, v)
        /\ user_sessions' = Revoked(v, "PASSWORD_RESET") /\ mailed' = mailed
    BY <1>15 DEF ResetPassword
  <2> HIDE DEF row
  <2>4. \A u \in Users : UserMoves(q, u)
    BY <1>2, <2>1, <2>2, <2>3 DEF UserMoves
  <2>5. \A s \in Sessions : SessionMoves(q, s)
    BY <1>1, <2>1, <2>3, RevokedMoves
  <2> QED
    BY <2>3, <2>4, <2>5
<1>16. CASE Withdraw(q)
  <2> DEFINE v == seen[q].user
             row == [status |-> "INACTIVE", email |-> <<"withdrawn", v>>,
                     password |-> "random", name |-> "withdrawn",
                     phone |-> "none", reset |-> 0, reset_expired |-> FALSE]
  <2>1. v \in Users /\ At(q, "withdraw", "locked")
    BY <1>1, <1>16 DEF Withdraw, At, FoundOK
  <2>2. row.reset = 0
    OBVIOUS
  <2>3. /\ users' = [users EXCEPT ![v] = row] /\ SessionsFree(q, v)
        /\ user_sessions' = Revoked(v, "ACCOUNT_WITHDRAWAL") /\ mailed' = mailed
    BY <1>16 DEF Withdraw
  <2> HIDE DEF row
  <2>4. \A u \in Users : UserMoves(q, u)
    BY <1>2, <2>1, <2>2, <2>3 DEF UserMoves
  <2>5. \A s \in Sessions : SessionMoves(q, s)
    BY <1>1, <2>1, <2>3, RevokedMoves
  <2> QED
    BY <2>3, <2>4, <2>5
<1> QED
  BY <1>7, <1>8, <1>9, <1>10, <1>11, <1>12, <1>13, <1>14, <1>15, <1>16 DEF Proceed

-----------------------------------------------------------------------------

\* The step of one attempt, as the rest of the proof sees it.
Moves(q) ==
    /\ AttemptMoves(q)
    /\ \A s \in Sessions : SessionMoves(q, s)
    /\ \A u \in Users : UserMoves(q, u)
    /\ reset_tokens' \in Nat /\ reset_tokens' >= reset_tokens
    /\ mailed \subseteq mailed'

\* Every attempt takes such steps.
LEMMA EveryoneMoves ==
    ASSUME IInv, IInv', TokensInv, NEW q \in Attempts, Receive(q) \/ Proceed(q) \/ Fail(q)
    PROVE  Moves(q)
<1>1. AttemptMoves(q)
  BY AttemptsMove
<1>2. CASE Proceed(q)
  <2>1. reset_tokens' \in Nat /\ reset_tokens \in Nat
    BY DEF IInv, TypeOK
  <2>2. reset_tokens' = reset_tokens \/ StoreResetToken(q)
    BY <1>2 DEF Proceed, Register, InsertUser, Login, OpenSession, Refresh, Rotate,
                Logout, RevokeSession, Authenticate, UpdateProfile, LockAccount,
                Withdraw, RequestReset, SendMail, ConfirmReset, ResetPassword,
                Refuse, tables
  <2>3. reset_tokens' >= reset_tokens
    BY <2>1, <2>2 DEF StoreResetToken
  <2> QED
    BY <1>1, <1>2, <2>1, <2>3, RowsMove DEF Moves
<1>3. CASE Receive(q) \/ Fail(q)
  <2>1. UNCHANGED tables /\ reset_tokens \in Nat
    BY <1>3 DEF Receive, Fail, IInv, TypeOK
  <2> QED
    BY <1>1, <2>1 DEF Moves, tables, SessionMoves, UserMoves
<1> QED
  BY <1>2, <1>3

\* The session that will have the name of attempt q is nobody's until then.
LEMMA SessionsFreshStep ==
    ASSUME IInv, TokensInv, NEW q \in Attempts, Moves(q)
    PROVE  SessionsFresh' /\ NotYetFound'
<1>1. ASSUME NEW p \in Attempts, phase'[p] # "answered"
      PROVE  user_sessions'[p] = NoSession
  <2>1. p \in Sessions /\ phase[p] # "answered"
    BY <1>1 DEF Sessions, Moves, AttemptMoves
  <2>2. user_sessions[p] = NoSession
    BY <2>1 DEF TokensInv, SessionsFresh
  <2>3. user_sessions[p].user = NoOne
    BY <2>2 DEF NoSession
  <2>4. ~ (At(q, "refresh", "locked") /\ p = seen[q].session)
    BY <2>3 DEF TokensInv, RotationHolds, At
  <2> QED
    BY <1>1, <2>1, <2>2, <2>3, <2>4 DEF Moves, SessionMoves
<1>2. ASSUME NEW p \in Attempts, phase'[p] \in {"idle", "received"}
      PROVE  seen'[p].session = NoOne
  BY <1>2 DEF Moves, AttemptMoves, TokensInv, NotYetFound
<1> QED
  BY <1>1, <1>2 DEF SessionsFresh, NotYetFound

\* The operations on tokens, by the steps that they consist of.
LEMMA StepsOf ==
    ASSUME NEW q \in Attempts, Proceed(q)
    PROVE  /\ request[q].op = "refresh" => Refresh(q) \/ Rotate(q)
           /\ request[q].op = "confirm_reset" => ConfirmReset(q) \/ ResetPassword(q)
           /\ request[q].op = "logout" => Logout(q) \/ RevokeSession(q)
           /\ phase[q] # "idle"
BY DEF Proceed, At, Register, InsertUser, Login, OpenSession, Refresh, Rotate,
       Logout, RevokeSession, Authenticate, UpdateProfile, LockAccount, Withdraw,
       RequestReset, StoreResetToken, SendMail, ConfirmReset, ResetPassword

\* What an attempt knows when it is through with a step on tokens.
LEMMA OwnStep ==
    ASSUME IInv, IInv', TokensInv, NEW q \in Attempts, Receive(q) \/ Proceed(q) \/ Fail(q)
    PROVE  /\ phase'[q] = "locked" /\ request'[q].op = "refresh" => Refresh(q)
           /\ phase'[q] = "locked" /\ request'[q].op = "confirm_reset" => ConfirmReset(q)
           /\ phase'[q] = "read" /\ request'[q].op = "logout" => Logout(q)
           /\ answer'[q] = "ok" /\ request'[q].op = "refresh" => Rotate(q)
           /\ answer'[q] = "ok" /\ request'[q].op = "confirm_reset" => ResetPassword(q)
           /\ answer'[q] = "ok" /\ request'[q].op = "logout" => Logout(q) \/ RevokeSession(q)
<1>1. phase \in [Attempts -> {"idle", "received", "read", "locked", "stored", "answered"}]
      /\ answer \in [Attempts -> {"none", "ok", "refused", "error"}]
  BY DEF IInv, TypeOK
<1>2. CASE Receive(q)
  BY <1>1, <1>2 DEF Receive, IInv, TypeOK
<1>3. CASE Fail(q)
  BY <1>1, <1>3 DEF Fail, Answer
<1>4. CASE Proceed(q)
  <2>1. request'[q] = request[q]
    BY <1>4, AttemptsMove, StepsOf DEF AttemptMoves
  <2>2. Rotate(q) \/ ResetPassword(q) \/ RevokeSession(q) => phase'[q] = "answered"
    BY <1>1 DEF Rotate, ResetPassword, RevokeSession, Answer
  <2>3. ASSUME Refresh(q) \/ ConfirmReset(q)
        PROVE  answer'[q] # "ok"
    BY <1>1, <2>3 DEF Refresh, ConfirmReset, Refuse, Answer, Go, At, IInv, TypeOK
  <2> QED
    BY <1>4, <2>1, <2>2, <2>3, StepsOf
<1> QED
  BY <1>2, <1>3, <1>4

-----------------------------------------------------------------------------

\* The tokens of a session are a session and a number.
LEMMA TokenShape ==
    ASSUME TypeOK, NEW q \in Attempts, request[q].op \in {"refresh", "logout"}
    PROVE  /\ request[q].token = <<request[q].token[1], request[q].token[2]>>
           /\ request[q].token[1] \in Sessions /\ request[q].token[2] \in Nat
BY DEF TypeOK, Bodies, Unasked

\* Nobody touches a session that is being rotated, and its user stays.
LEMMA RotationHoldsStep ==
    ASSUME IInv, IInv', TokensInv, NEW q \in Attempts,
           Receive(q) \/ Proceed(q) \/ Fail(q), Moves(q)
    PROVE  RotationHolds'
<1> SUFFICES ASSUME NEW p \in Attempts, phase'[p] = "locked", request'[p].op = "refresh"
             PROVE  LET s == seen'[p].session
                    IN  /\ request'[p].token = <<s, user_sessions'[s].token>>
                        /\ <<"session", s>> \in locks'[p]
                        /\ user_sessions'[s].user # NoOne
                        /\ user_sessions'[s].revoke_reason = "none"
                        /\ users'[user_sessions'[s].user].status = "ACTIVE"
  BY DEF RotationHolds, IsActive
<1> DEFINE s == seen'[p].session
<1>1. CASE p = q
  <2>1. Refresh(q)
    BY <1>1, OwnStep
  <2> DEFINE r == request[q].token[1]
  <2>2. /\ HasToken(r, request[q].token) /\ IsLive(r) /\ IsActive(user_sessions[r].user)
        /\ Go(q, "locked", [seen[q] EXCEPT !.session = r], {<<"session", r>>})
        /\ UNCHANGED tables /\ request[q].op = "refresh"
    BY <1>1, <2>1 DEF Refresh, Refuse, Answer, At, IInv, TypeOK
  <2>3. seen'[q].session = r /\ locks'[q] = {<<"session", r>>} /\ request'[q] = request[q]
    BY <2>2 DEF Go, IInv, TypeOK, FoundOK, Found
  <2> HIDE DEF r
  <2> QED
    BY <1>1, <2>2, <2>3 DEF HasToken, IsLive, IsActive, tables
<1>2. CASE p # q
  <2>1. /\ phase[p] = "locked" /\ request[p].op = "refresh" /\ locks'[p] = locks[p]
        /\ request'[p] = request[p] /\ s = seen[p].session
    BY <1>2 DEF Moves, AttemptMoves
  <2> HIDE DEF s
  <2>2. /\ request[p].token = <<s, user_sessions[s].token>>
        /\ <<"session", s>> \in locks[p] /\ user_sessions[s].user # NoOne
        /\ user_sessions[s].revoke_reason = "none"
        /\ users[user_sessions[s].user].status = "ACTIVE"
    BY <2>1 DEF TokensInv, RotationHolds, IsActive
  <2>3. s \in Sessions
    BY <2>1 DEF IInv, FoundOK
  <2> DEFINE u == user_sessions[s].user
  <2>4. u \in Users
    BY <2>2, <2>3 DEF IInv, TypeOK, SessionRow
  <2>5. ~ Free(q, <<"session", s>>)
    BY <1>2, <2>2 DEF Free
  <2>6. ~ (s = q)
    BY <2>2 DEF TokensInv, SessionsFresh, NoSession, Moves, AttemptMoves
  <2>7. ~ (At(q, "refresh", "locked") /\ s = seen[q].session)
    BY <1>2, <2>2 DEF TokensInv, RotationHolds, At, IInv, Exclusive
  <2>8. /\ user_sessions'[s].user = u /\ user_sessions'[s].revoke_reason = "none"
        /\ user_sessions'[s].token = user_sessions[s].token
    BY <2>2, <2>3, <2>5, <2>6, <2>7 DEF Moves, SessionMoves
  <2>9. ~ SessionsFree(q, u)
    BY <2>3, <2>5 DEF SessionsFree
  <2>10. users'[u].status = "ACTIVE"
    BY <2>2, <2>4, <2>9 DEF Moves, UserMoves
  <2> QED
    BY <2>1, <2>2, <2>8, <2>10 DEF s
<1> QED
  BY <1>1, <1>2

\* The number of a session's last token only grows.
LEMMA TokensGrow ==
    ASSUME IInv, TokensInv, NEW q \in Attempts, Moves(q), NEW s \in Sessions
    PROVE  user_sessions'[s].token >= user_sessions[s].token
<1>1. user_sessions[s].token \in Nat
  BY DEF IInv, TypeOK, SessionRow
<1>2. s = q => user_sessions[s].token = 0
  BY DEF Moves, AttemptMoves, TokensInv, SessionsFresh, NoSession
<1>3. \/ user_sessions'[s].token = user_sessions[s].token
      \/ s = q /\ user_sessions'[s].token = 1
      \/ user_sessions'[s].token = user_sessions[s].token + 1
  BY DEF Moves, SessionMoves
<1> QED
  BY <1>1, <1>2, <1>3

\* A rotation leaves its token behind.
LEMMA RotationsSpentStep ==
    ASSUME IInv, IInv', TokensInv, NEW q \in Attempts,
           Receive(q) \/ Proceed(q) \/ Fail(q), Moves(q)
    PROVE  RotationsSpent'
<1> SUFFICES ASSUME NEW p \in Attempts, request'[p].op = "refresh", answer'[p] = "ok"
             PROVE  request'[p].token[2] < user_sessions'[request'[p].token[1]].token
  BY DEF RotationsSpent
<1>1. CASE p = q
  <2> DEFINE s == seen[q].session
  <2>1. Rotate(q)
    BY <1>1, OwnStep
  <2>2. /\ s \in Sessions /\ request[q].token = <<s, user_sessions[s].token>>
        /\ request' = request
    BY <2>1 DEF Rotate, At, Answer, TokensInv, RotationHolds, IInv, FoundOK
  <2>3. user_sessions[s] \in SessionRow
    BY <2>2 DEF IInv, TypeOK
  <2>4. user_sessions'[s].token = user_sessions[s].token + 1
    BY <2>1, <2>2, <2>3 DEF Rotate, IInv, TypeOK, SessionRow
  <2>5. user_sessions[s].token \in Nat
    BY <2>3 DEF SessionRow
  <2> QED
    BY <1>1, <2>2, <2>4, <2>5
<1>2. CASE p # q
  <2> DEFINE s == request[p].token[1]
             n == request[p].token[2]
  <2>1. answer[p] = "ok" /\ request'[p] = request[p]
    BY <1>2 DEF Moves, AttemptMoves
  <2>2. n < user_sessions[s].token /\ s \in Sessions /\ n \in Nat
    BY <2>1, TokenShape DEF IInv, TokensInv, RotationsSpent
  <2>3. user_sessions[s].token \in Nat /\ user_sessions'[s].token \in Nat
    BY <2>2 DEF IInv, TypeOK, SessionRow
  <2>4. user_sessions'[s].token >= user_sessions[s].token
    BY <2>2, TokensGrow
  <2> HIDE DEF s, n
  <2>5. n < user_sessions'[s].token
    BY <2>2, <2>3, <2>4
  <2> QED
    BY <2>1, <2>5 DEF s, n
<1> QED
  BY <1>1, <1>2

\* A reset token is made for one account.
LEMMA ResetsApartStep ==
    ASSUME IInv, IInv', TokensInv, NEW q \in Attempts, Moves(q)
    PROVE  ResetsApart'
<1>1. /\ reset_tokens \in Nat /\ reset_tokens' \in Nat /\ reset_tokens' >= reset_tokens
      /\ \A u \in Users : users[u].reset \in Nat
  BY DEF IInv, TypeOK, UserRow, Moves
<1>2. /\ \A u \in Users : users[u].reset <= reset_tokens
      /\ \A u, v \in Users : users[u].reset = users[v].reset => u = v \/ users[u].reset = 0
  BY DEF TokensInv, ResetsApart
<1>3. ASSUME NEW u \in Users
      PROVE  \/ users'[u].reset = users[u].reset
             \/ users'[u].reset = 0
             \/ /\ u = seen[q].user /\ users'[u].reset = reset_tokens + 1
                /\ reset_tokens' = reset_tokens + 1
  BY DEF Moves, UserMoves
<1>4. \A u \in Users : users'[u].reset <= reset_tokens'
  BY <1>1, <1>2, <1>3
<1>5. ASSUME NEW u \in Users, NEW v \in Users, users'[u].reset = users'[v].reset
      PROVE  u = v \/ users'[u].reset = 0
  BY <1>1, <1>2, <1>3, <1>5
<1> QED
  BY <1>4, <1>5 DEF ResetsApart

\* What the account waits for is taken away when the password is set.
LEMMA ResetsSpentStep ==
    ASSUME IInv, IInv', TokensInv, NEW q \in Attempts,
           Receive(q) \/ Proceed(q) \/ Fail(q), Moves(q)
    PROVE  ResetsSpent'
<1> SUFFICES ASSUME NEW p \in Attempts, request'[p].op = "confirm_reset"
             PROVE  /\ request'[p].token \in mailed'
                    /\ phase'[p] = "locked" => users'[seen'[p].user].reset = request'[p].token
                    /\ answer'[p] = "ok" => \A u \in Users : users'[u].reset # request'[p].token
  BY DEF ResetsSpent
<1>1. TypeOK /\ FoundOK
  BY DEF IInv
<1>2. CASE p = q
  <2>1. request'[q].token \in mailed'
    <3>1. CASE Receive(q)
      BY <1>1, <1>2, <3>1 DEF Receive, IsKnown, TypeOK, tables
    <3>2. CASE request'[q] = request[q]
      BY <1>2, <3>2 DEF TokensInv, ResetsSpent, Moves
    <3> QED
      BY <3>1, <3>2, StepsOf DEF Moves, AttemptMoves, Fail, Answer
  <2>2. ASSUME phase'[q] = "locked"
        PROVE  users'[seen'[q].user].reset = request'[q].token
    <3>1. ConfirmReset(q)
      BY <1>2, <2>2, OwnStep
    <3>2. PICK u \in Users : /\ users[u].reset = request[q].token
                             /\ Go(q, "locked", [seen[q] EXCEPT !.user = u], {<<"user", u>>})
                             /\ UNCHANGED tables
      BY <1>1, <2>2, <3>1 DEF ConfirmReset, Refuse, Answer, TypeOK
    <3>3. seen'[q].user = u /\ request'[q] = request[q]
      BY <1>1, <3>2 DEF Go, FoundOK, Found
    <3> QED
      BY <3>2, <3>3 DEF tables
  <2>3. ASSUME answer'[q] = "ok", NEW u \in Users
        PROVE  users'[u].reset # request'[q].token
    <3> DEFINE v == seen[q].user
    <3>1. ResetPassword(q)
      BY <1>2, <2>3, OwnStep
    <3>2. v \in Users /\ request' = request
      BY <1>1, <3>1 DEF ResetPassword, At, FoundOK, Answer
    <3>3. users[v].reset = request[q].token /\ request[q].token \in mailed
      BY <3>1 DEF ResetPassword, At, TokensInv, ResetsSpent
    <3>4. users[v].reset # 0
      BY <1>1, <3>3 DEF TypeOK
    <3>5. users'[v].reset = 0
      <4>1. users[v] \in UserRow
        BY <1>1, <3>2 DEF TypeOK
      <4> QED
        BY <1>1, <3>1, <3>2, <4>1 DEF ResetPassword, TypeOK, UserRow
    <3>6. u # v => users'[u].reset = users[u].reset
      BY <1>1, <3>1 DEF ResetPassword, TypeOK
    <3>7. u # v => users[u].reset # users[v].reset
      BY <3>2, <3>4 DEF TokensInv, ResetsApart
    <3> QED
      BY <3>2, <3>3, <3>4, <3>5, <3>6, <3>7
  <2> QED
    BY <1>2, <2>1, <2>2, <2>3
<1>3. CASE p # q
  <2>1. /\ phase'[p] = phase[p] /\ request'[p] = request[p] /\ seen'[p] = seen[p]
        /\ locks'[p] = locks[p] /\ answer'[p] = answer[p] /\ request[p].op = "confirm_reset"
    BY <1>3 DEF Moves, AttemptMoves
  <2> DEFINE t == request[p].token
  <2>2. t \in mailed /\ t \in Nat /\ t # 0 /\ t <= reset_tokens /\ reset_tokens \in Nat
    <3>1. t \in mailed
      BY <2>1 DEF TokensInv, ResetsSpent
    <3> HIDE DEF t
    <3> QED
      BY <1>1, <3>1 DEF TypeOK
  <2>3. ASSUME phase[p] = "locked"
        PROVE  users'[seen[p].user].reset = t
    <3> DEFINE u == seen[p].user
    <3>1. /\ u \in Users /\ users[u].reset = t
          /\ <<"user", u>> \in locks[p] /\ users[u].status = "ACTIVE"
      BY <1>1, <2>1, <2>3 DEF IInv, FoundOK, LockedActive, IsActive, TokensInv, ResetsSpent
    <3>2. ~ Free(q, <<"user", u>>)
      BY <1>3, <3>1 DEF Free
    <3>3. ~ (u = q)
      BY <3>1 DEF IInv, Fresh, Moves, AttemptMoves
    <3>4. ~ (/\ At(q, "confirm_reset", "locked") \/ At(q, "withdraw", "locked")
             /\ u = seen[q].user)
      BY <1>3, <3>1 DEF IInv, LockedActive, At, Exclusive
    <3> QED
      BY <3>1, <3>2, <3>3, <3>4 DEF Moves, UserMoves
  <2>4. ASSUME answer[p] = "ok", NEW u \in Users
        PROVE  users'[u].reset # t
    <3>1. users[u].reset # t
      BY <2>1, <2>4 DEF TokensInv, ResetsSpent
    <3>2. \/ users'[u].reset = users[u].reset
          \/ users'[u].reset = 0
          \/ users'[u].reset = reset_tokens + 1
      BY DEF Moves, UserMoves
    <3> HIDE DEF t
    <3> QED
      BY <2>2, <3>1, <3>2
  <2> QED
    BY <2>1, <2>2, <2>3, <2>4 DEF Moves
<1> QED
  BY <1>2, <1>3

\* The end of a session is written by its key and never taken back.
LEMMA LogoutStep ==
    ASSUME IInv, IInv', TokensInv, NEW q \in Attempts,
           Receive(q) \/ Proceed(q) \/ Fail(q), Moves(q)
    PROVE  LogoutFound' /\ LogoutSticks'
<1>1. TypeOK /\ FoundOK /\ TypeOK' /\ FoundOK'
  BY DEF IInv
<1>2. ASSUME NEW s \in Sessions, user_sessions[s].user # NoOne
      PROVE  user_sessions'[s].user # NoOne
  <2>1. s # q
    BY <1>2 DEF TokensInv, SessionsFresh, NoSession, Moves, AttemptMoves
  <2> QED
    BY <1>2, <2>1 DEF Moves, SessionMoves
<1>3. ASSUME NEW s \in Sessions, user_sessions[s].revoke_reason # "none"
      PROVE  user_sessions'[s].revoke_reason # "none"
  <2>1. s # q
    BY <1>3 DEF TokensInv, SessionsFresh, NoSession, Moves, AttemptMoves
  <2> QED
    BY <1>3, <2>1 DEF Moves, SessionMoves
<1>4. ASSUME NEW p \in Attempts, phase'[p] = "read", request'[p].op = "logout"
      PROVE  user_sessions'[seen'[p].session].user # NoOne
  <2>1. CASE p = q
    <3> DEFINE s == request[q].token[1]
    <3>1. Logout(q)
      BY <1>4, <2>1, OwnStep
    <3>2. /\ HasToken(s, request[q].token) /\ UNCHANGED tables
          /\ Go(q, "read", [seen[q] EXCEPT !.session = s], {})
      BY <1>1, <1>4, <2>1, <3>1 DEF Logout, Answer, TypeOK
    <3>3. seen'[q].session = s
      BY <1>1, <3>2 DEF Go, FoundOK, Found
    <3> QED
      BY <2>1, <3>2, <3>3 DEF HasToken, tables
  <2>2. CASE p # q
    <3>1. phase[p] = "read" /\ request[p].op = "logout" /\ seen'[p] = seen[p]
      BY <1>4, <2>2 DEF Moves, AttemptMoves
    <3>2. seen[p].session \in Sessions /\ user_sessions[seen[p].session].user # NoOne
      BY <1>1, <3>1 DEF FoundOK, TokensInv, LogoutFound
    <3> QED
      BY <1>2, <3>1, <3>2
  <2> QED
    BY <2>1, <2>2
<1>5. ASSUME NEW p \in Attempts, answer'[p] = "ok", request'[p].op = "logout",
             seen'[p].session # NoOne
      PROVE  user_sessions'[seen'[p].session].revoke_reason # "none"
  <2>1. CASE p = q
    <3> DEFINE s == seen[q].session
    <3>1. CASE Logout(q)
      <4>1. phase[q] = "received" /\ seen' = seen
        BY <1>1, <1>5, <2>1, <3>1 DEF Logout, Go, Answer, At, TypeOK
      <4> QED
        BY <1>5, <2>1, <4>1 DEF TokensInv, NotYetFound
    <3>2. CASE RevokeSession(q)
      <4>1. /\ seen' = seen /\ s \in Sessions
            /\ user_sessions' = [user_sessions EXCEPT ![s].revoke_reason = "LOGOUT"]
        BY <1>1, <3>2 DEF RevokeSession, Answer, At, FoundOK
      <4>2. user_sessions[s] \in SessionRow
        BY <1>1, <4>1 DEF TypeOK
      <4>3. user_sessions'[s].revoke_reason = "LOGOUT"
        BY <1>1, <4>1, <4>2 DEF TypeOK, SessionRow
      <4> QED
        BY <2>1, <4>1, <4>3
    <3> QED
      BY <1>5, <2>1, <3>1, <3>2, OwnStep
  <2>2. CASE p # q
    <3>1. answer[p] = "ok" /\ request[p].op = "logout" /\ seen'[p] = seen[p]
      BY <1>5, <2>2 DEF Moves, AttemptMoves
    <3>2. user_sessions[seen[p].session].revoke_reason # "none"
      BY <1>5, <3>1 DEF TokensInv, LogoutSticks
    <3>3. seen[p].session \in Sessions
      BY <1>1, <1>5, <3>1 DEF FoundOK, Found
    <3> QED
      BY <1>3, <3>1, <3>2, <3>3
  <2> QED
    BY <2>1, <2>2
<1> QED
  BY <1>4, <1>5 DEF LogoutFound, LogoutSticks

\* Of two requests with one token the second finds the token behind the
\* session's, or no account that waits for it.
LEMMA TokenOnceStep ==
    ASSUME IInv, IInv', TokensInv, NEW q \in Attempts,
           Receive(q) \/ Proceed(q) \/ Fail(q), Moves(q)
    PROVE  TokenOnce'
<1>1. ASSUME NEW p \in Attempts, p # q, answer'[p] = "ok", answer'[q] = "ok",
             request'[p].op = request'[q].op,
             request'[p].op \in {"refresh", "confirm_reset"}
      PROVE  request'[p].token # request'[q].token
  <2>1. answer[p] = "ok" /\ request'[p] = request[p]
    BY <1>1 DEF Moves, AttemptMoves
  <2>2. CASE request'[p].op = "refresh"
    <3>1. Rotate(q)
      BY <1>1, <2>2, OwnStep
    <3>2. request' = request /\ phase[q] = "locked" /\ request[q].op = "refresh"
      BY <3>1 DEF Rotate, Answer, At
    <3>3. request[q].token[2] = user_sessions[request[q].token[1]].token
      <4> DEFINE s == seen[q].session
      <4>1. request[q].token = <<s, user_sessions[s].token>>
        BY <3>2 DEF TokensInv, RotationHolds
      <4> QED
        BY <4>1
    <3>4. request[p].token[2] < user_sessions[request[p].token[1]].token
      BY <2>1, <2>2 DEF TokensInv, RotationsSpent
    <3>5. request[q].token[2] \in Nat
      BY <3>2, TokenShape DEF IInv
    <3> QED
      BY <2>1, <3>2, <3>3, <3>4, <3>5
  <2>3. CASE request'[p].op = "confirm_reset"
    <3>1. ResetPassword(q)
      BY <1>1, <2>3, OwnStep
    <3>2. request' = request /\ phase[q] = "locked" /\ request[q].op = "confirm_reset"
      BY <3>1 DEF ResetPassword, Answer, At
    <3>3. seen[q].user \in Users /\ users[seen[q].user].reset = request[q].token
      BY <3>2 DEF TokensInv, ResetsSpent, IInv, FoundOK
    <3>4. \A u \in Users : users[u].reset # request[p].token
      BY <2>1, <2>3 DEF TokensInv, ResetsSpent
    <3> QED
      BY <2>1, <3>2, <3>3, <3>4
  <2> QED
    BY <1>1, <2>2, <2>3
<1>2. ASSUME NEW p \in Attempts \ {q}, NEW o \in Attempts \ {q}, p # o,
             answer'[p] = "ok", answer'[o] = "ok", request'[p].op = request'[o].op,
             request'[p].op \in {"refresh", "confirm_reset"}
      PROVE  request'[p].token # request'[o].token
  BY <1>2 DEF Moves, AttemptMoves, TokensInv, TokenOnce
<1> QED
  BY <1>1, <1>2 DEF TokenOnce

\* What RotationIsCurrent says of one step.
RotationStep ==
    \A s \in Sessions :
      user_sessions'[s].token > user_sessions[s].token /\ user_sessions[s].token > 0 =>
         /\ user_sessions[s].revoke_reason = "none"
         /\ IsActive(user_sessions[s].user)

\* Only a rotation prolongs a session, and it holds what it decided on.
LEMMA RotationStepHolds ==
    ASSUME IInv, TokensInv, NEW q \in Attempts, Moves(q)
    PROVE  RotationStep
<1> SUFFICES ASSUME NEW s \in Sessions,
                    user_sessions'[s].token > user_sessions[s].token,
                    user_sessions[s].token > 0
             PROVE  /\ user_sessions[s].revoke_reason = "none"
                    /\ IsActive(user_sessions[s].user)
  BY DEF RotationStep
<1>1. user_sessions[s].token \in Nat
  BY DEF IInv, TypeOK, SessionRow
<1>2. s # q
  BY <1>1 DEF Moves, AttemptMoves, TokensInv, SessionsFresh, NoSession
<1>3. \/ user_sessions'[s].token = user_sessions[s].token
      \/ At(q, "refresh", "locked") /\ s = seen[q].session
  BY <1>2 DEF Moves, SessionMoves
<1>4. At(q, "refresh", "locked") /\ s = seen[q].session
  BY <1>1, <1>3
<1> QED
  BY <1>4 DEF At, TokensInv, RotationHolds

\* Expiry is no business of the tokens.
LEMMA ExpireKeepsTokens ==
    ASSUME IInv, TokensInv,
           \/ \E s \in Sessions : ExpireSession(s)
           \/ \E u \in Users : ExpireResetToken(u)
    PROVE  TokensInv' /\ RotationStep
<1>1. /\ UNCHANGED <<reset_tokens, mailed, phase, request, seen, locks, answer>>
      /\ \A s \in Sessions : /\ user_sessions'[s].user = user_sessions[s].user
                             /\ user_sessions'[s].token = user_sessions[s].token
                             /\ user_sessions'[s].revoke_reason = user_sessions[s].revoke_reason
                             /\ user_sessions[s] = NoSession => user_sessions'[s] = NoSession
      /\ \A u \in Users : /\ users'[u].status = users[u].status
                          /\ users'[u].reset = users[u].reset
  <2>1. users \in [Users -> UserRow] /\ user_sessions \in [Sessions -> SessionRow]
    BY DEF IInv, TypeOK
  <2>2. ASSUME NEW t \in Sessions, ExpireSession(t)
        PROVE  <1>1
    <3> DEFINE row == [user_sessions[t] EXCEPT !.expired = TRUE]
    <3>1. /\ row.user = user_sessions[t].user /\ row.token = user_sessions[t].token
          /\ row.revoke_reason = user_sessions[t].revoke_reason
          /\ user_sessions[t] # NoSession
      <4>1. user_sessions[t] \in SessionRow /\ user_sessions[t].user # NoOne
        BY <2>1, <2>2 DEF ExpireSession, IsLive
      <4> QED
        BY <4>1 DEF SessionRow, NoSession
    <3>2. /\ user_sessions' = [user_sessions EXCEPT ![t] = row]
          /\ UNCHANGED <<users, reset_tokens, mailed, phase, request, seen, locks, answer>>
      BY <2>2 DEF ExpireSession
    <3> HIDE DEF row
    <3> QED
      BY <2>1, <3>1, <3>2
  <2>3. ASSUME NEW v \in Users, ExpireResetToken(v)
        PROVE  <1>1
    <3> DEFINE row == [users[v] EXCEPT !.reset_expired = TRUE]
    <3>1. row.status = users[v].status /\ row.reset = users[v].reset
      <4>1. users[v] \in UserRow
        BY <2>1
      <4> QED
        BY <4>1 DEF UserRow
    <3>2. /\ users' = [users EXCEPT ![v] = row]
          /\ UNCHANGED <<user_sessions, reset_tokens, mailed, phase, request, seen, locks, answer>>
      BY <2>3 DEF ExpireResetToken
    <3> HIDE DEF row
    <3> QED
      BY <2>1, <3>1, <3>2
  <2> QED
    BY <2>2, <2>3
<1>2. SessionsFresh' /\ NotYetFound'
  BY <1>1 DEF TokensInv, SessionsFresh, NotYetFound, Sessions
<1>3. RotationHolds'
  <2>1. ASSUME NEW p \in Attempts, phase[p] = "locked", request[p].op = "refresh"
        PROVE  LET s == seen[p].session
               IN  /\ request[p].token = <<s, user_sessions'[s].token>>
                   /\ <<"session", s>> \in locks[p]
                   /\ user_sessions'[s].user # NoOne
                   /\ user_sessions'[s].revoke_reason = "none"
                   /\ users'[user_sessions'[s].user].status = "ACTIVE"
    <3> DEFINE s == seen[p].session
    <3>1. s \in Sessions
      BY <2>1 DEF IInv, FoundOK
    <3>2. /\ request[p].token = <<s, user_sessions[s].token>>
          /\ <<"session", s>> \in locks[p] /\ user_sessions[s].user # NoOne
          /\ user_sessions[s].revoke_reason = "none"
          /\ users[user_sessions[s].user].status = "ACTIVE"
      BY <2>1 DEF TokensInv, RotationHolds, IsActive
    <3>3. user_sessions[s].user \in Users
      BY <3>1, <3>2 DEF IInv, TypeOK, SessionRow
    <3> QED
      BY <1>1, <3>1, <3>2, <3>3
  <2> QED
    BY <1>1, <2>1 DEF RotationHolds, IsActive
<1>4. RotationsSpent'
  <2>1. ASSUME NEW p \in Attempts, request[p].op = "refresh", answer[p] = "ok"
        PROVE  request[p].token[2] < user_sessions'[request[p].token[1]].token
    <3>1. request[p].token[1] \in Sessions
      BY <2>1, TokenShape DEF IInv
    <3> QED
      BY <1>1, <2>1, <3>1 DEF TokensInv, RotationsSpent
  <2> QED
    BY <1>1, <2>1 DEF RotationsSpent
<1>5. ResetsApart'
  BY <1>1 DEF TokensInv, ResetsApart
<1>6. ResetsSpent'
  BY <1>1 DEF TokensInv, ResetsSpent, IInv, FoundOK
<1>7. LogoutFound' /\ TokenOnce'
  BY <1>1 DEF TokensInv, LogoutFound, TokenOnce, IInv, FoundOK
<1>8. LogoutSticks'
  <2>1. \A p \in Attempts : seen[p].session \in Sessions \cup {NoOne}
    BY DEF IInv, FoundOK, Found
  <2> QED
    BY <1>1, <2>1 DEF TokensInv, LogoutSticks
<1>9. RotationStep
  BY <1>1 DEF RotationStep, IInv, TypeOK, SessionRow
<1> QED
  BY <1>2, <1>3, <1>4, <1>5, <1>6, <1>7, <1>8, <1>9 DEF TokensInv

\* Every step keeps what is known of the tokens.
LEMMA TokensKept ==
    ASSUME IInv, IInv', TokensInv, [Next]_vars
    PROVE  TokensInv' /\ RotationStep
<1>1. CASE UNCHANGED vars
  <2>1. UNCHANGED <<users, user_sessions, reset_tokens, mailed, phase, request, seen,
                    locks, answer>>
    BY <1>1 DEF vars, tables
  <2>2. \A s \in Sessions : user_sessions[s].token \in Nat
    BY DEF IInv, TypeOK, SessionRow
  <2>3. RotationStep
    BY <2>1, <2>2 DEF RotationStep
  <2> QED
    BY <2>1, <2>3 DEF TokensInv, SessionsFresh, NotYetFound, RotationHolds,
                      RotationsSpent, ResetsApart, ResetsSpent, LogoutFound,
                      LogoutSticks, TokenOnce, IsActive
<1>2. ASSUME NEW q \in Attempts, Receive(q) \/ Proceed(q) \/ Fail(q)
      PROVE  TokensInv' /\ RotationStep
  <2>1. Moves(q)
    BY <1>2, EveryoneMoves
  <2>2. SessionsFresh' /\ NotYetFound' /\ ResetsApart' /\ RotationStep
    BY <2>1, SessionsFreshStep, ResetsApartStep, RotationStepHolds
  <2>3. RotationHolds' /\ RotationsSpent' /\ ResetsSpent'
    BY <1>2, <2>1, RotationHoldsStep, RotationsSpentStep, ResetsSpentStep
  <2>4. LogoutFound' /\ LogoutSticks' /\ TokenOnce'
    BY <1>2, <2>1, LogoutStep, TokenOnceStep
  <2> QED
    BY <2>2, <2>3, <2>4 DEF TokensInv
<1>3. CASE \/ \E s \in Sessions : ExpireSession(s)
           \/ \E u \in Users : ExpireResetToken(u)
  BY <1>3, ExpireKeepsTokens
<1> QED
  BY <1>1, <1>2, <1>3 DEF Next

\* No token has been used at first.
LEMMA InitTokens ==
    ASSUME Init
    PROVE  TokensInv
<1>1. PICK row \in [Established -> {NewUser(e, p, n) : e \in Emails, p \in Passwords, n \in Names}] :
          users = [u \in Users |-> IF u \in Established THEN row[u] ELSE NoRow]
  BY DEF Init
<1>2. \A u \in Users : users[u].reset = 0
  <2>1. NoRow.reset = 0
    BY DEF NoRow
  <2>2. \A e \in Emails, p \in Passwords, n \in Names : NewUser(e, p, n).reset = 0
    BY DEF NewUser
  <2> QED
    BY <1>1, <2>1, <2>2
<1>3. PICK owner \in [Opened -> Established] :
          user_sessions = [s \in Sessions |->
               IF s \in Opened THEN NewSession(owner[s]) ELSE NoSession]
  BY DEF Init
<1>4. /\ reset_tokens = 0
      /\ phase = [q \in Attempts |-> "idle"] /\ request = [q \in Attempts |-> Unasked]
      /\ seen = [q \in Attempts |-> Nothing] /\ answer = [q \in Attempts |-> "none"]
  BY DEF Init
<1>5. SessionsFresh
  BY <1>3, AttemptsAssumption DEF SessionsFresh, Sessions
<1>6. NotYetFound
  BY <1>4 DEF NotYetFound, Nothing
<1>7. RotationHolds /\ RotationsSpent /\ LogoutFound /\ LogoutSticks /\ TokenOnce
  BY <1>4 DEF RotationHolds, RotationsSpent, LogoutFound, LogoutSticks, TokenOnce
<1>8. ResetsApart
  BY <1>2, <1>4 DEF ResetsApart
<1>9. ResetsSpent
  BY <1>4 DEF ResetsSpent, Unasked
<1> QED
  BY <1>5, <1>6, <1>7, <1>8, <1>9 DEF TokensInv

-----------------------------------------------------------------------------

\* Tokens are held, spent and left behind as the row locks make them,
\* whatever the requests and however they interleave.
THEOREM TokensInvariant == Spec => [](IInv /\ TokensInv)
<1>1. Init => IInv /\ TokensInv
  BY InitKeeps, InitTokens
<1>2. IInv /\ TokensInv /\ [Next]_vars => (IInv /\ TokensInv)'
  BY NextKeeps, TokensKept
<1> QED
  BY <1>1, <1>2, PTL DEF Spec

\* refresh_access_token takes each refresh token once, and
\* confirm_password_reset each link.
THEOREM TokenOnceCorrect == Spec => []TokenOnce
<1>1. IInv /\ TokensInv => TokenOnce
  BY DEF TokensInv
<1> QED
  BY <1>1, TokensInvariant, PTL

\* A session that logout_user found has ended, and stays so.
THEOREM LogoutSticksCorrect == Spec => []LogoutSticks
<1>1. IInv /\ TokensInv => LogoutSticks
  BY DEF TokensInv
<1> QED
  BY <1>1, TokensInvariant, PTL

\* refresh_access_token prolongs no session that was revoked and none whose
\* user has gone, though it locks the session only.
THEOREM RotationIsCurrentCorrect == Spec => RotationIsCurrent
<1>1. IInv /\ TokensInv /\ (IInv /\ TokensInv)' /\ [Next]_vars => [RotationStep]_vars
  BY TokensKept
<1> QED
  BY <1>1, TokensInvariant, PTL DEF Spec, RotationIsCurrent, RotationStep

-----------------------------------------------------------------------------
(* Accounts implements Membership.                                         *)

\* Who was found by an address is registered, and stays so.
FoundRegistered ==
    \A q \in Attempts :
      phase[q] = "read" /\ request[q].op \in {"login", "request_reset"} =>
         users[seen[q].user].status # "UNREGISTERED"

\* A step of Membership, or none.
MemberStep == [M!Next]_<<M!members, M!sessions>>

\* How the view of the accounts changes with one row.
LEMMA UserRowMaps ==
    ASSUME NEW v \in Users, NEW row, users \in [Users -> UserRow],
           users' = [users EXCEPT ![v] = row]
    PROVE  /\ Standing' = [Standing EXCEPT ![v] = StandingOf(row.status)]
           /\ Address' = [Address EXCEPT ![v] =
                             IF row.status = "ACTIVE" THEN row.email ELSE "none"]
           /\ Link' = [Link EXCEPT ![v] = IF row.status = "ACTIVE" THEN row.reset ELSE 0]
<1>1. \A u \in Users : users'[u] = IF u = v THEN row ELSE users[u]
  OBVIOUS
<1>2. Standing' = [u \in Users |-> StandingOf(users'[u].status)]
  BY DEF Standing, StandingOf
<1>3. Standing' = [Standing EXCEPT ![v] = StandingOf(row.status)]
  BY <1>1, <1>2 DEF Standing
<1>4. Address' = [Address EXCEPT ![v] = IF row.status = "ACTIVE" THEN row.email ELSE "none"]
  BY <1>1 DEF Address, IsActive
<1>5. Link' = [Link EXCEPT ![v] = IF row.status = "ACTIVE" THEN row.reset ELSE 0]
  BY <1>1 DEF Link, IsActive
<1> QED
  BY <1>3, <1>4, <1>5

\* What is not in view may change.
LEMMA UserRowStays ==
    ASSUME NEW v \in Users, NEW row, users \in [Users -> UserRow],
           users' = [users EXCEPT ![v] = row],
           row.status = users[v].status,
           row.email = users[v].email,
           row.status = "ACTIVE" => row.reset = users[v].reset
    PROVE  UNCHANGED <<Standing, Address, Link>>
<1> DEFINE standing == StandingOf(row.status)
           address == IF row.status = "ACTIVE" THEN row.email ELSE "none"
           link == IF row.status = "ACTIVE" THEN row.reset ELSE 0
<1>1. /\ Standing' = [Standing EXCEPT ![v] = standing]
      /\ Address' = [Address EXCEPT ![v] = address]
      /\ Link' = [Link EXCEPT ![v] = link]
  BY UserRowMaps
<1>2. standing = Standing[v] /\ address = Address[v] /\ link = Link[v]
  BY DEF Standing, Address, Link, IsActive
<1>3. /\ Standing = [Standing EXCEPT ![v] = Standing[v]]
      /\ Address = [Address EXCEPT ![v] = Address[v]]
      /\ Link = [Link EXCEPT ![v] = Link[v]]
  BY DEF Standing, Address, Link
<1> HIDE DEF standing, address, link
<1> QED
  BY <1>1, <1>2, <1>3

\* The same rows have the same view.
LEMMA UsersStay ==
    ASSUME UNCHANGED users
    PROVE  UNCHANGED <<Standing, Address, Link>>
BY DEF Standing, StandingOf, Address, Link, IsActive

LEMMA SessionsStay ==
    ASSUME UNCHANGED user_sessions
    PROVE  UNCHANGED <<Owner, Worth, Ended>>
BY DEF Owner, Worth, Ended

\* How the view of the sessions changes with one row.
LEMMA SessionRowMaps ==
    ASSUME NEW t \in Sessions, NEW row, user_sessions \in [Sessions -> SessionRow],
           user_sessions' = [user_sessions EXCEPT ![t] = row]
    PROVE  /\ Owner' = [Owner EXCEPT ![t] = row.user]
           /\ Worth' = [Worth EXCEPT ![t] = row.token]
           /\ row.revoke_reason # "none" => Ended' = Ended \cup {t}
           /\ row.revoke_reason = user_sessions[t].revoke_reason => Ended' = Ended
<1>1. \A s \in Sessions : user_sessions'[s] = IF s = t THEN row ELSE user_sessions[s]
  OBVIOUS
<1> QED
  BY <1>1 DEF Owner, Worth, Ended

\* How it changes when all sessions of u are revoked.
LEMMA RevokedMaps ==
    ASSUME NEW u \in Users, NEW reason, reason # "none",
           user_sessions \in [Sessions -> SessionRow],
           user_sessions' = Revoked(u, reason)
    PROVE  /\ UNCHANGED <<Owner, Worth>>
           /\ Ended' = Ended \cup M!SessionsOf(u)
<1>1. \A s \in Sessions : user_sessions[s] \in SessionRow
  OBVIOUS
<1>2. \A s \in Sessions :
         /\ user_sessions'[s].user = user_sessions[s].user
         /\ user_sessions'[s].token = user_sessions[s].token
         /\ user_sessions'[s].revoke_reason # "none" <=>
              (user_sessions[s].revoke_reason # "none" \/ user_sessions[s].user = u)
  BY <1>1 DEF Revoked, SessionRow
<1>3. UNCHANGED <<Owner, Worth>>
  BY <1>2 DEF Owner, Worth
<1>4. Ended' = {s \in Sessions : user_sessions[s].revoke_reason # "none"
                                   \/ user_sessions[s].user = u}
  BY <1>2 DEF Ended
<1> QED
  BY <1>3, <1>4 DEF Ended, M!SessionsOf, Owner

\* A step that leaves the view as it is is none of Membership's.
LEMMA ViewStays ==
    ASSUME UNCHANGED <<Standing, Address, Link, reset_tokens, Owner, Worth, Ended>>
    PROVE  MemberStep
BY DEF MemberStep, M!members, M!sessions

LEMMA TablesStay ==
    ASSUME UNCHANGED tables
    PROVE  MemberStep
BY UsersStay, SessionsStay, ViewStays DEF tables

\* register_user: a new member under an address that no other member has.
LEMMA InsertImplements ==
    ASSUME IInv, NEW q \in Attempts, InsertUser(q)
    PROVE  MemberStep
<1> DEFINE e == request[q].email
           row == NewUser(e, request[q].password, request[q].name)
<1>1. /\ users \in [Users -> UserRow] /\ q \in Users /\ e \in Emails
      /\ users[q].status = "UNREGISTERED"
  BY BodyType DEF InsertUser, At, IInv, TypeOK, Fresh, Users
<1>2. CASE Refuse(q)
  BY <1>2, TablesStay DEF Refuse
<1>3. CASE ~ Refuse(q)
  <2>1. /\ ByEmail(e) = {}
        /\ users' = [users EXCEPT ![q] = row]
        /\ UNCHANGED <<user_sessions, reset_tokens>>
    BY <1>3 DEF InsertUser
  <2>2. row.status = "ACTIVE" /\ row.email = e /\ row.reset = 0
    BY DEF NewUser
  <2>3. Standing[q] = "none" /\ Link[q] = 0
    BY <1>1 DEF Standing, StandingOf, Link, IsActive
  <2>4. \A v \in Users : M!IsMember(v) => Address[v] # e
    BY <2>1 DEF M!IsMember, Standing, StandingOf, Address, IsActive, ByEmail
  <2>5. /\ Standing' = [Standing EXCEPT ![q] = "member"]
        /\ Address' = [Address EXCEPT ![q] = e]
        /\ Link' = [Link EXCEPT ![q] = 0]
    <3>1. StandingOf(row.status) = "member"
      BY <2>2 DEF StandingOf
    <3> HIDE DEF row, e
    <3> QED
      BY <1>1, <2>1, <2>2, <3>1, UserRowMaps
  <2>6. Link' = Link
    BY <2>3, <2>5 DEF Link
  <2>7. UNCHANGED <<Owner, Worth, Ended>>
    BY <2>1, SessionsStay
  <2>8. M!Join(q, e)
    BY <2>1, <2>3, <2>4, <2>5, <2>6, <2>7 DEF M!Join, M!sessions
  <2> QED
    BY <1>1, <2>8 DEF MemberStep, M!Next
<1> QED
  BY <1>2, <1>3

\* issue_auth_tokens after a login: a session of somebody who was found.
LEMMA OpenImplements ==
    ASSUME IInv, TokensInv, FoundRegistered, NEW q \in Attempts, OpenSession(q)
    PROVE  MemberStep
<1> DEFINE u == seen[q].user
           row == NewSession(u)
<1>1. /\ user_sessions \in [Sessions -> SessionRow] /\ q \in Sessions /\ u \in Users
      /\ users[u].status # "UNREGISTERED" /\ user_sessions[q].user = NoOne
  BY DEF OpenSession, At, IInv, TypeOK, FoundOK, FoundRegistered, Sessions,
         TokensInv, SessionsFresh, NoSession
<1>2. /\ user_sessions' = [user_sessions EXCEPT ![q] = row]
      /\ UNCHANGED <<users, reset_tokens>>
  BY DEF OpenSession
<1>3. /\ row.user = u /\ row.token = 1
      /\ row.revoke_reason = user_sessions[q].revoke_reason
  BY DEF NewSession, OpenSession, At, TokensInv, SessionsFresh, NoSession
<1>4. /\ Owner' = [Owner EXCEPT ![q] = u] /\ Worth' = [Worth EXCEPT ![q] = 1]
      /\ Ended' = Ended
  <2> HIDE DEF row, u
  <2>1. /\ Owner' = [Owner EXCEPT ![q] = row.user]
        /\ Worth' = [Worth EXCEPT ![q] = row.token]
    BY <1>1, <1>2, SessionRowMaps
  <2>2. Ended' = Ended
    BY <1>1, <1>2, <1>3, SessionRowMaps
  <2> QED
    BY <1>3, <2>1, <2>2
<1>5. Standing[u] # "none" /\ Owner[q] = NoOne
  <2>1. users[u].status \in {"ACTIVE", "INACTIVE"}
    BY <1>1 DEF IInv, TypeOK, UserRow
  <2> QED
    BY <1>1, <2>1 DEF Standing, StandingOf, Owner
<1>6. UNCHANGED <<Standing, Address, Link>>
  BY <1>2, UsersStay
<1>7. M!Enter(u, q)
  BY <1>2, <1>4, <1>5, <1>6 DEF M!Enter, M!members
<1> QED
  BY <1>1, <1>7 DEF MemberStep, M!Next

\* issue_auth_tokens after a refresh.
LEMMA RotateImplements ==
    ASSUME IInv, TokensInv, NEW q \in Attempts, Rotate(q)
    PROVE  MemberStep
<1> DEFINE t == seen[q].session
           row == [user_sessions[t] EXCEPT !.token = @ + 1, !.expired = FALSE]
<1>1. /\ user_sessions \in [Sessions -> SessionRow] /\ t \in Sessions
      /\ user_sessions[t].user # NoOne /\ user_sessions[t].revoke_reason = "none"
      /\ IsActive(user_sessions[t].user)
  BY DEF Rotate, At, IInv, TypeOK, FoundOK, TokensInv, RotationHolds
<1>2. user_sessions[t] \in SessionRow
  BY <1>1
<1>3. /\ user_sessions' = [user_sessions EXCEPT ![t] = row]
      /\ UNCHANGED <<users, reset_tokens>>
  BY <1>1 DEF Rotate
<1>4. /\ row.user = user_sessions[t].user /\ row.token = user_sessions[t].token + 1
      /\ row.revoke_reason = user_sessions[t].revoke_reason
  BY <1>2 DEF SessionRow
<1>5. /\ Owner[t] = user_sessions[t].user /\ Worth[t] = user_sessions[t].token
      /\ t \notin Ended
  BY <1>1 DEF Owner, Worth, Ended
<1>6. /\ Owner' = [Owner EXCEPT ![t] = Owner[t]]
      /\ Worth' = [Worth EXCEPT ![t] = Worth[t] + 1]
      /\ Ended' = Ended
  <2> HIDE DEF row, t
  <2>1. /\ Owner' = [Owner EXCEPT ![t] = row.user]
        /\ Worth' = [Worth EXCEPT ![t] = row.token]
    BY <1>1, <1>3, SessionRowMaps
  <2>2. Ended' = Ended
    BY <1>1, <1>3, <1>4, SessionRowMaps
  <2> QED
    BY <1>4, <1>5, <2>1, <2>2
<1>7. Owner' = Owner
  BY <1>6 DEF Owner
<1>8. Owner[t] # NoOne /\ M!IsMember(Owner[t])
  <2>1. user_sessions[t].user \in Users
    BY <1>1, <1>2 DEF SessionRow
  <2> QED
    BY <1>1, <1>5, <2>1 DEF M!IsMember, Standing, StandingOf, IsActive
<1>9. UNCHANGED <<Standing, Address, Link>>
  BY <1>3, UsersStay
<1>10. M!Prolong(t)
  BY <1>3, <1>5, <1>6, <1>7, <1>8, <1>9 DEF M!Prolong, M!members
<1> QED
  BY <1>1, <1>10 DEF MemberStep, M!Next

\* logout_user.
LEMMA LogoutImplements ==
    ASSUME IInv, TokensInv, NEW q \in Attempts, RevokeSession(q)
    PROVE  MemberStep
<1> DEFINE t == seen[q].session
           row == [user_sessions[t] EXCEPT !.revoke_reason = "LOGOUT"]
<1>1. /\ user_sessions \in [Sessions -> SessionRow] /\ t \in Sessions
      /\ user_sessions[t].user # NoOne
  BY DEF RevokeSession, At, IInv, TypeOK, FoundOK, TokensInv, LogoutFound
<1>2. user_sessions[t] \in SessionRow
  BY <1>1
<1>3. /\ user_sessions' = [user_sessions EXCEPT ![t] = row]
      /\ UNCHANGED <<users, reset_tokens>>
  BY DEF RevokeSession
<1>4. /\ row.user = Owner[t] /\ row.token = Worth[t] /\ row.revoke_reason # "none"
  BY <1>1, <1>2 DEF SessionRow, Owner, Worth
<1>5. /\ Owner' = [Owner EXCEPT ![t] = Owner[t]] /\ Worth' = [Worth EXCEPT ![t] = Worth[t]]
      /\ Ended' = Ended \cup {t}
  <2> HIDE DEF row, t
  <2> QED
    BY <1>1, <1>3, <1>4, SessionRowMaps
<1>6. UNCHANGED <<Owner, Worth>> /\ Owner[t] # NoOne
  BY <1>1, <1>5 DEF Owner, Worth
<1>7. UNCHANGED <<Standing, Address, Link>>
  BY <1>3, UsersStay
<1>8. M!End(t)
  BY <1>3, <1>5, <1>6, <1>7 DEF M!End, M!members
<1> QED
  BY <1>1, <1>8 DEF MemberStep, M!Next

\* update_current_user_profile writes nothing that is in view.
LEMMA ProfileImplements ==
    ASSUME IInv, NEW q \in Attempts, UpdateProfile(q)
    PROVE  MemberStep
<1> DEFINE v == seen[q].user
<1>1. users \in [Users -> UserRow] /\ v \in Users
  BY DEF UpdateProfile, At, IInv, TypeOK, FoundOK
<1>2. PICK name, phone :
         users' = [users EXCEPT ![v].name = name, ![v].phone = phone]
  BY DEF UpdateProfile
<1> DEFINE row == [users[v] EXCEPT !.name = name, !.phone = phone]
<1>3. users' = [users EXCEPT ![v] = row]
  BY <1>1, <1>2
<1>4. /\ row.status = users[v].status /\ row.email = users[v].email
      /\ row.reset = users[v].reset
  <2>1. users[v] \in UserRow
    BY <1>1
  <2> QED
    BY <2>1 DEF UserRow
<1>5. UNCHANGED <<Standing, Address, Link>>
  <2> HIDE DEF row, v
  <2> QED
    BY <1>1, <1>3, <1>4, UserRowStays
<1>6. UNCHANGED <<reset_tokens, Owner, Worth, Ended>>
  BY SessionsStay DEF UpdateProfile
<1> QED
  BY <1>5, <1>6, ViewStays

\* request_password_reset: a link for a member, none for who has left.
LEMMA StoreImplements ==
    ASSUME IInv, FoundRegistered, NEW q \in Attempts, StoreResetToken(q)
    PROVE  MemberStep
<1> DEFINE v == seen[q].user
           n == reset_tokens + 1
           row == [users[v] EXCEPT !.reset = n, !.reset_expired = FALSE]
<1>1. /\ users \in [Users -> UserRow] /\ v \in Users
      /\ users[v].status # "UNREGISTERED"
  BY DEF StoreResetToken, At, IInv, TypeOK, FoundOK, FoundRegistered
<1>2. /\ users' = [users EXCEPT ![v] = row] /\ reset_tokens' = n
      /\ UNCHANGED user_sessions
  BY DEF StoreResetToken
<1>3. users[v] \in UserRow
  BY <1>1
<1>4. /\ row.status = users[v].status /\ row.email = users[v].email /\ row.reset = n
  BY <1>3 DEF UserRow
<1>5. /\ Standing' = [Standing EXCEPT ![v] = StandingOf(row.status)]
      /\ Address' = [Address EXCEPT ![v] =
                        IF row.status = "ACTIVE" THEN row.email ELSE "none"]
      /\ Link' = [Link EXCEPT ![v] = IF row.status = "ACTIVE" THEN row.reset ELSE 0]
  <2> HIDE DEF row, v
  <2> QED
    BY <1>1, <1>2, UserRowMaps
<1>6. /\ Standing[v] = StandingOf(row.status) /\ Standing[v] # "none"
      /\ Address[v] = IF row.status = "ACTIVE" THEN row.email ELSE "none"
      /\ M!IsMember(v) <=> row.status = "ACTIVE"
  <2>1. users[v].status \in {"ACTIVE", "INACTIVE"}
    BY <1>1, <1>3 DEF UserRow
  <2> HIDE DEF row, v
  <2> QED
    BY <1>1, <1>4, <2>1 DEF Standing, StandingOf, Address, IsActive, M!IsMember
<1>7. Standing' = Standing /\ Address' = Address
  <2> DEFINE a == IF row.status = "ACTIVE" THEN row.email ELSE "none"
             g == StandingOf(row.status)
  <2>1. /\ Standing' = [Standing EXCEPT ![v] = g] /\ Standing[v] = g
        /\ Address' = [Address EXCEPT ![v] = a] /\ Address[v] = a
    BY <1>5, <1>6
  <2> HIDE DEF a, g, v
  <2> QED
    BY <2>1 DEF Standing, Address
<1>8. Link' = [Link EXCEPT ![v] = IF M!IsMember(v) THEN n ELSE 0]
  <2> HIDE DEF row, v, n
  <2>1. CASE row.status = "ACTIVE"
    BY <1>4, <1>5, <1>6, <2>1
  <2>2. CASE row.status # "ACTIVE"
    BY <1>5, <1>6, <2>2
  <2> QED
    BY <2>1, <2>2
<1>9. UNCHANGED <<Owner, Worth, Ended>>
  BY <1>2, SessionsStay
<1>10. M!Issue(v)
  BY <1>2, <1>6, <1>7, <1>8, <1>9 DEF M!Issue, M!sessions
<1> QED
  BY <1>1, <1>10 DEF MemberStep, M!Next

\* withdraw_current_user ends the account and every session that it has.
LEMMA WithdrawImplements ==
    ASSUME IInv, NEW q \in Attempts, Withdraw(q)
    PROVE  MemberStep
<1> DEFINE v == seen[q].user
           row == [status |-> "INACTIVE", email |-> <<"withdrawn", v>>,
                   password |-> "random", name |-> "withdrawn",
                   phone |-> "none", reset |-> 0, reset_expired |-> FALSE]
<1>1. /\ users \in [Users -> UserRow] /\ v \in Users /\ IsActive(v)
      /\ user_sessions \in [Sessions -> SessionRow]
  BY DEF Withdraw, At, IInv, TypeOK, FoundOK, LockedActive
<1>2. /\ users' = [users EXCEPT ![v] = row] /\ reset_tokens' = reset_tokens
      /\ user_sessions' = Revoked(v, "ACCOUNT_WITHDRAWAL")
  BY DEF Withdraw
<1>3. StandingOf(row.status) = "gone" /\ row.status # "ACTIVE"
  BY DEF StandingOf
<1>4. /\ Standing' = [Standing EXCEPT ![v] = "gone"]
      /\ Address' = [Address EXCEPT ![v] = "none"]
      /\ Link' = [Link EXCEPT ![v] = 0]
  <2> DEFINE a == IF row.status = "ACTIVE" THEN row.email ELSE "none"
             n == IF row.status = "ACTIVE" THEN row.reset ELSE 0
  <2>1. a = "none" /\ n = 0
    BY <1>3
  <2> HIDE DEF row, v
  <2>2. /\ Standing' = [Standing EXCEPT ![v] = StandingOf(row.status)]
        /\ Address' = [Address EXCEPT ![v] = a]
        /\ Link' = [Link EXCEPT ![v] = n]
    BY <1>1, <1>2, UserRowMaps
  <2> HIDE DEF a, n
  <2> QED
    BY <1>3, <2>1, <2>2
<1>5. UNCHANGED <<Owner, Worth>> /\ Ended' = Ended \cup M!SessionsOf(v)
  <2> HIDE DEF v
  <2> QED
    BY <1>1, <1>2, RevokedMaps
<1>6. M!IsMember(v)
  BY <1>1 DEF IsActive, M!IsMember, Standing, StandingOf
<1>7. M!Leave(v)
  BY <1>2, <1>4, <1>5, <1>6 DEF M!Leave
<1> QED
  BY <1>1, <1>7 DEF MemberStep, M!Next

\* confirm_password_reset uses up the link and ends every session.
LEMMA ResetImplements ==
    ASSUME IInv, TokensInv, NEW q \in Attempts, ResetPassword(q)
    PROVE  MemberStep
<1> DEFINE v == seen[q].user
           row == [users[v] EXCEPT !.password = request[q].password,
                                   !.reset = 0, !.reset_expired = FALSE]
<1>1. /\ users \in [Users -> UserRow] /\ v \in Users /\ IsActive(v)
      /\ user_sessions \in [Sessions -> SessionRow]
  BY DEF ResetPassword, At, IInv, TypeOK, FoundOK, LockedActive
<1>2. /\ users' = [users EXCEPT ![v] = row] /\ reset_tokens' = reset_tokens
      /\ user_sessions' = Revoked(v, "PASSWORD_RESET")
  BY DEF ResetPassword
<1>3. users[v].reset # 0
  <2>1. request[q].token \in mailed /\ users[v].reset = request[q].token
    BY DEF ResetPassword, At, TokensInv, ResetsSpent
  <2>2. mailed \subseteq 1 .. reset_tokens /\ reset_tokens \in Nat
    BY DEF IInv, TypeOK
  <2> QED
    BY <2>1, <2>2
<1>4. row.status = "ACTIVE" /\ row.email = users[v].email /\ row.reset = 0
  <2>1. users[v] \in UserRow
    BY <1>1
  <2> QED
    BY <1>1, <2>1 DEF UserRow, IsActive
<1>5. /\ Standing' = [Standing EXCEPT ![v] = StandingOf("ACTIVE")]
      /\ Address' = [Address EXCEPT ![v] = users[v].email]
      /\ Link' = [Link EXCEPT ![v] = 0]
  <2> DEFINE a == IF row.status = "ACTIVE" THEN row.email ELSE "none"
             n == IF row.status = "ACTIVE" THEN row.reset ELSE 0
  <2>1. a = users[v].email /\ n = 0
    BY <1>4
  <2> HIDE DEF row, v
  <2>2. /\ Standing' = [Standing EXCEPT ![v] = StandingOf(row.status)]
        /\ Address' = [Address EXCEPT ![v] = a]
        /\ Link' = [Link EXCEPT ![v] = n]
    BY <1>1, <1>2, UserRowMaps
  <2> HIDE DEF a, n
  <2> QED
    BY <1>4, <2>1, <2>2
<1>6. /\ Standing[v] = StandingOf("ACTIVE") /\ Address[v] = users[v].email
      /\ Link[v] # 0
  BY <1>1, <1>3 DEF Standing, Address, Link, IsActive
<1>7. Standing' = Standing /\ Address' = Address
  BY <1>5, <1>6 DEF Standing, Address
<1>8. UNCHANGED <<Owner, Worth>> /\ Ended' = Ended \cup M!SessionsOf(v)
  <2> HIDE DEF v
  <2> QED
    BY <1>1, <1>2, RevokedMaps
<1>9. M!Recover(v)
  BY <1>2, <1>5, <1>6, <1>7, <1>8 DEF M!Recover
<1> QED
  BY <1>1, <1>9 DEF MemberStep, M!Next

\* Time passes without being seen.
LEMMA ExpireImplements ==
    ASSUME IInv, \/ \E s \in Sessions : ExpireSession(s)
                 \/ \E u \in Users : ExpireResetToken(u)
    PROVE  MemberStep
<1>1. users \in [Users -> UserRow] /\ user_sessions \in [Sessions -> SessionRow]
  BY DEF IInv, TypeOK
<1>2. ASSUME NEW t \in Sessions, ExpireSession(t)
      PROVE  MemberStep
  <2> DEFINE row == [user_sessions[t] EXCEPT !.expired = TRUE]
  <2>1. /\ row.user = Owner[t] /\ row.token = Worth[t]
        /\ row.revoke_reason = user_sessions[t].revoke_reason
    <3>1. user_sessions[t] \in SessionRow
      BY <1>1
    <3> QED
      BY <3>1 DEF SessionRow, Owner, Worth
  <2>2. /\ user_sessions' = [user_sessions EXCEPT ![t] = row]
        /\ UNCHANGED <<users, reset_tokens>>
    BY <1>2 DEF ExpireSession
  <2> HIDE DEF row
  <2>3. /\ Owner' = [Owner EXCEPT ![t] = row.user]
        /\ Worth' = [Worth EXCEPT ![t] = row.token] /\ Ended' = Ended
    BY <1>1, <2>1, <2>2, SessionRowMaps
  <2>4. Owner' = Owner /\ Worth' = Worth
    BY <2>1, <2>3 DEF Owner, Worth
  <2> QED
    BY <2>2, <2>3, <2>4, UsersStay, ViewStays
<1>3. ASSUME NEW v \in Users, ExpireResetToken(v)
      PROVE  MemberStep
  <2> DEFINE row == [users[v] EXCEPT !.reset_expired = TRUE]
  <2>1. /\ row.status = users[v].status /\ row.email = users[v].email
        /\ row.reset = users[v].reset
    <3>1. users[v] \in UserRow
      BY <1>1
    <3> QED
      BY <3>1 DEF UserRow
  <2>2. /\ users' = [users EXCEPT ![v] = row] /\ reset_tokens' = reset_tokens
        /\ UNCHANGED user_sessions
    BY <1>3 DEF ExpireResetToken
  <2> HIDE DEF row
  <2>3. UNCHANGED <<Standing, Address, Link>>
    BY <1>1, <2>1, <2>2, UserRowStays
  <2> QED
    BY <2>2, <2>3, SessionsStay, ViewStays
<1> QED
  BY <1>2, <1>3

\* Every step of the account service is a step of Membership, or none.
LEMMA NextImplements ==
    ASSUME IInv, TokensInv, FoundRegistered, [Next]_vars
    PROVE  MemberStep
<1>1. CASE UNCHANGED vars
  BY <1>1, TablesStay DEF vars
<1>2. ASSUME NEW q \in Attempts, Receive(q) \/ Fail(q)
      PROVE  MemberStep
  BY <1>2, TablesStay DEF Receive, Fail
<1>3. ASSUME NEW q \in Attempts,
             Register(q) \/ Login(q) \/ Refresh(q) \/ Logout(q) \/ Authenticate(q)
               \/ LockAccount(q) \/ RequestReset(q) \/ ConfirmReset(q)
      PROVE  MemberStep
  <2>1. UNCHANGED tables
    BY <1>3 DEF Register, Login, Refresh, Logout, Authenticate, LockAccount,
                RequestReset, ConfirmReset, Refuse
  <2> QED
    BY <2>1, TablesStay
<1>4. ASSUME NEW q \in Attempts, SendMail(q)
      PROVE  MemberStep
  BY <1>4, UsersStay, SessionsStay, ViewStays DEF SendMail
<1>5. ASSUME NEW q \in Attempts, Proceed(q)
      PROVE  MemberStep
  BY <1>3, <1>4, <1>5, InsertImplements, OpenImplements, RotateImplements,
     LogoutImplements, ProfileImplements, StoreImplements, WithdrawImplements,
     ResetImplements DEF Proceed
<1>6. CASE \/ \E s \in Sessions : ExpireSession(s)
           \/ \E u \in Users : ExpireResetToken(u)
  BY <1>6, ExpireImplements
<1> QED
  BY <1>1, <1>2, <1>5, <1>6 DEF Next

\* Nobody who joined is ever as if he had not.
LEMMA RegisteredStays ==
    ASSUME TypeOK, TypeOK', MemberStep, NEW u \in Users,
           users[u].status # "UNREGISTERED"
    PROVE  users'[u].status # "UNREGISTERED"
<1>1. /\ \A v \in Users : Standing[v] = "none" <=> users[v].status = "UNREGISTERED"
      /\ Standing \in [Users -> {"none", "member", "gone"}]
  BY DEF TypeOK, UserRow, Standing, StandingOf
<1>2. Standing'[u] = "none" <=> users'[u].status = "UNREGISTERED"
  BY DEF TypeOK, UserRow, Standing, StandingOf
<1>3. Standing'[u] # "none"
  <2>1. Standing[u] # "none"
    BY <1>1
  <2> QED
    BY <1>1, <2>1 DEF MemberStep, M!Next, M!Join, M!Leave, M!Issue, M!Recover, M!Enter,
                      M!Prolong, M!End, M!members, M!sessions
<1> QED
  BY <1>2, <1>3

\* A handler that looks somebody up finds somebody registered.
LEMMA LookupFinds ==
    ASSUME IInv, NEW q \in Attempts, Receive(q) \/ Proceed(q) \/ Fail(q),
           phase'[q] = "read", request'[q].op \in {"login", "request_reset"}
    PROVE  users'[seen'[q].user].status # "UNREGISTERED"
<1>1. /\ phase \in [Attempts -> {"idle", "received", "read", "locked", "stored", "answered"}]
      /\ seen \in [Attempts -> Found]
  BY DEF IInv, TypeOK, FoundOK
<1>2. Login(q) \/ RequestReset(q)
  <2>1. ~ Receive(q) /\ ~ Fail(q)
    BY <1>1 DEF Receive, Fail, Answer
  <2>2. request'[q] = request[q]
    BY <2>1, AttemptsMove, StepsOf DEF AttemptMoves
  <2>3. ~ OpenSession(q) /\ ~ StoreResetToken(q) /\ ~ SendMail(q)
    BY <1>1 DEF OpenSession, StoreResetToken, SendMail, Answer, Go
  <2> QED
    BY <2>1, <2>2, <2>3 DEF Proceed, At, Register, InsertUser, Refresh, Rotate, Logout,
       RevokeSession, Authenticate, UpdateProfile, LockAccount, Withdraw, ConfirmReset,
       ResetPassword
<1>3. PICK u \in ByEmail(request[q].email) :
         /\ seen' = [seen EXCEPT ![q] = [seen[q] EXCEPT !.user = u]]
         /\ UNCHANGED users
  BY <1>1, <1>2 DEF Login, RequestReset, Refuse, Answer, Go, tables
<1>4. seen'[q].user = u
  BY <1>1, <1>3 DEF Found
<1> QED
  BY <1>3, <1>4 DEF ByEmail

LEMMA FoundRegisteredStep ==
    ASSUME IInv, IInv', MemberStep, FoundRegistered, [Next]_vars
    PROVE  FoundRegistered'
<1>1. \A u \in Users : users[u].status # "UNREGISTERED" => users'[u].status # "UNREGISTERED"
  BY RegisteredStays DEF IInv
<1>2. \A p \in Attempts : phase[p] = "read" /\ request[p].op \in {"login", "request_reset"}
                             => seen[p].user \in Users
  BY DEF IInv, FoundOK
<1>3. CASE UNCHANGED <<phase, request, seen>>
  BY <1>1, <1>2, <1>3 DEF FoundRegistered
<1>4. ASSUME NEW q \in Attempts, Receive(q) \/ Proceed(q) \/ Fail(q)
      PROVE  FoundRegistered'
  <2>1. AttemptMoves(q)
    BY <1>4, AttemptsMove
  <2> QED
    BY <1>1, <1>2, <1>4, <2>1, LookupFinds DEF FoundRegistered, AttemptMoves
<1> QED
  BY <1>3, <1>4 DEF Next, vars, ExpireSession, ExpireResetToken

\* Some are members, and some of them have a session.
LEMMA InitImplements ==
    ASSUME Init
    PROVE  M!Init /\ FoundRegistered
<1>1. PICK row \in [Established -> {NewUser(e, p, n) : e \in Emails, p \in Passwords, n \in Names}] :
         /\ \A u, v \in Established : u # v => row[u].email # row[v].email
         /\ users = [u \in Users |-> IF u \in Established THEN row[u] ELSE NoRow]
  BY DEF Init
<1>2. PICK person \in [Opened -> Established] :
         user_sessions = [s \in Sessions |->
              IF s \in Opened THEN NewSession(person[s]) ELSE NoSession]
  BY DEF Init
<1>3. /\ Established \subseteq Users /\ NoOne \notin Users /\ Opened \subseteq Sessions
  BY AttemptsAssumption DEF Users, Sessions
<1>4. ASSUME NEW u \in Users
      PROVE  /\ u \in Established =>
                  /\ users[u].status = "ACTIVE" /\ users[u].reset = 0
                  /\ users[u].email \in Emails /\ users[u].email = row[u].email
             /\ u \notin Established => users[u].status = "UNREGISTERED"
  BY <1>1 DEF NewUser, NoRow
<1>5. /\ Standing = [u \in Users |-> IF u \in Established THEN "member" ELSE "none"]
      /\ Address = [u \in Users |-> IF u \in Established THEN users[u].email ELSE "none"]
      /\ Link = [u \in Users |-> 0]
  BY <1>4 DEF Standing, StandingOf, Address, Link, IsActive
<1>6. /\ Owner = [s \in Sessions |-> IF s \in Opened THEN person[s] ELSE NoOne]
      /\ Worth = [s \in Sessions |-> IF s \in Opened THEN 1 ELSE 0]
      /\ Ended = {}
  BY <1>2 DEF Owner, Worth, Ended, NewSession, NoSession
<1>7. \A u \in Users : M!IsMember(u) <=> u \in Established
  BY <1>5 DEF M!IsMember
<1>8. /\ Standing \in [Users -> {"none", "member"}]
      /\ Address \in [Users -> Emails \cup {"none"}]
      /\ \A u \in Users : ~ M!IsMember(u) => Address[u] = "none"
      /\ \A u, v \in Users :
            u # v /\ M!IsMember(u) /\ M!IsMember(v) => Address[u] # Address[v]
  BY <1>1, <1>4, <1>5, <1>7
<1>9. Owner \in [Sessions -> {u \in Users : M!IsMember(u)} \cup {NoOne}]
  BY <1>2, <1>3, <1>6, <1>7
<1>10. Worth = [s \in Sessions |-> IF Owner[s] = NoOne THEN 0 ELSE 1]
  BY <1>2, <1>3, <1>6
<1>11. reset_tokens = 0 /\ \A q \in Attempts : phase[q] = "idle"
  BY DEF Init
<1> QED
  BY <1>5, <1>6, <1>8, <1>9, <1>10, <1>11 DEF M!Init, FoundRegistered

\* services/auth.py implements Membership: no interleaving of requests makes
\* two members of one address, recovers with a link that was replaced, or
\* prolongs a session of somebody who has left.
THEOREM AccountsImplementMembership == Spec => ImplementsMembership
<1> DEFINE Inv == IInv /\ TokensInv /\ FoundRegistered
<1>1. Init => Inv /\ M!Init
  BY InitKeeps, InitTokens, InitImplements
<1>2. Inv /\ [Next]_vars => Inv' /\ MemberStep
  BY NextKeeps, TokensKept, NextImplements, FoundRegisteredStep
<1> HIDE DEF Inv
<1> QED
  BY <1>1, <1>2, PTL DEF Spec, ImplementsMembership, M!Spec, MemberStep

-----------------------------------------------------------------------------
(* What Membership promises, and what that says of the tables.             *)

\* The promises hold at first.
LEMMA InitPromises == M!Init => M!TypeOK /\ M!Promises
BY DEF M!Init, M!TypeOK, M!Promises, M!AddressesApart, M!LinksForMembers,
       M!LateSessions, M!Standings, M!IsMember

\* Every step of Membership keeps them.
LEMMA PromisesKept ==
    ASSUME M!TypeOK, M!Promises, MemberStep
    PROVE  M!TypeOK' /\ M!Promises'
<1> USE DEF M!IsMember, M!Standings, M!SessionsOf
<1>1. ASSUME NEW u \in Users, NEW e \in Emails, M!Join(u, e)
      PROVE  M!TypeOK' /\ M!Promises'
  <2>1. UNCHANGED <<Link, reset_tokens, Owner, Worth, Ended>>
    BY <1>1 DEF M!Join, M!sessions
  <2>2. M!TypeOK'
    BY <1>1, <2>1 DEF M!TypeOK, M!Join
  <2>3. M!AddressesApart' /\ M!LinksForMembers'
    BY <1>1, <2>1 DEF M!TypeOK, M!Join, M!Promises, M!AddressesApart, M!LinksForMembers
  <2>4. M!LateSessions'
    BY <1>1, <2>1 DEF M!TypeOK, M!Join, M!Promises, M!LateSessions
  <2> QED
    BY <2>2, <2>3, <2>4 DEF M!Promises
<1>2. ASSUME NEW u \in Users, M!Leave(u)
      PROVE  M!TypeOK' /\ M!Promises'
  <2>1. M!TypeOK'
    BY <1>2 DEF M!TypeOK, M!Leave
  <2>2. M!AddressesApart' /\ M!LinksForMembers'
    BY <1>2 DEF M!TypeOK, M!Leave, M!Promises, M!AddressesApart, M!LinksForMembers
  <2>3. M!LateSessions'
    BY <1>2 DEF M!TypeOK, M!Leave, M!Promises, M!LateSessions
  <2> QED
    BY <2>1, <2>2, <2>3 DEF M!Promises
<1>3. ASSUME NEW u \in Users, M!Issue(u) \/ M!Recover(u)
      PROVE  M!TypeOK' /\ M!Promises'
  BY <1>3 DEF M!TypeOK, M!Issue, M!Recover, M!Promises, M!AddressesApart,
              M!LinksForMembers, M!LateSessions, M!sessions
<1>4. ASSUME NEW u \in Users, NEW s \in Sessions, M!Enter(u, s)
      PROVE  M!TypeOK' /\ M!Promises'
  BY <1>4 DEF M!TypeOK, M!Enter, M!Promises, M!AddressesApart, M!LinksForMembers,
              M!LateSessions, M!members
<1>5. ASSUME NEW s \in Sessions, M!Prolong(s) \/ M!End(s)
      PROVE  M!TypeOK' /\ M!Promises'
  BY <1>5 DEF M!TypeOK, M!Prolong, M!End, M!Promises, M!AddressesApart,
              M!LinksForMembers, M!LateSessions, M!members
<1>6. CASE UNCHANGED <<M!members, M!sessions>>
  BY <1>6 DEF M!TypeOK, M!Promises, M!AddressesApart, M!LinksForMembers,
              M!LateSessions, M!members, M!sessions
<1> QED
  BY <1>1, <1>2, <1>3, <1>4, <1>5, <1>6 DEF MemberStep, M!Next

\* Membership keeps its promises: an address leads to one member, a link to
\* nobody who has left, and no session outlives its member for more than one
\* token.
THEOREM MembershipPromises == M!Spec => [](M!TypeOK /\ M!Promises)
<1>1. M!TypeOK /\ M!Promises /\ MemberStep => (M!TypeOK /\ M!Promises)'
  BY PromisesKept
<1> QED
  BY <1>1, InitPromises, PTL DEF M!Spec, MemberStep

\* register_user gives no address away that somebody has.
THEOREM OneAccountPerAddressCorrect == Spec => []OneAccountPerAddress
<1>1. M!Promises => OneAccountPerAddress
  <2> SUFFICES ASSUME M!Promises, NEW u \in Users, NEW v \in Users,
                      u # v, IsActive(u), IsActive(v)
               PROVE  users[u].email # users[v].email
    BY DEF OneAccountPerAddress
  <2>1. M!IsMember(u) /\ M!IsMember(v)
    BY DEF M!IsMember, Standing, StandingOf, IsActive
  <2>2. Address[u] = users[u].email /\ Address[v] = users[v].email
    BY DEF Address
  <2> QED
    BY <2>1, <2>2 DEF M!Promises, M!AddressesApart
<1> QED
  BY <1>1, AccountsImplementMembership, MembershipPromises, PTL DEF ImplementsMembership

\* refresh_access_token looks at the account of the session, so that a session
\* which a login opened too late is never rotated.
THEOREM LateSessionBuysNothingCorrect == Spec => []LateSessionBuysNothing
<1>1. IInv /\ M!Promises => LateSessionBuysNothing
  <2> SUFFICES ASSUME IInv, M!Promises, NEW s \in Sessions,
                      user_sessions[s].user # NoOne,
                      user_sessions[s].revoke_reason = "none",
                      users[user_sessions[s].user].status = "INACTIVE"
               PROVE  user_sessions[s].token = 1
    BY DEF LateSessionBuysNothing
  <2>1. user_sessions[s].user \in Users
    BY DEF IInv, TypeOK, SessionRow
  <2>2. /\ Owner[s] = user_sessions[s].user /\ Worth[s] = user_sessions[s].token
        /\ s \notin Ended
    BY DEF Owner, Worth, Ended
  <2>3. Standing[Owner[s]] = "gone"
    BY <2>1, <2>2 DEF Standing, StandingOf
  <2> QED
    BY <2>2, <2>3 DEF M!Promises, M!LateSessions
<1> QED
  BY <1>1, AccountsInvariant, AccountsImplementMembership, MembershipPromises, PTL
     DEF ImplementsMembership

=============================================================================
