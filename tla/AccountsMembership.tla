-------------------------- MODULE AccountsMembership --------------------------
(***************************************************************************)
(* The tables of Accounts read as a state of Membership.  What a row of    *)
(* somebody who has left still says of a name, a phone number or a reset   *)
(* token means nothing here, and so does whether a session expired.        *)
(***************************************************************************)
EXTENDS Accounts

StandingOf(status) ==
    IF status = "ACTIVE" THEN "member"
    ELSE IF status = "INACTIVE" THEN "gone" ELSE "none"

Standing == [u \in Users |-> StandingOf(users[u].status)]

Address == [u \in Users |-> IF IsActive(u) THEN users[u].email ELSE "none"]

Link == [u \in Users |-> IF IsActive(u) THEN users[u].reset ELSE 0]

Owner == [s \in Sessions |-> user_sessions[s].user]

Worth == [s \in Sessions |-> user_sessions[s].token]

Ended == {s \in Sessions : user_sessions[s].revoke_reason # "none"}

M == INSTANCE Membership WITH
        standing <- Standing,
        address  <- Address,
        link     <- Link,
        issued   <- reset_tokens,
        owner    <- Owner,
        worth    <- Worth,
        ended    <- Ended

\* Whatever requests arrive, and however their reads, locks and writes
\* interleave, what happens to accounts and sessions is a behaviour of
\* Membership: in particular a withdrawal or a reset that overtakes a login,
\* a refresh, a logout or a request for a link leaves nothing behind that
\* recovers or prolongs anything.
ImplementsMembership == M!Spec

=============================================================================
