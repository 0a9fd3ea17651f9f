------------------------------ MODULE Membership ------------------------------
(***************************************************************************)
(* What the account service promises to the people who have an account:    *)
(* they join once and leave once, an address is one member's at a time,    *)
(* only the last link that was issued to a member recovers the account,    *)
(* and once, and who leaves or recovers ends every session of the account  *)
(* that there is.                                                          *)
(*                                                                         *)
(* No requests, no rows, no locks and no clock: this is the abstract       *)
(* specification that Accounts implements (AccountsMembership).            *)
(***************************************************************************)
EXTENDS Naturals

CONSTANTS
    Users,      \* people that have, had or will have an account
    Sessions,   \* what they log in with
    Emails,     \* addresses
    NoOne       \* stands for the owner of a session that was never opened

VARIABLES
    standing,   \* [Users -> Standings]
    address,    \* [Users -> their address, "none" unless they are members]
    link,       \* [Users -> the number of the link that recovers, or 0]
    issued,     \* number of links issued so far
    owner,      \* [Sessions -> Users, or NoOne]
    worth,      \* [Sessions -> number of tokens that it has been worth]
    ended       \* sessions that are over

Standings == {"none", "member", "gone"}

IsMember(u) == standing[u] = "member"

SessionsOf(u) == {s \in Sessions : owner[s] = u}

members == <<standing, address, link, issued>>

sessions == <<owner, worth, ended>>

Init ==
    /\ standing \in [Users -> {"none", "member"}]
    /\ address \in [Users -> Emails \cup {"none"}]
    /\ \A u \in Users : ~ IsMember(u) => address[u] = "none"
    /\ \A u, v \in Users :
          u # v /\ IsMember(u) /\ IsMember(v) => address[u] # address[v]
    /\ link = [u \in Users |-> 0] /\ issued = 0
    /\ owner \in [Sessions -> {u \in Users : IsMember(u)} \cup {NoOne}]
    /\ worth = [s \in Sessions |-> IF owner[s] = NoOne THEN 0 ELSE 1]
    /\ ended = {}

\* An address is given to one member at a time; a link is not inherited.
Join(u, e) ==
    /\ standing[u] = "none"
    /\ \A v \in Users : IsMember(v) => address[v] # e
    /\ standing' = [standing EXCEPT ![u] = "member"]
    /\ address' = [address EXCEPT ![u] = e]
    /\ UNCHANGED <<link, issued, sessions>>

\* The sessions end with the account, and nobody comes back.
Leave(u) ==
    /\ IsMember(u)
    /\ standing' = [standing EXCEPT ![u] = "gone"]
    /\ address' = [address EXCEPT ![u] = "none"]
    /\ link' = [link EXCEPT ![u] = 0]
    /\ ended' = ended \cup SessionsOf(u)
    /\ UNCHANGED <<issued, owner, worth>>

\* A new link takes the place of the one before.  One that comes too late for
\* somebody who has left is none.
Issue(u) ==
    /\ standing[u] # "none"
    /\ issued' = issued + 1
    /\ link' = [link EXCEPT ![u] = IF IsMember(u) THEN issued + 1 ELSE 0]
    /\ UNCHANGED <<standing, address, sessions>>

Recover(u) ==
    /\ link[u] # 0
    /\ link' = [link EXCEPT ![u] = 0]
    /\ ended' = ended \cup SessionsOf(u)
    /\ UNCHANGED <<standing, address, issued, owner, worth>>

\* A login checks who somebody is and opens the session later: the member may
\* have left meanwhile.
Enter(u, s) ==
    /\ standing[u] # "none"
    /\ owner[s] = NoOne
    /\ owner' = [owner EXCEPT ![s] = u]
    /\ worth' = [worth EXCEPT ![s] = 1]
    /\ UNCHANGED <<members, ended>>

\* Such a session is worth one token and no more.
Prolong(s) ==
    /\ s \notin ended
    /\ owner[s] # NoOne /\ IsMember(owner[s])
    /\ worth' = [worth EXCEPT ![s] = @ + 1]
    /\ UNCHANGED <<members, owner, ended>>

End(s) ==
    /\ owner[s] # NoOne
    /\ ended' = ended \cup {s}
    /\ UNCHANGED <<members, owner, worth>>

Next ==
    \/ \E u \in Users :
          \/ \E e \in Emails : Join(u, e)
          \/ Leave(u) \/ Issue(u) \/ Recover(u)
          \/ \E s \in Sessions : Enter(u, s)
    \/ \E s \in Sessions : Prolong(s) \/ End(s)

Spec == Init /\ [][Next]_<<members, sessions>>

-----------------------------------------------------------------------------

TypeOK ==
    /\ standing \in [Users -> Standings]
    /\ address \in [Users -> Emails \cup {"none"}]
    /\ link \in [Users -> Nat] /\ issued \in Nat
    /\ owner \in [Sessions -> Users \cup {NoOne}]
    /\ worth \in [Sessions -> Nat]
    /\ ended \subseteq Sessions

\* An address leads to one member, and a link to nobody who has left.
AddressesApart ==
    \A u, v \in Users : u # v /\ IsMember(u) /\ IsMember(v) => address[u] # address[v]

LinksForMembers == \A u \in Users : ~ IsMember(u) => link[u] = 0

\* A session of somebody who has left is over, or was opened too late and is
\* never prolonged.
LateSessions ==
    \A s \in Sessions :
      owner[s] # NoOne /\ standing[owner[s]] = "gone" /\ s \notin ended => worth[s] = 1

Promises == AddressesApart /\ LinksForMembers /\ LateSessions

=============================================================================
