-------------------------- MODULE RequestsOncePerKey --------------------------
(***************************************************************************)
(* The state of Requests as a client sees it: an attempt has arrived when  *)
(* it is no longer idle, and what is used up is what the key table says.   *)
(* Keys that are inserted and not committed, locks and snapshots are not   *)
(* seen.                                                                   *)
(***************************************************************************)
EXTENDS Requests

AskOf(slot, body, version) ==
    [slot |-> slot, target |-> Target(body), body |-> body, version |-> version]

AskedFor ==
    [q \in {p \in Attempts : phase[p] # "idle"} |->
       AskOf(Slot(q), request[q].body, request[q].expected)]

ToldTo == [q \in {p \in Attempts : phase[p] = "answered"} |-> answer[q]]

Done ==
    [s \in DOMAIN idempotency_keys |->
       [ask |-> AskOf(s, idempotency_keys[s].body, idempotency_keys[s].expected),
        response |-> idempotency_keys[s].response]]

K == INSTANCE OncePerKey WITH
        Asks <- [slot : Commands \X Keys, target : BOOLEAN \X (Incidents \cup Dispatches),
                 body : Bodies, version : Nat],
        Outcomes <- DB!IncidentStatuses \cup DB!DispatchStatuses,
        asked <- AskedFor,
        told  <- ToldTo,
        done  <- Done,
        world <- tables

\* Whatever else is under way, whatever is lost, repeated, rolled back or
\* deadlocked, what clients are told and what becomes of the tables is a
\* behaviour of OncePerKey.
ImplementsOncePerKey == K!Spec

=============================================================================
