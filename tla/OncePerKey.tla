------------------------------ MODULE OncePerKey ------------------------------
(***************************************************************************)
(* What a client can rely on that sends commands with idempotency keys and *)
(* sends them again when no answer comes: a command is carried out under   *)
(* its key once, and of all commands that name one version of a row, under *)
(* whatever keys, one is carried out; a repetition is told what the first  *)
(* was told; a key that belongs to something else is a conflict; and who   *)
(* is told anything else knows that nothing was done.                      *)
(*                                                                         *)
(* No lookups, no locks, no transactions, no deadlocks: this is the        *)
(* abstract specification that Requests implements (RequestsOncePerKey).   *)
(***************************************************************************)
EXTENDS Naturals

CONSTANTS
    Attempts,   \* requests that arrive, repetitions included
    Asks,       \* what they ask: [slot, target, version, ...]
    Outcomes    \* what can become of a row

VARIABLES
    asked,      \* those that arrived -> Asks
    told,       \* those that were answered -> their answer
    done,       \* slots that are used up -> what was asked and answered
    world       \* everything the commands change

\* The function f with y at x.
With(f, x, y) == [z \in DOMAIN f \cup {x} |-> IF z = x THEN y ELSE f[z]]

Pending == DOMAIN asked \ DOMAIN told

Tell(q, a) == told' = With(told, q, a)

Init ==
    /\ DOMAIN asked = {} /\ DOMAIN told = {} /\ DOMAIN done = {}

\* Others have been at work before the first request.
Before ==
    /\ DOMAIN asked = {}
    /\ UNCHANGED <<asked, told, done>>

Ask(q) ==
    /\ q \notin DOMAIN asked
    /\ DOMAIN asked' = DOMAIN asked \cup {q}
    /\ asked'[q] \in Asks
    /\ \A p \in DOMAIN asked : asked'[p] = asked[p]
    /\ UNCHANGED <<told, done, world>>

\* The row had the version that was named, and has the next one.
Perform(q) ==
    LET ask == asked[q]
    IN  /\ q \in Pending
        /\ ask.slot \notin DOMAIN done
        /\ \A s \in DOMAIN done :
              done[s].ask.target = ask.target => done[s].ask.version # ask.version
        /\ world' # world
        /\ \E outcome \in Outcomes :
              LET response == [status |-> outcome, version |-> ask.version + 1]
              IN  /\ done' = With(done, ask.slot, [ask |-> ask, response |-> response])
                  /\ Tell(q, [kind |-> "ok", response |-> response])
        /\ UNCHANGED asked

\* The same under the same key is answered from memory.
Repeat(q) ==
    /\ q \in Pending
    /\ asked[q].slot \in DOMAIN done
    /\ LET row == done[asked[q].slot]
       IN  Tell(q, IF row.ask = asked[q] THEN [kind |-> "ok", response |-> row.response]
                   ELSE [kind |-> "conflict"])
    /\ UNCHANGED <<asked, done, world>>

Decline(q) ==
    /\ q \in Pending
    /\ \E kind \in {"refused", "error"} : Tell(q, [kind |-> kind])
    /\ UNCHANGED <<asked, done, world>>

Next ==
    \/ Before
    \/ \E q \in Attempts : Ask(q) \/ Perform(q) \/ Repeat(q) \/ Decline(q)

Spec == Init /\ [][Next]_<<asked, told, done, world>>

=============================================================================
