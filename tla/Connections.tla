----------------------------- MODULE Connections -----------------------------
(***************************************************************************)
(* What a request occupies while it is answered: a worker thread for each  *)
(* of its synchronous parts and a database connection for its session.     *)
(*                                                                         *)
(* The endpoints and their dependencies are plain functions, which the     *)
(* framework runs one by one on a limited set of worker threads; a request *)
(* gives its thread back between two of them.  get_db (core/database.py)   *)
(* opens a session, which takes a connection from the engine's pool at its *)
(* first statement and keeps it until a commit, a rollback or close().  So *)
(* a request keeps the connection get_current_user took while it waits for *)
(* a thread to run its endpoint on, and a thread while it waits for a      *)
(* connection.                                                             *)
(***************************************************************************)
EXTENDS Integers, Sequences, FiniteSets

CONSTANTS
    Requests,         \* connections of clients, each with one request at a time
    Threads,          \* worker threads of the framework
    PoolSize,         \* connections the pool opens at most, overflow included
    MaxTransactions   \* bound: transactions one request begins

ASSUME ConnectionsAssumption ==
    /\ IsFiniteSet(Requests)
    /\ Threads \in Nat \ {0}
    /\ PoolSize \in Nat \ {0}
    /\ MaxTransactions \in Nat

VARIABLES
    stage,        \* [Requests -> Stages]
    todo,         \* [Requests -> the synchronous parts still to run]
    begun,        \* [Requests -> transactions begun]
    connections   \* requests whose session has a connection

vars == <<stage, todo, begun, connections>>

\* idle: no request; thread: waits for a worker thread; run: on a thread;
\* connect: on a thread, waits for a connection; closing: the parts are over.
Stages == {"idle", "thread", "run", "connect", "closing"}

\* The synchronous parts of an endpoint, in the order they run: of one that
\* anybody may call, one for any user, and one that asks for a permission.
Parts ==
    {<<"get_db", "endpoint", "serialize">>,
     <<"get_db", "get_current_user", "endpoint", "serialize">>,
     <<"get_db", "get_current_user", "permissions", "endpoint", "serialize">>}

\* Parts that read or write through the session, and those that can refuse.
Querying == {"get_current_user", "endpoint"}
Refusing == {"get_current_user", "permissions", "endpoint"}

InFlight == {q \in Requests : stage[q] # "idle"}
OnThread == {q \in Requests : stage[q] \in {"run", "connect"}}

ThreadFree     == Cardinality(OnThread) < Threads
ConnectionFree == Cardinality(connections) < PoolSize

-----------------------------------------------------------------------------
Init ==
    /\ stage = [q \in Requests |-> "idle"]
    /\ todo = [q \in Requests |-> <<>>]
    /\ begun = [q \in Requests |-> 0]
    /\ connections = {}

Arrive(q) ==
    /\ stage[q] = "idle"
    /\ \E parts \in Parts : todo' = [todo EXCEPT ![q] = parts]
    /\ stage' = [stage EXCEPT ![q] = "thread"]
    /\ begun' = [begun EXCEPT ![q] = 0]
    /\ UNCHANGED connections

TakeThread(q) ==
    /\ stage[q] = "thread"
    /\ ThreadFree
    /\ stage' = [stage EXCEPT ![q] = "run"]
    /\ UNCHANGED <<todo, begun, connections>>

\* The part executes a statement and its session has no connection.
Query(q) ==
    /\ stage[q] = "run"
    /\ Head(todo[q]) \in Querying
    /\ q \notin connections
    /\ begun[q] < MaxTransactions
    /\ stage' = [stage EXCEPT ![q] = "connect"]
    /\ begun' = [begun EXCEPT ![q] = @ + 1]
    /\ UNCHANGED <<todo, connections>>

Connect(q) ==
    /\ stage[q] = "connect"
    /\ ConnectionFree
    /\ stage' = [stage EXCEPT ![q] = "run"]
    /\ connections' = connections \cup {q}
    /\ UNCHANGED <<todo, begun>>

\* Mutant: the engine waits for a connection as long as it takes.
PoolNeverTimesOut(q) == FALSE /\ UNCHANGED vars

\* No connection came back within pool_timeout: the statement raises, and the
\* middleware answers 500.
PoolTimeout(q) ==
    /\ stage[q] = "connect"
    /\ ~ ConnectionFree
    /\ stage' = [stage EXCEPT ![q] = "closing"]
    /\ UNCHANGED <<todo, begun, connections>>

\* The endpoint commits, or rolls back and goes on (a repeated idempotency key
\* is looked up in a transaction of its own).
EndTransaction(q) ==
    /\ stage[q] = "run"
    /\ Head(todo[q]) = "endpoint"
    /\ q \in connections
    /\ connections' = connections \ {q}
    /\ UNCHANGED <<stage, todo, begun>>

\* The part returns: its thread is free for another request.
Return(q) ==
    /\ stage[q] = "run"
    /\ todo' = [todo EXCEPT ![q] = Tail(@)]
    /\ stage' = [stage EXCEPT ![q] = IF Len(todo[q]) = 1 THEN "closing" ELSE "thread"]
    /\ UNCHANGED <<begun, connections>>

\* The part raises; the later ones do not run.
Refuse(q) ==
    /\ stage[q] = "run"
    /\ Head(todo[q]) \in Refusing
    /\ stage' = [stage EXCEPT ![q] = "closing"]
    /\ UNCHANGED <<todo, begun, connections>>

\* Mutant: get_db has no `finally: db.close()'.
CloseForgets(q) ==
    /\ stage[q] = "closing"
    /\ stage' = [stage EXCEPT ![q] = "idle"]
    /\ todo' = [todo EXCEPT ![q] = <<>>]
    /\ begun' = [begun EXCEPT ![q] = 0]
    /\ UNCHANGED connections

\* The end of get_db: rollback on an exception, close() in any case.  The
\* framework does not run it on the limited worker threads.
Close(q) ==
    /\ stage[q] = "closing"
    /\ stage' = [stage EXCEPT ![q] = "idle"]
    /\ todo' = [todo EXCEPT ![q] = <<>>]
    /\ begun' = [begun EXCEPT ![q] = 0]
    /\ connections' = connections \ {q}

Next ==
    \E q \in Requests :
        \/ Arrive(q) \/ TakeThread(q) \/ Query(q) \/ Connect(q) \/ PoolTimeout(q)
        \/ EndTransaction(q) \/ Return(q) \/ Refuse(q) \/ Close(q)

Spec == Init /\ [][Next]_vars

\* Threads run, the worker threads go to the requests in the order they came,
\* and a wait for a connection ends one way or the other.
Fairness ==
    \A q \in Requests :
        /\ SF_vars(TakeThread(q))
        /\ WF_vars(Connect(q) \/ PoolTimeout(q))
        /\ WF_vars(Return(q) \/ Refuse(q))
        /\ WF_vars(Close(q))

FairSpec == Spec /\ Fairness

-----------------------------------------------------------------------------
(* Types.                                                                  *)
TypeOK ==
    /\ stage \in [Requests -> Stages]
    /\ todo \in [Requests -> Seq(Querying \cup Refusing \cup {"get_db", "serialize"})]
    /\ begun \in [Requests -> Nat]
    /\ connections \subseteq Requests
    /\ \A q \in Requests : stage[q] \in {"thread", "run", "connect"} => todo[q] # <<>>

\* Nobody holds more than there is, a session without a request under way holds
\* no connection, and neither does one that waits for a connection: it cannot
\* be kept from its second connection by its first.
Accounted ==
    /\ connections \subseteq InFlight
    /\ \A q \in connections : stage[q] # "connect"
    /\ Cardinality(OnThread) <= Threads
    /\ Cardinality(connections) <= PoolSize

\* Every request under way waits, and for something another one has to give.
Stalled ==
    /\ InFlight # {}
    /\ \A q \in InFlight :
          \/ stage[q] = "thread" /\ ~ ThreadFree
          \/ stage[q] = "connect" /\ ~ ConnectionFree

\* Threads wait for connections and connections for threads, and only the
\* pool's timeout gets them out of it; but not before there are as many
\* requests under way as threads and connections together.
NoEarlyStall == Stalled => Cardinality(InFlight) >= Threads + PoolSize

\* Every request is answered, through a stall too: waits for threads and
\* connections do not starve it, and whatever raises, its session is closed.
EveryRequestAnswered ==
    \A q \in Requests : stage[q] # "idle" ~> stage[q] = "idle"
=============================================================================
