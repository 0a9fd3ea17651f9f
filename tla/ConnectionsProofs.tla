-------------------------- MODULE ConnectionsProofs --------------------------
(***************************************************************************)
(* For any number of clients, threads and connections: nobody holds more   *)
(* than there is, and threads and connections do not wait for each other   *)
(* before as many requests are under way as there are of both.             *)
(***************************************************************************)
EXTENDS Connections, FiniteSetTheorems, SequenceTheorems, TLAPS

PartNames == Querying \cup Refusing \cup {"get_db", "serialize"}

IInv == TypeOK /\ Accounted

\* The set of requests on a thread after the stage of one of them changed.
LEMMA OnThreadAfter ==
    ASSUME TypeOK, NEW q \in Requests, NEW s \in Stages,
           stage' = [stage EXCEPT ![q] = s]
    PROVE  OnThread' = IF s \in {"run", "connect"} THEN OnThread \cup {q} ELSE OnThread \ {q}
  BY DEF TypeOK, OnThread, Stages

LEMMA InFlightAfter ==
    ASSUME TypeOK, NEW q \in Requests, NEW s \in Stages,
           stage' = [stage EXCEPT ![q] = s]
    PROVE  InFlight' = IF s = "idle" THEN InFlight \ {q} ELSE InFlight \cup {q}
  BY DEF TypeOK, InFlight, Stages

\* Sets of requests are finite, so their cardinalities are numbers.
LEMMA Countable ==
    ASSUME NEW S, S \subseteq Requests
    PROVE  IsFiniteSet(S) /\ Cardinality(S) \in Nat
  BY ConnectionsAssumption, FS_Subset, FS_CardinalityType DEF ConnectionsAssumption

\* One more element counts at most one more.
LEMMA CountAfterAdding ==
    ASSUME NEW S, S \subseteq Requests, NEW q \in Requests, NEW n \in Nat,
           Cardinality(S) < n
    PROVE  Cardinality(S \cup {q}) <= n
  <1>1. IsFiniteSet(S) /\ Cardinality(S) \in Nat  BY Countable
  <1>2. Cardinality(S \cup {q}) = IF q \in S THEN Cardinality(S) ELSE Cardinality(S) + 1
    BY <1>1, FS_AddElement
  <1> QED  BY <1>1, <1>2

\* A subset counts no more.
LEMMA CountOfSubset ==
    ASSUME NEW S, NEW T, T \subseteq Requests, S \subseteq T, NEW n \in Nat,
           Cardinality(T) <= n
    PROVE  Cardinality(S) <= n
  <1>1. IsFiniteSet(T) /\ Cardinality(T) \in Nat  BY Countable
  <1>2. Cardinality(S) <= Cardinality(T)  BY <1>1, FS_Subset
  <1>3. Cardinality(S) \in Nat  BY Countable
  <1> QED  BY <1>1, <1>2, <1>3

LEMMA PartsAreLists == \A parts \in Parts : parts \in Seq(PartNames) /\ parts # <<>>
  <1>1. \A a, b, c \in PartNames : <<a, b, c>> \in Seq(PartNames) /\ <<a, b, c>> # <<>>
    OBVIOUS
  <1>2. \A a, b, c, d \in PartNames : <<a, b, c, d>> \in Seq(PartNames) /\ <<a, b, c, d>> # <<>>
    OBVIOUS
  <1>3. \A a, b, c, d, e \in PartNames :
           <<a, b, c, d, e>> \in Seq(PartNames) /\ <<a, b, c, d, e>> # <<>>
    OBVIOUS
  <1>4. {"get_db", "get_current_user", "permissions", "endpoint", "serialize"} \subseteq PartNames
    BY DEF PartNames, Querying, Refusing
  <1>5. <<"get_db", "endpoint", "serialize">> \in Seq(PartNames)
        /\ <<"get_db", "endpoint", "serialize">> # <<>>
    BY <1>1, <1>4
  <1>6. <<"get_db", "get_current_user", "endpoint", "serialize">> \in Seq(PartNames)
        /\ <<"get_db", "get_current_user", "endpoint", "serialize">> # <<>>
    BY <1>2, <1>4
  <1>7. <<"get_db", "get_current_user", "permissions", "endpoint", "serialize">> \in Seq(PartNames)
        /\ <<"get_db", "get_current_user", "permissions", "endpoint", "serialize">> # <<>>
    BY <1>3, <1>4
  <1> QED  BY <1>5, <1>6, <1>7 DEF Parts

\* What is left of a list is a list, and empty only after the last element.
LEMMA RestOfList ==
    ASSUME NEW S, NEW s \in Seq(S), s # <<>>
    PROVE  Tail(s) \in Seq(S) /\ (Len(s) # 1 => Tail(s) # <<>>)
  <1>1. Tail(s) \in Seq(S) /\ Len(Tail(s)) = Len(s) - 1  BY HeadTailProperties
  <1>2. Len(s) \in Nat  OBVIOUS
  <1>3. Tail(s) = <<>> => Len(Tail(s)) = 0  BY <1>1, EmptySeq
  <1>4. Tail(s) = <<>> => Len(s) = 1
    <2> DEFINE n == Len(s)
               m == Len(Tail(s))
    <2>1. m = n - 1 /\ n \in Nat  BY <1>1, <1>2
    <2>2. m = 0 => n = 1
      <3> HIDE DEF m, n
      <3> QED  BY <2>1
    <2> QED  BY <1>3, <2>2
  <1> QED  BY <1>1, <1>4

LEMMA TypeInitially == Init => TypeOK
  BY DEF Init, TypeOK, Stages

LEMMA TypePreserved == TypeOK /\ [Next]_vars => TypeOK'
  <1> SUFFICES ASSUME TypeOK, [Next]_vars PROVE TypeOK'  OBVIOUS
  <1>n. PartNames = Querying \cup Refusing \cup {"get_db", "serialize"}  BY DEF PartNames
  <1> USE DEF TypeOK, Stages
  <1>1. CASE UNCHANGED vars  BY <1>1 DEF vars
  <1>2. ASSUME NEW q \in Requests, Arrive(q) PROVE TypeOK'
    BY <1>2, <1>n, PartsAreLists DEF Arrive
  <1>3. ASSUME NEW q \in Requests, TakeThread(q) PROVE TypeOK'
    BY <1>3 DEF TakeThread
  <1>4. ASSUME NEW q \in Requests, Query(q) PROVE TypeOK'
    BY <1>4 DEF Query
  <1>5. ASSUME NEW q \in Requests, Connect(q) PROVE TypeOK'
    BY <1>5 DEF Connect
  <1>6. ASSUME NEW q \in Requests, PoolTimeout(q) PROVE TypeOK'
    BY <1>6 DEF PoolTimeout
  <1>7. ASSUME NEW q \in Requests, EndTransaction(q) PROVE TypeOK'
    BY <1>7 DEF EndTransaction
  <1>8. ASSUME NEW q \in Requests, Return(q) PROVE TypeOK'
    <2>1. todo[q] \in Seq(PartNames) /\ todo[q] # <<>>  BY <1>8, <1>n DEF Return
    <2>2. Tail(todo[q]) \in Seq(PartNames) /\ (Len(todo[q]) # 1 => Tail(todo[q]) # <<>>)
      BY <2>1, RestOfList
    <2> QED  BY <1>8, <1>n, <2>2 DEF Return
  <1>9. ASSUME NEW q \in Requests, Refuse(q) PROVE TypeOK'
    BY <1>9 DEF Refuse
  <1>10. ASSUME NEW q \in Requests, Close(q) PROVE TypeOK'
    BY <1>10 DEF Close
  <1> QED
    BY <1>1, <1>2, <1>3, <1>4, <1>5, <1>6, <1>7, <1>8, <1>9, <1>10 DEF Next

LEMMA AccountedInitially == Init => Accounted
  <1> SUFFICES ASSUME Init PROVE Accounted  OBVIOUS
  <1>1. OnThread = {} /\ connections = {}  BY DEF Init, OnThread
  <1>2. Cardinality({}) = 0  BY FS_EmptySet
  <1> QED  BY <1>1, <1>2, ConnectionsAssumption DEF Accounted, ConnectionsAssumption

LEMMA AccountedPreserved == IInv /\ [Next]_vars => Accounted'
  <1> SUFFICES ASSUME IInv, [Next]_vars PROVE Accounted'  OBVIOUS
  <1> USE DEF IInv
  <1>t. Threads \in Nat /\ PoolSize \in Nat  BY ConnectionsAssumption DEF ConnectionsAssumption
  <1>s. OnThread \subseteq Requests /\ connections \subseteq Requests
    BY DEF OnThread, TypeOK
  \* A step that neither takes a thread nor a connection, and keeps the
  \* connection only of requests that stay under way and do not wait for one.
  <1>a. ASSUME NEW q \in Requests, NEW s \in Stages, stage' = [stage EXCEPT ![q] = s],
               s \in {"run", "connect"} => q \in OnThread,
               connections' \subseteq connections,
               s \in {"idle", "connect"} => q \notin connections'
        PROVE  Accounted'
    <2>1. OnThread' \subseteq OnThread  BY <1>a, OnThreadAfter
    <2>2. Cardinality(OnThread') <= Threads
      BY <2>1, <1>s, <1>t, CountOfSubset DEF Accounted
    <2>3. Cardinality(connections') <= PoolSize
      BY <1>a, <1>s, <1>t, CountOfSubset DEF Accounted
    <2>4. connections' \subseteq InFlight'
      BY <1>a, InFlightAfter DEF Accounted
    <2>5. \A p \in connections' : stage'[p] # "connect"
      BY <1>a DEF Accounted, TypeOK, Stages
    <2> QED  BY <2>2, <2>3, <2>4, <2>5 DEF Accounted
  <1>1. CASE UNCHANGED vars
    BY <1>1 DEF vars, Accounted, InFlight, OnThread
  <1>2. ASSUME NEW q \in Requests, Arrive(q) PROVE Accounted'
    <2>1. "thread" \in Stages  BY DEF Stages
    <2> QED  BY <1>2, <1>a, <2>1 DEF Arrive
  <1>3. ASSUME NEW q \in Requests, TakeThread(q) PROVE Accounted'
    <2>1. "run" \in Stages /\ stage' = [stage EXCEPT ![q] = "run"]
          /\ connections' = connections /\ Cardinality(OnThread) < Threads
      BY <1>3 DEF Stages, TakeThread, ThreadFree
    <2>2. OnThread' = OnThread \cup {q}  BY <2>1, OnThreadAfter
    <2>3. Cardinality(OnThread') <= Threads
      BY <2>1, <2>2, <1>s, <1>t, CountAfterAdding
    <2>4. connections' \subseteq InFlight'  BY <2>1, InFlightAfter DEF Accounted
    <2>5. \A p \in connections' : stage'[p] # "connect"
      BY <2>1 DEF Accounted, TypeOK
    <2> QED  BY <2>1, <2>3, <2>4, <2>5 DEF Accounted
  <1>4. ASSUME NEW q \in Requests, Query(q) PROVE Accounted'
    <2>1. "connect" \in Stages /\ q \in OnThread  BY <1>4 DEF Stages, Query, OnThread
    <2> QED  BY <1>4, <1>a, <2>1 DEF Query
  <1>5. ASSUME NEW q \in Requests, Connect(q) PROVE Accounted'
    <2>1. "run" \in Stages /\ stage' = [stage EXCEPT ![q] = "run"] /\ q \in OnThread
          /\ connections' = connections \cup {q} /\ Cardinality(connections) < PoolSize
      BY <1>5 DEF Stages, Connect, ConnectionFree, OnThread
    <2>2. OnThread' = OnThread  BY <2>1, OnThreadAfter
    <2>3. Cardinality(connections') <= PoolSize
      BY <2>1, <1>s, <1>t, CountAfterAdding
    <2>4. connections' \subseteq InFlight'  BY <2>1, InFlightAfter DEF Accounted
    <2>5. \A p \in connections' : stage'[p] # "connect"
      BY <2>1 DEF Accounted, TypeOK
    <2> QED  BY <2>2, <2>3, <2>4, <2>5 DEF Accounted
  <1>6. ASSUME NEW q \in Requests, PoolTimeout(q) PROVE Accounted'
    <2>1. "closing" \in Stages  BY DEF Stages
    <2> QED  BY <1>6, <1>a, <2>1 DEF PoolTimeout
  <1>7. ASSUME NEW q \in Requests, EndTransaction(q) PROVE Accounted'
    <2>1. "run" \in Stages /\ q \in OnThread /\ stage' = [stage EXCEPT ![q] = "run"]
          /\ connections' \subseteq connections
      BY <1>7 DEF Stages, EndTransaction, OnThread, TypeOK
    <2> QED  BY <1>a, <2>1
  <1>8. ASSUME NEW q \in Requests, Return(q) PROVE Accounted'
    <2> DEFINE s == IF Len(todo[q]) = 1 THEN "closing" ELSE "thread"
    <2>1. s \in {"closing", "thread"} /\ stage' = [stage EXCEPT ![q] = s]
          /\ connections' = connections
      BY <1>8 DEF Return
    <2>2. s \in Stages  BY <2>1 DEF Stages
    <2> HIDE DEF s
    <2> QED  BY <1>a, <2>1, <2>2
  <1>9. ASSUME NEW q \in Requests, Refuse(q) PROVE Accounted'
    <2>1. "closing" \in Stages  BY DEF Stages
    <2> QED  BY <1>9, <1>a, <2>1 DEF Refuse
  <1>10. ASSUME NEW q \in Requests, Close(q) PROVE Accounted'
    <2>1. "idle" \in Stages  BY DEF Stages
    <2> QED  BY <1>10, <1>a, <2>1 DEF Close
  <1> QED
    BY <1>1, <1>2, <1>3, <1>4, <1>5, <1>6, <1>7, <1>8, <1>9, <1>10 DEF Next

\* Whatever the sizes: no thread or connection is handed out that is not there,
\* and none is kept by a request that is over or that waits for a connection
\* (core/database.py: get_db).
THEOREM ConnectionsAccounted == Spec => [](TypeOK /\ Accounted)
  <1>1. Init => IInv  BY TypeInitially, AccountedInitially DEF IInv
  <1>2. IInv /\ [Next]_vars => IInv'
    BY TypePreserved, AccountedPreserved DEF IInv
  <1> QED  BY <1>1, <1>2, PTL DEF Spec, IInv

\* In a stall all the threads are held by requests that want a connection and
\* all the connections by requests that want a thread, and no request is both.
LEMMA StallNeedsBoth == IInv => NoEarlyStall
  <1> SUFFICES ASSUME IInv, Stalled
               PROVE  Cardinality(InFlight) >= Threads + PoolSize
    BY DEF NoEarlyStall
  <1> USE DEF IInv
  <1>1. OnThread \subseteq Requests /\ connections \subseteq Requests /\ InFlight \subseteq Requests
    BY DEF OnThread, InFlight, TypeOK
  <1>2. /\ Threads \in Nat /\ Threads > 0
        /\ PoolSize \in Nat /\ PoolSize > 0
    BY ConnectionsAssumption DEF ConnectionsAssumption
  <1>3. /\ IsFiniteSet(OnThread) /\ Cardinality(OnThread) \in Nat
        /\ IsFiniteSet(connections) /\ Cardinality(connections) \in Nat
        /\ IsFiniteSet(InFlight) /\ Cardinality(InFlight) \in Nat
    BY <1>1, Countable
  <1>4. OnThread \cap connections = {}
    BY DEF Stalled, OnThread, InFlight, Accounted
  <1>5. OnThread \cup connections \subseteq InFlight
    BY DEF OnThread, InFlight, Accounted
  <1>6. Cardinality({}) = 0  BY FS_EmptySet
  <1>7. (\E q \in InFlight : stage[q] = "thread") => Cardinality(OnThread) >= Threads
    BY <1>2, <1>3 DEF Stalled, ThreadFree
  <1>8. (\E q \in InFlight : stage[q] = "connect") => Cardinality(connections) >= PoolSize
    BY <1>2, <1>3 DEF Stalled, ConnectionFree
  <1>9. \E q \in InFlight : stage[q] = "thread"
    <2> SUFFICES ASSUME \A q \in InFlight : stage[q] # "thread" PROVE FALSE  OBVIOUS
    <2>1. \A q \in InFlight : stage[q] = "connect"  BY DEF Stalled
    <2>2. \E q \in InFlight : stage[q] = "connect"  BY <2>1 DEF Stalled
    <2>3. connections = {}  BY <2>1 DEF Accounted
    <2> QED  BY <2>2, <2>3, <1>8, <1>6, <1>2
  <1>10. \E q \in InFlight : stage[q] = "connect"
    <2> SUFFICES ASSUME \A q \in InFlight : stage[q] # "connect" PROVE FALSE  OBVIOUS
    <2>1. OnThread = {}  BY DEF Stalled, OnThread, InFlight
    <2> QED  BY <2>1, <1>9, <1>7, <1>6, <1>2
  <1>11. Cardinality(OnThread \cup connections) = Cardinality(OnThread) + Cardinality(connections)
    <2>1. Cardinality(OnThread \cup connections)
            = Cardinality(OnThread) + Cardinality(connections) - Cardinality(OnThread \cap connections)
      BY <1>3, FS_Union
    <2>2. Cardinality(OnThread \cap connections) = 0  BY <1>4, <1>6, Zenon
    <2> QED  BY <2>1, <2>2, <1>3
  <1>12. Cardinality(OnThread \cup connections) <= Cardinality(InFlight)
    BY <1>3, <1>5, FS_Subset
  <1>13. IsFiniteSet(OnThread \cup connections)
    BY <1>3, <1>5, FS_Subset
  <1> QED  BY <1>2, <1>3, <1>7, <1>8, <1>9, <1>10, <1>11, <1>12

\* Sizing: with fewer requests under way than threads and connections together
\* the service never waits for the pool's timeout, however they interleave
\* (core/database.py: create_engine; every endpoint).
THEOREM NoEarlyStalls == Spec => []NoEarlyStall
  <1>1. Spec => []IInv  BY ConnectionsAccounted, PTL DEF IInv
  <1> QED  BY <1>1, StallNeedsBoth, PTL
=============================================================================
