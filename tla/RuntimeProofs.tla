--------------------------- MODULE RuntimeProofs ---------------------------
(***************************************************************************)
(* Theorems about Runtime, for any number of threads and of operations.    *)
(***************************************************************************)
EXTENDS Runtime, TLAPS

\* The counter is ahead of every id it has given.
IdInv ==
  /\ SThreadId > 0
  /\ \A t \in Threads \cup {Main} : LThreadId[t] < SThreadId
  /\ IdsAreUnique

\* The managers are there from the constructor to the end of the last Join.
StageInv ==
  /\ main = "start" => \A t \in Threads : state[t] = "none"
  /\ main \in {"up", "joining", "deleting", "fault"} =>
       GThreadManager = "live" /\ GSendBufferManager = "live"
  /\ main = "deleted" => \A t \in Threads : ~Alive(t)

\* The vector holds every thread that is not over; Join has joined the threads it
\* has passed, and misses those launched since it began.
VectorInv ==
  /\ \A t \in Threads : Alive(t) => \E i \in 1 .. Len(threads) : threads[i] = t
  /\ main \in {"joining", "deleting"} =>
       /\ end <= Len(threads)
       /\ \A i \in 1 .. walked : state[threads[i]] = "done"
       /\ late <=> Len(threads) > end
  /\ main = "fault" => late

IInv == TypeOK /\ IdInv /\ StageInv /\ VectorInv /\ LateLaunchIsFatal

LEMMA InitInv == Init => IInv
<1>. SUFFICES ASSUME Init PROVE IInv
  OBVIOUS
<1>. USE RuntimeAssumption DEF Init
<1>1. TypeOK
  <2>1. threads \in Seq(Threads) /\ Len(threads) = 0
    OBVIOUS
  <2>2. /\ LThreadId \in [Threads \cup {Main} -> Nat]
        /\ state \in [Threads -> {"none", "new", "ready", "run", "handler", "launch", "done"}]
    OBVIOUS
  <2>3. walked \in 0 .. end /\ end \in Nat /\ end <= Len(threads) /\ pending \in 0 .. MaxWork
    BY <2>1
  <2>. QED  BY <2>1, <2>2, <2>3 DEF TypeOK
<1>2. IdInv
  BY DEF IdInv, IdsAreUnique
<1>3. StageInv /\ VectorInv /\ LateLaunchIsFatal
  BY DEF StageInv, VectorInv, LateLaunchIsFatal, Alive
<1>. QED  BY <1>1, <1>2, <1>3 DEF IInv

\* A new id differs from all others.
LEMMA NewId ==
  ASSUME TypeOK, IdInv, NEW t \in Threads \cup {Main}, InitTLS(t)
  PROVE  /\ IdInv' /\ SThreadId' \in Nat
         /\ LThreadId' \in [Threads \cup {Main} -> Nat]
<1>1. SThreadId \in Nat /\ LThreadId \in [Threads \cup {Main} -> Nat]
  BY DEF TypeOK
<1>2. /\ LThreadId'[t] = SThreadId /\ SThreadId' = SThreadId + 1
      /\ \A u \in Threads \cup {Main} : u # t => LThreadId'[u] = LThreadId[u]
  BY <1>1 DEF InitTLS
<1>3. \A u \in Threads \cup {Main} : LThreadId[u] \in Nat /\ LThreadId[u] < SThreadId
  BY <1>1 DEF IdInv
<1>4. LThreadId' \in [Threads \cup {Main} -> Nat]
  BY <1>1 DEF InitTLS
<1>5. ASSUME NEW u \in Threads \cup {Main}
      PROVE  LThreadId'[u] < SThreadId'
  BY <1>1, <1>2, <1>3
<1>6. IdsAreUnique'
  BY <1>1, <1>2, <1>3 DEF IdInv, IdsAreUnique
<1>. QED  BY <1>1, <1>2, <1>4, <1>5, <1>6 DEF IdInv

\* A thread works on; the main thread, the vector and the Join stay.
LEMMA Works ==
  ASSUME IInv, NEW t \in Threads, NEW x,
         x \in {"ready", "run", "handler", "launch", "done"}, Alive(t),
         state' = [state EXCEPT ![t] = x],
         UNCHANGED <<main, managers, threads, walk, late>>,
         UNCHANGED ids \/ InitTLS(t),
         pending' \in 0 .. MaxWork, stopped' \in BOOLEAN
  PROVE  IInv'
<1>1. /\ state'[t] = x
      /\ \A u \in Threads : u # t => state'[u] = state[u]
      /\ state' \in [Threads -> {"none", "new", "ready", "run", "handler", "launch", "done"}]
  BY DEF IInv, TypeOK
<1>2. IdInv' /\ SThreadId' \in Nat /\ LThreadId' \in [Threads \cup {Main} -> Nat]
  <2>1. CASE UNCHANGED ids
    BY <2>1 DEF IInv, TypeOK, IdInv, IdsAreUnique, ids
  <2>2. CASE InitTLS(t)
    BY <2>2, NewId DEF IInv
  <2>. QED  BY <2>1, <2>2
<1>3. TypeOK'
  BY <1>1, <1>2 DEF IInv, TypeOK, managers, walk
<1>4. \A u \in Threads : Alive(u)' => Alive(u)
  BY <1>1 DEF Alive
<1>5. \A u \in Threads : state[u] = "done" => state'[u] = "done"
  BY <1>1 DEF Alive
<1>6. StageInv'
  <2>1. main # "start"
    BY DEF IInv, StageInv, Alive
  <2>. QED  BY <1>4, <2>1 DEF IInv, StageInv, managers
<1>7. VectorInv'
  <2>1. \A i \in 1 .. Len(threads) : threads[i] \in Threads
    BY DEF IInv, TypeOK
  <2>2. main \in {"joining", "deleting"} =>
          \A i \in 1 .. walked : state'[threads[i]] = "done"
    BY <1>5, <2>1 DEF IInv, VectorInv, TypeOK
  <2>. QED  BY <1>4, <2>2 DEF IInv, VectorInv, walk
<1>8. LateLaunchIsFatal'
  BY DEF IInv, LateLaunchIsFatal
<1>. QED  BY <1>2, <1>3, <1>6, <1>7, <1>8 DEF IInv

\* A thread is pushed to the vector, by the main thread or by a handler.
LEMMA Launches ==
  ASSUME IInv, NEW u \in Threads, PushThread(u),
         main = "up" \/ \E t \in Threads : Alive(t),
         state' \in [Threads -> {"none", "new", "ready", "run", "handler", "launch", "done"}],
         state'[u] = "new",
         \A v \in Threads : v # u => /\ Alive(v)' => Alive(v)
                                     /\ state[v] = "done" => state'[v] = "done",
         UNCHANGED <<main, managers, walk, ids, context>>
  PROVE  IInv'
<1>1. /\ threads \in Seq(Threads) /\ Len(threads) \in Nat
      /\ walked \in Nat /\ end \in Nat /\ walked <= end
  BY DEF IInv, TypeOK
<1>2. /\ threads' = Append(threads, u) /\ threads' \in Seq(Threads)
      /\ Len(threads') = Len(threads) + 1 /\ threads'[Len(threads) + 1] = u
      /\ \A i \in 1 .. Len(threads) : threads'[i] = threads[i] /\ threads[i] \in Threads
      /\ state[u] = "none" /\ late' = (late \/ main # "up")
  BY <1>1 DEF PushThread
<1>3. main \in {"up", "joining", "deleting", "fault"}
  BY DEF IInv, TypeOK, StageInv, Alive
<1>4. TypeOK'
  BY <1>1, <1>2 DEF IInv, TypeOK, managers, walk, ids, context
<1>5. IdInv'
  BY DEF IInv, IdInv, IdsAreUnique, ids
<1>6. StageInv'
  BY <1>3 DEF IInv, StageInv, managers
<1>7. VectorInv'
  <2>1. ASSUME NEW v \in Threads, Alive(v)'
        PROVE  \E i \in 1 .. Len(threads') : threads'[i] = v
    <3>1. CASE v = u
      BY <1>1, <1>2, <3>1
    <3>2. CASE v # u
      <4>1. PICK i \in 1 .. Len(threads) : threads[i] = v
        BY <2>1, <3>2 DEF IInv, VectorInv
      <4>. QED  BY <1>1, <1>2, <4>1
    <3>. QED  BY <3>1, <3>2
  <2>2. ASSUME main \in {"joining", "deleting"}
        PROVE  /\ end <= Len(threads')
               /\ late' <=> Len(threads') > end
               /\ \A i \in 1 .. walked : state'[threads'[i]] = "done"
    <3>1. end <= Len(threads)
      BY <2>2 DEF IInv, VectorInv
    <3>2. Len(threads') > end
      BY <1>1, <1>2, <3>1
    <3>3. late'
      BY <1>2, <2>2
    <3>4. ASSUME NEW i \in 1 .. walked
          PROVE  state'[threads'[i]] = "done"
      <4>1. i \in 1 .. Len(threads) /\ state[threads[i]] = "done"
        BY <1>1, <2>2, <3>1 DEF IInv, VectorInv
      <4>2. threads'[i] = threads[i] /\ threads[i] \in Threads /\ threads[i] # u
        BY <1>2, <4>1
      <4>. QED  BY <4>1, <4>2
    <3>. QED  BY <1>1, <1>2, <3>1, <3>2, <3>3, <3>4
  <2>3. main = "fault" => late'
    BY <1>2
  <2>. QED  BY <2>1, <2>2, <2>3 DEF VectorInv, walk
<1>8. LateLaunchIsFatal'
  BY <1>2, <1>3 DEF IInv, LateLaunchIsFatal
<1>. QED  BY <1>4, <1>5, <1>6, <1>7, <1>8 DEF IInv

\* Only the context changes.
LEMMA ContextInv ==
  ASSUME IInv, UNCHANGED <<main, managers, threads, walk, ids, state, late>>,
         pending' \in 0 .. MaxWork, stopped' \in BOOLEAN
  PROVE  IInv'
<1>. USE DEF IInv, managers, walk, ids
<1>1. TypeOK' /\ IdInv'
  BY DEF TypeOK, IdInv, IdsAreUnique
<1>2. StageInv' /\ VectorInv' /\ LateLaunchIsFatal'
  BY DEF StageInv, VectorInv, LateLaunchIsFatal, Alive
<1>. QED  BY <1>1, <1>2

LEMMA ConstructInv ==
  ASSUME IInv, Construct PROVE IInv'
<1>1. IdInv' /\ SThreadId' \in Nat /\ LThreadId' \in [Threads \cup {Main} -> Nat]
  BY NewId DEF IInv, Construct
<1>2. TypeOK'
  BY <1>1 DEF IInv, TypeOK, Construct, walk, context
<1>3. StageInv' /\ VectorInv' /\ LateLaunchIsFatal'
  BY DEF IInv, Construct, StageInv, VectorInv, LateLaunchIsFatal, Alive, walk
<1>. QED  BY <1>1, <1>2, <1>3 DEF IInv

LEMMA JoinInv ==
  ASSUME IInv, Join PROVE IInv'
<1>. USE DEF IInv, Join, managers, ids, context
<1>1. TypeOK' /\ IdInv'
  BY DEF TypeOK, IdInv, IdsAreUnique
<1>2. ~late
  BY DEF LateLaunchIsFatal
<1>3. Len(threads) \in Nat
  BY DEF TypeOK
<1>4. StageInv' /\ LateLaunchIsFatal'
  BY <1>2 DEF StageInv, LateLaunchIsFatal
<1>5. VectorInv'
  BY <1>2, <1>3 DEF VectorInv, Alive
<1>. QED  BY <1>1, <1>4, <1>5

LEMMA JoinOneInv ==
  ASSUME IInv, JoinOne PROVE IInv'
<1>. USE DEF IInv, JoinOne, managers, ids, context
<1>1. /\ walked \in Nat /\ end \in Nat /\ Len(threads) \in Nat /\ walked < end
      /\ main \in {"joining", "deleting"}
  BY DEF TypeOK
<1>2. TypeOK' /\ IdInv'
  BY <1>1 DEF TypeOK, IdInv, IdsAreUnique
<1>3. CASE /\ state[threads[walked + 1]] = "done"
           /\ walked' = walked + 1 /\ UNCHANGED main
  <2>1. StageInv' /\ LateLaunchIsFatal'
    BY <1>3 DEF StageInv, LateLaunchIsFatal, Alive
  <2>2. \A i \in 1 .. walked' : state'[threads'[i]] = "done"
    BY <1>1, <1>3 DEF VectorInv
  <2>3. VectorInv'
    BY <1>1, <1>3, <2>2 DEF VectorInv, Alive
  <2>. QED  BY <1>2, <2>1, <2>3
<1>4. CASE Len(threads) > end /\ main' = "fault"
  <2>1. late
    BY <1>1, <1>4 DEF VectorInv
  <2>2. StageInv' /\ LateLaunchIsFatal'
    BY <1>1, <1>4 DEF StageInv, LateLaunchIsFatal
  <2>3. VectorInv'
    BY <1>4, <2>1 DEF VectorInv, Alive
  <2>. QED  BY <1>2, <2>2, <2>3
<1>. QED  BY <1>3, <1>4

LEMMA ClearedInv ==
  ASSUME IInv, Cleared PROVE IInv'
<1>. USE DEF IInv, Cleared, walk, ids, context
<1>1. /\ walked \in Nat /\ end \in Nat /\ Len(threads) \in Nat /\ walked = end
      /\ main \in {"joining", "deleting"}
  BY DEF TypeOK
<1>2. IdInv'
  BY DEF IdInv, IdsAreUnique
<1>3. CASE Len(threads) > end
  <2>1. late /\ main' = "fault" /\ UNCHANGED <<GThreadManager, GSendBufferManager, threads>>
    BY <1>1, <1>3 DEF VectorInv
  <2>2. TypeOK'
    BY <1>1, <1>3, <2>1 DEF TypeOK
  <2>3. StageInv' /\ LateLaunchIsFatal' /\ VectorInv'
    BY <1>1, <2>1 DEF StageInv, LateLaunchIsFatal, VectorInv, Alive
  <2>. QED  BY <1>2, <2>2, <2>3
<1>4. CASE ~(Len(threads) > end)
  <2>1. ~late /\ end = Len(threads)
    BY <1>1, <1>4 DEF VectorInv
  <2>2. \A t \in Threads : ~Alive(t)
    BY <1>1, <2>1 DEF VectorInv, Alive
  <2>3. /\ threads' = << >>
        /\ \/ main = "joining" /\ main' = "up" /\ GThreadManager' = "live"
           \/ main = "deleting" /\ main' = "deleted" /\ GThreadManager' = "deleted"
    BY <1>1, <1>4
  <2>4. TypeOK'
    BY <1>1, <2>3 DEF TypeOK
  <2>5. StageInv' /\ LateLaunchIsFatal' /\ VectorInv'
    BY <1>1, <2>1, <2>2, <2>3 DEF StageInv, LateLaunchIsFatal, VectorInv, Alive
  <2>. QED  BY <1>2, <2>4, <2>5
<1>. QED  BY <1>3, <1>4

LEMMA DeleteSendBufferManagerInv ==
  ASSUME IInv, DeleteSendBufferManager PROVE IInv'
<1>. USE DEF IInv, DeleteSendBufferManager, walk, ids, context
<1>1. TypeOK' /\ IdInv'
  BY DEF TypeOK, IdInv, IdsAreUnique
<1>2. StageInv' /\ VectorInv' /\ LateLaunchIsFatal'
  BY DEF StageInv, VectorInv, LateLaunchIsFatal, Alive
<1>. QED  BY <1>1, <1>2

LEMMA LaunchInv ==
  ASSUME IInv, LaunchByMain \/ \E t \in Threads : LaunchByHandler(t)
  PROVE  IInv'
<1>1. state \in [Threads -> {"none", "new", "ready", "run", "handler", "launch", "done"}]
  BY DEF IInv, TypeOK
<1>2. CASE LaunchByMain
  <2>1. PICK u \in Threads : PushThread(u) /\ state' = [state EXCEPT ![u] = "new"]
    BY <1>2 DEF LaunchByMain
  <2>2. main = "up" /\ UNCHANGED <<main, managers, walk, ids, context>>
    BY <1>2 DEF LaunchByMain
  <2>3. /\ state' \in [Threads -> {"none", "new", "ready", "run", "handler", "launch", "done"}]
        /\ state'[u] = "new"
        /\ \A v \in Threads : v # u => state'[v] = state[v]
    BY <1>1, <2>1
  <2>4. \A v \in Threads : v # u => /\ Alive(v)' => Alive(v)
                                    /\ state[v] = "done" => state'[v] = "done"
    BY <2>3 DEF Alive
  <2>. QED  BY <2>1, <2>2, <2>3, <2>4, Launches
<1>3. ASSUME NEW t \in Threads, LaunchByHandler(t) PROVE IInv'
  <2>1. /\ state[t] = "launch" /\ Alive(t)
        /\ UNCHANGED <<main, managers, walk, ids, context>>
    BY <1>3 DEF LaunchByHandler, Alive
  <2>2. ASSUME NEW u \in Threads, PushThread(u),
               state' = [state EXCEPT ![u] = "new", ![t] = "handler"]
        PROVE  IInv'
    <3>1. u # t
      BY <2>1, <2>2 DEF PushThread
    <3>2. /\ state' \in [Threads ->
                        {"none", "new", "ready", "run", "handler", "launch", "done"}]
          /\ state'[u] = "new" /\ state'[t] = "handler"
          /\ \A v \in Threads : v # u /\ v # t => state'[v] = state[v]
      BY <1>1, <2>2, <3>1
    <3>3. \A v \in Threads : v # u => /\ Alive(v)' => Alive(v)
                                      /\ state[v] = "done" => state'[v] = "done"
      BY <2>1, <3>2 DEF Alive
    <3>. QED  BY <2>1, <2>2, <3>2, <3>3, Launches
  <2>3. CASE state' = [state EXCEPT ![t] = "handler"] /\ UNCHANGED <<threads, late>>
    <3>1. pending' \in 0 .. MaxWork /\ stopped' \in BOOLEAN
      BY <2>1 DEF context, IInv, TypeOK
    <3>. QED  BY <2>1, <2>3, <3>1, Works
  <2>. QED  BY <1>3, <2>2, <2>3 DEF LaunchByHandler
<1>. QED  BY <1>2, <1>3

LEMMA ThreadInv ==
  ASSUME IInv, NEW t \in Threads,
         \/ CallLaunch(t) \/ ThreadStarts(t) \/ Run(t) \/ RunReturns(t)
         \/ HandlerBegins(t) \/ HandlerEnds(t)
  PROVE  IInv'
<1>. USE RuntimeAssumption
<1>1. pending \in 0 .. MaxWork /\ stopped \in BOOLEAN
  BY DEF IInv, TypeOK
<1>2. CASE CallLaunch(t)
  <2>1. /\ Alive(t) /\ state' = [state EXCEPT ![t] = "launch"]
        /\ UNCHANGED <<main, managers, threads, walk, late>> /\ UNCHANGED ids
        /\ UNCHANGED context
    BY <1>2 DEF CallLaunch, Alive
  <2>. QED  BY <1>1, <2>1, Works DEF context
<1>3. CASE ThreadStarts(t)
  <2>1. /\ Alive(t) /\ state' = [state EXCEPT ![t] = "ready"]
        /\ UNCHANGED <<main, managers, threads, walk, late>> /\ InitTLS(t)
        /\ UNCHANGED context
    BY <1>3 DEF ThreadStarts, Alive
  <2>. QED  BY <1>1, <2>1, Works DEF context
<1>4. CASE Run(t)
  <2>1. PICK x \in {"done", "run"} : state' = [state EXCEPT ![t] = x]
    BY <1>4 DEF Run
  <2>2. /\ Alive(t) /\ stopped' \in BOOLEAN /\ pending' = pending
        /\ UNCHANGED <<main, managers, threads, walk, late>> /\ UNCHANGED ids
    BY <1>4 DEF Run, Alive
  <2>. QED  BY <1>1, <2>1, <2>2, Works
<1>5. CASE RunReturns(t)
  <2>1. /\ Alive(t) /\ state' = [state EXCEPT ![t] = "done"]
        /\ UNCHANGED <<main, managers, threads, walk, late>> /\ UNCHANGED ids
        /\ UNCHANGED context
    BY <1>5 DEF RunReturns, Alive
  <2>. QED  BY <1>1, <2>1, Works DEF context
<1>6. CASE HandlerBegins(t)
  <2>1. /\ Alive(t) /\ state' = [state EXCEPT ![t] = "handler"]
        /\ UNCHANGED <<main, managers, threads, walk, late>> /\ UNCHANGED ids
        /\ stopped' = stopped
    BY <1>6 DEF HandlerBegins, Alive
  <2>2. pending' \in 0 .. MaxWork
    BY <1>1, <1>6 DEF HandlerBegins
  <2>. QED  BY <1>1, <2>1, <2>2, Works
<1>7. CASE HandlerEnds(t)
  <2>1. /\ Alive(t) /\ state' = [state EXCEPT ![t] = "run"]
        /\ UNCHANGED <<main, managers, threads, walk, late>> /\ UNCHANGED ids
        /\ stopped' \in BOOLEAN
    BY <1>7 DEF HandlerEnds, Alive
  <2>2. pending' \in 0 .. MaxWork
    BY <1>1, <1>7 DEF HandlerEnds
  <2>. QED  BY <2>1, <2>2, Works
<1>. QED  BY <1>2, <1>3, <1>4, <1>5, <1>6, <1>7

LEMMA NextInv == IInv /\ [Next]_vars => IInv'
<1>. SUFFICES ASSUME IInv, [Next]_vars PROVE IInv'
  OBVIOUS
<1>1. pending \in 0 .. MaxWork /\ stopped \in BOOLEAN
  BY DEF IInv, TypeOK
<1>2. CASE Post \/ Stop \/ Reset
  <2>1. UNCHANGED <<main, managers, threads, walk, ids, state, late>>
    BY <1>2 DEF Post, Stop, Reset
  <2>2. pending' \in 0 .. MaxWork /\ stopped' \in BOOLEAN
    <3>1. CASE Post
      BY <1>1, <3>1, RuntimeAssumption DEF Post
    <3>2. CASE Stop \/ Reset
      BY <1>1, <3>2 DEF Stop, Reset
    <3>. QED  BY <1>2, <3>1, <3>2
  <2>. QED  BY <2>1, <2>2, ContextInv
<1>3. CASE UNCHANGED vars
  BY <1>1, <1>3, ContextInv DEF vars, managers, walk, ids
<1>4. CASE \E t \in Threads : ThreadGoesOn(t) \/ CallLaunch(t) \/ HandlerBegins(t)
  BY <1>4, LaunchInv, ThreadInv DEF ThreadGoesOn
<1>5. CASE Construct \/ Join \/ MainGoesOn \/ LaunchByMain
  BY <1>5, ConstructInv, JoinInv, JoinOneInv, ClearedInv, DeleteSendBufferManagerInv,
     LaunchInv DEF MainGoesOn
<1>. QED  BY <1>2, <1>3, <1>4, <1>5 DEF Next

LEMMA InvHolds == Spec => []IInv
BY InitInv, NextInv, PTL DEF Spec

-----------------------------------------------------------------------------

\* The variables keep their types.
THEOREM TypeCorrect == Spec => []TypeOK
<1>1. IInv => TypeOK
  BY DEF IInv
<1>. QED  BY <1>1, InvHolds, PTL

\* ThreadManager.cpp:40: no two threads have the same LThreadId.
THEOREM IdsDiffer == Spec => []IdsAreUnique
<1>1. IInv => IdsAreUnique
  BY DEF IInv, IdInv
<1>. QED  BY <1>1, InvHolds, PTL

\* CoreGlobal.cpp:17: a launched thread never meets a manager that is not there.
THEOREM ManagersStay == Spec => []ManagersOutliveThreads
<1>1. IInv => ManagersOutliveThreads
  BY DEF IInv, TypeOK, StageInv, ManagersOutliveThreads, Alive
<1>. QED  BY <1>1, InvHolds, PTL

\* ThreadManager.cpp:29: without a Launch during a Join there is no fault.
THEOREM NoOtherFault == Spec => []FaultsAreRaces
<1>1. IInv => FaultsAreRaces
  BY DEF IInv, VectorInv, FaultsAreRaces
<1>. QED  BY <1>1, InvHolds, PTL

\* ThreadManager.cpp:34: with one, the Join never returns.
THEOREM NoJoinMissesAThread == Spec => []LateLaunchIsFatal
<1>1. IInv => LateLaunchIsFatal
  BY DEF IInv
<1>. QED  BY <1>1, InvHolds, PTL

\* The two together: nothing but a Launch during a Join ends the process in a
\* fault, and the program does not get past such a Join.
THEOREM LateLaunchesAreTheEnd == Spec => []LateLaunchesEndIt
<1>1. IInv => LateLaunchesEndIt
  BY DEF IInv, VectorInv, FaultsAreRaces, LateLaunchesEndIt
<1>. QED  BY <1>1, InvHolds, PTL

=============================================================================
