------------------------------ MODULE Runtime ------------------------------
(***************************************************************************)
(* CoreGlobal, ThreadManager and AsiocCore: the threads that run the       *)
(* io_context, how they are launched, stopped and joined, and the managers *)
(* they use until then (CoreGlobal.cpp, ThreadManager.cpp, AsioCore.h).    *)
(*                                                                         *)
(* The main thread owns the CoreGlobal object and is the one that calls    *)
(* Join.  The callback of a launched thread is AsiocCore::Run; a handler   *)
(* may stop the context and may launch threads.  Reset is called as asio   *)
(* demands, when no run() is under way.                                    *)
(***************************************************************************)
EXTENDS Integers, Sequences

CONSTANTS
  Threads,  \* the std::threads that can be launched
  Main,
  MaxWork   \* bound: asynchronous operations pending

ASSUME RuntimeAssumption == Main \notin Threads /\ MaxWork \in Nat

VARIABLES
  main,                \* where the main thread is; "fault" ends the process
  GThreadManager, GSendBufferManager,
  threads,             \* ThreadManager::_threads
  walked, end,         \* the range-based for of Join
  SThreadId,           \* the counter of InitTLS
  LThreadId,           \* of each thread, 0 before InitTLS
  state,               \* where each thread is
  pending, stopped,    \* of the io_context: the operations begun whose handler has
                       \* not, and whether it is stopped
  late                 \* history: a Launch that no order put before the Join

vars == <<main, GThreadManager, GSendBufferManager, threads, walked, end, SThreadId,
          LThreadId, state, pending, stopped, late>>

managers == <<GThreadManager, GSendBufferManager>>
walk == <<walked, end>>
ids == <<SThreadId, LThreadId>>
context == <<pending, stopped>>

Init ==
  /\ main = "start"
  /\ GThreadManager = "null" /\ GSendBufferManager = "null"
  /\ threads = << >>
  /\ walked = 0 /\ end = 0
  /\ SThreadId = 1
  /\ LThreadId = [t \in Threads \cup {Main} |-> 0]
  /\ state = [t \in Threads |-> "none"]
  /\ pending = 0 /\ stopped = FALSE
  /\ late = FALSE

Alive(t) == state[t] \notin {"none", "done"}

Handles(t) == state[t] \in {"handler", "launch"}

-----------------------------------------------------------------------------
(* The main thread                                                         *)

InitTLS(t) ==
  /\ LThreadId' = [LThreadId EXCEPT ![t] = SThreadId]
  /\ SThreadId' = SThreadId + 1

Construct ==
  /\ main = "start"
  /\ main' = "up"
  /\ GThreadManager' = "live" /\ GSendBufferManager' = "live"
  /\ InitTLS(Main)
  /\ UNCHANGED <<threads, walk, state, context, late>>

\* Join begins, called by the program or by the destructor of the manager that
\* the destructor of CoreGlobal deletes.
Join ==
  /\ main = "up"
  /\ main' \in {"joining", "deleting"}
  /\ walked' = 0 /\ end' = Len(threads)
  /\ UNCHANGED <<managers, threads, ids, state, context, late>>

\* The loop joins one thread after the other.  It holds no lock: when the vector
\* has grown its iterators may be dangling.
JoinOne ==
  /\ main \in {"joining", "deleting"} /\ walked < end
  /\ \/ /\ state[threads[walked + 1]] = "done"
        /\ walked' = walked + 1
        /\ UNCHANGED main
     \/ Len(threads) > end /\ main' = "fault" /\ UNCHANGED walked
  /\ UNCHANGED <<managers, threads, end, ids, state, context, late>>

\* Mutation: the loop asks for the size of the vector in each turn.
Cleared_All ==
  /\ main \in {"joining", "deleting"}
  /\ \A i \in walked + 1 .. Len(threads) : state[threads[i]] = "done"
  /\ main' = IF main = "joining" THEN "up" ELSE "deleted"
  /\ GThreadManager' = IF main = "joining" THEN "live" ELSE "deleted"
  /\ threads' = << >>
  /\ UNCHANGED <<GSendBufferManager, walk, ids, state, context, late>>

\* The vector is cleared; a thread that was not joined terminates the process.
Cleared ==
  /\ main \in {"joining", "deleting"} /\ walked = end
  /\ IF Len(threads) > end
     THEN main' = "fault" /\ UNCHANGED <<GThreadManager, threads>>
     ELSE /\ main' = IF main = "joining" THEN "up" ELSE "deleted"
          /\ GThreadManager' = IF main = "joining" THEN "live" ELSE "deleted"
          /\ threads' = << >>
  /\ UNCHANGED <<GSendBufferManager, walk, ids, state, context, late>>

\* Mutation: GSendBufferManager is deleted before the threads are joined.
DeleteSendBufferManager_First ==
  /\ main = "deleting" /\ GSendBufferManager = "live"
  /\ GSendBufferManager' = "deleted"
  /\ UNCHANGED <<main, GThreadManager, threads, walk, ids, state, context, late>>

DeleteSendBufferManager ==
  /\ main = "deleted" /\ GSendBufferManager = "live"
  /\ GSendBufferManager' = "deleted"
  /\ UNCHANGED <<main, GThreadManager, threads, walk, ids, state, context, late>>

\* The program starts an operation, as Service::Start does.
Post ==
  /\ main = "up" /\ pending < MaxWork
  /\ pending' = pending + 1
  /\ UNCHANGED <<main, managers, threads, walk, ids, state, stopped, late>>

\* Stop, by the program or by a handler.
Stop ==
  /\ main = "up" \/ \E t \in Threads : state[t] = "handler"
  /\ stopped' = TRUE
  /\ UNCHANGED <<main, managers, threads, walk, ids, state, pending, late>>

Reset ==
  /\ main = "up"
  /\ \A t \in Threads : state[t] \notin {"run", "handler", "launch"}
  /\ stopped' = FALSE
  /\ UNCHANGED <<main, managers, threads, walk, ids, state, pending, late>>

-----------------------------------------------------------------------------
(* Launch and the launched threads                                         *)

\* The new thread is pushed and starts.
PushThread(t) ==
  /\ state[t] = "none"
  /\ threads' = Append(threads, t)
  /\ late' = (late \/ main # "up")

LaunchByMain ==
  /\ main = "up"
  /\ \E t \in Threads : PushThread(t) /\ state' = [state EXCEPT ![t] = "new"]
  /\ UNCHANGED <<main, managers, walk, ids, context>>

\* A handler calls Launch.
CallLaunch(t) ==
  /\ state[t] = "handler" /\ \E u \in Threads : state[u] = "none"
  /\ state' = [state EXCEPT ![t] = "launch"]
  /\ UNCHANGED <<main, managers, threads, walk, ids, context, late>>

\* Mutation: Join holds the lock while it waits for the threads.
LaunchByHandler_Locked(t) ==
  /\ state[t] = "launch" /\ main \notin {"joining", "deleting"}
  /\ IF \E u \in Threads : state[u] = "none"
     THEN \E u \in Threads :
            PushThread(u) /\ state' = [state EXCEPT ![u] = "new", ![t] = "handler"]
     ELSE /\ state' = [state EXCEPT ![t] = "handler"]
          /\ UNCHANGED <<threads, late>>
  /\ UNCHANGED <<main, managers, walk, ids, context>>

\* Within the bound on threads.
LaunchByHandler(t) ==
  /\ state[t] = "launch"
  /\ IF \E u \in Threads : state[u] = "none"
     THEN \E u \in Threads :
            PushThread(u) /\ state' = [state EXCEPT ![u] = "new", ![t] = "handler"]
     ELSE /\ state' = [state EXCEPT ![t] = "handler"]
          /\ UNCHANGED <<threads, late>>
  /\ UNCHANGED <<main, managers, walk, ids, context>>

ThreadStarts(t) ==
  /\ state[t] = "new"
  /\ InitTLS(t)
  /\ state' = [state EXCEPT ![t] = "ready"]
  /\ UNCHANGED <<main, managers, threads, walk, context, late>>

\* run() without work stops the context and returns.
Run(t) ==
  /\ state[t] = "ready"
  /\ LET idle == pending = 0 /\ \A u \in Threads : ~Handles(u)
     IN  /\ state' = [state EXCEPT ![t] = IF idle THEN "done" ELSE "run"]
         /\ stopped' = (stopped \/ idle)
  /\ UNCHANGED <<main, managers, threads, walk, ids, pending, late>>

\* run() returns to the callback, DestroyTLS does nothing, the thread ends.
RunReturns(t) ==
  /\ state[t] = "run" /\ stopped
  /\ state' = [state EXCEPT ![t] = "done"]
  /\ UNCHANGED <<main, managers, threads, walk, ids, context, late>>

HandlerBegins(t) ==
  /\ state[t] = "run" /\ ~stopped
  /\ pending > 0
  /\ pending' = pending - 1
  /\ state' = [state EXCEPT ![t] = "handler"]
  /\ UNCHANGED <<main, managers, threads, walk, ids, stopped, late>>

\* A handler has started up to two operations, as that of an accept does; with
\* none left and no other handler under way the context is stopped.
HandlerEnds(t) ==
  /\ state[t] = "handler"
  /\ \E n \in 0 .. 2 : pending + n <= MaxWork /\ pending' = pending + n
  /\ stopped' = (stopped \/ (pending' = 0 /\ \A u \in Threads \ {t} : ~Handles(u)))
  /\ state' = [state EXCEPT ![t] = "run"]
  /\ UNCHANGED <<main, managers, threads, walk, ids, late>>

-----------------------------------------------------------------------------

MainGoesOn == JoinOne \/ Cleared \/ DeleteSendBufferManager

\* What a thread does without waiting for an event.
ThreadGoesOn(t) ==
  /\ main # "fault"
  /\ \/ ThreadStarts(t) \/ Run(t) \/ RunReturns(t)
     \/ LaunchByHandler(t) \/ HandlerEnds(t)

Next ==
  \/ Construct \/ Join \/ MainGoesOn \/ Post \/ Reset \/ LaunchByMain
  \/ main # "fault" /\ Stop
  \/ \E t \in Threads :
       \/ ThreadGoesOn(t)
       \/ main # "fault" /\ (CallLaunch(t) \/ HandlerBegins(t))

Spec == Init /\ [][Next]_vars

\* The threads are scheduled and handlers end; that an operation completes, or
\* that anybody stops the context, is not assumed.
FairSpec ==
  /\ Spec
  /\ WF_vars(MainGoesOn)
  /\ \A t \in Threads : WF_vars(ThreadGoesOn(t))

-----------------------------------------------------------------------------
(* Properties                                                              *)

\* The type invariant.
TypeOK ==
  /\ main \in {"start", "up", "joining", "deleting", "deleted", "fault"}
  /\ GThreadManager \in {"null", "live", "deleted"}
  /\ GSendBufferManager \in {"null", "live", "deleted"}
  /\ threads \in Seq(Threads)
  /\ walked \in 0 .. end /\ end \in Nat
  /\ main \notin {"up", "deleted"} => end <= Len(threads)
  /\ SThreadId \in Nat
  /\ LThreadId \in [Threads \cup {Main} -> Nat]
  /\ state \in [Threads -> {"none", "new", "ready", "run", "handler", "launch", "done"}]
  /\ pending \in 0 .. MaxWork /\ stopped \in BOOLEAN /\ late \in BOOLEAN

\* Two threads never have the same LThreadId (ThreadManager.cpp:40).
IdsAreUnique ==
  \A t, u \in Threads \cup {Main} :
    LThreadId[t] = LThreadId[u] /\ LThreadId[t] # 0 => t = u

\* The managers are there as long as a launched thread may use them: the
\* destructor of the first joins before the second is deleted (CoreGlobal.cpp:17).
ManagersOutliveThreads ==
  (\E t \in Threads : Alive(t)) =>
    GThreadManager = "live" /\ GSendBufferManager = "live"

\* The process is terminated by a Launch during a Join and by nothing else.
FaultsAreRaces == main = "fault" => late

\* A Join during which a thread was launched never returns: it ends in a fault
\* or waits (ThreadManager.cpp:29).
LateLaunchIsFatal == late => main \in {"joining", "deleting", "fault"}

\* The two together: only a Launch during a Join ends the process in a fault,
\* and after one the program does not get past that Join.
LateLaunchesEndIt == FaultsAreRaces /\ LateLaunchIsFatal

\* Once the context is stopped, and stays so, a Join ends.
JoinEnds ==
  main \in {"joining", "deleting"} /\ stopped ~>
    main \notin {"joining", "deleting"} \/ ~stopped

=============================================================================
