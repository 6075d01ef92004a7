--------------------------- MODULE BroadcastPath ---------------------------
(***************************************************************************)
(* Service::Broadcast over the send paths of the registered sessions       *)
(* (Service.cpp, Session.cpp).  Broadcast holds the registry's lock while  *)
(* it calls Send on every session, which takes the session's _sendLock;    *)
(* the completion of a write takes that lock and, holding it, calls        *)
(* RegisterSend, which takes it again; connecting and disconnecting take   *)
(* the registry's lock.                                                    *)
(*                                                                         *)
(* Threads run all of this.  A critical section in which nothing can wait  *)
(* is one step.  A send queue is empty or not: what leaves it, and when,   *)
(* is the subject of SendPath.  A session connects once, and is registered *)
(* once (ServerService has the second registration).                       *)
(***************************************************************************)
EXTENDS Integers, Sequences

CONSTANTS
  Threads,
  NoThread,       \* nobody holds the lock
  Sessions,
  NoSession,      \* a thread that is at no session
  MaxBroadcasts,  \* bound: calls of Broadcast
  MaxSends        \* bound: direct calls of Send

ASSUME BroadcastPathAssumption ==
  /\ NoThread \notin Threads
  /\ NoSession \notin Sessions
  /\ MaxBroadcasts \in Nat /\ MaxSends \in Nat

VARIABLES
  registryLock,  \* the thread in Service::_lock
  sessions,      \* Service::_sessions
  sendLock,      \* the thread that keeps each Session::_sendLock
  link,          \* each session's _connected: "new", "connected", "closed"
  waiting,       \* _sendQueue is not empty
  registered,    \* _sendRegistered
  writing,       \* an async_write_some is pending
  pc, at,        \* where each thread is, and at which session
  buffer, todo,  \* the broadcast it sends, 0 if none, and the sessions its loop
                 \* has not come to
  count,         \* history: the broadcasts begun
  log,           \* history: the broadcasts pushed to each session
  joined,        \* history: count when the session was registered
  sends          \* direct sends so far

vars == <<registryLock, sessions, sendLock, link, waiting, registered, writing,
          pc, at, buffer, todo, count, log, joined, sends>>

session == <<link, waiting, registered, writing>>
loop == <<buffer, todo>>
history == <<count, log, joined, sends>>

Init ==
  /\ registryLock = NoThread
  /\ sessions = {}
  /\ sendLock = [s \in Sessions |-> NoThread]
  /\ link = [s \in Sessions |-> "new"]
  /\ waiting = [s \in Sessions |-> FALSE]
  /\ registered = [s \in Sessions |-> FALSE]
  /\ writing = [s \in Sessions |-> FALSE]
  /\ pc = [t \in Threads |-> "idle"]
  /\ at = [t \in Threads |-> NoSession]
  /\ buffer = [t \in Threads |-> 0]
  /\ todo = [t \in Threads |-> {}]
  /\ count = 0
  /\ log = [s \in Sessions |-> << >>]
  /\ joined = [s \in Sessions |-> 0]
  /\ sends = 0

GoTo(t, l, s) == pc' = [pc EXCEPT ![t] = l] /\ at' = [at EXCEPT ![t] = s]

\* A Send returns to Broadcast, or to the caller of a direct Send.
Return(t) == GoTo(t, IF buffer[t] # 0 THEN "next" ELSE "idle", NoSession)

-----------------------------------------------------------------------------
(* Service::Broadcast                                                      *)

\* Mutation: the set is copied and the lock let go before the sends.
Broadcast_Copy(t) ==
  /\ pc[t] = "idle" /\ count < MaxBroadcasts
  /\ registryLock = NoThread
  /\ count' = count + 1
  /\ buffer' = [buffer EXCEPT ![t] = count + 1]
  /\ todo' = [todo EXCEPT ![t] = sessions]
  /\ GoTo(t, "next", NoSession)
  /\ UNCHANGED <<registryLock, sessions, sendLock, session, log, joined, sends>>

\* A thread enters Broadcast as soon as the lock is free.
Broadcast(t) ==
  /\ pc[t] = "idle" /\ count < MaxBroadcasts
  /\ registryLock = NoThread
  /\ registryLock' = t
  /\ count' = count + 1
  /\ buffer' = [buffer EXCEPT ![t] = count + 1]
  /\ todo' = [todo EXCEPT ![t] = sessions]
  /\ GoTo(t, "next", NoSession)
  /\ UNCHANGED <<sessions, sendLock, session, log, joined, sends>>

\* Mutation: a session that is not connected ends the loop.
NextSession_Stops(t) ==
  /\ pc[t] = "next"
  /\ \E s \in todo[t] :
       IF link[s] = "connected"
       THEN todo' = [todo EXCEPT ![t] = @ \ {s}] /\ GoTo(t, "push", s)
       ELSE todo' = [todo EXCEPT ![t] = {}] /\ UNCHANGED <<pc, at>>
  /\ UNCHANGED <<registryLock, sessions, sendLock, session, buffer, history>>

\* The next turn of the loop calls Send, which returns at once on a session that
\* is not connected.
NextSession(t) ==
  /\ pc[t] = "next"
  /\ \E s \in todo[t] :
       /\ todo' = [todo EXCEPT ![t] = @ \ {s}]
       /\ IF link[s] = "connected" THEN GoTo(t, "push", s) ELSE UNCHANGED <<pc, at>>
  /\ UNCHANGED <<registryLock, sessions, sendLock, session, buffer, history>>

BroadcastEnds(t) ==
  /\ pc[t] = "next" /\ todo[t] = {}
  /\ registryLock' = NoThread
  /\ buffer' = [buffer EXCEPT ![t] = 0]
  /\ GoTo(t, "idle", NoSession)
  /\ UNCHANGED <<sessions, sendLock, session, todo, history>>

-----------------------------------------------------------------------------
(* Session::Send and RegisterSend                                          *)

\* A thread calls Send on one session.
Send(t) ==
  /\ pc[t] = "idle" /\ sends < MaxSends
  /\ sends' = sends + 1
  /\ \E s \in Sessions : link[s] = "connected" /\ GoTo(t, "push", s)
  /\ UNCHANGED <<registryLock, sessions, sendLock, session, loop, count, log, joined>>

\* The critical section of Send: the caller that finds the flag clear registers.
Push(t) ==
  /\ pc[t] = "push"
  /\ LET s == at[t]
     IN  /\ sendLock[s] = NoThread
         /\ waiting' = [waiting EXCEPT ![s] = TRUE]
         /\ registered' = [registered EXCEPT ![s] = TRUE]
         /\ IF registered[s] THEN Return(t) ELSE GoTo(t, "register", s)
         /\ log' = IF buffer[t] # 0 THEN [log EXCEPT ![s] = Append(@, buffer[t])]
                   ELSE log
  /\ UNCHANGED <<registryLock, sessions, sendLock, link, writing, loop, count,
                 joined, sends>>

RegisterSend(t) ==
  /\ pc[t] = "register"
  /\ IF link[at[t]] = "connected" THEN GoTo(t, "drain", at[t]) ELSE Return(t)
  /\ UNCHANGED <<registryLock, sessions, sendLock, session, loop, history>>

\* The queue is taken and the write issued, which nobody sees apart.
Drain(t) ==
  /\ pc[t] = "drain"
  /\ LET s == at[t]
     IN  /\ sendLock[s] = NoThread
         /\ waiting' = [waiting EXCEPT ![s] = FALSE]
         /\ writing' = [writing EXCEPT ![s] = waiting[s]]
         /\ registered' = [registered EXCEPT ![s] = waiting[s]]
  /\ Return(t)
  /\ UNCHANGED <<registryLock, sessions, sendLock, link, loop, history>>

-----------------------------------------------------------------------------
(* The completion of a write                                               *)

\* ProcessSend on a connected session, up to the lock.  On a session that is not
\* connected it returns, as it does when HandleError only logs the error.
WriteDone(t) ==
  /\ pc[t] = "idle"
  /\ \E s \in Sessions :
       /\ writing[s]
       /\ writing' = [writing EXCEPT ![s] = FALSE]
       /\ \/ link[s] = "connected" /\ GoTo(t, "settle", s)
          \/ UNCHANGED <<pc, at>>
  /\ UNCHANGED <<registryLock, sessions, sendLock, link, waiting, registered, loop,
                 history>>

\* The write failed, or carried nothing: Disconnect, up to ReleaseSession.
WriteFailed(t) ==
  /\ pc[t] = "idle"
  /\ \E s \in Sessions :
       /\ writing[s] /\ link[s] = "connected"
       /\ writing' = [writing EXCEPT ![s] = FALSE]
       /\ link' = [link EXCEPT ![s] = "closed"]
       /\ GoTo(t, "release", s)
  /\ UNCHANGED <<registryLock, sessions, sendLock, waiting, registered, loop, history>>

\* Mutation: what is to be disconnected is disconnected with the lock held.
Settle_Disconnects(t) ==
  /\ pc[t] = "settle" /\ sendLock[at[t]] = NoThread
  /\ IF link[at[t]] = "connected"
     THEN /\ sendLock' = [sendLock EXCEPT ![at[t]] = t]
          /\ link' = [link EXCEPT ![at[t]] = "closed"]
          /\ GoTo(t, "release", at[t])
     ELSE Return(t) /\ UNCHANGED <<sendLock, link>>
  /\ UNCHANGED <<registryLock, sessions, waiting, registered, writing, loop, history>>

\* With buffers left RegisterSend is called under the lock.
Settle(t) ==
  /\ pc[t] = "settle"
  /\ LET s == at[t]
     IN  /\ sendLock[s] = NoThread
         /\ IF waiting[s]
            THEN /\ sendLock' = [sendLock EXCEPT ![s] = t]
                 /\ GoTo(t, "resend", s)
                 /\ UNCHANGED registered
            ELSE /\ registered' = [registered EXCEPT ![s] = FALSE]
                 /\ Return(t)
                 /\ UNCHANGED sendLock
  /\ UNCHANGED <<registryLock, sessions, link, waiting, writing, loop, history>>

\* It returns on a session that is not connected; else it locks the mutex its
\* own thread holds, which is undefined: it throws, or waits for itself.
Resend(t) ==
  /\ pc[t] = "resend"
  /\ \/ Return(t) /\ sendLock' = [sendLock EXCEPT ![at[t]] = NoThread]
     \/ /\ link[at[t]] = "connected"
        /\ GoTo(t, "stuck", at[t])
        /\ UNCHANGED sendLock
  /\ UNCHANGED <<registryLock, sessions, session, loop, history>>

-----------------------------------------------------------------------------
(* Connecting and disconnecting                                            *)

\* ProcessConnect up to AddSession.
Connect(t) ==
  /\ pc[t] = "idle"
  /\ \E s \in Sessions :
       /\ link[s] = "new"
       /\ link' = [link EXCEPT ![s] = "connected"]
       /\ GoTo(t, "add", s)
  /\ UNCHANGED <<registryLock, sessions, sendLock, waiting, registered, writing, loop,
                 history>>

\* Mutation: the registry's lock is not taken.
AddSession_NoLock(t) ==
  /\ pc[t] = "add"
  /\ sessions' = sessions \cup {at[t]}
  /\ joined' = [joined EXCEPT ![at[t]] = count]
  /\ GoTo(t, "idle", NoSession)
  /\ UNCHANGED <<registryLock, sendLock, session, loop, count, log, sends>>

AddSession(t) ==
  /\ pc[t] = "add" /\ registryLock = NoThread
  /\ sessions' = sessions \cup {at[t]}
  /\ joined' = [joined EXCEPT ![at[t]] = count]
  /\ GoTo(t, "idle", NoSession)
  /\ UNCHANGED <<registryLock, sendLock, session, loop, count, log, sends>>

\* Disconnect up to ReleaseSession, by any thread.
Disconnect(t) ==
  /\ pc[t] = "idle"
  /\ \E s \in Sessions :
       /\ link[s] = "connected"
       /\ link' = [link EXCEPT ![s] = "closed"]
       /\ GoTo(t, "release", s)
  /\ UNCHANGED <<registryLock, sessions, sendLock, waiting, registered, writing, loop,
                 history>>

ReleaseSession(t) ==
  /\ pc[t] = "release" /\ registryLock = NoThread
  /\ sessions' = sessions \ {at[t]}
  /\ GoTo(t, "idle", NoSession)
  /\ UNCHANGED <<registryLock, sendLock, session, loop, history>>

-----------------------------------------------------------------------------

\* What a thread that has begun does next.
GoesOn(t) ==
  \/ NextSession(t) \/ BroadcastEnds(t)
  \/ Push(t) \/ RegisterSend(t) \/ Drain(t)
  \/ Settle(t) \/ Resend(t)
  \/ AddSession(t) \/ ReleaseSession(t)

Next ==
  \E t \in Threads :
    \/ Broadcast(t) \/ Send(t) \/ Connect(t) \/ Disconnect(t)
    \/ WriteDone(t) \/ WriteFailed(t)
    \/ GoesOn(t)

Spec == Init /\ [][Next]_vars

\* A thread goes on whenever the lock it wants stays free.  Nothing is assumed
\* of the application, the peers, or the order in which locks are granted.
FairSpec == Spec /\ \A t \in Threads : WF_vars(GoesOn(t))

-----------------------------------------------------------------------------
(* Properties                                                              *)

\* Thread u is in the lock that t wants.
WaitsFor(t, u) ==
  \/ pc[t] \in {"add", "release"} /\ registryLock = u
  \/ pc[t] \in {"push", "drain", "settle", "stuck"} /\ sendLock[at[t]] = u

\* The type invariant.
TypeOK ==
  /\ registryLock \in Threads \cup {NoThread}
  /\ sessions \subseteq {s \in Sessions : link[s] # "new"}
  /\ sendLock \in [Sessions -> Threads \cup {NoThread}]
  /\ link \in [Sessions -> {"new", "connected", "closed"}]
  /\ waiting \in [Sessions -> BOOLEAN]
  /\ registered \in [Sessions -> BOOLEAN]
  /\ writing \in [Sessions -> BOOLEAN]
  /\ pc \in [Threads -> {"idle", "next", "push", "register", "drain", "settle",
                         "resend", "stuck", "add", "release"}]
  /\ at \in [Threads -> Sessions \cup {NoSession}]
  /\ buffer \in [Threads -> 0 .. count]
  /\ todo \in [Threads -> SUBSET Sessions]
  /\ count \in Nat /\ sends \in Nat
  /\ log \in [Sessions -> Seq(Nat)]
  /\ joined \in [Sessions -> Nat]
  /\ \A t \in Threads : (at[t] = NoSession) = (pc[t] \in {"idle", "next"})

\* The two locks are taken in one order (Service.cpp:36): a thread in a _sendLock
\* waits for no other thread, so that a wait without end ends in a thread that
\* waits for itself.
OnlySelfDeadlock ==
  \A t, u \in Threads :
    (\E s \in Sessions : sendLock[s] = t) /\ WaitsFor(t, u) => u = t

\* Two broadcasts reach the sessions they both reach in the same order.
SameOrder ==
  \A r, s \in Sessions : \A i, j \in DOMAIN log[r], k, l \in DOMAIN log[s] :
    log[r][i] = log[s][k] /\ log[r][j] = log[s][l] /\ i < j => k < l

\* A broadcast that is under way and has not come to the session yet.
OnItsWay(s) ==
  \E t \in Threads : buffer[t] # 0 /\ (s \in todo[t] \/ (pc[t] = "push" /\ at[t] = s))

\* A connected session has been given every broadcast begun since it was
\* registered, each once and none in between missing.
EveryoneHearsAll ==
  \A s \in sessions :
    link[s] = "connected" =>
      log[s] = [i \in 1 .. (count - joined[s]) - (IF OnItsWay(s) THEN 1 ELSE 0)
                  |-> joined[s] + i]

\* A broadcast waits for a thread that waits for itself.
Frozen ==
  \E t, u \in Threads :
    registryLock = t /\ WaitsFor(t, u) /\ pc[u] = "stuck"

\* Then it does so for ever, and no session is added or released any more.
FrozenForEver == [][Frozen => Frozen' /\ UNCHANGED sessions]_vars

\* Every broadcast ends unless some thread waits for itself.
BroadcastsEnd ==
  \A t \in Threads :
    registryLock = t ~> registryLock # t \/ \E u \in Threads : pc[u] = "stuck"

\* The locks and the threads amount to broadcasts that go out one after the
\* other, each to all who are registered when it begins, with nobody coming or
\* going before it has ended.
Ordered == INSTANCE OrderedBroadcast WITH
  up <- {s \in Sessions : link[s] = "connected"},
  members <- sessions,
  pending <- {s \in Sessions : OnItsWay(s)}

ImplementsOrderedBroadcast == Ordered!Spec

=============================================================================
