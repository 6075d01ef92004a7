------------------------ MODULE BroadcastPathProofs ------------------------
(***************************************************************************)
(* Theorems about BroadcastPath, for any threads and sessions, and any     *)
(* number of calls.                                                        *)
(***************************************************************************)
EXTENDS BroadcastPath, TLAPS

\* Who is in which lock: the registry's is held by the one thread that is in
\* Broadcast, a _sendLock by a thread that calls RegisterSend under it.
LockInv ==
  /\ \A t \in Threads :
       /\ (buffer[t] # 0) = (registryLock = t)
       /\ buffer[t] # 0 => buffer[t] = count /\ pc[t] \in {"next", "push", "register", "drain"}
       /\ pc[t] = "next" => buffer[t] # 0
       /\ pc[t] \in {"resend", "stuck"} => sendLock[at[t]] = t
  /\ \A s \in Sessions :
       sendLock[s] # NoThread =>
         pc[sendLock[s]] \in {"resend", "stuck"} /\ at[sendLock[s]] = s

\* A session is registered once, by one thread, and the loop of a broadcast
\* has registered sessions before it.
LoopInv ==
  /\ \A t \in Threads :
       /\ buffer[t] = 0 => todo[t] = {}
       /\ todo[t] \subseteq sessions
       /\ pc[t] = "push" /\ buffer[t] # 0 => at[t] \in sessions \ todo[t]
       /\ pc[t] = "add" => at[t] \notin sessions /\ log[at[t]] = << >>
                           /\ link[at[t]] # "new"
  /\ \A t, u \in Threads : pc[t] = "add" /\ pc[u] = "add" /\ at[t] = at[u] => t = u
  /\ \A s \in Sessions : link[s] = "new" => log[s] = << >>

\* What the log of a session can hold while a broadcast is on its way.
OrderInv ==
  \A s \in Sessions :
    /\ \A i \in DOMAIN log[s] : log[s][i] <= count
    /\ OnItsWay(s) => \A i \in DOMAIN log[s] : log[s][i] < count
    /\ \A i, j \in DOMAIN log[s] : i < j => log[s][i] < log[s][j]

JoinInv == \A s \in sessions : joined[s] + (IF OnItsWay(s) THEN 1 ELSE 0) <= count

IInv == TypeOK /\ LockInv /\ LoopInv /\ OrderInv /\ JoinInv /\ EveryoneHearsAll

\* Steps that push no broadcast to a log and register no session.
LEMMA Quiet ==
  ASSUME IInv, UNCHANGED <<count, log, joined>>, sessions' \subseteq sessions,
         \A s \in Sessions : OnItsWay(s)' => OnItsWay(s),
         \A s \in sessions' :
           link'[s] = "connected" =>
             link[s] = "connected" /\ (OnItsWay(s) => OnItsWay(s)')
  PROVE  OrderInv' /\ JoinInv' /\ EveryoneHearsAll'
<1>. USE DEF IInv, TypeOK
<1>1. OrderInv'
  BY DEF OrderInv
<1>2. JoinInv'
  BY DEF JoinInv
<1>3. EveryoneHearsAll'
  <2>. SUFFICES ASSUME NEW s \in sessions', link'[s] = "connected"
       PROVE  log'[s] = [i \in 1 .. (count' - joined'[s]) -
                                     (IF OnItsWay(s)' THEN 1 ELSE 0) |-> joined'[s] + i]
    BY DEF EveryoneHearsAll
  <2>1. s \in sessions /\ s \in Sessions /\ link[s] = "connected"
    OBVIOUS
  <2>2. OnItsWay(s)' <=> OnItsWay(s)
    BY <2>1
  <2>3. log[s] = [i \in 1 .. (count - joined[s]) -
                               (IF OnItsWay(s) THEN 1 ELSE 0) |-> joined[s] + i]
    BY <2>1 DEF EveryoneHearsAll
  <2>4. CASE OnItsWay(s)
    BY <2>2, <2>3, <2>4
  <2>5. CASE ~OnItsWay(s)
    BY <2>2, <2>3, <2>5
  <2>. QED  BY <2>4, <2>5
<1>. QED  BY <1>1, <1>2, <1>3

LEMMA InitInv == Init => IInv
<1>. SUFFICES ASSUME Init PROVE IInv
  OBVIOUS
<1>. USE BroadcastPathAssumption DEF Init
<1>1. TypeOK
  BY DEF TypeOK
<1>2. LockInv /\ LoopInv
  BY DEF LockInv, LoopInv
<1>3. OrderInv /\ JoinInv /\ EveryoneHearsAll
  BY DEF OrderInv, JoinInv, EveryoneHearsAll, OnItsWay
<1>. QED  BY <1>1, <1>2, <1>3 DEF IInv

LEMMA Moved ==
  ASSUME TypeOK, NEW t \in Threads, NEW l, NEW s, GoTo(t, l, s)
  PROVE  /\ pc'[t] = l /\ at'[t] = s
         /\ \A u \in Threads : u # t => pc'[u] = pc[u] /\ at'[u] = at[u]
BY DEF GoTo, TypeOK

LEMMA NoSessionIsNone == \A s \in Sessions : s # NoSession
BY BroadcastPathAssumption

LEMMA Typed ==
  IInv => /\ waiting \in [Sessions -> BOOLEAN]
          /\ registered \in [Sessions -> BOOLEAN]
          /\ writing \in [Sessions -> BOOLEAN]
          /\ link \in [Sessions -> {"new", "connected", "closed"}]
          /\ sends \in Nat
BY DEF IInv, TypeOK

LEMMA NoBuffer ==
  ASSUME IInv, NEW t \in Threads, pc[t] \notin {"next", "push", "register", "drain"}
  PROVE  buffer[t] = 0
BY DEF IInv, LockInv

LEMMA AtSession ==
  ASSUME TypeOK, NEW t \in Threads, pc[t] \notin {"idle", "next"}
  PROVE  at[t] \in Sessions
BY DEF TypeOK

\* A thread goes on without a change of the registry, of its loop or of a log.
LEMMA Walk ==
  ASSUME IInv, NEW t \in Threads, NEW s, s \in Sessions \cup {NoSession},
         NEW l, GoTo(t, l, s), s = NoSession <=> l \in {"idle", "next"},
         l \in {"idle", "next", "push", "register", "drain", "settle", "resend", "stuck",
                "release"},
         pc[t] \notin {"stuck", "push", "add"},
         buffer[t] # 0 => l \in {"next", "register", "drain"},
         buffer[t] = 0 => l # "next",
         UNCHANGED <<registryLock, sessions, loop, count, log, joined>>, sends' \in Nat,
         waiting' \in [Sessions -> BOOLEAN], registered' \in [Sessions -> BOOLEAN],
         writing' \in [Sessions -> BOOLEAN],
         link' \in [Sessions -> {"new", "connected", "closed"}],
         \A r \in Sessions :
           link'[r] = link[r] \/ (link[r] = "connected" /\ link'[r] = "closed"),
         l = "resend" => /\ sendLock[s] = NoThread /\ pc[t] # "resend"
                         /\ sendLock' = [sendLock EXCEPT ![s] = t],
         l = "stuck" => pc[t] = "resend" /\ at[t] = s /\ sendLock' = sendLock,
         l \notin {"resend", "stuck"} =>
           sendLock' = IF pc[t] = "resend" THEN [sendLock EXCEPT ![at[t]] = NoThread]
                       ELSE sendLock
  PROVE  IInv'
<1>. USE BroadcastPathAssumption
<1>1. /\ pc'[t] = l /\ at'[t] = s
      /\ \A u \in Threads : u # t => pc'[u] = pc[u] /\ at'[u] = at[u]
  BY Moved DEF IInv
<1>2. /\ sendLock' \in [Sessions -> Threads \cup {NoThread}]
      /\ \A r \in Sessions :
           \/ sendLock'[r] = sendLock[r]
           \/ l = "resend" /\ r = s /\ sendLock[r] = NoThread /\ sendLock'[r] = t
           \/ pc[t] = "resend" /\ r = at[t] /\ l \notin {"resend", "stuck"}
              /\ sendLock'[r] = NoThread
      /\ l = "resend" => sendLock'[s] = t
      /\ pc[t] = "resend" /\ l \notin {"resend", "stuck"} => sendLock'[at[t]] = NoThread
  <2>1. sendLock \in [Sessions -> Threads \cup {NoThread}]
    BY DEF IInv, TypeOK
  <2>2. CASE l = "resend"
    BY <2>1, <2>2
  <2>3. CASE l = "stuck"
    BY <2>1, <2>3
  <2>4. CASE l \notin {"resend", "stuck"} /\ pc[t] = "resend"
    <3>1. at[t] \in Sessions
      BY <2>4, AtSession DEF IInv
    <3>. QED  BY <2>1, <2>4, <3>1
  <2>5. CASE l \notin {"resend", "stuck"} /\ pc[t] # "resend"
    BY <2>1, <2>5
  <2>. QED  BY <2>2, <2>3, <2>4, <2>5
<1>3. pc' \in [Threads -> {"idle", "next", "push", "register", "drain", "settle",
                         "resend", "stuck", "add", "release"}]
      /\ at' \in [Threads -> Sessions \cup {NoSession}]
  BY DEF IInv, TypeOK, GoTo
<1>4. TypeOK'
  <2>1. sessions' \subseteq {r \in Sessions : link'[r] # "new"}
    BY DEF IInv, TypeOK
  <2>2. ASSUME NEW u \in Threads
        PROVE  (at'[u] = NoSession) = (pc'[u] \in {"idle", "next"})
    <3>1. CASE u = t
      BY <1>1, <3>1
    <3>2. CASE u # t
      <4>1. (at[u] = NoSession) = (pc[u] \in {"idle", "next"})
        BY DEF IInv, TypeOK
      <4>. QED  BY <1>1, <3>2, <4>1
    <3>. QED  BY <3>1, <3>2
  <2>. QED  BY <1>2, <1>3, <2>1, <2>2 DEF IInv, TypeOK, loop
<1>5. LockInv'
  <2>1. ASSUME NEW u \in Threads
        PROVE  /\ (buffer'[u] # 0) = (registryLock' = u)
               /\ buffer'[u] # 0 => /\ buffer'[u] = count'
                                    /\ pc'[u] \in {"next", "push", "register", "drain"}
               /\ pc'[u] = "next" => buffer'[u] # 0
    BY <1>1 DEF IInv, LockInv, loop
  <2>2. ASSUME NEW u \in Threads, pc'[u] \in {"resend", "stuck"}
        PROVE  sendLock'[at'[u]] = u
    <3>1. CASE u = t
      BY <1>1, <1>2, <2>2, <3>1 DEF IInv, LockInv, TypeOK
    <3>2. CASE u # t
      <4>1. /\ pc[u] \in {"resend", "stuck"} /\ at'[u] = at[u]
            /\ sendLock[at[u]] = u /\ at[u] \in Sessions
        BY <1>1, <2>2, <3>2, AtSession DEF IInv, LockInv
      <4>2. pc[t] = "resend" => sendLock[at[t]] = t
        BY DEF IInv, LockInv
      <4>. QED  BY <1>2, <3>2, <4>1, <4>2
    <3>. QED  BY <3>1, <3>2
  <2>3. ASSUME NEW r \in Sessions, sendLock'[r] # NoThread
        PROVE  pc'[sendLock'[r]] \in {"resend", "stuck"} /\ at'[sendLock'[r]] = r
    <3>1. CASE sendLock'[r] = sendLock[r]
      <4>1. /\ sendLock[r] \in Threads
            /\ pc[sendLock[r]] \in {"resend", "stuck"} /\ at[sendLock[r]] = r
        BY <2>3, <3>1 DEF IInv, TypeOK, LockInv
      <4>2. CASE sendLock[r] = t
        BY <1>1, <1>2, <2>3, <3>1, <4>1, <4>2
      <4>. QED  BY <1>1, <3>1, <4>1, <4>2
    <3>. QED  BY <1>1, <1>2, <2>3, <3>1
  <2>. QED  BY <2>1, <2>2, <2>3 DEF LockInv
<1>6. LoopInv'
  <2>1. ASSUME NEW u \in Threads
        PROVE  /\ buffer'[u] = 0 => todo'[u] = {}
               /\ todo'[u] \subseteq sessions'
               /\ pc'[u] = "push" /\ buffer'[u] # 0 => at'[u] \in sessions' \ todo'[u]
    BY <1>1 DEF IInv, LoopInv, loop
  <2>2. ASSUME NEW u \in Threads, pc'[u] = "add"
        PROVE  u # t /\ pc[u] = "add" /\ at'[u] = at[u] /\ at[u] \in Sessions
    BY <1>1, <2>2, AtSession DEF IInv
  <2>3. ASSUME NEW u \in Threads, pc'[u] = "add"
        PROVE  at'[u] \notin sessions' /\ log'[at'[u]] = << >> /\ link'[at'[u]] # "new"
    BY <2>2, <2>3 DEF IInv, LoopInv
  <2>4. \A u, v \in Threads :
          pc'[u] = "add" /\ pc'[v] = "add" /\ at'[u] = at'[v] => u = v
    BY <2>2 DEF IInv, LoopInv
  <2>5. \A r \in Sessions : link'[r] = "new" => log'[r] = << >>
    BY DEF IInv, LoopInv
  <2>. QED  BY <2>1, <2>3, <2>4, <2>5 DEF LoopInv
<1>7. ASSUME NEW r \in Sessions PROVE OnItsWay(r)' <=> OnItsWay(r)
  <2>1. ASSUME NEW u \in Threads
        PROVE  buffer'[u] = buffer[u] /\ todo'[u] = todo[u] /\
               (buffer[u] # 0 => (pc'[u] = "push" /\ at'[u] = r <=>
                                    pc[u] = "push" /\ at[u] = r))
    BY <1>1 DEF loop
  <2>. QED  BY <2>1 DEF OnItsWay
<1>8. \A r \in sessions' : link'[r] = "connected" => link[r] = "connected"
  BY DEF IInv, TypeOK
<1>9. OrderInv' /\ JoinInv' /\ EveryoneHearsAll'
  <2>1. sessions' \subseteq Sessions
    BY DEF IInv, TypeOK
  <2>. QED  BY <1>7, <1>8, <2>1, Quiet
<1>. QED  BY <1>4, <1>5, <1>6, <1>9 DEF IInv

\* The same for a thread that returns from Send or from its handler.
LEMMA WalkBack ==
  ASSUME IInv, NEW t \in Threads, Return(t),
         pc[t] \in {"register", "drain", "settle", "resend"},
         UNCHANGED <<registryLock, sessions, link, loop, history>>,
         waiting' \in [Sessions -> BOOLEAN], registered' \in [Sessions -> BOOLEAN],
         writing' \in [Sessions -> BOOLEAN],
         sendLock' = IF pc[t] = "resend" THEN [sendLock EXCEPT ![at[t]] = NoThread]
                     ELSE sendLock
  PROVE  IInv'
<1>1. link' \in [Sessions -> {"new", "connected", "closed"}] /\ sends' \in Nat
  BY Typed DEF history
<1>2. CASE buffer[t] # 0
  <2>1. GoTo(t, "next", NoSession)
    BY <1>2 DEF Return
  <2>. QED  BY <1>1, <1>2, <2>1, Walk DEF history
<1>3. CASE buffer[t] = 0
  <2>1. GoTo(t, "idle", NoSession)
    BY <1>3 DEF Return
  <2>. QED  BY <1>1, <1>3, <2>1, Walk DEF history
<1>. QED  BY <1>2, <1>3

LEMMA SendInv ==
  ASSUME IInv, NEW t \in Threads, Send(t)
  PROVE  IInv'
<1>1. PICK s \in Sessions : GoTo(t, "push", s)
  BY DEF Send
<1>2. /\ pc[t] = "idle" /\ buffer[t] = 0
      /\ UNCHANGED <<registryLock, sessions, sendLock, session, loop, count, log, joined>>
      /\ sends' \in Nat
  BY NoBuffer, Typed DEF Send
<1>. QED  BY <1>1, <1>2, NoSessionIsNone, Typed, Walk DEF session, loop, history
LEMMA RegisterSendInv ==
  ASSUME IInv, NEW t \in Threads, RegisterSend(t)
  PROVE  IInv'
<1>1. /\ pc[t] = "register"
      /\ UNCHANGED <<registryLock, sessions, sendLock, session, loop, history>>
  BY DEF RegisterSend
<1>2. at[t] \in Sessions
  BY <1>1, AtSession DEF IInv
<1>3. CASE GoTo(t, "drain", at[t])
  BY <1>1, <1>2, <1>3, NoSessionIsNone, Typed, Walk DEF session, loop, history
<1>4. CASE Return(t)
  BY <1>1, <1>4, Typed, WalkBack DEF session, loop, history
<1>. QED  BY <1>3, <1>4 DEF RegisterSend
LEMMA DrainInv ==
  ASSUME IInv, NEW t \in Threads, Drain(t)
  PROVE  IInv'
<1>1. /\ pc[t] = "drain" /\ Return(t)
      /\ UNCHANGED <<registryLock, sessions, sendLock, link, loop, history>>
      /\ at[t] \in Sessions
  BY AtSession DEF Drain, IInv
<1>2. /\ waiting' \in [Sessions -> BOOLEAN]
      /\ writing' \in [Sessions -> BOOLEAN]
      /\ registered' \in [Sessions -> BOOLEAN]
  BY <1>1 DEF Drain, IInv, TypeOK
<1>. QED  BY <1>1, <1>2, Typed, WalkBack DEF session, loop, history
LEMMA WriteDoneInv ==
  ASSUME IInv, NEW t \in Threads, WriteDone(t)
  PROVE  IInv'
<1>1. /\ pc[t] = "idle" /\ buffer[t] = 0 /\ at[t] = NoSession
      /\ UNCHANGED <<registryLock, sessions, sendLock, link, waiting, registered, loop,
                     history>>
      /\ writing' \in [Sessions -> BOOLEAN]
  <2>1. pc[t] = "idle" /\ at[t] = NoSession
    BY DEF WriteDone, IInv, TypeOK
  <2>. QED  BY <2>1, NoBuffer, Typed DEF WriteDone
<1>2. CASE UNCHANGED <<pc, at>>
  <2>1. GoTo(t, "idle", NoSession)
    BY <1>1, <1>2 DEF GoTo, IInv, TypeOK
  <2>. QED  BY <1>1, <2>1, Typed, Walk DEF session, loop, history
<1>3. ASSUME NEW s \in Sessions, GoTo(t, "settle", s)
      PROVE  IInv'
  BY <1>1, <1>3, NoSessionIsNone, Typed, Walk DEF session, loop, history
<1>. QED  BY <1>2, <1>3 DEF WriteDone
LEMMA WriteFailedInv ==
  ASSUME IInv, NEW t \in Threads, WriteFailed(t)
  PROVE  IInv'
<1>1. PICK s \in Sessions :
        /\ link[s] = "connected" /\ link' = [link EXCEPT ![s] = "closed"]
        /\ GoTo(t, "release", s)
  BY DEF WriteFailed
<1>2. /\ pc[t] = "idle" /\ buffer[t] = 0
      /\ UNCHANGED <<registryLock, sessions, sendLock, waiting, registered, loop,
                     history>>
      /\ writing' \in [Sessions -> BOOLEAN]
  BY NoBuffer, Typed DEF WriteFailed, session
<1>. QED  BY <1>1, <1>2, NoSessionIsNone, Typed, Walk DEF session, loop, history
LEMMA DisconnectInv ==
  ASSUME IInv, NEW t \in Threads, Disconnect(t)
  PROVE  IInv'
<1>1. PICK s \in Sessions :
        /\ link[s] = "connected" /\ link' = [link EXCEPT ![s] = "closed"]
        /\ GoTo(t, "release", s)
  BY DEF Disconnect
<1>2. /\ pc[t] = "idle" /\ buffer[t] = 0
      /\ UNCHANGED <<registryLock, sessions, sendLock, waiting, registered, loop,
                     history>>
      /\ writing' \in [Sessions -> BOOLEAN]
  BY NoBuffer, Typed DEF Disconnect, session
<1>. QED  BY <1>1, <1>2, NoSessionIsNone, Typed, Walk DEF session, loop, history
LEMMA SettleInv ==
  ASSUME IInv, NEW t \in Threads, Settle(t)
  PROVE  IInv'
<1>1. /\ pc[t] = "settle" /\ buffer[t] = 0 /\ at[t] \in Sessions
      /\ sendLock[at[t]] = NoThread
      /\ UNCHANGED <<registryLock, sessions, link, waiting, writing, loop, history>>
  BY AtSession DEF Settle, IInv, LockInv
<1>2. CASE /\ sendLock' = [sendLock EXCEPT ![at[t]] = t]
           /\ GoTo(t, "resend", at[t])
           /\ UNCHANGED registered
  BY <1>1, <1>2, NoSessionIsNone, Typed, Walk DEF session, loop, history
<1>3. CASE /\ registered' = [registered EXCEPT ![at[t]] = FALSE]
           /\ Return(t) /\ UNCHANGED sendLock
  <2>1. registered' \in [Sessions -> BOOLEAN]
    BY <1>3 DEF IInv, TypeOK
  <2>. QED  BY <1>1, <1>3, <2>1, Typed, WalkBack DEF session, loop, history
<1>. QED  BY <1>2, <1>3 DEF Settle
LEMMA ResendInv ==
  ASSUME IInv, NEW t \in Threads, Resend(t)
  PROVE  IInv'
<1>1. /\ pc[t] = "resend" /\ buffer[t] = 0 /\ at[t] \in Sessions
      /\ UNCHANGED <<registryLock, sessions, session, loop, history>>
  BY AtSession DEF Resend, IInv, LockInv
<1>2. CASE Return(t) /\ sendLock' = [sendLock EXCEPT ![at[t]] = NoThread]
  BY <1>1, <1>2, Typed, WalkBack DEF session, loop, history
<1>3. CASE GoTo(t, "stuck", at[t]) /\ UNCHANGED sendLock
  BY <1>1, <1>3, NoSessionIsNone, Typed, Walk DEF session, loop, history
<1>. QED  BY <1>2, <1>3 DEF Resend

\* The holder of the registry's lock is the only thread with a broadcast.
LEMMA OneHolder ==
  ASSUME IInv, NEW t \in Threads, NEW u \in Threads, buffer[u] # 0,
         registryLock = t \/ buffer[t] # 0
  PROVE  u = t
BY DEF IInv, LockInv

LEMMA NobodyHolds ==
  ASSUME IInv, registryLock = NoThread
  PROVE  /\ \A u \in Threads : buffer[u] = 0
         /\ \A s \in Sessions : ~OnItsWay(s)
BY BroadcastPathAssumption DEF IInv, LockInv, OnItsWay

\* A thread that keeps no _sendLock moves, and the locks stay as they are.
LEMMA Keeps ==
  ASSUME IInv, NEW t \in Threads, pc[t] \notin {"resend", "stuck"},
         NEW s, s \in Sessions \cup {NoSession}, NEW l, GoTo(t, l, s),
         s = NoSession <=> l \in {"idle", "next"},
         l \in {"idle", "next", "push", "register", "add", "release"},
         sendLock' = sendLock
  PROVE  /\ pc'[t] = l /\ at'[t] = s
         /\ \A u \in Threads : u # t => pc'[u] = pc[u] /\ at'[u] = at[u]
         /\ pc' \in [Threads -> {"idle", "next", "push", "register", "drain", "settle",
                                 "resend", "stuck", "add", "release"}]
         /\ at' \in [Threads -> Sessions \cup {NoSession}]
         /\ \A u \in Threads : (at'[u] = NoSession) = (pc'[u] \in {"idle", "next"})
         /\ sendLock' \in [Sessions -> Threads \cup {NoThread}]
         /\ \A u \in Threads : pc'[u] \in {"resend", "stuck"} => sendLock'[at'[u]] = u
         /\ \A r \in Sessions :
              sendLock'[r] # NoThread =>
                pc'[sendLock'[r]] \in {"resend", "stuck"} /\ at'[sendLock'[r]] = r
<1>. USE BroadcastPathAssumption
<1>1. /\ pc'[t] = l /\ at'[t] = s
      /\ \A u \in Threads : u # t => pc'[u] = pc[u] /\ at'[u] = at[u]
  BY Moved DEF IInv
<1>2. /\ pc' \in [Threads -> {"idle", "next", "push", "register", "drain", "settle",
                              "resend", "stuck", "add", "release"}]
      /\ at' \in [Threads -> Sessions \cup {NoSession}]
  BY DEF IInv, TypeOK, GoTo
<1>3. ASSUME NEW u \in Threads
      PROVE  (at'[u] = NoSession) = (pc'[u] \in {"idle", "next"})
  <2>1. CASE u = t
    BY <1>1, <2>1
  <2>2. CASE u # t
    <3>1. (at[u] = NoSession) = (pc[u] \in {"idle", "next"})
      BY DEF IInv, TypeOK
    <3>. QED  BY <1>1, <2>2, <3>1
  <2>. QED  BY <2>1, <2>2
<1>4. ASSUME NEW u \in Threads, pc'[u] \in {"resend", "stuck"}
      PROVE  sendLock'[at'[u]] = u
  BY <1>1, <1>4 DEF IInv, LockInv
<1>5. ASSUME NEW r \in Sessions, sendLock[r] # NoThread
      PROVE  pc'[sendLock[r]] \in {"resend", "stuck"} /\ at'[sendLock[r]] = r
  <2>1. /\ sendLock[r] \in Threads
        /\ pc[sendLock[r]] \in {"resend", "stuck"} /\ at[sendLock[r]] = r
    BY <1>5 DEF IInv, LockInv, TypeOK
  <2>. QED  BY <1>1, <2>1
<1>6. sendLock' \in [Sessions -> Threads \cup {NoThread}]
  BY DEF IInv, TypeOK
<1>. QED  BY <1>1, <1>2, <1>3, <1>4, <1>5, <1>6

LEMMA ConnectInv ==
  ASSUME IInv, NEW t \in Threads, Connect(t)
  PROVE  IInv'
<1>. USE BroadcastPathAssumption
<1>1. PICK s \in Sessions :
        /\ link[s] = "new" /\ link' = [link EXCEPT ![s] = "connected"]
        /\ GoTo(t, "add", s)
  BY DEF Connect
<1>2. /\ pc[t] = "idle" /\ buffer[t] = 0
      /\ UNCHANGED <<registryLock, sessions, sendLock, waiting, registered, writing,
                     buffer, todo, count, log, joined, sends>>
  BY NoBuffer DEF Connect, loop, history
<1>3. /\ pc'[t] = "add" /\ at'[t] = s
      /\ \A u \in Threads : u # t => pc'[u] = pc[u] /\ at'[u] = at[u]
      /\ pc' \in [Threads -> {"idle", "next", "push", "register", "drain", "settle",
                              "resend", "stuck", "add", "release"}]
      /\ at' \in [Threads -> Sessions \cup {NoSession}]
      /\ \A u \in Threads : (at'[u] = NoSession) = (pc'[u] \in {"idle", "next"})
      /\ \A u \in Threads : pc'[u] \in {"resend", "stuck"} => sendLock'[at'[u]] = u
      /\ \A r \in Sessions :
           sendLock'[r] # NoThread =>
             pc'[sendLock'[r]] \in {"resend", "stuck"} /\ at'[sendLock'[r]] = r
  BY <1>1, <1>2, NoSessionIsNone, Keeps
<1>4. /\ link' \in [Sessions -> {"new", "connected", "closed"}]
      /\ link'[s] = "connected" /\ s \notin sessions
      /\ \A r \in Sessions : r # s => link'[r] = link[r]
  BY <1>1 DEF IInv, TypeOK
<1>5. TypeOK'
  BY <1>2, <1>3, <1>4 DEF IInv, TypeOK
<1>6. LockInv'
  <2>1. \A u \in Threads :
          /\ buffer'[u] # 0 => pc'[u] \in {"next", "push", "register", "drain"}
          /\ pc'[u] = "next" => buffer'[u] # 0
    BY <1>2, <1>3 DEF IInv, LockInv
  <2>. QED  BY <1>2, <1>3, <2>1 DEF IInv, LockInv
<1>7. LoopInv'
  <2>1. ASSUME NEW u \in Threads
        PROVE  /\ buffer'[u] = 0 => todo'[u] = {}
               /\ todo'[u] \subseteq sessions'
               /\ pc'[u] = "push" /\ buffer'[u] # 0 => at'[u] \in sessions' \ todo'[u]
    BY <1>2, <1>3 DEF IInv, LoopInv
  <2>2. log[s] = << >>
    BY <1>1 DEF IInv, LoopInv
  <2>3. ASSUME NEW u \in Threads, u # t, pc'[u] = "add"
        PROVE  /\ pc[u] = "add" /\ at'[u] = at[u] /\ at[u] \in Sessions \ {s}
               /\ at[u] \notin sessions /\ log[at[u]] = << >> /\ link[at[u]] # "new"
    <3>1. pc[u] = "add" /\ at'[u] = at[u]
      BY <1>3, <2>3
    <3>. QED  BY <1>1, <3>1, AtSession DEF IInv, LoopInv
  <2>4. ASSUME NEW u \in Threads, pc'[u] = "add"
        PROVE  at'[u] \notin sessions' /\ log'[at'[u]] = << >> /\ link'[at'[u]] # "new"
    BY <1>2, <1>3, <1>4, <2>2, <2>3, <2>4
  <2>5. ASSUME NEW u \in Threads, NEW v \in Threads,
               pc'[u] = "add", pc'[v] = "add", at'[u] = at'[v]
        PROVE  u = v
    <3>1. CASE u = t \/ v = t
      BY <1>3, <2>3, <2>5, <3>1
    <3>2. CASE u # t /\ v # t
      BY <2>3, <2>5, <3>2 DEF IInv, LoopInv
    <3>. QED  BY <3>1, <3>2
  <2>6. \A r \in Sessions : link'[r] = "new" => log'[r] = << >>
    BY <1>2, <1>4 DEF IInv, LoopInv
  <2>. QED  BY <2>1, <2>4, <2>5, <2>6 DEF LoopInv
<1>8. ASSUME NEW r \in Sessions PROVE OnItsWay(r)' <=> OnItsWay(r)
  BY <1>2, <1>3 DEF OnItsWay
<1>9. OrderInv' /\ JoinInv' /\ EveryoneHearsAll'
  <2>1. sessions' = sessions /\ sessions \subseteq Sessions
    BY <1>2 DEF IInv, TypeOK
  <2>. QED  BY <1>2, <1>4, <1>8, <2>1, Quiet
<1>. QED  BY <1>5, <1>6, <1>7, <1>9 DEF IInv

LEMMA ReleaseSessionInv ==
  ASSUME IInv, NEW t \in Threads, ReleaseSession(t)
  PROVE  IInv'
<1>. USE BroadcastPathAssumption
<1>1. /\ pc[t] = "release" /\ registryLock = NoThread
      /\ sessions' = sessions \ {at[t]} /\ GoTo(t, "idle", NoSession)
      /\ UNCHANGED <<registryLock, sendLock, link, waiting, registered, writing,
                     buffer, todo, count, log, joined, sends>>
  BY DEF ReleaseSession, session, loop, history
<1>2. /\ pc'[t] = "idle" /\ at'[t] = NoSession
      /\ \A u \in Threads : u # t => pc'[u] = pc[u] /\ at'[u] = at[u]
      /\ pc' \in [Threads -> {"idle", "next", "push", "register", "drain", "settle",
                              "resend", "stuck", "add", "release"}]
      /\ at' \in [Threads -> Sessions \cup {NoSession}]
      /\ \A u \in Threads : (at'[u] = NoSession) = (pc'[u] \in {"idle", "next"})
      /\ \A u \in Threads : pc'[u] \in {"resend", "stuck"} => sendLock'[at'[u]] = u
      /\ \A r \in Sessions :
           sendLock'[r] # NoThread =>
             pc'[sendLock'[r]] \in {"resend", "stuck"} /\ at'[sendLock'[r]] = r
  BY <1>1, Keeps
<1>3. /\ \A u \in Threads : buffer[u] = 0 /\ todo[u] = {}
      /\ \A s \in Sessions : ~OnItsWay(s)
  BY <1>1, NobodyHolds DEF IInv, LoopInv
<1>4. TypeOK'
  BY <1>1, <1>2 DEF IInv, TypeOK
<1>5. LockInv'
  <2>1. \A u \in Threads : pc'[u] # "next"
    BY <1>2, <1>3 DEF IInv, LockInv
  <2>. QED  BY <1>1, <1>2, <1>3, <2>1 DEF LockInv
<1>6. LoopInv'
  <2>1. ASSUME NEW u \in Threads, pc'[u] = "add"
        PROVE  /\ pc[u] = "add" /\ at'[u] = at[u]
               /\ at[u] \notin sessions' /\ log[at[u]] = << >> /\ link[at[u]] # "new"
    BY <1>1, <1>2, <2>1 DEF IInv, LoopInv
  <2>2. \A u, v \in Threads :
          pc'[u] = "add" /\ pc'[v] = "add" /\ at'[u] = at'[v] => u = v
    BY <2>1 DEF IInv, LoopInv
  <2>3. \A r \in Sessions : link'[r] = "new" => log'[r] = << >>
    BY <1>1 DEF IInv, LoopInv
  <2>. QED  BY <1>1, <1>3, <2>1, <2>2, <2>3 DEF LoopInv
<1>7. ASSUME NEW s \in Sessions PROVE ~OnItsWay(s)'
  BY <1>1, <1>3 DEF OnItsWay
<1>8. OrderInv' /\ JoinInv' /\ EveryoneHearsAll'
  <2>1. sessions' \subseteq sessions /\ sessions' \subseteq Sessions
    BY <1>1 DEF IInv, TypeOK
  <2>. QED  BY <1>1, <1>3, <1>7, <2>1, Quiet
<1>. QED  BY <1>4, <1>5, <1>6, <1>8 DEF IInv

LEMMA AddSessionInv ==
  ASSUME IInv, NEW t \in Threads, AddSession(t)
  PROVE  IInv'
<1>. USE BroadcastPathAssumption
<1>1. /\ pc[t] = "add" /\ registryLock = NoThread
      /\ sessions' = sessions \cup {at[t]} /\ joined' = [joined EXCEPT ![at[t]] = count]
      /\ GoTo(t, "idle", NoSession)
      /\ UNCHANGED <<registryLock, sendLock, link, waiting, registered, writing,
                     buffer, todo, count, log, sends>>
  BY DEF AddSession, session, loop
<1>2. /\ pc'[t] = "idle" /\ at'[t] = NoSession
      /\ \A u \in Threads : u # t => pc'[u] = pc[u] /\ at'[u] = at[u]
      /\ pc' \in [Threads -> {"idle", "next", "push", "register", "drain", "settle",
                              "resend", "stuck", "add", "release"}]
      /\ at' \in [Threads -> Sessions \cup {NoSession}]
      /\ \A u \in Threads : (at'[u] = NoSession) = (pc'[u] \in {"idle", "next"})
      /\ \A u \in Threads : pc'[u] \in {"resend", "stuck"} => sendLock'[at'[u]] = u
      /\ \A r \in Sessions :
           sendLock'[r] # NoThread =>
             pc'[sendLock'[r]] \in {"resend", "stuck"} /\ at'[sendLock'[r]] = r
  BY <1>1, Keeps
<1>3. /\ \A u \in Threads : buffer[u] = 0 /\ todo[u] = {}
      /\ \A s \in Sessions : ~OnItsWay(s)
  BY <1>1, NobodyHolds DEF IInv, LoopInv
<1>4. /\ at[t] \in Sessions /\ at[t] \notin sessions
      /\ log[at[t]] = << >> /\ link[at[t]] # "new"
  BY <1>1, AtSession DEF IInv, LoopInv
<1>5. /\ joined' \in [Sessions -> Nat] /\ joined'[at[t]] = count /\ count \in Nat
      /\ \A s \in Sessions : s # at[t] => joined'[s] = joined[s]
  BY <1>1, <1>4 DEF IInv, TypeOK
<1>6. TypeOK'
  BY <1>1, <1>2, <1>4, <1>5 DEF IInv, TypeOK
<1>7. LockInv'
  <2>1. \A u \in Threads : pc'[u] # "next"
    BY <1>2, <1>3 DEF IInv, LockInv
  <2>. QED  BY <1>1, <1>2, <1>3, <2>1 DEF LockInv
<1>8. LoopInv'
  <2>1. ASSUME NEW u \in Threads, pc'[u] = "add"
        PROVE  /\ u # t /\ pc[u] = "add" /\ at'[u] = at[u] /\ at[u] # at[t]
               /\ at[u] \notin sessions /\ log[at[u]] = << >> /\ link[at[u]] # "new"
    BY <1>1, <1>2, <2>1 DEF IInv, LoopInv
  <2>2. \A u, v \in Threads :
          pc'[u] = "add" /\ pc'[v] = "add" /\ at'[u] = at'[v] => u = v
    BY <2>1 DEF IInv, LoopInv
  <2>3. \A r \in Sessions : link'[r] = "new" => log'[r] = << >>
    BY <1>1 DEF IInv, LoopInv
  <2>. QED  BY <1>1, <1>3, <2>1, <2>2, <2>3 DEF LoopInv
<1>9. ASSUME NEW s \in Sessions PROVE ~OnItsWay(s)'
  BY <1>1, <1>3 DEF OnItsWay
<1>10. OrderInv'
  BY <1>1, <1>9 DEF IInv, OrderInv
<1>11. ASSUME NEW s \in sessions'
       PROVE  /\ joined'[s] <= count /\ s \in Sessions
              /\ link'[s] = "connected" =>
                   log'[s] = [i \in 1 .. count - joined'[s] |-> joined'[s] + i]
  <2>1. CASE s = at[t]
    <3>1. log'[s] = [i \in 1 .. count - joined'[s] |-> joined'[s] + i]
      BY <1>1, <1>4, <1>5, <2>1
    <3>. QED  BY <1>4, <1>5, <2>1, <3>1
  <2>2. CASE s # at[t]
    <3>1. s \in sessions /\ s \in Sessions /\ joined'[s] = joined[s] /\ ~OnItsWay(s)
      BY <1>1, <1>3, <1>5, <2>2 DEF IInv, TypeOK
    <3>2. joined[s] \in Nat /\ joined[s] <= count
      BY <1>5, <3>1 DEF IInv, TypeOK, JoinInv
    <3>3. link[s] = "connected" =>
            log[s] = [i \in 1 .. count - joined[s] |-> joined[s] + i]
      BY <1>5, <3>1, <3>2 DEF IInv, EveryoneHearsAll
    <3>. QED  BY <1>1, <3>1, <3>2, <3>3
  <2>. QED  BY <2>1, <2>2
<1>12. JoinInv'
  <2>. SUFFICES ASSUME NEW s \in sessions'
       PROVE  joined'[s] + (IF OnItsWay(s)' THEN 1 ELSE 0) <= count'
    BY DEF JoinInv
  <2>1. ~OnItsWay(s)' /\ joined'[s] \in Nat
    BY <1>5, <1>9, <1>11
  <2>2. (IF OnItsWay(s)' THEN 1 ELSE 0) = 0
    BY <2>1
  <2>3. joined'[s] <= count /\ count' = count /\ count \in Nat
    BY <1>1, <1>5, <1>11
  <2>. QED  BY <2>1, <2>2, <2>3
<1>13. EveryoneHearsAll'
  <2>. SUFFICES ASSUME NEW s \in sessions', link'[s] = "connected"
       PROVE  log'[s] = [i \in 1 .. (count' - joined'[s]) -
                                     (IF OnItsWay(s)' THEN 1 ELSE 0) |-> joined'[s] + i]
    BY DEF EveryoneHearsAll
  <2>1. ~OnItsWay(s)' /\ joined'[s] \in Nat
    BY <1>5, <1>9, <1>11
  <2>2. (count' - joined'[s]) - (IF OnItsWay(s)' THEN 1 ELSE 0) = count - joined'[s]
    BY <1>1, <1>5, <2>1
  <2>. QED  BY <1>11, <2>2
<1>. QED  BY <1>6, <1>7, <1>8, <1>10, <1>12, <1>13 DEF IInv

LEMMA NextSessionInv ==
  ASSUME IInv, NEW t \in Threads, NextSession(t)
  PROVE  IInv'
<1>. USE BroadcastPathAssumption
<1>1. PICK s \in todo[t] :
        /\ todo' = [todo EXCEPT ![t] = @ \ {s}]
        /\ IF link[s] = "connected" THEN GoTo(t, "push", s) ELSE UNCHANGED <<pc, at>>
  BY DEF NextSession
<1>2. /\ pc[t] = "next" /\ buffer[t] # 0 /\ s \in sessions /\ s \in Sessions
      /\ UNCHANGED <<registryLock, sessions, sendLock, link, waiting, registered, writing,
                     buffer, count, log, joined, sends>>
  BY DEF NextSession, IInv, TypeOK, LockInv, LoopInv, session, history
<1>3. /\ todo' \in [Threads -> SUBSET Sessions]
      /\ todo'[t] = todo[t] \ {s}
      /\ \A u \in Threads : u # t => todo'[u] = todo[u]
  BY <1>1 DEF IInv, TypeOK
<1>4. /\ pc' \in [Threads -> {"idle", "next", "push", "register", "drain", "settle",
                            "resend", "stuck", "add", "release"}]
      /\ at' \in [Threads -> Sessions \cup {NoSession}]
      /\ \A u \in Threads : u # t => pc'[u] = pc[u] /\ at'[u] = at[u]
      /\ IF link[s] = "connected" THEN pc'[t] = "push" /\ at'[t] = s
         ELSE pc'[t] = "next" /\ at'[t] = at[t]
  <2>1. CASE link[s] = "connected"
    <3>1. GoTo(t, "push", s)
      BY <1>1, <2>1
    <3>2. /\ pc'[t] = "push" /\ at'[t] = s
          /\ \A u \in Threads : u # t => pc'[u] = pc[u] /\ at'[u] = at[u]
      BY <3>1, Moved DEF IInv
    <3>. QED  BY <1>2, <2>1, <3>1, <3>2 DEF GoTo, IInv, TypeOK
  <2>2. CASE link[s] # "connected"
    <3>1. UNCHANGED <<pc, at>>
      BY <1>1, <2>2
    <3>. QED  BY <1>2, <2>2, <3>1 DEF IInv, TypeOK
  <2>. QED  BY <2>1, <2>2
<1>5. TypeOK'
  <2>1. ASSUME NEW u \in Threads
        PROVE  (at'[u] = NoSession) = (pc'[u] \in {"idle", "next"})
    <3>1. (at[u] = NoSession) = (pc[u] \in {"idle", "next"})
      BY DEF IInv, TypeOK
    <3>2. CASE u = t /\ link[s] = "connected"
      BY <1>2, <1>4, <3>2
    <3>3. CASE u = t /\ link[s] # "connected"
      BY <1>2, <1>4, <3>1, <3>3
    <3>4. CASE u # t
      BY <1>4, <3>1, <3>4
    <3>. QED  BY <3>2, <3>3, <3>4
  <2>. QED  BY <1>2, <1>3, <1>4, <2>1 DEF IInv, TypeOK
<1>6. LockInv'
  <2>1. \A u \in Threads : pc'[u] \in {"resend", "stuck"} => sendLock'[at'[u]] = u
    BY <1>2, <1>4 DEF IInv, LockInv
  <2>2. ASSUME NEW r \in Sessions, sendLock[r] # NoThread
        PROVE  pc'[sendLock[r]] \in {"resend", "stuck"} /\ at'[sendLock[r]] = r
    <3>1. /\ sendLock[r] \in Threads
          /\ pc[sendLock[r]] \in {"resend", "stuck"} /\ at[sendLock[r]] = r
      BY <2>2 DEF IInv, LockInv, TypeOK
    <3>2. sendLock[r] # t
      BY <1>2, <3>1
    <3>. QED  BY <1>4, <3>1, <3>2
  <2>3. \A u \in Threads :
          /\ buffer'[u] # 0 => pc'[u] \in {"next", "push", "register", "drain"}
          /\ pc'[u] = "next" => buffer'[u] # 0
    BY <1>2, <1>4 DEF IInv, LockInv
  <2>. QED  BY <1>2, <2>1, <2>2, <2>3 DEF IInv, LockInv
<1>7. LoopInv'
  BY <1>2, <1>3, <1>4 DEF IInv, LoopInv
<1>8. ASSUME NEW r \in Sessions
      PROVE  /\ OnItsWay(r)' => OnItsWay(r)
             /\ link[r] = "connected" /\ OnItsWay(r) => OnItsWay(r)'
  <2>1. \A u \in Threads : buffer[u] # 0 => u = t
    BY <1>2, OneHolder
  <2>. QED  BY <1>1, <1>2, <1>3, <1>4, <2>1 DEF OnItsWay
<1>9. OrderInv' /\ JoinInv' /\ EveryoneHearsAll'
  <2>1. sessions' = sessions /\ sessions \subseteq Sessions
    BY <1>2 DEF IInv, TypeOK
  <2>. QED  BY <1>2, <1>8, <2>1, Quiet
<1>. QED  BY <1>5, <1>6, <1>7, <1>9 DEF IInv

LEMMA BroadcastEndsInv ==
  ASSUME IInv, NEW t \in Threads, BroadcastEnds(t)
  PROVE  IInv'
<1>. USE BroadcastPathAssumption
<1>1. /\ pc[t] = "next" /\ todo[t] = {} /\ registryLock' = NoThread
      /\ buffer' = [buffer EXCEPT ![t] = 0]
      /\ GoTo(t, "idle", NoSession)
      /\ UNCHANGED <<sessions, sendLock, link, waiting, registered, writing, todo, count,
                     log, joined, sends>>
  BY DEF BroadcastEnds, session, history
<1>2. /\ registryLock = t /\ buffer[t] # 0
      /\ \A u \in Threads : u # t => buffer[u] = 0
  BY <1>1, OneHolder DEF IInv, LockInv
<1>3. /\ buffer' \in [Threads -> 0 .. count] /\ \A u \in Threads : buffer'[u] = 0
      /\ pc' \in [Threads -> {"idle", "next", "push", "register", "drain", "settle",
                            "resend", "stuck", "add", "release"}]
      /\ at' \in [Threads -> Sessions \cup {NoSession}]
      /\ pc'[t] = "idle" /\ at'[t] = NoSession
      /\ \A u \in Threads : u # t => pc'[u] = pc[u] /\ at'[u] = at[u]
  BY <1>1, <1>2 DEF GoTo, IInv, TypeOK
<1>4. TypeOK'
  <2>1. \A u \in Threads : (at'[u] = NoSession) = (pc'[u] \in {"idle", "next"})
    BY <1>3 DEF IInv, TypeOK
  <2>. QED  BY <1>1, <1>3, <2>1 DEF IInv, TypeOK
<1>5. LockInv'
  <2>1. \A u \in Threads : pc'[u] \in {"resend", "stuck"} => sendLock'[at'[u]] = u
    BY <1>1, <1>3 DEF IInv, LockInv
  <2>2. \A r \in Sessions :
          sendLock'[r] # NoThread =>
            pc'[sendLock'[r]] \in {"resend", "stuck"} /\ at'[sendLock'[r]] = r
    BY <1>1, <1>3 DEF IInv, LockInv, TypeOK
  <2>. QED  BY <1>1, <1>2, <1>3, <2>1, <2>2 DEF IInv, LockInv
<1>6. LoopInv'
  BY <1>1, <1>2, <1>3 DEF IInv, LoopInv
<1>7. ASSUME NEW r \in Sessions PROVE ~OnItsWay(r)' /\ ~OnItsWay(r)
  BY <1>1, <1>2, <1>3 DEF OnItsWay
<1>8. OrderInv' /\ JoinInv' /\ EveryoneHearsAll'
  <2>1. sessions' = sessions /\ sessions \subseteq Sessions
    BY <1>1 DEF IInv, TypeOK
  <2>. QED  BY <1>1, <1>7, <2>1, Quiet
<1>. QED  BY <1>4, <1>5, <1>6, <1>8 DEF IInv

LEMMA BroadcastInv ==
  ASSUME IInv, NEW t \in Threads, Broadcast(t)
  PROVE  IInv'
<1>. USE BroadcastPathAssumption
<1>1. /\ pc[t] = "idle" /\ registryLock = NoThread /\ registryLock' = t
      /\ count' = count + 1 /\ buffer' = [buffer EXCEPT ![t] = count + 1]
      /\ todo' = [todo EXCEPT ![t] = sessions] /\ GoTo(t, "next", NoSession)
      /\ UNCHANGED <<sessions, sendLock, link, waiting, registered, writing, log, joined,
                     sends>>
  BY DEF Broadcast, session
<1>2. /\ pc'[t] = "next" /\ at'[t] = NoSession
      /\ \A u \in Threads : u # t => pc'[u] = pc[u] /\ at'[u] = at[u]
      /\ pc' \in [Threads -> {"idle", "next", "push", "register", "drain", "settle",
                              "resend", "stuck", "add", "release"}]
      /\ at' \in [Threads -> Sessions \cup {NoSession}]
      /\ \A u \in Threads : (at'[u] = NoSession) = (pc'[u] \in {"idle", "next"})
      /\ \A u \in Threads : pc'[u] \in {"resend", "stuck"} => sendLock'[at'[u]] = u
      /\ \A r \in Sessions :
           sendLock'[r] # NoThread =>
             pc'[sendLock'[r]] \in {"resend", "stuck"} /\ at'[sendLock'[r]] = r
  BY <1>1, Keeps
<1>3. /\ \A u \in Threads : buffer[u] = 0 /\ todo[u] = {} /\ pc[u] # "next"
      /\ \A s \in Sessions : ~OnItsWay(s)
  BY <1>1, NobodyHolds DEF IInv, LoopInv, LockInv
<1>4. count \in Nat /\ sessions \subseteq Sessions
  BY DEF IInv, TypeOK
<1>5. /\ buffer'[t] = count + 1 /\ todo'[t] = sessions
      /\ \A u \in Threads : u # t => buffer'[u] = 0 /\ todo'[u] = {}
      /\ buffer' \in [Threads -> 0 .. count'] /\ todo' \in [Threads -> SUBSET Sessions]
  <2>1. buffer \in [Threads -> 0 .. count] /\ todo \in [Threads -> SUBSET Sessions]
    BY DEF IInv, TypeOK
  <2>. QED  BY <1>1, <1>3, <1>4, <2>1
<1>6. TypeOK'
  BY <1>1, <1>2, <1>4, <1>5 DEF IInv, TypeOK
<1>7. LockInv'
  <2>1. ASSUME NEW u \in Threads
        PROVE  /\ (buffer'[u] # 0) = (registryLock' = u)
               /\ buffer'[u] # 0 => /\ buffer'[u] = count'
                                    /\ pc'[u] \in {"next", "push", "register", "drain"}
               /\ pc'[u] = "next" => buffer'[u] # 0
    BY <1>1, <1>2, <1>3, <1>4, <1>5
  <2>. QED  BY <1>2, <2>1 DEF LockInv
<1>8. LoopInv'
  <2>1. ASSUME NEW u \in Threads
        PROVE  /\ buffer'[u] = 0 => todo'[u] = {}
               /\ todo'[u] \subseteq sessions'
               /\ ~(pc'[u] = "push" /\ buffer'[u] # 0)
    BY <1>1, <1>2, <1>4, <1>5
  <2>2. ASSUME NEW u \in Threads, pc'[u] = "add"
        PROVE  /\ pc[u] = "add" /\ at'[u] = at[u]
               /\ at[u] \notin sessions /\ log[at[u]] = << >> /\ link[at[u]] # "new"
    BY <1>1, <1>2, <2>2 DEF IInv, LoopInv
  <2>3. \A u, v \in Threads :
          pc'[u] = "add" /\ pc'[v] = "add" /\ at'[u] = at'[v] => u = v
    BY <2>2 DEF IInv, LoopInv
  <2>4. \A r \in Sessions : link'[r] = "new" => log'[r] = << >>
    BY <1>1 DEF IInv, LoopInv
  <2>. QED  BY <1>1, <2>1, <2>2, <2>3, <2>4 DEF LoopInv
<1>9. ASSUME NEW s \in Sessions PROVE OnItsWay(s)' <=> s \in sessions
  BY <1>2, <1>4, <1>5 DEF OnItsWay
<1>10. OrderInv'
  <2>. SUFFICES ASSUME NEW s \in Sessions
       PROVE  /\ \A i \in DOMAIN log[s] : log[s][i] < count + 1
              /\ \A i, j \in DOMAIN log[s] : i < j => log[s][i] < log[s][j]
    BY <1>1, <1>4 DEF OrderInv, IInv, TypeOK
  <2>1. \A i \in DOMAIN log[s] : log[s][i] \in Nat /\ log[s][i] <= count
    BY DEF IInv, TypeOK, OrderInv
  <2>. QED  BY <1>4, <2>1 DEF IInv, OrderInv
<1>11. ASSUME NEW s \in sessions
       PROVE  /\ OnItsWay(s)' /\ joined[s] \in Nat /\ joined[s] <= count
              /\ link[s] = "connected" =>
                   log[s] = [i \in 1 .. count - joined[s] |-> joined[s] + i]
  <2>1. s \in Sessions /\ ~OnItsWay(s) /\ OnItsWay(s)' /\ joined[s] \in Nat
    BY <1>3, <1>4, <1>9 DEF IInv, TypeOK
  <2>2. joined[s] <= count
    BY <1>4, <2>1 DEF IInv, JoinInv
  <2>3. link[s] = "connected" =>
          log[s] = [i \in 1 .. count - joined[s] |-> joined[s] + i]
    BY <1>4, <2>1 DEF IInv, EveryoneHearsAll
  <2>. QED  BY <2>1, <2>2, <2>3
<1>12. JoinInv'
  <2>. SUFFICES ASSUME NEW s \in sessions'
       PROVE  joined'[s] + (IF OnItsWay(s)' THEN 1 ELSE 0) <= count'
    BY DEF JoinInv
  <2>1. OnItsWay(s)' /\ joined[s] \in Nat /\ joined[s] <= count /\ joined'[s] = joined[s]
    BY <1>1, <1>11
  <2>2. joined[s] + 1 <= count + 1
    BY <1>4, <2>1
  <2>. QED  BY <1>1, <1>4, <2>1, <2>2
<1>13. EveryoneHearsAll'
  <2>. SUFFICES ASSUME NEW s \in sessions', link'[s] = "connected"
       PROVE  log'[s] = [i \in 1 .. (count' - joined'[s]) -
                                     (IF OnItsWay(s)' THEN 1 ELSE 0) |-> joined'[s] + i]
    BY DEF EveryoneHearsAll
  <2>1. (count' - joined'[s]) - (IF OnItsWay(s)' THEN 1 ELSE 0) = count - joined[s]
    <3>1. OnItsWay(s)' /\ joined[s] \in Nat /\ joined'[s] = joined[s] /\ count' = count + 1
      BY <1>1, <1>11
    <3>. QED  BY <1>4, <3>1
  <2>. QED  BY <1>1, <1>11, <2>1
<1>. QED  BY <1>6, <1>7, <1>8, <1>10, <1>12, <1>13 DEF IInv

\* What is pushed to the log of a session, and by whom.
LEMMA Pushed ==
  ASSUME IInv, NEW t \in Threads, Push(t), buffer[t] # 0
  PROVE  /\ at[t] \in sessions /\ at[t] \in Sessions /\ OnItsWay(at[t])
         /\ log' \in [Sessions -> Seq(Nat)]
         /\ log'[at[t]] = Append(log[at[t]], count)
         /\ \A r \in Sessions : r # at[t] => log'[r] = log[r]
<1>1. /\ pc[t] = "push" /\ buffer[t] = count /\ at[t] \in sessions /\ at[t] \in Sessions
      /\ log \in [Sessions -> Seq(Nat)] /\ count \in Nat
  BY DEF Push, IInv, LockInv, LoopInv, TypeOK
<1>2. log' = [log EXCEPT ![at[t]] = Append(@, buffer[t])]
  BY DEF Push
<1>3. log' = [log EXCEPT ![at[t]] = Append(log[at[t]], count)]
  BY <1>1, <1>2
<1>4. log'[at[t]] = Append(log[at[t]], count)
      /\ \A r \in Sessions : r # at[t] => log'[r] = log[r]
  BY <1>1, <1>3
<1>5. log' \in [Sessions -> Seq(Nat)]
  BY <1>1, <1>3
<1>. QED  BY <1>1, <1>4, <1>5 DEF OnItsWay

LEMMA PushInv ==
  ASSUME IInv, NEW t \in Threads, Push(t)
  PROVE  IInv'
<1>. USE BroadcastPathAssumption
<1>0. PICK s \in Sessions : s = at[t]
  BY AtSession DEF Push, IInv
<1>1. /\ pc[t] = "push" /\ s = at[t]
      /\ waiting' = [waiting EXCEPT ![s] = TRUE]
      /\ registered' = [registered EXCEPT ![s] = TRUE]
      /\ UNCHANGED <<registryLock, sessions, sendLock, link, writing, buffer, todo, count,
                     joined, sends>>
  BY <1>0 DEF Push, loop
<1>2. PICK l \in {"next", "idle", "register"}, r \in Sessions \cup {NoSession} :
        /\ GoTo(t, l, r)
        /\ r = NoSession <=> l \in {"idle", "next"}
        /\ l = "next" => buffer[t] # 0
        /\ buffer[t] # 0 => l # "idle"
  <2>1. CASE Return(t)
    BY <2>1 DEF Return
  <2>2. CASE GoTo(t, "register", s)
    BY <1>1, <2>2, NoSessionIsNone
  <2>. QED  BY <1>1, <2>1, <2>2 DEF Push
<1>3. /\ pc'[t] = l /\ at'[t] = r
      /\ \A u \in Threads : u # t => pc'[u] = pc[u] /\ at'[u] = at[u]
      /\ pc' \in [Threads -> {"idle", "next", "push", "register", "drain", "settle",
                              "resend", "stuck", "add", "release"}]
      /\ at' \in [Threads -> Sessions \cup {NoSession}]
      /\ \A u \in Threads : (at'[u] = NoSession) = (pc'[u] \in {"idle", "next"})
      /\ \A u \in Threads : pc'[u] \in {"resend", "stuck"} => sendLock'[at'[u]] = u
      /\ \A q \in Sessions :
           sendLock'[q] # NoThread =>
             pc'[sendLock'[q]] \in {"resend", "stuck"} /\ at'[sendLock'[q]] = q
  BY <1>1, <1>2, Keeps
<1>4. /\ log' \in [Sessions -> Seq(Nat)]
      /\ buffer[t] = 0 => log' = log
      /\ \A q \in Sessions : q # s => log'[q] = log[q]
  <2>1. buffer[t] = 0 => log' = log
    BY DEF Push
  <2>2. log \in [Sessions -> Seq(Nat)]
    BY DEF IInv, TypeOK
  <2>. QED  BY <1>1, <2>1, <2>2, Pushed
<1>5. TypeOK'
  <2>1. waiting' \in [Sessions -> BOOLEAN] /\ registered' \in [Sessions -> BOOLEAN]
    BY <1>1, Typed
  <2>2. /\ registryLock \in Threads \cup {NoThread}
        /\ sessions \subseteq {q \in Sessions : link[q] # "new"}
        /\ sendLock \in [Sessions -> Threads \cup {NoThread}]
        /\ link \in [Sessions -> {"new", "connected", "closed"}]
        /\ writing \in [Sessions -> BOOLEAN]
        /\ buffer \in [Threads -> 0 .. count] /\ todo \in [Threads -> SUBSET Sessions]
        /\ count \in Nat /\ sends \in Nat /\ joined \in [Sessions -> Nat]
    BY DEF IInv, TypeOK
  <2>. QED  BY <1>1, <1>3, <1>4, <2>1, <2>2 DEF TypeOK
<1>6. LockInv'
  <2>1. ASSUME NEW u \in Threads
        PROVE  /\ (buffer'[u] # 0) = (registryLock' = u)
               /\ buffer'[u] # 0 => /\ buffer'[u] = count'
                                    /\ pc'[u] \in {"next", "push", "register", "drain"}
               /\ pc'[u] = "next" => buffer'[u] # 0
    BY <1>1, <1>2, <1>3 DEF IInv, LockInv
  <2>. QED  BY <1>3, <2>1 DEF LockInv
<1>7. ASSUME NEW q \in Sessions, link[q] = "new" \/ (\E u \in Threads : pc[u] = "add" /\ at[u] = q)
      PROVE  log[q] = << >> /\ log'[q] = << >>
  <2>1. log[q] = << >> /\ (q \notin sessions)
    BY <1>7 DEF IInv, LoopInv, TypeOK
  <2>2. CASE buffer[t] = 0
    BY <1>4, <2>1, <2>2
  <2>3. CASE buffer[t] # 0
    BY <1>1, <1>4, <2>1, <2>3, Pushed
  <2>. QED  BY <2>1, <2>2, <2>3
<1>8. LoopInv'
  <2>1. ASSUME NEW u \in Threads
        PROVE  /\ buffer'[u] = 0 => todo'[u] = {}
               /\ todo'[u] \subseteq sessions'
               /\ pc'[u] = "push" /\ buffer'[u] # 0 => at'[u] \in sessions' \ todo'[u]
    BY <1>1, <1>2, <1>3 DEF IInv, LoopInv
  <2>2. ASSUME NEW u \in Threads, pc'[u] = "add"
        PROVE  pc[u] = "add" /\ at'[u] = at[u] /\ at[u] \in Sessions
    BY <1>1, <1>2, <1>3, <2>2, AtSession DEF IInv
  <2>3. ASSUME NEW u \in Threads, pc'[u] = "add"
        PROVE  at'[u] \notin sessions' /\ log'[at'[u]] = << >> /\ link'[at'[u]] # "new"
    BY <1>1, <1>7, <2>2, <2>3 DEF IInv, LoopInv
  <2>4. \A u, v \in Threads :
          pc'[u] = "add" /\ pc'[v] = "add" /\ at'[u] = at'[v] => u = v
    BY <2>2 DEF IInv, LoopInv
  <2>5. \A q \in Sessions : link'[q] = "new" => log'[q] = << >>
    BY <1>1, <1>7
  <2>. QED  BY <2>1, <2>3, <2>4, <2>5 DEF LoopInv
<1>9. CASE buffer[t] = 0
  <2>1. ASSUME NEW q \in Sessions PROVE OnItsWay(q)' <=> OnItsWay(q)
    BY <1>1, <1>3, <1>9 DEF OnItsWay
  <2>2. sessions' = sessions /\ sessions \subseteq Sessions
    BY <1>1 DEF IInv, TypeOK
  <2>3. OrderInv' /\ JoinInv' /\ EveryoneHearsAll'
    BY <1>1, <1>4, <1>9, <2>1, <2>2, Quiet
  <2>. QED  BY <1>5, <1>6, <1>8, <2>3 DEF IInv
<1>10. CASE buffer[t] # 0
  <2>1. \A u \in Threads : buffer[u] # 0 => u = t
    BY <1>10, OneHolder
  <2>2. s \notin todo[t]
    BY <1>1, <1>10 DEF IInv, LoopInv
  <2>3. /\ OnItsWay(s) /\ ~OnItsWay(s)'
        /\ \A q \in Sessions : q # s => (OnItsWay(q)' <=> OnItsWay(q))
    <3>1. OnItsWay(s)
      BY <1>1, <1>10, Pushed
    <3>2. ~OnItsWay(s)'
      BY <1>1, <1>3, <2>1, <2>2 DEF OnItsWay
    <3>3. ASSUME NEW q \in Sessions, q # s
          PROVE  OnItsWay(q)' <=> OnItsWay(q)
      BY <1>1, <1>3, <2>1, <3>3 DEF OnItsWay
    <3>. QED  BY <3>1, <3>2, <3>3
  <2>4. count \in Nat /\ log[s] \in Seq(Nat) /\ log'[s] = Append(log[s], count)
    BY <1>1, <1>10, Pushed DEF IInv, TypeOK
  <2>5. OrderInv'
    <3>1. ASSUME NEW q \in Sessions, q # s
          PROVE  /\ \A i \in DOMAIN log'[q] : log'[q][i] <= count'
                 /\ OnItsWay(q)' => \A i \in DOMAIN log'[q] : log'[q][i] < count'
                 /\ \A i, j \in DOMAIN log'[q] : i < j => log'[q][i] < log'[q][j]
      BY <1>1, <1>4, <2>3, <3>1 DEF IInv, OrderInv
    <3>2. /\ \A i \in DOMAIN log[s] : log[s][i] < count
          /\ \A i, j \in DOMAIN log[s] : i < j => log[s][i] < log[s][j]
      BY <1>1, <2>3 DEF IInv, OrderInv
    <3>3. /\ \A i \in DOMAIN log'[s] : log'[s][i] <= count
          /\ \A i, j \in DOMAIN log'[s] : i < j => log'[s][i] < log'[s][j]
      BY <2>4, <3>2
    <3>. SUFFICES ASSUME NEW q \in Sessions
         PROVE  /\ \A i \in DOMAIN log'[q] : log'[q][i] <= count'
                /\ OnItsWay(q)' => \A i \in DOMAIN log'[q] : log'[q][i] < count'
                /\ \A i, j \in DOMAIN log'[q] : i < j => log'[q][i] < log'[q][j]
      BY DEF OrderInv
    <3>4. CASE q = s
      BY <1>1, <2>3, <3>3, <3>4
    <3>5. CASE q # s
      BY <3>1, <3>5
    <3>. QED  BY <3>4, <3>5
  <2>6. ASSUME NEW q \in sessions
        PROVE  /\ q \in Sessions /\ joined[q] \in Nat
               /\ joined[q] + (IF OnItsWay(q) THEN 1 ELSE 0) <= count
               /\ link[q] = "connected" =>
                    log[q] = [i \in 1 .. (count - joined[q]) -
                                          (IF OnItsWay(q) THEN 1 ELSE 0) |-> joined[q] + i]
    BY DEF IInv, TypeOK, JoinInv, EveryoneHearsAll
  <2>7. JoinInv'
    <3>. SUFFICES ASSUME NEW q \in sessions'
         PROVE  joined'[q] + (IF OnItsWay(q)' THEN 1 ELSE 0) <= count'
      BY DEF JoinInv
    <3>1. q \in sessions
      BY <1>1
    <3>2. /\ joined[q] + (IF OnItsWay(q) THEN 1 ELSE 0) <= count
          /\ q \in Sessions /\ joined[q] \in Nat
      BY <2>6, <3>1
    <3>3. CASE OnItsWay(q)'
      <4>1. OnItsWay(q)
        BY <2>3, <3>2, <3>3
      <4>. QED  BY <1>1, <3>2, <3>3, <4>1
    <3>4. CASE ~OnItsWay(q)'
      <4>1. joined[q] <= count
        <5>1. CASE OnItsWay(q)
          BY <2>4, <3>2, <5>1
        <5>2. CASE ~OnItsWay(q)
          BY <2>4, <3>2, <5>2
        <5>. QED  BY <5>1, <5>2
      <4>. QED  BY <1>1, <2>4, <3>2, <3>4, <4>1
    <3>. QED  BY <3>3, <3>4
  <2>8. EveryoneHearsAll'
    <3>. SUFFICES ASSUME NEW q \in sessions', link'[q] = "connected"
         PROVE  log'[q] = [i \in 1 .. (count' - joined'[q]) -
                                       (IF OnItsWay(q)' THEN 1 ELSE 0) |-> joined'[q] + i]
      BY DEF EveryoneHearsAll
    <3>1. q \in sessions /\ link[q] = "connected"
      BY <1>1
    <3>2. CASE q # s
      <4>1. OnItsWay(q)' <=> OnItsWay(q)
        BY <2>3, <2>6, <3>1, <3>2
      <4>2. log'[q] = log[q]
        BY <1>4, <2>6, <3>1, <3>2
      <4>3. CASE OnItsWay(q)
        BY <1>1, <2>6, <3>1, <4>1, <4>2, <4>3
      <4>4. CASE ~OnItsWay(q)
        BY <1>1, <2>6, <3>1, <4>1, <4>2, <4>4
      <4>. QED  BY <4>3, <4>4
    <3>3. CASE q = s
      <4>1. /\ joined[s] \in Nat /\ joined[s] + 1 <= count
            /\ log[s] = [i \in 1 .. (count - joined[s]) - 1 |-> joined[s] + i]
        BY <2>3, <2>6, <3>1, <3>3
      <4>2. Append(log[s], count) = [i \in 1 .. count - joined[s] |-> joined[s] + i]
        <5>1. Len(log[s]) = (count - joined[s]) - 1
          BY <2>4, <4>1
        <5>2. /\ DOMAIN Append(log[s], count) = 1 .. count - joined[s]
              /\ Append(log[s], count) \in Seq(Nat)
          BY <2>4, <4>1, <5>1
        <5>3. ASSUME NEW i \in 1 .. count - joined[s]
              PROVE  Append(log[s], count)[i] = joined[s] + i
          <6>1. CASE i = count - joined[s]
            BY <2>4, <4>1, <5>1, <6>1
          <6>2. CASE i # count - joined[s]
            <7>1. i \in 1 .. Len(log[s])
              BY <2>4, <4>1, <5>1, <6>2
            <7>2. Append(log[s], count)[i] = log[s][i]
              BY <2>4, <7>1
            <7>. QED  BY <4>1, <5>1, <7>1, <7>2
          <6>. QED  BY <6>1, <6>2
        <5>4. Append(log[s], count) = [i \in 1 .. Len(Append(log[s], count)) |->
                                         Append(log[s], count)[i]]
          BY <5>2
        <5>5. Len(Append(log[s], count)) = count - joined[s]
          BY <2>4, <4>1, <5>1
        <5>. QED  BY <5>3, <5>4, <5>5
      <4>3. (count' - joined'[s]) - (IF OnItsWay(s)' THEN 1 ELSE 0) = count - joined[s]
        BY <1>1, <2>3, <2>4, <4>1
      <4>4. joined'[s] = joined[s]
        BY <1>1
      <4>5. log'[s] = [i \in 1 .. count - joined[s] |-> joined[s] + i]
        BY <2>4, <4>2
      <4>. QED  BY <3>3, <4>3, <4>4, <4>5
    <3>. QED  BY <3>2, <3>3
  <2>. QED  BY <1>5, <1>6, <1>8, <2>5, <2>7, <2>8 DEF IInv
<1>. QED  BY <1>9, <1>10

LEMMA NextInv == IInv /\ [Next]_vars => IInv'
<1>. SUFFICES ASSUME IInv, [Next]_vars PROVE IInv'
  OBVIOUS
<1>1. CASE Next
  <2>. PICK t \in Threads : \/ Broadcast(t) \/ Send(t) \/ Connect(t) \/ Disconnect(t)
                            \/ WriteDone(t) \/ WriteFailed(t) \/ GoesOn(t)
    BY <1>1 DEF Next
  <2>1. CASE Broadcast(t)
    BY <2>1, BroadcastInv
  <2>2. CASE Send(t)
    BY <2>2, SendInv
  <2>3. CASE Connect(t)
    BY <2>3, ConnectInv
  <2>4. CASE Disconnect(t)
    BY <2>4, DisconnectInv
  <2>5. CASE WriteDone(t)
    BY <2>5, WriteDoneInv
  <2>6. CASE WriteFailed(t)
    BY <2>6, WriteFailedInv
  <2>7. CASE GoesOn(t)
    BY <2>7, NextSessionInv, BroadcastEndsInv, PushInv, RegisterSendInv, DrainInv,
       SettleInv, ResendInv, AddSessionInv, ReleaseSessionInv DEF GoesOn
  <2>. QED  BY <2>1, <2>2, <2>3, <2>4, <2>5, <2>6, <2>7
<1>2. CASE UNCHANGED vars
  <2>1. UNCHANGED <<registryLock, sessions, sendLock, link, waiting, registered, writing,
                    pc, at, buffer, todo, count, log, joined, sends>>
    BY <1>2 DEF vars
  <2>2. TypeOK' /\ LockInv' /\ LoopInv'
    BY <2>1 DEF IInv, TypeOK, LockInv, LoopInv
  <2>3. \A s \in Sessions : OnItsWay(s)' <=> OnItsWay(s)
    BY <2>1 DEF OnItsWay
  <2>4. sessions' = sessions /\ sessions \subseteq Sessions
    BY <2>1 DEF IInv, TypeOK
  <2>5. OrderInv' /\ JoinInv' /\ EveryoneHearsAll'
    BY <2>1, <2>3, <2>4, Quiet
  <2>. QED  BY <2>2, <2>5 DEF IInv
<1>. QED  BY <1>1, <1>2

LEMMA InvHolds == Spec => []IInv
BY InitInv, NextInv, PTL DEF Spec

-----------------------------------------------------------------------------

\* The variables keep their types.
THEOREM TypeCorrect == Spec => []TypeOK
<1>1. IInv => TypeOK
  BY DEF IInv
<1>. QED  BY <1>1, InvHolds, PTL

\* Service.cpp:36, Session.cpp:227: who is in a _sendLock waits for no other
\* thread.  Only RegisterSend of the completion runs under it, and the one lock
\* that wants is the lock itself.
THEOREM NoLockCycle == Spec => []OnlySelfDeadlock
<1>1. IInv => OnlySelfDeadlock
  <2>. SUFFICES ASSUME IInv, NEW t \in Threads, NEW u \in Threads, NEW s \in Sessions,
                       sendLock[s] = t, WaitsFor(t, u)
       PROVE  u = t
    BY DEF OnlySelfDeadlock
  <2>1. pc[t] \in {"resend", "stuck"} /\ sendLock[at[t]] = t
    BY BroadcastPathAssumption DEF IInv, LockInv
  <2>. QED  BY <2>1 DEF WaitsFor
<1>. QED  BY <1>1, InvHolds, PTL

\* Service.cpp:35: the registry's lock orders the broadcasts for all sessions.
THEOREM BroadcastsAreOrdered == Spec => []SameOrder
<1>1. IInv => SameOrder
  <2>. SUFFICES ASSUME IInv, NEW r \in Sessions, NEW s \in Sessions,
                       NEW i \in DOMAIN log[r], NEW j \in DOMAIN log[r],
                       NEW k \in DOMAIN log[s], NEW l \in DOMAIN log[s],
                       log[r][i] = log[s][k], log[r][j] = log[s][l], i < j
       PROVE  k < l
    BY DEF SameOrder
  <2>1. log[r] \in Seq(Nat) /\ log[s] \in Seq(Nat)
    BY DEF IInv, TypeOK
  <2>2. log[s][k] < log[s][l] /\ log[s][k] \in Nat /\ log[s][l] \in Nat
    BY <2>1 DEF IInv, OrderInv
  <2>3. l < k => log[s][l] < log[s][k]
    BY DEF IInv, OrderInv
  <2>4. k \in Nat /\ l \in Nat
    BY <2>1
  <2>5. k # l /\ ~(l < k)
    BY <2>2, <2>3
  <2>. QED  BY <2>4, <2>5
<1>. QED  BY <1>1, InvHolds, PTL

\* Service.cpp:35, Service.cpp:46: a connected session hears every broadcast that
\* began after it was registered, exactly once.
THEOREM NoBroadcastIsMissed == Spec => []EveryoneHearsAll
<1>1. IInv => EveryoneHearsAll
  BY DEF IInv
<1>. QED  BY <1>1, InvHolds, PTL

\* One step of another thread does not free the two.
LEMMA FrozenStep ==
  ASSUME IInv, NEW t \in Threads, NEW u \in Threads, registryLock = t, WaitsFor(t, u),
         pc[u] = "stuck", NEW v \in Threads,
         \/ Broadcast(v) \/ Send(v) \/ Connect(v) \/ Disconnect(v)
         \/ WriteDone(v) \/ WriteFailed(v) \/ GoesOn(v)
  PROVE  registryLock' = t /\ WaitsFor(t, u)' /\ pc'[u] = "stuck" /\ sessions' = sessions
<1>. USE BroadcastPathAssumption
<1>1. buffer[t] # 0 /\ pc[t] \in {"next", "push", "register", "drain"}
  BY DEF IInv, LockInv
<1>2. pc[t] \in {"push", "drain"} /\ sendLock[at[t]] = u /\ at[t] \in Sessions
  BY <1>1, AtSession DEF WaitsFor, IInv
<1>3. registryLock # NoThread /\ sendLock[at[t]] # NoThread
  BY <1>2
<1>4. v # u
  BY DEF Broadcast, Send, Connect, Disconnect, WriteDone, WriteFailed, GoesOn, NextSession,
         BroadcastEnds, Push, RegisterSend, Drain, Settle, Resend, AddSession,
         ReleaseSession
<1>5. v # t
  BY <1>2, <1>3
     DEF Broadcast, Send, Connect, Disconnect, WriteDone, WriteFailed, GoesOn, NextSession,
         BroadcastEnds, Push, RegisterSend, Drain, Settle, Resend, AddSession,
         ReleaseSession
<1>6. buffer[v] = 0 /\ pc[v] # "next"
  BY <1>5 DEF IInv, LockInv
<1>7. registryLock' = t /\ sessions' = sessions
  BY <1>3, <1>6
     DEF Broadcast, Send, Connect, Disconnect, WriteDone, WriteFailed, GoesOn, NextSession,
         BroadcastEnds, Push, RegisterSend, Drain, Settle, Resend, AddSession,
         ReleaseSession
<1>8. sendLock'[at[t]] = u
  <2>1. CASE Settle(v)
    <3>1. at[v] # at[t]
      BY <1>3, <2>1 DEF Settle
    <3>. QED  BY <1>2, <2>1, <3>1 DEF Settle, IInv, TypeOK
  <2>2. CASE Resend(v)
    <3>1. sendLock[at[v]] = v
      BY <2>2 DEF Resend, IInv, LockInv
    <3>2. at[v] # at[t]
      BY <1>2, <1>4, <3>1
    <3>. QED  BY <1>2, <2>2, <3>2 DEF Resend, IInv, TypeOK
  <2>3. CASE ~Settle(v) /\ ~Resend(v)
    <3>1. sendLock' = sendLock
      BY <2>3
         DEF Broadcast, Send, Connect, Disconnect, WriteDone, WriteFailed, GoesOn,
             NextSession, BroadcastEnds, Push, RegisterSend, Drain, AddSession,
             ReleaseSession
    <3>. QED  BY <1>2, <3>1
  <2>. QED  BY <2>1, <2>2, <2>3
<1>9. (\E l, s : GoTo(v, l, s)) \/ UNCHANGED <<pc, at>>
  BY <1>6 DEF Broadcast, Send, Connect, Disconnect, WriteDone, WriteFailed, GoesOn,
         NextSession, BroadcastEnds, Push, RegisterSend, Drain, Settle, Resend, AddSession,
         ReleaseSession, Return
<1>10. pc'[t] = pc[t] /\ at'[t] = at[t] /\ pc'[u] = pc[u]
  BY <1>4, <1>5, <1>9, Moved DEF IInv
<1>. QED  BY <1>2, <1>7, <1>8, <1>10 DEF WaitsFor

\* Service.cpp:36: a broadcast that waits for a thread locked out by itself keeps
\* the registry's lock for ever, and nothing is registered or released any more.
THEOREM FreezeIsForEver == Spec => FrozenForEver
<1>1. IInv /\ [Next]_vars => [Frozen => Frozen' /\ UNCHANGED sessions]_vars
  <2>. SUFFICES ASSUME IInv, Next, Frozen
       PROVE  Frozen' /\ UNCHANGED sessions
    OBVIOUS
  <2>1. PICK t, u \in Threads : registryLock = t /\ WaitsFor(t, u) /\ pc[u] = "stuck"
    BY DEF Frozen
  <2>2. PICK v \in Threads : \/ Broadcast(v) \/ Send(v) \/ Connect(v) \/ Disconnect(v)
                             \/ WriteDone(v) \/ WriteFailed(v) \/ GoesOn(v)
    BY DEF Next
  <2>3. /\ registryLock' = t /\ WaitsFor(t, u)' /\ pc'[u] = "stuck"
        /\ sessions' = sessions
    BY <2>1, <2>2, FrozenStep
  <2>. QED  BY <2>3 DEF Frozen
<1>. QED  BY <1>1, InvHolds, PTL DEF Spec, FrozenForEver

-----------------------------------------------------------------------------
(* The refinement of OrderedBroadcast                                      *)

\* Only what is disconnected is released.
ClosedInv ==
  \A t \in Threads : pc[t] = "release" => link[at[t]] = "closed"

\* One step of a thread moves that thread alone.
LEMMA OneMoves ==
  ASSUME IInv, NEW t \in Threads,
         \/ Broadcast(t) \/ Send(t) \/ Connect(t) \/ Disconnect(t)
         \/ WriteDone(t) \/ WriteFailed(t) \/ GoesOn(t)
  PROVE  \A u \in Threads : u # t => pc'[u] = pc[u] /\ at'[u] = at[u]
<1>1. (\E l, s : GoTo(t, l, s)) \/ UNCHANGED <<pc, at>>
  BY DEF Broadcast, Send, Connect, Disconnect, WriteDone, WriteFailed, GoesOn, NextSession,
         BroadcastEnds, Push, RegisterSend, Drain, Settle, Resend, AddSession,
         ReleaseSession, Return
<1>. QED  BY <1>1, Moved DEF IInv

LEMMA ClosedStep ==
  ASSUME IInv, ClosedInv, NEW t \in Threads,
         \/ Broadcast(t) \/ Send(t) \/ Connect(t) \/ Disconnect(t)
         \/ WriteDone(t) \/ WriteFailed(t) \/ GoesOn(t)
  PROVE  ClosedInv'
<1>1. ASSUME NEW r \in Sessions, link[r] = "closed"
      PROVE  link'[r] = "closed"
  <2>1. CASE link' = link
    BY <1>1, <2>1
  <2>2. CASE Connect(t) \/ Disconnect(t) \/ WriteFailed(t)
    BY <1>1, <2>2 DEF Connect, Disconnect, WriteFailed, IInv, TypeOK
  <2>. QED
    BY <2>1, <2>2
       DEF Broadcast, Send, WriteDone, GoesOn, NextSession, BroadcastEnds, Push,
           RegisterSend, Drain, Settle, Resend, AddSession, ReleaseSession, session
<1>2. ASSUME NEW u \in Threads, u # t, pc'[u] = "release"
      PROVE  link'[at'[u]] = "closed"
  <2>1. pc[u] = "release" /\ at'[u] = at[u]
    BY <1>2, OneMoves
  <2>2. at[u] \in Sessions /\ link[at[u]] = "closed"
    BY <2>1, AtSession DEF IInv, ClosedInv
  <2>. QED  BY <1>1, <2>1, <2>2
<1>3. ASSUME pc'[t] = "release"
      PROVE  link'[at'[t]] = "closed"
  <2>1. CASE Disconnect(t) \/ WriteFailed(t)
    <3>1. PICK s \in Sessions :
            link' = [link EXCEPT ![s] = "closed"] /\ GoTo(t, "release", s)
      BY <2>1 DEF Disconnect, WriteFailed
    <3>. QED  BY <3>1, Moved DEF IInv, TypeOK
  <2>2. CASE ~(Disconnect(t) \/ WriteFailed(t))
    <3>1. \/ \E l, s : l # "release" /\ GoTo(t, l, s)
          \/ UNCHANGED <<pc, at>> /\ pc[t] # "release"
      BY <2>2 DEF Broadcast, Send, Connect, WriteDone, GoesOn, NextSession,
           BroadcastEnds, Push, RegisterSend, Drain, Settle, Resend, AddSession,
           ReleaseSession, Return
    <3>. QED  BY <1>3, <3>1, Moved DEF IInv
  <2>. QED  BY <2>1, <2>2
<1>. QED  BY <1>2, <1>3 DEF ClosedInv

LEMMA ClosedHolds == Spec => []ClosedInv
<1>1. Init => ClosedInv
  BY DEF Init, ClosedInv
<1>2. IInv /\ ClosedInv /\ [Next]_vars => ClosedInv'
  <2>1. ASSUME IInv, ClosedInv, Next PROVE ClosedInv'
    BY <2>1, ClosedStep DEF Next
  <2>. QED  BY <2>1 DEF vars, ClosedInv
<1>. QED  BY <1>1, <1>2, InvHolds, PTL DEF Spec

\* What OrderedBroadcast sees stays as it is.
LEMMA OrderedStutters ==
  ASSUME UNCHANGED <<sessions, link, count, log>>,
         \A r \in Sessions : OnItsWay(r)' <=> OnItsWay(r)
  PROVE  UNCHANGED Ordered!vars
BY DEF Ordered!vars

\* A thread that neither comes to a session with a broadcast nor leaves one.
LEMMA WayStays ==
  ASSUME NEW t \in Threads, UNCHANGED <<buffer, todo>>,
         \A u \in Threads : u # t => pc'[u] = pc[u] /\ at'[u] = at[u],
         buffer[t] # 0 => pc[t] # "push" /\ pc'[t] # "push"
  PROVE  \A r \in Sessions : OnItsWay(r)' <=> OnItsWay(r)
<1>. SUFFICES ASSUME NEW r \in Sessions PROVE OnItsWay(r)' <=> OnItsWay(r)
  OBVIOUS
<1>1. ASSUME NEW u \in Threads
      PROVE  (buffer[u] # 0 /\ (r \in todo[u] \/ (pc[u] = "push" /\ at[u] = r)))'
               <=> (buffer[u] # 0 /\ (r \in todo[u] \/ (pc[u] = "push" /\ at[u] = r)))
  OBVIOUS
<1>. QED  BY <1>1 DEF OnItsWay

\* The rest of a Send, and a completion, are not seen.
LEMMA Unseen ==
  ASSUME IInv, NEW t \in Threads,
         \/ Send(t) \/ WriteDone(t)
         \/ RegisterSend(t) \/ Drain(t) \/ Settle(t) \/ Resend(t)
  PROVE  UNCHANGED Ordered!vars
<1>1. UNCHANGED <<sessions, link, count, log, buffer, todo>>
  BY DEF Send, WriteDone, RegisterSend, Drain, Settle, Resend, session, loop, history
<1>2. pc[t] # "push" /\ (pc[t] = "idle" => buffer[t] = 0)
  BY NoBuffer DEF Send, WriteDone, RegisterSend, Drain, Settle, Resend
<1>3. pc'[t] = "push" => buffer[t] = 0
  <2>1. CASE Send(t)
    BY <1>2, <2>1 DEF Send
  <2>2. CASE ~Send(t)
    <3>1. (\E l, s : l # "push" /\ GoTo(t, l, s)) \/ UNCHANGED <<pc, at>>
      BY <2>2 DEF WriteDone, RegisterSend, Drain, Settle, Resend, Return
    <3>. QED  BY <1>2, <3>1, Moved DEF IInv
  <2>. QED  BY <2>1, <2>2
<1>4. \A u \in Threads : u # t => pc'[u] = pc[u] /\ at'[u] = at[u]
  BY OneMoves DEF GoesOn
<1>. QED  BY <1>1, <1>2, <1>3, <1>4, WayStays, OrderedStutters

\* Disconnect and a write that fails.
LEMMA GoingDown ==
  ASSUME IInv, NEW t \in Threads, Disconnect(t) \/ WriteFailed(t)
  PROVE  Ordered!Next
<1>1. PICK s \in Sessions :
        /\ link[s] = "connected" /\ link' = [link EXCEPT ![s] = "closed"]
        /\ GoTo(t, "release", s)
  BY DEF Disconnect, WriteFailed
<1>2. /\ pc[t] = "idle" /\ UNCHANGED <<sessions, count, log, buffer, todo>>
      /\ pc'[t] = "release"
      /\ \A u \in Threads : u # t => pc'[u] = pc[u] /\ at'[u] = at[u]
  BY <1>1, Moved DEF Disconnect, WriteFailed, loop, history, IInv
<1>3. \A r \in Sessions : OnItsWay(r)' <=> OnItsWay(r)
  BY <1>2, WayStays
<1>4. {r \in Sessions : link'[r] = "connected"}
        = {r \in Sessions : link[r] = "connected"} \ {s}
  BY <1>1 DEF IInv, TypeOK
<1>5. Ordered!Disconnect(s)
  BY <1>1, <1>2, <1>3, <1>4 DEF Ordered!Disconnect
<1>. QED  BY <1>5 DEF Ordered!Next

\* ProcessConnect: what connects is not registered yet.
LEMMA ComingUp ==
  ASSUME IInv, NEW t \in Threads, Connect(t)
  PROVE  Ordered!Next
<1>1. PICK s \in Sessions :
        /\ link[s] = "new" /\ link' = [link EXCEPT ![s] = "connected"]
        /\ GoTo(t, "add", s)
  BY DEF Connect
<1>2. /\ pc[t] = "idle" /\ UNCHANGED <<sessions, count, log, buffer, todo>>
      /\ pc'[t] = "add" /\ s \notin sessions
      /\ \A u \in Threads : u # t => pc'[u] = pc[u] /\ at'[u] = at[u]
  BY <1>1, Moved DEF Connect, loop, history, IInv, TypeOK
<1>3. \A r \in Sessions : OnItsWay(r)' <=> OnItsWay(r)
  BY <1>2, WayStays
<1>4. {r \in Sessions : link'[r] = "connected"}
        = {r \in Sessions : link[r] = "connected"} \cup {s}
  BY <1>1 DEF IInv, TypeOK
<1>5. Ordered!Connect(s)
  BY <1>1, <1>2, <1>3, <1>4 DEF Ordered!Connect
<1>. QED  BY <1>5 DEF Ordered!Next

\* AddSession and ReleaseSession have the registry's lock: no broadcast is on its way.
LEMMA ComingAndGoing ==
  ASSUME IInv, ClosedInv, NEW t \in Threads, AddSession(t) \/ ReleaseSession(t)
  PROVE  Ordered!Next
<1>1. PICK s \in Sessions : s = at[t]
  BY AtSession DEF AddSession, ReleaseSession, IInv
<1>2. /\ registryLock = NoThread /\ UNCHANGED <<link, count, log, buffer>>
  BY DEF AddSession, ReleaseSession, session, loop, history
<1>3. \A r \in Sessions : ~OnItsWay(r) /\ ~OnItsWay(r)'
  <2>1. /\ \A u \in Threads : buffer[u] = 0
        /\ \A r \in Sessions : ~OnItsWay(r)
    BY <1>2, NobodyHolds
  <2>. QED  BY <1>2, <2>1 DEF OnItsWay
<1>4. CASE AddSession(t)
  <2>1. Ordered!Join(s)
    BY <1>1, <1>2, <1>3, <1>4 DEF AddSession, Ordered!Join
  <2>. QED  BY <2>1 DEF Ordered!Next
<1>5. CASE ReleaseSession(t)
  <2>1. link[s] = "closed"
    BY <1>1, <1>5 DEF ReleaseSession, ClosedInv
  <2>2. Ordered!Leave(s)
    BY <1>1, <1>2, <1>3, <1>5, <2>1 DEF ReleaseSession, Ordered!Leave
  <2>. QED  BY <2>2 DEF Ordered!Next
<1>. QED  BY <1>4, <1>5

LEMMA Begins ==
  ASSUME IInv, NEW t \in Threads, Broadcast(t)
  PROVE  Ordered!Next
<1>1. /\ registryLock = NoThread /\ count' = count + 1
      /\ buffer' = [buffer EXCEPT ![t] = count + 1]
      /\ todo' = [todo EXCEPT ![t] = sessions]
      /\ GoTo(t, "next", NoSession)
      /\ UNCHANGED <<sessions, link, log>>
  BY DEF Broadcast, session
<1>2. /\ count \in Nat /\ sessions \subseteq Sessions
      /\ buffer \in [Threads -> 0 .. count] /\ todo \in [Threads -> SUBSET Sessions]
  BY DEF IInv, TypeOK
<1>3. /\ \A u \in Threads : buffer[u] = 0
      /\ \A r \in Sessions : ~OnItsWay(r)
  BY <1>1, NobodyHolds
<1>4. /\ buffer'[t] # 0 /\ todo'[t] = sessions /\ pc'[t] = "next"
      /\ \A u \in Threads : u # t => buffer'[u] = 0
  BY <1>1, <1>2, <1>3, Moved DEF IInv
<1>5. \A r \in Sessions : OnItsWay(r)' <=> r \in sessions
  BY <1>4 DEF OnItsWay
<1>6. Ordered!Broadcast
  BY <1>1, <1>2, <1>3, <1>5 DEF Ordered!Broadcast
<1>. QED  BY <1>6 DEF Ordered!Next

\* The loop: a session that is not connected is passed over, the others are
\* given the broadcast when Send has pushed it.
LEMMA Turns ==
  ASSUME IInv, NEW t \in Threads, NextSession(t)
  PROVE  Ordered!Next \/ UNCHANGED Ordered!vars
<1>1. PICK s \in todo[t] :
        /\ todo' = [todo EXCEPT ![t] = @ \ {s}]
        /\ IF link[s] = "connected" THEN GoTo(t, "push", s) ELSE UNCHANGED <<pc, at>>
  BY DEF NextSession
<1>2. /\ pc[t] = "next" /\ buffer[t] # 0 /\ s \in Sessions
      /\ UNCHANGED <<sessions, link, buffer, count, log>>
      /\ \A u \in Threads : buffer[u] # 0 => u = t
  BY OneHolder DEF NextSession, IInv, TypeOK, LockInv, session, history
<1>3. /\ todo'[t] = todo[t] \ {s}
      /\ \A u \in Threads : u # t => todo'[u] = todo[u]
  BY <1>1 DEF IInv, TypeOK
<1>4. \A r \in Sessions : OnItsWay(r) <=> r \in todo[t]
  BY <1>2 DEF OnItsWay
<1>5. CASE link[s] = "connected"
  <2>1. pc'[t] = "push" /\ at'[t] = s
    BY <1>1, <1>5, Moved DEF IInv
  <2>2. \A r \in Sessions : OnItsWay(r)' <=> OnItsWay(r)
    BY <1>1, <1>2, <1>3, <1>4, <2>1 DEF OnItsWay
  <2>. QED  BY <1>2, <2>2, OrderedStutters
<1>6. CASE link[s] # "connected"
  <2>1. \A r \in Sessions : OnItsWay(r)' <=> OnItsWay(r) /\ r # s
    BY <1>1, <1>2, <1>3, <1>4, <1>6 DEF OnItsWay
  <2>2. Ordered!PassOver(s)
    BY <1>1, <1>2, <1>4, <1>6, <2>1 DEF Ordered!PassOver
  <2>. QED  BY <1>2, <2>2 DEF Ordered!Next
<1>. QED  BY <1>5, <1>6

LEMMA Pushes ==
  ASSUME IInv, NEW t \in Threads, Push(t)
  PROVE  Ordered!Next \/ UNCHANGED Ordered!vars
<1>1. PICK s \in Sessions : s = at[t]
  BY AtSession DEF Push, IInv
<1>2. /\ pc[t] = "push" /\ UNCHANGED <<sessions, link, buffer, todo, count>>
      /\ \A u \in Threads : u # t => pc'[u] = pc[u] /\ at'[u] = at[u]
      /\ pc'[t] # "push"
  <2>1. \E l, r : l # "push" /\ GoTo(t, l, r)
    BY DEF Push, Return
  <2>. QED  BY <2>1, Moved DEF Push, loop, IInv
<1>3. CASE buffer[t] = 0
  <2>1. log' = log
    BY <1>3 DEF Push
  <2>. QED  BY <1>2, <1>3, <2>1, WayStays, OrderedStutters
<1>4. CASE buffer[t] # 0
  <2>1. /\ OnItsWay(s) /\ s \notin todo[t]
        /\ \A u \in Threads : buffer[u] # 0 => u = t
    BY <1>1, <1>2, <1>4, Pushed, OneHolder DEF IInv, LoopInv
  <2>2. \A r \in Sessions : OnItsWay(r)' <=> OnItsWay(r) /\ r # s
    BY <1>1, <1>2, <1>4, <2>1 DEF OnItsWay
  <2>3. log' = [log EXCEPT ![s] = Append(@, count)]
    BY <1>1, <1>2, <1>4 DEF Push, IInv, LockInv
  <2>4. Ordered!Give(s)
    BY <1>2, <2>1, <2>2, <2>3 DEF Ordered!Give
  <2>. QED  BY <2>4 DEF Ordered!Next
<1>. QED  BY <1>3, <1>4

LEMMA Ends ==
  ASSUME IInv, NEW t \in Threads, BroadcastEnds(t)
  PROVE  UNCHANGED Ordered!vars
<1>1. /\ pc[t] = "next" /\ todo[t] = {}
      /\ buffer' = [buffer EXCEPT ![t] = 0]
      /\ UNCHANGED <<sessions, link, count, log>>
  BY DEF BroadcastEnds, session, history
<1>2. buffer[t] # 0 /\ \A u \in Threads : u # t => buffer[u] = 0
  BY <1>1, OneHolder DEF IInv, LockInv
<1>3. \A u \in Threads : buffer'[u] = 0
  BY <1>1, <1>2 DEF IInv, TypeOK
<1>4. \A r \in Sessions : ~OnItsWay(r) /\ ~OnItsWay(r)'
  BY <1>1, <1>2, <1>3 DEF OnItsWay
<1>. QED  BY <1>1, <1>4, OrderedStutters

\* Service.cpp:35, Session.cpp:26: the loop over the registry, the sends and the
\* two locks implement broadcasts that go out one after the other, each to all
\* who are registered when it begins.
THEOREM BroadcastPathImplementsOrderedBroadcast == Spec => ImplementsOrderedBroadcast
<1>1. Init => Ordered!Init
  BY DEF Init, Ordered!Init, OnItsWay
<1>2. IInv /\ ClosedInv /\ [Next]_vars => [Ordered!Next]_(Ordered!vars)
  <2>. SUFFICES ASSUME IInv, ClosedInv, [Next]_vars
                PROVE  Ordered!Next \/ UNCHANGED Ordered!vars
    OBVIOUS
  <2>1. CASE Next
    <3>1. PICK t \in Threads : \/ Broadcast(t) \/ Send(t) \/ Connect(t) \/ Disconnect(t)
                               \/ WriteDone(t) \/ WriteFailed(t) \/ GoesOn(t)
      BY <2>1 DEF Next
    <3>. QED
      BY <3>1, Begins, Unseen, ComingUp, GoingDown, ComingAndGoing, Turns, Pushes, Ends
         DEF GoesOn
  <2>2. CASE UNCHANGED vars
    BY <2>2 DEF vars, Ordered!vars, OnItsWay
  <2>. QED  BY <2>1, <2>2
<1>. QED
  BY <1>1, <1>2, InvHolds, ClosedHolds, PTL
     DEF Spec, ImplementsOrderedBroadcast, Ordered!Spec

=============================================================================
