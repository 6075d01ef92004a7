------------------------ MODULE ServerServiceProofs ------------------------
(***************************************************************************)
(* Proofs about ServerService, for any number of sessions and any limit.   *)
(***************************************************************************)
EXTENDS ServerService, FiniteSetTheorems, SequenceTheorems, TLAPS

(***************************************************************************)
(* The chain.  A session the chain waits with is fresh, and the count was  *)
(* below the limit when the chain took it and has only gone down since.    *)
(***************************************************************************)

\* TypeOK without the bounds of the count, which need the accounting below.
TypeInv ==
  /\ acceptor \in {"none", "open", "closed"}
  /\ accept \in {"none", "start_accept", "pending", "accepted", "connect",
                 "add", "on_connected", "add_again", "stopped"}
  /\ current \in Sessions \cup {NoSession}
  /\ connected \in [Sessions -> BOOLEAN]
  /\ leaving \in [Sessions -> {"no", "on_disconnected", "release", "released"}]
  /\ sessions \subseteq Sessions
  /\ sessionCount \in Int
  /\ closing \in BOOLEAN
  /\ crashed \in BOOLEAN
  /\ calls \in [Sessions -> Seq({"OnConnected", "OnDisconnected"})]
  /\ overtaken \subseteq Sessions

Waiting == accept \in {"pending", "accepted", "connect"}

ChainInv ==
  /\ current = NoSession <=> accept \in {"none", "start_accept", "stopped"}
  /\ Waiting => /\ ~connected[current] /\ leaving[current] = "no"
                /\ sessionCount < MaxSessionCount
  /\ Adding => connected[current] \/ leaving[current] # "no"
  /\ \A s \in Sessions : connected[s] => leaving[s] = "no"
  /\ acceptor = "none" =>
       accept = "none" /\ \A s \in Sessions : ~connected[s]
  /\ closing => acceptor = "closed"

\* Every variable keeps its type, a session that waits to be connected is
\* fresh, and the limit is not reached while one waits.
LEMMA ChainInvariant == Spec => [](TypeInv /\ ChainInv)
<1>. USE ServerServiceAssumption
<1>1. Init => TypeInv /\ ChainInv
  <2>. SUFFICES ASSUME Init PROVE TypeInv /\ ChainInv
    OBVIOUS
  <2>1. << >> \in Seq({"OnConnected", "OnDisconnected"})
    BY EmptySeq
  <2>2. TypeInv
    <3>1. calls = [s \in Sessions |-> << >>]
      BY DEF Init
    <3>2. calls \in [Sessions -> Seq({"OnConnected", "OnDisconnected"})]
      BY <2>1, <3>1, Zenon
    <3>3. /\ connected \in [Sessions -> BOOLEAN]
          /\ leaving \in
               [Sessions -> {"no", "on_disconnected", "release", "released"}]
      BY DEF Init
    <3>4. /\ acceptor = "none" /\ accept = "none" /\ current = NoSession
          /\ sessions \subseteq Sessions /\ overtaken \subseteq Sessions
          /\ sessionCount \in Int
      BY DEF Init
    <3>5. closing \in BOOLEAN /\ crashed \in BOOLEAN
      BY Zenon DEF Init
    <3>. QED
      BY <3>2, <3>3, <3>4, <3>5, Zenon DEF TypeInv
  <2>3. ChainInv
    BY DEF Init, ChainInv, Waiting, Adding
  <2>. QED
    BY <2>2, <2>3
<1>2. TypeInv /\ ChainInv /\ [Next]_vars => TypeInv' /\ ChainInv'
  <2>. SUFFICES ASSUME TypeInv, ChainInv, [Next]_vars
                PROVE  TypeInv' /\ ChainInv'
    OBVIOUS
  <2>. USE DEF TypeInv, ChainInv, Waiting, Adding
  <2>1. CASE Start
    BY <2>1 DEF Start
  <2>2. CASE StartAccept
    BY <2>2 DEF StartAccept, Unused, Full
  <2>3. CASE AcceptDone
    BY <2>3 DEF AcceptDone
  <2>4. CASE CheckAgain
    BY <2>4 DEF CheckAgain
  <2>5. CASE ProcessConnect
    BY <2>5 DEF ProcessConnect
  <2>6. CASE AddInProcessConnect
    BY <2>6 DEF AddInProcessConnect, AddSession
  <2>7. CASE OnConnected
    <3>1. calls[current] \in Seq({"OnConnected", "OnDisconnected"})
      BY <2>7 DEF OnConnected
    <3>2. Append(calls[current], "OnConnected")
            \in Seq({"OnConnected", "OnDisconnected"})
      BY <3>1, AppendProperties
    <3>3. calls' \in [Sessions -> Seq({"OnConnected", "OnDisconnected"})]
      BY <2>7, <3>2, Zenon DEF OnConnected, Call
    <3>. QED
      BY <2>7, <3>3 DEF OnConnected
  <2>8. CASE AddInHandler
    BY <2>8 DEF AddInHandler, AddSession
  <2>9. ASSUME NEW s \in Sessions, Disconnect(s)
        PROVE  TypeInv' /\ ChainInv'
    BY <2>9 DEF Disconnect
  <2>10. ASSUME NEW s \in Sessions, OnDisconnected(s)
         PROVE  TypeInv' /\ ChainInv'
    <3>1. Append(calls[s], "OnDisconnected")
            \in Seq({"OnConnected", "OnDisconnected"})
      BY AppendProperties
    <3>2. calls' \in [Sessions -> Seq({"OnConnected", "OnDisconnected"})]
      BY <2>10, <3>1, Zenon DEF OnDisconnected, Call
    <3>. QED
      BY <2>10, <3>2 DEF OnDisconnected
  <2>11. ASSUME NEW s \in Sessions, ReleaseSession(s)
         PROVE  TypeInv' /\ ChainInv'
    BY <2>11 DEF ReleaseSession
  <2>12. CASE CloseAcceptor
    BY <2>12 DEF CloseAcceptor
  <2>13. CASE ClearSessions
    BY <2>13 DEF ClearSessions
  <2>14. CASE UNCHANGED vars
    BY <2>14 DEF vars
  <2>. QED
    BY <2>1, <2>2, <2>3, <2>4, <2>5, <2>6, <2>7, <2>8, <2>9, <2>10, <2>11,
       <2>12, <2>13, <2>14 DEF Next, AcceptStep
<1>. QED
  BY <1>1, <1>2, PTL DEF Spec

\* The second test of the limit, in the accept handler, never fails.
THEOREM RefusalIsNeverReached == Spec => []NeverRefuses
<1>1. TypeInv /\ ChainInv => NeverRefuses
  BY ServerServiceAssumption
     DEF TypeInv, ChainInv, Waiting, NeverRefuses, Full
<1>. QED
  BY <1>1, ChainInvariant, PTL


(***************************************************************************)
(* The count.  Every session adds two when it comes and takes one off when *)
(* it goes; what the accept handler has still to add is owed.  That no     *)
(* more than MaxSessionCount + 1 is ever counted or owed bounds everything *)
(* else.                                                                   *)
(***************************************************************************)

Owed == CASE accept = "add" -> 2
          [] accept \in {"on_connected", "add_again"} -> 1
          [] OTHER -> 0

Here == Connected \cup Leaving

AccountInv ==
  /\ sessionCount + Owed = 2 * Cardinality(Here) + Cardinality(Gone)
  /\ sessionCount + Owed <= MaxSessionCount + 1

LEMMA OwedType == Owed \in {0, 1, 2}
BY DEF Owed

LEMMA FiniteParts ==
  /\ IsFiniteSet(Here) /\ IsFiniteSet(Gone) /\ IsFiniteSet(Connected)
  /\ Cardinality(Here) \in Nat /\ Cardinality(Gone) \in Nat
  /\ Cardinality(Connected) \in Nat
  /\ Cardinality(Connected) <= Cardinality(Here)
<1>1. /\ Here \in SUBSET Sessions /\ Gone \in SUBSET Sessions
      /\ Connected \in SUBSET Here
  BY DEF Here, Connected, Leaving, Gone
<1>2. IsFiniteSet(Here) /\ IsFiniteSet(Gone)
  BY <1>1, FS_Subset, ServerServiceAssumption
<1>3. IsFiniteSet(Connected) /\ Cardinality(Connected) <= Cardinality(Here)
  BY <1>1, <1>2, FS_Subset
<1>. QED
  BY <1>2, <1>3, FS_CardinalityType

LEMMA AccountInvariant == Spec => []AccountInv
<1>. USE ServerServiceAssumption
<1>1. Init => AccountInv
  <2>. SUFFICES ASSUME Init PROVE AccountInv
    OBVIOUS
  <2>1. Here = {} /\ Gone = {}
    BY DEF Init, Here, Connected, Leaving, Gone
  <2>2. Owed = 0 /\ sessionCount = 0
    BY DEF Init, Owed
  <2>3. Cardinality(Here) = 0 /\ Cardinality(Gone) = 0
    BY <2>1, FS_EmptySet
  <2>. QED
    BY <2>2, <2>3 DEF AccountInv
<1>2. /\ TypeInv /\ ChainInv /\ TypeInv' /\ ChainInv'
      /\ AccountInv /\ [Next]_vars
      => AccountInv'
  <2>. SUFFICES ASSUME TypeInv, ChainInv, TypeInv', AccountInv, [Next]_vars
                PROVE  AccountInv'
    OBVIOUS
  <2>. USE DEF TypeInv, ChainInv, Waiting, Adding
  \* What the sets and the sum need to keep is all the accounting depends on.
  <2>0. ASSUME Here' = Here, Gone' = Gone,
               sessionCount' + Owed' = sessionCount + Owed
        PROVE  AccountInv'
    <3>1. Cardinality(Here)' = Cardinality(Here)
          /\ Cardinality(Gone)' = Cardinality(Gone)
      BY <2>0
    <3>. QED
      BY <2>0, <3>1 DEF AccountInv
  <2>1. CASE Start
    BY <2>0, <2>1 DEF Start, Here, Connected, Leaving, Gone, Owed
  <2>2. CASE StartAccept
    BY <2>0, <2>2 DEF StartAccept, Here, Connected, Leaving, Gone, Owed
  <2>3. CASE AcceptDone
    BY <2>0, <2>3 DEF AcceptDone, Here, Connected, Leaving, Gone, Owed
  <2>4. CASE CheckAgain
    BY <2>0, <2>4 DEF CheckAgain, Here, Connected, Leaving, Gone, Owed
  <2>5. CASE ProcessConnect
    <3>1. /\ current \in Sessions \ Here
          /\ Here' = Here \cup {current} /\ Gone' = Gone
      BY <2>5 DEF ProcessConnect, Here, Connected, Leaving, Gone
    <3>2. /\ Owed = 0 /\ Owed' = 2 /\ sessionCount' = sessionCount
          /\ sessionCount < MaxSessionCount
      BY <2>5 DEF ProcessConnect, Owed
    <3>3. Cardinality(Here)' = Cardinality(Here) + 1
          /\ Cardinality(Gone)' = Cardinality(Gone)
      BY <3>1, FiniteParts, FS_AddElement
    <3>. QED
      BY <3>2, <3>3, FiniteParts DEF AccountInv
  <2>6. CASE AddInProcessConnect
    BY <2>0, <2>6
       DEF AddInProcessConnect, AddSession, Here, Connected, Leaving, Gone, Owed
  <2>7. CASE OnConnected
    BY <2>0, <2>7 DEF OnConnected, Here, Connected, Leaving, Gone, Owed
  <2>8. CASE AddInHandler
    BY <2>0, <2>8
       DEF AddInHandler, AddSession, Here, Connected, Leaving, Gone, Owed
  <2>9. ASSUME NEW s \in Sessions, Disconnect(s)
        PROVE  AccountInv'
    <3>1. Here' = Here /\ Gone' = Gone
      BY <2>9 DEF Disconnect, Here, Connected, Leaving, Gone
    <3>. QED
      BY <2>0, <2>9, <3>1 DEF Disconnect, Owed
  <2>10. ASSUME NEW s \in Sessions, OnDisconnected(s)
         PROVE  AccountInv'
    <3>1. Here' = Here /\ Gone' = Gone
      BY <2>10 DEF OnDisconnected, Here, Connected, Leaving, Gone
    <3>. QED
      BY <2>0, <2>10, <3>1 DEF OnDisconnected, Owed
  <2>11. ASSUME NEW s \in Sessions, ReleaseSession(s)
         PROVE  AccountInv'
    <3>1. /\ s \in Here /\ s \notin Gone
          /\ Here' = Here \ {s} /\ Gone' = Gone \cup {s}
      BY <2>11 DEF ReleaseSession, Here, Connected, Leaving, Gone
    <3>2. Owed' = Owed /\ sessionCount' = sessionCount - 1
      BY <2>11 DEF ReleaseSession, Owed
    <3>3. Cardinality(Here)' = Cardinality(Here) - 1
      BY <3>1, FiniteParts, FS_RemoveElement
    <3>4. Cardinality(Gone)' = Cardinality(Gone) + 1
      BY <3>1, FiniteParts, FS_AddElement
    <3>. QED
      BY <3>2, <3>3, <3>4, FiniteParts, OwedType DEF AccountInv
  <2>12. CASE CloseAcceptor
    BY <2>0, <2>12 DEF CloseAcceptor, Here, Connected, Leaving, Gone, Owed
  <2>13. CASE ClearSessions
    BY <2>0, <2>13 DEF ClearSessions, Here, Connected, Leaving, Gone, Owed
  <2>14. CASE UNCHANGED vars
    BY <2>0, <2>14 DEF vars, Here, Connected, Leaving, Gone, Owed
  <2>. QED
    BY <2>1, <2>2, <2>3, <2>4, <2>5, <2>6, <2>7, <2>8, <2>9, <2>10, <2>11,
       <2>12, <2>13, <2>14 DEF Next, AcceptStep
<1>. QED
  BY <1>1, <1>2, ChainInvariant, PTL DEF Spec

\* Every variable keeps its type, and the count its bounds: it is -1 when a
\* session is released before the handler that accepted it has added it once.
THEOREM TypeCorrect == Spec => []TypeOK
<1>1. TypeInv /\ ChainInv /\ AccountInv => TypeOK
  <2>. SUFFICES ASSUME TypeInv, ChainInv, AccountInv PROVE TypeOK
    OBVIOUS
  <2>. USE ServerServiceAssumption DEF TypeInv
  <2>1. Owed # 0 => current \in Here \/ current \in Gone
    BY DEF Owed, ChainInv, Adding, Here, Connected, Leaving, Gone
  <2>2. Owed # 0 => Cardinality(Here) # 0 \/ Cardinality(Gone) # 0
    BY <2>1, FiniteParts, FS_EmptySet
  <2>3. sessionCount >= -1 /\ sessionCount <= MaxSessionCount + 1
    BY <2>2, FiniteParts, OwedType DEF AccountInv
  <2>. QED
    BY <2>3 DEF TypeOK
<1>. QED
  BY <1>1, ChainInvariant, AccountInvariant, PTL

\* With no accept half done the count stands for two per session that is here
\* and one per session that is gone.
THEOREM CountIsAccounted == Spec => []CountAccounts
<1>1. TypeInv /\ AccountInv => CountAccounts
  <2>. SUFFICES ASSUME TypeInv, AccountInv, ~Adding
                PROVE  sessionCount =
                         2 * Cardinality(Connected \cup Leaving)
                           + Cardinality(Gone)
    BY DEF CountAccounts
  <2>1. Owed = 0
    BY DEF Owed, Adding
  <2>. QED
    BY <2>1 DEF AccountInv, Here, TypeInv
<1>. QED
  BY <1>1, ChainInvariant, AccountInvariant, PTL

\* The server never has more than half of its sessions.
THEOREM HalfOfTheLimit == Spec => []HalfCapacity
<1>1. TypeInv /\ AccountInv => HalfCapacity
  BY FiniteParts, OwedType, ServerServiceAssumption
     DEF AccountInv, HalfCapacity, TypeInv
<1>. QED
  BY <1>1, ChainInvariant, AccountInvariant, PTL

\* The safety half of LeaksUntilItStops: once as many sessions have gone as the
\* limit allows, the chain never again waits for a client or admits one.
THEOREM LeakedServerAdmitsNobody ==
  Spec => [](Cardinality(Gone) >= MaxSessionCount => ~Waiting)
<1>1. TypeInv /\ ChainInv /\ AccountInv
      => (Cardinality(Gone) >= MaxSessionCount => ~Waiting)
  <2>. SUFFICES ASSUME TypeInv, ChainInv, AccountInv, Waiting
                PROVE  ~(Cardinality(Gone) >= MaxSessionCount)
    OBVIOUS
  <2>1. Owed = 0 /\ sessionCount < MaxSessionCount
    BY DEF Owed, ChainInv, Waiting
  <2>. QED
    BY <2>1, FiniteParts, ServerServiceAssumption DEF AccountInv, TypeInv
<1>. QED
  BY <1>1, ChainInvariant, AccountInvariant, PTL


(***************************************************************************)
(* The registry.                                                           *)
(***************************************************************************)

\* Until the service is closed every connected session is in the registry, but
\* for the one whose accept is not over.
THEOREM ConnectedStayRegistered == Spec => []ConnectedAreRegistered
<1>1. Init => ConnectedAreRegistered
  BY DEF Init, ConnectedAreRegistered
<1>2. TypeInv /\ ChainInv /\ ConnectedAreRegistered /\ [Next]_vars
      => ConnectedAreRegistered'
  <2>. SUFFICES ASSUME TypeInv, ChainInv, ConnectedAreRegistered, [Next]_vars
                PROVE  ConnectedAreRegistered'
    OBVIOUS
  <2>. USE ServerServiceAssumption
       DEF TypeInv, ChainInv, Waiting, Adding, ConnectedAreRegistered, Connected
  <2>1. CASE Start
    BY <2>1 DEF Start
  <2>2. CASE StartAccept
    BY <2>2 DEF StartAccept, Unused
  <2>3. CASE AcceptDone
    BY <2>3 DEF AcceptDone
  <2>4. CASE CheckAgain
    BY <2>4 DEF CheckAgain
  <2>5. CASE ProcessConnect
    BY <2>5 DEF ProcessConnect
  <2>6. CASE AddInProcessConnect
    BY <2>6 DEF AddInProcessConnect, AddSession
  <2>7. CASE OnConnected
    BY <2>7 DEF OnConnected
  <2>8. CASE AddInHandler
    BY <2>8 DEF AddInHandler, AddSession
  <2>9. ASSUME NEW s \in Sessions, Disconnect(s)
        PROVE  ConnectedAreRegistered'
    BY <2>9 DEF Disconnect
  <2>10. ASSUME NEW s \in Sessions, OnDisconnected(s)
         PROVE  ConnectedAreRegistered'
    BY <2>10 DEF OnDisconnected
  <2>11. ASSUME NEW s \in Sessions, ReleaseSession(s)
         PROVE  ConnectedAreRegistered'
    BY <2>11 DEF ReleaseSession
  <2>12. CASE CloseAcceptor
    BY <2>12 DEF CloseAcceptor
  <2>13. CASE ClearSessions
    BY <2>13 DEF ClearSessions
  <2>14. CASE UNCHANGED vars
    BY <2>14 DEF vars
  <2>. QED
    BY <2>1, <2>2, <2>3, <2>4, <2>5, <2>6, <2>7, <2>8, <2>9, <2>10, <2>11,
       <2>12, <2>13, <2>14 DEF Next, AcceptStep
<1>. QED
  BY <1>1, <1>2, ChainInvariant, PTL DEF Spec

\* A session that is gone before the chain has let go of it was overtaken.
ZombieInv ==
  /\ ZombiesWereOvertaken
  /\ Adding /\ current \in Gone => current \in overtaken

\* Only a session whose release overtook its accept stays behind.
THEOREM OnlyOvertakenStay == Spec => []ZombiesWereOvertaken
<1>1. Init => ZombieInv
  BY DEF Init, ZombieInv, ZombiesWereOvertaken, Gone, Adding
<1>2. TypeInv /\ ChainInv /\ ZombieInv /\ [Next]_vars => ZombieInv'
  <2>. SUFFICES ASSUME TypeInv, ChainInv, ZombieInv, [Next]_vars
                PROVE  ZombieInv'
    OBVIOUS
  <2>. USE ServerServiceAssumption
       DEF TypeInv, ChainInv, Waiting, Adding, ZombieInv, ZombiesWereOvertaken,
           Gone
  <2>1. CASE Start
    BY <2>1 DEF Start
  <2>2. CASE StartAccept
    BY <2>2 DEF StartAccept, Unused
  <2>3. CASE AcceptDone
    BY <2>3 DEF AcceptDone
  <2>4. CASE CheckAgain
    BY <2>4 DEF CheckAgain
  <2>5. CASE ProcessConnect
    BY <2>5 DEF ProcessConnect
  <2>6. CASE AddInProcessConnect
    BY <2>6 DEF AddInProcessConnect, AddSession
  <2>7. CASE OnConnected
    BY <2>7 DEF OnConnected
  <2>8. CASE AddInHandler
    BY <2>8 DEF AddInHandler, AddSession
  <2>9. ASSUME NEW s \in Sessions, Disconnect(s)
        PROVE  ZombieInv'
    BY <2>9 DEF Disconnect
  <2>10. ASSUME NEW s \in Sessions, OnDisconnected(s)
         PROVE  ZombieInv'
    BY <2>10 DEF OnDisconnected
  <2>11. ASSUME NEW s \in Sessions, ReleaseSession(s)
         PROVE  ZombieInv'
    BY <2>11 DEF ReleaseSession
  <2>12. CASE CloseAcceptor
    BY <2>12 DEF CloseAcceptor
  <2>13. CASE ClearSessions
    BY <2>13 DEF ClearSessions
  <2>14. CASE UNCHANGED vars
    BY <2>14 DEF vars
  <2>. QED
    BY <2>1, <2>2, <2>3, <2>4, <2>5, <2>6, <2>7, <2>8, <2>9, <2>10, <2>11,
       <2>12, <2>13, <2>14 DEF Next, AcceptStep
<1>3. ZombieInv => ZombiesWereOvertaken
  BY DEF ZombieInv
<1>. QED
  BY <1>1, <1>2, <1>3, ChainInvariant, PTL DEF Spec

(***************************************************************************)
(* The callbacks.  What a session was told follows from how far its accept *)
(* and its Disconnect have come.                                           *)
(***************************************************************************)

ToldConnected(s) ==
  /\ connected[s] \/ leaving[s] # "no"
  /\ ~(s = current /\ accept \in {"add", "on_connected"})

ToldDisconnected(s) == leaving[s] \in {"release", "released"}

InEitherOrder ==
  {<<"OnConnected", "OnDisconnected">>, <<"OnDisconnected", "OnConnected">>}

CallsOf(s) ==
  /\ ~ToldConnected(s) /\ ~ToldDisconnected(s) => calls[s] = << >>
  /\ ToldConnected(s) /\ ~ToldDisconnected(s) => calls[s] = <<"OnConnected">>
  /\ ~ToldConnected(s) /\ ToldDisconnected(s) =>
       calls[s] = <<"OnDisconnected">>
  /\ ToldConnected(s) /\ ToldDisconnected(s) => calls[s] \in InEitherOrder

CallsInv == \A s \in Sessions : CallsOf(s)

LEMMA AppendToShort ==
  ASSUME NEW S, NEW x \in S, NEW y \in S
  PROVE  Append(<< >>, y) = <<y>> /\ Append(<<x>>, y) = <<x, y>>
<1>1. /\ << >> \in Seq(S) /\ <<x>> \in Seq(S) /\ <<y>> \in Seq(S)
      /\ <<x, y>> \in Seq(S)
  OBVIOUS
<1>2. Append(<< >>, y) = <<y>>
  <2>1. /\ Append(<< >>, y) \in Seq(S) /\ Len(Append(<< >>, y)) = 1
        /\ Append(<< >>, y)[1] = y
    BY <1>1, AppendProperties
  <2>. QED
    BY <1>1, <2>1, SeqEqual
<1>3. Append(<<x>>, y) = <<x, y>>
  <2>1. /\ Append(<<x>>, y) \in Seq(S) /\ Len(Append(<<x>>, y)) = 2
        /\ Append(<<x>>, y)[1] = x /\ Append(<<x>>, y)[2] = y
    BY <1>1, AppendProperties
  <2>2. \A i \in 1 .. Len(Append(<<x>>, y)) : Append(<<x>>, y)[i] = <<x, y>>[i]
    <3>1. \A i \in 1 .. 2 : i = 1 \/ i = 2
      OBVIOUS
    <3>. QED
      BY <2>1, <3>1
  <2>3. Len(<<x, y>>) = 2
    OBVIOUS
  <2>. QED
    BY <1>1, <2>1, <2>2, <2>3, SeqEqual
<1>. QED
  BY <1>2, <1>3

LEMMA Told ==
  /\ Append(<< >>, "OnConnected") = <<"OnConnected">>
  /\ Append(<< >>, "OnDisconnected") = <<"OnDisconnected">>
  /\ Append(<<"OnConnected">>, "OnDisconnected") =
       <<"OnConnected", "OnDisconnected">>
  /\ Append(<<"OnDisconnected">>, "OnConnected") =
       <<"OnDisconnected", "OnConnected">>
<1>. DEFINE S == {"OnConnected", "OnDisconnected"}
<1>1. "OnConnected" \in S /\ "OnDisconnected" \in S
  OBVIOUS
<1>. HIDE DEF S
<1>. QED
  BY <1>1, AppendToShort

\* What was called is what the accept and the Disconnect have come to.
LEMMA CallsInvariant == Spec => []CallsInv
<1>1. Init => CallsInv
  BY DEF Init, CallsInv, CallsOf, ToldConnected, ToldDisconnected
<1>2. TypeInv /\ ChainInv /\ CallsInv /\ [Next]_vars => CallsInv'
  <2>. SUFFICES ASSUME TypeInv, ChainInv, CallsInv, [Next]_vars
                PROVE  CallsInv'
    OBVIOUS
  <2>. USE ServerServiceAssumption
       DEF TypeInv, ChainInv, Waiting, Adding, CallsInv, CallsOf,
           ToldConnected, ToldDisconnected
  <2>1. CASE Start
    BY <2>1 DEF Start
  <2>2. CASE StartAccept
    BY <2>2 DEF StartAccept, Unused
  <2>3. CASE AcceptDone
    BY <2>3 DEF AcceptDone
  <2>4. CASE CheckAgain
    BY <2>4 DEF CheckAgain
  <2>5. CASE ProcessConnect
    BY <2>5 DEF ProcessConnect
  <2>6. CASE AddInProcessConnect
    BY <2>6 DEF AddInProcessConnect, AddSession
  <2>7. CASE OnConnected
    <3>1. /\ current \in Sessions /\ accept = "on_connected"
          /\ accept' = "add_again"
          /\ current' = current /\ connected' = connected /\ leaving' = leaving
          /\ calls' = [calls EXCEPT ![current] =
                         Append(calls[current], "OnConnected")]
      BY <2>7 DEF OnConnected, Call
    <3>2. calls[current] =
            IF ToldDisconnected(current) THEN <<"OnDisconnected">> ELSE << >>
      BY <3>1
    <3>3. Append(calls[current], "OnConnected") =
            IF ToldDisconnected(current)
            THEN <<"OnDisconnected", "OnConnected">> ELSE <<"OnConnected">>
      BY <3>2, Told
    <3>4. \A s \in Sessions : s = current => CallsOf(s)'
      BY <3>1, <3>3 DEF InEitherOrder
    <3>5. \A s \in Sessions : s # current => CallsOf(s)'
      BY <3>1
    <3>. HIDE DEF CallsOf
    <3>. QED
      BY <3>4, <3>5
  <2>8. CASE AddInHandler
    BY <2>8 DEF AddInHandler, AddSession
  <2>9. ASSUME NEW s \in Sessions, Disconnect(s)
        PROVE  CallsInv'
    BY <2>9 DEF Disconnect
  <2>10. ASSUME NEW s \in Sessions, OnDisconnected(s)
         PROVE  CallsInv'
    <3>1. /\ leaving[s] = "on_disconnected" /\ ~connected[s]
          /\ leaving' = [leaving EXCEPT ![s] = "release"]
          /\ accept' = accept /\ current' = current /\ connected' = connected
          /\ calls' = [calls EXCEPT ![s] = Append(calls[s], "OnDisconnected")]
      BY <2>10 DEF OnDisconnected, Call
    <3>2. calls[s] = IF ToldConnected(s) THEN <<"OnConnected">> ELSE << >>
      BY <3>1
    <3>3. Append(calls[s], "OnDisconnected") =
            IF ToldConnected(s)
            THEN <<"OnConnected", "OnDisconnected">> ELSE <<"OnDisconnected">>
      BY <3>2, Told
    <3>4. \A u \in Sessions : u = s => CallsOf(u)'
      BY <3>1, <3>3 DEF InEitherOrder
    <3>5. \A u \in Sessions : u # s => CallsOf(u)'
      BY <3>1
    <3>. HIDE DEF CallsOf
    <3>. QED
      BY <3>4, <3>5
  <2>11. ASSUME NEW s \in Sessions, ReleaseSession(s)
         PROVE  CallsInv'
    BY <2>11 DEF ReleaseSession
  <2>12. CASE CloseAcceptor
    BY <2>12 DEF CloseAcceptor
  <2>13. CASE ClearSessions
    BY <2>13 DEF ClearSessions
  <2>14. CASE UNCHANGED vars
    BY <2>14 DEF vars
  <2>. QED
    BY <2>1, <2>2, <2>3, <2>4, <2>5, <2>6, <2>7, <2>8, <2>9, <2>10, <2>11,
       <2>12, <2>13, <2>14 DEF Next, AcceptStep
<1>. QED
  BY <1>1, <1>2, ChainInvariant, PTL DEF Spec

\* Each callback is made at most once, and OnDisconnected before the release.
THEOREM EachCallbackOnce == Spec => []CalledOnce
<1>1. CallsInv => CalledOnce
  BY DEF CallsInv, CallsOf, CalledOnce, ToldDisconnected, InEitherOrder, Gone
<1>. QED
  BY <1>1, CallsInvariant, PTL

(***************************************************************************)
(* The gate.                                                               *)
(***************************************************************************)

\* The chain shuts the gate when no place is free and admits a session when
\* one is; every departure gives one of two places back.
THEOREM ServerServiceImplementsAdmission == Spec => ImplementsAdmission
<1>. USE ServerServiceAssumption
<1>0. Gate!Taken = 2 * Cardinality(Here) + Cardinality(Gone)
  <2>1. \A S : Gate!Cardinality(S) = Cardinality(S)
    BY Zenon DEF Gate!Cardinality, Cardinality
  <2>. QED
    BY <2>1 DEF Gate!Taken, Here
<1>1. Init => Gate!Init
  BY DEF Init, Gate!Init, Connected, Leaving, Gone
<1>2. TypeInv /\ ChainInv /\ AccountInv /\ [Next]_vars
      => [Gate!Next]_(Gate!vars)
  <2>. SUFFICES ASSUME TypeInv, ChainInv, AccountInv, [Next]_vars
                PROVE  Gate!Next \/ UNCHANGED Gate!vars
    OBVIOUS
  <2>. USE DEF TypeInv, ChainInv, Waiting, Adding
  <2>0. ASSUME UNCHANGED <<connected, leaving>>,
               accept' = "stopped" <=> accept = "stopped"
        PROVE  UNCHANGED Gate!vars
    BY <2>0 DEF Gate!vars, Connected, Leaving, Gone
  <2>1. CASE StartAccept
    <3>1. CASE Full /\ accept' = "stopped"
      <4>1. Owed = 0 /\ sessionCount >= MaxSessionCount
        BY <2>1, <3>1 DEF StartAccept, Owed, Full
      <4>2. Gate!Taken >= MaxSessionCount
        BY <1>0, <4>1, FiniteParts DEF AccountInv
      <4>3. UNCHANGED <<connected, leaving>>
        BY <2>1 DEF StartAccept
      <4>4. Gate!Shut
        BY <3>1, <4>2, <4>3 DEF Gate!Shut, Connected, Leaving, Gone
      <4>. QED
        BY <4>4 DEF Gate!Next
    <3>. QED
      BY <2>0, <2>1, <3>1 DEF StartAccept
  <2>2. CASE ProcessConnect
    <3>1. /\ current \in Sessions \ (Here \cup Gone)
          /\ Here' = Here \cup {current} /\ Gone' = Gone
      BY <2>2 DEF ProcessConnect, Here, Connected, Leaving, Gone
    <3>2. /\ Owed = 0 /\ sessionCount < MaxSessionCount
          /\ accept # "stopped" /\ accept' # "stopped"
      BY <2>2 DEF ProcessConnect, Owed
    <3>3. Gate!Taken < MaxSessionCount
      BY <1>0, <3>2, FiniteParts DEF AccountInv
    <3>4. Gate!Admit(current)
      BY <3>1, <3>2, <3>3 DEF Gate!Admit, Here
    <3>. QED
      BY <3>1, <3>4 DEF Gate!Next
  <2>3. ASSUME NEW s \in Sessions, ReleaseSession(s)
        PROVE  Gate!Next
    <3>1. /\ s \in Here /\ Here' = Here \ {s} /\ Gone' = Gone \cup {s}
          /\ accept' = accept
      BY <2>3 DEF ReleaseSession, Here, Connected, Leaving, Gone
    <3>2. Gate!Leave(s)
      BY <3>1 DEF Gate!Leave, Here
    <3>. QED
      BY <3>2 DEF Gate!Next
  <2>4. ASSUME NEW s \in Sessions, Disconnect(s)
        PROVE  UNCHANGED Gate!vars
    BY <2>4 DEF Disconnect, Gate!vars, Connected, Leaving, Gone
  <2>5. ASSUME NEW s \in Sessions, OnDisconnected(s)
        PROVE  UNCHANGED Gate!vars
    BY <2>5 DEF OnDisconnected, Gate!vars, Connected, Leaving, Gone
  <2>6. CASE \/ Start \/ AcceptDone \/ CheckAgain \/ AddInProcessConnect
             \/ OnConnected \/ AddInHandler \/ CloseAcceptor \/ ClearSessions
             \/ UNCHANGED vars
    BY <2>0, <2>6 DEF Start, AcceptDone, CheckAgain, AddInProcessConnect,
       OnConnected, AddInHandler, CloseAcceptor, ClearSessions, vars
  <2>. QED
    BY <2>1, <2>2, <2>3, <2>4, <2>5, <2>6 DEF Next, AcceptStep
<1>. QED
  BY <1>1, <1>2, ChainInvariant, AccountInvariant, PTL
     DEF Spec, ImplementsAdmission, Gate!Spec

(***************************************************************************)
(* The life of a session.                                                  *)
(***************************************************************************)

\* What a session was told, with one callback more.
LEMMA CallsMadeAppend ==
  ASSUME NEW S, NEW q \in Seq(S), NEW x \in S
  PROVE  LET r == Append(q, x)
         IN  {r[i] : i \in DOMAIN r} = {q[i] : i \in DOMAIN q} \cup {x}
<1>. DEFINE r == Append(q, x)
<1>1. /\ DOMAIN r = 1 .. Len(q) + 1 /\ DOMAIN q = 1 .. Len(q)
      /\ Len(q) \in Nat /\ r[Len(q) + 1] = x
      /\ \A i \in 1 .. Len(q) : r[i] = q[i]
  BY AppendProperties, LenProperties
<1>. HIDE DEF r
<1>2. DOMAIN r = DOMAIN q \cup {Len(q) + 1}
  BY <1>1
<1>. QED
  BY <1>1, <1>2 DEF r

LEMMA CallsMadeGrow ==
  ASSUME TypeInv, NEW s \in Sessions, NEW x \in {"OnConnected", "OnDisconnected"},
         Call(s, x)
  PROVE  [u \in Sessions |-> CallsMade(u)]' =
           [[u \in Sessions |-> CallsMade(u)] EXCEPT ![s] = @ \cup {x}]
<1>1. calls[s] \in Seq({"OnConnected", "OnDisconnected"})
  BY DEF TypeInv
<1>2. /\ calls'[s] = Append(calls[s], x)
      /\ \A u \in Sessions : u # s => calls'[u] = calls[u]
  BY DEF Call, TypeInv
<1>3. CallsMade(s)' = CallsMade(s) \cup {x}
  BY <1>1, <1>2, CallsMadeAppend DEF CallsMade
<1>4. \A u \in Sessions : u # s => CallsMade(u)' = CallsMade(u)
  BY <1>2 DEF CallsMade
<1>. QED
  BY <1>3, <1>4

\* What CallsOf says of the set of callbacks.
LEMMA CallsMadeFacts ==
  ASSUME CallsInv, NEW s \in Sessions
  PROVE  /\ ~ToldConnected(s) => "OnConnected" \notin CallsMade(s)
         /\ "OnDisconnected" \in CallsMade(s) <=> ToldDisconnected(s)
<1>1. /\ DOMAIN << >> = {} /\ DOMAIN <<"OnConnected">> = {1}
      /\ DOMAIN <<"OnDisconnected">> = {1}
      /\ DOMAIN <<"OnConnected", "OnDisconnected">> = {1, 2}
      /\ DOMAIN <<"OnDisconnected", "OnConnected">> = {1, 2}
  OBVIOUS
<1>2. CallsOf(s)
  BY DEF CallsInv
<1>3. CASE ~ToldConnected(s) /\ ~ToldDisconnected(s)
  BY <1>1, <1>2, <1>3 DEF CallsOf, CallsMade
<1>4. CASE ToldConnected(s) /\ ~ToldDisconnected(s)
  BY <1>1, <1>2, <1>4 DEF CallsOf, CallsMade
<1>5. CASE ~ToldConnected(s) /\ ToldDisconnected(s)
  BY <1>1, <1>2, <1>5 DEF CallsOf, CallsMade
<1>6. CASE ToldConnected(s) /\ ToldDisconnected(s)
  BY <1>1, <1>2, <1>6 DEF CallsOf, CallsMade, InEitherOrder
<1>. QED
  BY <1>3, <1>4, <1>5, <1>6

\* A step that changes the connection of one session.
LEMMA Linking ==
  ASSUME NEW s \in Sessions, UNCHANGED calls,
         \A u \in Sessions :
           u # s => connected'[u] = connected[u] /\ leaving'[u] = leaving[u]
  PROVE  /\ [u \in Sessions |-> Link(u)]' =
              [[u \in Sessions |-> Link(u)] EXCEPT ![s] = Link(s)']
         /\ [u \in Sessions |-> CallsMade(u)]' = [u \in Sessions |-> CallsMade(u)]
<1>. DEFINE now == [u \in Sessions |-> Link(u)]
            then == [u \in Sessions |-> Link(u)']
<1>1. then = [now EXCEPT ![s] = Link(s)']
  BY DEF Link
<1>. QED
  BY <1>1 DEF CallsMade

\* A server's sessions live as SessionProtocol says, whatever is closed or
\* disconnected while the chain is at work on them.
THEOREM ServerServiceImplementsSessionProtocol == Spec => ImplementsSessionProtocol
<1>. USE ServerServiceAssumption
<1>1. Init => Protocol!Init
  BY DEF Init, Protocol!Init, Link, CallsMade
<1>2. TypeInv /\ ChainInv /\ CallsInv /\ [Next]_vars
      => [Protocol!Next]_(Protocol!vars)
  <2>. SUFFICES ASSUME TypeInv, ChainInv, CallsInv, [Next]_vars
                PROVE  Protocol!Next \/ UNCHANGED Protocol!vars
    OBVIOUS
  <2>. USE DEF TypeInv, ChainInv, Waiting, Adding
  <2>1. CASE UNCHANGED <<connected, leaving, calls, sessions>>
    BY <2>1 DEF Protocol!vars, Link, CallsMade
  <2>2. CASE ProcessConnect
    <3>1. PICK s \in Sessions : s = current
      BY <2>2 DEF ProcessConnect
    <3>2. /\ Link(s) = "new" /\ Link(s)' = "up"
          /\ UNCHANGED <<calls, sessions>>
          /\ \A u \in Sessions : u # s =>
               connected'[u] = connected[u] /\ leaving'[u] = leaving[u]
      BY <2>2, <3>1 DEF ProcessConnect, Link
    <3>3. Protocol!Connect(s)
      BY <3>2, Linking DEF Protocol!Connect
    <3>. QED
      BY <3>3 DEF Protocol!Next
  <2>3. CASE AddInProcessConnect \/ AddInHandler
    <3>1. /\ current \in Sessions /\ Link(current) # "new"
          /\ sessions' = sessions \cup {current}
          /\ UNCHANGED <<connected, leaving, calls>>
      BY <2>3 DEF AddInProcessConnect, AddInHandler, AddSession, Link
    <3>2. Protocol!AddSession(current)
      BY <3>1 DEF Protocol!AddSession, Link, CallsMade
    <3>. QED
      BY <3>1, <3>2 DEF Protocol!Next
  <2>4. CASE OnConnected
    <3>1. /\ current \in Sessions /\ Link(current) # "new"
          /\ ~ToldConnected(current) /\ Call(current, "OnConnected")
          /\ UNCHANGED <<connected, leaving, sessions>>
      BY <2>4 DEF OnConnected, Link, ToldConnected
    <3>2. [u \in Sessions |-> CallsMade(u)]' =
            [[u \in Sessions |-> CallsMade(u)]
               EXCEPT ![current] = @ \cup {"OnConnected"}]
      BY <3>1, CallsMadeGrow
    <3>3. [u \in Sessions |-> Link(u)]' = [u \in Sessions |-> Link(u)]
      BY <3>1 DEF Link
    <3>4. "OnConnected" \notin CallsMade(current)
      BY <3>1, CallsMadeFacts
    <3>5. Protocol!OnConnected(current)
      BY <3>1, <3>2, <3>3, <3>4 DEF Protocol!OnConnected, Protocol!Tell
    <3>. QED
      BY <3>1, <3>5 DEF Protocol!Next
  <2>5. ASSUME NEW s \in Sessions, Disconnect(s)
        PROVE  Protocol!Next
    <3>1. /\ Link(s) = "up" /\ Link(s)' = "down"
          /\ UNCHANGED <<calls, sessions>>
          /\ \A u \in Sessions : u # s =>
               connected'[u] = connected[u] /\ leaving'[u] = leaving[u]
      BY <2>5 DEF Disconnect, Link
    <3>2. Protocol!Disconnect(s)
      BY <3>1, Linking DEF Protocol!Disconnect
    <3>. QED
      BY <3>2 DEF Protocol!Next
  <2>6. ASSUME NEW s \in Sessions, OnDisconnected(s)
        PROVE  Protocol!Next
    <3>1. /\ leaving[s] = "on_disconnected"
          /\ leaving' = [leaving EXCEPT ![s] = "release"]
          /\ Call(s, "OnDisconnected") /\ UNCHANGED <<connected, sessions>>
      BY <2>6 DEF OnDisconnected
    <3>2. Link(s) = "down" /\ "OnDisconnected" \notin CallsMade(s)
      BY <3>1, CallsMadeFacts DEF Link, ToldDisconnected
    <3>3. [u \in Sessions |-> Link(u)]' = [u \in Sessions |-> Link(u)]
      BY <3>1 DEF Link
    <3>4. [u \in Sessions |-> CallsMade(u)]' =
            [[u \in Sessions |-> CallsMade(u)] EXCEPT ![s] = @ \cup {"OnDisconnected"}]
      BY <3>1, <3>2, CallsMadeGrow
    <3>5. Protocol!OnDisconnected(s)
      BY <3>1, <3>2, <3>3, <3>4 DEF Protocol!OnDisconnected, Protocol!Tell
    <3>. QED
      BY <3>5 DEF Protocol!Next
  <2>7. ASSUME NEW s \in Sessions, ReleaseSession(s)
        PROVE  Protocol!Next
    <3>1. /\ leaving[s] = "release"
          /\ leaving' = [leaving EXCEPT ![s] = "released"]
          /\ sessions' = sessions \ {s} /\ UNCHANGED <<connected, calls>>
      BY <2>7 DEF ReleaseSession
    <3>2. "OnDisconnected" \in CallsMade(s)
      BY <3>1, CallsMadeFacts DEF ToldDisconnected
    <3>3. Protocol!ReleaseSession(s)
      BY <3>1, <3>2 DEF Protocol!ReleaseSession, Link, CallsMade
    <3>. QED
      BY <3>3 DEF Protocol!Next
  <2>8. CASE ClearSessions
    BY <2>8 DEF ClearSessions, Protocol!Next, Protocol!Clear, Link, CallsMade
  <2>9. CASE \/ Start \/ StartAccept \/ AcceptDone \/ CheckAgain \/ CloseAcceptor
             \/ UNCHANGED vars
    BY <2>1, <2>9 DEF Start, StartAccept, AcceptDone, CheckAgain, CloseAcceptor,
       vars
  <2>. QED
    BY <2>2, <2>3, <2>4, <2>5, <2>6, <2>7, <2>8, <2>9 DEF Next, AcceptStep
<1>. QED
  BY <1>1, <1>2, ChainInvariant, CallsInvariant, PTL
     DEF Spec, ImplementsSessionProtocol, Protocol!Spec

=============================================================================
