----------------------- MODULE SessionLifetimeProofs -----------------------
(***************************************************************************)
(* Theorems about SessionLifetime, for any set of sessions and either kind *)
(* of service.                                                             *)
(***************************************************************************)
EXTENDS SessionLifetime, TLAPS

\* The handler of a write holds the session.
WriteInv(s) == write[s] # "none" => "write" \in owners[s]

\* On a server the chain holds the session up to the end of the accept handler,
\* and only a server has refused accepts and second registrations.
ChainInv(s) ==
  /\ connect[s] \in {"pending", "refused", "add", "on_connected", "register",
                     "add_again"} /\ Kind = "server" => "chain" \in owners[s]
  /\ connect[s] \in {"refused", "add_again"} => Kind = "server"

\* A session is connected once: from the end of its connect to the Disconnect
\* that finds it so.
OnceInv(s) ==
  /\ connect[s] \in {"none", "pending", "refused"} => ~connected[s] /\ ended[s] = "no"
  /\ connect[s] \in {"add", "on_connected", "register", "add_again"} =>
       connected[s] \/ ended[s] # "no"
  /\ connected[s] => ended[s] = "no"
  /\ "OnConnected" \in told[s] => connected[s] \/ ended[s] # "no"
  /\ "OnConnected" \in told[s] => connect[s] \in {"register", "add_again", "done"}

\* The read loop begins at the end of ProcessConnect, and ends with the
\* Disconnect of its own handler.
ReadInv(s) ==
  /\ read[s] # "none" => connect[s] \in {"add_again", "done"}
  /\ read[s] # "none" => connected[s] \/ ended[s] # "no"
  /\ ended[s] = "read" => read[s] = "none" /\ connect[s] \in {"add_again", "done"}

\* A connected session has an owner, and after AddSession it is the registry.
OwnedInv(s) ==
  fault = NoFault =>
    /\ connected[s] /\ service # "gone" => Alive(s)
    /\ /\ connected[s] /\ service = "open"
       /\ connect[s] \in {"on_connected", "register", "add_again", "done"}
       => "registry" \in owners[s]

SessionInv(s) == WriteInv(s) /\ ChainInv(s) /\ OnceInv(s) /\ ReadInv(s) /\ OwnedInv(s)

IInv == TypeOK /\ (\A s \in Sessions : SessionInv(s)) /\ FaultsHaveCauses

\* What is behind every step that lets go of references.
LEMMA LettingGo ==
  ASSUME TypeOK, fault = NoFault,
         NEW new \in [Sessions -> SUBSET (IF Kind = "server" THEN Owners \ {"start"}
                                         ELSE Owners \ {"chain"})],
         Become(new)
  PROVE  /\ owners' = new
         /\ \/ /\ fault' = NoFault
               /\ service' # "gone" =>
                    \A s \in Sessions : connected[s] /\ Alive(s) => new[s] # {}
            \/ \E s \in Sessions :
                 /\ fault' = [kind |-> "terminated", session |-> s]
                 /\ service' # "gone" /\ connected[s] /\ Alive(s) /\ new[s] = {}
  BY DEF Become, TypeOK

\* A step that goes wrong changes nothing else.
LEMMA FaultKeeps ==
  ASSUME IInv, fault = NoFault, NEW s \in Sessions \cup {NoSession},
         NEW kind \in {"accept", "connect", "read", "disconnect", "no_service"},
         Fault(kind, s),
         kind = "read" => PeerMayLeave', kind = "connect" => OnlyClientsDangle'
  PROVE  IInv'
<1>1. TypeOK'
  BY DEF IInv, TypeOK, Fault
<1>2. ASSUME NEW t \in Sessions PROVE SessionInv(t)'
  BY DEF IInv, SessionInv, WriteInv, ChainInv, OnceInv, ReadInv, OwnedInv, Fault,
         NoFault, Alive
<1>3. FaultsHaveCauses'
  BY DEF FaultsHaveCauses, PeerMayLeave, OnlyClientsDangle, TerminatedByClose, Fault
<1>. QED  BY <1>1, <1>2, <1>3 DEF IInv

LEMMA InitInv == Init => IInv
<1>. SUFFICES ASSUME Init PROVE IInv
  OBVIOUS
<1>1. TypeOK
  BY SessionLifetimeAssumption DEF Init, TypeOK, NoFault
<1>2. ASSUME NEW s \in Sessions PROVE SessionInv(s)
  BY DEF Init, SessionInv, WriteInv, ChainInv, OnceInv, ReadInv, OwnedInv, Alive
<1>3. FaultsHaveCauses
  BY DEF Init, NoFault, FaultsHaveCauses, PeerMayLeave, OnlyClientsDangle, TerminatedByClose
<1>. QED  BY <1>1, <1>2, <1>3 DEF IInv

LEMMA ClientStartInv ==
  ASSUME IInv, fault = NoFault, NEW s \in Sessions, ClientStart(s)
  PROVE  IInv'
<1>. USE SessionLifetimeAssumption DEF ClientStart, CreateSession, Hold
<1>1. TypeOK'
  BY DEF IInv, TypeOK, Owners, NoFault
<1>2. ASSUME NEW t \in Sessions PROVE SessionInv(t)'
  BY DEF IInv, TypeOK, SessionInv, WriteInv, ChainInv, OnceInv, ReadInv, OwnedInv, Alive, NoFault
<1>3. FaultsHaveCauses'
  BY DEF IInv, FaultsHaveCauses, PeerMayLeave, OnlyClientsDangle, TerminatedByClose, NoFault
<1>. QED  BY <1>1, <1>2, <1>3 DEF IInv

LEMMA ConnectDoneInv ==
  ASSUME IInv, fault = NoFault, NEW s \in Sessions, ConnectDone(s)
  PROVE  IInv'
<1>. USE SessionLifetimeAssumption DEF ConnectDone
<1>1. TypeOK'
  BY DEF IInv, TypeOK, Owners, NoFault
<1>2. ASSUME NEW t \in Sessions PROVE SessionInv(t)'
  BY DEF IInv, TypeOK, SessionInv, WriteInv, ChainInv, OnceInv, ReadInv, OwnedInv, Alive, NoFault
<1>3. FaultsHaveCauses'
  BY DEF IInv, FaultsHaveCauses, PeerMayLeave, OnlyClientsDangle, TerminatedByClose, NoFault
<1>. QED  BY <1>1, <1>2, <1>3 DEF IInv

LEMMA OnConnectedInv ==
  ASSUME IInv, fault = NoFault, NEW s \in Sessions, OnConnected(s)
  PROVE  IInv'
<1>. USE SessionLifetimeAssumption DEF OnConnected, Hold
<1>1. TypeOK'
  BY DEF IInv, TypeOK, Owners, NoFault
<1>2. ASSUME NEW t \in Sessions PROVE SessionInv(t)'
  BY DEF IInv, TypeOK, SessionInv, WriteInv, ChainInv, OnceInv, ReadInv, OwnedInv, Alive, NoFault
<1>3. FaultsHaveCauses'
  BY DEF IInv, FaultsHaveCauses, PeerMayLeave, OnlyClientsDangle, TerminatedByClose, NoFault
<1>. QED  BY <1>1, <1>2, <1>3 DEF IInv

LEMMA FirstReadInv ==
  ASSUME IInv, fault = NoFault, NEW s \in Sessions, FirstRead(s)
  PROVE  IInv'
<1>. USE SessionLifetimeAssumption DEF FirstRead, RegisterRecv
<1>1. TypeOK'
  BY DEF IInv, TypeOK, Owners, NoFault
<1>2. ASSUME NEW t \in Sessions PROVE SessionInv(t)'
  BY DEF IInv, TypeOK, SessionInv, WriteInv, ChainInv, OnceInv, ReadInv, OwnedInv, Alive, NoFault
<1>3. FaultsHaveCauses'
  BY DEF IInv, FaultsHaveCauses, PeerMayLeave, OnlyClientsDangle, TerminatedByClose, NoFault
<1>. QED  BY <1>1, <1>2, <1>3 DEF IInv

LEMMA ReadDoneInv ==
  ASSUME IInv, fault = NoFault, NEW s \in Sessions, ReadDone(s)
  PROVE  IInv'
<1>. USE SessionLifetimeAssumption DEF ReadDone
<1>1. TypeOK'
  BY DEF IInv, TypeOK, Owners, NoFault
<1>2. ASSUME NEW t \in Sessions PROVE SessionInv(t)'
  BY DEF IInv, TypeOK, SessionInv, WriteInv, ChainInv, OnceInv, ReadInv, OwnedInv, Alive, NoFault
<1>3. FaultsHaveCauses'
  BY DEF IInv, FaultsHaveCauses, PeerMayLeave, OnlyClientsDangle, TerminatedByClose, NoFault
<1>. QED  BY <1>1, <1>2, <1>3 DEF IInv

LEMMA ReadGoesOnInv ==
  ASSUME IInv, fault = NoFault, NEW s \in Sessions, ReadGoesOn(s)
  PROVE  IInv'
<1>. USE SessionLifetimeAssumption DEF ReadGoesOn, RegisterRecv
<1>1. TypeOK'
  BY DEF IInv, TypeOK, Owners, NoFault
<1>2. ASSUME NEW t \in Sessions PROVE SessionInv(t)'
  BY DEF IInv, TypeOK, SessionInv, WriteInv, ChainInv, OnceInv, ReadInv, OwnedInv, Alive, NoFault
<1>3. FaultsHaveCauses'
  BY DEF IInv, FaultsHaveCauses, PeerMayLeave, OnlyClientsDangle, TerminatedByClose, NoFault
<1>. QED  BY <1>1, <1>2, <1>3 DEF IInv

LEMMA ReadFailedInv ==
  ASSUME IInv, fault = NoFault, NEW s \in Sessions, ReadFailed(s)
  PROVE  IInv'
<1>. USE SessionLifetimeAssumption DEF ReadFailed, Disconnect
<1>1. TypeOK'
  BY DEF IInv, TypeOK, Owners, NoFault
<1>2. ASSUME NEW t \in Sessions PROVE SessionInv(t)'
  BY DEF IInv, TypeOK, SessionInv, WriteInv, ChainInv, OnceInv, ReadInv, OwnedInv, Alive, NoFault
<1>3. FaultsHaveCauses'
  BY DEF IInv, FaultsHaveCauses, PeerMayLeave, OnlyClientsDangle, TerminatedByClose, NoFault
<1>. QED  BY <1>1, <1>2, <1>3 DEF IInv

LEMMA DisconnectByApplicationInv ==
  ASSUME IInv, fault = NoFault, NEW s \in Sessions, DisconnectByApplication(s)
  PROVE  IInv'
<1>. USE SessionLifetimeAssumption DEF DisconnectByApplication, Disconnect, Hold
<1>1. TypeOK'
  BY DEF IInv, TypeOK, Owners, NoFault
<1>2. ASSUME NEW t \in Sessions PROVE SessionInv(t)'
  BY DEF IInv, TypeOK, SessionInv, WriteInv, ChainInv, OnceInv, ReadInv, OwnedInv, Alive, NoFault
<1>3. FaultsHaveCauses'
  BY DEF IInv, FaultsHaveCauses, PeerMayLeave, OnlyClientsDangle, TerminatedByClose, NoFault
<1>. QED  BY <1>1, <1>2, <1>3 DEF IInv

LEMMA DisconnectInOnRecvInv ==
  ASSUME IInv, fault = NoFault, NEW s \in Sessions, DisconnectInOnRecv(s)
  PROVE  IInv'
<1>. USE SessionLifetimeAssumption DEF DisconnectInOnRecv, Disconnect
<1>1. TypeOK'
  BY DEF IInv, TypeOK, Owners, NoFault
<1>2. ASSUME NEW t \in Sessions PROVE SessionInv(t)'
  BY DEF IInv, TypeOK, SessionInv, WriteInv, ChainInv, OnceInv, ReadInv, OwnedInv, Alive, NoFault
<1>3. FaultsHaveCauses'
  BY DEF IInv, FaultsHaveCauses, PeerMayLeave, OnlyClientsDangle, TerminatedByClose, NoFault
<1>. QED  BY <1>1, <1>2, <1>3 DEF IInv

LEMMA SendInv ==
  ASSUME IInv, fault = NoFault, NEW s \in Sessions, Send(s)
  PROVE  IInv'
<1>. USE SessionLifetimeAssumption DEF Send, Hold
<1>1. TypeOK'
  BY DEF IInv, TypeOK, Owners, NoFault
<1>2. ASSUME NEW t \in Sessions PROVE SessionInv(t)'
  BY DEF IInv, TypeOK, SessionInv, WriteInv, ChainInv, OnceInv, ReadInv, OwnedInv, Alive, NoFault
<1>3. FaultsHaveCauses'
  BY DEF IInv, FaultsHaveCauses, PeerMayLeave, OnlyClientsDangle, TerminatedByClose, NoFault
<1>. QED  BY <1>1, <1>2, <1>3 DEF IInv

LEMMA WriteFailedInv ==
  ASSUME IInv, fault = NoFault, NEW s \in Sessions, WriteFailed(s)
  PROVE  IInv'
<1>. USE SessionLifetimeAssumption DEF WriteFailed, Disconnect
<1>1. TypeOK'
  BY DEF IInv, TypeOK, Owners, NoFault
<1>2. ASSUME NEW t \in Sessions PROVE SessionInv(t)'
  BY DEF IInv, TypeOK, SessionInv, WriteInv, ChainInv, OnceInv, ReadInv, OwnedInv, Alive, NoFault
<1>3. FaultsHaveCauses'
  BY DEF IInv, FaultsHaveCauses, PeerMayLeave, OnlyClientsDangle, TerminatedByClose, NoFault
<1>. QED  BY <1>1, <1>2, <1>3 DEF IInv

LEMMA AddAgainInv ==
  ASSUME IInv, fault = NoFault, NEW s \in Sessions, AddAgain(s)
  PROVE  IInv'
<1>. USE SessionLifetimeAssumption
<1>1. CASE Fault("accept", s)
  BY <1>1, FaultKeeps
<1>2. CASE ~Fault("accept", s)
  <2>. USE <1>2 DEF AddAgain
  <2>1. TypeOK'
    BY DEF IInv, TypeOK, SessionInv, ChainInv, Owners, NoFault
  <2>2. ASSUME NEW t \in Sessions PROVE SessionInv(t)'
    <3>. SUFFICES /\ WriteInv(t)' /\ ChainInv(t)' /\ OwnedInv(t)'
                  /\ OnceInv(t)' /\ ReadInv(t)'
      BY DEF SessionInv
    <3>1. /\ SessionInv(s) /\ SessionInv(t) /\ connect[s] = "add_again"
          /\ connect' = [connect EXCEPT ![s] = "done"]
          /\ owners' = [owners EXCEPT ![s] = (@ \cup {"registry"}) \ {"chain"}]
          /\ UNCHANGED <<service, connected, read, write, ended, told, fault>>
      BY DEF IInv
    <3>2. /\ owners \in [Sessions -> SUBSET Owners]
          /\ DOMAIN connect = Sessions
      BY DEF IInv, TypeOK
    <3>3. WriteInv(t)'
      BY <3>1, <3>2 DEF SessionInv, WriteInv
    <3>4. ChainInv(t)'
      BY <3>1, <3>2 DEF SessionInv, ChainInv
    <3>5. OwnedInv(t)'
      BY <3>1, <3>2 DEF SessionInv, OwnedInv, Alive
    <3>6. OnceInv(t)'
      BY <3>1, <3>2 DEF SessionInv, OnceInv
    <3>7. ReadInv(t)'
      BY <3>1, <3>2 DEF SessionInv, ReadInv
    <3>. QED  BY <3>3, <3>4, <3>5, <3>6, <3>7
  <2>3. FaultsHaveCauses'
    BY DEF IInv, FaultsHaveCauses, PeerMayLeave, OnlyClientsDangle, TerminatedByClose, NoFault
  <2>. QED  BY <2>1, <2>2, <2>3 DEF IInv
<1>. QED  BY <1>1, <1>2

LEMMA AddSessionInv ==
  ASSUME IInv, fault = NoFault, NEW s \in Sessions, AddSession(s)
  PROVE  IInv'
<1>. USE SessionLifetimeAssumption
<1>1. CASE Fault("no_service", s)
  BY <1>1, FaultKeeps
<1>2. CASE ~Fault("no_service", s)
  <2>. USE <1>2 DEF AddSession, Hold
  <2>1. TypeOK'
    BY DEF IInv, TypeOK, Owners, NoFault
  <2>2. ASSUME NEW t \in Sessions PROVE SessionInv(t)'
    BY DEF IInv, TypeOK, SessionInv, WriteInv, ChainInv, OnceInv, ReadInv, OwnedInv, Alive, NoFault
  <2>3. FaultsHaveCauses'
    BY DEF IInv, FaultsHaveCauses, PeerMayLeave, OnlyClientsDangle, TerminatedByClose, NoFault
  <2>. QED  BY <2>1, <2>2, <2>3 DEF IInv
<1>. QED  BY <1>1, <1>2

LEMMA EndOfTurnInv ==
  ASSUME IInv, fault = NoFault, NEW s \in Sessions, EndOfTurn(s)
  PROVE  IInv'
<1>. USE SessionLifetimeAssumption DEF EndOfTurn, LetGo
<1>. DEFINE new == [owners EXCEPT ![s] = @ \ {"start"}]
<1>1. /\ Become(new)
      /\ new \in [Sessions -> SUBSET (IF Kind = "server" THEN Owners \ {"start"}
                                     ELSE Owners \ {"chain"})]
  BY DEF IInv, TypeOK
<1>2. /\ owners' = new
      /\ \/ /\ fault' = NoFault
            /\ service' # "gone" =>
                 \A r \in Sessions : connected[r] /\ Alive(r) => new[r] # {}
         \/ \E r \in Sessions :
              /\ fault' = [kind |-> "terminated", session |-> r]
              /\ service' # "gone" /\ connected[r] /\ Alive(r) /\ new[r] = {}
  BY <1>1, LettingGo DEF IInv
<1>. HIDE DEF LetGo
<1>3. TypeOK'
  BY <1>1, <1>2 DEF IInv, TypeOK, NoFault
<1>4. ASSUME NEW t \in Sessions PROVE SessionInv(t)'
  BY <1>2 DEF IInv, TypeOK, SessionInv, WriteInv, ChainInv, OnceInv, ReadInv, OwnedInv, Alive, NoFault
<1>5. FaultsHaveCauses'
  BY <1>2 DEF IInv, TypeOK, SessionInv, ChainInv, OnceInv, OwnedInv, FaultsHaveCauses, PeerMayLeave, OnlyClientsDangle, TerminatedByClose, NoFault
<1>. QED  BY <1>3, <1>4, <1>5 DEF IInv

LEMMA WriteDoneInv ==
  ASSUME IInv, fault = NoFault, NEW s \in Sessions, WriteDone(s)
  PROVE  IInv'
<1>. USE SessionLifetimeAssumption DEF WriteDone, LetGo
<1>. DEFINE new == [owners EXCEPT ![s] = @ \ {"write"}]
<1>1. /\ Become(new)
      /\ new \in [Sessions -> SUBSET (IF Kind = "server" THEN Owners \ {"start"}
                                     ELSE Owners \ {"chain"})]
  BY DEF IInv, TypeOK
<1>2. /\ owners' = new
      /\ \/ /\ fault' = NoFault
            /\ service' # "gone" =>
                 \A r \in Sessions : connected[r] /\ Alive(r) => new[r] # {}
         \/ \E r \in Sessions :
              /\ fault' = [kind |-> "terminated", session |-> r]
              /\ service' # "gone" /\ connected[r] /\ Alive(r) /\ new[r] = {}
  BY <1>1, LettingGo DEF IInv
<1>. HIDE DEF LetGo
<1>3. TypeOK'
  BY <1>1, <1>2 DEF IInv, TypeOK, NoFault
<1>4. ASSUME NEW t \in Sessions PROVE SessionInv(t)'
  BY <1>2 DEF IInv, TypeOK, SessionInv, WriteInv, ChainInv, OnceInv, ReadInv, OwnedInv, Alive, NoFault
<1>5. FaultsHaveCauses'
  BY <1>2 DEF IInv, TypeOK, SessionInv, ChainInv, OnceInv, OwnedInv, FaultsHaveCauses, PeerMayLeave, OnlyClientsDangle, TerminatedByClose, NoFault
<1>. QED  BY <1>3, <1>4, <1>5 DEF IInv

LEMMA ApplicationLetsGoInv ==
  ASSUME IInv, fault = NoFault, NEW s \in Sessions, ApplicationLetsGo(s)
  PROVE  IInv'
<1>. USE SessionLifetimeAssumption DEF ApplicationLetsGo, LetGo
<1>. DEFINE new == [owners EXCEPT ![s] = @ \ {"application"}]
<1>1. /\ Become(new)
      /\ new \in [Sessions -> SUBSET (IF Kind = "server" THEN Owners \ {"start"}
                                     ELSE Owners \ {"chain"})]
  BY DEF IInv, TypeOK
<1>2. /\ owners' = new
      /\ \/ /\ fault' = NoFault
            /\ service' # "gone" =>
                 \A r \in Sessions : connected[r] /\ Alive(r) => new[r] # {}
         \/ \E r \in Sessions :
              /\ fault' = [kind |-> "terminated", session |-> r]
              /\ service' # "gone" /\ connected[r] /\ Alive(r) /\ new[r] = {}
  BY <1>1, LettingGo DEF IInv
<1>. HIDE DEF LetGo
<1>3. TypeOK'
  BY <1>1, <1>2 DEF IInv, TypeOK, NoFault
<1>4. ASSUME NEW t \in Sessions PROVE SessionInv(t)'
  BY <1>2 DEF IInv, TypeOK, SessionInv, WriteInv, ChainInv, OnceInv, ReadInv, OwnedInv, Alive, NoFault
<1>5. FaultsHaveCauses'
  BY <1>2 DEF IInv, TypeOK, SessionInv, ChainInv, OnceInv, OwnedInv, FaultsHaveCauses, PeerMayLeave, OnlyClientsDangle, TerminatedByClose, NoFault
<1>. QED  BY <1>3, <1>4, <1>5 DEF IInv

LEMMA ReleaseSessionInv ==
  ASSUME IInv, fault = NoFault, NEW s \in Sessions, ReleaseSession(s)
  PROVE  IInv'
<1>. USE SessionLifetimeAssumption DEF ReleaseSession, Leaving, LetGo
<1>. DEFINE new == [owners EXCEPT ![s] = @ \ ({"caller", "registry"} \cup (IF ended[s] = "write" THEN {"write"} ELSE {}))]
<1>1. /\ Become(new)
      /\ new \in [Sessions -> SUBSET (IF Kind = "server" THEN Owners \ {"start"}
                                     ELSE Owners \ {"chain"})]
  BY DEF IInv, TypeOK
<1>2. /\ owners' = new
      /\ \/ /\ fault' = NoFault
            /\ service' # "gone" =>
                 \A r \in Sessions : connected[r] /\ Alive(r) => new[r] # {}
         \/ \E r \in Sessions :
              /\ fault' = [kind |-> "terminated", session |-> r]
              /\ service' # "gone" /\ connected[r] /\ Alive(r) /\ new[r] = {}
  BY <1>1, LettingGo DEF IInv
<1>. HIDE DEF LetGo
<1>3. TypeOK'
  BY <1>1, <1>2 DEF IInv, TypeOK, NoFault
<1>4. ASSUME NEW t \in Sessions PROVE SessionInv(t)'
  BY <1>2 DEF IInv, TypeOK, SessionInv, WriteInv, ChainInv, OnceInv, ReadInv, OwnedInv, Alive, NoFault
<1>5. FaultsHaveCauses'
  BY <1>2 DEF IInv, TypeOK, SessionInv, ChainInv, OnceInv, OwnedInv, FaultsHaveCauses, PeerMayLeave, OnlyClientsDangle, TerminatedByClose, NoFault
<1>. QED  BY <1>3, <1>4, <1>5 DEF IInv

LEMMA StartAcceptInv == ASSUME IInv, fault = NoFault, StartAccept PROVE IInv'
<1>. USE SessionLifetimeAssumption
<1>1. CASE Fault("accept", NoSession)
  BY <1>1, FaultKeeps
<1>2. CASE /\ chain' = "off"
           /\ UNCHANGED <<service, owners, connected, connect, read, write, ended,
                          told, fault>>
  <2>1. TypeOK'
    BY <1>2 DEF IInv, TypeOK
  <2>2. ASSUME NEW t \in Sessions PROVE SessionInv(t)'
    BY <1>2 DEF IInv, SessionInv, WriteInv, ChainInv, OnceInv, ReadInv, OwnedInv, Alive, NoFault
  <2>3. FaultsHaveCauses'
    BY <1>2 DEF IInv, FaultsHaveCauses, PeerMayLeave, OnlyClientsDangle, TerminatedByClose, NoFault
  <2>. QED  BY <2>1, <2>2, <2>3 DEF IInv
<1>3. ASSUME chain = "starting", chain' = "accepting",
             NEW s \in Sessions, CreateSession(s, "chain"),
             UNCHANGED <<service, connected, read, write, ended, told, fault>>
      PROVE  IInv'
  <2>1. Kind = "server"
    BY <1>3 DEF IInv, TypeOK
  <2>. USE <1>3, <2>1 DEF CreateSession, Hold
  <2>2. TypeOK'
    BY DEF IInv, TypeOK, Owners
  <2>3. ASSUME NEW t \in Sessions PROVE SessionInv(t)'
    BY DEF IInv, TypeOK, SessionInv, WriteInv, ChainInv, OnceInv, ReadInv, OwnedInv, Alive, NoFault
  <2>4. FaultsHaveCauses'
    BY DEF IInv, FaultsHaveCauses, PeerMayLeave, OnlyClientsDangle, TerminatedByClose, NoFault
  <2>. QED  BY <2>2, <2>3, <2>4 DEF IInv
<1>. QED  BY <1>1, <1>2, <1>3 DEF StartAccept

LEMMA AcceptDoneInv ==
  ASSUME IInv, fault = NoFault, NEW s \in Sessions, AcceptDone(s)
  PROVE  IInv'
<1>. USE SessionLifetimeAssumption
<1>1. CASE Fault("accept", s)
  BY <1>1, FaultKeeps
<1>2. CASE /\ connect[s] = "pending" /\ "chain" \in owners[s]
           /\ connected' = [connected EXCEPT ![s] = TRUE]
           /\ connect' = [connect EXCEPT ![s] = "add"]
           /\ UNCHANGED <<service, chain, owners, read, write, ended, told, fault>>
  <2>. USE <1>2
  <2>2. TypeOK'
    BY DEF IInv, TypeOK, Owners, NoFault
  <2>3. ASSUME NEW t \in Sessions PROVE SessionInv(t)'
    BY DEF IInv, TypeOK, SessionInv, WriteInv, ChainInv, OnceInv, ReadInv, OwnedInv, Alive, NoFault
  <2>4. FaultsHaveCauses'
    BY DEF IInv, FaultsHaveCauses, PeerMayLeave, OnlyClientsDangle, TerminatedByClose, NoFault
  <2>. QED  BY <2>2, <2>3, <2>4 DEF IInv
<1>3. CASE /\ connect[s] \in {"pending", "refused"} /\ "chain" \in owners[s]
           /\ chain' = "starting"
           /\ connect' = [connect EXCEPT ![s] = "done"]
           /\ UNCHANGED <<service, connected, read, write, ended, told>>
           /\ LetGo(s, {"chain"})
  <2>. DEFINE new == [owners EXCEPT ![s] = @ \ {"chain"}]
  <2>2. /\ Become(new)
        /\ new \in [Sessions -> SUBSET (IF Kind = "server" THEN Owners \ {"start"}
                                       ELSE Owners \ {"chain"})]
    BY <1>3 DEF LetGo, IInv, TypeOK
  <2>3. /\ owners' = new
        /\ \/ /\ fault' = NoFault
              /\ service' # "gone" =>
                   \A r \in Sessions : connected[r] /\ Alive(r) => new[r] # {}
           \/ \E r \in Sessions :
                /\ fault' = [kind |-> "terminated", session |-> r]
                /\ service' # "gone" /\ connected[r] /\ Alive(r) /\ new[r] = {}
    BY <2>2, LettingGo DEF IInv
  <2>4. TypeOK'
    BY <1>3, <2>2, <2>3 DEF IInv, TypeOK, Owners, NoFault
  <2>5. ASSUME NEW t \in Sessions PROVE SessionInv(t)'
    BY <1>3, <2>3 DEF IInv, TypeOK, SessionInv, WriteInv, ChainInv, OnceInv, ReadInv, OwnedInv, Alive, NoFault
  <2>6. FaultsHaveCauses'
    BY <1>3, <2>3 DEF IInv, TypeOK, SessionInv, ChainInv, OnceInv, OwnedInv, Alive,
       FaultsHaveCauses, PeerMayLeave, OnlyClientsDangle, TerminatedByClose, NoFault
  <2>. QED  BY <2>4, <2>5, <2>6 DEF IInv
<1>. QED  BY <1>1, <1>2, <1>3 DEF AcceptDone

\* The three handlers that can meet a session that is gone.
LEMMA ConnectDanglesInv ==
  ASSUME IInv, fault = NoFault, NEW s \in Sessions, ConnectDangles(s)
  PROVE  IInv'
<1>1. OnlyClientsDangle'
  <2>1. Kind = "client" /\ connect[s] # "refused"
    BY SessionLifetimeAssumption
    DEF IInv, SessionInv, ChainInv, ConnectDangles, Alive
  <2>2. connect[s] = "pending" \/ ended[s] # "no" \/ service = "gone"
    BY <2>1 DEF IInv, SessionInv, OnceInv, OwnedInv, ConnectDangles
  <2>. QED  BY <2>1, <2>2 DEF OnlyClientsDangle, ConnectDangles, Fault
<1>. QED  BY <1>1, FaultKeeps DEF ConnectDangles

LEMMA ReadDanglesInv ==
  ASSUME IInv, fault = NoFault, NEW s \in Sessions, ReadDangles(s)
  PROVE  IInv'
<1>1. PeerMayLeave'
  <2>1. ended[s] \in {"application", "on_recv", "write"} \/ service = "gone"
    BY DEF IInv, TypeOK, SessionInv, ReadInv, OwnedInv, ReadDangles
  <2>. QED  BY <2>1 DEF PeerMayLeave, ReadDangles, Fault
<1>. QED  BY <1>1, FaultKeeps DEF ReadDangles

LEMMA DisconnectDanglesInv ==
  ASSUME IInv, fault = NoFault, NEW s \in Sessions, DisconnectDangles(s)
  PROVE  IInv'
BY FaultKeeps DEF DisconnectDangles

\* Clearing the registry, by CloseService or when the service goes: the one
\* fault it can cause here leaves the service closed.
LEMMA ClearingInv ==
  ASSUME IInv, fault = NoFault, ClearSessions, service' \in {"closed", "gone"},
         service # "gone",
         UNCHANGED <<chain, connected, connect, read, write, ended, told>>
  PROVE  IInv'
<1>. USE SessionLifetimeAssumption
<1>. DEFINE new == [s \in Sessions |-> owners[s] \ {"registry"}]
<1>1. CASE Become(new)
  <2>1. new \in [Sessions -> SUBSET (IF Kind = "server" THEN Owners \ {"start"}
                                    ELSE Owners \ {"chain"})]
    BY DEF IInv, TypeOK
  <2>2. /\ owners' = new
        /\ \/ /\ fault' = NoFault
              /\ service' # "gone" =>
                   \A r \in Sessions : connected[r] /\ Alive(r) => new[r] # {}
           \/ \E r \in Sessions :
                /\ fault' = [kind |-> "terminated", session |-> r]
                /\ service' # "gone" /\ connected[r] /\ Alive(r) /\ new[r] = {}
    BY <1>1, <2>1, LettingGo DEF IInv
  <2>3. TypeOK'
    BY <2>1, <2>2 DEF IInv, TypeOK, NoFault
  <2>4. ASSUME NEW t \in Sessions PROVE SessionInv(t)'
    <3>1. fault' = NoFault /\ service' # "gone" /\ connected[t] => new[t] # {}
      <4>1. connected[t] => Alive(t)
        BY DEF IInv, SessionInv, OwnedInv
      <4>2. \A r \in Sessions : [kind |-> "terminated", session |-> r] # NoFault
        BY DEF NoFault
      <4>. QED  BY <2>2, <4>1, <4>2
    <3>. QED  BY <2>2, <3>1 DEF IInv, TypeOK, SessionInv, WriteInv, ChainInv, OnceInv, ReadInv, OwnedInv, Alive, NoFault
  <2>5. FaultsHaveCauses'
    BY <2>2 DEF FaultsHaveCauses, PeerMayLeave, OnlyClientsDangle, TerminatedByClose, NoFault
  <2>. QED  BY <2>3, <2>4, <2>5 DEF IInv
<1>2. CASE /\ fault' = [kind |-> "iterator", session |-> NoSession]
           /\ UNCHANGED owners
  <2>1. TypeOK'
    BY <1>2 DEF IInv, TypeOK
  <2>2. ASSUME NEW t \in Sessions PROVE SessionInv(t)'
    BY <1>2 DEF IInv, TypeOK, SessionInv, WriteInv, ChainInv, OnceInv, ReadInv, OwnedInv, Alive, NoFault
  <2>3. FaultsHaveCauses'
    BY <1>2 DEF FaultsHaveCauses, PeerMayLeave, OnlyClientsDangle, TerminatedByClose, NoFault
  <2>. QED  BY <2>1, <2>2, <2>3 DEF IInv
<1>. QED  BY <1>1, <1>2 DEF ClearSessions

LEMMA NextInv == IInv /\ [Next]_vars => IInv'
<1>. SUFFICES ASSUME IInv, [Next]_vars PROVE IInv'
  OBVIOUS
<1>1. CASE UNCHANGED vars
  <2>1. TypeOK' /\ FaultsHaveCauses'
    BY <1>1 DEF IInv, vars, TypeOK, FaultsHaveCauses, PeerMayLeave, OnlyClientsDangle,
       TerminatedByClose
  <2>2. ASSUME NEW s \in Sessions PROVE SessionInv(s)'
    BY <1>1 DEF IInv, vars, SessionInv, WriteInv, ChainInv, OnceInv, ReadInv, OwnedInv, Alive, NoFault
  <2>. QED  BY <2>1, <2>2 DEF IInv
<1>2. CASE fault = NoFault /\ StartAccept
  BY <1>2, StartAcceptInv
<1>3. ASSUME fault = NoFault, NEW s \in Sessions,
             \/ ClientStart(s) \/ EndOfTurn(s)
             \/ ConnectHandler(s) \/ ReadHandler(s) \/ WriteHandler(s)
             \/ DisconnectByApplication(s) \/ DisconnectInOnRecv(s)
             \/ DisconnectGoesOn(s) \/ Send(s) \/ ApplicationLetsGo(s)
      PROVE  IInv'
  <2>1. CASE ConnectHandler(s)
    BY <1>3, <2>1, AcceptDoneInv, AddAgainInv, ConnectDoneInv, AddSessionInv,
       OnConnectedInv, FirstReadInv, ConnectDanglesInv DEF ConnectHandler
  <2>2. CASE ReadHandler(s)
    BY <1>3, <2>2, ReadDoneInv, ReadGoesOnInv, ReadFailedInv, ReadDanglesInv
    DEF ReadHandler
  <2>3. CASE WriteHandler(s)
    BY <1>3, <2>3, WriteDoneInv, WriteFailedInv DEF WriteHandler
  <2>4. CASE DisconnectGoesOn(s)
    BY <1>3, <2>4, ReleaseSessionInv, DisconnectDanglesInv DEF DisconnectGoesOn
  <2>. QED  BY <1>3, <2>1, <2>2, <2>3, <2>4, ClientStartInv, EndOfTurnInv,
               DisconnectByApplicationInv, DisconnectInOnRecvInv, SendInv,
               ApplicationLetsGoInv
<1>4. CASE fault = NoFault /\ (CloseService \/ ServiceGone)
  BY <1>4, ClearingInv DEF CloseService, ServiceGone
<1>. QED  BY <1>1, <1>2, <1>3, <1>4 DEF Next

LEMMA InvHolds == Spec => []IInv
BY InitInv, NextInv, PTL DEF Spec

-----------------------------------------------------------------------------

\* The type invariant.
THEOREM TypeCorrect == Spec => []TypeOK
<1>1. IInv => TypeOK
  BY DEF IInv
<1>. QED  BY InvHolds, <1>1, PTL

\* The handler of a write always has its session (Session.cpp:156).
THEOREM WriteHandlerIsSafe == Spec => []WriteHandlerHasItsSession
<1>1. IInv => WriteHandlerHasItsSession
  BY DEF IInv, SessionInv, WriteInv, WriteHandlerHasItsSession, Alive
<1>. QED  BY InvHolds, <1>1, PTL

\* A peer that leaves never makes a read handler meet a session that is gone.
THEOREM PeersMayLeave == Spec => []PeerMayLeave
<1>1. IInv => PeerMayLeave
  BY DEF IInv, FaultsHaveCauses
<1>. QED  BY InvHolds, <1>1, PTL

\* Only a client loses a session before its connect handler is through.
THEOREM OnlyOrphansDangle == Spec => []OnlyClientsDangle
<1>1. IInv => OnlyClientsDangle
  BY DEF IInv, FaultsHaveCauses
<1>. QED  BY InvHolds, <1>1, PTL

\* The destructor ends the process of a server only after CloseService.
THEOREM OnlyCloseTerminates == Spec => []TerminatedByClose
<1>1. IInv => TerminatedByClose
  BY DEF IInv, FaultsHaveCauses
<1>. QED  BY InvHolds, <1>1, PTL

\* Every fault has one of these causes.
THEOREM FaultsAreExplained == Spec => []FaultsHaveCauses
<1>1. IInv => FaultsHaveCauses
  BY DEF IInv
<1>. QED  BY InvHolds, <1>1, PTL

\* A session that was told of its connection is told of its end.
THEOREM EndsAreTold == Spec => []NoSilentEnd
<1>1. IInv => NoSilentEnd
  BY DEF IInv, SessionInv, OnceInv, OwnedInv, NoSilentEnd, Leaving
<1>. QED  BY InvHolds, <1>1, PTL

(***************************************************************************)
(* The life of a session, as SessionProtocol tells it.                     *)
(***************************************************************************)

SameRegistry ==
  \A s \in Sessions : "registry" \in owners'[s] <=> "registry" \in owners[s]

LEMMA OthersHold ==
  ASSUME TypeOK, NEW s \in Sessions, NEW who, "registry" \notin who,
         Hold(s, who) \/ LetGo(s, who) \/ UNCHANGED owners
  PROVE  SameRegistry
BY DEF TypeOK, Hold, LetGo, Become, SameRegistry

LEMMA Stutters ==
  ASSUME SameRegistry, UNCHANGED <<connected, ended, told>>
  PROVE  UNCHANGED Protocol!vars
BY DEF SameRegistry, Protocol!vars, Link

\* A step that changes the connection of one session.
LEMMA Linking ==
  ASSUME SameRegistry, NEW s \in Sessions, UNCHANGED told,
         \A u \in Sessions :
           u # s => connected'[u] = connected[u] /\ ended'[u] = ended[u]
  PROVE  /\ Link(s) = "new" /\ Link(s)' = "up" => Protocol!Connect(s)
         /\ Link(s) = "up" /\ Link(s)' = "down" => Protocol!Disconnect(s)
<1>. DEFINE now == [u \in Sessions |-> Link(u)]
            then == [u \in Sessions |-> Link(u)']
            listed == {u \in Sessions : "registry" \in owners[u]}
<1>1. then = [now EXCEPT ![s] = Link(s)']
  BY DEF Link
<1>2. listed' = listed
  BY DEF SameRegistry
<1>. QED
  BY <1>1, <1>2 DEF Protocol!Connect, Protocol!Disconnect

LEMMA Connecting ==
  ASSUME IInv, NEW s \in Sessions, SameRegistry, UNCHANGED <<ended, told>>,
         connect[s] \in {"pending", "refused"},
         connected' = [connected EXCEPT ![s] = TRUE]
  PROVE  Protocol!Connect(s)
<1>1. Link(s) = "new" /\ Link(s)' = "up"
  BY DEF IInv, TypeOK, SessionInv, OnceInv, Link
<1>. QED
  BY <1>1, Linking DEF IInv, TypeOK

LEMMA Disconnecting ==
  ASSUME IInv, NEW s \in Sessions, SameRegistry, UNCHANGED told,
         NEW by, by # "no", Disconnect(s, by)
  PROVE  Protocol!Disconnect(s)
<1>1. Link(s) = "up" /\ Link(s)' = "down"
  BY DEF IInv, TypeOK, Disconnect, Link
<1>. QED
  BY <1>1, Linking DEF IInv, TypeOK, Disconnect

\* Registering a session that was connected, which it may no longer be.
LEMMA Registering ==
  ASSUME IInv, NEW s \in Sessions, UNCHANGED <<connected, ended, told>>,
         connect[s] \in {"add", "add_again"},
         "registry" \in owners'[s],
         \A u \in Sessions : u # s => owners'[u] = owners[u]
  PROVE  Protocol!AddSession(s)
<1>1. Link(s) # "new"
  BY DEF IInv, SessionInv, OnceInv, Link
<1>. DEFINE listed == {u \in Sessions : "registry" \in owners[u]}
<1>2. listed' = listed \cup {s}
  OBVIOUS
<1>. QED
  BY <1>1, <1>2 DEF Protocol!AddSession, Link

\* OnConnected and OnDisconnected, the last with the release.
LEMMA Telling ==
  ASSUME IInv, NEW s \in Sessions
  PROVE  /\ OnConnected(s) => Protocol!OnConnected(s)
         /\ ReleaseSession(s) => Protocol!OnDisconnected(s)
<1>. DEFINE listed == {u \in Sessions : "registry" \in owners[u]}
<1>1. ASSUME UNCHANGED <<connected, ended>>
      PROVE  [u \in Sessions |-> Link(u)]' = [u \in Sessions |-> Link(u)]
  BY <1>1 DEF Link
<1>2. ASSUME OnConnected(s)
      PROVE  Protocol!OnConnected(s)
  <2>1. "OnConnected" \notin told[s] /\ Link(s) # "new"
    BY <1>2 DEF OnConnected, IInv, SessionInv, OnceInv, Link
  <2>2. listed' = listed
    BY <1>2, OthersHold DEF OnConnected, IInv, SameRegistry
  <2>. QED
    BY <1>1, <1>2, <2>1, <2>2
       DEF OnConnected, Protocol!OnConnected, Protocol!Tell
<1>3. ASSUME ReleaseSession(s)
      PROVE  Protocol!OnDisconnected(s)
  <2>1. "OnDisconnected" \notin told[s] /\ Link(s) = "down"
    BY <1>3 DEF ReleaseSession, Leaving, IInv, SessionInv, OnceInv, Link
  <2>2. listed' = listed \ {s}
    BY <1>3 DEF ReleaseSession, LetGo, Become, IInv, TypeOK
  <2>. QED
    BY <1>1, <1>3, <2>1, <2>2
       DEF ReleaseSession, Protocol!OnDisconnected, Protocol!Tell
<1>. QED
  BY <1>2, <1>3

LEMMA Clearing ==
  ASSUME ClearSessions, UNCHANGED <<connected, ended, told>>
  PROVE  Protocol!Next \/ UNCHANGED Protocol!vars
<1>1. CASE Become([s \in Sessions |-> owners[s] \ {"registry"}])
  <2>1. {s \in Sessions : "registry" \in owners[s]}' = {}
    BY <1>1 DEF Become
  <2>. QED
    BY <2>1 DEF Protocol!Next, Protocol!Clear, Link
<1>2. CASE UNCHANGED owners
  BY <1>2, Stutters DEF SameRegistry
<1>. QED
  BY <1>1, <1>2 DEF ClearSessions

\* Whoever holds the session, on a server and on a client, its connection, its
\* callbacks and its registration follow SessionProtocol up to the first fault.
THEOREM SessionLifetimeImplementsSessionProtocol ==
  Spec => ImplementsSessionProtocol
<1>1. Init => Protocol!Init
  BY DEF Init, Protocol!Init, Link
<1>2. IInv /\ [Next]_vars => [Protocol!Next]_(Protocol!vars)
  <2>. SUFFICES ASSUME IInv, [Next]_vars
                PROVE  Protocol!Next \/ UNCHANGED Protocol!vars
    OBVIOUS
  <2>0. TypeOK
    BY DEF IInv
  <2>1. CASE UNCHANGED <<owners, connected, ended, told>>
    BY <2>1, Stutters DEF SameRegistry
  <2>2. ASSUME NEW kind, NEW s, Fault(kind, s)
        PROVE  UNCHANGED Protocol!vars
    BY <2>1, <2>2, Stutters DEF Fault, SameRegistry
  <2>3. CASE StartAccept
    <3>1. ASSUME NEW s \in Sessions, CreateSession(s, "chain")
          PROVE  SameRegistry
      BY <2>0, <3>1, OthersHold DEF CreateSession
    <3>. QED
      BY <2>1, <2>2, <2>3, <3>1, Stutters DEF StartAccept
  <2>4. ASSUME NEW s \in Sessions,
               ClientStart(s) \/ EndOfTurn(s) \/ Send(s) \/ WriteDone(s)
                 \/ ApplicationLetsGo(s)
        PROVE  UNCHANGED Protocol!vars
    <3>1. SameRegistry
      BY <2>0, <2>4, OthersHold
         DEF ClientStart, CreateSession, EndOfTurn, Send, WriteDone,
             ApplicationLetsGo
    <3>2. UNCHANGED <<connected, ended, told>>
      BY <2>4 DEF ClientStart, EndOfTurn, Send, WriteDone, ApplicationLetsGo
    <3>. QED
      BY <3>1, <3>2, Stutters
  <2>5. ASSUME NEW s \in Sessions, FirstRead(s) \/ ReadDone(s) \/ ReadGoesOn(s)
        PROVE  UNCHANGED Protocol!vars
    BY <2>1, <2>5, Stutters DEF FirstRead, ReadDone, ReadGoesOn, SameRegistry
  <2>6. ASSUME NEW s \in Sessions, AcceptDone(s) \/ ConnectDone(s)
        PROVE  Protocol!Connect(s) \/ UNCHANGED Protocol!vars
    <3>1. CASE \E r \in Sessions : Fault("accept", r)
      BY <2>2, <3>1
    <3>2. CASE ~\E r \in Sessions : Fault("accept", r)
      <4>1. SameRegistry
        BY <2>0, <2>6, <3>2, OthersHold DEF AcceptDone, ConnectDone
      <4>2. /\ UNCHANGED <<ended, told>> /\ connect[s] \in {"pending", "refused"}
            /\ \/ connected' = [connected EXCEPT ![s] = TRUE]
               \/ UNCHANGED connected
        BY <2>6, <3>2 DEF AcceptDone, ConnectDone
      <4>. QED
        BY <4>1, <4>2, Connecting, Stutters
    <3>. QED
      BY <3>1, <3>2
  <2>7. ASSUME NEW s \in Sessions, AddSession(s) \/ AddAgain(s)
        PROVE  Protocol!AddSession(s) \/ UNCHANGED Protocol!vars
    <3>1. CASE Fault("no_service", s) \/ Fault("accept", s)
      BY <2>2, <3>1
    <3>2. CASE ~(Fault("no_service", s) \/ Fault("accept", s))
      <4>1. /\ UNCHANGED <<connected, ended, told>>
            /\ connect[s] \in {"add", "add_again"}
            /\ \/ owners' = [owners EXCEPT ![s] = @ \cup {"registry"}]
               \/ owners' = [owners EXCEPT ![s] = (@ \cup {"registry"}) \ {"chain"}]
        BY <2>7, <3>2 DEF AddSession, AddAgain, Hold
      <4>2. /\ "registry" \in owners'[s]
            /\ \A u \in Sessions : u # s => owners'[u] = owners[u]
        BY <2>0, <4>1 DEF TypeOK
      <4>. QED
        BY <4>1, <4>2, Registering
    <3>. QED
      BY <3>1, <3>2
  <2>8. ASSUME NEW s \in Sessions,
               ConnectDangles(s) \/ ReadDangles(s) \/ DisconnectDangles(s)
        PROVE  UNCHANGED Protocol!vars
    BY <2>2, <2>8 DEF ConnectDangles, ReadDangles, DisconnectDangles
  <2>9. ASSUME NEW s \in Sessions,
               \/ DisconnectByApplication(s) \/ DisconnectInOnRecv(s)
               \/ ReadFailed(s) \/ WriteFailed(s)
        PROVE  Protocol!Disconnect(s) \/ UNCHANGED Protocol!vars
    <3>1. SameRegistry /\ UNCHANGED told
      BY <2>0, <2>9, OthersHold
         DEF DisconnectByApplication, DisconnectInOnRecv, ReadFailed, WriteFailed
    <3>2. \/ \E by \in {"application", "on_recv", "read", "write"} : Disconnect(s, by)
          \/ UNCHANGED <<connected, ended>>
      BY <2>9
         DEF DisconnectByApplication, DisconnectInOnRecv, ReadFailed, WriteFailed
    <3>. QED
      BY <3>1, <3>2, Disconnecting, Stutters
  <2>10. CASE CloseService \/ ServiceGone
    BY <2>10, Clearing DEF CloseService, ServiceGone
  <2>11. ASSUME NEW s \in Sessions,
                \/ ClientStart(s) \/ EndOfTurn(s)
                \/ ConnectHandler(s) \/ ReadHandler(s) \/ WriteHandler(s)
                \/ DisconnectByApplication(s) \/ DisconnectInOnRecv(s)
                \/ DisconnectGoesOn(s) \/ Send(s) \/ ApplicationLetsGo(s)
         PROVE  Protocol!Next \/ UNCHANGED Protocol!vars
    BY <2>4, <2>5, <2>6, <2>7, <2>8, <2>9, <2>11, Telling
       DEF ConnectHandler, ReadHandler, WriteHandler, DisconnectGoesOn,
           Protocol!Next
  <2>. QED
    BY <2>1, <2>3, <2>10, <2>11 DEF Next, vars
<1>. QED
  BY <1>1, <1>2, InvHolds, PTL
     DEF Spec, ImplementsSessionProtocol, Protocol!Spec

=============================================================================
