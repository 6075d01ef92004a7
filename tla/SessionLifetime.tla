-------------------------- MODULE SessionLifetime --------------------------
(***************************************************************************)
(* Who keeps a Session alive, on a server and on a client (Session.cpp,    *)
(* Service.cpp).  A session is an object behind shared_ptrs: the registry, *)
(* the handler of an accept, the handler of a write, the loop of           *)
(* ClientService::Start, a caller of Disconnect and the application hold   *)
(* them.  The handlers of a connect and of a read hold a raw this, and so  *)
(* does the handler of an accept on its service.                           *)
(*                                                                         *)
(* A session goes when its last owner lets go.  What the program then      *)
(* does wrong is a fault, after which nothing is promised: a handler on an *)
(* object that is gone, an exception out of a destructor, a null service,  *)
(* an iterator into a set that was cleared.                                *)
(*                                                                         *)
(* A session connects once here; its count and its send queue are those of *)
(* ServerService and SendPath.                                             *)
(***************************************************************************)
CONSTANTS
  Sessions,   \* bound: the sessions the factory makes
  NoSession,  \* a fault that is not about a session
  Kind        \* "server" or "client"

ASSUME SessionLifetimeAssumption ==
  /\ NoSession \notin Sessions
  /\ Kind \in {"server", "client"}

VARIABLES
  service,    \* "open", "closed" by CloseService, or "gone"
  chain,      \* the accept chain of a server
  owners,     \* the shared_ptrs to each session, by who holds them
  connected,  \* Session::_connected of each session
  connect,    \* where the accept or connect and its handler are
  read,       \* where the read and its handler are
  write,      \* where the write and its handler are
  ended,      \* whose Disconnect found the session connected, "no" if none
  told,       \* history: the callbacks made on each session
  fault       \* what went wrong

vars == <<service, chain, owners, connected, connect, read, write, ended, told,
          fault>>

Owners == {"start", "chain", "registry", "write", "caller", "application"}

NoFault == [kind |-> "none", session |-> NoSession]

Init ==
  /\ service = "open"
  /\ chain = IF Kind = "server" THEN "starting" ELSE "off"
  /\ owners = [s \in Sessions |-> {}]
  /\ connected = [s \in Sessions |-> FALSE]
  /\ connect = [s \in Sessions |-> "none"]
  /\ read = [s \in Sessions |-> "none"]
  /\ write = [s \in Sessions |-> "none"]
  /\ ended = [s \in Sessions |-> "no"]
  /\ told = [s \in Sessions |-> {}]
  /\ fault = NoFault

Alive(s) == owners[s] # {}

\* Disconnect has closed the socket and is on its way to ReleaseSession.
Leaving(s) == ended[s] # "no" /\ "OnDisconnected" \notin told[s]

Fault(kind, s) ==
  /\ fault' = [kind |-> kind, session |-> s]
  /\ UNCHANGED <<service, chain, owners, connected, connect, read, write, ended,
                 told>>

\* Mutation: the destructor does not call Disconnect.
Become_Silent(new) == owners' = new /\ UNCHANGED fault

\* The owners change.  The destructor of a session that is still connected
\* calls Disconnect, which asks for a shared_ptr to the session as long as its
\* service is there: bad_weak_ptr, out of a destructor.  With the service gone
\* it closes the socket and tells nobody.
Become(new) ==
  LET lost == {s \in Sessions : Alive(s) /\ new[s] = {} /\ connected[s]}
  IN  /\ owners' = new
      /\ IF service' = "gone" \/ lost = {} THEN UNCHANGED fault
         ELSE \E s \in lost : fault' = [kind |-> "terminated", session |-> s]

LetGo(s, who) == Become([owners EXCEPT ![s] = @ \ who])
Hold(s, who) == owners' = [owners EXCEPT ![s] = @ \cup who]

-----------------------------------------------------------------------------
(* The accept chain of a server                                            *)

\* A session is made and its connect or accept begun, which fails on an acceptor
\* that was closed.  The factory may keep a reference of its own.
CreateSession(s, who) ==
  /\ connect[s] = "none"
  /\ connect' = [connect EXCEPT ![s] =
       IF who = "chain" /\ service = "closed" THEN "refused" ELSE "pending"]
  /\ Hold(s, {who}) \/ Hold(s, {who, "application"})

\* StartAccept, called on a service that may be gone.  At the limit, which is
\* ServerService's, it returns.
StartAccept ==
  /\ chain = "starting"
  /\ \/ service = "gone" /\ Fault("accept", NoSession)
     \/ /\ service # "gone"
        /\ chain' = "off"
        /\ UNCHANGED <<service, owners, connected, connect, read, write, ended,
                       told, fault>>
     \/ /\ service # "gone"
        /\ chain' = "accepting"
        /\ \E s \in Sessions : CreateSession(s, "chain")
        /\ UNCHANGED <<service, connected, read, write, ended, told, fault>>

\* Mutation: the chain ends with the first error.
AcceptDone_StopsOnError(s) ==
  /\ connect[s] \in {"pending", "refused"} /\ "chain" \in owners[s]
  /\ \/ /\ service # "gone" /\ connect[s] = "pending"
        /\ connected' = [connected EXCEPT ![s] = TRUE]
        /\ connect' = [connect EXCEPT ![s] = "add"]
        /\ UNCHANGED <<service, chain, owners, read, write, ended, told, fault>>
     \/ /\ chain' = "off"
        /\ connect' = [connect EXCEPT ![s] = "done"]
        /\ UNCHANGED <<service, connected, read, write, ended, told>>
        /\ LetGo(s, {"chain"})

\* Mutation: _connected is not set before the session is registered.
AcceptDone_NoStore(s) ==
  /\ connect[s] = "pending" /\ "chain" \in owners[s] /\ service # "gone"
  /\ connect' = [connect EXCEPT ![s] = "add"]
  /\ UNCHANGED <<service, chain, owners, connected, read, write, ended, told, fault>>

\* The handler of the accept, up to the store of _connected.  On an error it
\* goes on to StartAccept; either way it uses the service.
AcceptDone(s) ==
  /\ connect[s] \in {"pending", "refused"} /\ "chain" \in owners[s]
  /\ \/ service = "gone" /\ Fault("accept", s)
     \/ /\ service # "gone" /\ connect[s] = "pending"
        /\ connected' = [connected EXCEPT ![s] = TRUE]
        /\ connect' = [connect EXCEPT ![s] = "add"]
        /\ UNCHANGED <<service, chain, owners, read, write, ended, told, fault>>
     \/ /\ service # "gone"
        /\ chain' = "starting"
        /\ connect' = [connect EXCEPT ![s] = "done"]
        /\ UNCHANGED <<service, connected, read, write, ended, told>>
        /\ LetGo(s, {"chain"})

\* The second AddSession, and the end of the handler.
AddAgain(s) ==
  /\ connect[s] = "add_again"
  /\ \/ service = "gone" /\ Fault("accept", s)
     \/ /\ service # "gone"
        /\ connect' = [connect EXCEPT ![s] = "done"]
        /\ chain' = "starting"
        /\ owners' = [owners EXCEPT ![s] = (@ \cup {"registry"}) \ {"chain"}]
        /\ UNCHANGED <<service, connected, read, write, ended, told, fault>>

-----------------------------------------------------------------------------
(* ClientService::Start                                                    *)

\* A turn of the loop makes a session and connects it.
ClientStart(s) ==
  /\ Kind = "client" /\ service # "gone"
  /\ \A r \in Sessions : "start" \notin owners[r]
  /\ CreateSession(s, "start")
  /\ UNCHANGED <<service, chain, connected, read, write, ended, told, fault>>

\* The turn ends, and with it the local SessionRef.
EndOfTurn(s) ==
  /\ "start" \in owners[s]
  /\ UNCHANGED <<service, chain, connected, connect, read, write, ended, told>>
  /\ LetGo(s, {"start"})

\* The handler of async_connect, up to the store of _connected.  An error
\* leaves a session that is not connected as it is.
ConnectDone(s) ==
  /\ connect[s] = "pending" /\ Kind = "client"
  /\ Alive(s)
  /\ \/ /\ connected' = [connected EXCEPT ![s] = TRUE]
        /\ connect' = [connect EXCEPT ![s] = "add"]
     \/ /\ connect' = [connect EXCEPT ![s] = "done"]
        /\ UNCHANGED connected
  /\ UNCHANGED <<service, chain, owners, read, write, ended, told, fault>>

-----------------------------------------------------------------------------
(* ProcessConnect                                                          *)

\* GetService() is null once the service is gone.
AddSession(s) ==
  /\ connect[s] = "add" /\ Alive(s)
  /\ \/ service = "gone" /\ Fault("no_service", s)
     \/ /\ service # "gone"
        /\ connect' = [connect EXCEPT ![s] = "on_connected"]
        /\ Hold(s, {"registry"})
        /\ UNCHANGED <<service, chain, connected, read, write, ended, told, fault>>

\* The application may take a reference in OnConnected.
OnConnected(s) ==
  /\ connect[s] = "on_connected" /\ Alive(s)
  /\ connect' = [connect EXCEPT ![s] = "register"]
  /\ told' = [told EXCEPT ![s] = @ \cup {"OnConnected"}]
  /\ Hold(s, {"application"}) \/ UNCHANGED owners
  /\ UNCHANGED <<service, chain, connected, read, write, ended, fault>>

\* A read whose handler holds a raw this, unless the session was disconnected.
RegisterRecv(s) ==
  read' = [read EXCEPT ![s] = IF connected[s] THEN "pending" ELSE "none"]

FirstRead(s) ==
  /\ connect[s] = "register" /\ Alive(s)
  /\ RegisterRecv(s)
  /\ connect' = [connect EXCEPT ![s] =
       IF "chain" \in owners[s] THEN "add_again" ELSE "done"]
  /\ UNCHANGED <<service, chain, owners, connected, write, ended, told, fault>>

\* The handler of a connect runs, or goes on, on a session that is gone.
ConnectDangles(s) ==
  /\ connect[s] \in {"pending", "refused", "add", "on_connected", "register"}
  /\ ~Alive(s)
  /\ Fault("connect", s)

-----------------------------------------------------------------------------
(* The handler of a read                                                   *)

\* The handler enters OnRecv.
ReadDone(s) ==
  /\ read[s] = "pending" /\ Alive(s)
  /\ read' = [read EXCEPT ![s] = "running"]
  /\ UNCHANGED <<service, chain, owners, connected, connect, write, ended, told,
                 fault>>

\* OnRecv has returned, and so has a Disconnect it called: the handler goes on
\* with the buffer and the next read.
ReadGoesOn(s) ==
  /\ read[s] = "running" /\ Alive(s)
  /\ ~(ended[s] = "on_recv" /\ Leaving(s))
  /\ RegisterRecv(s)
  /\ UNCHANGED <<service, chain, owners, connected, connect, write, ended, told,
                 fault>>

\* The handler of a read runs, or goes on, on a session that is gone.
ReadDangles(s) ==
  /\ read[s] \in {"pending", "running"} /\ ~Alive(s)
  /\ Fault("read", s)

-----------------------------------------------------------------------------
(* Disconnect, and the handler of a write                                  *)

\* The part of Disconnect up to OnDisconnected, for the caller that finds the
\* session connected.
Disconnect(s, by) ==
  /\ connected[s] /\ Alive(s)
  /\ connected' = [connected EXCEPT ![s] = FALSE]
  /\ ended' = [ended EXCEPT ![s] = by]

\* Any thread that has a reference.
DisconnectByApplication(s) ==
  /\ "application" \in owners[s]
  /\ Disconnect(s, "application")
  /\ Hold(s, {"caller"})
  /\ UNCHANGED <<service, chain, connect, read, write, told, fault>>

\* A call in OnRecv, on this.
DisconnectInOnRecv(s) ==
  /\ read[s] = "running"
  /\ Disconnect(s, "on_recv")
  /\ UNCHANGED <<service, chain, owners, connect, read, write, told, fault>>

\* Mutation: the handler goes on to RegisterRecv.
ReadFailed_NoReturn(s) ==
  /\ read[s] \in {"pending", "running"} /\ Alive(s)
  /\ ~(ended[s] = "on_recv" /\ Leaving(s))
  /\ IF connected[s] THEN Disconnect(s, "read") ELSE UNCHANGED <<connected, ended>>
  /\ UNCHANGED <<service, chain, owners, connect, read, write, told, fault>>

\* The read fails, the peer having closed or the socket having been closed, or
\* OnRecv claims more than there is.  Disconnect is the last thing its handler
\* does.
ReadFailed(s) ==
  /\ read[s] \in {"pending", "running"} /\ Alive(s)
  /\ ~(ended[s] = "on_recv" /\ Leaving(s))
  /\ read' = [read EXCEPT ![s] = "none"]
  /\ IF connected[s] THEN Disconnect(s, "read") ELSE UNCHANGED <<connected, ended>>
  /\ UNCHANGED <<service, chain, owners, connect, write, told, fault>>

\* Mutation: the handler of a write captures this and not self.
Send_NoSelf(s) ==
  /\ connected[s] /\ Alive(s)
  /\ write[s] = "none"
  /\ write' = [write EXCEPT ![s] = "pending"]
  /\ UNCHANGED <<service, chain, owners, connected, connect, read, ended, told,
                 fault>>

\* Send, by anyone with a reference: the handler of the write has one too.
Send(s) ==
  /\ connected[s] /\ Alive(s)
  /\ write[s] = "none"
  /\ write' = [write EXCEPT ![s] = "pending"]
  /\ Hold(s, {"write"})
  /\ UNCHANGED <<service, chain, connected, connect, read, ended, told, fault>>

\* Mutation: the handler is never destroyed.
WriteDone_Keeps(s) ==
  /\ write[s] = "pending"
  /\ write' = [write EXCEPT ![s] = "none"]
  /\ UNCHANGED <<service, chain, owners, connected, connect, read, ended, told,
                 fault>>

\* The handler of a write that was carried, or whose error is only logged.
WriteDone(s) ==
  /\ write[s] = "pending"
  /\ write' = [write EXCEPT ![s] = "none"]
  /\ UNCHANGED <<service, chain, connected, connect, read, ended, told>>
  /\ LetGo(s, {"write"})

\* The handler of a write that failed or carried nothing calls Disconnect.
WriteFailed(s) ==
  /\ write[s] = "pending"
  /\ Disconnect(s, "write")
  /\ write' = [write EXCEPT ![s] = "disconnect"]
  /\ UNCHANGED <<service, chain, owners, connect, read, told, fault>>

\* The rest of Disconnect: OnDisconnected, ReleaseSession if the service is
\* there, and the references of the caller.
ReleaseSession(s) ==
  /\ Leaving(s) /\ Alive(s)
  /\ told' = [told EXCEPT ![s] = @ \cup {"OnDisconnected"}]
  /\ write' = [write EXCEPT ![s] = IF ended[s] = "write" THEN "none" ELSE @]
  /\ UNCHANGED <<service, chain, connected, connect, read, ended>>
  /\ LetGo(s, {"caller", "registry"} \cup
              (IF ended[s] = "write" THEN {"write"} ELSE {}))

\* Disconnect goes on, on a session that is gone.
DisconnectDangles(s) ==
  /\ Leaving(s) /\ ~Alive(s)
  /\ Fault("disconnect", s)

-----------------------------------------------------------------------------
(* The application and the service                                         *)

ApplicationLetsGo(s) ==
  /\ "application" \in owners[s]
  /\ UNCHANGED <<service, chain, connected, connect, read, write, ended, told>>
  /\ LetGo(s, {"application"})

\* The registry is cleared in a loop over itself, which the loop may not survive.
ClearSessions ==
  \/ Become([s \in Sessions |-> owners[s] \ {"registry"}])
  \/ /\ \E s \in Sessions : "registry" \in owners[s]
     /\ fault' = [kind |-> "iterator", session |-> NoSession]
     /\ UNCHANGED owners

\* The acceptor and the registry are closed; the chain goes on.
CloseService ==
  /\ service = "open"
  /\ service' = "closed"
  /\ UNCHANGED <<chain, connected, connect, read, write, ended, told>>
  /\ ClearSessions

\* The last reference to the service goes.
ServiceGone ==
  /\ service # "gone"
  /\ \A s \in Sessions : "start" \notin owners[s]
  /\ service' = "gone"
  /\ UNCHANGED <<chain, connected, connect, read, write, ended, told>>
  /\ ClearSessions

-----------------------------------------------------------------------------

\* The handler of a connect or of an accept, that of a read, that of a write,
\* and a Disconnect that has begun.
ConnectHandler(s) ==
  \/ AcceptDone(s) \/ AddAgain(s) \/ ConnectDone(s)
  \/ AddSession(s) \/ OnConnected(s) \/ FirstRead(s) \/ ConnectDangles(s)

ReadHandler(s) == ReadDone(s) \/ ReadGoesOn(s) \/ ReadFailed(s) \/ ReadDangles(s)

WriteHandler(s) == WriteDone(s) \/ WriteFailed(s)

DisconnectGoesOn(s) == ReleaseSession(s) \/ DisconnectDangles(s)

Next ==
  /\ fault = NoFault
  /\ \/ StartAccept
     \/ \E s \in Sessions :
          \/ ClientStart(s) \/ EndOfTurn(s)
          \/ ConnectHandler(s) \/ ReadHandler(s) \/ WriteHandler(s)
          \/ DisconnectByApplication(s) \/ DisconnectInOnRecv(s)
          \/ DisconnectGoesOn(s)
          \/ Send(s)
          \/ ApplicationLetsGo(s)
     \/ CloseService \/ ServiceGone

Spec == Init /\ [][Next]_vars

\* What has begun goes on, and what waits on a closed socket is aborted.
\* Nothing is assumed of the application or of the peers: an accept, a read and
\* a write on an open socket may wait for ever.
FairSpec ==
  /\ Spec
  /\ WF_vars(fault = NoFault /\ StartAccept)
  /\ \A s \in Sessions :
       /\ WF_vars(/\ fault = NoFault
                  /\ connect[s] = "pending" => service # "open"
                  /\ ConnectHandler(s))
       /\ WF_vars(fault = NoFault /\ ~connected[s] /\ ReadHandler(s))
       /\ WF_vars(fault = NoFault /\ ~connected[s] /\ WriteHandler(s))
       /\ WF_vars(fault = NoFault /\ DisconnectGoesOn(s))

-----------------------------------------------------------------------------
(* Properties                                                              *)

\* The type invariant.
TypeOK ==
  /\ service \in {"open", "closed", "gone"}
  /\ chain \in IF Kind = "server" THEN {"off", "starting", "accepting"} ELSE {"off"}
  /\ owners \in [Sessions -> SUBSET (IF Kind = "server" THEN Owners \ {"start"}
                                    ELSE Owners \ {"chain"})]
  /\ connected \in [Sessions -> BOOLEAN]
  /\ connect \in [Sessions -> {"none", "pending", "refused", "add",
                               "on_connected", "register", "add_again", "done"}]
  /\ read \in [Sessions -> {"none", "pending", "running"}]
  /\ write \in [Sessions -> {"none", "pending", "disconnect"}]
  /\ ended \in [Sessions -> {"no", "application", "on_recv", "read", "write"}]
  /\ told \in [Sessions -> SUBSET {"OnConnected", "OnDisconnected"}]
  /\ fault \in [kind : {"none", "accept", "connect", "read", "disconnect",
                        "no_service", "terminated", "iterator"},
                session : Sessions \cup {NoSession}]

\* The handler of a write, and the Disconnect it calls, run on a session that is
\* there ("lifetime management", Session.cpp:156).
WriteHandlerHasItsSession == \A s \in Sessions : write[s] # "none" => Alive(s)

\* The handler of a read holds a raw this (Session.cpp:103).  As long as the
\* service is there it meets a session that is gone only if somebody else than
\* the handler itself disconnected the session: a peer may always leave.
PeerMayLeave ==
  fault.kind = "read" =>
    \/ ended[fault.session] \in {"application", "on_recv", "write"}
    \/ service = "gone"

\* The handler of a connect holds a raw this (Session.cpp:51), that of an accept
\* a reference.  Only on a client is a session gone before its handler is
\* through: while the connect waits, since Start keeps nothing (Service.cpp:76),
\* or when it was disconnected meanwhile, or with the service.
OnlyClientsDangle ==
  fault.kind = "connect" =>
    /\ Kind = "client"
    /\ \/ connect[fault.session] = "pending"
       \/ ended[fault.session] # "no"
       \/ service = "gone"

\* The destructor of a connected session ends the process (Session.cpp:78): on
\* a server only when the registry was cleared, on a client also when the turn
\* of Start ends between the store of _connected and AddSession.
TerminatedByClose ==
  fault.kind = "terminated" =>
    \/ service = "closed"
    \/ Kind = "client" /\ connect[fault.session] = "add"

\* What can be wrong has no other causes, on a server and on a client.
FaultsHaveCauses == PeerMayLeave /\ OnlyClientsDangle /\ TerminatedByClose

\* A session that was told OnConnected does not end silently: it is told
\* OnDisconnected, unless its service is gone.
NoSilentEnd ==
  fault = NoFault /\ service # "gone" =>
    \A s \in Sessions : "OnConnected" \in told[s] /\ ~Alive(s) =>
      Leaving(s) \/ "OnDisconnected" \in told[s]

\* A session that was released, and that neither the registry nor the application
\* holds, is freed: no handler keeps it for ever.
ReleasedAreFreed ==
  \A s \in Sessions :
    "OnDisconnected" \in told[s] /\ owners[s] \cap {"registry", "application"} = {}
      ~> \/ owners[s] = {}
         \/ owners[s] \cap {"registry", "application"} # {}
         \/ fault # NoFault

\* The handler of an accept holds its service as a raw this (Service.cpp:134) and
\* goes on whatever the error: a chain that outlives its service uses it.
ChainOutlivesService ==
  service = "gone" /\ chain # "off" ~> fault # NoFault

Link(s) ==
  IF connected[s] THEN "up" ELSE IF ended[s] = "no" THEN "new" ELSE "down"

\* Handlers that keep no reference, a service that goes and what goes wrong
\* change nothing in what becomes of a session as far as it gets.
Protocol == INSTANCE SessionProtocol WITH
  link <- [s \in Sessions |-> Link(s)],
  listed <- {s \in Sessions : "registry" \in owners[s]}

ImplementsSessionProtocol == Protocol!Spec

=============================================================================
