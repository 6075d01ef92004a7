--------------------------- MODULE ServerService ---------------------------
(***************************************************************************)
(* The registry of a ServerService (Service.cpp) and the chain of accepts  *)
(* that fills it, with what Session::ProcessConnect and                    *)
(* Session::Disconnect do to it.  The chain is one handler at a time; any  *)
(* other thread may disconnect a session between two of its steps, and     *)
(* may close the service.                                                  *)
(*                                                                         *)
(* A step ends where another thread can see what was done.  A critical     *)
(* section of the registry's lock is one step.                             *)
(***************************************************************************)
EXTENDS Integers, Sequences, FiniteSets

CONSTANTS
  Sessions,        \* bound: the session objects the factory can make
  NoSession,       \* the accept chain has no session
  MaxSessionCount  \* Service::_maxSessionCount

ASSUME ServerServiceAssumption ==
  /\ IsFiniteSet(Sessions)
  /\ NoSession \notin Sessions
  /\ MaxSessionCount \in Nat

VARIABLES
  acceptor,      \* ServerService::_acceptor
  accept,        \* where the accept chain is
  current,       \* the session the chain holds, not yet let go of
  connected,     \* Session::_connected of each session
  leaving,       \* where the Disconnect that found it set is
  sessions,      \* Service::_sessions
  sessionCount,  \* Service::_sessionCount
  closing,       \* where a call of CloseService is
  crashed,       \* CloseService has ended the process
  calls,         \* history: the callbacks made on each session
  overtaken      \* history: sessions released while their accept went on

vars == <<acceptor, accept, current, connected, leaving, sessions,
          sessionCount, closing, crashed, calls, overtaken>>

\* A session the chain has let go of without connecting it is destroyed, so
\* the object counts as unused again.
Unused ==
  {s \in Sessions : s # current /\ ~connected[s] /\ leaving[s] = "no"}

Init ==
  /\ acceptor = "none"
  /\ accept = "none"
  /\ current = NoSession
  /\ connected = [s \in Sessions |-> FALSE]
  /\ leaving = [s \in Sessions |-> "no"]
  /\ sessions = {}
  /\ sessionCount = 0
  /\ closing = FALSE
  /\ crashed = FALSE
  /\ calls = [s \in Sessions |-> << >>]
  /\ overtaken = {}

Call(s, callback) == calls' = [calls EXCEPT ![s] = Append(@, callback)]

-----------------------------------------------------------------------------
(* The accept chain                                                        *)

\* Mutation: one session more is let in.
Full_OneMore == sessionCount > MaxSessionCount

\* GetCurrentSessionCount() >= GetMaxSessionCount(), read without the lock.
Full == sessionCount >= MaxSessionCount

\* Start opens the acceptor and begins the chain.
Start ==
  /\ ~crashed
  /\ acceptor = "none"
  /\ acceptor' = "open"
  /\ accept' = "start_accept"
  /\ UNCHANGED <<current, connected, leaving, sessions, sessionCount, closing,
                 crashed, calls, overtaken>>

\* Mutation: the limit is left to the handler.
StartAccept_NoLimit ==
  /\ ~crashed
  /\ accept = "start_accept"
  /\ \E s \in Unused : current' = s
  /\ accept' = "pending"
  /\ UNCHANGED <<acceptor, connected, leaving, sessions, sessionCount, closing,
                 crashed, calls, overtaken>>

\* StartAccept either returns ("Max sessions reached!") or creates a session
\* and accepts into its socket.
StartAccept ==
  /\ ~crashed
  /\ accept = "start_accept"
  /\ \/ /\ Full
        /\ accept' = "stopped"
        /\ UNCHANGED current
     \/ /\ ~Full
        /\ \E s \in Unused : current' = s
        /\ accept' = "pending"
  /\ UNCHANGED <<acceptor, connected, leaving, sessions, sessionCount, closing,
                 crashed, calls, overtaken>>

\* The accept completes: a client is there, or the acceptor was closed or
\* failed, in which case the handler accepts again at once.
AcceptDone ==
  /\ ~crashed
  /\ accept = "pending"
  /\ \/ /\ acceptor = "open"
        /\ accept' = "accepted"
        /\ UNCHANGED current
     \/ /\ accept' = "start_accept"
        /\ current' = NoSession
  /\ UNCHANGED <<acceptor, connected, leaving, sessions, sessionCount, closing,
                 crashed, calls, overtaken>>

\* The handler tests the limit again.  Above it the session is disconnected,
\* which does nothing to a session that was never connected.
CheckAgain ==
  /\ ~crashed
  /\ accept = "accepted"
  /\ IF Full
     THEN accept' = "start_accept" /\ current' = NoSession
     ELSE accept' = "connect" /\ UNCHANGED current
  /\ UNCHANGED <<acceptor, connected, leaving, sessions, sessionCount, closing,
                 crashed, calls, overtaken>>

\* ProcessConnect sets _connected, and from here on the session can be
\* disconnected.
ProcessConnect ==
  /\ ~crashed
  /\ accept = "connect"
  /\ connected' = [connected EXCEPT ![current] = TRUE]
  /\ accept' = "add"
  /\ UNCHANGED <<acceptor, current, leaving, sessions, sessionCount, closing,
                 crashed, calls, overtaken>>

\* Mutation: the session is counted and not inserted.
AddSession_CountOnly(s) ==
  /\ sessions' = sessions
  /\ sessionCount' = sessionCount + 1

\* AddSession, the insertion and the count under one lock.
AddSession(s) ==
  /\ sessions' = sessions \cup {s}
  /\ sessionCount' = sessionCount + 1

\* ProcessConnect registers the session.
AddInProcessConnect ==
  /\ ~crashed
  /\ accept = "add"
  /\ AddSession(current)
  /\ accept' = "on_connected"
  /\ UNCHANGED <<acceptor, current, connected, leaving, closing, crashed,
                 calls, overtaken>>

\* ProcessConnect calls OnConnected and RegisterRecv.
OnConnected ==
  /\ ~crashed
  /\ accept = "on_connected"
  /\ Call(current, "OnConnected")
  /\ accept' = "add_again"
  /\ UNCHANGED <<acceptor, current, connected, leaving, sessions, sessionCount,
                 closing, crashed, overtaken>>

\* The accept handler registers the session itself, after ProcessConnect did,
\* and goes on to StartAccept.
AddInHandler ==
  /\ ~crashed
  /\ accept = "add_again"
  /\ AddSession(current)
  /\ accept' = "start_accept"
  /\ current' = NoSession
  /\ UNCHANGED <<acceptor, connected, leaving, closing, crashed, calls,
                 overtaken>>

-----------------------------------------------------------------------------
(* Disconnect                                                              *)

\* Mutation: a session that is already leaving is disconnected again.
Disconnect_NoExchange(s) ==
  /\ ~crashed
  /\ connected[s] \/ leaving[s] = "released"
  /\ connected' = [connected EXCEPT ![s] = FALSE]
  /\ leaving' = [leaving EXCEPT ![s] = "on_disconnected"]
  /\ UNCHANGED <<acceptor, accept, current, sessions, sessionCount, closing,
                 crashed, calls, overtaken>>

\* Mutation: the session is released before it is told.
Disconnect_TellsNobody(s) ==
  /\ ~crashed
  /\ connected[s]
  /\ connected' = [connected EXCEPT ![s] = FALSE]
  /\ leaving' = [leaving EXCEPT ![s] = "release"]
  /\ UNCHANGED <<acceptor, accept, current, sessions, sessionCount, closing,
                 crashed, calls, overtaken>>

\* Disconnect, from a read or write that failed or from the application: only
\* the call that finds _connected set goes on.
Disconnect(s) ==
  /\ ~crashed
  /\ connected[s]
  /\ connected' = [connected EXCEPT ![s] = FALSE]
  /\ leaving' = [leaving EXCEPT ![s] = "on_disconnected"]
  /\ UNCHANGED <<acceptor, accept, current, sessions, sessionCount, closing,
                 crashed, calls, overtaken>>

OnDisconnected(s) ==
  /\ ~crashed
  /\ leaving[s] = "on_disconnected"
  /\ Call(s, "OnDisconnected")
  /\ leaving' = [leaving EXCEPT ![s] = "release"]
  /\ UNCHANGED <<acceptor, accept, current, connected, sessions, sessionCount,
                 closing, crashed, overtaken>>

\* Mutation: the count goes down and the session stays.
ReleaseSession_NoErase(s) ==
  /\ ~crashed
  /\ leaving[s] = "release"
  /\ sessionCount' = sessionCount - 1
  /\ leaving' = [leaving EXCEPT ![s] = "released"]
  /\ overtaken' = IF current = s THEN overtaken \cup {s} ELSE overtaken
  /\ UNCHANGED <<acceptor, accept, current, connected, sessions, closing,
                 crashed, calls>>

\* Mutation: the count goes down only for a session that is still there.
ReleaseSession_IfPresent(s) ==
  /\ ~crashed
  /\ leaving[s] = "release"
  /\ sessions' = sessions \ {s}
  /\ sessionCount' = IF s \in sessions THEN sessionCount - 1 ELSE sessionCount
  /\ leaving' = [leaving EXCEPT ![s] = "released"]
  /\ overtaken' = IF current = s THEN overtaken \cup {s} ELSE overtaken
  /\ UNCHANGED <<acceptor, accept, current, connected, closing, crashed, calls>>

\* ReleaseSession, the erasure and the count under one lock.
ReleaseSession(s) ==
  /\ ~crashed
  /\ leaving[s] = "release"
  /\ sessions' = sessions \ {s}
  /\ sessionCount' = sessionCount - 1
  /\ leaving' = [leaving EXCEPT ![s] = "released"]
  /\ overtaken' = IF current = s THEN overtaken \cup {s} ELSE overtaken
  /\ UNCHANGED <<acceptor, accept, current, connected, closing, crashed, calls>>

-----------------------------------------------------------------------------
(* CloseService                                                            *)

\* ServerService::CloseService closes the acceptor.
CloseAcceptor ==
  /\ ~crashed
  /\ acceptor # "none"
  /\ ~closing
  /\ acceptor' = "closed"
  /\ closing' = TRUE
  /\ UNCHANGED <<accept, current, connected, leaving, sessions, sessionCount,
                 crashed, calls, overtaken>>

\* Service::CloseService.  With the call in the loop commented out, clearing
\* the set is the body of the loop over the set: it is emptied in the first
\* turn, and what the iterator does next is undefined.  The process also ends
\* if the registry held the last reference to a session still connected: its
\* destructor calls Disconnect, which asks for a shared_ptr to it and throws.
ClearSessions ==
  /\ ~crashed
  /\ closing
  /\ closing' = FALSE
  /\ sessions' = {}
  /\ \/ UNCHANGED crashed
     \/ sessions # {} /\ crashed' = TRUE
  /\ UNCHANGED <<acceptor, accept, current, connected, leaving, sessionCount,
                 calls, overtaken>>

-----------------------------------------------------------------------------

AcceptStep ==
  \/ StartAccept \/ AcceptDone \/ CheckAgain \/ ProcessConnect
  \/ AddInProcessConnect \/ OnConnected \/ AddInHandler

Next ==
  \/ Start \/ AcceptStep
  \/ \E s \in Sessions :
       Disconnect(s) \/ OnDisconnected(s) \/ ReleaseSession(s)
  \/ CloseAcceptor \/ ClearSessions

Spec == Init /\ [][Next]_vars

\* The io_context runs the handlers that are due.  Clients need not come, and
\* nobody has to disconnect or to close.
FairSpec ==
  /\ Spec
  /\ WF_vars(accept # "pending" /\ AcceptStep)
  /\ \A s \in Sessions : WF_vars(OnDisconnected(s) \/ ReleaseSession(s))

-----------------------------------------------------------------------------
(* Properties                                                              *)

\* The type invariant.
TypeOK ==
  /\ acceptor \in {"none", "open", "closed"}
  /\ accept \in {"none", "start_accept", "pending", "accepted", "connect",
                 "add", "on_connected", "add_again", "stopped"}
  /\ current \in Sessions \cup {NoSession}
  /\ connected \in [Sessions -> BOOLEAN]
  /\ leaving \in [Sessions -> {"no", "on_disconnected", "release", "released"}]
  /\ sessions \subseteq Sessions
  /\ sessionCount \in -1 .. MaxSessionCount + 1
  /\ closing \in BOOLEAN
  /\ crashed \in BOOLEAN
  /\ calls \in [Sessions -> Seq({"OnConnected", "OnDisconnected"})]
  /\ overtaken \subseteq Sessions

Connected == {s \in Sessions : connected[s]}
Leaving == {s \in Sessions : leaving[s] \in {"on_disconnected", "release"}}
Gone == {s \in Sessions : leaving[s] = "released"}

\* The accept handler is between the store of _connected and its last
\* AddSession.
Adding == accept \in {"add", "on_connected", "add_again"}

\* Every session is counted twice when it comes and once when it goes: with no
\* accept half done, each connected session stands for two and each session
\* that is gone still stands for one.
CountAccounts ==
  ~Adding =>
    sessionCount = 2 * Cardinality(Connected \cup Leaving) + Cardinality(Gone)

\* So the limit is kept, but the server never has more than half of the
\* sessions it was made for (rounded up).
HalfCapacity == 2 * Cardinality(Connected) <= MaxSessionCount + 1

\* The count cannot grow between the two tests of the limit: the refusal in the
\* accept handler (Service.cpp:143-147) is never reached.
NeverRefuses == accept = "accepted" => ~Full

\* Until the service is closed, Broadcast reaches every connected session whose
\* accept is over, whatever the order of connects and disconnects.
ConnectedAreRegistered ==
  acceptor = "open" => Connected \ {current} \subseteq sessions

\* A session that is gone is in the registry, and so kept alive and broadcast
\* to, only if its release overtook the accept handler, which then added it
\* again.
ZombiesWereOvertaken == sessions \cap Gone \subseteq overtaken

\* A session hears of its connection and of its disconnection at most once each
\* (though not always in this order), and of the latter before it is released.
CalledOnce ==
  \A s \in Sessions :
    LET told == <<"OnDisconnected">>
        both == {<<"OnConnected", "OnDisconnected">>,
                 <<"OnDisconnected", "OnConnected">>}
    IN  /\ calls[s] \in {<< >>, <<"OnConnected">>, told} \cup both
        /\ s \in Gone => calls[s] \in {told} \cup both

\* Once as many sessions have come and gone as the server may have at a time,
\* it ends up accepting nobody ever again, though nobody need be connected.
LeaksUntilItStops ==
  Cardinality(Gone) >= MaxSessionCount ~> [](crashed \/ accept = "stopped")

\* What StartAccept prints when it gives up: the maximum number of sessions is
\* reached (Service.cpp:127).
MaxSessionsReached ==
  accept = "stopped" => Cardinality(sessions) >= MaxSessionCount

\* The accept chain, the two registrations and the count amount to a gate that
\* admits a client while a place is free, where a client that has gone keeps
\* one of its two places; once shut the gate is not opened again.
Gate == INSTANCE Admission WITH
  here <- Connected \cup Leaving, gone <- Gone, shut <- accept = "stopped"

ImplementsAdmission == Gate!Spec

Link(s) ==
  IF connected[s] THEN "up" ELSE IF leaving[s] = "no" THEN "new" ELSE "down"

CallsMade(s) == {calls[s][i] : i \in DOMAIN calls[s]}

\* Whatever a Disconnect on another thread overtakes, each session is connected,
\* told, registered and released as SessionProtocol says.  (That a call is not
\* repeated is for CalledOnce: here a repetition would be a stutter.)
Protocol == INSTANCE SessionProtocol WITH
  link <- [s \in Sessions |-> Link(s)],
  told <- [s \in Sessions |-> CallsMade(s)],
  listed <- sessions

ImplementsSessionProtocol == Protocol!Spec

=============================================================================
