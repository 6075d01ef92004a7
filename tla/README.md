# Verification of ServerCoreLibrary

TLA+ modules, TLC model checking and TLAPS proofs for `src/ServerCoreLibrary`, a
C++ server library on standalone Asio: sessions with a send queue and a receive
buffer, a service that accepts and registers them, and the pools and threads
around them.

The reference is the code in the `.cpp` files. Most `.h` files hold the class
declaration followed by a copy of the `.cpp` (`cppToHeaderCombiner.py` writes
them). A row of `PROJECT.json` "map" names a header for what is declared there, or,
when two modules model the same lines, for the copy: the later module's row
names the same code in the header (`Session.h` is `Session.cpp` 111 lines further
down, `Service.h` 91, `ThreadManager.h` 24). There are no tests and no documentation in the repository: what the code
is meant to do is read from its comments, names and assertions.

## 1. The system

| Component | State | Operations | Talks to |
|---|---|---|---|
| Session, send path (`Session.cpp`) | `_connected`, `_socket`, `_sendLock`, `_sendQueue`, `_sendRegistered` | `Send`, `RegisterSend`, write handler, `ProcessSend`, `HandleError` | any thread that sends; the threads of the `io_context`; the socket |
| Session, receive path, PacketSession | `_recvBuffer`, `processLen` | `RegisterRecv`, read handler, `OnRecv`, `OnRecvPacket` | socket, RecvBuffer, the application |
| RecvBuffer | `_readPos`, `_writePos`, the bytes | `Clean`, `OnRead`, `OnWrite` | used by one session only |
| Session, connection | `_connected`, `_socket`, `_service` | `Connect`, `ProcessConnect`, `Disconnect`, destructor | Service (`AddSession`, `ReleaseSession`), the application's callbacks |
| Service, ServerService | `_sessions`, `_sessionCount`, `_lock`, `_acceptor` | `Start`, `StartAccept`, accept handler, `AddSession`, `ReleaseSession`, `Broadcast`, `CloseService` | sessions, acceptor |
| ClientService | the same registry | `Start` | sessions |
| SendBuffer, SendBufferChunk, SendBufferManager | a chunk per thread, its `_usedSize` and `_open`, the pool | `Open`, `Close`, `Reset`, `Pop`, `Push` | the threads that build packets, the send queue |
| ThreadManager, CoreGlobal, AsiocCore | the threads, thread ids, two globals; the `io_context` | `Launch`, `Join`, destructors, `Run`, `Stop`, `Reset` | the application, every handler |
| Listener | `_isRunning`, `_acceptor`, `_service` | `StartAccept`, `Stop`, `RegisterAccept` | not compiled by the project file; its accept is commented out |
| AsioEvent, NetAddress, SocketUtils | none that changes | wrappers, value classes | |
| Scripts (`*.py`, `convert_encoding.*`) | none | sequential file processing | unrelated to the library |

### What is hard

* Any thread may call `Send` or `Disconnect` at any time, and any number of
  threads may run the `io_context`. Two atomics and two locks order them.
* `_sendRegistered` is a token: it passes from the `Send` that sets it to the
  write, to the write's handler, and back. Every early return and every error
  path must return it.
* A lock is held over a call that takes it again (`Session.cpp:213`) and over a
  call that takes another (`Service.cpp:36`).
* A session may be disconnected between any two lines of `ProcessConnect` and of
  the accept handler, and may be connected again.
* The network cuts the stream where it likes; the receive buffer is linear and
  must be moved without overlap and without losing the rest of a packet.
* Handlers hold a raw `this`; who owns a session is decided elsewhere.
* A receive loop may outlive its connection and go on with the next, on the same
  buffer.
* Threads are launched, and handlers started, while the program stops and joins.

### What makes each component correct

* Send path: one write at a time; no buffer waits when nobody sends; order of
  pushes kept; a queue that holds buffers is drained if the peer reads; a session that is connected
  again can send.
* Receive path: every packet handed over whole, once, in order; always room for
  the next read; no undefined copy; reception goes on while connected.
* Registry: the count and the set agree with the sessions connected; the limit is
  kept and is reached; a session that left is not in the set; callbacks once each.
* Send buffers: two buffers never share bytes; a buffer's bytes stay while it is
  queued.
* Broadcast: one order for everybody, nobody left out, no cycle of locks.
* Ownership: no handler runs on a session that is gone; nothing keeps a session
  for ever.
* Runtime: no thread outlives what it uses; ids differ; a join ends.

`PROJECT.json` "hazards" lists the places in the code where these can go wrong.

## 2. The modules

| Module | Models | State and actions |
|---|---|---|
| `SendPath` | the send path of one session | one variable per member, `pc` and `batch` per thread; the actions are the stretches of `Send`, `RegisterSend`, the handler and `ProcessSend` between two accesses to shared state |
| `SendChannel` | what the send path promises: one writer that takes the whole backlog, waits for the network, and takes the next | `Accept`, `Take`, `Finish` |
| `RecvBuffer` | the buffer, as operators on a record | `OnRead`, `OnWrite`, `Clean` |
| `RecvPath` | the receive path of one PacketSession on one connection; EXTENDS `RecvBuffer` | `RegisterRecv`, the handler (`ReadDone`, `ReadFailed`, `OnRecvReturns`), one turn of the loop of `OnRecv` (`OnRecvPacket`), the peer and other threads (`PeerSend`, `Disconnect`) |
| `ServerService` | the registry and the accept chain with `ProcessConnect` and `Disconnect` | the chain's steps, three steps of `Disconnect` per session, two of `CloseService` |
| `SendBuffers` | the buffers, the chunks and the manager, used by several threads | `chunkOf` is the `thread_local`; `open` and `usedSize` are a chunk's, `region` and `state` a buffer's; `OpenTwice`, `OpenHere`, `OpenFresh`, `Close`, `Release` |
| `SessionLifetime` | who keeps a session alive, on a server or a client (`Kind`): `owners` of each session by who holds them, where its connect, read and write and their handlers are, `ended` by whose `Disconnect`, and the first `fault` | `StartAccept`, the accept and connect handlers, `ProcessConnect` in its three calls, the read and write handlers, `Disconnect` and `ReleaseSession`, `ClientStart`, `CloseService`, the end of the service, the application |
| `BroadcastPath` | `Broadcast` with the registry's lock over the sends of every session: both kinds of locks by the thread in them, `pc` and `at` per thread, `log` of what was pushed where | `Broadcast`, `NextSession`, the send path in short, the completion with its second lock, `AddSession`, `ReleaseSession` |
| `Runtime` | `CoreGlobal`, `ThreadManager` and `AsiocCore`: the two globals, the vector of threads, how far `Join` has come, ids, the `io_context`'s work and whether it is stopped | construction and destruction, `Launch` by the program or a handler, `Join` thread by thread, `Post`, `Stop`, `Reset`, `Run` and the handlers |
| `Reconnect` | the receive loops of one session over several connections and calls of `Start`; EXTENDS `RecvBuffer` | `Connect`, `ProcessConnect`, `Disconnect`, `Start`; per loop `RegisterRecv`, `Issue`, `ReadDone`, `HandleRead`, `HandleAbort` |
| `PacketChannel` | what the receive path promises: bytes are taken from the network only when no whole packet is left to hand over | `Send`, `Arrive`, `HandOver` |
| `Admission` | how a ServerService admits: a gate where a session that is here costs two places, one that has gone one, and that is shut for good | `Admit`, `Leave`, `Shut` |
| `SessionProtocol` | what becomes of a session: connected, disconnected, told, registered and released once and in this order, whoever runs its handlers | `Connect`, `Disconnect`, `AddSession`, `OnConnected`, `OnDisconnected`, `ReleaseSession`, `Clear` |
| `BufferAllocator` | what the send buffers promise: fresh bytes for each, fewer when it is closed, and nobody else's step touches them | `Open`, `Close`, `Release` |
| `OrderedBroadcast` | what `Broadcast` promises: one after the other, to all who are members when it begins, nobody coming or going before it has ended | `Broadcast`, `Give`, `PassOver`, `Join`, `Leave`, `Connect`, `Disconnect` |
| `MC*` | instances for TLC | |
| `*Proofs` | the theorems about the module they are named after | |

How they fit together. Each module has one question and takes from its
neighbours what their code does at the places where they meet. `BroadcastPath` is
the composition of the registry with the send paths: it keeps of `SendPath` the
lock, the flag and the points where a thread can wait, and of `ServerService` the
set and its lock; what those two know in detail (batches and errors there, the
count here) does not move a thread from one lock to another. `SessionLifetime`
composes registry, connect, read and write handlers and keeps of each who refers
to what. `Reconnect` uses the same `RecvBuffer` as `RecvPath`, with several loops
and connections where `RecvPath` has one of each and packets in detail.

The abstract specifications (`SendChannel`, `PacketChannel`, `Admission`,
`SessionProtocol`, `BufferAllocator`, `OrderedBroadcast`) know nothing of threads,
locks, positions or handlers. A detailed module instantiates its own at its end,
with a refinement mapping, and states `Implements...` as a property that TLC checks
and a theorem proves. `SessionProtocol` has two implementations: `ServerService`,
where the registry and its count are modelled in detail, and `SessionLifetime`,
where the references are; that both implement it is what they say in common about
a session.

Conventions. A step ends where another thread can see the difference. A
critical section is one step unless a call made inside it can wait, which is
how `Settle`, `Resend` and `Relock` came to be three: `ProcessSend` calls
`RegisterSend` with the lock held, and the second lock of a `std::mutex` by its
owner is undefined, so `Relock` either throws (the lock is released, the handler
ends) or never returns. A definition with a suffix (`Enqueue_Always`,
`Clean_NoCopy`, ...) is a variant with a plausible mistake in it; "mutants" in
`PROJECT.json` uses each to show that a property can tell the difference.

Abstractions.

* `SendPath`: a SendBuffer is its number in the order of pushes; a short write
  carries a number of whole buffers; `OnSend` does nothing that another thread
  could not do; completion codes are the three `HandleError` disconnects for and
  two it only logs. An abort of a write that an earlier connection issued
  arrives whenever it likes, also after a new `Connect`.
* `RecvPath`: a byte is its offset in the stream, so that "what was handed over
  is what was sent" is an equality of pieces. The peer is external and sends
  packets not shorter than their header; the code does not check `header->size`,
  and with a size of 0 the loop of `OnRecv` does not end. The first two bytes of
  a packet tell its size, anything else read as a header may be any number.
* `ServerService`: a session object that was never connected and that the chain
  has let go of is destroyed and counts as unused again. `CloseService` clears the
  set inside a loop over it: the step may end the process (`crashed`). The
  application keeps references to its sessions, so that a session outside the
  registry still exists. `Start` is called once and opens the acceptor (a bind
  that fails throws out of `Start` and nothing begins). `Broadcast` changes
  nothing here.
* `SessionLifetime`: the first thing that goes wrong is recorded and the model
  ends there, since nothing is promised after it: a handler on a session that is
  gone, an exception out of a destructor, a null service, an iterator into a set
  that was cleared. A session connects once; the application may keep a
  reference from the factory or from `OnConnected`, and may call `Disconnect` with
  it or from `OnRecv`. A destructor runs in the step in which the last owner lets go.
* `BroadcastPath`: a queue is empty or not; a session connects once and is
  registered once. A lock that a thread waits for is a guard: who gets it is open.
* `Runtime`: the application's handlers may launch, stop, and start up to two
  operations each; an operation completes or not. `Join` on a vector that has
  grown ends the process (`fault`) or goes on: the loop's iterators are undefined
  only if it moved. A thread is joined in the order of the vector. The program
  calls one thing at a time on the main thread.
* `Reconnect`: a packet is two bytes, so that one byte of rest is what can be left
  over, and a byte knows its connection. What two threads do to the buffer at the
  same moment is not modelled: a handler is one step. The model ends where
  something else than a packet was taken for one (`misread`).
* `SendBuffers`: a failed assertion ends the process (`failed`), as in a debug
  build, and with it the checked `operator[]` that `Buffer()` uses. The callers
  open and close with any size, out of turn and too large ones included; a buffer
  is closed at most once and by the thread that opened it. `PushGlobal` is called
  nowhere, so that the pool is empty and `Pop` makes a chunk; a chunk without a
  reference is freed and its memory may be the next one's. Sharing of the bytes,
  not their values, is what the properties are about. Threads do not end.

## 3. The runs

| Run | Question | Instance |
|---|---|---|
| `send_safety` | do threads that send, complete, fail, disconnect and reconnect keep one writer, lose no wakeup, keep the order, and implement `SendChannel`; is the queue drained, whatever the peer does, and what keeps it from that? | 3 threads, 4 buffers of which 2 are empty, 2 connections, a fatal and a logged write error |
| `send_flag` | does a set flag mean that a send is in progress? It does not | 2 threads, 2 buffers, one connection, no error |
| `recv_safety` | are packets cut, kept, moved and handed over rightly, wherever the network cuts: does the path implement `PacketChannel`? | buffer of 3 x 4 bytes, header 2, packets of 2 to 4 bytes, 14 bytes of stream |
| `recv_live` | does every packet arrive? | buffer of 3 x 3, packets 2 or 3, 10 bytes |
| `service_safety` | what do count, registry and callbacks say of sessions that come and go, do they implement `Admission` and `SessionProtocol`, and does the server end up accepting nobody? | 5 sessions, limit 4 |
| `service_max` | is the maximum reached when the server says so? It is not | 2 sessions, limit 2 |
| `buffers_safety` | can two buffers share a byte, two threads a chunk, or `Close` meet a closed chunk; do they implement `BufferAllocator`? | 2 threads, 3 buffers, 3 chunks of 3 bytes, sizes 0, 1, 3 and 4 |
| `lifetime_server` | which handlers can meet a session that is gone, what ends the process, who is told; is a released session freed, and does the accept chain outlive its service; is `SessionProtocol` kept whoever owns the session? | 2 sessions, a server |
| `lifetime_client` | the same for the sessions nobody keeps | 2 sessions, a client |
| `broadcast_safety` | which thread can wait for which, who hears what in which order (`OrderedBroadcast`), what a thread that waits for itself stops, and does a broadcast end? | 3 threads, 2 sessions, 2 broadcasts, 1 direct send |
| `runtime_safety` | what can a launched thread still meet, what can `Join` miss, and does it end once the context is stopped? | 3 threads, 3 operations |
| `reconnect_safety` | when do two loops share the buffer, bytes pass for a packet that are none, an old read end a new connection, or a session go deaf? | 3 loops, 2 connections, 1 `Start`, buffer of 3 x 2 bytes, 7 bytes a connection |

Why the bounds are enough. In the send path three threads are one that sends,
one that completes and one that disturbs them (a second sender, a disconnect);
four buffers fill a batch of two while one write is pending and leave one for the
next; two connections show what a first one leaves to a second. The stream of the
receive path is longer than the buffer, so that it is rewound when empty, moved
when nearly full and filled again; every packet length and every cut occurs at
every position. Five sessions exceed the half of the limit at which the server
stops, let as many as the limit come and go, and leave one that would be accepted
if the server still did. The sizes of `buffers_safety` are
nothing, a part of a chunk, a chunk exactly and more than a chunk; three chunks
are one for each thread and one that is only kept by a buffer. Two sessions are one
that something happens to while another holds the chain, the loop of `Start` or
the loop of a broadcast; three threads are a broadcast, a completion that
waits and one that connects or disconnects, or, in `Runtime`, one that is joined, one
in a handler and one that it launches. Three loops are one left from an earlier
connection, one of the new connection and one of `Start`; seven bytes fill the
buffer of six and move it. The proofs below
do not depend on any of these numbers.

`CHECK_DEADLOCK FALSE` stands in every run because each system may stop:
nobody has to send, connect or close, the histories are bounded, a thread may
be blocked for ever on a lock it holds, and the process may be gone.

Fairness. `SendPath!FairSpec`: a thread that has begun goes on (weak fairness of
each of its steps, which is what an operating system gives; a lock held by a
blocked thread disables them, so nothing more is assumed of the lock), and
some thread in `io_context::run()` picks up what asio completes by itself: a
write on a socket that was closed or never open, and one whose buffers are all
empty. A write on an open connection is fair to nobody: a peer that advertises a
zero window keeps it pending for ever, and `DrainsOrStrands` names that outcome.
Nothing is assumed of the application: no `Send`, `Connect` or `Disconnect` is
fair.
`RecvPath!FairSpec`: the handlers run, and the network delivers what was sent;
the peer need not send. `ServerService!FairSpec`: the chain's handlers run except
that a pending accept may wait for ever, and a `Disconnect` that has begun ends.
`SessionLifetime!FairSpec`: handlers that are due run, what waits on a closed
socket or acceptor is aborted (asio completes every operation of a socket that
is closed), and nothing is assumed of the peers or the application.
`BroadcastPath!FairSpec`: a thread that has begun goes on whenever the lock it wants
stays free; who gets a contended lock is left open, and no lock is fair.
`Runtime!FairSpec`: the threads are scheduled, `run()` returns when the context is
stopped and a handler ends; that an operation completes or that anybody calls
`Stop` is not assumed.

### What the runs found

* `send_flag`. `ProcessSend` calls `RegisterSend` with `_sendLock` held
  (`Session.cpp:213`), which locks it again: as soon as a buffer was queued during
  a write, the flag stays set with no send in progress. `StrandedForEver` says
  that it then stays so for the life of the object, also across reconnections;
  `DrainsOrStrands` that a queue stays undrained only for this reason, a stranded
  flag, or because the peer of an open connection never takes the write in
  progress: behind a peer that is only slow it is drained in the end.
* `service_max`. The handler registers each session twice
  (`Session.cpp:175`, `Service.cpp:141`) and a release counts once, so that the
  server refuses clients at half of the maximum (`ImplementsAdmission`, `HalfCapacity`), prints "Max
  sessions reached!" with fewer in its set, and after as many departures as the
  maximum never accepts again (`LeaksUntilItStops`).

The properties of the later modules say exactly how far the code can be relied
on, rather than that it can always be:

* `FaultsHaveCauses` (`PeerMayLeave`, `OnlyClientsDangle`, `TerminatedByClose`). On a
  server with its
  service open nothing the network does makes a handler run on a session that is
  gone. What does: a `Disconnect` by somebody else than the read's own handler while
  a read is pending, and the end of the service. On a client `Start` keeps no
  reference (`Service.cpp:76`), so that a session may be gone while its connect
  waits, unless the factory kept one. A registry that is cleared with sessions
  connected may end the process in a destructor (`Session.cpp:78`).
* `ChainOutlivesService`. Closing the acceptor does not stop the chain
  (`Service.cpp:150`); it accepts again and again and in the end uses a service
  that is gone.
* `FrozenForEver`. A broadcast that comes to a session whose completion waits for
  its own lock never returns, and with it no session is added or released again.
* `LateLaunchesEndIt` (`FaultsAreRaces`, `LateLaunchIsFatal`). After a `Launch` while `Join`
  runs the program does not get past the `Join`: clearing the vector terminates the
  process (`ThreadManager.cpp:29`), or the `Join` waits.
* `OnlyReuseHarms`. A session may be connected again only when its loop is over and
  its buffer empty, and `Start` not be called besides. Else two loops may share the
  buffer, the rest of an old packet be taken for a new one, or the abort of an
  old read disconnect the new connection; `NeverDeaf` holds even then.

Other behaviour the properties describe rather than forbid: a session may
hear `OnDisconnected` before `OnConnected` (`CalledOnce`); one that is
released while its accept handler still runs is inserted again, dead
(`ZombiesWereOvertaken`); the second test of the limit is never false
(`NeverRefuses`); buffers are lost by a short write, after which the order still
holds (`InOrder`).

## 4. The proofs

Every safety property of a passing run is also a theorem, for every value of the
constants within the assumptions the modules state. Some theorems no run states
on its own: the type invariant of each module; `NeverDrainsNothing`, `ReadHasRoom`,
`NoPacketLeftBehind` and `IdsAreUnique`; and `DeliversWhatWasSent`, `HalfCapacity`
and `SameOrder`, which the refinements of `PacketChannel`, `Admission` and
`OrderedBroadcast`, checked in their place, say more about.

| Module | Assumed of the constants | Proved |
|---|---|---|
| `SendPathProofs` | `MaxSends`, `MaxConnects` are natural numbers; the error codes are those `HandleError` distinguishes | type invariant, `SingleSender`, `NoLostWakeup`, `NeverDrainsNothing`, `InOrder`, `StrandedForEver`, refinement of `SendChannel` |
| `RecvPathProofs` | `1 <= HeaderSize <= MaxPacket <= BufferSize`, `BufferCount >= 3` | type invariant, `DeliversWhatWasSent`, `ReadHasRoom`, `CleanNeverOverlaps`, `ReceptionGoesOn`, `NoPacketLeftBehind`, refinement of `PacketChannel` |
| `ServerServiceProofs` | finitely many sessions, any natural limit | type invariant, `NeverRefuses`, `CountAccounts`, `HalfCapacity`, `ConnectedAreRegistered`, `ZombiesWereOvertaken`, `CalledOnce`, `LeakedServerAdmitsNobody`, refinements of `Admission` and `SessionProtocol` |
| `SendBuffersProofs` | the size of a chunk and the sizes asked for are natural numbers | type invariant, `NoSharedBytes`, `OneWriterPerChunk`, `CloseFindsOpen`, refinement of `BufferAllocator` |
| `SessionLifetimeProofs` | any sessions, either kind of service | type invariant, `WriteHandlerHasItsSession`, `FaultsHaveCauses` and its three parts, `NoSilentEnd`, refinement of `SessionProtocol` |
| `BroadcastPathProofs` | any threads and sessions, natural bounds | type invariant, `OnlySelfDeadlock`, `SameOrder`, `EveryoneHearsAll`, `FrozenForEver`, refinement of `OrderedBroadcast` |
| `RuntimeProofs` | any threads, a natural bound on operations | type invariant, `IdsAreUnique`, `ManagersOutliveThreads`, `LateLaunchesEndIt` and its two parts |
| `ReconnectProofs` | `BufferSize >= 2`, `BufferCount >= 3`, any loops, natural bounds | type invariant, `OneLoop`, `OnlyReuseHarms`, `NeverDeaf` |

The arguments.

* Send path. The flag is a token. `SingleSender`, `NoLostWakeup` and
  `NeverDrainsNothing` are inductive only together and with `LockInv`: that
  `Drain` finds a buffer needs that nobody else drains; that nobody else drains
  needs that the flag is cleared only by the sender, under the lock, with the
  queue empty; and that the completion is not overtaken by a `Send` needs that the
  lock is held from `Settle` to `Relock`. `InOrder` needs in addition that what is
  issued lies before what the batch holds, and this before the queue. The
  refinement maps the channel's backlog to the queue, and what its writer has taken
  to the one batch or write that is in flight.
* Receive path. `Window` says that the unread cells hold the last bytes received
  in their order; one lemma each shows that `OnWrite`, `OnRead` and `Clean` keep
  it. `StreamInv` says that the sent packets lie end to end, `CutInv` that what was
  handed over ends where the unread bytes begin, `RestInv` that the session goes
  back to reading only without a whole packet and with room for a buffer's size.
  `BufferCount >= 3` is what `Clean` needs: it copies only when less than
  `BufferSize` is free behind the write position, so the data, shorter than one
  packet, begins more than one packet from the front.
* Registry. `ChainInv` says that a session the chain waits with is fresh and that
  the count was below the limit when it was taken and can only have fallen.
  `AccountInv` adds to the count what the chain still owes (`Owed`: two
  registrations before `AddInProcessConnect`, one before `AddInHandler`) and
  equates it with twice the sessions that are here and once those that have gone;
  without `Owed` the equation fails in the middle of an accept.
* Send buffers. Within a chunk buffers lie one behind the other, the closed ones
  below `_usedSize`, the open one at it (`PlaceInv`, `ApartInv`); a chunk somebody
  refers to is not handed out again, so that nothing is cut but at its end.
* Lifetime. Everything follows from who must own a session when (`WriteInv`,
  `ChainInv`, `OwnedInv`): a write's handler one reference, the accept chain one up
  to its end, and the registry one from `AddSession` on while the service is open.
  `OnceInv` and `ReadInv` order the stages, so that a read exists only after the
  connect's handler and ends with its own `Disconnect`; without them a session could
  be released between two stages that the code keeps apart. The properties about
  faults are inductive with these, because a fault ends the model: the step
  that records it is the only one to look at.
* Broadcast. `LockInv` places the owner of each lock: who is in a `_sendLock`
  between two steps is at `Resend` or stuck, so that it wants no other lock. The
  orders follow from the loop: only one broadcast is under way, its number is the
  greatest (`OrderInv`), the sessions it has not come to are registered
  (`LoopInv`), and a session is registered between two broadcasts (`JoinInv`).
* Runtime. Every thread that is alive is in the vector, `Join` has passed only
  threads that are over, and the vector has grown during a `Join` exactly when a
  launch was late (`VectorInv`). So the vector is cleared only with every thread
  over, and `main = "deleted"` has none left (`StageInv`).
* Reconnect. For a tidy session: one loop, an abort only on a closed connection
  (`AbortInv`), the window of the read where the unread bytes end, these consecutive
  and as many as the stream is odd (`FrameInv`); `BufferCount >= 3` again keeps the
  ranges of `Clean` apart. `NeverDeaf` needs neither: some loop of a connected
  session has a read that fits, as the last to advance the buffer registers
  again (`WelcomeInv`).

The refinements. Each is proved from the inductive invariant of its module: the
initial states map to initial states, and every step to a step or a stutter.

* `PacketChannel`: bytes that have `arrived` are those received. A turn of the loop
  that takes a packet is `HandOver`, and every completed read is `Arrive`, whose
  guard is that no whole packet waits: this is `NoPacketLeftBehind`, so that the
  refinement needs more than the order of what is handed over.
* `Admission`: a session is `here` from the store of `_connected` to the end of its
  release, and `gone` afterwards. `Admit` is the store in `ProcessConnect`, where
  the count has not risen since the test in `StartAccept`; that the places taken
  are those the count says is `CountAccounts`, and `Shut` is that test failing.
* `SessionProtocol`: the link is read off `_connected` and whether anybody has
  disconnected, the registry is `_sessions`, or in `SessionLifetime` the references
  of the kind "registry". What is to be shown is that no callback is repeated
  and no session released before it was told, in all orders of the accept handler
  and a `Disconnect` on another thread, and, in `SessionLifetime`, that a
  destructor or a fault changes none of the three. In `ServerService` a repeated
  callback would be a stutter, and `CalledOnce` excludes it.
* `BufferAllocator`: a buffer holds pairs of a chunk and a place in it, so that a chunk
  that is freed and handed out anew, or reset, takes no bytes from a buffer that is
  still referred to. It is `BuffersAreDisjoint` for `Open`, and for the other steps
  that regions do not move.
* `OrderedBroadcast`: `pending` are the sessions the loop has not come to, and the one
  to which its `Send` is on the way. `Push` is `Give`, whatever `Send` goes on to do,
  a session that is not connected is passed over, and the two locks' waits, the
  completions and direct sends are stutters. That one leaves only with its
  connection gone needs `ClosedInv`: who is at `release` is at a closed session.

What only TLC checks. The liveness properties (`DrainsOrStrands`,
`EveryPacketArrives`, `LeaksUntilItStops`, `ReleasedAreFreed`,
`ChainOutlivesService`, `BroadcastsEnd`, `JoinEnds`), which are beyond the prover, and
the two violations (`send_flag`, `service_max`), which are counterexamples.
`LeakedServerAdmitsNobody` is the part of `LeaksUntilItStops` that is a safety
property.

## 5. What is not modelled

* Contents: packet payloads, the values of bytes other than their place in the
  stream, endpoint addresses, socket options, log texts. Nothing in the library
  branches on them.
* Data races as such: two loops in the buffer at once, `Launch` and `Join` in the
  vector at once. `OneLoop` and `late` say when they can happen; `Runtime` takes the
  outcomes a build can produce (the process ends, or it goes on).
* The size field of a packet, which the code does not check against the header's
  own size: `RecvPath` has a peer that sends well-formed packets, on which
  alone the loop of `OnRecv` ends.
* The application's own consumer of a plain `Session`, its callbacks beyond what
  they may do to a session's owners, and its handlers beyond what they launch.
* `Push` and `PushGlobal` of the pool of chunks, which nothing calls, and the end of
  a thread that has a chunk.
* `Listener`: the project file does not compile it and its `async_accept` is
  commented out (`Listener.cpp:47-58`), so that `StartAccept` leaves nothing behind
  that could run and `HandleAccept` is called by nobody. A model would be of code
  that does nothing.
* `NetAddress`, `SocketUtils`, `AsioEvent`, the entry and precompiled headers: no
  state of their own that changes. The scripts are unrelated to the library.

## 6. What could come next

1. An abstract specification of `Runtime` (threads that start, work and are joined)
   and of `Reconnect` for tidy sessions, as the other modules have theirs.
2. Reconnection in `SessionLifetime`, where a session connects once; the loops that
   reconnection leaves behind are in `Reconnect`, without owners.
3. A pool of chunks that is used: `Push` and the end of a thread, once the code
   calls them.
