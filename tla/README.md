# A TLA+ model of the ns-3 federate for Eclipse MOSAIC

The federate couples the network simulator ns-3 to MOSAIC.  MOSAIC's
*ambassador* sends it commands over TCP (add, configure, move and remove nodes,
send messages, advance the time); the federate turns them into ns-3 events, runs
ns-3 up to the time granted and reports receptions and the times at which it
wants to be called next.  This directory models that program in TLA+, checks
small instances with TLC and proves the safety of its components with TLAPS.
Line numbers below are those of the repository's files.

## 1. Inventory

| Component | Files | State it keeps | Operations |
|---|---|---|---|
| **Event kernel** | `mosaic-simulator-impl.{cc,h}` | pending events, clock, current uid, next uid (32 bit), counter of pending events, stop flag, list of destroy events | Schedule, ScheduleWithContext, ScheduleNow, ScheduleDestroy, Remove, Cancel, IsExpired, Stop, RunOneEvent, Run, Destroy |
| **Bridge** | `mosaic-ns3-bridge.{cc,h}` | granted time, reported times, preemption flag, "request in the past" flag, start flag | handshake, command loop, writeNextTime, writeReceive...Message |
| **Node manager** | `mosaic-node-manager.{cc,h}`, `patches/ns3-lte.patch` | id tables in both directions, roles, configuration flags, removed nodes, pool of extra radio nodes | create, activate, configure, move, remove nodes; send; receive |
| **Proxy application** | `mosaic-proxy-app.{cc,h}` | enabled flag, UDP socket | Enable, Disable, TransmitPacket, Receive |
| **Channel** | `client-server-channel.{cc,h}`, `.proto` | two TCP sockets | prepareConnection, connect, length-prefixed protobuf messages in and out |
| **Start-up** | `main.cc`, XML configuration, constructor of the bridge | connections, "close" flag | arguments, configuration, two connections, handshake, run() |

How they interact.  The program has one thread.  `run()` reads a command from
the channel *ambassador to federate*, carries it out and answers `SUCCESS` on the
same channel.  `ADVANCE_TIME` runs the kernel; the callbacks of the events call
the node manager and ns-3's models, which schedule further events.  Scheduling
calls back into the bridge (`Schedule` ends with `writeNextTime`), and so does a
reception, through proxy application and node manager; both write notifications
to the channel *federate to ambassador*, on which the grant is confirmed, too.

What is hard here:

* *Order.*  Two processes and two channels, read independently by the
  ambassador; commands scheduled at absolute times while the clock of ns-3 lags;
  callbacks that schedule for the current time.
* *Stale state.*  `m_reportedTimes` is a cache of what the ambassador was told;
  an EventId outlives its event; a socket keeps the packets nobody took.
* *Sequences.*  A command means one thing before the first grant and another
  after it; time zero is skipped; nodes are configured and removed in any order.
* *Edges.*  The 32-bit uid, the pool of extra nodes, the receive buffer, the socket
  buffers, the four bytes of a message length.
* *Failure.*  Every inconsistency ends the process by `exit(1)`; the peer may
  disappear at any moment, also between the two connections of the start-up; calls
  of `send`, `recv` and `accept` return early, and not every result is looked at.
  Nothing is persisted, so there is no recovery.

What makes each component correct:

* kernel: nothing is executed before the current event, events of one time run
  in scheduling order, none is lost, a handle tells exactly whether its event
  will still be invoked;
* bridge: ns-3 never runs ahead of MOSAIC, a grant is used up or cut short
  exactly at a reception, MOSAIC is asked back for every pending event, the two
  channels stay in step, every command is answered;
* node manager: the id tables are inverse, roles fit the nodes, only configured
  applications are enabled, removed nodes stay silent, and whoever is configured
  for cell messages can reach everyone else who is;
* proxy application: a packet is reported once, in order, and in time;
* channel: messages arrive whole and in order, and the end is noticed;
* start-up: the command loop is entered only by agreement with the ambassador.

`PROJECT.json` lists under `hazards` each place where this is at risk, with the
properties that cover it.

## 2. Modules

| Module | Models | Note |
|---|---|---|
| `MosaicSimulatorImpl` | the class of that name | state and one operator per method; no behaviour of its own |
| `SimulatorUse` | its callers | kernel calls in any order, between events and inside callbacks |
| `MosaicNs3Bridge` | bridge, kernel and ambassador | extends the kernel by the command loop and the two channels |
| `TimeGrant` | | abstract: two clocks, one of which moves only by leave of the other |
| `Startup` | `main()`, the constructor of the bridge, `prepareConnection`, `connect` | and the ambassador up to the answer to `INIT` |
| `ClientServerChannel` | write and read methods at the two ends of a TCP stream | byte by byte |
| `MessageChannel` | | abstract: a FIFO of whole messages |
| `MosaicNodeManager` | node tables | operations in the order the ambassador chooses |
| `CellRouting` | addresses, masks and routes for cell messages | extends the node tables by definitions, no state of its own |
| `MosaicProxyApp` | applications, sockets, network | arrivals, removals, full buffers |
| `*_proofs` | | see section 5 |
| `MC*` | | symmetry sets and constants that a `.cfg` cannot write, for TLC |

How they fit together: `Startup` ends where `MosaicNs3Bridge` begins (its `pc` =
"dispatch" is the bridge's `Init`, with `m_preemptiveExecutionEnabled` as agreed).
`MosaicNs3Bridge` uses the channels as `MessageChannel` describes them, and
`ClientServerChannel` is shown to implement that.  `MosaicNs3Bridge` in turn is shown
to implement `TimeGrant`, which is all the coordinator needs to know.  What a command
or an event makes the node manager and its applications do is left open in the bridge
(it may schedule, report or exit) and modelled in `MosaicNodeManager` and
`MosaicProxyApp`, where in turn commands and arrivals come in any order.

**Kernel.**  Variables carry the names of the members.  An `EventImpl` is a model
value, and the `Scheduler` is the set of its events; `IsNext` is `PeekNext`.
`ProcessOneEvent` ends where the code calls `Invoke()`: what a callback does
follows as separate steps, so that every interleaving of kernel calls from inside
callbacks is covered.  `m_uid` wraps at `UidModulus` (2^32 in the code).
The context of an event and the event count are left out: no method tests them.

**Bridge.**  `pc` says where the federate is in `dispatchCommand()`; one action per
command, and separate steps where the code can be observed in between: each
property of `UPDATE_NODE`, `OnStart()`, each event, each call a callback makes.
`toFed` and `replies` are the two directions of the first channel, `fedOut` is the
second, with room for `Capacity` messages: a `send` into a full buffer blocks, which
is a conjunct (`Notify`) of every step that writes.
`Init` is the state in which the constructor returns: the node manager has then
scheduled events at time 0 while `m_preemptiveExecutionEnabled` was not yet
assigned (lines 43-49), so both outcomes of that read are initial states.
The ambassador is not in this repository; its actions are marked external and
follow the protocol: one command at a time, no command for a time before the one
it has reached.  There are three kinds of it.  "any" reads notifications when it
likes and grants any time.  A *conservative* one reads all notifications before
a grant, grants nothing beyond a request and addresses commands strictly to the
future.  A *sequential* one has a single thread that reads notifications only while
it waits for the confirmation of a grant; it is the one that could block a federate
that blocks it.
When the ambassador disappears (`AmbDisconnects`), commands that have not arrived are
lost.  One that has arrived without its message ends the process or is carried out with
a made-up message of default fields (finding 5 of section 4): `MadeUp` is the command
that `dispatchCommand` then sees, with the time 0, a radio node, an update without
properties.  Without an address to send to, or without a radio to configure, it ends the
process (`CarriedOutByDefault` leaves these commands out).
A second `INIT` is read and not answered, and the `InitMessage` behind it is taken for
a command; with the start time 0 that is no known one, and the loop closes.

**Start-up.**  A connection is listening, pending, connected or broken (a failed
`accept` is only logged, line 152 of `client-server-channel.cc`).  The ambassador may
end at any point, and may announce any version and any times.  It may read `SHUT_DOWN`
before the federate has come to its `exit(1)` (`Answer`, then `Refuse`).

**Channel.**  A message is its length as a varint and its body.  The writer puts bytes
into a buffer of `Capacity` bytes as far as they fit; the reader takes them as
`readVarintPrefix` and `recv(MSG_WAITALL)` do.  The connection may end at any
byte, and `recv` then returns 0, which `readVarintPrefix` takes for a byte of any
value.  With `Signals`, one signal that no check notices may make a `recv` or a `send`
return early.

**Node manager.**  Maps of booleans are sets; `kind` is ns-3's NodeList after the
core nodes; `ended` says why the process ended, one value per `exit(1)`, failed
assertion or null pointer.  `NsAssert` tells the Debug from the Release build.
`LearnedAddress` is the patched `ActivateEpsBearer`.  Positions and transmission
power decide nothing here and are left out.  What `UpdateNodePosition` decides is
modelled: an id that is not known ends the process (`UnknownNode`), a removed node is
not moved, and a wired node has no mobility model to move (`UpdateWiredNode`).

**Cell routing.**  An address is a network prefix and the node's own part (MOSAIC
gives no address twice, so addresses of different nodes differ).  Routing takes the
longest prefix that matches, as ns-3's static routing does; an address on the
backbone is answered by the node that has it, one in a tunnel by the UE for which the
PGW learned it.  The socket of a UE's cell application is bound to the LTE device, so
the Wi-Fi device's route for 10.0.0.0/8 has no part in it.

**Proxy application.**  One application per node.  `FirstApp` are those that
`RemoveNode` reaches (it disables application 0 only).  `Receive` is the callback
of the socket, `Arrive` ns-3's socket: a packet that does not fit is dropped
without a callback.

Definitions with a suffix, such as `Bind_OneWay`, and a comment that begins with
"Mutant" are not part of the model: each is a plausible bug of the definition it is
named after.  Put in its place, it makes TLC find the property violated that
`PROJECT.json` names beside it, so every property checked here can fail.

## 3. Runs

| Run | Question | Result |
|---|---|---|
| `sim` | do all mixtures of kernel calls keep order, count and expiry exact? | holds, 408 036 states |
| `sim_wrap` | are the reserved uids never used? | **violated** once `m_uid` wraps |
| `bridge` | do federate and ambassador stay synchronised, with and without preemption, and is every event executed in the grant of its own time if requests are honoured? | holds, 4 282 284 states |
| `bridge_live` | is every command answered, does the federate end? | holds, 186 406 states |
| `bridge_stranded` | is MOSAIC told a time for every pending event? | **violated** for a command at the time granted last |
| `nodes` | do the tables stay consistent, removed nodes silent and configured nodes within reach? | holds, 217 856 states |
| `nodes_remove` | are all applications of a removed node disabled? | **violated** for the cell application |
| `proxy` | is each packet reported once, in order, in time? | holds, 1 012 438 states |
| `proxy_stale` | is the reported time that of the receipt? | **violated** after a packet met a disabled application |
| `channel` | is a byte stream cut anywhere still a FIFO of whole messages, and is its end noticed? | holds, 9 844 states |
| `channel_end` | is nothing received after the end? | **violated** by an empty message nobody sent |
| `startup` | is the loop entered by agreement only, and does nobody wait for ever? | holds, 8 700 states |

Bounds, all of them constants in the `.cfg` files (or the `MC` modules):

* `sim`: three `EventImpl` objects, time stamps 0 to 2, five allocations of a uid.
  Three simultaneous events are what "an event between two others" needs; more
  objects only repeat it.  Objects are reused when nothing refers to them, so
  sequences are longer than three events.  The specification of this run is
  `SpecBeforeWrap`, which stops at the wrap; the run `sim_wrap` goes beyond it.
* `bridge`: times 0 to 3, four scheduled events besides the initial one, a socket
  buffer of three messages, `m_reportedTimes` trimmed at two entries instead of
  1000.  Grants at three different times give a preempted grant, a later one and a
  command in between; the trimmed set loses entries in the same order as the large
  one.  At the bound of the uids the ambassador sends no command that schedules and
  callbacks schedule nothing.  The theorems need none of these bounds.
* `bridge_live`: times 0 and 1, and as many reported times and messages in the buffer
  as there are times, so that the buffer has a place for every distinct time and
  `m_reportedTimes` forgets none.  `CommandAnswered` holds under this condition only, and
  the program does not enforce it: a full set of 1000 times forgets its smallest one,
  which may then be reported again with every command for it, and commands may ask for
  more times than a socket buffer has places.  With fewer places than times a
  sequential ambassador and the federate do block each other.
* `nodes`: three MOSAIC ids, five nodes, two of them in the pool: the pool can be
  used up, and a wired node, a radio node and an eNB coexist with it.  Networks are
  those that the assertions on addresses tell apart.
* `proxy`: three nodes, three messages, room for two packets, two instants.
* `channel`: two bits of length per byte instead of seven, so that lengths of one, two
  and three bytes come with bodies of one to four bytes; at most three bytes of
  length instead of four; a buffer of six bytes.  A command without and one with a message,
  and one message for either kind of write method.  `channel_end` excludes signals.
* `startup`: the right version and a wrong one; times before, at and after zero.

Deadlock is not checked: all these systems may stop (the process ends, the bounds
are reached).  For the bridge, the start-up and the channel the liveness properties
say what deadlock freedom would.

**Fairness.**
*Bridge* (`Fairness`): the federate is one thread that never waits unless it
waits for the ambassador: weak fairness of `Federate`.  Callbacks are finite code:
weak fairness of `HandlerReturns`.  The ambassador reads its sockets, a sequential one
only when its turn comes: weak fairness of `AmbReads`.  It is not assumed that the
ambassador ever sends anything.  That a grant ends although callbacks may schedule for
the current time follows from the bound on uids only; in the program, it is ns-3's
models that must not schedule without end at one instant.
*Start-up* (`FairSpec`): weak fairness of the federate, where a blocked `accept` is not
assumed to fail, and of the ambassador, which is not assumed to end.
*Channel* (`FairSpec`): weak fairness of the reader, a thread that does nothing else;
the writer need not write anything.

## 4. What the violations show

1. `sim_wrap`.  `m_uid` is 32 bits wide and wraps silently.  LTE schedules several
   events per millisecond, so a long run gets there; then events carry the reserved
   uids, and `Remove` takes one with uid 2 for a destroy event.
2. `bridge_stranded`.  A time is reported once, even if it is needed again.  A command
   for exactly the time granted last therefore schedules an event nobody is told of: it
   runs at the next grant that happens to come.  `PendingIsRequested` shows that this
   is the only case: events beyond the last grant are always announced.
3. `nodes_remove`.  `RemoveNode` calls `GetApplication(0)` in every iteration.
   `RemovedStaysSilent` shows that nothing is reported in spite of it, since
   `RecvCellMsg` tests `m_isDeactivated`.
4. `proxy_stale`.  `Receive()` leaves the packet in the socket while the application is
   disabled.  After `Enable()` every arrival hands up an older packet with the current
   time.  The backlog never shrinks, because one packet is taken per arrival; once it
   fills the buffer, ns-3 drops every packet without a callback and the node never
   receives again.
5. `channel_end`.  At the end of the stream `recv` returns 0, `readVarintPrefix` keeps
   the result in a `size_t`, tests it for being negative and decodes the byte it has
   not read.  If that byte happens to be 0, the read methods of messages return a
   message with default fields: an ambassador that ends between a command and its
   message makes the federate carry out a command nobody sent.  The time of such a
   message is 0, so that `ADD_NODE`, `REMOVE_NODE` and `CONF_CELL_RADIO` give `Schedule` a
   negative delay and insert an event before the current time.  The next `readCommand`
   returns UNDEF, which ends the loop, so that this event is never executed; the run
   `bridge` shows that (`PastIsNeverExecuted`).

Met while modelling, and in the model, but without a run of their own:

* `README.md` line 30 says that publishing next events is disabled in the bridge; it is
  enabled unless `INIT` asks for preemption.
* `README.md` lines 51 and 70 say that the channel of a Wi-Fi message is ignored;
  `SendWifiMsg` exits on every channel but CCH.
* `README.md` answers `INIT` with `CMD_SUCCESS` or `CMD_SHUT_DOWN`; a wrong version, or
  another command in its place, ends the process without either.
* The bridge throws away the port that `prepareConnection` returns for the first
  channel (`mosaic-ns3-bridge.cc:67`): with the port 0 nobody learns where to connect.
* `accept` has no timeout.  If the ambassador ends before its second connection,
  the federate waits for ever (`mosaic-ns3-bridge.cc:79`); this is the one exception
  in `Settles`.
* After a `recv` that a signal cut short, `readCommand` receives the whole announced length
  once more, into the beginning of its buffer, and so loses its place in the stream.
  `writeCommand` and `writeTimeMessage` ignore what `send` returns, with the same effect on
  the peer.  `IsMessageChannel` and `InStep` claim nothing after such a step.
* `UPDATE_NODE` for a wired node dereferences the mobility model it does not have
  (`mosaic-node-manager.cc:455-456`); the action `UpdateWiredNode`.
* `WriteVarint32` may write five bytes of length and `readVarintPrefix` refuses more
  than four: messages of 256 megabytes and more are refused, which is noticed.

## 5. Proofs

The theorems hold for every value of the constants that the named assumptions
allow, up to the wrap of `m_uid`.

| Module | Theorem | Property |
|---|---|---|
| `SimulatorUse_proofs` | `TypeCorrect` | `TypeOK` |
| | `NothingInThePast` | `PendingAreLater`, the assertion of `ProcessOneEvent` |
| | `NoEventLost` | `CountExact`, the assertion of `Run` |
| | `UidsFromFour` | `ReservedUidsUnused`, before the wrap |
| | `ExpiredIsExact` | `ExpiredExact` |
| | `ExecutedInOrder` | `ExecutionOrder` |
| | `NoComeback` | `ExpiredForGood` |
| `MosaicNs3Bridge_proofs` | `TypesOfTheLoop` | `TypeOK` |
| | `LoopNeverExecutesThePast` | `PastIsNeverExecuted`, the assertion of `ProcessOneEvent` |
| | `NeverAheadOfMosaic` | `NeverAhead` |
| | `OneAnswerForEveryCommand` | `OneAnswerPerCommand` |
| | `LoopFollowsGrants` | `FollowsGrants`: the refinement of `TimeGrant` |
| `MosaicNs3BridgeEvents_proofs` | `EndMeansNothingIsLeft` | `GrantComplete` |
| | `ReceptionsCutGrantsShort` | `PreemptionExact` |
| | `NoEventIsForgotten` | `PendingIsRequested` |
| | `EventsRunOnTime` | `ExecutedOnTime` |
| `ClientServerChannel_proofs` | `LengthReadsBack` | every length written is read back from exactly its own bytes |
| | `FramesOfPrefix` | messages cut off anywhere are read as the first of them and nothing else |
| | `TypeCorrect` | `TypeOK` |
| | `StaysInStep` | `InStep` |
| | `ImplementsMessageChannel` | `IsMessageChannel`: the refinement of `MessageChannel` |
| `MosaicNodeManager_proofs` | `TypesOfTheNodes` | `TypeOK` |
| | `TablesStayInverse` | `IdTablesInverse` |
| | `RolesAreTheBuiltOnes` | `RolesMatch` |
| | `BookkeepingIsSound` | `NoInternalError` |
| | `NothingRunsUnconfigured` | `EnabledByItsConfiguration` |
| | `IdsAreForGood` | `BindingsPermanent` |
| | `RemovalIsFinal` | `RemovedStaysSilent` |
| | `EveryoneIsReached` | `CellReaches` |
| `MosaicProxyApp_proofs` | `TypesOfTheProxies` | `TypeOK` |
| | `NothingIsReportedTwice` | `ReportedOnce` |
| | `ReportsAreInOrder` | `ReportedInOrder` |
| | `DelayNeedsAMissedCall` | `PromptUnlessMissed` |
| | `RemovedNodesAreSilent` | `RemovedStaysSilent` |
| `Startup_proofs` | `TypeCorrect` | `TypeOK` |
| | `LoopIsAgreedOn` | `ReadyIsAgreed` |
| | `AnswerCanBeTrusted` | `AnswerIsTrue` |

*Assumptions.*  They are named `...Assumption` in the modules that declare the
constants, and TLC evaluates them on every run.  Those with content: more uids than the
reserved ones (and, in the bridge, than the two of the initial state); no negative
delay, which `SimulatorUse` states of its callers and the proof for the bridge derives
(a made-up message apart, see below); bounds and buffers are not empty; `NoId` is no id.  The channel
assumes of its messages that none is empty, that commands and messages differ, that a
body fits into the socket buffers and that its length fits into `MaxPrefix` bytes (less
than 256 megabytes in the code).  The number of messages on their way, and of those
ever sent, has no bound.

**The kernel under any caller.**  None of the properties is inductive alone.
`PendingAreLater` needs that a new event's uid is larger than the current one
(`m_currentUid < m_uid`), and that the events left after an execution are later than
the one executed: keys must differ, so uids are unique among pending events
(`UidsAllocated`).  `CountExact` needs that an event removed is pending: that is
`ExpiredExact`, which in turn needs to know of a handle whose event is neither pending
nor cancelled that it was executed, hence is not after the current key
(`HandlesKnown`), and that every handle's uid has been handed out
(`HandlesAllocated`).  `IInv` is the conjunction.
`MosaicSimulatorImpl_proofs` shows for each kernel operator that it keeps `KernelInv`
and what it does to `m_events`; these lemmas do not mention the callers, and the proofs
of `SimulatorUse` and of the bridge both rest on them.

**The bridge.**  That ns-3 is never ahead rests on the alternation of the two processes,
so `IInv` says what may be underway at once: `OneAtATime` (a command, the work on it, its
answer and a confirmation exclude each other, except behind a second `INIT`),
`WhoWaits` (which of them the ambassador is waiting for), `SomethingIsUnderway` (it
does not wait for nothing) and `ClocksAgree` (the time inside each command, grant or
confirmation against the two clocks).  From `ClocksAgree` no delay is negative, so the kernel
lemmas apply (`KernelInv`).  All this ends with a message made up at the end of the stream:
from there on the federate is `Misled`, which says that the ambassador is gone, that this
one command is the last, and that no event will be executed any more.  What is inductive is
`IInv \/ Misled` (`BecomesMisled`, `LostAreLast`), and each property is shown of both.  The refinement of `TimeGrant` takes one case per action
from the same invariant.

`GrantComplete` needs that the loop ends only if no event up to the grant is left, hence
that among finitely or infinitely many pending events there is a next one (`NextExists`,
from the library's well-foundedness of the naturals).  `PreemptionExact` is
strengthened by `ReceptionsInGrant`: during a grant all unread receptions are of the
current time and have set the flag, between grants there are none.

`PendingIsRequested` is claimed only while the ambassador may choose a grant; `RInv`
says for all states that every reported or needed time beyond the ambassador's is asked for
(`NeededAreAsked`).  It holds although `m_reportedTimes` forgets, because it forgets
only on the safe side: a forgotten time is reported once more.  Time zero needs a case of its own
(`ZeroIsAsked`, `ZeroIsOver`), since `ADVANCE_TIME` 0 runs nothing.
`ExecutedOnTime` adds what a conservative ambassador makes of this: `NothingMissed`
(no event but those of time zero is before the ambassador's time), `AllAhead` between
grants, and `CommandsAhead` for the commands on their way.

**The channel.**  `InStep` says nothing of a length read in part, nor of the message
that the writer is about to begin, and both decide what is read later.  `IInv` therefore
names the messages themselves: there are messages q (the one being written and the one
being read included) and a rest, lost with the connection, such that the bytes on their
way, followed by the rest, are the bytes of q (`Carries`); each message of q is one the
writer may send after the one before (`Orderly`); the reader expects the first and has
read a part of its length, or all of it (`ReaderAt`); the writer is at the last
(`WriterAt`).  This holds until a signal cuts off a call unnoticed, after
which nothing is claimed, or until the end of the stream is reached, after which the
reader gets nothing but empty messages (the violation `channel_end` shows) and fails.
TLC checked this invariant before it was proved.  What the abstract channel sees, `Underway`, is read from the bytes, not from
q, so the refinement needs `FramesOfPrefix`: the bytes determine the messages, also if
the last of them is incomplete.  This in turn rests on `LengthReadsBack`.

Both are statements about recursive functions (`Varint`, `ValueOf`, `Frames`), for
which the library offers induction and recursion theorems with operators as parameters.
The module states them anew with sets and functions (`SizeInduction`,
`RecursionDefines`) and derives them from the well-foundedness of the naturals.  The
equations by which the functions are defined (`VarintDef`, `ValueOfDef`, `FramesDef`) are
then theorems.  A concatenation occurs in the lemmas as the relation `Joined(x, a, b)`,
because the solver applies facts about a relation more readily.

**The nodes.**  `NInv` adds to the properties that the nodes in the pool are radio nodes
(`PoolIsRadio`) and that everything recorded of a node (configuration, enabled
applications, addresses, what the PGW learned) belongs to a node with a MOSAIC id and
agrees with its configuration (`NodesConfigured`).  `CellReaches` then follows in one
state: four cases of sender and receiver against the prefixes of the routes.

**The proxy applications.**  `PInv` says that a message is, for one receiver, in one
place only (on its way, in the buffer, reported: `InOnePlace`), and that a buffer holds
its packets in the order of arrival, none older than one reported (`InOrder`).
`PromptUnlessMissed` is carried along: as long as no call was missed, a buffer is empty.

**The start-up.**  `Inv` says of each label of the constructor what has been written
(`WrittenInOrder`), what has been checked (`CheckedInOrder`), and what the answer then means
(`AnswersMeanIt`).

*Only model-checked*: liveness (`CommandAnswered`, `FederateEnds`, `Settles`,
`EndIsNoticed`), because the prover treats neither fairness nor ENABLED.  Every
invariant and every action property of a passing run is proved.

## 6. Not modelled

* What protobuf makes of a body, and that the buffers for a body are arrays of the announced
  size on the stack.
* How often `readCommand` polls before it receives again: one signal is enough to show
  what follows.
* An `InitMessage` of a second `INIT` whose start time happens to be the number of a
  command: the model has the start time 0.
* The `Release` build is in the model (`NsAssert`), but not in the runs: where its
  checks are compiled out, `EnabledByItsConfiguration` and `CellReaches` are not claimed.
* `main.cc` beyond its control flow: log levels, attributes of ns-3, arguments.
* Positions, transmission power, the Wi-Fi stack, printing: no property depends on them.
  `RejectAnyUeConnectionRequest` has no caller.
* Build and launch scripts have no state at run time.
* ns-3 itself: what callbacks do is left open, within what its interfaces allow.

## 7. Plan

What is left, in the order of its worth:

1. `Federate`: bridge, node manager and proxy application composed, for properties that
   cross them: a message sent by command is reported at most once, and commands sent
   before and after the start take effect in the order of their times.
2. The Release build: a run with `NsAssert = FALSE` that shows what the assertions
   on addresses and interfaces protect.
3. Two signals in the channel, and the repeated command that a lost place in the stream
   may produce.
4. A safety theorem behind `FederateEnds`: with at least as many places in the buffer as
   unread notifications there can be, a sequential ambassador never waits for a federate
   that is blocked by it.
