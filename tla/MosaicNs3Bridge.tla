---------------------------- MODULE MosaicNs3Bridge ----------------------------
(***************************************************************************)
(* The command loop of src/mosaic-ns3-bridge.cc on top of the event        *)
(* kernel, and the ambassador at the other end of the two TCP channels.    *)
(*                                                                         *)
(* The federate is one thread: it reads a command, handles it, answers,    *)
(* and reads the next one.  `pc` says where it is:                         *)
(*    "dispatch"  dispatchCommand() before readCommand()                   *)
(*    "update"    the loop over the properties of UPDATE_NODE              *)
(*    "onStart"   ADVANCE_TIME, before the call of OnStart()               *)
(*    "advance"   ADVANCE_TIME, at the head of the event loop              *)
(*    "handler"   ADVANCE_TIME, inside the callback of an event            *)
(*    "closed"    run() has returned       "exited"  the process has ended *)
(*                                                                         *)
(* What callbacks do is ns-3's and MosaicNodeManager's business: here one  *)
(* may schedule events, report receptions, end the process and return.     *)
(* So one EventImpl stands for all of them.  The time factor is 1: main    *)
(* sets the resolution to nanoseconds.                                     *)
(***************************************************************************)
EXTENDS MosaicSimulatorImpl

F == INSTANCE FiniteSetsExt

CONSTANTS CommandTypes, \* what the ambassador sends besides ADVANCE_TIME
          Delays,       \* delays the callbacks ask for
          MaxTime,      \* bound on every time
          MaxReported,  \* size at which m_reportedTimes is trimmed: 1000
          Capacity,     \* messages the socket buffers of fedOut hold
          Ambassadors   \* the kinds of ambassador: see there

ASSUME CommandTypesAssumption ==
    CommandTypes \cap {"ADVANCE_TIME", "SHUT_DOWN"} = {}
ASSUME DelaysAssumption == Delays \subseteq Nat
ASSUME UidsAssumption == UidModulus > FirstUid + 1
ASSUME BoundsAssumption == {MaxTime, MaxReported, Capacity} \subseteq Nat \ {0}
ASSUME AmbassadorsAssumption ==
    Ambassadors \subseteq {"any", "conservative", "sequential"}

VARIABLES
    \* MosaicNs3Bridge
    pc, update, m_didRunOnStart, m_preemptiveExecutionEnabled,
    m_didRequestEventInThePast, m_currentAdvanceTime, m_reportedTimes,
    \* the two channels, both directions of the first
    toFed,      \* ambassadorFederateChannel, commands
    replies,    \* ambassadorFederateChannel, SUCCESS messages
    fedOut,     \* federateAmbassadorChannel
    \* the ambassador
    ambKind,    \* one of Ambassadors, for good
    ambState,   \* "ready", waiting ("reply", "confirm"), "init", "done", "gone"
    ambTime,    \* the time it has reached
    requests    \* the time advances the federate has asked for

bridgeVars == <<m_didRunOnStart, m_preemptiveExecutionEnabled,
                m_didRequestEventInThePast, m_currentAdvanceTime, m_reportedTimes>>
channels == <<toFed, replies, fedOut>>
ambVars == <<ambKind, ambState, ambTime, requests>>
vars == <<simVars, pc, update, bridgeVars, channels, ambVars>>

Time == 0 .. MaxTime
Command(type, time, count) == [type |-> type, time |-> time, count |-> count]
Message(type, time) == [type |-> type, time |-> time]

(***************************************************************************)
(* The state in which the constructor returns.  The node manager, created  *)
(* before m_preemptiveExecutionEnabled is assigned and before the sockets  *)
(* exist, has scheduled the initialisation of its core nodes at time 0:    *)
(* writeNextTime(0) read an uninitialised flag, so 0 was either recorded   *)
(* as reported, its message lost, or ignored.  One event stands for them.  *)
(* m_didRequestEventInThePast is not initialised either.                   *)
(***************************************************************************)
Init ==
    /\ \E impl \in Impl :
          m_events = {[ts |-> 0, uid |-> FirstUid, impl |-> impl]}
    /\ m_currentTs = 0
    /\ m_currentUid = 0
    /\ m_uid = FirstUid + 1
    /\ m_unscheduledEvents = 1
    /\ m_stop = FALSE
    /\ m_destroyEvents = << >>
    /\ cancelled = {}
    /\ pc = "dispatch"
    /\ update = [time |-> 0, left |-> 0]
    /\ m_didRunOnStart = FALSE
    /\ m_preemptiveExecutionEnabled \in BOOLEAN
    /\ m_didRequestEventInThePast \in BOOLEAN
    /\ m_currentAdvanceTime = 0
    /\ m_reportedTimes \in {{}, {0}}
    /\ toFed = << >>
    /\ replies = << >>
    /\ fedOut = << >>
    /\ ambKind \in Ambassadors
    /\ ambState = "ready"
    /\ ambTime = 0
    /\ requests = {0}

-----------------------------------------------------------------------------
(* Messages for the ambassador: send blocks while the buffers are full. *)
Notify(messages) ==
    /\ Len(fedOut \o messages) <= Capacity
    /\ fedOut' = fedOut \o messages

(***************************************************************************)
(* writeNextTime(time) followed by the messages `then`.                    *)
(***************************************************************************)
(* Mutant: a time is reported as often as an event is scheduled for it. *)
Reports_Repeatedly(time) == ~ m_preemptiveExecutionEnabled

(* Mutant: only a time earlier than all others is reported. *)
Reports_Earliest(time) ==
    ~ m_preemptiveExecutionEnabled /\ \A other \in m_reportedTimes : time < other

Reports(time) == ~ m_preemptiveExecutionEnabled /\ time \notin m_reportedTimes

Trim(times) ==
    IF Cardinality(times) > MaxReported THEN times \ {F!Min(times)} ELSE times

writeNextTime(time, then) ==
    IF Reports(time)
    THEN /\ m_reportedTimes' = Trim(m_reportedTimes \cup {time})
         /\ Notify(<<Message("NEXT_EVENT", time)>> \o then)
    ELSE /\ Notify(then)
         /\ UNCHANGED m_reportedTimes

IsInThePast(time) == Reports(time) /\ time < m_currentAdvanceTime

(* Schedule and ScheduleWithContext: insert the event, then tell the bridge. *)
SimSchedule(delay) ==
    /\ m_uid + 1 < UidModulus
    /\ \E impl \in Impl : Insert(delay, impl)
    /\ writeNextTime(m_currentTs + delay, << >>)

(* Mutant: an absolute time where a delay is expected. *)
ScheduleFor_Absolute(time) ==
    /\ SimSchedule(time)
    /\ UNCHANGED <<m_didRequestEventInThePast, m_didRunOnStart,
                   m_preemptiveExecutionEnabled, m_currentAdvanceTime>>

(* the same, by code that leaves the flag to what writeNextTime makes of it *)
ScheduleFor(time) ==
    /\ SimSchedule(time - m_currentTs)
    /\ m_didRequestEventInThePast' =
          (m_didRequestEventInThePast \/ IsInThePast(time))
    /\ UNCHANGED <<m_didRunOnStart, m_preemptiveExecutionEnabled,
                   m_currentAdvanceTime>>

(* Nothing is scheduled and nothing reported. *)
NoSchedule == UNCHANGED <<simVars, bridgeVars, fedOut>>

-----------------------------------------------------------------------------
(***************************************************************************)
(* dispatchCommand().                                                      *)
(***************************************************************************)
Read(type) ==
    /\ pc = "dispatch"
    /\ toFed # << >>
    /\ Head(toFed).type = type
    /\ toFed' = Tail(toFed)
    /\ UNCHANGED ambVars

Succeed == pc' = "dispatch" /\ replies' = Append(replies, "SUCCESS")
Close == pc' = "closed" /\ UNCHANGED replies
Exit == pc' = "exited" /\ UNCHANGED replies

(* A node created at once schedules its own initialisation, for now; one   *)
(* whose id is taken ends the process.                                     *)
AddNode ==
    /\ Read("ADD_NODE")
    /\ UNCHANGED update
    /\ IF m_didRunOnStart
       THEN ScheduleFor(Head(toFed).time) /\ Succeed
       ELSE \/ ScheduleFor(m_currentTs) /\ Succeed
            \/ NoSchedule /\ Exit

AddNodeB ==
    /\ Read("ADD_NODE_B")
    /\ UNCHANGED update
    /\ IF m_didRunOnStart
       THEN NoSchedule /\ Exit
       ELSE ScheduleFor(m_currentTs) /\ Succeed

UpdateNode ==
    /\ Read("UPDATE_NODE")
    /\ pc' = "update"
    /\ update' = [time |-> Head(toFed).time, left |-> Head(toFed).count]
    /\ NoSchedule
    /\ UNCHANGED replies

(* Mutant: every property is acknowledged. *)
UpdateOne_Answers ==
    /\ pc = "update"
    /\ update.left > 0
    /\ ScheduleFor(update.time)
    /\ update' = [update EXCEPT !.left = @ - 1]
    /\ replies' = Append(replies, "SUCCESS")
    /\ UNCHANGED <<pc, toFed, ambVars>>

UpdateOne ==
    /\ pc = "update"
    /\ update.left > 0
    /\ ScheduleFor(update.time)
    /\ update' = [update EXCEPT !.left = @ - 1]
    /\ UNCHANGED <<pc, toFed, replies, ambVars>>

(* Mutant: the acknowledgement is forgotten. *)
UpdateDone_Silent ==
    /\ pc = "update"
    /\ update.left = 0
    /\ pc' = "dispatch"
    /\ NoSchedule
    /\ UNCHANGED <<update, toFed, replies, ambVars>>

UpdateDone ==
    /\ pc = "update"
    /\ update.left = 0
    /\ Succeed
    /\ NoSchedule
    /\ UNCHANGED <<update, toFed, ambVars>>

(* INIT is answered once, by the constructor.  Here its InitMessage is not *)
(* even read: it is the next command.                                      *)
InitAgain ==
    /\ Read("INIT")
    /\ NoSchedule
    /\ UNCHANGED <<pc, update, replies>>

RemoveNode ==
    /\ Read("REMOVE_NODE")
    /\ ScheduleFor(Head(toFed).time)
    /\ Succeed
    /\ UNCHANGED update

(* More than one radio ends the process. *)
ConfWifiRadio ==
    /\ Read("CONF_WIFI_RADIO")
    /\ UNCHANGED update
    /\ \/ ScheduleFor(Head(toFed).time) /\ Succeed
       \/ NoSchedule /\ Exit

(* SEND_WIFI_MSG and SEND_CELL_MSG: nothing is sent at time zero, and a    *)
(* message without a topological address ends the process.                 *)
SendMsg ==
    /\ Read("SEND_MSG")
    /\ UNCHANGED update
    /\ \/ ScheduleFor(F!Max({Head(toFed).time, 1})) /\ Succeed
       \/ NoSchedule /\ Exit

(* Configured at once, a radio may schedule the first steps of its attachment. *)
ConfCellRadio ==
    /\ Read("CONF_CELL_RADIO")
    /\ UNCHANGED update
    /\ IF m_didRunOnStart
       THEN ScheduleFor(Head(toFed).time) /\ Succeed
       ELSE \/ (ScheduleFor(m_currentTs) \/ NoSchedule) /\ Succeed
            \/ NoSchedule /\ Exit

(* Mutant: the command loop goes on. *)
ShutDown_Continues ==
    /\ Read("SHUT_DOWN")
    /\ NoSchedule
    /\ UNCHANGED <<pc, update, replies>>

ShutDown ==
    /\ Read("SHUT_DOWN")
    /\ Close
    /\ NoSchedule
    /\ UNCHANGED update

(* A command the federate does not know.  (A node type it does not know is *)
(* read as the default, a radio node.)                                     *)
Unsupported ==
    /\ Read("UNSUPPORTED")
    /\ Close
    /\ NoSchedule
    /\ UNCHANGED update

(***************************************************************************)
(* ADVANCE_TIME.                                                           *)
(***************************************************************************)
(* Mutant: no request for the events that time zero leaves. *)
AdvanceToZero_NoRequest ==
    /\ Read("ADVANCE_TIME")
    /\ Head(toFed).time = 0
    /\ m_currentAdvanceTime' = 0
    /\ Notify(<<Message("END", m_currentTs)>>)
    /\ UNCHANGED <<simVars, pc, update, m_didRunOnStart, m_reportedTimes,
                   m_preemptiveExecutionEnabled, m_didRequestEventInThePast, replies>>

AdvanceToZero ==
    /\ Read("ADVANCE_TIME")
    /\ Head(toFed).time = 0
    /\ m_currentAdvanceTime' = 0
    /\ writeNextTime(1, <<Message("END", m_currentTs)>>)
    /\ UNCHANGED <<simVars, pc, update, m_didRunOnStart,
                   m_preemptiveExecutionEnabled, m_didRequestEventInThePast, replies>>

(* Mutant: the grant that was cut short is kept. *)
AdvanceTime_KeepsLatest ==
    /\ Read("ADVANCE_TIME")
    /\ Head(toFed).time > 0
    /\ m_currentAdvanceTime' = F!Max({m_currentAdvanceTime, Head(toFed).time})
    /\ pc' = IF m_didRunOnStart THEN "advance" ELSE "onStart"
    /\ m_didRequestEventInThePast' = FALSE
    /\ UNCHANGED <<simVars, update, m_didRunOnStart,
                   m_preemptiveExecutionEnabled, m_reportedTimes, replies, fedOut>>

AdvanceTime ==
    /\ Read("ADVANCE_TIME")
    /\ Head(toFed).time > 0
    /\ m_currentAdvanceTime' = Head(toFed).time
    /\ IF m_didRunOnStart
       THEN pc' = "advance" /\ m_didRequestEventInThePast' = FALSE
       ELSE pc' = "onStart" /\ UNCHANGED m_didRequestEventInThePast
    /\ UNCHANGED <<simVars, update, m_didRunOnStart,
                   m_preemptiveExecutionEnabled, m_reportedTimes, replies, fedOut>>

(* The extra radio nodes, if any, schedule their initialisation for now. *)
OnStart ==
    /\ pc = "onStart"
    /\ \/ SimSchedule(0)
       \/ UNCHANGED <<simVars, m_reportedTimes, fedOut>>
    /\ m_didRunOnStart' = TRUE
    /\ m_didRequestEventInThePast' = FALSE
    /\ pc' = "advance"
    /\ UNCHANGED <<update, m_preemptiveExecutionEnabled, m_currentAdvanceTime,
                   toFed, replies, ambVars>>

IsPreempted == m_preemptiveExecutionEnabled /\ m_didRequestEventInThePast

(* Mutants: the loop runs one time step too far; it stops at a request in  *)
(* the past although preemption is off.                                    *)
LoopContinues_TooFar ==
    ~ IsFinished /\ NextIsBy(m_currentAdvanceTime + 1) /\ ~ IsPreempted
LoopContinues_Stops ==
    ~ IsFinished /\ NextIsBy(m_currentAdvanceTime) /\ ~ m_didRequestEventInThePast

LoopContinues ==
    ~ IsFinished /\ NextIsBy(m_currentAdvanceTime) /\ ~ IsPreempted

RunOneEvent(e) ==
    /\ pc = "advance"
    /\ LoopContinues
    /\ ProcessOneEvent(e)
    /\ pc' = "handler"
    /\ UNCHANGED <<update, bridgeVars, channels, ambVars>>

Confirm ==
    /\ pc = "advance"
    /\ ~ LoopContinues
    /\ LET type == IF IsPreempted THEN "PREEMPTED" ELSE "END"
       IN  Notify(<<Message(type, m_currentTs)>>)
    /\ pc' = "dispatch"
    /\ UNCHANGED <<simVars, update, bridgeVars, toFed, replies, ambVars>>

(***************************************************************************)
(* Inside the callback of an event.                                        *)
(***************************************************************************)
HandlerSchedules(delay) ==
    /\ pc = "handler"
    /\ m_currentTs + delay <= MaxTime
    /\ ScheduleFor(m_currentTs + delay)
    /\ UNCHANGED <<pc, update, toFed, replies, ambVars>>

(* ScheduleNow does not tell the bridge. *)
HandlerSchedulesNow ==
    /\ pc = "handler"
    /\ m_uid + 1 < UidModulus
    /\ \E impl \in Impl : Insert(0, impl)
    /\ UNCHANGED <<pc, update, bridgeVars, channels, ambVars>>

(* Mutant: a reception before the grant goes unnoticed. *)
HandlerReceives_NoFlag ==
    /\ pc = "handler"
    /\ Notify(<<Message("RECV_MSG", m_currentTs)>>)
    /\ UNCHANGED <<simVars, pc, update, bridgeVars, toFed, replies, ambVars>>

(* writeReceiveWifiMessage and writeReceiveCellMessage *)
HandlerReceives ==
    /\ pc = "handler"
    /\ Notify(<<Message("RECV_MSG", m_currentTs)>>)
    /\ m_didRequestEventInThePast' =
          (m_didRequestEventInThePast \/ m_currentTs < m_currentAdvanceTime)
    /\ UNCHANGED <<simVars, pc, update, m_didRunOnStart,
                   m_preemptiveExecutionEnabled, m_currentAdvanceTime,
                   m_reportedTimes, toFed, replies, ambVars>>

HandlerReturns ==
    /\ pc = "handler"
    /\ pc' = "advance"
    /\ UNCHANGED <<simVars, update, bridgeVars, channels, ambVars>>

HandlerExits ==
    /\ pc = "handler"
    /\ Exit
    /\ UNCHANGED <<simVars, update, bridgeVars, toFed, fedOut, ambVars>>

Terminated == pc \in {"closed", "exited"}

(* readCommand returns UNDEF at the end of the stream; a message that is   *)
(* cut off (unless it is made up: see there) and a write to a peer that is *)
(* gone end the process.  ClientServerChannel has the details.             *)
PeerIsGone ==
    /\ ~ Terminated
    /\ ambState = "gone"
    /\ (pc = "dispatch" /\ toFed = << >> /\ Close) \/ Exit
    /\ UNCHANGED <<simVars, update, bridgeVars, toFed, fedOut, ambVars>>

-----------------------------------------------------------------------------
(***************************************************************************)
(* The ambassador, as the protocol has it: one command at a time, waiting  *)
(* for its answer; no command earlier than the time it has reached.  It    *)
(* may read notifications at any time.  Only the requests for a time it    *)
(* has not passed count.  A conservative ambassador reads every            *)
(* notification before it grants a time, grants none beyond a request, and *)
(* addresses no command to a time it has already granted.  A sequential    *)
(* one has a single thread, which reads notifications only while it waits  *)
(* for the confirmation of a grant.  One that sends a second INIT waits    *)
(* ("init") for an answer that never comes; the InitMessage it sends with  *)
(* it, taken for a CommandMessage, is of type UNDEF: the start time 0 is   *)
(* no command.                                                             *)
(***************************************************************************)
Conservative == ambKind = "conservative"
Sequential == ambKind = "sequential"

AmbCommand(type, time, count) ==
    /\ ambState = "ready"
    /\ time >= ambTime
    /\ Conservative => time > ambTime \/ ambTime = 0
    /\ m_uid + count < UidModulus
    /\ toFed' = toFed \o <<Command(type, time, count)>>
                      \o (IF type = "INIT" THEN <<Command("UNSUPPORTED", time, count)>>
                          ELSE << >>)
    /\ ambState' = IF type = "INIT" THEN "init" ELSE "reply"
    /\ UNCHANGED <<simVars, pc, update, bridgeVars, ambKind, replies, fedOut,
                   ambTime, requests>>

AmbAdvance(time) ==
    /\ ambState = "ready"
    /\ time >= ambTime
    /\ Conservative => fedOut = << >> /\ \A r \in requests : time <= r
    /\ toFed' = Append(toFed, Command("ADVANCE_TIME", time, 1))
    /\ ambState' = "confirm"
    /\ ambTime' = time
    /\ requests' = {r \in requests : r > time}
    /\ UNCHANGED <<simVars, pc, update, bridgeVars, ambKind, replies, fedOut>>

AmbReadReply ==
    /\ ambState = "reply"
    /\ replies # << >>
    /\ replies' = Tail(replies)
    /\ ambState' = "ready"
    /\ UNCHANGED <<simVars, pc, update, bridgeVars, ambKind, toFed, fedOut,
                   ambTime, requests>>

IsConfirm(message) == message.type \in {"END", "PREEMPTED"}

AmbReadNotification ==
    /\ ambState # "gone"
    /\ Sequential => ambState \in {"confirm", "done"}
    /\ fedOut # << >>
    /\ ~ IsConfirm(Head(fedOut))
    /\ fedOut' = Tail(fedOut)
    /\ requests' = IF /\ Head(fedOut).type = "NEXT_EVENT"
                      /\ Head(fedOut).time >= ambTime
                   THEN requests \cup {Head(fedOut).time}
                   ELSE requests
    /\ UNCHANGED <<simVars, pc, update, bridgeVars, ambKind, toFed, replies,
                   ambState, ambTime>>

(* A preempted grant takes the ambassador only to the time confirmed. *)
AmbReadConfirm ==
    /\ ambState = "confirm"
    /\ fedOut # << >>
    /\ IsConfirm(Head(fedOut))
    /\ fedOut' = Tail(fedOut)
    /\ ambState' = "ready"
    /\ ambTime' = IF Head(fedOut).type = "PREEMPTED"
                  THEN Head(fedOut).time
                  ELSE ambTime
    /\ UNCHANGED <<simVars, pc, update, bridgeVars, ambKind, toFed, replies, requests>>

AmbShutDown ==
    /\ ambState = "ready"
    /\ toFed' = Append(toFed, Command("SHUT_DOWN", ambTime, 1))
    /\ ambState' = "done"
    /\ UNCHANGED <<simVars, pc, update, bridgeVars, ambKind, replies, fedOut,
                   ambTime, requests>>

(***************************************************************************)
(* What the federate finds behind a command whose message was cut off      *)
(* before the first byte of its length: recv returns 0, and the byte that  *)
(* it has not written may be a 0.  Then the message has default fields,    *)
(* the time 0 among them; a node is a radio node, and an update has no     *)
(* properties.  Of a command without a message nothing is cut off; without *)
(* an address, or without a radio, the process ends.                       *)
(***************************************************************************)
CarriedOutByDefault == {"ADD_NODE", "ADD_NODE_B", "UPDATE_NODE", "REMOVE_NODE",
                        "CONF_CELL_RADIO", "ADVANCE_TIME"}

MadeUp(command) ==
    Command(IF command.type = "ADD_NODE_B" THEN "ADD_NODE" ELSE command.type, 0, 0)

(* What has not arrived is lost with the connection. *)
AmbDisconnects ==
    /\ ambState # "gone"
    /\ ambState' = "gone"
    /\ \/ \E arrived \in 0 .. Len(toFed) : toFed' = SubSeq(toFed, 1, arrived)
       \/ /\ toFed # << >>
          /\ Head(toFed).type \in CarriedOutByDefault
          /\ toFed' = <<MadeUp(Head(toFed))>>
    /\ UNCHANGED <<simVars, pc, update, bridgeVars, ambKind, replies, fedOut,
                   ambTime, requests>>

-----------------------------------------------------------------------------
Dispatch ==
    \/ InitAgain \/ AddNode \/ AddNodeB \/ UpdateNode \/ RemoveNode
    \/ ConfWifiRadio \/ SendMsg \/ ConfCellRadio
    \/ AdvanceToZero \/ AdvanceTime \/ ShutDown \/ Unsupported

Handler ==
    \/ \E delay \in Delays : HandlerSchedules(delay)
    \/ HandlerSchedulesNow \/ HandlerReceives \/ HandlerReturns \/ HandlerExits

Federate ==
    \/ Dispatch \/ UpdateOne \/ UpdateDone
    \/ OnStart \/ (\E e \in m_events : RunOneEvent(e)) \/ Handler \/ Confirm
    \/ PeerIsGone

AmbReads == AmbReadReply \/ AmbReadNotification \/ AmbReadConfirm

Ambassador ==
    \/ \E type \in CommandTypes, time \in Time :
          \E count \in IF type = "UPDATE_NODE" THEN 0 .. 2 ELSE {1} :
              AmbCommand(type, time, count)
    \/ \E time \in Time : AmbAdvance(time)
    \/ AmbReads \/ AmbShutDown \/ AmbDisconnects

Next == Federate \/ Ambassador

Spec == Init /\ [][Next]_vars

(***************************************************************************)
(* The federate never sleeps while it has something to do, every callback  *)
(* returns, and the ambassador reads what it is sent.                      *)
(***************************************************************************)
Fairness ==
    /\ WF_vars(Federate)
    /\ WF_vars(HandlerReturns)
    /\ WF_vars(AmbReads)

FairSpec == Spec /\ Fairness

-----------------------------------------------------------------------------
(* Type invariant. *)
MessageTypes == {"NEXT_EVENT", "RECV_MSG", "END", "PREEMPTED"}

TypeOK ==
    /\ KernelTypeOK
    /\ pc \in {"dispatch", "update", "onStart", "advance", "handler",
               "closed", "exited"}
    /\ update \in [time : Time, left : Nat]
    /\ m_didRunOnStart \in BOOLEAN
    /\ m_preemptiveExecutionEnabled \in BOOLEAN
    /\ m_didRequestEventInThePast \in BOOLEAN
    /\ m_currentAdvanceTime \in Time
    /\ m_reportedTimes \subseteq Time
    /\ toFed \in Seq([type : CommandTypes \cup {"ADVANCE_TIME", "SHUT_DOWN",
                                             "UNSUPPORTED", "ADD_NODE"},
                      time : Time, count : Nat])
    /\ replies \in Seq({"SUCCESS"})
    /\ fedOut \in Seq([type : MessageTypes, time : Time])
    /\ Len(fedOut) <= Capacity
    /\ ambKind \in Ambassadors
    /\ ambState \in {"ready", "reply", "confirm", "init", "done", "gone"}
    /\ ambTime \in Time
    /\ requests \subseteq Time

(* ns-3 never runs ahead of the time MOSAIC has reached, preempted grants  *)
(* included, so that a command addressed to that time or later is never    *)
(* scheduled in the past.                                                  *)
NeverAhead == m_currentTs <= ambTime

Busy == pc \in {"update", "onStart", "advance", "handler"}

(* No event is executed in the past of the one before, which               *)
(* ProcessOneEvent asserts: as long as anything may still be carried out,  *)
(* all pending events are later than the current one.  Schedule accepts a  *)
(* negative delay, and a message made up at the end of the stream causes   *)
(* one (time 0 after ns-3 has advanced); but that is the last command.     *)
PastIsNeverExecuted ==
    ambState # "gone" \/ toFed # << >> \/ Busy => PendingAreLater

Confirms == {i \in DOMAIN fedOut : IsConfirm(fedOut[i])}

(* END for a granted time means that the grant was used up: nothing at or  *)
(* before that time is left.                                               *)
GrantComplete ==
    \A i \in Confirms :
        fedOut[i].type = "END" /\ m_currentAdvanceTime > 0 =>
            \A e \in m_events : e.ts > m_currentAdvanceTime

(* With preemption, MOSAIC can always react in time to a reception: all    *)
(* receptions of a preempted grant happened at the time confirmed, which   *)
(* is before the grant, and those of a grant that ended at the time        *)
(* granted.                                                                *)
PreemptionExact ==
    m_preemptiveExecutionEnabled =>
        \A j \in Confirms :
            LET last == IF fedOut[j].type = "PREEMPTED"
                        THEN fedOut[j].time
                        ELSE m_currentAdvanceTime
            IN  /\ fedOut[j].type = "PREEMPTED" => last < m_currentAdvanceTime
                /\ \A i \in DOMAIN fedOut :
                      fedOut[i].type = "RECV_MSG" => i < j /\ fedOut[i].time = last

InFlight == {fedOut[i].time :
                i \in {j \in DOMAIN fedOut : fedOut[j].type = "NEXT_EVENT"}}

(* Without preemption MOSAIC knows when to come back: whenever it may      *)
(* choose the next grant, every pending event beyond the last grant has    *)
(* been asked for, and those left over from time zero are compensated by a *)
(* request for time 1.  Neither the set of reported times nor its eviction *)
(* swallows a request that is still needed.                                *)
PendingIsRequested ==
    ~ m_preemptiveExecutionEnabled /\ ambState = "ready" =>
        \A e \in m_events :
            /\ e.ts > ambTime => e.ts \in requests \cup InFlight
            /\ e.ts = 0 => (requests \cup InFlight) \cap {0, 1} # {}

(* The two channels never get out of step: a command is in flight, being   *)
(* handled or answered, once and on the right channel; and there is no     *)
(* answer nobody waits for.  A second INIT is followed by nothing but the  *)
(* end.                                                                    *)
OneAnswerPerCommand ==
    ~ Terminated /\ ambState # "gone" =>
        /\ IF ambState = "init"
           THEN ~ Busy /\ replies = << >> /\ Confirms = {}
           ELSE Len(toFed) + (IF Busy THEN 1 ELSE 0) + Len(replies)
                   + Cardinality(Confirms) = (IF ambState = "ready" THEN 0 ELSE 1)
        /\ replies # << >> => ambState = "reply"
        /\ Confirms # {} => ambState = "confirm"

(* A conservative ambassador never hears of a reception before the time it *)
(* granted: every event is executed in the grant of its own time.  (Those  *)
(* of time zero wait for the first grant after it.)                        *)
ExecutedOnTime ==
    Conservative /\ ~ m_preemptiveExecutionEnabled /\ pc = "handler" =>
        m_currentTs \in {0, m_currentAdvanceTime}

(* "write the next Time to the channel": while events are pending, MOSAIC  *)
(* has been told a time to come back at.  PendingIsRequested says so for   *)
(* the events beyond the last grant.  An event scheduled for the time      *)
(* granted last, once that time was reported, is not reported again.       *)
NextTimeAnnounced ==
    ~ m_preemptiveExecutionEnabled /\ ambState = "ready" /\ m_events # {} =>
        requests \cup InFlight # {}

(* The two clocks of the time-grant protocol: ns-3's moves only between a  *)
(* grant and its confirmation, not beyond the grant, and a preempted grant *)
(* takes the ambassador back to where ns-3 is.                             *)
Phase ==
    CASE ambState = "confirm" -> "granted"
      [] ambState \in {"ready", "reply", "init"} -> "idle"
      [] ambState \in {"done", "gone"} -> "over"

Grants == INSTANCE TimeGrant WITH
              phase <- Phase, time <- ambTime, clock <- m_currentTs

FollowsGrants == Grants!Spec

(* A command is answered, or the federate has ended (after a second INIT   *)
(* it has), even if the ambassador reads nothing but the answer, provided  *)
(* that the socket buffers hold a request for every time there is and that *)
(* m_reportedTimes forgets none (Capacity and MaxReported are as large as  *)
(* Time): then the commands between two grants cannot fill the buffers.    *)
(* Once the set is full it forgets its smallest time, which is reported    *)
(* again with each command, and the backlog has no bound.                  *)
CommandAnswered ==
    ambState \in {"reply", "confirm", "init"}
        ~> (ambState \notin {"reply", "confirm", "init"} \/ Terminated)

(* The federate does not outlive its ambassador. *)
FederateEnds == ambState \in {"done", "gone"} ~> Terminated
=============================================================================
