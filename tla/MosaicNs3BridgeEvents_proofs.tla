---------------------- MODULE MosaicNs3BridgeEvents_proofs ----------------------
(***************************************************************************)
(* What MOSAIC may conclude from the messages of a grant: which events are *)
(* left after END, at which time receptions happened, and when it has to   *)
(* come back.                                                              *)
(***************************************************************************)
EXTENDS MosaicNs3Bridge_proofs, WellFoundedInduction

(***************************************************************************)
(* There is a next event.                                                  *)
(***************************************************************************)
LEMMA LeastOf ==
    ASSUME NEW T, T \subseteq Nat, T # {}
    PROVE  \E x \in T : \A y \in T : x <= y
<1>1. \E x \in T : \A y \in T : ~ (<<y, x>> \in OpToRel(<, Nat))
  BY WFMin, NatLessThanWellFounded
<1>2. PICK x \in T : \A y \in T : ~ (<<y, x>> \in OpToRel(<, Nat))
  BY <1>1
<1>3. \A y \in T : ~ (y < x)
  BY <1>2 DEF OpToRel
<1> QED BY <1>3

LEMMA NextExists ==
    ASSUME KernelInv, NEW e \in m_events
    PROVE  \E f \in m_events : IsNext(f) /\ f.ts <= e.ts
<1>1. \A f \in m_events : f.ts \in Nat /\ f.uid \in Nat
  BY UidModulusAssumption DEF KernelInv, KernelTypeOK, EventId, Uid
<1> DEFINE times == {f.ts : f \in m_events}
<1>2. PICK t \in times : \A u \in times : t <= u
  <2>1. times \subseteq Nat /\ times # {}
    BY <1>1
  <2> HIDE DEF times
  <2> QED BY <2>1, LeastOf
<1>3. t \in Nat /\ \A f \in m_events : t <= f.ts
  BY <1>1, <1>2
<1> DEFINE uids == {f.uid : f \in {g \in m_events : g.ts = t}}
<1>4. PICK u \in uids : \A v \in uids : u <= v
  <2>1. uids \subseteq Nat
    BY <1>1
  <2>2. uids # {}
    BY <1>2
  <2> HIDE DEF uids
  <2> QED BY <2>1, <2>2, LeastOf
<1>5. PICK f \in m_events : f.ts = t /\ f.uid = u
  BY <1>4
<1>6. \A g \in m_events : g.ts = t => u <= g.uid
  BY <1>4
<1>7. IsNext(f)
  <2> SUFFICES ASSUME NEW g \in m_events PROVE ~ Before(g, f)
    BY <1>5 DEF IsNext
  <2>1. t <= g.ts /\ (g.ts = t => u <= g.uid)
    BY <1>3, <1>6
  <2>2. g.ts \in Nat /\ g.uid \in Nat /\ f.ts \in Nat /\ f.uid \in Nat
    BY <1>1
  <2> QED BY <1>5, <2>1, <2>2 DEF Before
<1> QED BY <1>3, <1>5, <1>7

(* The loop of ADVANCE_TIME ends at a preemption or with the grant used up. *)
LEMMA LoopEnds ==
    ASSUME IInv, ~ LoopContinues, ~ IsPreempted
    PROVE  \A e \in m_events : e.ts > m_currentAdvanceTime
<1> SUFFICES ASSUME NEW e \in m_events, ~ e.ts > m_currentAdvanceTime PROVE FALSE
  OBVIOUS
<1>1. PICK f \in m_events : IsNext(f) /\ f.ts <= e.ts
  BY NextExists DEF IInv
<1>2. e.ts \in Nat /\ f.ts \in Nat /\ m_currentAdvanceTime \in Nat
  BY <1>1, BoundsAssumption
     DEF IInv, TypeOK, KernelInv, KernelTypeOK, EventId, Time
<1>3. NextIsBy(m_currentAdvanceTime)
  BY <1>1, <1>2 DEF NextIsBy
<1> QED BY <1>3 DEF LoopContinues, IsFinished, IInv

(***************************************************************************)
(* Once a grant is confirmed, nothing happens until MOSAIC has read it.    *)
(***************************************************************************)
LEMMA QuietOnceConfirmed ==
    ASSUME IInv, [Next]_vars, ~ NoConfirm
    PROVE  /\ UNCHANGED <<m_events, m_currentTs, m_preemptiveExecutionEnabled,
                          m_currentAdvanceTime>>
           /\ ~ Busy /\ ~ Busy'
           /\ \A i \in DOMAIN fedOut' :
                 \E j \in DOMAIN fedOut :
                    /\ fedOut'[i] = fedOut[j]
                    /\ j - i = Len(fedOut) - Len(fedOut')
<1>1. /\ ~ Busy /\ toFed = << >> /\ replies = << >>
      /\ ambState \in {"confirm", "gone"}
  BY DEF IInv, OneAtATime, WhoWaits
<1>2. fedOut \in Seq(MessageSet)
  BY DEF IInv, TypeOK, MessageSet
<1>3. CASE UNCHANGED vars
  <2>1. /\ UNCHANGED <<m_events, m_currentTs, m_preemptiveExecutionEnabled,
                       m_currentAdvanceTime, fedOut>>
        /\ ~ Busy'
    BY <1>1, <1>3 DEF vars, simVars, bridgeVars, channels, Busy
  <2>2. Len(fedOut) \in Nat
    BY <1>2, LenProperties
  <2>3. DOMAIN fedOut = 1 .. Len(fedOut)
    BY <1>2, LenProperties
  <2> QED BY <1>1, <2>1, <2>2, <2>3
<1>4. CASE Federate
  <2>1. PeerIsGone
    BY <1>1, <1>4
       DEF Federate, Dispatch, InitAgain, AddNode, AddNodeB, UpdateNode, RemoveNode,
           ConfWifiRadio, SendMsg, ConfCellRadio, AdvanceToZero, AdvanceTime,
           ShutDown, Unsupported, Read, UpdateOne, UpdateDone, OnStart, RunOneEvent,
           Handler, HandlerSchedules, HandlerSchedulesNow, HandlerReceives,
           HandlerReturns, HandlerExits, Confirm, Busy
  <2>2. /\ UNCHANGED <<m_events, m_currentTs, m_preemptiveExecutionEnabled,
                       m_currentAdvanceTime, fedOut>>
        /\ ~ Busy'
    BY <2>1 DEF PeerIsGone, Close, Exit, simVars, bridgeVars, Busy
  <2>3. Len(fedOut) \in Nat /\ DOMAIN fedOut = 1 .. Len(fedOut)
    BY <1>2, LenProperties
  <2> QED BY <1>1, <2>2, <2>3
<1>5. CASE Ambassador
  <2>1. /\ UNCHANGED <<m_events, m_currentTs, m_preemptiveExecutionEnabled,
                       m_currentAdvanceTime>>
        /\ UNCHANGED fedOut \/ (fedOut # << >> /\ fedOut' = Tail(fedOut))
        /\ ~ Busy'
    BY <1>1, <1>5
       DEF Ambassador, AmbCommand, AmbAdvance, AmbReads, AmbReadReply,
           AmbReadNotification, AmbReadConfirm, AmbShutDown, AmbDisconnects,
           simVars, bridgeVars, channels, Busy
  <2>2. Len(fedOut) \in Nat /\ DOMAIN fedOut = 1 .. Len(fedOut)
    BY <1>2, LenProperties
  <2>3. CASE fedOut # << >> /\ fedOut' = Tail(fedOut)
    <3>1. /\ fedOut' \in Seq(MessageSet)
          /\ Len(fedOut') = Len(fedOut) - 1
          /\ \A i \in 1 .. Len(fedOut') : fedOut'[i] = fedOut[i + 1]
      BY <1>2, <2>3, HeadTailProperties
    <3>2. Len(fedOut') \in Nat /\ DOMAIN fedOut' = 1 .. Len(fedOut')
      BY <3>1, LenProperties
    <3>3. SUFFICES ASSUME NEW i \in DOMAIN fedOut'
                   PROVE  \E j \in DOMAIN fedOut :
                            /\ fedOut'[i] = fedOut[j]
                            /\ j - i = Len(fedOut) - Len(fedOut')
      BY <1>1, <2>1
    <3>4. i + 1 \in DOMAIN fedOut /\ (i + 1) - i = Len(fedOut) - Len(fedOut')
      BY <2>2, <3>1, <3>2
    <3>5. fedOut'[i] = fedOut[i + 1]
      BY <3>1, <3>2
    <3> QED BY <3>4, <3>5
  <2>4. CASE UNCHANGED fedOut
    BY <1>1, <2>1, <2>2, <2>4
  <2> QED BY <2>1, <2>3, <2>4
<1> QED BY <1>3, <1>4, <1>5 DEF Next

(***************************************************************************)
(* What a step of the federate writes.                                     *)
(***************************************************************************)
LEMMA WhatIsWritten ==
    ASSUME IInv, Federate
    PROVE  \/ UNCHANGED fedOut
           \/ \E time \in Time : writeNextTime(time, << >>)
           \/ HandlerReceives \/ Confirm \/ AdvanceToZero
<1>1. m_currentTs \in Time /\ m_currentTs \in Nat
  BY CurrentTsIsTime DEF IInv, KernelInv, KernelTypeOK
<1>2. ASSUME NEW time \in Time, ScheduleFor(time)
      PROVE  writeNextTime(time, << >>)
  <2>1. time \in Nat
    BY BoundsAssumption DEF Time
  <2>2. m_currentTs + (time - m_currentTs) = time
    BY <1>1, <2>1
  <2> QED BY <1>2, <2>2 DEF ScheduleFor, SimSchedule
<1>3. ASSUME NEW type, Read(type)
      PROVE  Head(toFed).time \in Time /\ F!Max({Head(toFed).time, 1}) \in Time
  <2>1. Head(toFed).time \in Time
    BY <1>3, ReadProperties
  <2> QED BY <2>1, MaxProperties
<1>4. CASE Dispatch
  <2>1. CASE AddNode \/ AddNodeB
    BY <1>1, <1>2, <1>3, <2>1 DEF AddNode, AddNodeB, NoSchedule
  <2>2. CASE RemoveNode \/ ConfWifiRadio
    BY <1>2, <1>3, <2>2 DEF RemoveNode, ConfWifiRadio, NoSchedule
  <2>3. CASE SendMsg \/ ConfCellRadio
    BY <1>1, <1>2, <1>3, <2>3 DEF SendMsg, ConfCellRadio, NoSchedule
  <2> QED BY <1>4, <2>1, <2>2, <2>3
          DEF Dispatch, InitAgain, UpdateNode, AdvanceTime, ShutDown, Unsupported,
              NoSchedule
<1>5. CASE UpdateOne \/ UpdateDone
  <2>1. update.time \in Time
    BY DEF IInv, TypeOK
  <2> QED BY <1>2, <1>5, <2>1 DEF UpdateOne, UpdateDone, NoSchedule
<1>6. CASE OnStart
  <2>1. m_currentTs + 0 = m_currentTs
    BY <1>1
  <2> QED BY <1>1, <1>6, <2>1 DEF OnStart, SimSchedule
<1>7. CASE \E e \in m_events : RunOneEvent(e)
  BY <1>7 DEF RunOneEvent, channels
<1>8. CASE Handler
  <2>1. ASSUME NEW delay \in Delays, HandlerSchedules(delay)
        PROVE  \E time \in Time : writeNextTime(time, << >>)
    <3>1. ScheduleFor(m_currentTs + delay) /\ m_currentTs + delay \in Time
      BY <1>1, <2>1, DelaysAssumption, BoundsAssumption DEF HandlerSchedules, Time
    <3> QED BY <1>2, <3>1
  <2> QED BY <1>8, <2>1
          DEF Handler, HandlerSchedulesNow, HandlerReturns, HandlerExits, channels
<1>9. CASE Confirm \/ PeerIsGone
  BY <1>9 DEF PeerIsGone
<1> QED BY <1>4, <1>5, <1>6, <1>7, <1>8, <1>9 DEF Federate

(* Only the end of a grant is a confirmation. *)
LEMMA WhoConfirms ==
    ASSUME IInv, [Next]_vars, NoConfirm, ~ Confirm, ~ AdvanceToZero
    PROVE  NoConfirm'
<1>1. TypeOK /\ fedOut \in Seq(MessageSet)
  BY DEF IInv, TypeOK, MessageSet
<1>2. ASSUME UNCHANGED fedOut PROVE NoConfirm'
  BY <1>2 DEF NoConfirm
<1>3. CASE UNCHANGED vars
  BY <1>2, <1>3 DEF vars, channels
<1>4. CASE Federate
  <2>1. ASSUME NEW time \in Time, writeNextTime(time, << >>) PROVE NoConfirm'
    BY <1>1, <2>1, AnnounceKeeps
  <2>2. CASE HandlerReceives
    <3> DEFINE m == Message("RECV_MSG", m_currentTs)
    <3>1. Notify(<<m>>) /\ m \in MessageSet /\ ~ IsConfirm(m)
      BY <2>2, CurrentTsIsTime
         DEF HandlerReceives, Message, MessageSet, MessageTypes, IsConfirm
    <3> HIDE DEF m
    <3>2. \A i \in DOMAIN fedOut' : IsConfirm(fedOut'[i]) => fedOut'[i] = m
      BY <1>1, <3>1, NotifyOne
    <3> QED BY <3>1, <3>2 DEF NoConfirm, IsConfirm
  <2> QED BY <1>2, <1>4, <2>1, <2>2, WhatIsWritten
<1>5. CASE Ambassador
  <2>1. UNCHANGED fedOut \/ (fedOut # << >> /\ fedOut' = Tail(fedOut))
    BY <1>5
       DEF Ambassador, AmbCommand, AmbAdvance, AmbReads, AmbReadReply,
           AmbReadNotification, AmbReadConfirm, AmbShutDown, AmbDisconnects, channels
  <2>2. ASSUME fedOut # << >>, fedOut' = Tail(fedOut) PROVE NoConfirm'
    <3>1. /\ fedOut' \in Seq(MessageSet)
          /\ Len(fedOut') = Len(fedOut) - 1
          /\ \A i \in 1 .. Len(fedOut') : fedOut'[i] = fedOut[i + 1]
      BY <1>1, <2>2, HeadTailProperties
    <3>2. DOMAIN fedOut' = 1 .. Len(fedOut') /\ DOMAIN fedOut = 1 .. Len(fedOut)
          /\ Len(fedOut) \in Nat
      BY <1>1, <3>1, LenProperties
    <3>3. \A i \in DOMAIN fedOut' : i + 1 \in DOMAIN fedOut /\ fedOut'[i] = fedOut[i + 1]
      BY <3>1, <3>2
    <3> QED BY <3>3 DEF NoConfirm
  <2> QED BY <1>2, <2>1, <2>2
<1> QED BY <1>3, <1>4, <1>5 DEF Next

LEMMA Appended ==
    ASSUME fedOut \in Seq(MessageSet), NEW m \in MessageSet, Notify(<<m>>)
    PROVE  /\ Len(fedOut') \in DOMAIN fedOut' /\ fedOut'[Len(fedOut')] = m
           /\ \A i \in DOMAIN fedOut' :
                 i # Len(fedOut') =>
                    i < Len(fedOut') /\ i \in DOMAIN fedOut /\ fedOut'[i] = fedOut[i]
<1>1. <<m>> \in Seq(MessageSet) /\ Len(<<m>>) = 1 /\ <<m>>[1] = m
  OBVIOUS
<1>2. /\ fedOut' \in Seq(MessageSet)
      /\ Len(fedOut') = Len(fedOut) + Len(<<m>>)
      /\ \A i \in 1 .. Len(fedOut) : fedOut'[i] = fedOut[i]
      /\ \A i \in 1 .. Len(<<m>>) : fedOut'[Len(fedOut) + i] = <<m>>[i]
  BY <1>1, NotifyProperties
<1>3. /\ Len(fedOut) \in Nat
      /\ DOMAIN fedOut = 1 .. Len(fedOut)
      /\ DOMAIN fedOut' = 1 .. Len(fedOut')
  BY <1>2, LenProperties
<1>4. Len(fedOut') = Len(fedOut) + 1 /\ fedOut'[Len(fedOut) + 1] = m
  BY <1>1, <1>2
<1> QED BY <1>2, <1>3, <1>4

(* The message with which a grant ends. *)
LEMMA WhatIsConfirmed ==
    ASSUME IInv, Confirm
    PROVE  /\ NoConfirm /\ pc = "advance" /\ ~ LoopContinues
           /\ UNCHANGED <<m_events, m_preemptiveExecutionEnabled, m_currentAdvanceTime>>
           /\ Len(fedOut') \in DOMAIN fedOut'
           /\ fedOut'[Len(fedOut')] =
                 Message(IF IsPreempted THEN "PREEMPTED" ELSE "END", m_currentTs)
           /\ \A i \in DOMAIN fedOut' :
                 i # Len(fedOut') =>
                    i < Len(fedOut') /\ i \in DOMAIN fedOut /\ fedOut'[i] = fedOut[i]
<1> DEFINE m == Message(IF IsPreempted THEN "PREEMPTED" ELSE "END", m_currentTs)
<1>1. /\ pc = "advance" /\ ~ LoopContinues /\ Notify(<<m>>)
      /\ UNCHANGED <<m_events, m_preemptiveExecutionEnabled, m_currentAdvanceTime>>
  BY DEF Confirm, simVars, bridgeVars
<1>2. NoConfirm /\ fedOut \in Seq(MessageSet)
  BY <1>1 DEF IInv, OneAtATime, Busy, TypeOK, MessageSet
<1>3. m \in MessageSet
  BY CurrentTsIsTime DEF Message, MessageSet, MessageTypes
<1> HIDE DEF m
<1>4. /\ Len(fedOut') \in DOMAIN fedOut' /\ fedOut'[Len(fedOut')] = m
      /\ \A i \in DOMAIN fedOut' :
            i # Len(fedOut') =>
               i < Len(fedOut') /\ i \in DOMAIN fedOut /\ fedOut'[i] = fedOut[i]
  BY <1>1, <1>2, <1>3, Appended
<1> QED BY <1>1, <1>2, <1>4 DEF m

LEMMA GrantStaysComplete ==
    ASSUME IInv, GrantComplete, [Next]_vars PROVE GrantComplete'
<1> SUFFICES ASSUME NEW i \in DOMAIN fedOut', IsConfirm(fedOut'[i]),
                    fedOut'[i].type = "END", m_currentAdvanceTime' > 0
             PROVE  \A e \in m_events' : e.ts > m_currentAdvanceTime'
  BY DEF GrantComplete, Confirms
<1>1. CASE ~ NoConfirm
  <2>1. /\ UNCHANGED <<m_events, m_currentAdvanceTime>>
        /\ \E j \in DOMAIN fedOut : fedOut'[i] = fedOut[j]
    BY <1>1, QuietOnceConfirmed
  <2>2. PICK j \in DOMAIN fedOut : fedOut'[i] = fedOut[j]
    BY <2>1
  <2>3. j \in Confirms /\ fedOut[j].type = "END"
    BY <2>2 DEF Confirms, IsConfirm
  <2> QED BY <2>1, <2>3 DEF GrantComplete
<1>2. CASE Confirm
  <2>1. i = Len(fedOut')
    BY <1>2, WhatIsConfirmed DEF NoConfirm, IsConfirm
  <2>2. ~ IsPreempted
    BY <1>2, <2>1, WhatIsConfirmed DEF Message
  <2> QED BY <1>2, <2>2, LoopEnds, WhatIsConfirmed
<1>3. CASE AdvanceToZero
  BY <1>3 DEF AdvanceToZero
<1>4. CASE NoConfirm /\ ~ Confirm /\ ~ AdvanceToZero
  BY <1>4, WhoConfirms DEF NoConfirm, IsConfirm
<1> QED BY <1>1, <1>2, <1>3, <1>4

(* END after a grant means that it was used up: no event at or before the  *)
(* time granted is left (the loop of ADVANCE_TIME and its confirmation),   *)
(* and none appears before MOSAIC has read the message.                    *)
THEOREM EndMeansNothingIsLeft == Spec => []GrantComplete
<1> DEFINE I == (IInv /\ GrantComplete) \/ Misled
<1>1. Init => I
  BY InitEstablishes DEF Init, GrantComplete, Confirms
<1>2. I /\ [Next]_vars => I'
  BY NextKeeps, GrantStaysComplete, MisledKeeps DEF BecomesMisled, StaysMisled
<1>3. Misled => GrantComplete
  BY DEF Misled, GrantComplete, Confirms
<1> QED BY <1>1, <1>2, <1>3, PTL DEF Spec

(***************************************************************************)
(* Preemption.                                                             *)
(***************************************************************************)
(* During a grant, all receptions are of the current time, and either that *)
(* is the time granted or the flag is set.  Between grants there are none. *)
ReceptionsInGrant ==
    m_preemptiveExecutionEnabled =>
        /\ pc \in {"advance", "handler"} =>
              /\ m_didRequestEventInThePast => m_currentTs < m_currentAdvanceTime
              /\ \A i \in DOMAIN fedOut :
                    IsReception(i) =>
                       /\ fedOut[i].time = m_currentTs
                       /\ m_didRequestEventInThePast \/ m_currentTs = m_currentAdvanceTime
        /\ pc \in {"dispatch", "update", "onStart"} /\ NoConfirm => NoReception

LEMMA PreemptionIsFixed ==
    ASSUME [Next]_vars PROVE UNCHANGED m_preemptiveExecutionEnabled
<1>1. CASE Dispatch
  BY <1>1
     DEF Dispatch, InitAgain, AddNode, AddNodeB, UpdateNode, RemoveNode, ConfWifiRadio,
         SendMsg, ConfCellRadio, AdvanceToZero, AdvanceTime, ShutDown, Unsupported,
         ScheduleFor, NoSchedule, bridgeVars
<1>2. CASE Federate /\ ~ Dispatch
  BY <1>2
     DEF Federate, UpdateOne, UpdateDone, OnStart, RunOneEvent, Handler,
         HandlerSchedules, HandlerSchedulesNow, HandlerReceives, HandlerReturns,
         HandlerExits, Confirm, PeerIsGone, ScheduleFor, NoSchedule, bridgeVars
<1>3. CASE Ambassador
  BY <1>3
     DEF Ambassador, AmbCommand, AmbAdvance, AmbReads, AmbReadReply,
         AmbReadNotification, AmbReadConfirm, AmbShutDown, AmbDisconnects, bridgeVars
<1>4. CASE UNCHANGED vars
  BY <1>4 DEF vars, bridgeVars
<1> QED BY <1>1, <1>2, <1>3, <1>4 DEF Next

(* With preemption no request is written. *)
LEMMA NoRequests ==
    ASSUME IInv, m_preemptiveExecutionEnabled
    PROVE  /\ \A time : writeNextTime(time, << >>) => UNCHANGED fedOut
           /\ \A time : ScheduleFor(time) =>
                 UNCHANGED <<fedOut, m_currentTs, m_didRequestEventInThePast,
                             m_currentAdvanceTime>>
<1>1. fedOut \in Seq(MessageSet)
  BY DEF IInv, TypeOK, MessageSet
<1>2. ASSUME NEW time, writeNextTime(time, << >>) PROVE UNCHANGED fedOut
  <2>1. Notify(<< >>)
    BY <1>2 DEF writeNextTime, Reports
  <2> QED BY <1>1, <2>1, NotifyNothing
<1>3. ASSUME NEW time, ScheduleFor(time)
      PROVE  UNCHANGED <<fedOut, m_currentTs, m_didRequestEventInThePast,
                         m_currentAdvanceTime>>
  <2>1. UNCHANGED <<fedOut, m_currentTs>>
    BY <1>2, <1>3 DEF ScheduleFor, SimSchedule, Insert
  <2>2. m_didRequestEventInThePast' = m_didRequestEventInThePast
    <3>1. m_didRequestEventInThePast \in BOOLEAN
      BY DEF IInv, TypeOK
    <3>2. m_didRequestEventInThePast' =
             (m_didRequestEventInThePast \/ IsInThePast(time))
      BY <1>3 DEF ScheduleFor
    <3>3. ~ IsInThePast(time)
      BY DEF IsInThePast, Reports
    <3> QED BY <3>1, <3>2, <3>3, Zenon
  <2> QED BY <1>3, <2>1, <2>2 DEF ScheduleFor
<1> QED BY <1>2, <1>3

(* Steps that write nothing. *)
LEMMA NothingReceived ==
    ASSUME m_preemptiveExecutionEnabled, ReceptionsInGrant, NoConfirm,
           pc \in {"dispatch", "update", "onStart"},
           pc' \in {"dispatch", "update", "onStart", "closed", "exited"}
              \/ (pc' = "advance" /\ m_didRequestEventInThePast' = FALSE),
           UNCHANGED <<fedOut, m_preemptiveExecutionEnabled>>
    PROVE  ReceptionsInGrant'
<1>1. NoReception
  BY DEF ReceptionsInGrant
<1>2. NoReception'
  BY <1>1 DEF NoReception, IsReception
<1> QED BY <1>2 DEF ReceptionsInGrant, NoReception

LEMMA DispatchKeepsReceptions ==
    ASSUME IInv, ReceptionsInGrant, m_preemptiveExecutionEnabled, NoConfirm,
           Dispatch, ~ AdvanceToZero
    PROVE  ReceptionsInGrant'
<1>1. UNCHANGED m_preemptiveExecutionEnabled
  BY PreemptionIsFixed DEF Next, Federate
<1>2. pc = "dispatch"
  BY DEF Dispatch, InitAgain, AddNode, AddNodeB, UpdateNode, RemoveNode, ConfWifiRadio,
         SendMsg, ConfCellRadio, AdvanceTime, ShutDown, Unsupported, Read
<1>3. UNCHANGED fedOut
  BY NoRequests
     DEF Dispatch, InitAgain, AddNode, AddNodeB, UpdateNode, RemoveNode, ConfWifiRadio,
         SendMsg, ConfCellRadio, AdvanceTime, ShutDown, Unsupported, NoSchedule
<1>4. \/ pc' \in {"dispatch", "update", "onStart", "closed", "exited"}
      \/ pc' = "advance" /\ m_didRequestEventInThePast' = FALSE
  BY <1>2
     DEF Dispatch, InitAgain, AddNode, AddNodeB, UpdateNode, RemoveNode, ConfWifiRadio,
         SendMsg, ConfCellRadio, AdvanceTime, ShutDown, Unsupported, Succeed, Close, Exit
<1> QED BY <1>1, <1>2, <1>3, <1>4, NothingReceived

LEMMA EventKeepsReceptions ==
    ASSUME IInv, ReceptionsInGrant, m_preemptiveExecutionEnabled,
           NEW e, RunOneEvent(e)
    PROVE  ReceptionsInGrant'
<1>1. /\ pc = "advance" /\ pc' = "handler" /\ ~ m_didRequestEventInThePast
      /\ UNCHANGED <<fedOut, m_preemptiveExecutionEnabled, m_didRequestEventInThePast,
                     m_currentAdvanceTime>>
  BY DEF RunOneEvent, LoopContinues, IsPreempted, bridgeVars, channels
<1>2. /\ m_currentTs' \in Nat /\ m_currentTs <= m_currentTs'
      /\ m_currentTs' <= m_currentAdvanceTime
  BY ExecutedInGrant
<1>3. m_currentTs \in Nat /\ m_currentAdvanceTime \in Nat
  BY BoundsAssumption DEF IInv, TypeOK, KernelTypeOK, Time
<1>4. ASSUME NEW i \in DOMAIN fedOut, IsReception(i)
      PROVE  fedOut[i].time = m_currentTs' /\ m_currentTs' = m_currentAdvanceTime
  <2>1. fedOut[i].time = m_currentTs /\ m_currentTs = m_currentAdvanceTime
    BY <1>1, <1>4 DEF ReceptionsInGrant
  <2> QED BY <1>2, <1>3, <2>1
<1> QED BY <1>1, <1>4 DEF ReceptionsInGrant, IsReception

LEMMA HandlerKeepsReceptions ==
    ASSUME IInv, ReceptionsInGrant, m_preemptiveExecutionEnabled, Handler
    PROVE  ReceptionsInGrant'
<1>1. pc = "handler" /\ UNCHANGED m_preemptiveExecutionEnabled
  BY PreemptionIsFixed
     DEF Next, Federate, Handler, HandlerSchedules, HandlerSchedulesNow,
         HandlerReceives, HandlerReturns, HandlerExits
<1>2. /\ m_didRequestEventInThePast => m_currentTs < m_currentAdvanceTime
      /\ \A i \in DOMAIN fedOut :
            IsReception(i) =>
               /\ fedOut[i].time = m_currentTs
               /\ m_didRequestEventInThePast \/ m_currentTs = m_currentAdvanceTime
  BY <1>1 DEF ReceptionsInGrant
<1>3. CASE ~ HandlerReceives
  <2>1. /\ pc' \in {"handler", "advance", "exited"}
        /\ UNCHANGED <<fedOut, m_currentTs, m_didRequestEventInThePast,
                       m_currentAdvanceTime>>
    BY <1>1, <1>3, NoRequests
       DEF Handler, HandlerSchedules, HandlerSchedulesNow, HandlerReturns,
           HandlerExits, Exit, Insert, simVars, bridgeVars, channels
  <2> QED BY <1>1, <1>2, <2>1 DEF ReceptionsInGrant, IsReception
<1>4. CASE HandlerReceives
  <2> DEFINE m == Message("RECV_MSG", m_currentTs)
  <2>1. /\ Notify(<<m>>) /\ pc' = "handler"
        /\ UNCHANGED <<m_currentTs, m_currentAdvanceTime>>
    BY <1>1, <1>4 DEF HandlerReceives, simVars
  <2>2. m_didRequestEventInThePast' =
           (m_didRequestEventInThePast \/ m_currentTs < m_currentAdvanceTime)
    BY <1>4 DEF HandlerReceives
  <2>3. m_didRequestEventInThePast' <=> m_currentTs < m_currentAdvanceTime
    BY <1>2, <2>2, Zenon
  <2>4. m_currentTs \in Nat /\ m_currentAdvanceTime \in Nat
        /\ m_currentTs <= m_currentAdvanceTime
    BY <1>1, BoundsAssumption
       DEF IInv, TypeOK, KernelTypeOK, Time, ClocksAgree, Granted
  <2>5. m_currentTs < m_currentAdvanceTime \/ m_currentTs = m_currentAdvanceTime
    BY <2>4
  <2>6. m \in MessageSet /\ fedOut \in Seq(MessageSet) /\ m.time = m_currentTs
    BY CurrentTsIsTime DEF Message, MessageSet, MessageTypes, IInv, TypeOK
  <2> HIDE DEF m
  <2>7. \A i \in DOMAIN fedOut' :
           fedOut'[i] = m \/ (i \in DOMAIN fedOut /\ fedOut'[i] = fedOut[i])
    BY <2>1, <2>6, Appended
  <2>8. ASSUME NEW i \in DOMAIN fedOut', fedOut'[i].type = "RECV_MSG"
        PROVE  fedOut'[i].time = m_currentTs
    BY <1>2, <2>6, <2>7, <2>8 DEF IsReception
  <2> QED BY <2>1, <2>3, <2>5, <2>8 DEF ReceptionsInGrant, IsReception
<1> QED BY <1>3, <1>4

LEMMA AmbassadorKeepsReceptions ==
    ASSUME IInv, ReceptionsInGrant, m_preemptiveExecutionEnabled, NoConfirm,
           Ambassador
    PROVE  ReceptionsInGrant'
<1>1. /\ UNCHANGED <<m_currentTs, pc, m_preemptiveExecutionEnabled,
                     m_didRequestEventInThePast, m_currentAdvanceTime>>
      /\ UNCHANGED fedOut \/ (fedOut # << >> /\ fedOut' = Tail(fedOut))
  BY DEF Ambassador, AmbCommand, AmbAdvance, AmbReads, AmbReadReply,
         AmbReadNotification, AmbReadConfirm, AmbShutDown, AmbDisconnects,
         simVars, bridgeVars, channels
<1>2. \A i \in DOMAIN fedOut' : \E j \in DOMAIN fedOut : fedOut'[i] = fedOut[j]
  <2>1. CASE fedOut # << >> /\ fedOut' = Tail(fedOut)
    <3>1. /\ fedOut \in Seq(MessageSet)
          /\ fedOut' \in Seq(MessageSet)
          /\ Len(fedOut') = Len(fedOut) - 1
          /\ \A i \in 1 .. Len(fedOut') : fedOut'[i] = fedOut[i + 1]
      BY <2>1, HeadTailProperties DEF IInv, TypeOK, MessageSet
    <3>2. /\ Len(fedOut) \in Nat
          /\ DOMAIN fedOut' = 1 .. Len(fedOut')
          /\ DOMAIN fedOut = 1 .. Len(fedOut)
      BY <3>1, LenProperties
    <3>3. \A i \in DOMAIN fedOut' : i + 1 \in DOMAIN fedOut /\ fedOut'[i] = fedOut[i + 1]
      BY <3>1, <3>2
    <3> QED BY <3>3
  <2> QED BY <1>1, <2>1
<1> QED BY <1>1, <1>2 DEF ReceptionsInGrant, NoReception, IsReception

LEMMA ReceptionsStayInGrant ==
    ASSUME IInv, ReceptionsInGrant, [Next]_vars PROVE ReceptionsInGrant'
<1> SUFFICES ASSUME m_preemptiveExecutionEnabled' PROVE ReceptionsInGrant'
  BY DEF ReceptionsInGrant
<1>1. m_preemptiveExecutionEnabled
  BY PreemptionIsFixed
<1>2. CASE ~ NoConfirm
  <2>1. ~ Busy' /\ \A i \in DOMAIN fedOut' :
           \E j \in DOMAIN fedOut :
              fedOut'[i] = fedOut[j] /\ j - i = Len(fedOut) - Len(fedOut')
    BY <1>2, QuietOnceConfirmed
  <2>2. SUFFICES ASSUME NoConfirm' PROVE NoReception'
    BY <2>1 DEF ReceptionsInGrant, Busy
  <2>3. SUFFICES ASSUME NEW k \in DOMAIN fedOut' PROVE FALSE
    BY DEF NoReception
  <2>4. /\ fedOut \in Seq(MessageSet) /\ fedOut' \in Seq(MessageSet)
    BY NextKeeps DEF IInv, BecomesMisled, Misled, TypeOK, MessageSet
  <2>5. /\ Len(fedOut) \in Nat /\ Len(fedOut') \in Nat
        /\ DOMAIN fedOut' = 1 .. Len(fedOut')
        /\ DOMAIN fedOut = 1 .. Len(fedOut)
    BY <2>4, LenProperties
  <2>6. Len(fedOut') \in DOMAIN fedOut'
    BY <2>5
  <2>7. PICK j \in DOMAIN fedOut :
           /\ fedOut'[Len(fedOut')] = fedOut[j]
           /\ j - Len(fedOut') = Len(fedOut) - Len(fedOut')
    BY <2>1, <2>6
  <2>8. j = Len(fedOut)
    BY <2>5, <2>7
  <2>9. IsConfirm(fedOut[Len(fedOut)])
    BY <1>2 DEF IInv, OneAtATime, NoConfirm
  <2> QED BY <2>2, <2>6, <2>7, <2>8, <2>9 DEF NoConfirm, IsConfirm
<1>3. CASE Confirm \/ AdvanceToZero
  <2>1. pc' = "dispatch"
    BY <1>3 DEF Confirm, AdvanceToZero, Read
  <2>2. ~ NoConfirm'
    <3>1. CASE Confirm
      <4>1. /\ Len(fedOut') \in DOMAIN fedOut'
            /\ fedOut'[Len(fedOut')].type \in {"PREEMPTED", "END"}
        BY <3>1, WhatIsConfirmed DEF Message
      <4> QED BY <4>1 DEF NoConfirm, IsConfirm
    <3>2. CASE AdvanceToZero
      <4>1. NoConfirm
        BY <3>2, ReadProperties DEF AdvanceToZero
      <4>2. \/ Notify(<<Message("END", m_currentTs)>>)
            \/ Notify(<<Message("NEXT_EVENT", 1)>> \o <<Message("END", m_currentTs)>>)
        BY <3>2 DEF AdvanceToZero, writeNextTime
      <4> QED BY <4>1, <4>2, ConfirmMessage, CurrentTsIsTime DEF IInv, Confirmed
    <3> QED BY <1>3, <3>1, <3>2
  <2> QED BY <2>1, <2>2 DEF ReceptionsInGrant
<1>4. ASSUME NoConfirm, ~ Confirm, ~ AdvanceToZero PROVE ReceptionsInGrant'
  <2>1. CASE Dispatch
    BY <1>1, <1>4, <2>1, DispatchKeepsReceptions
  <2>2. CASE UpdateOne \/ UpdateDone \/ OnStart
    <3>1. /\ pc \in {"update", "onStart"}
          /\ pc' \in {"dispatch", "update"}
             \/ (pc' = "advance" /\ m_didRequestEventInThePast' = FALSE)
      BY <2>2 DEF UpdateOne, UpdateDone, OnStart, Succeed
    <3>2. UNCHANGED fedOut
      BY <1>1, <2>2, NoRequests
         DEF UpdateOne, UpdateDone, OnStart, NoSchedule, SimSchedule
    <3> QED BY <1>1, <1>4, <3>1, <3>2, NothingReceived, PreemptionIsFixed
  <2>3. CASE PeerIsGone
    <3>1. pc' \in {"closed", "exited"}
      BY <2>3 DEF PeerIsGone, Close, Exit
    <3> QED BY <3>1 DEF ReceptionsInGrant
  <2>4. CASE UNCHANGED vars
    <3>1. UNCHANGED <<fedOut, pc, m_currentTs, m_didRequestEventInThePast,
                      m_currentAdvanceTime, m_preemptiveExecutionEnabled>>
      BY <2>4 DEF vars, simVars, bridgeVars, channels
    <3> QED BY <3>1 DEF ReceptionsInGrant, NoReception, IsReception, NoConfirm
  <2> QED BY <1>1, <1>4, <2>1, <2>2, <2>3, <2>4, EventKeepsReceptions,
             HandlerKeepsReceptions, AmbassadorKeepsReceptions DEF Next, Federate
<1> QED BY <1>2, <1>3, <1>4

LEMMA PreemptionStaysExact ==
    ASSUME IInv, ReceptionsInGrant, PreemptionExact, [Next]_vars
    PROVE  PreemptionExact'
<1> SUFFICES ASSUME m_preemptiveExecutionEnabled',
                    NEW j \in DOMAIN fedOut', IsConfirm(fedOut'[j]),
                    NEW last,
                    last = IF fedOut'[j].type = "PREEMPTED"
                           THEN fedOut'[j].time ELSE m_currentAdvanceTime'
             PROVE  /\ fedOut'[j].type = "PREEMPTED" => last < m_currentAdvanceTime'
                    /\ \A i \in DOMAIN fedOut' :
                          fedOut'[i].type = "RECV_MSG" =>
                             i < j /\ fedOut'[i].time = last
  BY DEF PreemptionExact, Confirms
<1>1. m_preemptiveExecutionEnabled
  BY PreemptionIsFixed
<1>2. CASE ~ NoConfirm
  <2>1. /\ UNCHANGED m_currentAdvanceTime
        /\ \A i \in DOMAIN fedOut' :
              \E k \in DOMAIN fedOut :
                 fedOut'[i] = fedOut[k] /\ k - i = Len(fedOut) - Len(fedOut')
    BY <1>2, QuietOnceConfirmed
  <2>2. PICK k \in DOMAIN fedOut :
           fedOut'[j] = fedOut[k] /\ k - j = Len(fedOut) - Len(fedOut')
    BY <2>1
  <2>3. k \in Confirms
    BY <2>2 DEF Confirms, IsConfirm
  <2>4. /\ fedOut[k].type = "PREEMPTED" => last < m_currentAdvanceTime
        /\ \A i \in DOMAIN fedOut :
              fedOut[i].type = "RECV_MSG" => i < k /\ fedOut[i].time = last
    BY <1>1, <2>1, <2>2, <2>3 DEF PreemptionExact
  <2>5. ASSUME NEW i \in DOMAIN fedOut', fedOut'[i].type = "RECV_MSG"
        PROVE  i < j /\ fedOut'[i].time = last
    <3>1. PICK l \in DOMAIN fedOut :
             fedOut'[i] = fedOut[l] /\ l - i = Len(fedOut) - Len(fedOut')
      BY <2>1
    <3>2. l < k /\ fedOut[l].time = last
      BY <2>4, <2>5, <3>1
    <3>3. /\ fedOut \in Seq(MessageSet) /\ fedOut' \in Seq(MessageSet)
      BY NextKeeps DEF IInv, BecomesMisled, Misled, TypeOK, MessageSet
    <3>4. /\ Len(fedOut) \in Nat /\ Len(fedOut') \in Nat
          /\ DOMAIN fedOut' = 1 .. Len(fedOut')
          /\ DOMAIN fedOut = 1 .. Len(fedOut)
      BY <3>3, LenProperties
    <3>5. i \in Int /\ j \in Int /\ k \in Int /\ l \in Int
      BY <3>4
    <3> QED BY <2>2, <3>1, <3>2, <3>4, <3>5
  <2> QED BY <2>1, <2>2, <2>4, <2>5
<1>3. CASE Confirm
  <2> DEFINE m == Message(IF IsPreempted THEN "PREEMPTED" ELSE "END", m_currentTs)
  <2>1. /\ NoConfirm /\ pc = "advance" /\ UNCHANGED m_currentAdvanceTime
        /\ fedOut'[Len(fedOut')] = m
        /\ \A i \in DOMAIN fedOut' :
              i # Len(fedOut') =>
                 i < Len(fedOut') /\ i \in DOMAIN fedOut /\ fedOut'[i] = fedOut[i]
    BY <1>3, WhatIsConfirmed
  <2>2. j = Len(fedOut') /\ fedOut'[j] = m
    BY <2>1 DEF NoConfirm, IsConfirm
  <2>3. /\ m_didRequestEventInThePast => m_currentTs < m_currentAdvanceTime
        /\ \A i \in DOMAIN fedOut :
              IsReception(i) =>
                 /\ fedOut[i].time = m_currentTs
                 /\ m_didRequestEventInThePast \/ m_currentTs = m_currentAdvanceTime
    BY <1>1, <2>1 DEF ReceptionsInGrant
  <2>4. m.type = (IF m_didRequestEventInThePast THEN "PREEMPTED" ELSE "END")
        /\ m.time = m_currentTs
    BY <1>1 DEF IsPreempted, Message
  <2> HIDE DEF m
  <2>5. CASE m_didRequestEventInThePast
    <3>1. last = m_currentTs
      BY <2>2, <2>4, <2>5
    <3> QED BY <2>1, <2>2, <2>3, <2>4, <2>5, <3>1 DEF IsReception
  <2>6. CASE ~ m_didRequestEventInThePast
    <3>1. last = m_currentAdvanceTime
      BY <2>1, <2>2, <2>4, <2>6
    <3> QED BY <2>1, <2>2, <2>3, <2>4, <2>6, <3>1 DEF IsReception
  <2> QED BY <2>5, <2>6
<1>4. CASE AdvanceToZero
  <2> DEFINE m == Message("END", m_currentTs)
  <2>1. NoConfirm /\ pc = "dispatch"
    BY <1>4, ReadProperties DEF AdvanceToZero
  <2>2. NoReception
    BY <1>1, <2>1 DEF ReceptionsInGrant
  <2>3. Notify(<<m>>)
    BY <1>1, <1>4 DEF AdvanceToZero, writeNextTime, Reports
  <2>4. m \in MessageSet /\ fedOut \in Seq(MessageSet) /\ m.type = "END"
    BY CurrentTsIsTime DEF Message, MessageSet, MessageTypes, IInv, TypeOK
  <2> HIDE DEF m
  <2>5. \A i \in DOMAIN fedOut' :
           fedOut'[i] = m \/ (i \in DOMAIN fedOut /\ fedOut'[i] = fedOut[i])
    BY <2>3, <2>4, Appended
  <2> QED BY <2>1, <2>2, <2>4, <2>5 DEF NoReception, IsReception, NoConfirm, IsConfirm
<1>5. CASE NoConfirm /\ ~ Confirm /\ ~ AdvanceToZero
  BY <1>5, WhoConfirms DEF NoConfirm
<1> QED BY <1>2, <1>3, <1>4, <1>5

(* After a message was made up: no reception is left, except by a federate *)
(* that has ended within a grant.                                          *)
NothingToConfirm ==
    m_preemptiveExecutionEnabled => NoReception \/ (Terminated /\ NoConfirm)

LEMMA NothingBecomesConfirmed ==
    ASSUME IInv, ReceptionsInGrant, BecomesMisled PROVE NothingToConfirm'
<1>1. pc \in {"dispatch", "closed", "exited"}
  BY DEF IInv, TypeOK, BecomesMisled, Busy
<1>2. m_preemptiveExecutionEnabled => NoReception \/ (Terminated /\ NoConfirm)
  BY <1>1 DEF ReceptionsInGrant, BecomesMisled, Terminated
<1> QED BY <1>2 DEF BecomesMisled, NothingToConfirm, NoReception, IsReception,
                    Terminated, NoConfirm

LEMMA NothingStaysConfirmed ==
    ASSUME Misled, NothingToConfirm, [Next]_vars PROVE NothingToConfirm'
<1> SUFFICES ASSUME m_preemptiveExecutionEnabled' PROVE NothingToConfirm'
  BY DEF NothingToConfirm
<1>1. m_preemptiveExecutionEnabled /\ (NoReception => NoReception')
  BY MisledKeeps DEF StaysMisled
<1>2. CASE Terminated
  <2>1. ~ Dispatch
    BY <1>2 DEF Terminated, Dispatch, InitAgain, AddNode, AddNodeB, UpdateNode,
                RemoveNode, ConfWifiRadio, SendMsg, ConfCellRadio, AdvanceToZero,
                AdvanceTime, ShutDown, Unsupported, Read
  <2>2. ~ Federate
    BY <1>2, <2>1
       DEF Terminated, Federate, UpdateOne, UpdateDone, OnStart, RunOneEvent, Handler,
           HandlerSchedules, HandlerSchedulesNow, HandlerReceives, HandlerReturns,
           HandlerExits, Confirm, PeerIsGone
  <2>3. ~ Ambassador
    BY DEF Misled, Ambassador, AmbCommand, AmbAdvance, AmbReads, AmbReadReply,
           AmbReadNotification, AmbReadConfirm, AmbShutDown, AmbDisconnects
  <2>4. UNCHANGED <<pc, fedOut>>
    BY <2>2, <2>3 DEF Next, vars, channels
  <2> QED BY <1>1, <1>2, <2>4 DEF NothingToConfirm, Terminated, NoConfirm
<1> QED BY <1>1, <1>2 DEF NothingToConfirm

(* With preemption, PREEMPTED comes before the time granted, and all       *)
(* receptions the ambassador hears of before it are of the time confirmed; *)
(* those before END are of the time granted (the flag that                 *)
(* writeReceiveWifiMessage and writeReceiveCellMessage set).               *)
THEOREM ReceptionsCutGrantsShort == Spec => []PreemptionExact
<1> DEFINE I == \/ IInv /\ ReceptionsInGrant /\ PreemptionExact
                \/ Misled /\ NothingToConfirm
<1>1. Init => I
  BY InitEstablishes
     DEF Init, ReceptionsInGrant, PreemptionExact, Confirms, NoReception
<1>2. I /\ [Next]_vars => I'
  <2>1. ASSUME IInv, ReceptionsInGrant, PreemptionExact, [Next]_vars PROVE I'
    BY <2>1, NextKeeps, ReceptionsStayInGrant, PreemptionStaysExact,
       NothingBecomesConfirmed DEF BecomesMisled
  <2>2. ASSUME Misled, NothingToConfirm, [Next]_vars PROVE I'
    BY <2>2, MisledKeeps, NothingStaysConfirmed DEF StaysMisled
  <2> QED BY <2>1, <2>2
<1>3. Misled /\ NothingToConfirm => PreemptionExact
  BY DEF Misled, NothingToConfirm, PreemptionExact, Confirms, NoReception, IsReception,
         NoConfirm
<1> QED BY <1>1, <1>2, <1>3, PTL DEF Spec

--------------------------------------------------------------------------------
(***************************************************************************)
(* Without preemption MOSAIC comes back for every event: what is pending   *)
(* has been asked for, and an ambassador that respects the requests never  *)
(* grants past an event.                                                   *)
(***************************************************************************)

Asked == requests \cup InFlight

(***************************************************************************)
(* Requests on their way.                                                  *)
(***************************************************************************)
LEMMA InFlightGrows ==
    ASSUME fedOut \in Seq(MessageSet), NEW messages \in Seq(MessageSet),
           Notify(messages)
    PROVE  /\ InFlight \subseteq InFlight'
           /\ \A i \in 1 .. Len(messages) :
                 messages[i].type = "NEXT_EVENT" => messages[i].time \in InFlight'
<1>1. /\ fedOut' \in Seq(MessageSet)
      /\ Len(fedOut') = Len(fedOut) + Len(messages)
      /\ \A i \in 1 .. Len(fedOut) : fedOut'[i] = fedOut[i]
      /\ \A i \in 1 .. Len(messages) : fedOut'[Len(fedOut) + i] = messages[i]
  BY NotifyProperties
<1>2. /\ Len(fedOut) \in Nat /\ Len(messages) \in Nat
      /\ DOMAIN fedOut = 1 .. Len(fedOut)
      /\ DOMAIN fedOut' = 1 .. Len(fedOut')
  BY <1>1, LenProperties
<1>3. \A i \in DOMAIN fedOut : i \in DOMAIN fedOut' /\ fedOut'[i] = fedOut[i]
  BY <1>1, <1>2
<1>4. \A i \in 1 .. Len(messages) :
         Len(fedOut) + i \in DOMAIN fedOut' /\ fedOut'[Len(fedOut) + i] = messages[i]
  BY <1>1, <1>2
<1>5. InFlight \subseteq InFlight'
  BY <1>3 DEF InFlight
<1>6. ASSUME NEW i \in 1 .. Len(messages), messages[i].type = "NEXT_EVENT"
      PROVE  messages[i].time \in InFlight'
  <2>1. Len(fedOut) + i \in {j \in DOMAIN fedOut' : fedOut'[j].type = "NEXT_EVENT"}
    BY <1>4, <1>6
  <2> QED BY <1>4, <2>1 DEF InFlight
<1> QED BY <1>5, <1>6

(* What writeNextTime leaves. *)
Announced(time) ==
    /\ InFlight \subseteq InFlight'
    /\ m_reportedTimes' \subseteq m_reportedTimes \cup {time}
    /\ ~ m_preemptiveExecutionEnabled => time \in m_reportedTimes \cup InFlight'

LEMMA AnnounceProperties ==
    ASSUME IInv, NEW time \in Time,
           \/ writeNextTime(time, << >>)
           \/ writeNextTime(time, <<Message("END", m_currentTs)>>)
    PROVE  Announced(time)
<1> DEFINE n == Message("NEXT_EVENT", time)
           m == Message("END", m_currentTs)
<1>1. /\ n \in MessageSet /\ n.type = "NEXT_EVENT" /\ n.time = time
      /\ m \in MessageSet
  BY CurrentTsIsTime DEF Message, MessageSet, MessageTypes
<1>2. fedOut \in Seq(MessageSet) /\ m_reportedTimes \subseteq Time
  BY DEF IInv, TypeOK, MessageSet
<1>3. << >> \in Seq(MessageSet) /\ Len(<< >>) = 0
  BY EmptySeq
<1>4. CASE Reports(time)
  <2>1. /\ Notify(<<n>> \o << >>) \/ Notify(<<n>> \o <<m>>)
        /\ m_reportedTimes' = Trim(m_reportedTimes \cup {time})
    BY <1>4 DEF writeNextTime
  <2>2. m_reportedTimes' \subseteq m_reportedTimes \cup {time}
    BY <2>1, TrimProperties
  <2> HIDE DEF n, m
  <2>3. ASSUME NEW then \in Seq(MessageSet), Notify(<<n>> \o then)
        PROVE  InFlight \subseteq InFlight' /\ time \in InFlight'
    <3> DEFINE messages == <<n>> \o then
    <3>1. <<n>> \in Seq(MessageSet) /\ Len(<<n>>) = 1 /\ <<n>>[1] = n
      BY <1>1
    <3>2. /\ messages \in Seq(MessageSet)
          /\ Len(messages) = Len(<<n>>) + Len(then)
          /\ \A i \in 1 .. Len(<<n>>) + Len(then) :
                messages[i] = IF i <= Len(<<n>>) THEN <<n>>[i]
                              ELSE then[i - Len(<<n>>)]
      BY <3>1, ConcatProperties, Zenon
    <3>3. Len(then) \in Nat
      BY LenProperties
    <3>4. Notify(messages)
      BY <2>3
    <3> HIDE DEF messages
    <3>5. 1 \in 1 .. Len(messages) /\ messages[1] = n
      BY <3>1, <3>2, <3>3
    <3> QED BY <1>1, <1>2, <3>2, <3>4, <3>5, InFlightGrows
  <2>4. <<m>> \in Seq(MessageSet)
    BY <1>1
  <2> QED BY <1>3, <2>1, <2>2, <2>3, <2>4 DEF Announced
<1>5. CASE ~ Reports(time)
  <2>1. /\ Notify(<< >>) \/ Notify(<<m>>)
        /\ UNCHANGED m_reportedTimes
    BY <1>5 DEF writeNextTime
  <2> HIDE DEF n, m
  <2>2. <<m>> \in Seq(MessageSet)
    BY <1>1
  <2>3. InFlight \subseteq InFlight'
    BY <1>2, <1>3, <2>1, <2>2, InFlightGrows
  <2>4. ~ m_preemptiveExecutionEnabled => time \in m_reportedTimes
    BY <1>5 DEF Reports
  <2> QED BY <2>1, <2>3, <2>4 DEF Announced
<1> QED BY <1>4, <1>5

(***************************************************************************)
(* What a step of the federate schedules, and for when.                    *)
(***************************************************************************)
Scheduled(time) ==
    /\ writeNextTime(time, << >>)
    /\ \A e \in m_events' : e \in m_events \/ e.ts = time

Origin(time) ==
    \/ /\ pc = "dispatch" /\ toFed # << >>
       /\ Head(toFed).type \notin {"ADVANCE_TIME", "SHUT_DOWN"}
       /\ ambState \in {"reply", "gone"}
       /\ time >= Head(toFed).time
    \/ pc = "dispatch" /\ ~ m_didRunOnStart /\ time = m_currentTs
    \/ pc = "update" /\ time = update.time
    \/ pc = "onStart" /\ time = m_currentTs
    \/ pc = "handler" /\ \E delay \in Delays : time = m_currentTs + delay

Unannounced ==
    /\ UNCHANGED m_reportedTimes
    /\ UNCHANGED fedOut \/ HandlerReceives \/ Confirm
    /\ \A e \in m_events' : e \in m_events \/ (pc = "handler" /\ e.ts = m_currentTs)

LEMMA ScheduleAnnounces ==
    ASSUME IInv, NEW time \in Time, ScheduleFor(time) PROVE Scheduled(time)
<1>1. time \in Nat /\ m_currentTs \in Nat
  BY BoundsAssumption DEF Time, IInv, KernelInv, KernelTypeOK
<1>2. m_currentTs + (time - m_currentTs) = time
  BY <1>1
<1>3. PICK impl \in Impl : Insert(time - m_currentTs, impl)
  BY DEF ScheduleFor, SimSchedule
<1>4. m_events' = m_events \cup {[ts |-> time, uid |-> m_uid, impl |-> impl]}
  BY <1>2, <1>3 DEF Insert, NewEvent
<1> QED BY <1>2, <1>4 DEF ScheduleFor, SimSchedule, Scheduled

LEMMA WhatIsScheduled ==
    ASSUME IInv, Federate
    PROVE  \/ \E time \in Time : Scheduled(time) /\ Origin(time)
           \/ Unannounced
           \/ AdvanceToZero
<1>1. m_currentTs \in Time /\ m_currentTs \in Nat
  BY CurrentTsIsTime DEF IInv, KernelInv, KernelTypeOK
<1>2. ASSUME NoSchedule PROVE Unannounced
  BY <1>2 DEF NoSchedule, Unannounced, simVars, bridgeVars
<1>3. ASSUME NEW type, Read(type),
             type \notin {"ADVANCE_TIME", "INIT", "SHUT_DOWN", "UNSUPPORTED"}
      PROVE  /\ pc = "dispatch" /\ toFed # << >>
             /\ Head(toFed).type \notin {"ADVANCE_TIME", "SHUT_DOWN"}
             /\ ambState \in {"reply", "gone"}
             /\ Head(toFed).time \in Time
             /\ F!Max({Head(toFed).time, 1}) \in Time
             /\ Head(toFed).time >= Head(toFed).time
             /\ F!Max({Head(toFed).time, 1}) >= Head(toFed).time
  <2>1. Head(toFed).time \in Time /\ Head(toFed).type = type
        /\ ambState \in {"reply", "gone"}
    BY <1>3, ReadProperties
  <2>2. /\ F!Max({Head(toFed).time, 1}) \in Time
        /\ Head(toFed).time <= F!Max({Head(toFed).time, 1})
    BY <2>1, MaxProperties
  <2>3. Head(toFed).time \in Nat /\ F!Max({Head(toFed).time, 1}) \in Nat
    BY <2>1, <2>2, BoundsAssumption DEF Time
  <2> QED BY <1>3, <2>1, <2>2, <2>3 DEF Read
<1>4. CASE AddNode \/ AddNodeB
  <2>1. CASE NoSchedule
    BY <1>2, <2>1
  <2>2. CASE ~ m_didRunOnStart /\ ScheduleFor(m_currentTs)
    <3>1. pc = "dispatch"
      BY <1>4 DEF AddNode, AddNodeB, Read
    <3> QED BY <1>1, <2>2, <3>1, ScheduleAnnounces DEF Origin
  <2>3. CASE AddNode /\ ScheduleFor(Head(toFed).time)
    BY <1>3, <2>3, ScheduleAnnounces DEF AddNode, Origin
  <2> QED BY <1>4, <2>1, <2>2, <2>3 DEF AddNode, AddNodeB
<1>5. CASE RemoveNode \/ ConfWifiRadio
  <2>1. CASE NoSchedule
    BY <1>2, <2>1
  <2>2. CASE ScheduleFor(Head(toFed).time)
    BY <1>3, <1>5, <2>2, ScheduleAnnounces DEF RemoveNode, ConfWifiRadio, Origin
  <2> QED BY <1>5, <2>1, <2>2 DEF RemoveNode, ConfWifiRadio
<1>6. CASE SendMsg
  <2>1. CASE NoSchedule
    BY <1>2, <2>1
  <2>2. CASE ScheduleFor(F!Max({Head(toFed).time, 1}))
    BY <1>3, <1>6, <2>2, ScheduleAnnounces DEF SendMsg, Origin
  <2> QED BY <1>6, <2>1, <2>2 DEF SendMsg
<1>7. CASE ConfCellRadio
  <2>1. CASE NoSchedule
    BY <1>2, <2>1
  <2>2. CASE ~ m_didRunOnStart /\ ScheduleFor(m_currentTs)
    <3>1. pc = "dispatch"
      BY <1>7 DEF ConfCellRadio, Read
    <3> QED BY <1>1, <2>2, <3>1, ScheduleAnnounces DEF Origin
  <2>3. CASE ScheduleFor(Head(toFed).time)
    BY <1>3, <1>7, <2>3, ScheduleAnnounces DEF ConfCellRadio, Origin
  <2> QED BY <1>7, <2>1, <2>2, <2>3 DEF ConfCellRadio
<1>8. CASE InitAgain \/ UpdateNode \/ ShutDown \/ Unsupported \/ UpdateDone
  BY <1>2, <1>8 DEF InitAgain, UpdateNode, ShutDown, Unsupported, UpdateDone
<1>9. CASE AdvanceTime \/ PeerIsGone
  BY <1>9 DEF AdvanceTime, PeerIsGone, Unannounced, simVars, bridgeVars
<1>10. CASE UpdateOne
  <2>1. update.time \in Time
    BY DEF IInv, TypeOK
  <2> QED BY <1>10, <2>1, ScheduleAnnounces DEF UpdateOne, Origin
<1>11. CASE OnStart
  <2>1. CASE SimSchedule(0)
    <3>1. PICK impl \in Impl : Insert(0, impl)
      BY <2>1 DEF SimSchedule
    <3>2. m_currentTs + 0 = m_currentTs
      BY <1>1
    <3>3. m_events' = m_events \cup {[ts |-> m_currentTs, uid |-> m_uid, impl |-> impl]}
      BY <3>1, <3>2 DEF Insert, NewEvent
    <3>4. Scheduled(m_currentTs)
      BY <2>1, <3>2, <3>3 DEF SimSchedule, Scheduled
    <3> QED BY <1>1, <1>11, <3>4 DEF OnStart, Origin
  <2> QED BY <1>11, <2>1 DEF OnStart, Unannounced, simVars
<1>12. CASE \E e \in m_events : RunOneEvent(e)
  BY <1>12 DEF RunOneEvent, ProcessOneEvent, Unannounced, bridgeVars, channels
<1>13. CASE Confirm
  BY <1>13 DEF Confirm, Unannounced, simVars, bridgeVars
<1>14. CASE Handler
  <2>1. ASSUME NEW delay \in Delays, HandlerSchedules(delay)
        PROVE  \E time \in Time : Scheduled(time) /\ Origin(time)
    <3>1. /\ ScheduleFor(m_currentTs + delay) /\ pc = "handler"
          /\ m_currentTs + delay \in Time
      BY <1>1, <2>1, DelaysAssumption, BoundsAssumption DEF HandlerSchedules, Time
    <3> QED BY <3>1, ScheduleAnnounces DEF Origin
  <2>2. CASE HandlerSchedulesNow
    <3>1. PICK impl \in Impl : Insert(0, impl)
      BY <2>2 DEF HandlerSchedulesNow
    <3>2. m_currentTs + 0 = m_currentTs
      BY <1>1
    <3>3. m_events' = m_events \cup {[ts |-> m_currentTs, uid |-> m_uid, impl |-> impl]}
      BY <3>1, <3>2 DEF Insert, NewEvent
    <3> QED BY <2>2, <3>3 DEF HandlerSchedulesNow, Unannounced, bridgeVars, channels
  <2>3. CASE HandlerReceives \/ HandlerReturns \/ HandlerExits
    BY <2>3 DEF HandlerReceives, HandlerReturns, HandlerExits, Unannounced, simVars,
                bridgeVars, channels
  <2> QED BY <1>14, <2>1, <2>2, <2>3 DEF Handler
<1> QED BY <1>4, <1>5, <1>6, <1>7, <1>8, <1>9, <1>10, <1>11, <1>12, <1>13, <1>14
        DEF Federate, Dispatch

(***************************************************************************)
(* The invariant.                                                          *)
(***************************************************************************)
(* The loop runs only after OnStart, and never for time zero. *)
GrantsStart ==
    /\ pc \in {"advance", "handler"} => m_didRunOnStart
    /\ Granted => ambTime > 0

NoPreempted == \A i \in DOMAIN fedOut : fedOut[i].type # "PREEMPTED"

(* A time that was reported once, or is needed, has been asked for, unless *)
(* the ambassador has reached it.                                          *)
NeededAreAsked ==
    /\ \A t \in m_reportedTimes : t > ambTime => t \in Asked
    /\ \A e \in m_events : e.ts > ambTime => e.ts \in Asked

(* No grant is underway. *)
Settled ==
    \/ ambState \in {"ready", "reply", "init"}
    \/ ambState = "confirm" /\ ~ NoConfirm

(* The events of time zero wait for the first grant after it. *)
ZeroIsAsked == Settled /\ ambTime = 0 => Asked \cap {0, 1} # {}
ZeroIsOver ==
    Settled /\ ambTime > 0 => m_didRunOnStart /\ \A e \in m_events : e.ts > 0

RInv ==
    /\ GrantsStart
    /\ ~ m_preemptiveExecutionEnabled =>
          NoPreempted /\ NeededAreAsked /\ ZeroIsAsked /\ ZeroIsOver

LEMMA FederateFrame ==
    ASSUME Federate
    PROVE  /\ UNCHANGED <<ambKind, ambState, ambTime, requests>>
           /\ m_didRunOnStart => m_didRunOnStart'
<1>1. CASE Dispatch
  BY <1>1
     DEF Dispatch, InitAgain, AddNode, AddNodeB, UpdateNode, RemoveNode, ConfWifiRadio,
         SendMsg, ConfCellRadio, AdvanceToZero, AdvanceTime, ShutDown, Unsupported,
         Read, ScheduleFor, NoSchedule, bridgeVars, ambVars
<1>2. CASE Federate /\ ~ Dispatch
  BY <1>2
     DEF Federate, UpdateOne, UpdateDone, OnStart, RunOneEvent, Handler,
         HandlerSchedules, HandlerSchedulesNow, HandlerReceives, HandlerReturns,
         HandlerExits, Confirm, PeerIsGone, ScheduleFor, NoSchedule, bridgeVars, ambVars
<1> QED BY <1>1, <1>2

LEMMA AskedGrows == ASSUME IInv, Federate PROVE Asked \subseteq Asked'
<1>1. UNCHANGED requests
  BY FederateFrame
<1>2. fedOut \in Seq(MessageSet)
  BY DEF IInv, TypeOK, MessageSet
<1>3. InFlight \subseteq InFlight'
  <2>1. ASSUME NEW time \in Time, Scheduled(time) PROVE InFlight \subseteq InFlight'
    BY <2>1, AnnounceProperties DEF Scheduled, Announced
  <2>2. CASE AdvanceToZero
    <3>1. 1 \in Time
      BY BoundsAssumption DEF Time
    <3> QED BY <2>2, <3>1, AnnounceProperties DEF AdvanceToZero, Announced
  <2>3. CASE UNCHANGED fedOut
    BY <2>3 DEF InFlight
  <2>4. ASSUME NEW type \in MessageTypes, Notify(<<Message(type, m_currentTs)>>)
        PROVE  InFlight \subseteq InFlight'
    <3>1. Message(type, m_currentTs) \in MessageSet
      BY CurrentTsIsTime DEF Message, MessageSet
    <3>2. <<Message(type, m_currentTs)>> \in Seq(MessageSet)
      BY <3>1
    <3> QED BY <1>2, <2>4, <3>2, InFlightGrows
  <2>5. CASE HandlerReceives
    BY <2>4, <2>5 DEF HandlerReceives, MessageTypes
  <2>6. CASE Confirm
    BY <2>4, <2>6 DEF Confirm, MessageTypes
  <2> QED BY <2>1, <2>2, <2>3, <2>5, <2>6, WhatIsScheduled DEF Unannounced
<1> QED BY <1>1, <1>3 DEF Asked

LEMMA GrantsStartOnce ==
    ASSUME IInv, GrantsStart, Federate PROVE GrantsStart'
<1>1. UNCHANGED ambTime /\ (m_didRunOnStart => m_didRunOnStart')
  BY FederateFrame
<1>2. CASE AdvanceTime
  <2>1. Head(toFed).time > 0 /\ Head(toFed).time = ambTime
    BY <1>2, ReadProperties DEF AdvanceTime
  <2> QED BY <1>1, <1>2, <2>1 DEF AdvanceTime, GrantsStart, Granted
<1>3. CASE Dispatch /\ ~ AdvanceTime
  <2>1. pc' \notin {"onStart", "advance", "handler"}
    BY <1>3
       DEF Dispatch, InitAgain, AddNode, AddNodeB, UpdateNode, RemoveNode, ConfWifiRadio,
           SendMsg, ConfCellRadio, AdvanceToZero, ShutDown, Unsupported, Read,
           Succeed, Close, Exit
  <2> QED BY <2>1 DEF GrantsStart, Granted
<1>4. CASE UpdateOne \/ UpdateDone \/ Confirm \/ PeerIsGone
  <2>1. pc' \notin {"onStart", "advance", "handler"}
    BY <1>4 DEF UpdateOne, UpdateDone, Confirm, PeerIsGone, Succeed, Close, Exit
  <2> QED BY <2>1 DEF GrantsStart, Granted
<1>5. CASE OnStart
  BY <1>1, <1>5 DEF OnStart, GrantsStart, Granted
<1>6. CASE (\E e \in m_events : RunOneEvent(e)) \/ Handler
  <2>1. pc \in {"advance", "handler"}
    BY <1>6 DEF RunOneEvent, Handler, HandlerSchedules, HandlerSchedulesNow,
                HandlerReceives, HandlerReturns, HandlerExits
  <2> QED BY <1>1, <2>1 DEF GrantsStart, Granted
<1> QED BY <1>2, <1>3, <1>4, <1>5, <1>6 DEF Federate

LEMMA NeverPreempted ==
    ASSUME IInv, [Next]_vars, ~ m_preemptiveExecutionEnabled, NoPreempted
    PROVE  NoPreempted'
<1> SUFFICES ASSUME NEW i \in DOMAIN fedOut', fedOut'[i].type = "PREEMPTED"
             PROVE  FALSE
  BY DEF NoPreempted
<1>1. CASE ~ NoConfirm
  <2>1. \E j \in DOMAIN fedOut : fedOut'[i] = fedOut[j]
    BY <1>1, QuietOnceConfirmed
  <2> QED BY <2>1 DEF NoPreempted
<1>2. CASE Confirm
  <2>1. ~ IsPreempted
    BY DEF IsPreempted
  <2>2. fedOut'[Len(fedOut')].type = "END"
    BY <1>2, <2>1, WhatIsConfirmed DEF Message
  <2>3. i \in DOMAIN fedOut /\ fedOut'[i] = fedOut[i]
    BY <1>2, <2>2, WhatIsConfirmed
  <2> QED BY <2>3 DEF NoPreempted
<1>3. CASE AdvanceToZero
  <2> DEFINE m == Message("END", m_currentTs)
             n == Message("NEXT_EVENT", 1)
  <2>1. NoConfirm /\ fedOut \in Seq(MessageSet)
    BY <1>3, ReadProperties DEF AdvanceToZero, IInv, TypeOK, MessageSet
  <2>2. /\ m \in MessageSet /\ m.type = "END"
        /\ n \in MessageSet /\ ~ IsConfirm(n)
    BY CurrentTsIsTime, BoundsAssumption
       DEF Message, MessageSet, MessageTypes, IsConfirm, Time
  <2>3. Notify(<<m>>) \/ Notify(<<n>> \o <<m>>)
    BY <1>3 DEF AdvanceToZero, writeNextTime
  <2> HIDE DEF m, n
  <2>4. \A k \in DOMAIN fedOut' : IsConfirm(fedOut'[k]) => fedOut'[k] = m
    BY <2>1, <2>2, <2>3, NotifyOne, NotifyTwo
  <2> QED BY <2>2, <2>4 DEF IsConfirm
<1>4. CASE NoConfirm /\ ~ Confirm /\ ~ AdvanceToZero
  BY <1>4, WhoConfirms DEF NoConfirm, IsConfirm
<1> QED BY <1>1, <1>2, <1>3, <1>4

(***************************************************************************)
(* Steps of the federate.                                                  *)
(***************************************************************************)
LEMMA FederateAsks ==
    ASSUME IInv, Federate, ~ m_preemptiveExecutionEnabled, NeededAreAsked
    PROVE  NeededAreAsked'
<1>1. UNCHANGED ambTime /\ Asked \subseteq Asked'
  BY FederateFrame, AskedGrows
<1>2. /\ \A t \in m_reportedTimes : t > ambTime => t \in Asked'
      /\ \A e \in m_events : e.ts > ambTime => e.ts \in Asked'
  BY <1>1 DEF NeededAreAsked
<1>3. ASSUME NEW time, Announced(time),
             \A e \in m_events' : e \in m_events \/ e.ts = time
      PROVE  NeededAreAsked'
  <2>1. time > ambTime => time \in Asked'
    BY <1>2, <1>3 DEF Announced, Asked
  <2> QED BY <1>1, <1>2, <1>3, <2>1 DEF Announced, NeededAreAsked
<1>4. ASSUME NEW time \in Time, Scheduled(time) PROVE NeededAreAsked'
  BY <1>3, <1>4, AnnounceProperties DEF Scheduled
<1>5. CASE AdvanceToZero
  <2>1. Announced(1)
    BY <1>5, AnnounceProperties, BoundsAssumption DEF AdvanceToZero, Time
  <2> QED BY <1>3, <1>5, <2>1 DEF AdvanceToZero, simVars
<1>6. CASE Unannounced
  <2>1. m_currentTs <= ambTime /\ m_currentTs \in Nat /\ ambTime \in Nat
    BY BoundsAssumption DEF IInv, ClocksAgree, TypeOK, KernelTypeOK, Time
  <2>2. ~ m_currentTs > ambTime
    BY <2>1
  <2> QED BY <1>1, <1>2, <1>6, <2>2 DEF Unannounced, NeededAreAsked
<1> QED BY <1>4, <1>5, <1>6, WhatIsScheduled

(* What is settled is so by a confirmation, or was before. *)
LEMMA FederateSettles ==
    ASSUME IInv, Federate, Settled'
    PROVE  \/ Settled /\ ~ Confirm /\ ~ AdvanceToZero
           \/ Confirm \/ AdvanceToZero
<1>1. UNCHANGED ambState
  BY FederateFrame
<1>2. ~ Confirm /\ ~ AdvanceToZero /\ NoConfirm => NoConfirm'
  BY WhoConfirms DEF Next
<1> QED BY <1>1, <1>2 DEF Settled

LEMMA FederateAsksForZero ==
    ASSUME IInv, RInv, Federate, ~ m_preemptiveExecutionEnabled
    PROVE  ZeroIsAsked'
<1> SUFFICES ASSUME Settled', ambTime' = 0 PROVE Asked' \cap {0, 1} # {}
  BY DEF ZeroIsAsked
<1>1. ambTime = 0 /\ Asked \subseteq Asked'
  BY FederateFrame, AskedGrows
<1>2. CASE Settled
  BY <1>1, <1>2 DEF RInv, ZeroIsAsked
<1>3. CASE Confirm
  <2>1. ambTime > 0
    BY <1>3 DEF Confirm, RInv, GrantsStart, Granted
  <2> QED BY <1>1, <2>1
<1>4. CASE AdvanceToZero
  <2>1. Announced(1)
    BY <1>4, AnnounceProperties, BoundsAssumption DEF AdvanceToZero, Time
  <2>2. 1 \in m_reportedTimes \/ 1 \in InFlight'
    BY <2>1 DEF Announced
  <2>3. 1 \in m_reportedTimes => 1 \in Asked
    BY <1>1 DEF RInv, NeededAreAsked
  <2>4. 1 \in Asked'
    BY <1>1, <2>2, <2>3 DEF Asked
  <2> QED BY <2>4
<1> QED BY <1>2, <1>3, <1>4, FederateSettles

LEMMA FederateLeavesZero ==
    ASSUME IInv, RInv, Federate, ~ m_preemptiveExecutionEnabled
    PROVE  ZeroIsOver'
<1> SUFFICES ASSUME Settled', ambTime' > 0
             PROVE  m_didRunOnStart' /\ \A e \in m_events' : e.ts > 0
  BY DEF ZeroIsOver
<1>1. /\ ambTime > 0 /\ UNCHANGED ambState
      /\ m_didRunOnStart => m_didRunOnStart'
  BY FederateFrame
<1>2. ambTime \in Nat
  BY BoundsAssumption DEF IInv, TypeOK, Time
<1>3. CASE Confirm
  <2>1. /\ pc = "advance" /\ ~ LoopContinues /\ UNCHANGED m_events
    BY <1>3, WhatIsConfirmed
  <2>2. \A e \in m_events : e.ts > m_currentAdvanceTime
    BY <2>1, LoopEnds DEF IsPreempted
  <2>3. m_currentAdvanceTime = ambTime /\ m_didRunOnStart
    BY <2>1 DEF IInv, ClocksAgree, Granted, RInv, GrantsStart
  <2>4. ASSUME NEW e \in m_events PROVE e.ts > 0
    <3>1. e.ts \in Nat /\ e.ts > ambTime
      BY <2>2, <2>3 DEF IInv, KernelInv, KernelTypeOK, EventId
    <3> QED BY <1>1, <1>2, <3>1
  <2> QED BY <1>1, <2>1, <2>3, <2>4
<1>4. CASE AdvanceToZero
  <2>1. ambTime = 0
    BY <1>4, ReadProperties DEF AdvanceToZero
  <2> QED BY <1>1, <2>1
<1>5. ASSUME Settled, ~ Confirm, ~ AdvanceToZero
      PROVE  m_didRunOnStart' /\ \A e \in m_events' : e.ts > 0
  <2>1. m_didRunOnStart /\ \A e \in m_events : e.ts > 0
    BY <1>1, <1>5 DEF RInv, ZeroIsOver
  <2>2. ~ Granted
    BY <1>5 DEF IInv, WhoWaits, OneAtATime, Settled, Granted, Busy
  <2>3. ASSUME NEW time \in Time, Scheduled(time), Origin(time)
        PROVE  time > 0
    <3>1. \/ pc = "dispatch" /\ toFed # << >> /\ time >= Head(toFed).time
          \/ pc = "update" /\ time = update.time
      BY <2>1, <2>2, <2>3 DEF Origin, Granted
    <3>2. CASE pc = "dispatch" /\ toFed # << >> /\ time >= Head(toFed).time
      <4>1. /\ toFed \in Seq(CommandSet)
            /\ Head(toFed) = toFed[1] /\ Head(toFed) \in CommandSet
        <5>1. toFed \in Seq(CommandSet)
          BY DEF IInv, TypeOK, CommandSet
        <5> QED BY <3>2, <5>1, HeadTailProperties
      <4>2. Head(toFed).time >= ambTime /\ Head(toFed).time \in Time
        <5>1. Len(toFed) \in Nat /\ DOMAIN toFed = 1 .. Len(toFed) /\ Len(toFed) # 0
          BY <3>2, <4>1, LenProperties, EmptySeq
        <5>2. 1 \in DOMAIN toFed
          BY <5>1
        <5>3. toFed[1].time >= ambTime
          BY <5>2 DEF IInv, ClocksAgree
        <5> QED BY <4>1, <5>3 DEF CommandSet
      <4>3. Head(toFed).time \in Nat /\ time \in Nat
        BY <4>2, BoundsAssumption DEF Time
      <4> QED BY <1>1, <1>2, <3>2, <4>2, <4>3
    <3>3. CASE pc = "update" /\ time = update.time
      <4>1. update.time >= ambTime
        BY <3>3 DEF IInv, ClocksAgree
      <4>2. time \in Nat
        BY BoundsAssumption DEF Time
      <4> QED BY <1>1, <1>2, <3>3, <4>1, <4>2
    <3> QED BY <3>1, <3>2, <3>3
  <2>4. \A e \in m_events' : e.ts > 0
    <3>1. CASE Unannounced
      BY <2>1, <2>2, <3>1 DEF Unannounced, Granted
    <3>2. ASSUME NEW time \in Time, Scheduled(time), Origin(time)
          PROVE  \A e \in m_events' : e.ts > 0
      BY <2>1, <2>3, <3>2 DEF Scheduled
    <3> QED BY <1>5, <3>1, <3>2, WhatIsScheduled
  <2> QED BY <1>1, <2>1, <2>4
<1> QED BY <1>3, <1>4, <1>5, FederateSettles

LEMMA FederateKeepsRequests == ASSUME IInv, RInv, Federate PROVE RInv'
<1>1. UNCHANGED m_preemptiveExecutionEnabled
  BY PreemptionIsFixed DEF Next
<1>2. ~ m_preemptiveExecutionEnabled => NoPreempted'
  BY NeverPreempted DEF RInv, Next
<1> QED BY <1>1, <1>2, GrantsStartOnce, FederateAsks, FederateAsksForZero,
          FederateLeavesZero DEF RInv

(***************************************************************************)
(* Steps of the ambassador.                                                *)
(***************************************************************************)
LEMMA InFlightIsRead ==
    ASSUME fedOut \in Seq(MessageSet), fedOut # << >>, fedOut' = Tail(fedOut),
           NEW t \in InFlight
    PROVE  \/ t \in InFlight'
           \/ Head(fedOut).type = "NEXT_EVENT" /\ Head(fedOut).time = t
<1>1. /\ fedOut' \in Seq(MessageSet)
      /\ Len(fedOut') = Len(fedOut) - 1
      /\ Head(fedOut) = fedOut[1]
      /\ \A i \in 1 .. Len(fedOut') : fedOut'[i] = fedOut[i + 1]
  BY HeadTailProperties
<1>2. /\ Len(fedOut) \in Nat
      /\ DOMAIN fedOut = 1 .. Len(fedOut)
      /\ DOMAIN fedOut' = 1 .. Len(fedOut')
  BY <1>1, LenProperties
<1>3. PICK i \in DOMAIN fedOut : fedOut[i].type = "NEXT_EVENT" /\ fedOut[i].time = t
  BY DEF InFlight
<1>4. CASE i = 1
  BY <1>1, <1>3, <1>4
<1>5. CASE i # 1
  <2>1. i - 1 \in DOMAIN fedOut' /\ fedOut'[i - 1] = fedOut[(i - 1) + 1]
    BY <1>1, <1>2, <1>5
  <2>2. (i - 1) + 1 = i
    BY <1>2
  <2>3. i - 1 \in {j \in DOMAIN fedOut' : fedOut'[j].type = "NEXT_EVENT"}
    BY <1>3, <2>1, <2>2
  <2> QED BY <1>3, <2>1, <2>2, <2>3 DEF InFlight
<1> QED BY <1>4, <1>5

LEMMA NothingIsAsked ==
    ASSUME RInv, Settled' => Settled,
           UNCHANGED <<simVars, pc, bridgeVars, fedOut, ambTime, requests>>
    PROVE  RInv'
<1>1. UNCHANGED <<m_events, pc, m_didRunOnStart, m_preemptiveExecutionEnabled,
                  m_reportedTimes, fedOut, ambTime, requests>>
  BY DEF simVars, bridgeVars
<1>2. UNCHANGED Asked
  BY <1>1 DEF Asked, InFlight
<1>3. GrantsStart' /\ (NoPreempted => NoPreempted') /\ (NeededAreAsked => NeededAreAsked')
  BY <1>1, <1>2 DEF RInv, GrantsStart, Granted, NoPreempted, NeededAreAsked
<1>4. /\ ZeroIsAsked => ZeroIsAsked'
      /\ ZeroIsOver => ZeroIsOver'
  BY <1>1, <1>2 DEF ZeroIsAsked, ZeroIsOver
<1> QED BY <1>1, <1>3, <1>4 DEF RInv

LEMMA AdvanceKeepsRequests ==
    ASSUME IInv, RInv, NEW time \in Time, AmbAdvance(time) PROVE RInv'
<1>1. /\ ambState = "ready" /\ ambState' = "confirm" /\ time >= ambTime
      /\ ambTime' = time /\ requests' = {r \in requests : r > time}
      /\ UNCHANGED <<m_events, pc, m_didRunOnStart, m_preemptiveExecutionEnabled,
                     m_reportedTimes, fedOut>>
  BY DEF AmbAdvance, simVars, bridgeVars
<1>2. ~ Busy /\ NoConfirm
  BY <1>1 DEF IInv, WhoWaits
<1>3. ~ Settled'
  BY <1>1, <1>2 DEF Settled, NoConfirm
<1>4. GrantsStart'
  BY <1>1, <1>2 DEF GrantsStart, Granted, Busy
<1>5. NoPreempted => NoPreempted'
  BY <1>1 DEF NoPreempted
<1>6. time \in Nat /\ ambTime \in Nat
  BY BoundsAssumption DEF IInv, TypeOK, Time
<1>7. ASSUME NEW t \in Nat, t > time PROVE t > ambTime /\ (t \in Asked => t \in Asked')
  <2>1. t > ambTime
    BY <1>1, <1>6, <1>7
  <2>2. t \in InFlight => t \in InFlight'
    BY <1>1 DEF InFlight
  <2> QED BY <1>1, <1>7, <2>1, <2>2 DEF Asked
<1>8. m_reportedTimes \subseteq Nat /\ \A e \in m_events : e.ts \in Nat
  BY BoundsAssumption DEF IInv, TypeOK, KernelTypeOK, EventId, Time
<1>9. NeededAreAsked => NeededAreAsked'
  BY <1>1, <1>7, <1>8 DEF NeededAreAsked
<1> QED BY <1>1, <1>3, <1>4, <1>5, <1>9 DEF RInv, ZeroIsAsked, ZeroIsOver

LEMMA ReadingKeepsRequests ==
    ASSUME IInv, RInv, AmbReadNotification \/ AmbReadConfirm PROVE RInv'
<1>1. /\ fedOut # << >> /\ fedOut' = Tail(fedOut)
      /\ UNCHANGED <<m_events, pc, m_didRunOnStart, m_preemptiveExecutionEnabled,
                     m_reportedTimes>>
  BY DEF AmbReadNotification, AmbReadConfirm, simVars, bridgeVars
<1>2. fedOut \in Seq(MessageSet)
  BY DEF IInv, TypeOK, MessageSet
<1>3. /\ Head(fedOut) = fedOut[1] /\ Head(fedOut) \in MessageSet
      /\ 1 \in DOMAIN fedOut
      /\ \A i \in DOMAIN fedOut' : \E j \in DOMAIN fedOut : fedOut'[i] = fedOut[j]
  <2>1. /\ fedOut' \in Seq(MessageSet)
        /\ Len(fedOut') = Len(fedOut) - 1
        /\ Head(fedOut) = fedOut[1] /\ Head(fedOut) \in MessageSet
        /\ \A i \in 1 .. Len(fedOut') : fedOut'[i] = fedOut[i + 1]
    BY <1>1, <1>2, HeadTailProperties
  <2>2. /\ Len(fedOut) \in Nat /\ Len(fedOut) # 0
        /\ DOMAIN fedOut' = 1 .. Len(fedOut')
        /\ DOMAIN fedOut = 1 .. Len(fedOut)
    BY <1>1, <1>2, <2>1, LenProperties, EmptySeq
  <2>3. \A i \in DOMAIN fedOut' : i + 1 \in DOMAIN fedOut /\ fedOut'[i] = fedOut[i + 1]
    BY <2>1, <2>2
  <2> QED BY <2>1, <2>2, <2>3
<1>4. NoPreempted => NoPreempted'
  BY <1>3 DEF NoPreempted
<1>5. Settled' => Settled
  <2>1. CASE AmbReadConfirm
    BY <1>3, <2>1 DEF AmbReadConfirm, Settled, NoConfirm
  <2>2. CASE AmbReadNotification
    <3>1. UNCHANGED ambState
      BY <2>2 DEF AmbReadNotification
    <3>2. NoConfirm => NoConfirm'
      BY <1>3 DEF NoConfirm
    <3> QED BY <3>1, <3>2 DEF Settled
  <2> QED BY <2>1, <2>2
<1>6. NoPreempted => UNCHANGED ambTime
  BY <1>3 DEF AmbReadConfirm, AmbReadNotification, NoPreempted
<1>7. ambTime \in Nat
  BY BoundsAssumption DEF IInv, TypeOK, Time
<1>8. ASSUME NEW t \in Asked, t >= ambTime PROVE t \in Asked'
  <2>1. requests \subseteq requests'
    BY DEF AmbReadNotification, AmbReadConfirm
  <2>2. ASSUME t \in InFlight PROVE t \in InFlight' \/ t \in requests'
    <3>1. \/ t \in InFlight'
          \/ Head(fedOut).type = "NEXT_EVENT" /\ Head(fedOut).time = t
      BY <1>1, <1>2, <2>2, InFlightIsRead
    <3> QED BY <1>8, <3>1 DEF AmbReadNotification, AmbReadConfirm, IsConfirm
  <2> QED BY <2>1, <2>2 DEF Asked
<1>9. ASSUME NoPreempted, NeededAreAsked PROVE NeededAreAsked'
  <2>1. \A t \in Nat : t > ambTime => t >= ambTime
    BY <1>7
  <2>2. m_reportedTimes \subseteq Nat /\ \A e \in m_events : e.ts \in Nat
    BY BoundsAssumption DEF IInv, TypeOK, KernelTypeOK, EventId, Time
  <2> QED BY <1>1, <1>6, <1>8, <1>9, <2>1, <2>2 DEF NeededAreAsked
<1>10. ASSUME NoPreempted, ZeroIsAsked PROVE ZeroIsAsked'
  <2> SUFFICES ASSUME Settled', ambTime' = 0 PROVE Asked' \cap {0, 1} # {}
    BY DEF ZeroIsAsked
  <2>1. Asked \cap {0, 1} # {} /\ ambTime = 0
    BY <1>5, <1>6, <1>10 DEF ZeroIsAsked
  <2>2. PICK t \in {0, 1} : t \in Asked
    BY <2>1
  <2>3. t >= ambTime
    BY <2>1, <2>2
  <2> QED BY <1>8, <2>2, <2>3
<1>11. NoPreempted /\ ZeroIsOver => ZeroIsOver'
  BY <1>1, <1>5, <1>6 DEF ZeroIsOver
<1>12. GrantsStart'
  <2>1. CASE AmbReadNotification
    BY <1>1, <2>1 DEF AmbReadNotification, RInv, GrantsStart, Granted
  <2>2. CASE AmbReadConfirm
    <3>1. ~ Busy
      BY <2>2, LastIsRead
    <3> QED BY <1>1, <3>1 DEF GrantsStart, Granted, Busy
  <2> QED BY <2>1, <2>2
<1> QED BY <1>1, <1>4, <1>9, <1>10, <1>11, <1>12 DEF RInv

LEMMA NextKeepsRequests == ASSUME IInv, RInv, [Next]_vars PROVE RInv'
<1>1. ASSUME NEW type, NEW time, NEW count, AmbCommand(type, time, count) PROVE RInv'
  <2>1. Settled' => Settled
    BY <1>1 DEF AmbCommand, Settled
  <2> QED BY <1>1, <2>1, NothingIsAsked DEF AmbCommand
<1>2. CASE AmbReadReply
  <2>1. Settled' => Settled
    BY <1>2 DEF AmbReadReply, Settled
  <2> QED BY <1>2, <2>1, NothingIsAsked DEF AmbReadReply
<1>3. CASE AmbShutDown \/ AmbDisconnects
  <2>1. Settled' => Settled
    BY <1>3 DEF AmbShutDown, AmbDisconnects, Settled
  <2> QED BY <1>3, <2>1, NothingIsAsked DEF AmbShutDown, AmbDisconnects, channels
<1>4. CASE UNCHANGED vars
  <2>1. Settled' => Settled
    BY <1>4 DEF vars, channels, ambVars, Settled, NoConfirm
  <2> QED BY <1>4, <2>1, NothingIsAsked DEF vars, channels, ambVars
<1>5. CASE Ambassador
  BY <1>1, <1>2, <1>3, <1>5, AdvanceKeepsRequests, ReadingKeepsRequests
     DEF Ambassador, AmbReads
<1> QED BY <1>4, <1>5, FederateKeepsRequests DEF Next

LEMMA RInvHolds == Spec => []((IInv /\ RInv) \/ Misled)
<1>1. Init => RInv
  <2> SUFFICES ASSUME Init PROVE RInv
    OBVIOUS
  <2>1. pc = "dispatch" /\ ambTime = 0 /\ DOMAIN fedOut = {} /\ 0 \in Asked
    BY DEF Init, Asked
  <2>2. m_reportedTimes \subseteq {0} /\ \A e \in m_events : e.ts = 0
    BY DEF Init
  <2>3. NeededAreAsked
    BY <2>1, <2>2 DEF NeededAreAsked
  <2> QED BY <2>1, <2>3 DEF RInv, GrantsStart, Granted, NoPreempted, ZeroIsAsked, ZeroIsOver
<1>2. ((IInv /\ RInv) \/ Misled) /\ [Next]_vars => ((IInv /\ RInv) \/ Misled)'
  BY NextKeeps, NextKeepsRequests, MisledKeeps DEF BecomesMisled, StaysMisled
<1> QED BY <1>1, <1>2, InitEstablishes, PTL DEF Spec

(* Without preemption, whenever the ambassador may choose the next grant,  *)
(* every pending event after the last one has been asked for: neither      *)
(* m_reportedTimes nor its eviction swallows a request that is needed, and *)
(* the request for time 1 that time zero ends with is not lost either.     *)
THEOREM NoEventIsForgotten == Spec => []PendingIsRequested
<1>1. ASSUME IInv, RInv PROVE PendingIsRequested
  <2> SUFFICES ASSUME ~ m_preemptiveExecutionEnabled, ambState = "ready",
                      NEW e \in m_events
               PROVE  /\ e.ts > ambTime => e.ts \in requests \cup InFlight
                      /\ e.ts = 0 => (requests \cup InFlight) \cap {0, 1} # {}
    BY DEF PendingIsRequested
  <2>1. NeededAreAsked /\ ZeroIsAsked /\ ZeroIsOver /\ Settled
    BY <1>1 DEF RInv, Settled
  <2>2. e.ts > ambTime => e.ts \in Asked
    BY <2>1 DEF NeededAreAsked
  <2>3. ASSUME e.ts = 0 PROVE Asked \cap {0, 1} # {}
    <3>1. ambTime \in Nat
      BY <1>1, BoundsAssumption DEF IInv, TypeOK, Time
    <3>2. ~ ambTime > 0
      BY <2>1, <2>3 DEF ZeroIsOver
    <3> QED BY <2>1, <3>1, <3>2 DEF ZeroIsAsked
  <2> QED BY <2>2, <2>3 DEF Asked
<1>2. Misled => PendingIsRequested
  BY DEF Misled, PendingIsRequested
<1> QED BY <1>1, <1>2, RInvHolds, PTL

(***************************************************************************)
(* A conservative ambassador.                                              *)
(***************************************************************************)
BeforeTheStart ==
    /\ pc = "onStart" => ~ m_didRunOnStart
    /\ ~ m_didRunOnStart => m_currentTs = 0

(* What is of time zero is run in a grant of time one at the latest. *)
ZeroIsClose ==
    \/ ~ m_didRunOnStart
    \/ \E e \in m_events : e.ts = 0
    \/ pc = "handler" /\ m_currentTs = 0
    => ambTime <= 1

NothingMissed == \A e \in m_events : e.ts = 0 \/ e.ts >= ambTime
RunsInTime == pc = "handler" => m_currentTs \in {0, ambTime}
AllAhead == Settled /\ ambTime > 0 => \A e \in m_events : e.ts > ambTime
CommandsAhead ==
    /\ \A i \in DOMAIN toFed :
          toFed[i].type \notin {"ADVANCE_TIME", "SHUT_DOWN"} =>
             toFed[i].time > ambTime \/ ambTime = 0
    /\ pc = "update" => update.time > ambTime \/ ambTime = 0

CInv ==
    /\ BeforeTheStart
    /\ Conservative /\ ~ m_preemptiveExecutionEnabled =>
          ZeroIsClose /\ NothingMissed /\ RunsInTime /\ AllAhead /\ CommandsAhead

LEMMA Numbers ==
    ASSUME IInv
    PROVE  /\ ambTime \in Nat /\ m_currentTs \in Nat
           /\ \A e \in m_events : e.ts \in Nat
BY BoundsAssumption DEF IInv, TypeOK, KernelTypeOK, EventId, Time

LEMMA FederateMoves ==
    ASSUME Federate
    PROVE  /\ UNCHANGED m_currentTs \/ \E e \in m_events : RunOneEvent(e)
           /\ pc' = "handler" => pc = "handler" \/ \E e \in m_events : RunOneEvent(e)
           /\ pc' = "onStart" => ~ m_didRunOnStart /\ UNCHANGED m_didRunOnStart
           /\ pc' = "update" =>
                 \/ Read("UPDATE_NODE") /\ update'.time = Head(toFed).time
                 \/ pc = "update" /\ update'.time = update.time
           /\ UNCHANGED toFed \/ \E type : Read(type)
<1>1. CASE Dispatch
  <2>1. CASE AddNode \/ AddNodeB \/ RemoveNode \/ ConfWifiRadio \/ SendMsg \/ ConfCellRadio
    BY <2>1
       DEF AddNode, AddNodeB, RemoveNode, ConfWifiRadio, SendMsg, ConfCellRadio,
           Succeed, Exit, ScheduleFor, SimSchedule, Insert, NoSchedule, simVars
  <2>2. CASE InitAgain \/ AdvanceToZero \/ ShutDown \/ Unsupported
    BY <2>2
       DEF InitAgain, AdvanceToZero, ShutDown, Unsupported, Close, NoSchedule, Read, simVars
  <2>3. CASE UpdateNode \/ AdvanceTime
    BY <2>3 DEF UpdateNode, AdvanceTime, NoSchedule, simVars
  <2> QED BY <1>1, <2>1, <2>2, <2>3 DEF Dispatch
<1>2. CASE UpdateOne
  <2>1. pc = "update" /\ update' = [update EXCEPT !.left = @ - 1] /\ UNCHANGED <<pc, toFed>>
        /\ UNCHANGED m_currentTs
    BY <1>2 DEF UpdateOne, ScheduleFor, SimSchedule, Insert
  <2>2. update'.time = update.time
    BY <2>1
  <2> QED BY <2>1, <2>2
<1>3. CASE UpdateDone \/ OnStart \/ Confirm \/ PeerIsGone
  BY <1>3 DEF UpdateDone, OnStart, Confirm, PeerIsGone, Succeed, Close, Exit, NoSchedule,
              SimSchedule, Insert, simVars
<1>4. CASE \E e \in m_events : RunOneEvent(e)
  BY <1>4 DEF RunOneEvent, channels
<1>5. CASE Handler
  BY <1>5 DEF Handler, HandlerSchedules, HandlerSchedulesNow, HandlerReceives,
              HandlerReturns, HandlerExits, Exit, ScheduleFor, SimSchedule, Insert,
              simVars, channels
<1> QED BY <1>1, <1>2, <1>3, <1>4, <1>5 DEF Federate

LEMMA StartIsOnce == ASSUME IInv, RInv, BeforeTheStart, Federate PROVE BeforeTheStart'
<1>1. m_didRunOnStart => m_didRunOnStart'
  BY FederateFrame
<1>2. (\E e \in m_events : RunOneEvent(e)) => m_didRunOnStart
  BY DEF RunOneEvent, RInv, GrantsStart
<1> QED BY <1>1, <1>2, FederateMoves DEF BeforeTheStart

(* Where a new event may be. *)
Fits(time) ==
    /\ time = 0 => ambTime <= 1
    /\ time = 0 \/ time >= ambTime
    /\ Settled /\ ambTime > 0 => time > ambTime

LEMMA NewEventsFit ==
    ASSUME IInv, RInv, CInv, Conservative, ~ m_preemptiveExecutionEnabled,
           NEW time \in Nat,
           Origin(time) \/ (pc = "handler" /\ time = m_currentTs)
    PROVE  Fits(time)
<1>1. /\ ZeroIsClose /\ NothingMissed /\ RunsInTime /\ AllAhead /\ CommandsAhead
      /\ BeforeTheStart /\ ZeroIsOver /\ GrantsStart
  BY DEF CInv, RInv
<1>2. ambTime \in Nat /\ m_currentTs \in Nat
  BY Numbers
<1>3. Granted => ~ Settled
  BY DEF IInv, WhoWaits, OneAtATime, Settled, Granted, Busy
<1>4. ASSUME NEW t \in Nat, t > ambTime \/ ambTime = 0, time >= t PROVE Fits(time)
  BY <1>2, <1>4 DEF Fits
<1>5. CASE pc = "dispatch" /\ toFed # << >> /\ time >= Head(toFed).time
           /\ Head(toFed).type \notin {"ADVANCE_TIME", "SHUT_DOWN"}
  <2>1. toFed \in Seq(CommandSet)
    BY DEF IInv, TypeOK, CommandSet
  <2>2. /\ Len(toFed) \in Nat /\ DOMAIN toFed = 1 .. Len(toFed) /\ Len(toFed) # 0
        /\ Head(toFed) = toFed[1] /\ Head(toFed) \in CommandSet
    BY <1>5, <2>1, LenProperties, EmptySeq, HeadTailProperties
  <2>3. 1 \in DOMAIN toFed
    BY <2>2
  <2>4. Head(toFed).time > ambTime \/ ambTime = 0
    BY <1>1, <1>5, <2>2, <2>3 DEF CommandsAhead
  <2>5. Head(toFed).time \in Nat
    BY <2>2, BoundsAssumption DEF CommandSet, Time
  <2> QED BY <1>4, <1>5, <2>4, <2>5
<1>6. CASE pc = "update" /\ time = update.time
  BY <1>1, <1>2, <1>4, <1>6 DEF CommandsAhead
<1>7. CASE time = m_currentTs /\ ~ m_didRunOnStart
  <2>1. time = 0 /\ ambTime <= 1 /\ ~ (Settled /\ ambTime > 0)
    BY <1>1, <1>7 DEF BeforeTheStart, ZeroIsClose, ZeroIsOver
  <2> QED BY <2>1 DEF Fits
<1>8. ASSUME pc = "handler", NEW delay \in Nat, time = m_currentTs + delay
      PROVE  Fits(time)
  <2>1. m_currentTs \in {0, ambTime} /\ (m_currentTs = 0 => ambTime <= 1) /\ ~ Settled
    BY <1>1, <1>3, <1>8 DEF RunsInTime, ZeroIsClose, Granted
  <2>2. ambTime > 0
    BY <1>1, <1>8 DEF GrantsStart, Granted
  <2>3. time = 0 => m_currentTs = 0
    BY <1>2, <1>8
  <2>4. time = 0 \/ time >= ambTime
    <3>1. CASE m_currentTs = 0
      <4>1. time = 0 \/ time >= 1
        OBVIOUS
      <4> QED BY <1>2, <2>1, <3>1, <4>1
    <3>2. CASE m_currentTs = ambTime
      BY <1>2, <1>8, <3>2
    <3> QED BY <2>1, <3>1, <3>2
  <2> QED BY <2>1, <2>3, <2>4 DEF Fits
<1>9. CASE pc = "handler"
  <2>1. PICK delay \in Nat : time = m_currentTs + delay
    BY <1>2, <1>9, DelaysAssumption DEF Origin
  <2> QED BY <1>8, <1>9, <2>1
<1>10. CASE pc = "onStart" /\ time = m_currentTs
  BY <1>1, <1>7, <1>10 DEF BeforeTheStart
<1> QED BY <1>5, <1>6, <1>7, <1>9, <1>10 DEF Origin

LEMMA EventsAfterStep ==
    ASSUME IInv, RInv, CInv, Conservative, ~ m_preemptiveExecutionEnabled,
           Federate, NEW e \in m_events'
    PROVE  e \in m_events \/ Fits(e.ts)
<1>1. CASE AdvanceToZero
  BY <1>1 DEF AdvanceToZero, simVars
<1>2. CASE Unannounced
  <2>1. e \in m_events \/ (pc = "handler" /\ e.ts = m_currentTs)
    BY <1>2 DEF Unannounced
  <2>2. m_currentTs \in Nat
    BY Numbers
  <2> QED BY <2>1, <2>2, NewEventsFit
<1>3. ASSUME NEW time \in Time, Scheduled(time), Origin(time)
      PROVE  e \in m_events \/ Fits(e.ts)
  <2>1. e \in m_events \/ e.ts = time
    BY <1>3 DEF Scheduled
  <2>2. time \in Nat
    BY BoundsAssumption DEF Time
  <2>3. Fits(time)
    BY <1>3, <2>2, NewEventsFit
  <2> QED BY <2>1, <2>3
<1> QED BY <1>1, <1>2, <1>3, WhatIsScheduled

LEMMA ReadIsShorter == ASSUME IInv, NEW type, Read(type) PROVE toFed' # toFed
<1>1. toFed \in Seq(CommandSet) /\ toFed # << >> /\ toFed' = Tail(toFed)
  BY DEF IInv, TypeOK, CommandSet, Read
<1>2. Len(toFed) \in Nat /\ Len(toFed') = Len(toFed) - 1
  BY <1>1, LenProperties, HeadTailProperties
<1> QED BY <1>2

LEMMA FederateIsOnTime ==
    ASSUME IInv, RInv, CInv, Federate PROVE CInv'
<1>1. BeforeTheStart'
  BY StartIsOnce DEF CInv
<1> SUFFICES ASSUME Conservative', ~ m_preemptiveExecutionEnabled'
             PROVE  /\ ZeroIsClose' /\ NothingMissed' /\ RunsInTime' /\ AllAhead'
                    /\ CommandsAhead'
  BY <1>1 DEF CInv
<1>2. /\ Conservative /\ ~ m_preemptiveExecutionEnabled
      /\ UNCHANGED <<ambTime, ambState>>
      /\ m_didRunOnStart => m_didRunOnStart'
  BY FederateFrame, PreemptionIsFixed DEF Conservative, Next
<1>3. /\ ZeroIsClose /\ NothingMissed /\ RunsInTime /\ AllAhead /\ CommandsAhead
  BY <1>2 DEF CInv
<1>4. \A e \in m_events' : e \in m_events \/ Fits(e.ts)
  BY <1>2, EventsAfterStep
<1>5. /\ ambTime \in Nat /\ m_currentTs \in Nat
      /\ \A e \in m_events : e.ts \in Nat
  BY Numbers
<1>6. ASSUME NEW e \in m_events, RunOneEvent(e)
      PROVE  m_currentTs' = e.ts /\ m_currentTs' \in {0, ambTime}
  <2>1. m_currentTs' = e.ts
    BY <1>6 DEF RunOneEvent, ProcessOneEvent
  <2>2. m_currentTs' <= ambTime
    BY <1>6, ExecutedInGrant
  <2>3. e.ts = 0 \/ e.ts >= ambTime
    BY <1>3 DEF NothingMissed
  <2> QED BY <1>5, <2>1, <2>2, <2>3
<1>7. ZeroIsClose'
  <2>1. ~ m_didRunOnStart' => ambTime <= 1
    BY <1>2, <1>3 DEF ZeroIsClose
  <2>2. (\E e \in m_events' : e.ts = 0) => ambTime <= 1
    BY <1>3, <1>4 DEF ZeroIsClose, Fits
  <2>3. pc' = "handler" /\ m_currentTs' = 0 => ambTime <= 1
    <3>1. CASE pc = "handler" /\ UNCHANGED m_currentTs
      BY <1>3, <3>1 DEF ZeroIsClose
    <3>2. ASSUME NEW e \in m_events, RunOneEvent(e), m_currentTs' = 0 PROVE ambTime <= 1
      BY <1>3, <1>6, <3>2 DEF ZeroIsClose
    <3> QED BY <3>1, <3>2, FederateMoves
  <2> QED BY <1>2, <2>1, <2>2, <2>3 DEF ZeroIsClose
<1>8. NothingMissed'
  BY <1>2, <1>3, <1>4 DEF NothingMissed, Fits
<1>9. RunsInTime'
  BY <1>2, <1>3, <1>6, FederateMoves DEF RunsInTime
<1>10. AllAhead'
  <2> SUFFICES ASSUME Settled', ambTime > 0 PROVE \A e \in m_events' : e.ts > ambTime
    BY <1>2 DEF AllAhead
  <2>1. CASE Settled
    BY <1>3, <1>4, <2>1 DEF AllAhead, Fits
  <2>2. CASE Confirm
    <3>1. /\ pc = "advance" /\ ~ LoopContinues /\ UNCHANGED m_events
      BY <2>2, WhatIsConfirmed
    <3>2. \A e \in m_events : e.ts > m_currentAdvanceTime
      BY <1>2, <3>1, LoopEnds DEF IsPreempted
    <3>3. m_currentAdvanceTime = ambTime
      BY <3>1 DEF IInv, ClocksAgree, Granted
    <3> QED BY <3>1, <3>2, <3>3
  <2>3. CASE AdvanceToZero
    <3>1. ambTime = 0
      BY <2>3, ReadProperties DEF AdvanceToZero
    <3> QED BY <3>1
  <2> QED BY <2>1, <2>2, <2>3, FederateSettles
<1>11. CommandsAhead'
  <2>1. CASE UNCHANGED toFed
    <3>1. pc' = "update" => pc = "update" /\ update'.time = update.time
      BY <2>1, FederateMoves, ReadIsShorter
    <3> QED BY <1>2, <1>3, <2>1, <3>1 DEF CommandsAhead
  <2>2. ASSUME NEW type, Read(type) PROVE CommandsAhead'
    <3>1. /\ pc = "dispatch" /\ Head(toFed) = toFed[1] /\ 1 \in DOMAIN toFed
          /\ Head(toFed).type = type
          /\ \A i \in DOMAIN toFed' : i + 1 \in DOMAIN toFed /\ toFed'[i] = toFed[i + 1]
      <4>1. toFed \in Seq(CommandSet) /\ toFed # << >>
        BY <2>2 DEF IInv, TypeOK, CommandSet, Read
      <4>2. Len(toFed) \in Nat /\ DOMAIN toFed = 1 .. Len(toFed) /\ Len(toFed) # 0
        BY <4>1, LenProperties, EmptySeq
      <4>3. Head(toFed) = toFed[1]
        BY <4>1, HeadTailProperties
      <4> QED BY <2>2, <4>2, <4>3, ReadProperties
    <3>2. pc' = "update" => toFed[1].type = "UPDATE_NODE" /\ update'.time = toFed[1].time
      BY <3>1, FederateMoves DEF Read
    <3> QED BY <1>2, <1>3, <3>1, <3>2 DEF CommandsAhead
  <2> QED BY <2>1, <2>2, FederateMoves
<1> QED BY <1>7, <1>8, <1>9, <1>10, <1>11

(* Steps that leave the federate alone, and the time. *)
LEMMA OnTimeStutters ==
    ASSUME CInv, Settled' => Settled,
           UNCHANGED <<m_events, m_currentTs, pc, update, m_didRunOnStart,
                       m_preemptiveExecutionEnabled, ambTime, ambKind>>,
           Conservative =>
              \/ UNCHANGED toFed
              \/ \A i \in DOMAIN toFed' :
                    toFed'[i].type \notin {"ADVANCE_TIME", "SHUT_DOWN"} =>
                       toFed'[i].time > ambTime \/ ambTime = 0
    PROVE  CInv'
<1>1. BeforeTheStart'
  BY DEF CInv, BeforeTheStart
<1>2. CASE Conservative /\ ~ m_preemptiveExecutionEnabled
  <2>1. /\ ZeroIsClose /\ NothingMissed /\ RunsInTime /\ AllAhead /\ CommandsAhead
    BY <1>2 DEF CInv
  <2>2. ZeroIsClose' /\ NothingMissed' /\ RunsInTime'
    BY <2>1 DEF ZeroIsClose, NothingMissed, RunsInTime
  <2>3. AllAhead'
    BY <2>1 DEF AllAhead
  <2>4. CommandsAhead'
    BY <1>2, <2>1 DEF CommandsAhead
  <2> QED BY <1>1, <2>2, <2>3, <2>4 DEF CInv
<1>3. CASE ~ (Conservative /\ ~ m_preemptiveExecutionEnabled)
  BY <1>1, <1>3 DEF CInv, Conservative
<1> QED BY <1>2, <1>3

LEMMA CommandIsAhead ==
    ASSUME IInv, CInv, NEW type \in CommandTypes, NEW time \in Time, NEW count \in Nat,
           AmbCommand(type, time, count)
    PROVE  CInv'
<1> DEFINE c == Command(type, time, count)
           d == Command("UNSUPPORTED", time, count)
<1>1. /\ ambState = "ready"
      /\ Conservative => time > ambTime \/ ambTime = 0
      /\ toFed' = toFed \o <<c>> \o (IF type = "INIT" THEN <<d>> ELSE << >>)
      /\ UNCHANGED <<m_events, m_currentTs, pc, update, m_didRunOnStart,
                     m_preemptiveExecutionEnabled, ambTime, ambKind, fedOut>>
  BY DEF AmbCommand, simVars, bridgeVars
<1>2. /\ c \in CommandSet /\ c.time = time /\ d \in CommandSet /\ d.time = time
  BY DEF Command, CommandSet
<1> HIDE DEF c, d
<1>3. toFed = << >>
  BY <1>1 DEF IInv, WhoWaits
<1>4. \A i \in DOMAIN toFed' : toFed'[i].time = time
  <2>1. CASE type = "INIT"
    <3> DEFINE s == << >> \o <<c>> \o <<d>>
    <3>1. toFed' = s
      BY <1>1, <1>3, <2>1
    <3>2. s \in Seq(CommandSet) /\ Len(s) = 2 /\ s[1] = c /\ s[2] = d
      BY <1>2, TwoCommands
    <3> HIDE DEF s
    <3>3. DOMAIN s = 1 .. 2
      BY <3>2, LenProperties
    <3>4. \A i \in 1 .. 2 : s[i] = c \/ s[i] = d
      BY <3>2
    <3> QED BY <1>2, <3>1, <3>3, <3>4
  <2>2. CASE type # "INIT"
    <3> DEFINE s == << >> \o <<c>> \o << >>
    <3>1. toFed' = s
      BY <1>1, <1>3, <2>2
    <3>2. s \in Seq(CommandSet) /\ Len(s) = 1 /\ s[1] = c
      BY <1>2, OneCommand
    <3> HIDE DEF s
    <3>3. DOMAIN s = 1 .. 1
      BY <3>2, LenProperties
    <3>4. \A i \in 1 .. 1 : s[i] = c
      BY <3>2
    <3> QED BY <1>2, <3>1, <3>3, <3>4
  <2> QED BY <2>1, <2>2
<1>5. Settled' => Settled
  BY <1>1 DEF Settled
<1> QED BY <1>1, <1>4, <1>5, OnTimeStutters

LEMMA GrantIsByRequest ==
    ASSUME IInv, RInv, CInv, NEW time \in Time, AmbAdvance(time) PROVE CInv'
<1> DEFINE c == Command("ADVANCE_TIME", time, 1)
<1>1. /\ ambState = "ready" /\ ambState' = "confirm" /\ time >= ambTime
      /\ Conservative => fedOut = << >> /\ \A r \in requests : time <= r
      /\ toFed' = Append(toFed, c) /\ ambTime' = time
      /\ UNCHANGED <<m_events, m_currentTs, pc, update, m_didRunOnStart,
                     m_preemptiveExecutionEnabled, ambKind, fedOut>>
  BY DEF AmbAdvance, simVars, bridgeVars
<1>2. ~ Busy /\ NoConfirm /\ toFed = << >>
  BY <1>1 DEF IInv, WhoWaits
<1>3. BeforeTheStart'
  BY <1>1 DEF CInv, BeforeTheStart
<1> SUFFICES ASSUME Conservative', ~ m_preemptiveExecutionEnabled'
             PROVE  /\ ZeroIsClose' /\ NothingMissed' /\ RunsInTime' /\ AllAhead'
                    /\ CommandsAhead'
  BY <1>3 DEF CInv
<1>4. Conservative /\ ~ m_preemptiveExecutionEnabled
  BY <1>1 DEF Conservative
<1>5. /\ NothingMissed /\ AllAhead /\ NeededAreAsked /\ ZeroIsAsked /\ ZeroIsOver /\ Settled
  BY <1>1, <1>4 DEF CInv, RInv, Settled
<1>6. time \in Nat /\ ambTime \in Nat /\ \A e \in m_events : e.ts \in Nat
  BY Numbers, BoundsAssumption DEF Time
<1>7. Asked = requests /\ \A r \in requests : time <= r
  <2>1. InFlight = {}
    BY <1>1, <1>4 DEF InFlight
  <2> QED BY <1>1, <1>4, <2>1 DEF Asked
<1>8. ZeroIsClose'
  <2>1. CASE ambTime = 0
    <3>1. PICK r \in {0, 1} : r \in requests
      BY <1>5, <1>7, <2>1 DEF ZeroIsAsked
    <3>2. time <= 1
      BY <1>6, <1>7, <3>1
    <3> QED BY <1>1, <3>2 DEF ZeroIsClose
  <2>2. CASE ambTime > 0
    <3>1. m_didRunOnStart /\ ~ \E e \in m_events : e.ts = 0
      BY <1>5, <2>2 DEF ZeroIsOver
    <3> QED BY <1>1, <1>2, <3>1 DEF ZeroIsClose, Busy
  <2> QED BY <1>6, <2>1, <2>2
<1>9. NothingMissed'
  <2> SUFFICES ASSUME NEW e \in m_events PROVE e.ts = 0 \/ e.ts >= time
    BY <1>1 DEF NothingMissed
  <2>1. CASE e.ts > ambTime
    <3>1. time <= e.ts
      BY <1>5, <1>7, <2>1 DEF NeededAreAsked
    <3> QED BY <1>6, <3>1
  <2>2. CASE ~ e.ts > ambTime
    <3>1. ~ ambTime > 0
      BY <1>5, <2>2 DEF AllAhead
    <3> QED BY <1>6, <2>2, <3>1
  <2> QED BY <2>1, <2>2
<1>10. RunsInTime'
  BY <1>1, <1>2 DEF RunsInTime, Busy
<1>11. AllAhead'
  BY <1>1, <1>2 DEF AllAhead, Settled, NoConfirm
<1>12. CommandsAhead'
  <2>1. c \in CommandSet /\ c.type = "ADVANCE_TIME"
    BY DEF Command, CommandSet
  <2> HIDE DEF c
  <2> DEFINE s == <<c>>
  <2>2. toFed' = s /\ s \in Seq(CommandSet) /\ Len(s) = 1 /\ s[1] = c
    BY <1>1, <1>2, <2>1, OneCommand
  <2> HIDE DEF s
  <2>3. DOMAIN s = 1 .. 1
    BY <2>2, LenProperties
  <2>4. \A i \in 1 .. 1 : s[i] = c
    BY <2>2
  <2> QED BY <1>1, <1>2, <2>1, <2>2, <2>3, <2>4 DEF CommandsAhead, Busy
<1> QED BY <1>8, <1>9, <1>10, <1>11, <1>12

LEMMA ShutDownIsOnTime == ASSUME IInv, CInv, AmbShutDown PROVE CInv'
<1> DEFINE c == Command("SHUT_DOWN", ambTime, 1)
<1>1. /\ ambState = "ready" /\ ambState' = "done" /\ toFed' = Append(toFed, c)
      /\ UNCHANGED <<m_events, m_currentTs, pc, update, m_didRunOnStart,
                     m_preemptiveExecutionEnabled, ambTime, ambKind>>
  BY DEF AmbShutDown, simVars, bridgeVars
<1>2. toFed = << >> /\ c \in CommandSet /\ c.type = "SHUT_DOWN"
  BY <1>1 DEF IInv, WhoWaits, TypeOK, Command, CommandSet
<1> HIDE DEF c
<1> DEFINE s == <<c>>
<1>3. toFed' = s /\ s \in Seq(CommandSet) /\ Len(s) = 1 /\ s[1] = c
  BY <1>1, <1>2, OneCommand
<1> HIDE DEF s
<1>4. DOMAIN s = 1 .. 1
  BY <1>3, LenProperties
<1>5. \A i \in 1 .. 1 : s[i] = c
  BY <1>3
<1>6. Settled' => Settled
  BY <1>1 DEF Settled
<1> QED BY <1>1, <1>2, <1>3, <1>4, <1>5, <1>6, OnTimeStutters

LEMMA ReadingIsOnTime ==
    ASSUME IInv, RInv, CInv, AmbReadNotification \/ AmbReadConfirm PROVE CInv'
<1>1. UNCHANGED <<m_events, m_currentTs, pc, update, m_didRunOnStart,
                  m_preemptiveExecutionEnabled, ambKind, toFed>>
  BY DEF AmbReadNotification, AmbReadConfirm, simVars, bridgeVars
<1>2. CASE m_preemptiveExecutionEnabled
  BY <1>1, <1>2 DEF CInv, BeforeTheStart
<1>3. CASE ~ m_preemptiveExecutionEnabled
  <2>1. fedOut \in Seq(MessageSet) /\ fedOut # << >> /\ fedOut' = Tail(fedOut)
    BY DEF AmbReadNotification, AmbReadConfirm, IInv, TypeOK, MessageSet
  <2>2. /\ fedOut' \in Seq(MessageSet)
        /\ Len(fedOut') = Len(fedOut) - 1
        /\ Head(fedOut) = fedOut[1]
        /\ \A i \in 1 .. Len(fedOut') : fedOut'[i] = fedOut[i + 1]
    BY <2>1, HeadTailProperties
  <2>3. /\ Len(fedOut) \in Nat /\ Len(fedOut) # 0
        /\ DOMAIN fedOut' = 1 .. Len(fedOut')
        /\ DOMAIN fedOut = 1 .. Len(fedOut)
    BY <2>1, <2>2, LenProperties, EmptySeq
  <2>4. \A i \in DOMAIN fedOut' : i + 1 \in DOMAIN fedOut /\ fedOut'[i] = fedOut[i + 1]
    BY <2>2, <2>3
  <2>5. 1 \in DOMAIN fedOut
    BY <2>3
  <2>6. Head(fedOut).type # "PREEMPTED"
    BY <1>3, <2>2, <2>5 DEF RInv, NoPreempted
  <2>7. UNCHANGED ambTime
    BY <2>6 DEF AmbReadNotification, AmbReadConfirm
  <2>8. Settled' => Settled
    <3>1. CASE AmbReadConfirm
      BY <2>2, <2>5, <3>1 DEF AmbReadConfirm, Settled, NoConfirm
    <3>2. CASE AmbReadNotification
      <4>1. UNCHANGED ambState
        BY <3>2 DEF AmbReadNotification
      <4>2. NoConfirm => NoConfirm'
        BY <2>4 DEF NoConfirm
      <4> QED BY <4>1, <4>2 DEF Settled
    <3> QED BY <3>1, <3>2
  <2> QED BY <1>1, <2>7, <2>8, OnTimeStutters
<1> QED BY <1>2, <1>3

(* The connection is lost, with the commands that have not arrived. *)
LEMMA LossIsOnTime ==
    ASSUME IInv, CInv, AmbDisconnects, NEW n \in 0 .. Len(toFed),
           toFed' = SubSeq(toFed, 1, n)
    PROVE  CInv'
<1>1. \A i \in DOMAIN toFed' : i \in DOMAIN toFed /\ toFed'[i] = toFed[i]
  BY LostAreLast DEF IInv, TypeOK, CommandSet
<1>2. Conservative /\ ~ m_preemptiveExecutionEnabled => CommandsAhead
  BY DEF CInv
<1>3. Settled' => Settled
  BY DEF AmbDisconnects, Settled
<1>4. UNCHANGED <<m_events, m_currentTs, pc, update, m_didRunOnStart,
                  m_preemptiveExecutionEnabled, ambTime, ambKind>>
  BY DEF AmbDisconnects, simVars, bridgeVars
<1>5. CASE Conservative /\ ~ m_preemptiveExecutionEnabled
  BY <1>1, <1>2, <1>3, <1>4, <1>5, OnTimeStutters DEF CommandsAhead
<1>6. CASE ~ (Conservative /\ ~ m_preemptiveExecutionEnabled)
  BY <1>4, <1>6 DEF CInv, BeforeTheStart, Conservative
<1> QED BY <1>5, <1>6

LEMMA NextIsOnTime == ASSUME IInv, RInv, CInv, [Next]_vars PROVE CInv' \/ Misled'
<1>1. ASSUME NEW type \in CommandTypes, NEW time \in Time,
             NEW count \in IF type = "UPDATE_NODE" THEN 0 .. 2 ELSE {1},
             AmbCommand(type, time, count)
      PROVE  CInv'
  <2>1. count \in Nat
    OBVIOUS
  <2> QED BY <1>1, <2>1, CommandIsAhead
<1>2. CASE AmbReadReply
  <2>1. Settled' => Settled
    BY <1>2 DEF AmbReadReply, Settled
  <2> QED BY <1>2, <2>1, OnTimeStutters DEF AmbReadReply, simVars, bridgeVars
<1>3. CASE UNCHANGED vars
  <2>1. Settled' => Settled
    BY <1>3 DEF vars, channels, ambVars, Settled, NoConfirm
  <2> QED BY <1>3, <2>1, OnTimeStutters DEF vars, simVars, bridgeVars, channels, ambVars
<1>4. CASE AmbDisconnects
  BY <1>4, LossIsOnTime, MadeUpMisleads DEF AmbDisconnects, BecomesMisled
<1>5. CASE Ambassador
  BY <1>1, <1>2, <1>4, <1>5, GrantIsByRequest, ShutDownIsOnTime, ReadingIsOnTime
     DEF Ambassador, AmbReads
<1> QED BY <1>3, <1>5, FederateIsOnTime DEF Next

(* If the ambassador reads what it is sent before it grants a time and     *)
(* grants no time beyond a request, every event after time zero is run in  *)
(* the grant of its own time, so that MOSAIC hears of no reception late.   *)
THEOREM EventsRunOnTime == Spec => []ExecutedOnTime
<1>1. Init => CInv
  <2> SUFFICES ASSUME Init PROVE CInv
    OBVIOUS
  <2>1. /\ pc = "dispatch" /\ m_currentTs = 0 /\ ambTime = 0 /\ toFed = << >>
        /\ \A e \in m_events : e.ts = 0
    BY DEF Init
  <2> QED BY <2>1 DEF CInv, BeforeTheStart, ZeroIsClose, NothingMissed, RunsInTime,
                      AllAhead, CommandsAhead
<1>2. ((IInv /\ RInv) \/ Misled) /\ (CInv \/ Misled) /\ [Next]_vars => (CInv \/ Misled)'
  BY NextIsOnTime, MisledKeeps DEF StaysMisled
<1>3. IInv /\ CInv => ExecutedOnTime
  <2> SUFFICES ASSUME IInv, CInv, Conservative, ~ m_preemptiveExecutionEnabled,
                      pc = "handler"
               PROVE  m_currentTs \in {0, m_currentAdvanceTime}
    BY DEF ExecutedOnTime
  <2>1. m_currentAdvanceTime = ambTime
    BY DEF IInv, ClocksAgree, Granted
  <2> QED BY <2>1 DEF CInv, RunsInTime
<1>4. Misled => ExecutedOnTime
  BY DEF Misled, ExecutedOnTime
<1> QED BY <1>1, <1>2, <1>3, <1>4, RInvHolds, PTL DEF Spec
================================================================================
