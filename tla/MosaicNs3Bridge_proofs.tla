-------------------------- MODULE MosaicNs3Bridge_proofs --------------------------
(***************************************************************************)
(* The command loop against any ambassador of the protocol, for every set  *)
(* of callbacks, delays and commands, every width of m_uid, every bound on *)
(* time and every size of the buffers, until m_uid wraps.                  *)
(*                                                                         *)
(* That ns-3 is never ahead of MOSAIC rests on the alternation of the two  *)
(* processes: what is granted, executed, confirmed or commanded is bound   *)
(* to a time, and only one of these is underway at once.                   *)
(***************************************************************************)
EXTENDS MosaicNs3Bridge, MosaicSimulatorImpl_proofs

Granted == pc \in {"onStart", "advance", "handler"}
NoConfirm == \A i \in DOMAIN fedOut : ~ IsConfirm(fedOut[i])

(* Command, work, answer and confirmation exclude each other; only what    *)
(* follows a second INIT is behind another command.                        *)
OneAtATime ==
    /\ Busy => toFed = << >> /\ replies = << >> /\ NoConfirm
    /\ toFed # << >> => replies = << >> /\ NoConfirm
    /\ replies # << >> => replies = <<"SUCCESS">> /\ NoConfirm
    /\ \A i \in DOMAIN fedOut : IsConfirm(fedOut[i]) => i = Len(fedOut)
    /\ Len(toFed) <= 2
    /\ Len(toFed) = 2 => toFed[1].type = "INIT" /\ toFed[2].type = "UNSUPPORTED"

(* What the ambassador waits for is what is underway. *)
WhoWaits ==
    /\ ambState = "ready" =>
          ~ Busy /\ toFed = << >> /\ replies = << >> /\ NoConfirm
    /\ pc = "update" \/ replies # << >> => ambState \in {"reply", "gone"}
    /\ Granted \/ ~ NoConfirm => ambState \in {"confirm", "gone"}
    /\ \A i \in DOMAIN toFed :
          LET expected ==
                CASE toFed[i].type = "ADVANCE_TIME" -> {"confirm"}
                  [] toFed[i].type = "SHUT_DOWN" -> {"done"}
                  [] toFed[i].type = "INIT" -> {"init"}
                  [] toFed[i].type = "UNSUPPORTED" -> {"init", "reply"}
                  [] OTHER -> {"reply"}
          IN  ambState \in expected \cup {"gone"}

(* It does not wait for nothing. *)
SomethingIsUnderway ==
    ~ Terminated /\ ambState \in {"reply", "confirm", "done"} =>
        toFed # << >> \/ Busy \/ replies # << >> \/ ~ NoConfirm

(* The two clocks, and the times that travel between them. *)
ClocksAgree ==
    /\ m_currentTs <= ambTime
    /\ \A i \in DOMAIN toFed : toFed[i].time >= ambTime
    /\ \A i \in DOMAIN toFed :
          toFed[i].type = "ADVANCE_TIME" => toFed[i].time = ambTime
    /\ pc = "update" => update.time >= ambTime
    /\ Granted => m_currentAdvanceTime = ambTime
    /\ \A i \in DOMAIN fedOut : IsConfirm(fedOut[i]) => fedOut[i].time = m_currentTs

IInv ==
    /\ TypeOK
    /\ KernelInv
    /\ m_stop = FALSE
    /\ OneAtATime
    /\ WhoWaits
    /\ SomethingIsUnderway
    /\ ClocksAgree

(***************************************************************************)
(* A message made up at the end of the stream bears the time 0, whatever   *)
(* the ambassador's time is, and may so be an event in ns-3's past.  Then  *)
(* IInv is lost, but not what the properties need: nothing but this one    *)
(* command is carried out any more.                                        *)
(***************************************************************************)
Misled ==
    /\ TypeOK
    /\ ambState = "gone"
    /\ m_currentTs <= ambTime
    /\ pc \in {"dispatch", "update", "closed", "exited"}
    /\ pc = "update" => toFed = << >> /\ update.left = 0
    /\ toFed # << >> =>
          \E type \in CarriedOutByDefault \ {"ADD_NODE_B"} :
              toFed = <<Command(type, 0, 0)>>
    /\ toFed # << >> \/ pc = "update" => KernelInv /\ NoConfirm
    /\ \A i \in DOMAIN fedOut :
          IsConfirm(fedOut[i]) => fedOut[i].type = "END" /\ m_currentAdvanceTime = 0

(* The step with which it begins. *)
BecomesMisled ==
    /\ Misled'
    /\ ~ Busy /\ NoConfirm
    /\ UNCHANGED <<pc, fedOut, m_preemptiveExecutionEnabled>>

CommandSet == [type : CommandTypes \cup {"ADVANCE_TIME", "SHUT_DOWN",
                                         "UNSUPPORTED", "ADD_NODE"},
               time : Time, count : Nat]
MessageSet == [type : MessageTypes, time : Time]

(***************************************************************************)
(* Messages for the ambassador.                                            *)
(***************************************************************************)
LEMMA NotifyProperties ==
    ASSUME fedOut \in Seq(MessageSet), NEW messages \in Seq(MessageSet),
           Notify(messages)
    PROVE  /\ fedOut' \in Seq(MessageSet)
           /\ Len(fedOut') <= Capacity
           /\ Len(fedOut') = Len(fedOut) + Len(messages)
           /\ \A i \in 1 .. Len(fedOut) : fedOut'[i] = fedOut[i]
           /\ \A i \in 1 .. Len(messages) : fedOut'[Len(fedOut) + i] = messages[i]
<1> DEFINE all == fedOut \o messages
<1>1. fedOut' = all /\ Len(all) <= Capacity
  BY DEF Notify
<1>2. /\ all \in Seq(MessageSet)
      /\ Len(all) = Len(fedOut) + Len(messages)
      /\ \A i \in 1 .. Len(fedOut) + Len(messages) :
            all[i] = IF i <= Len(fedOut) THEN fedOut[i]
                     ELSE messages[i - Len(fedOut)]
  BY ConcatProperties, Zenon
<1>3. Len(fedOut) \in Nat /\ Len(messages) \in Nat
  BY LenProperties
<1> HIDE DEF all
<1>4. \A i \in 1 .. Len(messages) : all[Len(fedOut) + i] = messages[i]
  BY <1>2, <1>3
<1> QED BY <1>1, <1>2, <1>3, <1>4

LEMMA NotifyNothing ==
    ASSUME fedOut \in Seq(MessageSet), Notify(<< >>)
    PROVE  fedOut' = fedOut /\ Len(fedOut) <= Capacity
BY ConcatEmptySeq DEF Notify

LEMMA NotifyOne ==
    ASSUME fedOut \in Seq(MessageSet), NoConfirm, NEW m \in MessageSet,
           Notify(<<m>>)
    PROVE  /\ fedOut' \in Seq(MessageSet)
           /\ Len(fedOut') <= Capacity
           /\ \A i \in DOMAIN fedOut' :
                 IsConfirm(fedOut'[i]) => i = Len(fedOut') /\ fedOut'[i] = m
           /\ fedOut'[Len(fedOut')] = m
           /\ Len(fedOut') \in DOMAIN fedOut'
<1>1. <<m>> \in Seq(MessageSet) /\ Len(<<m>>) = 1 /\ <<m>>[1] = m
  OBVIOUS
<1>2. /\ fedOut' \in Seq(MessageSet)
      /\ Len(fedOut') <= Capacity
      /\ Len(fedOut') = Len(fedOut) + 1
      /\ \A i \in 1 .. Len(fedOut) : fedOut'[i] = fedOut[i]
      /\ fedOut'[Len(fedOut) + 1] = m
  <2>1. /\ fedOut' \in Seq(MessageSet)
        /\ Len(fedOut') <= Capacity
        /\ Len(fedOut') = Len(fedOut) + Len(<<m>>)
        /\ \A i \in 1 .. Len(fedOut) : fedOut'[i] = fedOut[i]
        /\ \A i \in 1 .. Len(<<m>>) : fedOut'[Len(fedOut) + i] = <<m>>[i]
    BY <1>1, NotifyProperties
  <2> QED BY <1>1, <2>1
<1>3. /\ Len(fedOut) \in Nat
      /\ DOMAIN fedOut = 1 .. Len(fedOut)
      /\ DOMAIN fedOut' = 1 .. Len(fedOut')
  BY <1>2, LenProperties
<1> QED BY <1>2, <1>3 DEF NoConfirm
(***************************************************************************)
(* Schedule and writeNextTime.                                             *)
(***************************************************************************)
LEMMA TrimProperties == ASSUME NEW times PROVE Trim(times) \subseteq times
BY DEF Trim

LEMMA AnnounceKeeps ==
    ASSUME TypeOK, NoConfirm, NEW time \in Time, writeNextTime(time, << >>)
    PROVE  /\ fedOut' \in Seq(MessageSet)
           /\ Len(fedOut') <= Capacity
           /\ NoConfirm'
           /\ m_reportedTimes' \subseteq Time
<1> DEFINE m == Message("NEXT_EVENT", time)
<1>1. fedOut \in Seq(MessageSet) /\ m_reportedTimes \subseteq Time
  BY DEF TypeOK, MessageSet
<1>2. m \in MessageSet /\ ~ IsConfirm(m)
  BY DEF Message, MessageSet, MessageTypes, IsConfirm
<1>3. CASE Reports(time)
  <2>1. m_reportedTimes' = Trim(m_reportedTimes \cup {time})
    BY <1>3 DEF writeNextTime
  <2>2. m_reportedTimes' \subseteq Time
    BY <1>1, <2>1, TrimProperties
  <2>3. Notify(<<m>> \o << >>)
    BY <1>3 DEF writeNextTime
  <2>4. <<m>> \o << >> = <<m>>
    <3>1. <<m>> \in Seq(MessageSet)
      BY <1>2
    <3> QED BY <3>1, ConcatEmptySeq
  <2>5. Notify(<<m>>)
    BY <2>3, <2>4
  <2> HIDE DEF m
  <2>6. /\ fedOut' \in Seq(MessageSet)
        /\ Len(fedOut') <= Capacity
        /\ \A i \in DOMAIN fedOut' :
              IsConfirm(fedOut'[i]) => i = Len(fedOut') /\ fedOut'[i] = m
    BY <1>1, <1>2, <2>5, NotifyOne
  <2>7. NoConfirm'
    BY <1>2, <2>6 DEF NoConfirm, IsConfirm
  <2> QED BY <2>2, <2>6, <2>7
<1>4. CASE ~ Reports(time)
  <2>1. m_reportedTimes' = m_reportedTimes /\ Notify(<< >>)
    BY <1>4 DEF writeNextTime
  <2>2. fedOut' = fedOut /\ Len(fedOut) <= Capacity
    BY <1>1, <2>1, NotifyNothing
  <2> QED BY <1>1, <2>1, <2>2 DEF NoConfirm
<1> QED BY <1>3, <1>4

LEMMA SimScheduleKeeps ==
    ASSUME TypeOK, KernelInv, NoConfirm,
           NEW delay \in Nat, m_currentTs + delay \in Time, SimSchedule(delay)
    PROVE  /\ KernelInv'
           /\ UNCHANGED <<m_currentTs, m_stop>>
           /\ fedOut' \in Seq(MessageSet)
           /\ Len(fedOut') <= Capacity
           /\ NoConfirm'
           /\ m_reportedTimes' \subseteq Time
<1>1. PICK impl \in Impl : Insert(delay, impl)
  BY DEF SimSchedule
<1>2. m_uid <= m_uid' /\ UNCHANGED <<m_currentTs, m_stop>>
  BY <1>1, UidModulusAssumption
     DEF SimSchedule, Insert, NextUid, KernelInv, KernelTypeOK, Uid
<1>3. KernelInv'
  BY <1>1, <1>2, InsertKeeps
<1>4. writeNextTime(m_currentTs + delay, << >>)
  BY DEF SimSchedule
<1> QED BY <1>2, <1>3, <1>4, AnnounceKeeps

LEMMA ScheduleForKeeps ==
    ASSUME TypeOK, KernelInv, NoConfirm,
           NEW time \in Time, m_currentTs <= time, ScheduleFor(time)
    PROVE  /\ KernelInv'
           /\ UNCHANGED <<m_currentTs, m_stop, m_didRunOnStart,
                          m_preemptiveExecutionEnabled, m_currentAdvanceTime>>
           /\ fedOut' \in Seq(MessageSet)
           /\ Len(fedOut') <= Capacity
           /\ NoConfirm'
           /\ m_reportedTimes' \subseteq Time
           /\ m_didRequestEventInThePast' \in BOOLEAN
<1> DEFINE delay == time - m_currentTs
<1>1. m_currentTs \in Nat /\ time \in Nat
  BY BoundsAssumption DEF KernelInv, KernelTypeOK, Time
<1>2. delay \in Nat /\ m_currentTs + delay = time
  BY <1>1
<1>3. SimSchedule(delay)
  BY DEF ScheduleFor
<1> HIDE DEF delay
<1>4. /\ KernelInv'
      /\ UNCHANGED <<m_currentTs, m_stop>>
      /\ fedOut' \in Seq(MessageSet)
      /\ Len(fedOut') <= Capacity
      /\ NoConfirm'
      /\ m_reportedTimes' \subseteq Time
  BY <1>2, <1>3, SimScheduleKeeps
<1>5. m_didRequestEventInThePast' \in BOOLEAN
  BY Zenon DEF ScheduleFor
<1> QED BY <1>4, <1>5 DEF ScheduleFor

(***************************************************************************)
(* Reading a command.                                                      *)
(***************************************************************************)
LEMMA ReadProperties ==
    ASSUME IInv, NEW type, Read(type)
    PROVE  /\ Head(toFed) \in CommandSet
           /\ Head(toFed).type = type
           /\ Head(toFed).time \in Time
           /\ Head(toFed).time >= ambTime
           /\ type = "ADVANCE_TIME" => Head(toFed).time = ambTime
           /\ m_currentTs <= Head(toFed).time
           /\ pc = "dispatch" /\ NoConfirm /\ replies = << >>
           /\ toFed' \in Seq(CommandSet)
           /\ type # "INIT" => toFed' = << >>
           /\ type = "INIT" => Len(toFed') <= 1 /\ ambState \in {"init", "gone"}
           /\ \A i \in DOMAIN toFed' : i + 1 \in DOMAIN toFed /\ toFed'[i] = toFed[i + 1]
           /\ type = "ADVANCE_TIME" => ambState \in {"confirm", "gone"}
           /\ type \notin {"INIT", "ADVANCE_TIME", "SHUT_DOWN", "UNSUPPORTED"} =>
                 ambState \in {"reply", "gone"}
           /\ UNCHANGED ambVars
<1>1. /\ toFed \in Seq(CommandSet) /\ toFed # << >> /\ toFed' = Tail(toFed)
      /\ pc = "dispatch" /\ Head(toFed).type = type /\ UNCHANGED ambVars
  BY DEF Read, IInv, TypeOK, CommandSet
<1>2. /\ Len(toFed) \in Nat /\ DOMAIN toFed = 1 .. Len(toFed)
      /\ Len(toFed) >= 1
      /\ Head(toFed) \in CommandSet
      /\ Head(toFed) = toFed[1]
      /\ toFed' \in Seq(CommandSet)
      /\ Len(toFed') = Len(toFed) - 1
      /\ \A i \in 1 .. Len(toFed') : toFed'[i] = toFed[i + 1]
  BY <1>1, HeadTailProperties, LenProperties, EmptySeq
<1>3. 1 \in DOMAIN toFed /\ toFed[1].type = type
  BY <1>1, <1>2
<1>4. /\ toFed[1].time >= ambTime
      /\ type = "ADVANCE_TIME" => toFed[1].time = ambTime
      /\ m_currentTs <= ambTime
  BY <1>3 DEF IInv, ClocksAgree
<1>5. toFed[1].time \in Time /\ ambTime \in Time /\ m_currentTs \in Nat
  BY <1>2 DEF CommandSet, IInv, TypeOK, KernelTypeOK
<1>6. m_currentTs <= toFed[1].time
  BY <1>4, <1>5, BoundsAssumption DEF Time
<1>7. NoConfirm /\ replies = << >>
  BY <1>1 DEF IInv, OneAtATime
<1>8. /\ type # "INIT" => Len(toFed') = 0
      /\ Len(toFed') <= 1
  <2>1. Len(toFed) <= 2 /\ (Len(toFed) = 2 => toFed[1].type = "INIT")
    BY DEF IInv, OneAtATime
  <2> QED BY <1>2, <1>3, <2>1
<1>9. type # "INIT" => toFed' = << >>
  BY <1>2, <1>8, EmptySeq
<1>10. /\ type = "INIT" => ambState \in {"init", "gone"}
       /\ type = "ADVANCE_TIME" => ambState \in {"confirm", "gone"}
       /\ type \notin {"INIT", "ADVANCE_TIME", "SHUT_DOWN", "UNSUPPORTED"} =>
             ambState \in {"reply", "gone"}
  BY <1>3 DEF IInv, WhoWaits
<1>11. \A i \in DOMAIN toFed' : i + 1 \in DOMAIN toFed /\ toFed'[i] = toFed[i + 1]
  <2>1. DOMAIN toFed' = 1 .. Len(toFed')
    BY <1>2, LenProperties
  <2> QED BY <1>2, <2>1
<1> QED BY <1>1, <1>2, <1>4, <1>5, <1>6, <1>7, <1>8, <1>9, <1>10, <1>11

(***************************************************************************)
(* A command that is carried out or put off, and then acknowledged, or     *)
(* that ends the federate.                                                 *)
(***************************************************************************)
LEMMA AppendSuccess ==
    /\ Append(<< >>, "SUCCESS") = <<"SUCCESS">>
    /\ <<"SUCCESS">> \in Seq({"SUCCESS"})
    /\ Tail(<<"SUCCESS">>) = << >>
<1>1. Append(<< >>, "SUCCESS") = <<"SUCCESS">> /\ <<"SUCCESS">> \in Seq({"SUCCESS"})
  OBVIOUS
<1>2. Len(<<"SUCCESS">>) = 1 /\ <<"SUCCESS">> # << >>
  OBVIOUS
<1>3. Tail(<<"SUCCESS">>) \in Seq({"SUCCESS"}) /\ Len(Tail(<<"SUCCESS">>)) = 0
  BY <1>1, <1>2, HeadTailProperties
<1> QED BY <1>1, <1>3, EmptySeq

LEMMA HandledKeeps ==
    ASSUME IInv, NEW type, type \notin {"INIT", "ADVANCE_TIME"},
           Read(type), UNCHANGED update,
           \/ /\ type \notin {"SHUT_DOWN", "UNSUPPORTED"}
              /\ Succeed
              /\ NoSchedule \/ \E time \in Time : m_currentTs <= time /\ ScheduleFor(time)
           \/ NoSchedule /\ (Close \/ Exit)
    PROVE  IInv'
<1>1. /\ pc = "dispatch" /\ NoConfirm /\ replies = << >> /\ toFed' = << >>
      /\ type \notin {"SHUT_DOWN", "UNSUPPORTED"} => ambState \in {"reply", "gone"}
      /\ UNCHANGED <<ambKind, ambState, ambTime, requests>>
  BY ReadProperties DEF ambVars
<1>2. TypeOK /\ KernelInv
  BY DEF IInv
<1>3. /\ KernelInv'
      /\ UNCHANGED <<m_currentTs, m_stop, m_didRunOnStart,
                     m_preemptiveExecutionEnabled, m_currentAdvanceTime>>
      /\ fedOut' \in Seq(MessageSet)
      /\ Len(fedOut') <= Capacity
      /\ NoConfirm'
      /\ m_reportedTimes' \subseteq Time
      /\ m_didRequestEventInThePast' \in BOOLEAN
  <2>1. CASE NoSchedule
    <3>1. KernelInv'
      BY <1>2, <2>1, KernelStutters DEF NoSchedule
    <3> QED BY <1>1, <1>2, <2>1, <3>1
            DEF NoSchedule, simVars, bridgeVars, TypeOK, MessageSet, NoConfirm
  <2>2. CASE \E time \in Time : m_currentTs <= time /\ ScheduleFor(time)
    BY <1>1, <1>2, <2>2, ScheduleForKeeps
  <2> QED BY <2>1, <2>2
<1>4. \/ /\ pc' = "dispatch" /\ replies' = <<"SUCCESS">>
         /\ ambState \in {"reply", "gone"}
      \/ pc' \in {"closed", "exited"} /\ replies' = << >>
  BY <1>1, AppendSuccess DEF Succeed, Close, Exit
<1>5. TypeOK'
  <2>1. toFed' \in Seq(CommandSet) /\ replies' \in Seq({"SUCCESS"})
    BY <1>1, <1>4, AppendSuccess, EmptySeq
  <2> QED BY <1>1, <1>2, <1>3, <1>4, <2>1
          DEF TypeOK, KernelInv, CommandSet, MessageSet
<1>6. OneAtATime'
  BY <1>1, <1>3, <1>4 DEF OneAtATime, Busy, NoConfirm
<1>7. WhoWaits'
  BY <1>1, <1>3, <1>4 DEF IInv, WhoWaits, Busy, Granted, NoConfirm
<1>8. SomethingIsUnderway'
  BY <1>4 DEF SomethingIsUnderway, Terminated
<1>9. ClocksAgree'
  BY <1>1, <1>3, <1>4 DEF IInv, ClocksAgree, NoConfirm, Granted
<1> QED BY <1>3, <1>5, <1>6, <1>7, <1>8, <1>9 DEF IInv

(***************************************************************************)
(* The commands but ADVANCE_TIME and INIT, in these terms.                 *)
(***************************************************************************)
LEMMA MaxProperties ==
    ASSUME NEW time \in Time
    PROVE  F!Max({time, 1}) \in Time /\ time <= F!Max({time, 1})
<1>1. time \in Nat /\ 1 \in Time
  BY BoundsAssumption DEF Time
<1>2. \E x \in {time, 1} : \A y \in {time, 1} : x >= y
  BY <1>1
<1> QED BY <1>1, <1>2 DEF F!Max

LEMMA CommandKeeps ==
    ASSUME IInv,
           \/ AddNode \/ AddNodeB \/ RemoveNode \/ ConfWifiRadio \/ SendMsg
           \/ ConfCellRadio \/ ShutDown \/ Unsupported
    PROVE  IInv'
<1>1. m_currentTs \in Time /\ m_currentTs <= m_currentTs
  BY BoundsAssumption
     DEF IInv, ClocksAgree, TypeOK, KernelInv, KernelTypeOK, Time
<1>2. CASE AddNode
  BY <1>1, <1>2, HandledKeeps, ReadProperties DEF AddNode
<1>3. CASE AddNodeB
  BY <1>1, <1>3, HandledKeeps DEF AddNodeB
<1>4. CASE RemoveNode
  BY <1>4, HandledKeeps, ReadProperties DEF RemoveNode
<1>5. CASE ConfWifiRadio
  BY <1>5, HandledKeeps, ReadProperties DEF ConfWifiRadio
<1>6. CASE SendMsg
  <2> DEFINE time == F!Max({Head(toFed).time, 1})
  <2>1. Head(toFed).time \in Time /\ m_currentTs <= Head(toFed).time
    BY <1>6, ReadProperties DEF SendMsg
  <2>2. time \in Time /\ Head(toFed).time <= time
    BY <2>1, MaxProperties
  <2>3. (ScheduleFor(time) /\ Succeed) \/ (NoSchedule /\ Exit)
    BY <1>6 DEF SendMsg
  <2> HIDE DEF time
  <2>4. m_currentTs <= time
    BY <1>1, <2>1, <2>2, BoundsAssumption DEF Time
  <2> QED BY <1>6, <2>2, <2>3, <2>4, HandledKeeps DEF SendMsg
<1>7. CASE ConfCellRadio
  BY <1>1, <1>7, HandledKeeps, ReadProperties DEF ConfCellRadio
<1>8. CASE ShutDown \/ Unsupported
  BY <1>8, HandledKeeps DEF ShutDown, Unsupported
<1> QED BY <1>2, <1>3, <1>4, <1>5, <1>6, <1>7, <1>8

(***************************************************************************)
(* The other commands.                                                     *)
(***************************************************************************)
LEMMA InitAgainKeeps == ASSUME IInv, InitAgain PROVE IInv'
<1>1. /\ Read("INIT")
      /\ NoSchedule
      /\ UNCHANGED <<pc, update, replies>>
  BY DEF InitAgain
<1>2. /\ pc = "dispatch" /\ NoConfirm /\ replies = << >>
      /\ toFed' \in Seq(CommandSet) /\ Len(toFed') <= 1
      /\ \A i \in DOMAIN toFed' : i + 1 \in DOMAIN toFed /\ toFed'[i] = toFed[i + 1]
      /\ ambState \in {"init", "gone"}
      /\ UNCHANGED <<ambKind, ambState, ambTime, requests>>
  BY <1>1, ReadProperties DEF ambVars
<1>3. KernelInv' /\ m_stop' = FALSE
  BY <1>1, KernelStutters DEF NoSchedule, IInv, simVars
<1>4. UNCHANGED <<m_currentTs, m_didRunOnStart, m_preemptiveExecutionEnabled,
                  m_didRequestEventInThePast, m_currentAdvanceTime,
                  m_reportedTimes, fedOut>>
  BY <1>1 DEF NoSchedule, simVars, bridgeVars
<1>5. TypeOK'
  BY <1>1, <1>2, <1>3, <1>4 DEF IInv, TypeOK, KernelInv, CommandSet
<1>6. Len(toFed') # 2
  BY <1>2
<1>7. OneAtATime'
  BY <1>1, <1>2, <1>4, <1>6 DEF IInv, OneAtATime, NoConfirm, Busy
<1>8. WhoWaits'
  BY <1>1, <1>2, <1>4 DEF IInv, WhoWaits, NoConfirm, Busy, Granted
<1>9. SomethingIsUnderway' /\ ClocksAgree'
  BY <1>1, <1>2, <1>4
     DEF IInv, SomethingIsUnderway, ClocksAgree, NoConfirm, Granted
<1> QED BY <1>3, <1>5, <1>7, <1>8, <1>9 DEF IInv

LEMMA UpdateNodeKeeps == ASSUME IInv, UpdateNode PROVE IInv'
<1>1. /\ Read("UPDATE_NODE")
      /\ NoSchedule
      /\ pc' = "update"
      /\ replies' = replies
      /\ update' = [time |-> Head(toFed).time, left |-> Head(toFed).count]
  BY DEF UpdateNode
<1>2. /\ Head(toFed) \in CommandSet
      /\ Head(toFed).time >= ambTime
      /\ pc = "dispatch" /\ NoConfirm /\ replies = << >>
      /\ toFed' = << >>
      /\ ambState \in {"reply", "gone"}
      /\ UNCHANGED <<ambKind, ambState, ambTime, requests>>
  BY <1>1, ReadProperties DEF ambVars
<1>3. KernelInv' /\ m_stop' = FALSE
  BY <1>1, KernelStutters DEF NoSchedule, IInv, simVars
<1>4. UNCHANGED <<m_currentTs, m_didRunOnStart, m_preemptiveExecutionEnabled,
                  m_didRequestEventInThePast, m_currentAdvanceTime,
                  m_reportedTimes, fedOut>>
  BY <1>1 DEF NoSchedule, simVars, bridgeVars
<1>5. update' \in [time : Time, left : Nat] /\ update'.time >= ambTime
  BY <1>1, <1>2 DEF CommandSet
<1>6. TypeOK'
  BY <1>1, <1>2, <1>3, <1>4, <1>5 DEF IInv, TypeOK, KernelInv
<1>7. OneAtATime' /\ WhoWaits' /\ SomethingIsUnderway'
  BY <1>1, <1>2, <1>4
     DEF OneAtATime, WhoWaits, SomethingIsUnderway, NoConfirm, Busy, Granted
<1>8. ClocksAgree'
  BY <1>1, <1>2, <1>4, <1>5 DEF IInv, ClocksAgree, NoConfirm, Granted
<1> QED BY <1>3, <1>6, <1>7, <1>8 DEF IInv

LEMMA UpdateOneKeeps == ASSUME IInv, UpdateOne PROVE IInv'
<1>1. /\ pc = "update"
      /\ update.left > 0
      /\ ScheduleFor(update.time)
      /\ update' = [update EXCEPT !.left = @ - 1]
      /\ UNCHANGED <<pc, toFed, replies, ambKind, ambState, ambTime, requests>>
  BY DEF UpdateOne, ambVars
<1>2. /\ toFed = << >> /\ replies = << >> /\ NoConfirm
      /\ update \in [time : Time, left : Nat]
      /\ update.time >= ambTime /\ m_currentTs <= ambTime
  BY <1>1 DEF IInv, OneAtATime, Busy, TypeOK, ClocksAgree
<1>3. update.time \in Time /\ m_currentTs <= update.time
  <2>1. m_currentTs \in Nat /\ ambTime \in Time /\ update.time \in Time
    BY <1>2 DEF IInv, TypeOK, KernelTypeOK
  <2> QED BY <1>2, <2>1, BoundsAssumption DEF Time
<1>4. /\ KernelInv'
      /\ UNCHANGED <<m_currentTs, m_stop, m_didRunOnStart,
                     m_preemptiveExecutionEnabled, m_currentAdvanceTime>>
      /\ fedOut' \in Seq(MessageSet)
      /\ Len(fedOut') <= Capacity
      /\ NoConfirm'
      /\ m_reportedTimes' \subseteq Time
      /\ m_didRequestEventInThePast' \in BOOLEAN
  BY <1>1, <1>2, <1>3, ScheduleForKeeps DEF IInv
<1>5. update' \in [time : Time, left : Nat] /\ update'.time = update.time
  BY <1>1, <1>2
<1>6. TypeOK'
  BY <1>1, <1>4, <1>5 DEF IInv, TypeOK, KernelInv, MessageSet
<1>7. OneAtATime' /\ WhoWaits' /\ SomethingIsUnderway'
  BY <1>1, <1>2, <1>4
     DEF IInv, OneAtATime, WhoWaits, SomethingIsUnderway, NoConfirm, Busy, Granted
<1>8. ClocksAgree'
  BY <1>1, <1>2, <1>4, <1>5 DEF IInv, ClocksAgree, NoConfirm, Granted
<1> QED BY <1>4, <1>6, <1>7, <1>8 DEF IInv

LEMMA UpdateDoneKeeps == ASSUME IInv, UpdateDone PROVE IInv'
<1>1. /\ pc = "update"
      /\ pc' = "dispatch" /\ replies' = Append(replies, "SUCCESS")
      /\ NoSchedule
      /\ UNCHANGED <<update, toFed, ambKind, ambState, ambTime, requests>>
  BY DEF UpdateDone, Succeed, ambVars
<1>2. /\ toFed = << >> /\ replies = << >> /\ NoConfirm
      /\ ambState \in {"reply", "gone"}
  BY <1>1 DEF IInv, OneAtATime, WhoWaits, Busy
<1>3. replies' = <<"SUCCESS">> /\ replies' \in Seq({"SUCCESS"})
  BY <1>1, <1>2, AppendSuccess
<1>4. KernelInv' /\ m_stop' = FALSE
  BY <1>1, KernelStutters DEF NoSchedule, IInv, simVars
<1>5. UNCHANGED <<m_currentTs, m_didRunOnStart, m_preemptiveExecutionEnabled,
                  m_didRequestEventInThePast, m_currentAdvanceTime,
                  m_reportedTimes, fedOut>>
  BY <1>1 DEF NoSchedule, simVars, bridgeVars
<1>6. TypeOK'
  BY <1>1, <1>3, <1>4, <1>5 DEF IInv, TypeOK, KernelInv
<1>7. OneAtATime' /\ WhoWaits' /\ SomethingIsUnderway'
  BY <1>1, <1>2, <1>3, <1>5
     DEF OneAtATime, WhoWaits, SomethingIsUnderway, NoConfirm, Busy, Granted
<1>8. ClocksAgree'
  BY <1>1, <1>2, <1>5 DEF IInv, ClocksAgree, NoConfirm, Granted
<1> QED BY <1>4, <1>6, <1>7, <1>8 DEF IInv

(***************************************************************************)
(* ADVANCE_TIME.                                                           *)
(***************************************************************************)
LEMMA NotifyTwo ==
    ASSUME fedOut \in Seq(MessageSet), NoConfirm,
           NEW n \in MessageSet, ~ IsConfirm(n), NEW m \in MessageSet,
           Notify(<<n>> \o <<m>>)
    PROVE  /\ fedOut' \in Seq(MessageSet)
           /\ Len(fedOut') <= Capacity
           /\ \A i \in DOMAIN fedOut' :
                 IsConfirm(fedOut'[i]) => i = Len(fedOut') /\ fedOut'[i] = m
           /\ fedOut'[Len(fedOut')] = m
           /\ Len(fedOut') \in DOMAIN fedOut'
<1> DEFINE messages == <<n>> \o <<m>>
<1>1. /\ <<n>> \in Seq(MessageSet) /\ Len(<<n>>) = 1 /\ <<n>>[1] = n
      /\ <<m>> \in Seq(MessageSet) /\ Len(<<m>>) = 1 /\ <<m>>[1] = m
  OBVIOUS
<1>2. /\ messages \in Seq(MessageSet)
      /\ Len(messages) = Len(<<n>>) + Len(<<m>>)
      /\ \A i \in 1 .. Len(<<n>>) + Len(<<m>>) :
            messages[i] = IF i <= Len(<<n>>) THEN <<n>>[i] ELSE <<m>>[i - Len(<<n>>)]
  BY <1>1, ConcatProperties, Zenon
<1>3. Notify(messages)
  OBVIOUS
<1> HIDE DEF messages
<1>4. Len(messages) = 2 /\ messages[1] = n /\ messages[2] = m
  BY <1>1, <1>2
<1>5. /\ fedOut' \in Seq(MessageSet)
      /\ Len(fedOut') <= Capacity
      /\ Len(fedOut') = Len(fedOut) + 2
      /\ \A i \in 1 .. Len(fedOut) : fedOut'[i] = fedOut[i]
      /\ fedOut'[Len(fedOut) + 1] = n
      /\ fedOut'[Len(fedOut) + 2] = m
  <2>1. /\ fedOut' \in Seq(MessageSet)
        /\ Len(fedOut') <= Capacity
        /\ Len(fedOut') = Len(fedOut) + Len(messages)
        /\ \A i \in 1 .. Len(fedOut) : fedOut'[i] = fedOut[i]
        /\ \A i \in 1 .. Len(messages) : fedOut'[Len(fedOut) + i] = messages[i]
    BY <1>2, <1>3, NotifyProperties
  <2> QED BY <1>4, <2>1
<1>6. /\ Len(fedOut) \in Nat
      /\ DOMAIN fedOut = 1 .. Len(fedOut)
      /\ DOMAIN fedOut' = 1 .. Len(fedOut')
  BY <1>5, LenProperties
<1> QED BY <1>5, <1>6 DEF NoConfirm

(* The confirmation of a grant is the last message and bears the time. *)
Confirmed ==
    /\ fedOut' \in Seq(MessageSet)
    /\ Len(fedOut') <= Capacity
    /\ \A i \in DOMAIN fedOut' :
          IsConfirm(fedOut'[i]) => i = Len(fedOut') /\ fedOut'[i].time = m_currentTs
    /\ ~ NoConfirm'

LEMMA ConfirmMessage ==
    ASSUME TypeOK, m_currentTs \in Time, NoConfirm, NEW type \in {"END", "PREEMPTED"},
           \/ Notify(<<Message(type, m_currentTs)>>)
           \/ Notify(<<Message("NEXT_EVENT", 1)>> \o <<Message(type, m_currentTs)>>)
    PROVE  Confirmed
<1> DEFINE m == Message(type, m_currentTs)
           n == Message("NEXT_EVENT", 1)
<1>1. m \in MessageSet /\ IsConfirm(m) /\ m.time = m_currentTs
  BY DEF Message, MessageSet, MessageTypes, IsConfirm
<1>2. n \in MessageSet /\ ~ IsConfirm(n)
  BY BoundsAssumption DEF Message, MessageSet, MessageTypes, IsConfirm, Time
<1>3. fedOut \in Seq(MessageSet)
  BY DEF TypeOK, MessageSet
<1>4. Notify(<<m>>) \/ Notify(<<n>> \o <<m>>)
  OBVIOUS
<1> HIDE DEF m, n
<1>5. /\ fedOut' \in Seq(MessageSet)
      /\ Len(fedOut') <= Capacity
      /\ \A i \in DOMAIN fedOut' :
            IsConfirm(fedOut'[i]) => i = Len(fedOut') /\ fedOut'[i] = m
      /\ fedOut'[Len(fedOut')] = m
      /\ Len(fedOut') \in DOMAIN fedOut'
  BY <1>1, <1>2, <1>3, <1>4, NotifyOne, NotifyTwo
<1>6. ~ NoConfirm'
  BY <1>1, <1>5 DEF NoConfirm, IsConfirm
<1> QED BY <1>1, <1>5, <1>6 DEF Confirmed

LEMMA CurrentTsIsTime == ASSUME IInv PROVE m_currentTs \in Time
BY BoundsAssumption DEF IInv, ClocksAgree, TypeOK, KernelInv, KernelTypeOK, Time

LEMMA AdvanceToZeroKeeps == ASSUME IInv, AdvanceToZero PROVE IInv'
<1>1. /\ Read("ADVANCE_TIME")
      /\ m_currentAdvanceTime' = 0
      /\ writeNextTime(1, <<Message("END", m_currentTs)>>)
      /\ UNCHANGED <<simVars, pc, update, m_didRunOnStart,
                     m_preemptiveExecutionEnabled, m_didRequestEventInThePast,
                     replies>>
  BY DEF AdvanceToZero
<1>2. /\ pc = "dispatch" /\ NoConfirm /\ replies = << >>
      /\ toFed' = << >>
      /\ ambState \in {"confirm", "gone"}
      /\ UNCHANGED <<ambKind, ambState, ambTime, requests>>
  BY <1>1, ReadProperties DEF ambVars
<1>3. KernelInv' /\ m_stop' = FALSE /\ m_currentTs' = m_currentTs
  BY <1>1, KernelStutters DEF IInv, simVars
<1>4. Confirmed /\ m_reportedTimes' \subseteq Time
  <2>1. m_reportedTimes \subseteq Time /\ 1 \in Time
    BY BoundsAssumption DEF IInv, TypeOK, Time
  <2>2. m_reportedTimes' \subseteq Time
    BY <1>1, <2>1, TrimProperties DEF writeNextTime
  <2>3. \/ Notify(<<Message("END", m_currentTs)>>)
        \/ Notify(<<Message("NEXT_EVENT", 1)>> \o <<Message("END", m_currentTs)>>)
    BY <1>1 DEF writeNextTime
  <2> QED BY <1>2, <2>2, <2>3, ConfirmMessage, CurrentTsIsTime DEF IInv
<1>5. TypeOK'
  <2>1. toFed' \in Seq(CommandSet) /\ 0 \in Time
    BY <1>2, EmptySeq, BoundsAssumption DEF Time
  <2> QED BY <1>1, <1>2, <1>3, <1>4, <2>1
          DEF IInv, TypeOK, KernelInv, CommandSet, MessageSet, Confirmed
<1>6. OneAtATime' /\ WhoWaits' /\ SomethingIsUnderway'
  BY <1>1, <1>2, <1>4
     DEF OneAtATime, WhoWaits, SomethingIsUnderway, Confirmed, Busy, Granted
<1>7. ClocksAgree'
  BY <1>1, <1>2, <1>3, <1>4 DEF IInv, ClocksAgree, Confirmed, Granted
<1> QED BY <1>3, <1>5, <1>6, <1>7 DEF IInv

LEMMA AdvanceTimeKeeps == ASSUME IInv, AdvanceTime PROVE IInv'
<1>1. /\ Read("ADVANCE_TIME")
      /\ m_currentAdvanceTime' = Head(toFed).time
      /\ pc' \in {"onStart", "advance"}
      /\ m_didRequestEventInThePast' \in {FALSE, m_didRequestEventInThePast}
      /\ UNCHANGED <<simVars, update, m_didRunOnStart,
                     m_preemptiveExecutionEnabled, m_reportedTimes, replies, fedOut>>
  BY DEF AdvanceTime
<1>2. /\ Head(toFed).time \in Time /\ Head(toFed).time = ambTime
      /\ pc = "dispatch" /\ NoConfirm /\ replies = << >>
      /\ toFed' = << >>
      /\ ambState \in {"confirm", "gone"}
      /\ UNCHANGED <<ambKind, ambState, ambTime, requests>>
  BY <1>1, ReadProperties DEF ambVars
<1>3. KernelInv' /\ m_stop' = FALSE /\ m_currentTs' = m_currentTs
  BY <1>1, KernelStutters DEF IInv, simVars
<1>4. TypeOK'
  <2>1. toFed' \in Seq(CommandSet)
    BY <1>2, EmptySeq
  <2>2. m_didRequestEventInThePast' \in BOOLEAN
    BY <1>1 DEF IInv, TypeOK
  <2> QED BY <1>1, <1>2, <1>3, <2>1, <2>2 DEF IInv, TypeOK, KernelInv, CommandSet
<1>5. OneAtATime' /\ WhoWaits' /\ SomethingIsUnderway'
  BY <1>1, <1>2
     DEF OneAtATime, WhoWaits, SomethingIsUnderway, NoConfirm, Busy, Granted
<1>6. ClocksAgree'
  BY <1>1, <1>2, <1>3 DEF IInv, ClocksAgree, NoConfirm
<1> QED BY <1>3, <1>4, <1>5, <1>6 DEF IInv

LEMMA OnStartKeeps == ASSUME IInv, OnStart PROVE IInv'
<1>1. /\ pc = "onStart" /\ pc' = "advance"
      /\ SimSchedule(0) \/ UNCHANGED <<simVars, m_reportedTimes, fedOut>>
      /\ m_didRunOnStart' = TRUE
      /\ m_didRequestEventInThePast' = FALSE
      /\ UNCHANGED <<update, m_preemptiveExecutionEnabled, m_currentAdvanceTime,
                     toFed, replies, ambKind, ambState, ambTime, requests>>
  BY DEF OnStart, ambVars
<1>2. toFed = << >> /\ replies = << >> /\ NoConfirm /\ TypeOK /\ KernelInv
  BY <1>1 DEF IInv, OneAtATime, Busy
<1>3. /\ KernelInv'
      /\ UNCHANGED <<m_currentTs, m_stop>>
      /\ fedOut' \in Seq(MessageSet)
      /\ Len(fedOut') <= Capacity
      /\ NoConfirm'
      /\ m_reportedTimes' \subseteq Time
  <2>1. CASE SimSchedule(0)
    <3>1. m_currentTs + 0 \in Time
      BY CurrentTsIsTime DEF Time
    <3> QED BY <1>2, <2>1, <3>1, SimScheduleKeeps
  <2>2. CASE UNCHANGED <<simVars, m_reportedTimes, fedOut>>
    <3>1. KernelInv'
      BY <1>2, <2>2, KernelStutters
    <3> QED BY <1>2, <2>2, <3>1 DEF simVars, TypeOK, MessageSet, NoConfirm
  <2> QED BY <1>1, <2>1, <2>2
<1>4. TypeOK'
  BY <1>1, <1>3 DEF IInv, TypeOK, KernelInv, MessageSet
<1>5. OneAtATime' /\ WhoWaits' /\ SomethingIsUnderway'
  BY <1>1, <1>2, <1>3
     DEF IInv, OneAtATime, WhoWaits, SomethingIsUnderway, NoConfirm, Busy, Granted
<1>6. ClocksAgree'
  BY <1>1, <1>2, <1>3 DEF IInv, ClocksAgree, NoConfirm, Granted
<1> QED BY <1>3, <1>4, <1>5, <1>6 DEF IInv

(***************************************************************************)
(* An event is executed within the grant.                                  *)
(***************************************************************************)
LEMMA ExecutedInGrant ==
    ASSUME IInv, NEW e, RunOneEvent(e)
    PROVE  /\ KernelInv'
           /\ m_currentTs' \in Nat
           /\ m_currentTs <= m_currentTs'
           /\ m_currentTs' <= ambTime
           /\ ambState \in {"confirm", "gone"}
           /\ m_currentAdvanceTime = ambTime
<1>1. /\ pc = "advance"
      /\ ProcessOneEvent(e)
      /\ NextIsBy(m_currentAdvanceTime)
  BY DEF RunOneEvent, LoopContinues
<1>2. KernelInv' /\ e \in m_events /\ LaterThanCurrent(e)
  BY <1>1, ProcessKeeps DEF IInv
<1>3. m_currentTs' = e.ts /\ IsNext(e)
  BY <1>1 DEF ProcessOneEvent
<1>4. PICK f \in m_events : IsNext(f) /\ f.ts <= m_currentAdvanceTime
  BY <1>1 DEF NextIsBy
<1>5. e.ts \in Nat /\ f.ts \in Nat /\ m_currentTs \in Nat
  BY <1>2, <1>4 DEF IInv, KernelInv, KernelTypeOK, EventId
<1>6. e.ts <= f.ts
  BY <1>3, <1>4, <1>5 DEF IsNext, Before
<1>7. m_currentTs <= e.ts
  BY <1>2, <1>5 DEF LaterThanCurrent
<1>8. ambState \in {"confirm", "gone"} /\ m_currentAdvanceTime = ambTime
  BY <1>1 DEF IInv, WhoWaits, ClocksAgree, Granted
<1>9. ambTime \in Nat
  BY BoundsAssumption DEF IInv, TypeOK, Time
<1> QED BY <1>2, <1>3, <1>4, <1>5, <1>6, <1>7, <1>8, <1>9

LEMMA RunOneEventKeeps == ASSUME IInv, NEW e, RunOneEvent(e) PROVE IInv'
<1>1. /\ pc = "advance" /\ pc' = "handler"
      /\ UNCHANGED <<update, m_didRunOnStart, m_preemptiveExecutionEnabled,
                     m_didRequestEventInThePast, m_currentAdvanceTime,
                     m_reportedTimes, toFed, replies, fedOut,
                     ambKind, ambState, ambTime, requests>>
      /\ m_stop' = m_stop
  BY DEF RunOneEvent, bridgeVars, channels, ambVars, ProcessOneEvent
<1>2. /\ KernelInv'
      /\ m_currentTs' <= ambTime
      /\ m_currentAdvanceTime = ambTime
  BY ExecutedInGrant
<1>3. toFed = << >> /\ replies = << >> /\ NoConfirm
  BY <1>1 DEF IInv, OneAtATime, Busy
<1>4. TypeOK'
  BY <1>1, <1>2 DEF IInv, TypeOK, KernelInv
<1>5. OneAtATime' /\ WhoWaits' /\ SomethingIsUnderway'
  BY <1>1, <1>3
     DEF IInv, OneAtATime, WhoWaits, SomethingIsUnderway, NoConfirm, Busy, Granted
<1>6. ClocksAgree'
  BY <1>1, <1>2, <1>3 DEF IInv, ClocksAgree, NoConfirm, Granted
<1> QED BY <1>1, <1>2, <1>4, <1>5, <1>6 DEF IInv

LEMMA ConfirmKeeps == ASSUME IInv, Confirm PROVE IInv'
<1>1. /\ pc = "advance" /\ pc' = "dispatch"
      /\ \E type \in {"END", "PREEMPTED"} : Notify(<<Message(type, m_currentTs)>>)
      /\ UNCHANGED <<simVars, update, bridgeVars, toFed, replies,
                     ambKind, ambState, ambTime, requests>>
  BY DEF Confirm, ambVars
<1>2. /\ toFed = << >> /\ replies = << >> /\ NoConfirm
      /\ ambState \in {"confirm", "gone"}
  BY <1>1 DEF IInv, OneAtATime, WhoWaits, Busy, Granted
<1>3. Confirmed
  BY <1>1, <1>2, ConfirmMessage, CurrentTsIsTime DEF IInv
<1>4. KernelInv' /\ m_stop' = FALSE /\ m_currentTs' = m_currentTs
  BY <1>1, KernelStutters DEF IInv, simVars
<1>5. TypeOK'
  BY <1>1, <1>3, <1>4
     DEF IInv, TypeOK, KernelInv, MessageSet, Confirmed, bridgeVars
<1>6. OneAtATime' /\ WhoWaits' /\ SomethingIsUnderway'
  BY <1>1, <1>2, <1>3
     DEF OneAtATime, WhoWaits, SomethingIsUnderway, Confirmed, Busy, Granted
<1>7. ClocksAgree'
  BY <1>1, <1>2, <1>3, <1>4 DEF IInv, ClocksAgree, Confirmed, Granted
<1> QED BY <1>4, <1>5, <1>6, <1>7 DEF IInv

(***************************************************************************)
(* Inside a callback.                                                      *)
(***************************************************************************)
LEMMA InHandlerKeeps ==
    ASSUME IInv, pc = "handler", pc' \in {"handler", "advance", "exited"},
           KernelInv', UNCHANGED <<m_currentTs, m_stop>>,
           fedOut' \in Seq(MessageSet), Len(fedOut') <= Capacity, NoConfirm',
           m_reportedTimes' \subseteq Time, m_didRequestEventInThePast' \in BOOLEAN,
           UNCHANGED <<update, m_didRunOnStart, m_preemptiveExecutionEnabled,
                       m_currentAdvanceTime, toFed, replies, ambVars>>
    PROVE  IInv'
<1>1. UNCHANGED <<ambKind, ambState, ambTime, requests>>
  BY DEF ambVars
<1>2. toFed = << >> /\ replies = << >> /\ NoConfirm
  BY DEF IInv, OneAtATime, Busy
<1>3. TypeOK'
  BY <1>1 DEF IInv, TypeOK, KernelInv, MessageSet
<1>4. OneAtATime' /\ WhoWaits' /\ SomethingIsUnderway'
  BY <1>1, <1>2
     DEF IInv, OneAtATime, WhoWaits, SomethingIsUnderway, NoConfirm, Busy, Granted,
         Terminated
<1>5. ClocksAgree'
  BY <1>1, <1>2 DEF IInv, ClocksAgree, NoConfirm, Granted
<1> QED BY <1>3, <1>4, <1>5 DEF IInv

LEMMA HandlerKeeps == ASSUME IInv, Handler PROVE IInv'
<1>1. /\ pc = "handler"
      /\ UNCHANGED <<update, toFed, ambVars>>
  BY DEF Handler, HandlerSchedules, HandlerSchedulesNow, HandlerReceives,
         HandlerReturns, HandlerExits, channels
<1>2. /\ TypeOK /\ KernelInv /\ NoConfirm
      /\ fedOut \in Seq(MessageSet) /\ Len(fedOut) <= Capacity
      /\ m_reportedTimes \subseteq Time
      /\ m_didRequestEventInThePast \in BOOLEAN
  BY <1>1 DEF IInv, OneAtATime, Busy, TypeOK, MessageSet
<1>3. m_currentTs \in Time /\ m_currentTs \in Nat
  BY CurrentTsIsTime DEF IInv, KernelInv, KernelTypeOK
<1>4. ASSUME NEW delay \in Delays, HandlerSchedules(delay) PROVE IInv'
  <2>1. /\ ScheduleFor(m_currentTs + delay) /\ m_currentTs + delay <= MaxTime
        /\ UNCHANGED <<pc, replies>>
    BY <1>4 DEF HandlerSchedules
  <2>2. m_currentTs + delay \in Time /\ m_currentTs <= m_currentTs + delay
    BY <1>3, <2>1, DelaysAssumption, BoundsAssumption DEF Time
  <2>3. /\ KernelInv'
        /\ UNCHANGED <<m_currentTs, m_stop, m_didRunOnStart,
                       m_preemptiveExecutionEnabled, m_currentAdvanceTime>>
        /\ fedOut' \in Seq(MessageSet)
        /\ Len(fedOut') <= Capacity
        /\ NoConfirm'
        /\ m_reportedTimes' \subseteq Time
        /\ m_didRequestEventInThePast' \in BOOLEAN
    BY <1>2, <2>1, <2>2, ScheduleForKeeps
  <2> QED BY <1>1, <2>1, <2>3, InHandlerKeeps
<1>5. CASE HandlerSchedulesNow
  <2>1. PICK impl \in Impl : Insert(0, impl)
    BY <1>5 DEF HandlerSchedulesNow
  <2>2. m_uid <= m_uid' /\ UNCHANGED <<m_currentTs, m_stop>>
    BY <1>2, <1>5, <2>1, UidModulusAssumption
       DEF HandlerSchedulesNow, Insert, NextUid, KernelInv, KernelTypeOK, Uid
  <2>3. KernelInv'
    BY <1>2, <2>1, <2>2, InsertKeeps
  <2>4. UNCHANGED <<pc, bridgeVars, replies, fedOut>>
    BY <1>5 DEF HandlerSchedulesNow, channels
  <2> QED BY <1>1, <1>2, <2>2, <2>3, <2>4, InHandlerKeeps DEF bridgeVars, NoConfirm
<1>6. CASE HandlerReceives
  <2> DEFINE m == Message("RECV_MSG", m_currentTs)
  <2>1. /\ Notify(<<m>>)
        /\ m_didRequestEventInThePast' =
              (m_didRequestEventInThePast \/ m_currentTs < m_currentAdvanceTime)
        /\ UNCHANGED <<simVars, pc, m_didRunOnStart,
                       m_preemptiveExecutionEnabled, m_currentAdvanceTime,
                       m_reportedTimes, replies>>
    BY <1>6 DEF HandlerReceives
  <2>2. m \in MessageSet /\ ~ IsConfirm(m)
    BY <1>3 DEF Message, MessageSet, MessageTypes, IsConfirm
  <2> HIDE DEF m
  <2>3. /\ fedOut' \in Seq(MessageSet)
        /\ Len(fedOut') <= Capacity
        /\ \A i \in DOMAIN fedOut' :
              IsConfirm(fedOut'[i]) => i = Len(fedOut') /\ fedOut'[i] = m
    BY <1>2, <2>1, <2>2, NotifyOne
  <2>4. NoConfirm'
    BY <2>2, <2>3 DEF NoConfirm, IsConfirm
  <2>5. KernelInv' /\ UNCHANGED <<m_currentTs, m_stop>>
    BY <1>2, <2>1, KernelStutters DEF simVars
  <2>6. m_didRequestEventInThePast' \in BOOLEAN
    BY <2>1, Zenon
  <2> QED BY <1>1, <1>2, <2>1, <2>3, <2>4, <2>5, <2>6, InHandlerKeeps
<1>7. CASE HandlerReturns \/ HandlerExits
  <2>1. /\ pc' \in {"advance", "exited"}
        /\ UNCHANGED <<simVars, bridgeVars, replies, fedOut>>
    BY <1>7 DEF HandlerReturns, HandlerExits, Exit, channels
  <2>2. KernelInv' /\ UNCHANGED <<m_currentTs, m_stop>>
    BY <1>2, <2>1, KernelStutters DEF simVars
  <2> QED BY <1>1, <1>2, <2>1, <2>2, InHandlerKeeps DEF bridgeVars, NoConfirm
<1> QED BY <1>4, <1>5, <1>6, <1>7 DEF Handler

(***************************************************************************)
(* The end of the connection.                                              *)
(***************************************************************************)
LEMMA PeerIsGoneKeeps == ASSUME IInv, PeerIsGone PROVE IInv'
<1>1. /\ pc' \in {"closed", "exited"} /\ ~ Terminated /\ ambState = "gone"
      /\ UNCHANGED <<simVars, update, m_didRunOnStart, m_preemptiveExecutionEnabled,
                     m_didRequestEventInThePast, m_currentAdvanceTime,
                     m_reportedTimes, toFed, replies, fedOut,
                     ambKind, ambState, ambTime, requests>>
  BY DEF PeerIsGone, Close, Exit, bridgeVars, ambVars
<1>2. KernelInv' /\ m_stop' = FALSE /\ m_currentTs' = m_currentTs
  BY <1>1, KernelStutters DEF IInv, simVars
<1>3. TypeOK'
  BY <1>1, <1>2 DEF IInv, TypeOK, KernelInv
<1>4. OneAtATime'
  BY <1>1 DEF IInv, OneAtATime, Busy, NoConfirm
<1>5. WhoWaits' /\ SomethingIsUnderway'
  BY <1>1 DEF IInv, WhoWaits, SomethingIsUnderway, Busy, Granted, NoConfirm
<1>6. ClocksAgree'
  BY <1>1, <1>2 DEF IInv, ClocksAgree, Granted
<1> QED BY <1>2, <1>3, <1>4, <1>5, <1>6 DEF IInv

(***************************************************************************)
(* The ambassador sends a command; a second INIT is two.                   *)
(***************************************************************************)
LEMMA AmbSends ==
    ASSUME IInv, ambState = "ready", NEW s \in Seq(CommandSet), toFed' = s,
           \/ Len(s) = 1
           \/ Len(s) = 2 /\ s[1].type = "INIT" /\ s[2].type = "UNSUPPORTED",
           ambState' \in {"reply", "confirm", "init", "done"},
           ambTime' \in Time, ambTime <= ambTime', requests' \subseteq Time,
           \A i \in 1 .. Len(s) : s[i].time >= ambTime',
           \A i \in 1 .. Len(s) :
               s[i].type = "ADVANCE_TIME" => s[i].time = ambTime',
           \A i \in 1 .. Len(s) :
               \/ s[i].type = "ADVANCE_TIME" /\ ambState' = "confirm"
               \/ s[i].type = "SHUT_DOWN" /\ ambState' = "done"
               \/ s[i].type = "INIT" /\ ambState' = "init"
               \/ s[i].type = "UNSUPPORTED" /\ ambState' \in {"init", "reply"}
               \/ /\ s[i].type \notin {"ADVANCE_TIME", "SHUT_DOWN", "INIT", "UNSUPPORTED"}
                  /\ ambState' = "reply",
           UNCHANGED <<simVars, pc, update, bridgeVars, ambKind, replies, fedOut>>
    PROVE  IInv'
<1>1. UNCHANGED <<m_didRunOnStart, m_preemptiveExecutionEnabled,
                  m_didRequestEventInThePast, m_currentAdvanceTime, m_reportedTimes>>
  BY DEF bridgeVars
<1>2. KernelInv' /\ m_stop' = FALSE /\ m_currentTs' = m_currentTs
  BY KernelStutters DEF IInv, simVars
<1>3. ~ Busy /\ toFed = << >> /\ replies = << >> /\ NoConfirm
  BY DEF IInv, WhoWaits
<1>4. DOMAIN s = 1 .. Len(s) /\ Len(s) \in Nat /\ s # << >>
  BY LenProperties, EmptySeq
<1>5. TypeOK'
  BY <1>1, <1>2 DEF IInv, TypeOK, KernelInv, CommandSet
<1>6. OneAtATime'
  BY <1>3, <1>4 DEF IInv, OneAtATime, Busy, NoConfirm
<1>7. WhoWaits'
  BY <1>3, <1>4 DEF WhoWaits, Busy, Granted, NoConfirm
<1>8. SomethingIsUnderway'
  BY <1>4 DEF SomethingIsUnderway
<1>9. ClocksAgree'
  <2>1. m_currentTs <= ambTime /\ m_currentTs \in Nat /\ ambTime \in Nat /\ ambTime' \in Nat
    BY BoundsAssumption DEF IInv, ClocksAgree, TypeOK, KernelTypeOK, Time
  <2> QED BY <1>2, <1>3, <1>4, <2>1 DEF ClocksAgree, Busy, Granted, NoConfirm
<1> QED BY <1>2, <1>5, <1>6, <1>7, <1>8, <1>9 DEF IInv

LEMMA OneCommand ==
    ASSUME NEW c \in CommandSet
    PROVE  /\ << >> \o <<c>> \o << >> = <<c>> /\ Append(<< >>, c) = <<c>>
           /\ <<c>> \in Seq(CommandSet) /\ Len(<<c>>) = 1 /\ <<c>>[1] = c
<1>1. Append(<< >>, c) = <<c>> /\ <<c>> \in Seq(CommandSet) /\ Len(<<c>>) = 1
      /\ <<c>>[1] = c
  OBVIOUS
<1>2. << >> \o <<c>> = <<c>> /\ <<c>> \o << >> = <<c>>
  BY <1>1, ConcatEmptySeq
<1> QED BY <1>1, <1>2

LEMMA TwoCommands ==
    ASSUME NEW c \in CommandSet, NEW d \in CommandSet
    PROVE  LET s == << >> \o <<c>> \o <<d>>
           IN  /\ s \in Seq(CommandSet) /\ Len(s) = 2
               /\ s[1] = c /\ s[2] = d
<1>1. <<c>> \in Seq(CommandSet) /\ <<d>> \in Seq(CommandSet)
      /\ Len(<<c>>) = 1 /\ Len(<<d>>) = 1 /\ <<c>>[1] = c /\ <<d>>[1] = d
  OBVIOUS
<1>2. << >> \o <<c>> = <<c>>
  BY <1>1, ConcatEmptySeq
<1>3. /\ <<c>> \o <<d>> \in Seq(CommandSet)
      /\ Len(<<c>> \o <<d>>) = Len(<<c>>) + Len(<<d>>)
      /\ \A i \in 1 .. Len(<<c>>) + Len(<<d>>) :
            (<<c>> \o <<d>>)[i] = IF i <= Len(<<c>>) THEN <<c>>[i]
                                  ELSE <<d>>[i - Len(<<c>>)]
  BY <1>1, ConcatProperties, Zenon
<1> DEFINE t == <<c>> \o <<d>>
<1>4. \A i \in 1 .. 2 : t[i] = IF i <= 1 THEN <<c>>[i] ELSE <<d>>[i - 1]
  BY <1>1, <1>3
<1>5. t \in Seq(CommandSet) /\ Len(t) = 2
  BY <1>1, <1>3
<1> HIDE DEF t
<1>6. t[1] = c /\ t[2] = d
  BY <1>1, <1>4
<1>7. << >> \o <<c>> \o <<d>> = t
  BY <1>2 DEF t
<1> QED BY <1>5, <1>6, <1>7

LEMMA AmbCommandKeeps ==
    ASSUME IInv, NEW type \in CommandTypes, NEW time \in Time, NEW count \in Nat,
           AmbCommand(type, time, count)
    PROVE  IInv'
<1> DEFINE c == Command(type, time, count)
           d == Command("UNSUPPORTED", time, count)
<1>1. /\ ambState = "ready" /\ time >= ambTime
      /\ toFed' = toFed \o <<c>> \o (IF type = "INIT" THEN <<d>> ELSE << >>)
      /\ ambState' = IF type = "INIT" THEN "init" ELSE "reply"
      /\ UNCHANGED <<simVars, pc, update, bridgeVars, ambKind, replies, fedOut>>
      /\ UNCHANGED <<ambTime, requests>>
  BY DEF AmbCommand
<1>2. /\ c \in CommandSet /\ c.type = type /\ c.time = time
      /\ d \in CommandSet /\ d.type = "UNSUPPORTED" /\ d.time = time
  BY DEF Command, CommandSet
<1> HIDE DEF c, d
<1>3. toFed = << >>
  BY <1>1 DEF IInv, WhoWaits
<1>4. ambTime \in Time /\ requests \subseteq Time /\ ambTime' \in Time
      /\ ambTime <= ambTime' /\ requests' \subseteq Time /\ time >= ambTime'
  BY <1>1, BoundsAssumption DEF IInv, TypeOK, Time
<1>5. type \notin {"ADVANCE_TIME", "SHUT_DOWN"}
  BY CommandTypesAssumption
<1>6. CASE type = "INIT"
  <2> DEFINE s == << >> \o <<c>> \o <<d>>
  <2>1. toFed' = s
    BY <1>1, <1>3, <1>6
  <2>2. s \in Seq(CommandSet) /\ Len(s) = 2 /\ s[1] = c /\ s[2] = d
    BY <1>2, TwoCommands
  <2> HIDE DEF s
  <2>3. \A i \in 1 .. Len(s) : s[i] = c \/ s[i] = d
    BY <2>2
  <2> QED BY <1>1, <1>2, <1>4, <1>6, <2>1, <2>2, <2>3, AmbSends
<1>7. CASE type # "INIT"
  <2> DEFINE s == << >> \o <<c>> \o << >>
  <2>1. toFed' = s
    BY <1>1, <1>3, <1>7
  <2>2. s \in Seq(CommandSet) /\ Len(s) = 1 /\ s[1] = c
    BY <1>2, OneCommand
  <2> HIDE DEF s
  <2>3. \A i \in 1 .. Len(s) : s[i] = c
    BY <2>2
  <2> QED BY <1>1, <1>2, <1>4, <1>5, <1>7, <2>1, <2>2, <2>3, AmbSends
<1> QED BY <1>6, <1>7

LEMMA AmbAdvanceKeeps ==
    ASSUME IInv, NEW time \in Time, AmbAdvance(time) PROVE IInv'
<1> DEFINE c == Command("ADVANCE_TIME", time, 1)
<1>1. /\ ambState = "ready" /\ time >= ambTime
      /\ toFed' = Append(toFed, c) /\ ambState' = "confirm" /\ ambTime' = time
      /\ requests' = {r \in requests : r > time}
      /\ UNCHANGED <<simVars, pc, update, bridgeVars, ambKind, replies, fedOut>>
  BY DEF AmbAdvance
<1>2. c \in CommandSet /\ c.type = "ADVANCE_TIME" /\ c.time = time
  BY DEF Command, CommandSet
<1> HIDE DEF c
<1>3. toFed = << >>
  BY <1>1 DEF IInv, WhoWaits
<1>4. /\ ambTime <= ambTime' /\ ambTime' \in Time /\ requests' \subseteq Time
      /\ time >= ambTime'
  <2>1. ambTime \in Nat /\ time \in Nat /\ requests \subseteq Time
    BY BoundsAssumption DEF IInv, TypeOK, Time
  <2>2. requests' \subseteq Time
    BY <1>1, <2>1
  <2> QED BY <1>1, <2>1, <2>2
<1> DEFINE s == <<c>>
<1>5. toFed' = s /\ s \in Seq(CommandSet) /\ Len(s) = 1 /\ s[1] = c
  BY <1>1, <1>2, <1>3, OneCommand
<1> HIDE DEF s
<1>6. \A i \in 1 .. Len(s) : s[i] = c
  BY <1>5
<1> QED BY <1>1, <1>2, <1>4, <1>5, <1>6, AmbSends

LEMMA AmbShutDownKeeps == ASSUME IInv, AmbShutDown PROVE IInv'
<1> DEFINE c == Command("SHUT_DOWN", ambTime, 1)
<1>1. /\ ambState = "ready"
      /\ toFed' = Append(toFed, c) /\ ambState' = "done"
      /\ UNCHANGED <<simVars, pc, update, bridgeVars, ambKind, replies, fedOut>>
      /\ UNCHANGED <<ambTime, requests>>
  BY DEF AmbShutDown
<1>2. ambTime \in Time /\ ambTime' \in Time /\ requests' \subseteq Time
      /\ ambTime <= ambTime'
  BY <1>1, BoundsAssumption DEF IInv, TypeOK, Time
<1>3. c \in CommandSet /\ c.type = "SHUT_DOWN" /\ c.time >= ambTime'
  BY <1>1, <1>2, BoundsAssumption DEF Command, CommandSet, Time
<1> HIDE DEF c
<1>4. toFed = << >>
  BY <1>1 DEF IInv, WhoWaits
<1> DEFINE s == <<c>>
<1>5. toFed' = s /\ s \in Seq(CommandSet) /\ Len(s) = 1 /\ s[1] = c
  BY <1>1, <1>3, <1>4, OneCommand
<1> HIDE DEF s
<1>6. \A i \in 1 .. Len(s) : s[i] = c
  BY <1>5
<1> QED BY <1>1, <1>2, <1>3, <1>5, <1>6, AmbSends

(***************************************************************************)
(* The ambassador reads.                                                   *)
(***************************************************************************)
LEMMA AmbReadReplyKeeps == ASSUME IInv, AmbReadReply PROVE IInv'
<1>1. /\ ambState = "reply" /\ ambState' = "ready"
      /\ replies # << >> /\ replies' = Tail(replies)
      /\ UNCHANGED <<simVars, pc, update, m_didRunOnStart,
                     m_preemptiveExecutionEnabled, m_didRequestEventInThePast,
                     m_currentAdvanceTime, m_reportedTimes, ambKind, toFed, fedOut,
                     ambTime, requests>>
  BY DEF AmbReadReply, bridgeVars
<1>2. replies' = << >> /\ ~ Busy /\ toFed = << >> /\ NoConfirm
  BY <1>1, AppendSuccess DEF IInv, OneAtATime
<1>3. KernelInv' /\ m_stop' = FALSE /\ m_currentTs' = m_currentTs
  BY <1>1, KernelStutters DEF IInv, simVars
<1>4. TypeOK'
  <2>1. replies' \in Seq({"SUCCESS"})
    BY <1>2, EmptySeq
  <2> QED BY <1>1, <1>3, <2>1 DEF IInv, TypeOK, KernelInv
<1>5. OneAtATime' /\ WhoWaits' /\ SomethingIsUnderway'
  BY <1>1, <1>2
     DEF OneAtATime, WhoWaits, SomethingIsUnderway, Busy, Granted, NoConfirm
<1>6. ClocksAgree'
  BY <1>1, <1>3 DEF IInv, ClocksAgree, Granted
<1> QED BY <1>3, <1>4, <1>5, <1>6 DEF IInv

LEMMA AmbReadNotificationKeeps == ASSUME IInv, AmbReadNotification PROVE IInv'
<1>1. /\ fedOut # << >> /\ ~ IsConfirm(Head(fedOut)) /\ fedOut' = Tail(fedOut)
      /\ requests' \in {requests, requests \cup {Head(fedOut).time}}
      /\ UNCHANGED <<simVars, pc, update, m_didRunOnStart,
                     m_preemptiveExecutionEnabled, m_didRequestEventInThePast,
                     m_currentAdvanceTime, m_reportedTimes, ambKind, toFed,
                     replies, ambState, ambTime>>
  BY DEF AmbReadNotification, bridgeVars
<1>2. KernelInv' /\ m_stop' = FALSE /\ m_currentTs' = m_currentTs
  BY <1>1, KernelStutters DEF IInv, simVars
<1>3. /\ fedOut \in Seq(MessageSet) /\ Len(fedOut) \in Nat /\ Len(fedOut) <= Capacity
      /\ Capacity \in Nat
  BY LenProperties, BoundsAssumption DEF IInv, TypeOK, MessageSet
<1>4. /\ fedOut' \in Seq(MessageSet)
      /\ Len(fedOut') = Len(fedOut) - 1
      /\ \A i \in 1 .. Len(fedOut') : fedOut'[i] = fedOut[i + 1]
      /\ Head(fedOut) = fedOut[1]
      /\ Head(fedOut) \in MessageSet
      /\ DOMAIN fedOut = 1 .. Len(fedOut)
      /\ Len(fedOut) >= 1
  BY <1>1, <1>3, HeadTailProperties, LenProperties, EmptySeq
<1>5. DOMAIN fedOut' = 1 .. Len(fedOut')
  BY <1>4, LenProperties
<1>6. \A i \in DOMAIN fedOut' :
         i + 1 \in DOMAIN fedOut /\ fedOut'[i] = fedOut[i + 1]
  BY <1>3, <1>4, <1>5
<1>7. \A j \in DOMAIN fedOut : j = 1 \/ (j - 1 \in DOMAIN fedOut' /\ fedOut'[j - 1] = fedOut[j])
  BY <1>3, <1>4, <1>5
<1>8. NoConfirm' <=> NoConfirm
  <2>1. ~ IsConfirm(fedOut[1])
    BY <1>1, <1>4
  <2>2. NoConfirm => NoConfirm'
    BY <1>6 DEF NoConfirm, IsConfirm
  <2>3. NoConfirm' => NoConfirm
    BY <1>7, <2>1 DEF NoConfirm, IsConfirm
  <2> QED BY <2>2, <2>3
<1>9. TypeOK'
  <2>1. requests' \subseteq Time
    BY <1>1, <1>4 DEF IInv, TypeOK, MessageSet
  <2>2. Len(fedOut') <= Capacity
    BY <1>3, <1>4
  <2> QED BY <1>1, <1>2, <1>4, <2>1, <2>2 DEF IInv, TypeOK, KernelInv, MessageSet
<1>10. OneAtATime'
  <2>1. \A i \in DOMAIN fedOut' : IsConfirm(fedOut'[i]) => i = Len(fedOut')
    <3>1. \A i \in DOMAIN fedOut : IsConfirm(fedOut[i]) => i = Len(fedOut)
      BY DEF IInv, OneAtATime
    <3> QED BY <1>3, <1>4, <1>5, <1>6, <3>1
  <2> QED BY <1>1, <1>8, <2>1 DEF IInv, OneAtATime, Busy, IsConfirm
<1>11. WhoWaits' /\ SomethingIsUnderway'
  BY <1>1, <1>8 DEF IInv, WhoWaits, SomethingIsUnderway, Busy, Granted, Terminated
<1>12. ClocksAgree'
  <2>1. \A i \in DOMAIN fedOut' : IsConfirm(fedOut'[i]) => fedOut'[i].time = m_currentTs
    BY <1>6 DEF IInv, ClocksAgree
  <2> QED BY <1>1, <1>2, <2>1 DEF IInv, ClocksAgree, Granted, IsConfirm
<1> QED BY <1>2, <1>9, <1>10, <1>11, <1>12 DEF IInv

(* With the confirmation nothing is left, and it bears the time of ns-3. *)
LEMMA LastIsRead ==
    ASSUME IInv, AmbReadConfirm
    PROVE  /\ fedOut' = << >> /\ Head(fedOut).time = m_currentTs
           /\ ~ Busy /\ toFed = << >> /\ replies = << >>
<1>1. fedOut # << >> /\ IsConfirm(Head(fedOut)) /\ fedOut' = Tail(fedOut)
  BY DEF AmbReadConfirm
<1>2. /\ Len(fedOut) \in Nat /\ Len(fedOut) >= 1
      /\ DOMAIN fedOut = 1 .. Len(fedOut)
      /\ Head(fedOut) = fedOut[1]
      /\ fedOut' \in Seq(MessageSet)
      /\ Len(fedOut') = Len(fedOut) - 1
  <2>1. fedOut \in Seq(MessageSet)
    BY DEF IInv, TypeOK, MessageSet
  <2> QED BY <1>1, <2>1, HeadTailProperties, LenProperties, EmptySeq
<1>3. 1 \in DOMAIN fedOut /\ IsConfirm(fedOut[1])
  BY <1>1, <1>2
<1>4. 1 = Len(fedOut) /\ fedOut[1].time = m_currentTs /\ ~ NoConfirm
  BY <1>3 DEF IInv, OneAtATime, ClocksAgree, NoConfirm
<1>5. ~ Busy /\ toFed = << >> /\ replies = << >>
  BY <1>4 DEF IInv, OneAtATime
<1>6. Len(fedOut') = 0 /\ fedOut' \in Seq(MessageSet)
  <2>1. Len(fedOut') = Len(fedOut) - 1 /\ Len(fedOut) = 1
    BY <1>2, <1>4
  <2>2. Len(fedOut') = 0
    BY <2>1
  <2> QED BY <1>2, <2>2
<1>7. fedOut' = << >>
  BY <1>6, EmptySeq
<1> QED BY <1>2, <1>4, <1>5, <1>7

LEMMA AmbReadConfirmKeeps == ASSUME IInv, AmbReadConfirm PROVE IInv'
<1>1. /\ ambState = "confirm" /\ ambState' = "ready"
      /\ ambTime' \in {ambTime, Head(fedOut).time}
      /\ UNCHANGED <<simVars, pc, update, m_didRunOnStart,
                     m_preemptiveExecutionEnabled, m_didRequestEventInThePast,
                     m_currentAdvanceTime, m_reportedTimes, ambKind, toFed,
                     replies, requests>>
  BY DEF AmbReadConfirm, bridgeVars
<1>2. /\ fedOut' = << >> /\ Head(fedOut).time = m_currentTs
      /\ ~ Busy /\ toFed = << >> /\ replies = << >>
  BY LastIsRead
<1>3. KernelInv' /\ m_stop' = FALSE /\ m_currentTs' = m_currentTs
  BY <1>1, KernelStutters DEF IInv, simVars
<1>4. m_currentTs \in Time /\ m_currentTs \in Nat /\ m_currentTs <= ambTime
  BY CurrentTsIsTime DEF IInv, ClocksAgree, KernelInv, KernelTypeOK
<1>5. fedOut' \in Seq(MessageSet) /\ Len(fedOut') = 0 /\ DOMAIN fedOut' = {}
  BY <1>2, EmptySeq
<1>6. TypeOK'
  <2>1. ambTime' \in Time /\ Len(fedOut') <= Capacity
    BY <1>1, <1>2, <1>4, <1>5, BoundsAssumption DEF IInv, TypeOK
  <2> QED BY <1>1, <1>3, <1>5, <2>1 DEF IInv, TypeOK, KernelInv, MessageSet
<1>7. OneAtATime' /\ WhoWaits' /\ SomethingIsUnderway'
  BY <1>1, <1>2, <1>5
     DEF OneAtATime, WhoWaits, SomethingIsUnderway, Busy, Granted, NoConfirm
<1>8. ClocksAgree'
  BY <1>1, <1>2, <1>3, <1>4, <1>5 DEF ClocksAgree, Busy, Granted
<1> QED BY <1>3, <1>6, <1>7, <1>8 DEF IInv

(* The connection is lost, with the commands that have not arrived. *)
LEMMA LostAreLast ==
    ASSUME toFed \in Seq(CommandSet), NEW n \in 0 .. Len(toFed),
           toFed' = SubSeq(toFed, 1, n)
    PROVE  /\ toFed' \in Seq(CommandSet) /\ Len(toFed') = n
           /\ \A i \in DOMAIN toFed' : i \in DOMAIN toFed /\ toFed'[i] = toFed[i]
<1>1. Len(toFed) \in Nat /\ DOMAIN toFed = 1 .. Len(toFed)
  BY LenProperties
<1>2. /\ toFed' \in Seq(CommandSet)
      /\ Len(toFed') = n
      /\ \A i \in 1 .. n : toFed'[i] = toFed[i]
  <2>1. 1 \in Int /\ n \in Int /\ \A i \in 1 .. n : toFed[i] \in CommandSet
    BY <1>1, ElementOfSeq
  <2>2. /\ SubSeq(toFed, 1, n) \in Seq(CommandSet)
        /\ Len(SubSeq(toFed, 1, n)) = IF 1 <= n THEN n - 1 + 1 ELSE 0
        /\ \A i \in 1 .. n - 1 + 1 : SubSeq(toFed, 1, n)[i] = toFed[1 + i - 1]
    BY <2>1, SubSeqProperties
  <2> QED BY <1>1, <2>2
<1>3. DOMAIN toFed' = 1 .. n
  BY <1>2, LenProperties
<1> QED BY <1>1, <1>2, <1>3

LEMMA LossKeeps ==
    ASSUME IInv, AmbDisconnects, NEW n \in 0 .. Len(toFed), toFed' = SubSeq(toFed, 1, n)
    PROVE  IInv'
<1>1. /\ ambState' = "gone"
      /\ UNCHANGED <<simVars, pc, update, m_didRunOnStart, m_preemptiveExecutionEnabled,
                     m_didRequestEventInThePast, m_currentAdvanceTime,
                     m_reportedTimes, ambKind, replies, fedOut, ambTime, requests>>
  BY DEF AmbDisconnects, bridgeVars
<1>2. KernelInv' /\ m_stop' = FALSE /\ m_currentTs' = m_currentTs
  BY <1>1, KernelStutters DEF IInv, simVars
<1>3. toFed \in Seq(CommandSet) /\ Len(toFed) <= 2
  BY DEF IInv, TypeOK, CommandSet, OneAtATime
<1>4. Len(toFed) \in Nat /\ DOMAIN toFed = 1 .. Len(toFed)
  BY <1>3, LenProperties
<1>5. toFed' \in Seq(CommandSet) /\ Len(toFed') = n
  BY <1>3, LostAreLast
<1>6. \A i \in DOMAIN toFed' : i \in DOMAIN toFed /\ toFed'[i] = toFed[i]
  BY <1>3, LostAreLast
<1>7. toFed' # << >> => toFed # << >>
  BY <1>3, <1>4, <1>5, EmptySeq
<1>8. TypeOK'
  BY <1>1, <1>2, <1>5 DEF IInv, TypeOK, KernelInv, CommandSet
<1>9. OneAtATime'
  <2>1. Busy => toFed' = << >>
    <3>1. Busy => toFed = << >>
      BY DEF IInv, OneAtATime
    <3> QED BY <1>7, <3>1
  <2>2. Len(toFed') <= 2
    BY <1>3, <1>4, <1>5
  <2>3. Len(toFed') = 2 => toFed'[1].type = "INIT" /\ toFed'[2].type = "UNSUPPORTED"
    <3>1. Len(toFed') = 2 => Len(toFed) = 2 /\ toFed'[1] = toFed[1] /\ toFed'[2] = toFed[2]
      <4>1. DOMAIN toFed' = 1 .. Len(toFed')
        BY <1>5, LenProperties
      <4> QED BY <1>3, <1>4, <1>5, <1>6, <4>1
    <3> QED BY <3>1 DEF IInv, OneAtATime
  <2> QED BY <1>1, <1>7, <2>1, <2>2, <2>3 DEF IInv, OneAtATime, Busy, NoConfirm
<1>10. WhoWaits' /\ SomethingIsUnderway'
  BY <1>1 DEF WhoWaits, SomethingIsUnderway, Busy, Granted, NoConfirm
<1>11. ClocksAgree'
  BY <1>1, <1>2, <1>6 DEF IInv, ClocksAgree, Granted
<1> QED BY <1>2, <1>8, <1>9, <1>10, <1>11 DEF IInv

(* The connection is lost, and the message of the last command is made up. *)
LEMMA MadeUpMisleads ==
    ASSUME IInv, AmbDisconnects, toFed # << >>,
           Head(toFed).type \in CarriedOutByDefault, toFed' = <<MadeUp(Head(toFed))>>
    PROVE  BecomesMisled
<1> DEFINE c == MadeUp(Head(toFed))
<1>1. /\ ambState' = "gone"
      /\ UNCHANGED <<simVars, pc, update, m_didRunOnStart, m_preemptiveExecutionEnabled,
                     m_didRequestEventInThePast, m_currentAdvanceTime,
                     m_reportedTimes, ambKind, replies, fedOut, ambTime, requests>>
  BY DEF AmbDisconnects, bridgeVars
<1>2. KernelInv' /\ m_currentTs' = m_currentTs
  BY <1>1, KernelStutters DEF IInv, simVars
<1>3. ~ Busy /\ NoConfirm
  BY DEF IInv, OneAtATime
<1>4. PICK type \in CarriedOutByDefault \ {"ADD_NODE_B"} : c = Command(type, 0, 0)
  BY DEF MadeUp, CarriedOutByDefault
<1>5. c \in CommandSet
  <2>1. Head(toFed) \in CommandSet
    BY HeadTailProperties DEF IInv, TypeOK, CommandSet
  <2>2. 0 \in Time
    BY BoundsAssumption DEF Time
  <2> QED BY <2>1, <2>2 DEF CommandSet, MadeUp, Command
<1> HIDE DEF c
<1>6. toFed' = <<c>> /\ toFed' \in Seq(CommandSet)
  <2>1. toFed' = <<c>>
    BY DEF c
  <2> QED BY <1>5, <2>1
<1>7. TypeOK'
  BY <1>1, <1>2, <1>6 DEF IInv, TypeOK, KernelInv, CommandSet
<1>8. m_currentTs <= ambTime /\ pc \in {"dispatch", "closed", "exited"}
  BY <1>3 DEF IInv, ClocksAgree, TypeOK, Busy
<1> QED BY <1>1, <1>2, <1>3, <1>4, <1>6, <1>7, <1>8 DEF Misled, BecomesMisled, NoConfirm

LEMMA AmbDisconnectsKeeps == ASSUME IInv, AmbDisconnects PROVE IInv' \/ BecomesMisled
BY LossKeeps, MadeUpMisleads DEF AmbDisconnects

(***************************************************************************)
(* The invariant.                                                          *)
(***************************************************************************)
LEMMA InitEstablishes == Init => IInv
<1> SUFFICES ASSUME Init PROVE IInv
  OBVIOUS
<1>1. PICK impl \in Impl : m_events = {[ts |-> 0, uid |-> FirstUid, impl |-> impl]}
  BY DEF Init
<1>2. KernelInv
  <2>1. KernelTypeOK
    <3>1. << >> \in Seq(EventId)
      BY EmptySeq
    <3>2. 0 \in Uid /\ FirstUid \in Uid /\ FirstUid + 1 \in Uid
      BY UidModulusAssumption, UidsAssumption DEF Uid, FirstUid
    <3>3. m_events \subseteq EventId
      BY <1>1, <3>2 DEF EventId
    <3>4. m_unscheduledEvents \in Int /\ m_currentTs \in Nat /\ cancelled \subseteq Impl
      BY DEF Init
    <3> QED BY <3>1, <3>2, <3>3, <3>4 DEF Init, KernelTypeOK
  <2>2. IsFiniteSet(m_events) /\ CountExact
    BY <1>1, FS_Singleton DEF Init, CountExact
  <2>3. PendingAreLater /\ ReservedUidsUnused /\ UidsAllocated
    BY <1>1 DEF Init, PendingAreLater, LaterThanCurrent, ReservedUidsUnused,
                UidsAllocated, FirstUid
  <2> QED BY <2>1, <2>2, <2>3 DEF KernelInv
<1>3. TypeOK
  <2>1. << >> \in Seq(CommandSet) /\ << >> \in Seq(MessageSet)
        /\ << >> \in Seq({"SUCCESS"}) /\ Len(<< >>) = 0
    BY EmptySeq
  <2>2. 0 \in Time /\ 0 <= Capacity
    BY BoundsAssumption DEF Time
  <2> QED BY <1>2, <2>1, <2>2 DEF Init, TypeOK, KernelInv, CommandSet, MessageSet
<1>4. toFed = << >> /\ fedOut = << >> /\ replies = << >>
  BY DEF Init
<1>5. Len(toFed) = 0 /\ DOMAIN toFed = {} /\ DOMAIN fedOut = {}
  BY <1>4
<1>6. OneAtATime /\ WhoWaits /\ SomethingIsUnderway /\ ClocksAgree
  BY <1>4, <1>5
     DEF Init, OneAtATime, WhoWaits, SomethingIsUnderway, ClocksAgree, NoConfirm,
         Busy, Granted
<1> QED BY <1>2, <1>3, <1>6 DEF Init, IInv

LEMMA FederateKeeps == ASSUME IInv, Federate PROVE IInv'
<1>1. CASE Dispatch
  BY <1>1, CommandKeeps, InitAgainKeeps, UpdateNodeKeeps, AdvanceToZeroKeeps,
     AdvanceTimeKeeps DEF Dispatch
<1> QED
  BY <1>1, UpdateOneKeeps, UpdateDoneKeeps, OnStartKeeps, RunOneEventKeeps,
     HandlerKeeps, ConfirmKeeps, PeerIsGoneKeeps DEF Federate

LEMMA AmbassadorKeeps == ASSUME IInv, Ambassador PROVE IInv' \/ BecomesMisled
<1>1. ASSUME NEW type \in CommandTypes, NEW time \in Time,
             NEW count \in IF type = "UPDATE_NODE" THEN 0 .. 2 ELSE {1},
             AmbCommand(type, time, count)
      PROVE  IInv'
  <2>1. count \in Nat
    OBVIOUS
  <2> QED BY <1>1, <2>1, AmbCommandKeeps
<1> QED
  BY <1>1, AmbAdvanceKeeps, AmbReadReplyKeeps, AmbReadNotificationKeeps,
     AmbReadConfirmKeeps, AmbShutDownKeeps, AmbDisconnectsKeeps
     DEF Ambassador, AmbReads

LEMMA NextKeeps == ASSUME IInv, [Next]_vars PROVE IInv' \/ BecomesMisled
<1>1. CASE Next
  BY <1>1, FederateKeeps, AmbassadorKeeps DEF Next
<1>2. CASE UNCHANGED vars
  <2>1. /\ KernelInv'
        /\ UNCHANGED <<m_stop, m_currentTs, pc, update, m_didRunOnStart,
                       m_preemptiveExecutionEnabled, m_didRequestEventInThePast,
                       m_currentAdvanceTime, m_reportedTimes, toFed, replies,
                       fedOut, ambKind, ambState, ambTime, requests>>
    BY <1>2, KernelStutters
       DEF vars, IInv, simVars, bridgeVars, channels, ambVars
  <2>2. TypeOK'
    BY <2>1 DEF IInv, TypeOK, KernelInv
  <2>3. OneAtATime' /\ SomethingIsUnderway'
    BY <2>1 DEF IInv, OneAtATime, SomethingIsUnderway, Busy, NoConfirm, Terminated
  <2>4. WhoWaits' /\ ClocksAgree'
    BY <2>1 DEF IInv, WhoWaits, ClocksAgree, Busy, Granted, NoConfirm
  <2> QED BY <2>1, <2>2, <2>3, <2>4 DEF IInv
<1> QED BY <1>1, <1>2

(***************************************************************************)
(* After a message was made up.                                            *)
(***************************************************************************)
IsReception(i) == fedOut[i].type = "RECV_MSG"
NoReception == \A i \in DOMAIN fedOut : ~ IsReception(i)

LEMMA NotifyIsSilent ==
    ASSUME fedOut \in Seq(MessageSet), NEW messages \in Seq(MessageSet),
           Notify(messages), NoReception,
           \A i \in 1 .. Len(messages) : messages[i].type # "RECV_MSG"
    PROVE  NoReception'
<1>1. /\ fedOut' \in Seq(MessageSet)
      /\ Len(fedOut') = Len(fedOut) + Len(messages)
      /\ \A i \in 1 .. Len(fedOut) : fedOut'[i] = fedOut[i]
      /\ \A i \in 1 .. Len(messages) : fedOut'[Len(fedOut) + i] = messages[i]
  BY NotifyProperties
<1>2. /\ Len(fedOut) \in Nat /\ Len(messages) \in Nat
      /\ DOMAIN fedOut = 1 .. Len(fedOut)
      /\ DOMAIN fedOut' = 1 .. Len(fedOut')
  BY <1>1, LenProperties
<1> SUFFICES ASSUME NEW i \in DOMAIN fedOut' PROVE fedOut'[i].type # "RECV_MSG"
  BY DEF NoReception, IsReception
<1>3. CASE i <= Len(fedOut)
  <2>1. i \in DOMAIN fedOut /\ fedOut'[i] = fedOut[i]
    BY <1>1, <1>2, <1>3
  <2> QED BY <2>1 DEF NoReception, IsReception
<1>4. CASE ~ i <= Len(fedOut)
  <2> DEFINE j == i - Len(fedOut)
  <2>1. j \in 1 .. Len(messages) /\ i = Len(fedOut) + j
    BY <1>1, <1>2, <1>4
  <2> HIDE DEF j
  <2> QED BY <1>1, <2>1
<1> QED BY <1>3, <1>4

LEMMA AnnounceIsSilent ==
    ASSUME fedOut \in Seq(MessageSet), NoReception, NEW time \in Time,
           NEW then \in Seq(MessageSet),
           \A i \in 1 .. Len(then) : then[i].type # "RECV_MSG",
           writeNextTime(time, then)
    PROVE  NoReception'
<1> DEFINE n == Message("NEXT_EVENT", time)
<1>1. n \in MessageSet /\ n.type # "RECV_MSG"
  BY DEF Message, MessageSet, MessageTypes
<1>2. CASE Reports(time)
  <2>1. Notify(<<n>> \o then)
    BY <1>2 DEF writeNextTime
  <2> HIDE DEF n
  <2> DEFINE all == <<n>> \o then
  <2>2. <<n>> \in Seq(MessageSet) /\ Len(<<n>>) = 1 /\ <<n>>[1] = n
    BY <1>1
  <2>3. /\ all \in Seq(MessageSet)
        /\ Len(all) = Len(<<n>>) + Len(then)
        /\ \A i \in 1 .. Len(<<n>>) + Len(then) :
              all[i] = IF i <= Len(<<n>>) THEN <<n>>[i] ELSE then[i - Len(<<n>>)]
    BY <2>2, ConcatProperties, Zenon
  <2>4. Len(then) \in Nat
    BY LenProperties
  <2>5. Notify(all)
    BY <2>1
  <2> HIDE DEF all
  <2>6. \A i \in 1 .. Len(all) : all[i].type # "RECV_MSG"
    <3> SUFFICES ASSUME NEW i \in 1 .. Len(all) PROVE all[i].type # "RECV_MSG"
      OBVIOUS
    <3>1. CASE i = 1
      BY <1>1, <2>2, <2>3, <2>4, <3>1
    <3>2. CASE i # 1
      <4>1. all[i] = then[i - 1] /\ i - 1 \in 1 .. Len(then)
        BY <2>2, <2>3, <2>4, <3>2
      <4> QED BY <4>1
    <3> QED BY <3>1, <3>2
  <2> QED BY <2>3, <2>5, <2>6, NotifyIsSilent
<1>3. CASE ~ Reports(time)
  BY <1>3, NotifyIsSilent DEF writeNextTime
<1> QED BY <1>2, <1>3

(* Whatever the time is, an event is inserted and reported. *)
LEMMA MisledSchedules ==
    ASSUME TypeOK, KernelInv, NoConfirm, NEW time \in Time, ScheduleFor(time)
    PROVE  /\ KernelTypeOK'
           /\ UNCHANGED <<m_currentTs, m_didRunOnStart,
                          m_preemptiveExecutionEnabled, m_currentAdvanceTime>>
           /\ fedOut' \in Seq(MessageSet)
           /\ Len(fedOut') <= Capacity
           /\ NoConfirm'
           /\ NoReception => NoReception'
           /\ m_reportedTimes' \subseteq Time
           /\ m_didRequestEventInThePast' \in BOOLEAN
<1> DEFINE delay == time - m_currentTs
<1>1. m_currentTs \in Nat /\ time \in Nat
  BY BoundsAssumption DEF KernelInv, KernelTypeOK, Time
<1>2. m_currentTs + delay = time
  BY <1>1
<1>3. SimSchedule(delay)
  BY DEF ScheduleFor
<1> HIDE DEF delay
<1>4. PICK impl \in Impl : Insert(delay, impl)
  BY <1>3 DEF SimSchedule
<1>5. KernelTypeOK'
  <2>1. NewEvent(delay, impl) \in EventId
    BY <1>1, <1>2 DEF NewEvent, EventId, KernelInv, KernelTypeOK
  <2>2. NextUid(m_uid) \in Uid
    BY <1>3, UidModulusAssumption DEF SimSchedule, NextUid, Uid, KernelInv, KernelTypeOK
  <2> QED BY <1>4, <2>1, <2>2 DEF Insert, KernelInv, KernelTypeOK
<1>6. writeNextTime(time, << >>)
  BY <1>2, <1>3 DEF SimSchedule
<1>7. /\ fedOut' \in Seq(MessageSet)
      /\ Len(fedOut') <= Capacity
      /\ NoConfirm'
      /\ m_reportedTimes' \subseteq Time
  BY <1>6, AnnounceKeeps
<1>8. NoReception => NoReception'
  <2>1. << >> \in Seq(MessageSet) /\ Len(<< >>) = 0
    BY EmptySeq
  <2>2. \A i \in 1 .. Len(<< >>) : << >>[i].type # "RECV_MSG"
    BY <2>1
  <2> QED BY <1>6, <2>1, <2>2, AnnounceIsSilent DEF TypeOK, MessageSet
<1>9. m_didRequestEventInThePast' \in BOOLEAN
  BY Zenon DEF ScheduleFor
<1> QED BY <1>4, <1>5, <1>7, <1>8, <1>9 DEF ScheduleFor, Insert

(* What no step changes any more. *)
StaysMisled ==
    /\ Misled'
    /\ UNCHANGED <<m_currentTs, m_preemptiveExecutionEnabled, ambState, ambTime>>
    /\ NoReception => NoReception'

LEMMA MisledReads ==
    ASSUME Misled, NEW type, Read(type)
    PROVE  /\ type \in CarriedOutByDefault \ {"ADD_NODE_B"}
           /\ Head(toFed).type = type /\ Head(toFed).time = 0 /\ Head(toFed).count = 0
           /\ toFed' = << >> /\ toFed' \in Seq(CommandSet)
           /\ pc = "dispatch" /\ KernelInv /\ NoConfirm
           /\ UNCHANGED <<ambKind, ambState, ambTime, requests>>
<1>1. /\ pc = "dispatch" /\ toFed # << >> /\ Head(toFed).type = type
      /\ toFed' = Tail(toFed)
      /\ UNCHANGED <<ambKind, ambState, ambTime, requests>>
  BY DEF Read, ambVars
<1>2. PICK made \in CarriedOutByDefault \ {"ADD_NODE_B"} : toFed = <<Command(made, 0, 0)>>
  BY <1>1 DEF Misled
<1> DEFINE c == Command(made, 0, 0)
<1>3. c.type = made /\ c.time = 0 /\ c.count = 0
  BY DEF Command
<1> HIDE DEF c
<1>4. toFed = <<c>>
  BY <1>2 DEF c
<1>5. Head(<<c>>) = c /\ Tail(<<c>>) = << >>
  <2>1. <<c>> \in Seq({c}) /\ Len(<<c>>) = 1 /\ <<c>>[1] = c
    OBVIOUS
  <2>2. /\ Head(<<c>>) = <<c>>[1]
        /\ Tail(<<c>>) \in Seq({c}) /\ Len(Tail(<<c>>)) = Len(<<c>>) - 1
    BY <2>1, HeadTailProperties
  <2> QED BY <2>1, <2>2, EmptySeq
<1> QED BY <1>1, <1>2, <1>3, <1>4, <1>5, EmptySeq DEF Misled

LEMMA MisledHandles ==
    ASSUME Misled, NEW type, Read(type), UNCHANGED update,
           \/ Succeed /\ (NoSchedule \/ \E time \in Time : ScheduleFor(time))
           \/ NoSchedule /\ Exit
    PROVE  StaysMisled
<1>1. /\ toFed' = << >> /\ toFed' \in Seq(CommandSet) /\ KernelInv /\ NoConfirm
      /\ UNCHANGED <<ambKind, ambState, ambTime, requests>>
  BY MisledReads
<1>2. TypeOK /\ ambState = "gone" /\ m_currentTs <= ambTime
  BY DEF Misled
<1>3. /\ KernelTypeOK'
      /\ UNCHANGED <<m_currentTs, m_didRunOnStart,
                     m_preemptiveExecutionEnabled, m_currentAdvanceTime>>
      /\ fedOut' \in Seq(MessageSet)
      /\ Len(fedOut') <= Capacity
      /\ NoConfirm'
      /\ NoReception => NoReception'
      /\ m_reportedTimes' \subseteq Time
      /\ m_didRequestEventInThePast' \in BOOLEAN
  <2>1. CASE NoSchedule
    <3>1. KernelTypeOK'
      BY <1>2, <2>1 DEF NoSchedule, simVars, TypeOK, KernelTypeOK
    <3> QED BY <1>1, <1>2, <2>1, <3>1
            DEF NoSchedule, simVars, bridgeVars, TypeOK, MessageSet, NoConfirm,
                NoReception, IsReception
  <2>2. CASE \E time \in Time : ScheduleFor(time)
    BY <1>1, <1>2, <2>2, MisledSchedules
  <2> QED BY <2>1, <2>2
<1>4. pc' \in {"dispatch", "exited"} /\ replies' \in Seq({"SUCCESS"})
  <2>1. replies \in Seq({"SUCCESS"})
    BY <1>2 DEF TypeOK
  <2> QED BY <2>1, AppendProperties DEF Succeed, Exit
<1>5. TypeOK'
  BY <1>1, <1>2, <1>3, <1>4 DEF TypeOK, CommandSet, MessageSet
<1>6. Misled'
  BY <1>1, <1>2, <1>3, <1>4, <1>5 DEF Misled, NoConfirm
<1> QED BY <1>1, <1>3, <1>6 DEF StaysMisled

LEMMA MisledAdvancesToZero == ASSUME Misled, AdvanceToZero PROVE StaysMisled
<1>1. /\ Read("ADVANCE_TIME")
      /\ m_currentAdvanceTime' = 0
      /\ writeNextTime(1, <<Message("END", m_currentTs)>>)
      /\ UNCHANGED <<simVars, pc, update, m_didRunOnStart,
                     m_preemptiveExecutionEnabled, m_didRequestEventInThePast,
                     replies>>
  BY DEF AdvanceToZero
<1>2. /\ toFed' = << >> /\ toFed' \in Seq(CommandSet)
      /\ pc = "dispatch" /\ KernelInv /\ NoConfirm
      /\ UNCHANGED <<ambKind, ambState, ambTime, requests>>
  BY <1>1, MisledReads
<1>3. TypeOK /\ ambState = "gone" /\ m_currentTs <= ambTime
  BY DEF Misled
<1>4. m_currentTs \in Time /\ 1 \in Time /\ 0 \in Time
  BY <1>3, BoundsAssumption DEF TypeOK, KernelTypeOK, Time
<1> DEFINE m == Message("END", m_currentTs)
           n == Message("NEXT_EVENT", 1)
<1>5. /\ m \in MessageSet /\ m.type = "END"
      /\ n \in MessageSet /\ ~ IsConfirm(n)
  BY <1>4 DEF Message, MessageSet, MessageTypes, IsConfirm
<1>6. fedOut \in Seq(MessageSet) /\ m_reportedTimes \subseteq Time
  BY <1>3 DEF TypeOK, MessageSet
<1>7. m_reportedTimes' \subseteq Time
  BY <1>1, <1>4, <1>6, TrimProperties DEF writeNextTime
<1>8. writeNextTime(1, <<m>>) /\ (Notify(<<m>>) \/ Notify(<<n>> \o <<m>>))
  BY <1>1 DEF writeNextTime
<1> HIDE DEF m, n
<1>9. /\ fedOut' \in Seq(MessageSet)
      /\ Len(fedOut') <= Capacity
      /\ \A i \in DOMAIN fedOut' : IsConfirm(fedOut'[i]) => fedOut'[i] = m
  BY <1>2, <1>5, <1>6, <1>8, NotifyOne, NotifyTwo
<1>10. NoReception => NoReception'
  <2>1. <<m>> \in Seq(MessageSet) /\ \A i \in 1 .. Len(<<m>>) : <<m>>[i].type # "RECV_MSG"
    BY <1>5
  <2> QED BY <1>4, <1>6, <1>8, <2>1, AnnounceIsSilent
<1>11. KernelTypeOK' /\ m_currentTs' = m_currentTs
  BY <1>1, <1>3 DEF simVars, TypeOK, KernelTypeOK
<1>12. TypeOK'
  BY <1>1, <1>2, <1>3, <1>4, <1>7, <1>9, <1>11 DEF TypeOK, CommandSet, MessageSet
<1>13. Misled'
  BY <1>1, <1>2, <1>3, <1>5, <1>9, <1>11, <1>12 DEF Misled
<1> QED BY <1>1, <1>2, <1>10, <1>11, <1>13 DEF StaysMisled

(* An update without properties, and the end. *)
LEMMA MisledEnds ==
    ASSUME Misled, UpdateNode \/ UpdateDone \/ PeerIsGone \/ UNCHANGED vars
    PROVE  StaysMisled
<1>1. TypeOK /\ ambState = "gone" /\ m_currentTs <= ambTime
  BY DEF Misled
<1>2. /\ UNCHANGED <<simVars, m_didRunOnStart, m_preemptiveExecutionEnabled,
                     m_didRequestEventInThePast, m_currentAdvanceTime, m_reportedTimes,
                     fedOut, ambKind, ambState, ambTime, requests>>
  BY DEF UpdateNode, UpdateDone, PeerIsGone, Read, NoSchedule, vars, bridgeVars,
         channels, ambVars
<1>3. /\ KernelTypeOK' /\ m_currentTs' = m_currentTs
      /\ KernelInv => KernelInv'
      /\ NoConfirm => NoConfirm'
      /\ NoReception => NoReception'
  BY <1>1, <1>2, KernelStutters
     DEF simVars, TypeOK, KernelTypeOK, NoConfirm, NoReception, IsReception
<1>4. CASE UpdateNode
  <2>1. /\ Read("UPDATE_NODE") /\ pc' = "update" /\ replies' = replies
        /\ update' = [time |-> Head(toFed).time, left |-> Head(toFed).count]
    BY <1>4 DEF UpdateNode
  <2>2. /\ Head(toFed).time = 0 /\ Head(toFed).count = 0
        /\ toFed' = << >> /\ toFed' \in Seq(CommandSet) /\ KernelInv /\ NoConfirm
    BY <2>1, MisledReads
  <2>3. update' \in [time : Time, left : Nat] /\ update'.left = 0
    BY <2>1, <2>2, BoundsAssumption DEF Time
  <2>4. TypeOK'
    BY <1>1, <1>2, <1>3, <2>1, <2>2, <2>3 DEF TypeOK, CommandSet
  <2>5. Misled'
    BY <1>1, <1>2, <1>3, <2>1, <2>2, <2>3, <2>4 DEF Misled, NoConfirm
  <2> QED BY <1>2, <1>3, <2>5 DEF StaysMisled
<1>5. CASE UpdateDone
  <2>1. /\ pc = "update" /\ pc' = "dispatch" /\ replies' = Append(replies, "SUCCESS")
        /\ UNCHANGED <<update, toFed>>
    BY <1>5 DEF UpdateDone, Succeed
  <2>2. replies \in Seq({"SUCCESS"}) /\ toFed = << >>
    BY <1>1, <2>1 DEF TypeOK, Misled
  <2>3. replies' \in Seq({"SUCCESS"})
    BY <2>1, <2>2, AppendProperties
  <2>4. TypeOK'
    BY <1>1, <1>2, <1>3, <2>1, <2>3 DEF TypeOK
  <2>5. Misled'
    BY <1>2, <1>3, <2>1, <2>2, <2>4 DEF Misled
  <2> QED BY <1>2, <1>3, <2>5 DEF StaysMisled
<1>6. CASE PeerIsGone \/ UNCHANGED vars
  <2>1. /\ pc' \in {"closed", "exited"} \/ pc' = pc
        /\ UNCHANGED <<update, toFed, replies>>
    BY <1>6 DEF PeerIsGone, Close, Exit, vars, channels
  <2>2. TypeOK'
    BY <1>1, <1>2, <1>3, <2>1 DEF TypeOK
  <2>3. Misled'
    BY <1>2, <1>3, <2>1, <2>2 DEF Misled
  <2> QED BY <1>2, <1>3, <2>3 DEF StaysMisled
<1> QED BY <1>4, <1>5, <1>6

LEMMA MisledKeeps == ASSUME Misled, [Next]_vars PROVE StaysMisled
<1>1. /\ ambState = "gone" /\ pc \in {"dispatch", "update", "closed", "exited"}
      /\ pc = "update" => update.left = 0
  BY DEF Misled
<1>2. 0 \in Time /\ m_currentTs \in Time
  BY BoundsAssumption DEF Misled, TypeOK, KernelTypeOK, Time
<1>3. CASE Dispatch
  <2>1. \A type : Read(type) =>
            type \in CarriedOutByDefault \ {"ADD_NODE_B"} /\ Head(toFed).time = 0
    BY MisledReads
  <2>2. \/ AddNode \/ RemoveNode \/ ConfCellRadio \/ UpdateNode \/ AdvanceToZero
    BY <1>3, <2>1
       DEF Dispatch, InitAgain, AddNodeB, ConfWifiRadio, SendMsg, AdvanceTime, ShutDown,
           Unsupported, CarriedOutByDefault
  <2>3. CASE AddNode
    BY <1>2, <2>1, <2>3, MisledHandles DEF AddNode
  <2>4. CASE RemoveNode
    BY <1>2, <2>1, <2>4, MisledHandles DEF RemoveNode
  <2>5. CASE ConfCellRadio
    BY <1>2, <2>1, <2>5, MisledHandles DEF ConfCellRadio
  <2> QED BY <2>2, <2>3, <2>4, <2>5, MisledEnds, MisledAdvancesToZero
<1>4. CASE Federate /\ ~ Dispatch
  <2>1. ~ UpdateOne
    BY <1>1 DEF UpdateOne
  <2>2. ~ OnStart /\ ~ Confirm /\ \A e : ~ RunOneEvent(e)
    BY <1>1 DEF OnStart, Confirm, RunOneEvent
  <2>3. ~ Handler
    BY <1>1 DEF Handler, HandlerSchedules, HandlerSchedulesNow, HandlerReceives,
                HandlerReturns, HandlerExits
  <2> QED BY <1>4, <2>1, <2>2, <2>3, MisledEnds DEF Federate
<1>5. ~ Ambassador
  <2>1. \A type, time, count : ~ AmbCommand(type, time, count) /\ ~ AmbAdvance(time)
    BY <1>1 DEF AmbCommand, AmbAdvance
  <2>2. ~ AmbReads /\ ~ AmbShutDown /\ ~ AmbDisconnects
    BY <1>1 DEF AmbReads, AmbReadReply, AmbReadNotification, AmbReadConfirm,
                AmbShutDown, AmbDisconnects
  <2> QED BY <2>1, <2>2 DEF Ambassador
<1> QED BY <1>3, <1>4, <1>5, MisledEnds DEF Next

LEMMA InvariantHolds == Spec => [](IInv \/ Misled)
<1>1. (IInv \/ Misled) /\ [Next]_vars => (IInv \/ Misled)'
  BY NextKeeps, MisledKeeps DEF BecomesMisled, StaysMisled
<1> QED BY <1>1, InitEstablishes, PTL DEF Spec

(* Every state the program and its ambassador reach, until m_uid wraps,    *)
(* has values of the expected types; the messages in the socket buffers    *)
(* are as many as fit, and all their times are times.                      *)
THEOREM TypesOfTheLoop == Spec => []TypeOK
<1>1. IInv \/ Misled => TypeOK
  BY DEF IInv, Misled
<1> QED BY <1>1, InvariantHolds, PTL

(* Whatever the ambassador commands and the callbacks do, the assertion of *)
(* ProcessOneEvent holds at every event: commands and callbacks schedule   *)
(* nothing earlier than the event executed last, except a command whose    *)
(* message was made up at the end of the stream, after which nothing is    *)
(* carried out.                                                            *)
THEOREM LoopNeverExecutesThePast == Spec => []PastIsNeverExecuted
<1>1. IInv => PastIsNeverExecuted
  BY DEF IInv, KernelInv, PastIsNeverExecuted
<1>2. Misled => PastIsNeverExecuted
  BY DEF Misled, KernelInv, PastIsNeverExecuted, Busy
<1> QED BY <1>1, <1>2, InvariantHolds, PTL

(* ns-3 is never ahead of the time MOSAIC has reached, also after a grant  *)
(* that was cut short (the loop of ADVANCE_TIME and its confirmation).     *)
THEOREM NeverAheadOfMosaic == Spec => []NeverAhead
<1>1. IInv \/ Misled => NeverAhead
  BY DEF IInv, Misled, ClocksAgree, NeverAhead
<1> QED BY <1>1, InvariantHolds, PTL

(* There is at most one confirmation in the buffers. *)
LEMMA OneConfirm ==
    ASSUME IInv
    PROVE  /\ NoConfirm => Confirms = {} /\ Cardinality(Confirms) = 0
           /\ ~ NoConfirm => Confirms # {} /\ Cardinality(Confirms) = 1
<1>1. CASE NoConfirm
  <2>1. Confirms = {}
    BY <1>1 DEF NoConfirm, Confirms
  <2> QED BY <1>1, <2>1, FS_EmptySet
<1>2. CASE ~ NoConfirm
  <2>1. \A i \in DOMAIN fedOut : IsConfirm(fedOut[i]) => i = Len(fedOut)
    BY DEF IInv, OneAtATime
  <2>2. PICK i \in DOMAIN fedOut : IsConfirm(fedOut[i])
    BY <1>2 DEF NoConfirm
  <2>3. Confirms = {i}
    BY <2>1, <2>2 DEF Confirms
  <2> QED BY <1>2, <2>3, FS_Singleton
<1> QED BY <1>1, <1>2

(* A command is in flight, being handled, acknowledged or confirmed, once  *)
(* and on the right channel, and there is no answer nobody waits for:      *)
(* every handler of dispatchCommand answers as the protocol has it.        *)
THEOREM OneAnswerForEveryCommand == Spec => []OneAnswerPerCommand
<1>1. ASSUME IInv PROVE OneAnswerPerCommand
  <2> SUFFICES ASSUME ~ Terminated, ambState # "gone"
               PROVE  /\ IF ambState = "init"
                         THEN ~ Busy /\ replies = << >> /\ Confirms = {}
                         ELSE Len(toFed) + (IF Busy THEN 1 ELSE 0) + Len(replies)
                                + Cardinality(Confirms)
                                  = (IF ambState = "ready" THEN 0 ELSE 1)
                      /\ replies # << >> => ambState = "reply"
                      /\ Confirms # {} => ambState = "confirm"
    BY DEF OneAnswerPerCommand
  <2>1. /\ NoConfirm => Confirms = {} /\ Cardinality(Confirms) = 0
        /\ ~ NoConfirm => Confirms # {} /\ Cardinality(Confirms) = 1
    BY <1>1, OneConfirm
  <2>2. /\ OneAtATime /\ WhoWaits /\ SomethingIsUnderway
        /\ toFed \in Seq(CommandSet)
        /\ ambState \in {"ready", "reply", "confirm", "init", "done", "gone"}
        /\ pc \in {"dispatch", "update", "onStart", "advance", "handler",
                   "closed", "exited"}
    BY <1>1 DEF IInv, TypeOK, CommandSet
  <2>3. /\ DOMAIN toFed = 1 .. Len(toFed) /\ Len(toFed) \in Nat
        /\ toFed = << >> <=> Len(toFed) = 0
    BY <2>2, LenProperties, EmptySeq
  <2>4. replies = << >> \/ replies = <<"SUCCESS">>
    BY <2>2 DEF OneAtATime
  <2>5. Len(<< >>) = 0 /\ Len(<<"SUCCESS">>) = 1 /\ <<"SUCCESS">> # << >>
    OBVIOUS
  <2>6. /\ replies # << >> => ambState = "reply"
        /\ ~ NoConfirm => ambState = "confirm"
    BY <2>2 DEF WhoWaits
  <2>7. Busy => ambState \in {"reply", "confirm"}
    BY <2>2 DEF WhoWaits, Busy, Granted
  <2>8. Len(toFed) = 2 => ambState = "init"
    <3>1. Len(toFed) = 2 => 1 \in DOMAIN toFed /\ toFed[1].type = "INIT"
      BY <2>2, <2>3 DEF OneAtATime
    <3> QED BY <2>2, <3>1 DEF WhoWaits
  <2>9. Len(toFed) <= 2
    BY <2>2 DEF OneAtATime
  <2>10. CASE ambState = "init"
    BY <2>1, <2>6, <2>7, <2>10
  <2>11. CASE ambState = "ready"
    <3>1. ~ Busy /\ toFed = << >> /\ replies = << >> /\ NoConfirm
      BY <2>2, <2>11 DEF WhoWaits
    <3> QED BY <2>1, <2>3, <2>5, <2>11, <3>1
  <2>12. CASE ambState \in {"reply", "confirm", "done"}
    <3>1. /\ Busy => toFed = << >> /\ replies = << >> /\ NoConfirm
          /\ toFed # << >> => replies = << >> /\ NoConfirm
          /\ replies # << >> => NoConfirm
          /\ toFed # << >> \/ Busy \/ replies # << >> \/ ~ NoConfirm
      BY <2>2, <2>12 DEF OneAtATime, SomethingIsUnderway
    <3>2. Len(toFed) \in {0, 1}
      BY <2>3, <2>8, <2>9, <2>12
    <3>3. CASE toFed # << >>
      <4>1. ~ Busy /\ replies = << >> /\ NoConfirm /\ Len(toFed) = 1
        BY <2>3, <3>1, <3>2, <3>3
      <4> QED BY <2>1, <2>5, <2>6, <2>12, <4>1
    <3>4. CASE Busy
      <4>1. toFed = << >> /\ replies = << >> /\ NoConfirm
        BY <3>1, <3>4
      <4> QED BY <2>1, <2>5, <2>6, <2>12, <3>4, <4>1
    <3>5. CASE replies # << >>
      <4>1. ~ Busy /\ toFed = << >> /\ NoConfirm /\ Len(replies) = 1
        BY <2>4, <2>5, <3>1, <3>5
      <4> QED BY <2>1, <2>5, <2>6, <2>12, <4>1
    <3>6. CASE ~ NoConfirm
      <4>1. ~ Busy /\ toFed = << >> /\ replies = << >>
        BY <3>1, <3>6
      <4> QED BY <2>1, <2>5, <2>6, <2>12, <3>6, <4>1
    <3> QED BY <3>1, <3>3, <3>4, <3>5, <3>6
  <2> QED BY <2>2, <2>10, <2>11, <2>12
<1>2. ASSUME Misled PROVE OneAnswerPerCommand
  BY <1>2 DEF Misled, OneAnswerPerCommand
<1> QED BY <1>1, <1>2, InvariantHolds, PTL

(***************************************************************************)
(* The refinement.                                                         *)
(***************************************************************************)
LEMMA StepFollowsGrants ==
    ASSUME IInv, [Next]_vars PROVE [Grants!Next]_(Grants!vars)
<1> USE DEF Grants!vars
<1>1. m_currentTs \in Nat /\ ambTime \in Nat
  BY BoundsAssumption DEF IInv, TypeOK, KernelTypeOK, Time
<1>2. ASSUME NEW e, RunOneEvent(e) PROVE Grants!Advance
  <2>1. /\ m_currentTs' \in Nat /\ m_currentTs <= m_currentTs'
        /\ m_currentTs' <= ambTime /\ ambState \in {"confirm", "gone"}
    BY <1>2, ExecutedInGrant
  <2>2. UNCHANGED <<ambState, ambTime>>
    BY <1>2 DEF RunOneEvent, ambVars
  <2> QED BY <1>1, <2>1, <2>2 DEF Grants!Advance, Phase
<1>3. ASSUME Federate, ~ \E e \in m_events : RunOneEvent(e)
      PROVE  UNCHANGED <<m_currentTs, ambState, ambTime>>
  BY <1>3
     DEF Federate, Dispatch, InitAgain, AddNode, AddNodeB, UpdateNode, RemoveNode,
         ConfWifiRadio, SendMsg, ConfCellRadio, AdvanceToZero, AdvanceTime,
         ShutDown, Unsupported, UpdateOne, UpdateDone, OnStart, Handler,
         HandlerSchedules, HandlerSchedulesNow, HandlerReceives, HandlerReturns,
         HandlerExits, Confirm, PeerIsGone, Read, ScheduleFor, SimSchedule, Insert,
         NoSchedule, simVars, ambVars
<1>4. ASSUME NEW type, NEW time, NEW count, AmbCommand(type, time, count)
      PROVE  UNCHANGED <<Phase, ambTime, m_currentTs>>
  BY <1>4 DEF AmbCommand, simVars, Phase
<1>5. ASSUME NEW time \in Time, AmbAdvance(time) PROVE Grants!Grant
  BY <1>1, <1>5, BoundsAssumption DEF AmbAdvance, simVars, Phase, Grants!Grant, Time
<1>6. CASE AmbReadReply \/ AmbReadNotification
  BY <1>6 DEF AmbReadReply, AmbReadNotification, simVars, Phase
<1>7. ASSUME AmbReadConfirm PROVE Grants!Complete \/ Grants!Preempt
  <2>1. Head(fedOut).time = m_currentTs
    BY <1>7, LastIsRead
  <2> QED BY <1>7, <2>1 DEF AmbReadConfirm, simVars, Phase, Grants!Complete, Grants!Preempt
<1>8. ASSUME AmbShutDown \/ AmbDisconnects PROVE Grants!Leave
  BY <1>8 DEF AmbShutDown, AmbDisconnects, simVars, Phase, Grants!Leave
<1>9. CASE UNCHANGED vars
  BY <1>9 DEF vars, simVars, ambVars, Phase
<1>10. CASE Federate
  BY <1>2, <1>3, <1>10 DEF Grants!Next, Phase
<1>11. CASE Ambassador
  BY <1>4, <1>5, <1>6, <1>7, <1>8, <1>11 DEF Ambassador, AmbReads, Grants!Next
<1> QED BY <1>9, <1>10, <1>11 DEF Next

(* The command loop keeps the promise of TimeGrant: the clock of ns-3      *)
(* moves only between a grant and its confirmation and not beyond the      *)
(* grant, and a preempted grant takes MOSAIC back to where ns-3 is.        *)
THEOREM LoopFollowsGrants == Spec => FollowsGrants
<1>1. Init => Grants!Init
  BY DEF Init, Grants!Init, Phase
<1>2. IInv /\ [Next]_vars => [Grants!Next]_(Grants!vars)
  BY StepFollowsGrants
<1>3. Misled /\ [Next]_vars => [Grants!Next]_(Grants!vars)
  BY MisledKeeps DEF StaysMisled, Grants!vars, Phase
<1> QED BY <1>1, <1>2, <1>3, InvariantHolds, PTL DEF Spec, FollowsGrants, Grants!Spec
================================================================================
