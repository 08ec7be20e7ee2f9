----------------------------- MODULE Startup_proofs -----------------------------
(***************************************************************************)
(* The start-up for every protocol version and every set of versions and   *)
(* times an ambassador may announce.                                       *)
(*                                                                         *)
(* What the loop may rely on is established along the way: each step of    *)
(* the constructor leaves one fact behind, and the facts say of every      *)
(* label what has been agreed when control is there.                       *)
(***************************************************************************)
EXTENDS Startup, SequenceTheorems, TLAPS

BeforeInit == {"main", "construct", "listen", "accept", "writeInit"}
BeforePort == {"listenCmd", "writePort"}
BeforeAnswer == BeforeInit \cup BeforePort \cup {"acceptCmd", "readInit", "answer"}

(* What has been written so far. *)
WrittenInOrder ==
    /\ pc \in BeforeInit => toAmb = << >>
    /\ pc \in BeforePort => toAmb \in {<< >>, <<"INIT">>}
    /\ pc \in BeforeAnswer => answers = << >> /\ amb \notin {"ready", "refused"}

Running == pc \in {"run", "dispatch"} /\ ~ m_closeConnection

(* What has been checked so far. *)
CheckedInOrder ==
    /\ pc \in BeforeAnswer \ {"main", "construct"} => ~ m_closeConnection
    /\ pc \in {"acceptCmd", "readInit", "answer"} \/ Running =>
          federateAmbassador = "connected"
    /\ pc = "answer" \/ Running =>
          ambassadorFederate = "connected" /\ IsInit(initMessage)
    /\ pc = "answer" => toFed = <<initMessage>>
    /\ pc = "dispatch" => ~ m_closeConnection
    /\ Running =>
          /\ TimesAreMeaningful(initMessage)
          /\ m_preemptiveExecutionEnabled = initMessage.preemptive

(* What an answer stands for, read or unread. *)
AnswersMeanIt ==
    /\ answers = <<"SUCCESS">> \/ amb = "ready" => Running
    /\ answers = <<"SHUT_DOWN">> \/ amb = "refused" =>
          /\ pc \in {"refuse", "exited"}
          /\ IsInit(initMessage) /\ ~ TimesAreMeaningful(initMessage)

Inv == TypeOK /\ WrittenInOrder /\ CheckedInOrder /\ AnswersMeanIt

(***************************************************************************)
(* Writing and reading on the first channel.                               *)
(***************************************************************************)
LEMMA TailOfOne == ASSUME NEW x PROVE Tail(<<x>>) = << >>
<1>1. <<x>> \in Seq({x}) /\ <<x>> # << >> /\ Len(<<x>>) = 1
  OBVIOUS
<1>2. Tail(<<x>>) \in Seq({x}) /\ Len(Tail(<<x>>)) = 0
  BY <1>1, HeadTailProperties
<1> QED BY <1>2, EmptySeq

LEMMA AppendToOne ==
    ASSUME NEW x, NEW y
    PROVE  Append(<<x>>, y) = <<x, y>>
<1>1. <<x>> \in Seq({x, y}) /\ Len(<<x>>) = 1 /\ <<x>>[1] = x
  OBVIOUS
<1>2. /\ <<x, y>> \in Seq({x, y}) /\ Len(<<x, y>>) = 2
      /\ <<x, y>>[1] = x /\ <<x, y>>[2] = y
  OBVIOUS
<1>3. /\ Append(<<x>>, y) \in Seq({x, y})
      /\ Len(Append(<<x>>, y)) = 2
      /\ Append(<<x>>, y)[1] = x
      /\ Append(<<x>>, y)[2] = y
  BY <1>1, AppendProperties
<1>4. \A i \in 1 .. Len(Append(<<x>>, y)) : Append(<<x>>, y)[i] = <<x, y>>[i]
  BY <1>2, <1>3
<1> QED BY <1>2, <1>3, <1>4, SeqEqual, Zenon

LEMMA FirstMessages ==
    /\ Append(<< >>, "INIT") = <<"INIT">>
    /\ Append(<< >>, "PORT") = <<"PORT">>
    /\ Append(<<"INIT">>, "PORT") = <<"INIT", "PORT">>
    /\ Tail(<<"INIT">>) = << >>
    /\ Tail(<<"PORT">>) = << >>
    /\ Tail(<<"INIT", "PORT">>) = <<"PORT">>
<1>1. /\ Tail(<<"INIT">>) = << >>
      /\ Tail(<<"PORT">>) = << >>
  BY TailOfOne
<1>2. ASSUME NEW x PROVE Append(<< >>, x) = <<x>>
  OBVIOUS
<1>3. ASSUME NEW x, NEW y PROVE Tail(<<x, y>>) = <<y>>
  OBVIOUS
<1> QED BY <1>1, <1>2, <1>3, AppendToOne

USE DEF BeforeInit, BeforePort, BeforeAnswer, Running

LEMMA InitEstablishes == Init => Inv
BY DEF Init, Inv, TypeOK, WrittenInOrder, CheckedInOrder, AnswersMeanIt

(***************************************************************************)
(* The steps of main() and of the constructor.                             *)
(***************************************************************************)
LEMMA FederateKeeps ==
    ASSUME Inv, Federate
    PROVE  Inv'
<1> USE DEF Inv, flags, connections, streams, ambassador, Goto, Step
<1>1. CASE OpenConfiguration \/ SimulatorNotFound \/ Configure
  BY <1>1 DEF OpenConfiguration, SimulatorNotFound, Configure,
              TypeOK, WrittenInOrder, CheckedInOrder, AnswersMeanIt
<1>2. CASE PrepareOut \/ AcceptOut
  BY <1>2 DEF PrepareOut, AcceptOut, Accepted,
              TypeOK, WrittenInOrder, CheckedInOrder, AnswersMeanIt
<1>3. CASE WriteInit
  <2>1. toAmb' \in {<< >>, <<"INIT">>}
    BY <1>3, FirstMessages DEF WriteInit, WriteOut, WrittenInOrder
  <2> QED
    BY <1>3, <2>1 DEF WriteInit, TypeOK, WrittenInOrder, CheckedInOrder, AnswersMeanIt
<1>4. CASE PrepareCmd \/ AcceptCmd
  BY <1>4 DEF PrepareCmd, AcceptCmd, Accepted,
              TypeOK, WrittenInOrder, CheckedInOrder, AnswersMeanIt
<1>5. CASE WritePort
  <2>1. toAmb' \in {<< >>, <<"INIT">>, <<"PORT">>, <<"INIT", "PORT">>}
    BY <1>5, FirstMessages DEF WritePort, WriteOut, WrittenInOrder
  <2> QED
    BY <1>5, <2>1 DEF WritePort, TypeOK, WrittenInOrder, CheckedInOrder, AnswersMeanIt
<1>6. CASE ReadInitFails \/ ReadInit
  BY <1>6 DEF ReadInitFails, ReadInit,
              TypeOK, WrittenInOrder, CheckedInOrder, AnswersMeanIt
<1>7. CASE Answer \/ Refuse \/ AnswerFails
  BY <1>7 DEF Answer, Refuse, AnswerFails, InitMessage,
              TypeOK, WrittenInOrder, CheckedInOrder, AnswersMeanIt
<1>8. CASE Run
  BY <1>8 DEF Run, TypeOK, WrittenInOrder, CheckedInOrder, AnswersMeanIt
<1> QED
  BY <1>1, <1>2, <1>3, <1>4, <1>5, <1>6, <1>7, <1>8 DEF Federate

(***************************************************************************)
(* The steps of the ambassador, its end included.                          *)
(***************************************************************************)
LEMMA AmbassadorKeeps ==
    ASSUME Inv, Ambassador \/ AmbEnds
    PROVE  Inv'
<1> USE DEF Inv, flags, connections, streams, federate
<1>1. CASE AmbConnect \/ AmbConnectCmd
  BY <1>1 DEF AmbConnect, AmbConnectCmd, Ended,
              TypeOK, WrittenInOrder, CheckedInOrder, AnswersMeanIt
<1>2. CASE AmbSendInit
  BY <1>2 DEF AmbSendInit, TypeOK, WrittenInOrder, CheckedInOrder, AnswersMeanIt
<1>3. CASE AmbReadAnswer
  BY <1>3 DEF AmbReadAnswer, TypeOK, WrittenInOrder, CheckedInOrder, AnswersMeanIt
<1>4. CASE AmbIsLeft \/ AmbEnds
  BY <1>4 DEF AmbIsLeft, AmbEnds, TypeOK, WrittenInOrder, CheckedInOrder, AnswersMeanIt
<1>5. CASE \/ AmbReads("awaitInit", "INIT", "awaitPort")
           \/ AmbReads("awaitPort", "PORT", "connectCmd")
  <2>1. toAmb # << >> /\ toAmb' = Tail(toAmb)
    BY <1>5 DEF AmbReads
  <2>2. /\ toAmb' \in {<< >>, <<"PORT">>}
        /\ pc \notin BeforeInit
        /\ pc \in BeforePort => toAmb' = << >>
    BY <2>1, FirstMessages DEF TypeOK, WrittenInOrder
  <2> QED
    BY <1>5, <2>2 DEF AmbReads, TypeOK, WrittenInOrder, CheckedInOrder, AnswersMeanIt
<1> QED
  BY <1>1, <1>2, <1>3, <1>4, <1>5 DEF Ambassador

LEMMA InvHolds == Spec => []Inv
<1>1. Inv /\ [Next]_vars => Inv'
  <2> SUFFICES ASSUME Inv, [Next]_vars PROVE Inv'
    OBVIOUS
  <2>1. CASE Next
    BY <2>1, FederateKeeps, AmbassadorKeeps DEF Next
  <2>2. CASE UNCHANGED vars
    BY <2>2 DEF vars, federate, flags, connections, streams, ambassador, Inv,
                TypeOK, WrittenInOrder, CheckedInOrder, AnswersMeanIt
  <2> QED BY <2>1, <2>2
<1> QED BY <1>1, InitEstablishes, PTL DEF Spec

-----------------------------------------------------------------------------
(* Type correctness: what is unread on a channel is always one of the few  *)
(* things the protocol allows there.                                       *)
THEOREM TypeCorrect == Spec => []TypeOK
BY InvHolds, PTL DEF Inv

(* The command loop is entered only with two working connections, an       *)
(* InitMessage of the right version with meaningful times, and the         *)
(* preemption it asks for.                                                 *)
THEOREM LoopIsAgreedOn == Spec => []ReadyIsAgreed
<1>1. Inv => ReadyIsAgreed
  BY DEF Inv, CheckedInOrder, ReadyIsAgreed
<1> QED BY <1>1, InvHolds, PTL

(* After SUCCESS the federate is on its way into the loop, after SHUT_DOWN *)
(* it has ended or is about to, because of the times.                      *)
THEOREM AnswerCanBeTrusted == Spec => []AnswerIsTrue
<1>1. Inv => AnswerIsTrue
  BY DEF Inv, CheckedInOrder, AnswersMeanIt, AnswerIsTrue
<1> QED BY <1>1, InvHolds, PTL
=============================================================================
