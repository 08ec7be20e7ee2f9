-------------------------------- MODULE Startup --------------------------------
(***************************************************************************)
(* From main() to the command loop: the configuration file, the bridge's   *)
(* constructor with its two connections, and the ambassador at the other   *)
(* end of them.  A federate in pc = "dispatch" is where MosaicNs3Bridge    *)
(* begins.                                                                 *)
(*                                                                         *)
(* The federate is one thread; `pc` names what it does next.  It may end   *)
(* as "exited" (exit(1) or SIGPIPE), "failed" (main returns 1) or          *)
(* "returned" (main returns 0).  A connection is "none", "listening",      *)
(* "pending" (the ambassador has connected, accept is still to come),      *)
(* "connected" or "broken" (accept failed, which is only logged).          *)
(***************************************************************************)
EXTENDS Integers, Sequences

CONSTANTS ProtocolVersion,  \* PROTOCOL_VERSION
          Versions, Times   \* what an ambassador may say in its InitMessage

ASSUME VersionAssumption == ProtocolVersion \in Versions
ASSUME TimesAssumption == Times \subseteq Int

VARIABLES
    pc, m_closeConnection, m_preemptiveExecutionEnabled,
    federateAmbassador, ambassadorFederate,   \* the connections
    toAmb,      \* unread on federateAmbassadorChannel
    toFed,      \* unread on ambassadorFederateChannel: a command and its InitMessage
    answers,    \* unread answers, on ambassadorFederateChannel
    amb,        \* what the ambassador does next; or "ready", "refused", "lost", "gone"
    initMessage \* what it says of itself

flags == <<m_closeConnection, m_preemptiveExecutionEnabled>>
connections == <<federateAmbassador, ambassadorFederate>>
streams == <<toAmb, toFed, answers>>
federate == <<pc, flags>>
ambassador == <<amb, initMessage>>
vars == <<federate, connections, streams, ambassador>>

InitMessage == [command : {"INIT", "ADD_NODE"}, start : Times, end : Times,
                version : Versions, preemptive : BOOLEAN]

Init ==
    /\ pc = "main"
    /\ m_closeConnection \in BOOLEAN               \* not yet assigned
    /\ m_preemptiveExecutionEnabled \in BOOLEAN    \* not yet assigned
    /\ federateAmbassador = "none"
    /\ ambassadorFederate = "none"
    /\ toAmb = << >>
    /\ toFed = << >>
    /\ answers = << >>
    /\ amb = "connect"
    /\ initMessage \in InitMessage

Ended == pc \in {"exited", "failed", "returned"}

Goto(label) == pc' = label
Step(from, to) == pc = from /\ Goto(to)

-----------------------------------------------------------------------------
(***************************************************************************)
(* main() and the constructor of the bridge.                               *)
(***************************************************************************)
OpenConfiguration ==
    /\ Step("main", "construct") \/ Step("main", "failed")
    /\ UNCHANGED <<flags, connections, streams, ambassador>>

(* Another SimulatorImpl may be configured than the federate's own. *)
SimulatorNotFound ==
    /\ Step("construct", "run")
    /\ m_closeConnection' = TRUE
    /\ UNCHANGED <<m_preemptiveExecutionEnabled, connections, streams, ambassador>>

Configure ==
    /\ Step("construct", "listen")
    /\ m_closeConnection' = FALSE
    /\ m_preemptiveExecutionEnabled' = FALSE
    /\ UNCHANGED <<connections, streams, ambassador>>

(* prepareConnection, for both channels: any failure is fatal. *)
PrepareOut ==
    /\ \/ Step("listen", "accept") /\ federateAmbassador' = "listening"
       \/ Step("listen", "exited") /\ UNCHANGED federateAmbassador
    /\ UNCHANGED <<flags, ambassadorFederate, streams, ambassador>>

PrepareCmd ==
    /\ \/ Step("listenCmd", "writePort") /\ ambassadorFederate' = "listening"
       \/ Step("listenCmd", "exited") /\ UNCHANGED ambassadorFederate
    /\ UNCHANGED <<flags, federateAmbassador, streams, ambassador>>

(* connect(): accept blocks; when it fails, the constructor goes on.  The  *)
(* connection is the ambassador's even if the ambassador is gone.          *)
Accepted(connection) ==
    IF connection = "pending" THEN {"connected", "broken"} ELSE {"broken"}

AcceptOut ==
    /\ Step("accept", "writeInit")
    /\ federateAmbassador' \in Accepted(federateAmbassador)
    /\ UNCHANGED <<flags, ambassadorFederate, streams, ambassador>>

AcceptCmd ==
    /\ Step("acceptCmd", "readInit")
    /\ ambassadorFederate' \in Accepted(ambassadorFederate)
    /\ UNCHANGED <<flags, federateAmbassador, streams, ambassador>>

(* A write to a peer that is gone fails, or raises SIGPIPE, or is accepted *)
(* for the last time.                                                      *)
WriteOut(message) ==
    toAmb' = IF federateAmbassador = "connected" THEN Append(toAmb, message) ELSE toAmb

(* writeCommand ignores what send returns ... *)
WriteInit ==
    /\ Step("writeInit", "listenCmd") \/ (amb = "gone" /\ Step("writeInit", "exited"))
    /\ WriteOut("INIT")
    /\ UNCHANGED <<flags, connections, toFed, answers, ambassador>>

(* Mutant: ... and so does writePort. *)
WritePort_Unchecked ==
    /\ Step("writePort", "acceptCmd")
    /\ WriteOut("PORT")
    /\ UNCHANGED <<flags, connections, toFed, answers, ambassador>>

(* ... and writePort does not. *)
WritePort ==
    /\ IF federateAmbassador = "connected"
       THEN \/ Step("writePort", "acceptCmd")
            \/ amb = "gone" /\ Step("writePort", "exited")
       ELSE Step("writePort", "exited")
    /\ WriteOut("PORT")
    /\ UNCHANGED <<flags, connections, toFed, answers, ambassador>>

(* readCommand and readInitMessage.  On a broken connection and at the end *)
(* of the stream the command is UNDEF; an InitMessage made up at the end   *)
(* of the stream has version 0.                                            *)
IsInit(message) ==
    message.command = "INIT" /\ message.version = ProtocolVersion

ReadInitFails ==
    /\ Step("readInit", "exited")
    /\ \/ ambassadorFederate = "broken"
       \/ amb = "gone"
       \/ toFed # << >> /\ ~ IsInit(Head(toFed))
    /\ UNCHANGED <<flags, connections, streams, ambassador>>

(* Mutant: any version will do. *)
ReadInit_AnyVersion ==
    /\ ambassadorFederate = "connected"
    /\ toFed # << >> /\ Head(toFed).command = "INIT"
    /\ Step("readInit", "answer")
    /\ UNCHANGED <<flags, connections, streams, ambassador>>

ReadInit ==
    /\ ambassadorFederate = "connected"
    /\ toFed # << >> /\ IsInit(Head(toFed))
    /\ Step("readInit", "answer")
    /\ UNCHANGED <<flags, connections, streams, ambassador>>

TimesAreMeaningful(message) ==
    message.start >= 0 /\ message.end >= 0 /\ message.end >= message.start

(* Mutants: SUCCESS is written before the times are looked at; after it,  *)
(* whatever they are.                                                      *)
Answer_SuccessFirst ==
    /\ pc = "answer"
    /\ Goto(IF TimesAreMeaningful(Head(toFed)) THEN "run" ELSE "refuse")
    /\ m_preemptiveExecutionEnabled' = Head(toFed).preemptive
    /\ answers' = <<"SUCCESS">>
    /\ toFed' = << >>
    /\ UNCHANGED <<m_closeConnection, connections, toAmb, ambassador>>
Answer_Both ==
    /\ pc = "answer"
    /\ Goto(IF TimesAreMeaningful(Head(toFed)) THEN "run" ELSE "refuse")
    /\ m_preemptiveExecutionEnabled' = Head(toFed).preemptive
    /\ answers' = IF TimesAreMeaningful(Head(toFed))
                  THEN <<"SUCCESS">> ELSE <<"SHUT_DOWN", "SUCCESS">>
    /\ toFed' = << >>
    /\ UNCHANGED <<m_closeConnection, connections, toAmb, ambassador>>

Answer ==
    /\ pc = "answer"
    /\ IF TimesAreMeaningful(Head(toFed))
       THEN /\ Goto("run")
            /\ m_preemptiveExecutionEnabled' = Head(toFed).preemptive
            /\ answers' = <<"SUCCESS">>
       ELSE /\ Goto("refuse")
            /\ answers' = <<"SHUT_DOWN">>
            /\ UNCHANGED m_preemptiveExecutionEnabled
    /\ toFed' = << >>
    /\ UNCHANGED <<m_closeConnection, connections, toAmb, ambassador>>

(* After SHUT_DOWN, which the ambassador may read at once, exit(1). *)
Refuse ==
    /\ Step("refuse", "exited")
    /\ UNCHANGED <<flags, connections, streams, ambassador>>

(* The answer is written to a peer that is gone: SIGPIPE. *)
AnswerFails ==
    /\ amb = "gone"
    /\ Step("answer", "exited")
    /\ UNCHANGED <<flags, connections, streams, ambassador>>

Run ==
    /\ IF m_closeConnection THEN Step("run", "returned") ELSE Step("run", "dispatch")
    /\ UNCHANGED <<flags, connections, streams, ambassador>>

Federate ==
    \/ OpenConfiguration \/ SimulatorNotFound \/ Configure
    \/ PrepareOut \/ AcceptOut \/ WriteInit
    \/ PrepareCmd \/ WritePort \/ AcceptCmd
    \/ ReadInitFails \/ ReadInit \/ Answer \/ Refuse \/ AnswerFails
    \/ Run

-----------------------------------------------------------------------------
(***************************************************************************)
(* The ambassador, as the constructor expects it: it connects to the port  *)
(* it has given the federate, waits for INIT and a port, connects there,   *)
(* sends INIT and waits for the answer.  It notices when the federate has  *)
(* ended, and may itself end at any time.                                  *)
(***************************************************************************)
AmbConnect ==
    /\ amb = "connect" /\ federateAmbassador = "listening" /\ ~ Ended
    /\ federateAmbassador' = "pending"
    /\ amb' = "awaitInit"
    /\ UNCHANGED <<federate, ambassadorFederate, streams, initMessage>>

AmbReads(state, message, next) ==
    /\ amb = state /\ toAmb # << >> /\ Head(toAmb) = message
    /\ toAmb' = Tail(toAmb)
    /\ amb' = next
    /\ UNCHANGED <<federate, connections, toFed, answers, initMessage>>

AmbConnectCmd ==
    /\ amb = "connectCmd" /\ ~ Ended
    /\ ambassadorFederate' = IF ambassadorFederate = "listening" THEN "pending"
                             ELSE ambassadorFederate
    /\ amb' = "sendInit"
    /\ UNCHANGED <<federate, federateAmbassador, streams, initMessage>>

AmbSendInit ==
    /\ amb = "sendInit"
    /\ toFed' = <<initMessage>>
    /\ amb' = "awaitAnswer"
    /\ UNCHANGED <<federate, connections, toAmb, answers, initMessage>>

AmbReadAnswer ==
    /\ amb = "awaitAnswer" /\ answers # << >>
    /\ amb' = IF Head(answers) = "SUCCESS" THEN "ready" ELSE "refused"
    /\ answers' = << >>
    /\ UNCHANGED <<federate, connections, toAmb, toFed, initMessage>>

Unread == toAmb # << >> \/ answers # << >>

AmbIsLeft ==
    /\ amb \notin {"ready", "refused", "lost", "gone"}
    /\ Ended /\ ~ Unread
    /\ amb' = "lost"
    /\ UNCHANGED <<federate, connections, streams, initMessage>>

AmbEnds ==
    /\ amb # "gone"
    /\ amb' = "gone"
    /\ UNCHANGED <<federate, connections, streams, initMessage>>

Ambassador ==
    \/ AmbConnect \/ AmbConnectCmd \/ AmbSendInit \/ AmbReadAnswer \/ AmbIsLeft
    \/ AmbReads("awaitInit", "INIT", "awaitPort")
    \/ AmbReads("awaitPort", "PORT", "connectCmd")

Next == Federate \/ Ambassador \/ AmbEnds

Spec == Init /\ [][Next]_vars

(***************************************************************************)
(* Neither side sleeps while it can go on.  A blocked accept need not fail *)
(* for the federate to be rid of it, and nobody need end.                  *)
(***************************************************************************)
NoCallOfAcceptFails ==
    /\ pc = "accept" => federateAmbassador = "pending"
    /\ pc = "acceptCmd" => ambassadorFederate = "pending"

FairSpec ==
    /\ Spec
    /\ WF_vars(Federate /\ NoCallOfAcceptFails)
    /\ WF_vars(Ambassador)

-----------------------------------------------------------------------------
(* Type invariant. *)
TypeOK ==
    /\ pc \in {"main", "construct", "listen", "accept", "writeInit", "listenCmd",
               "writePort", "acceptCmd", "readInit", "answer", "refuse", "run",
               "dispatch", "exited", "failed", "returned"}
    /\ {m_closeConnection, m_preemptiveExecutionEnabled} \subseteq BOOLEAN
    /\ {federateAmbassador, ambassadorFederate} \subseteq
            {"none", "listening", "pending", "connected", "broken"}
    /\ toAmb \in {<< >>, <<"INIT">>, <<"PORT">>, <<"INIT", "PORT">>}
    /\ toFed \in {<< >>, <<initMessage>>}
    /\ answers \in {<< >>, <<"SUCCESS">>, <<"SHUT_DOWN">>}
    /\ amb \in {"connect", "awaitInit", "awaitPort", "connectCmd", "sendInit",
                "awaitAnswer", "ready", "refused", "lost", "gone"}
    /\ initMessage \in InitMessage

(* The command loop is entered with two working connections and an         *)
(* InitMessage of the right version and with meaningful times, and with    *)
(* the preemption it asks for: an accept that failed and was only logged   *)
(* is always noticed on the way.                                           *)
ReadyIsAgreed ==
    pc = "dispatch" =>
        /\ federateAmbassador = "connected" /\ ambassadorFederate = "connected"
        /\ IsInit(initMessage) /\ TimesAreMeaningful(initMessage)
        /\ m_preemptiveExecutionEnabled = initMessage.preemptive

(* The ambassador can rely on the answer: after SUCCESS the federate is on *)
(* its way into the command loop, with the same preemption, and after      *)
(* SHUT_DOWN it has nothing left to do but to end, because of the times.   *)
AnswerIsTrue ==
    /\ amb = "ready" =>
          /\ pc \in {"run", "dispatch"} /\ ~ m_closeConnection
          /\ m_preemptiveExecutionEnabled = initMessage.preemptive
    /\ amb = "refused" =>
          /\ pc \in {"refuse", "exited"}
          /\ IsInit(initMessage) /\ ~ TimesAreMeaningful(initMessage)

(* Whatever fails, the two never wait for each other: the ambassador gets  *)
(* its answer or learns that there will be none, and the federate enters   *)
(* the loop or ends.  Only a federate whose ambassador ends before it has  *)
(* connected twice waits for ever.                                         *)
AmbassadorSettles == <>(amb \in {"ready", "refused", "lost", "gone"})
FederateSettles ==
    <>(Ended \/ pc = "dispatch" \/ (amb = "gone" /\ pc \in {"accept", "acceptCmd"}))
Settles == AmbassadorSettles /\ FederateSettles
=============================================================================
