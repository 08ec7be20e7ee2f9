----------------------------- MODULE MosaicProxyApp -----------------------------
(***************************************************************************)
(* The proxy applications of src/mosaic-proxy-app.cc, one per node, each   *)
(* with the ns-3 UDP socket it reads, and the network between them.        *)
(*                                                                         *)
(* ns-3 queues an arriving packet in the receive buffer of the socket and  *)
(* then calls the application; a packet that does not fit is dropped and   *)
(* nobody is called.  Receive() takes one packet per call, and none while  *)
(* the application is disabled.  An application is disabled until its      *)
(* interface is configured, and by RemoveNode() only if it is application  *)
(* 0 of its node: the cell application of a radio node is not.             *)
(*                                                                         *)
(* Every transmission goes to all other nodes, as a broadcast does; each   *)
(* copy arrives at any time or is lost.  A message id is used once, as in  *)
(* MOSAIC.  A packet is its message id and, for the properties, the time   *)
(* of its arrival.                                                         *)
(***************************************************************************)
EXTENDS Naturals, Sequences

CONSTANTS App,       \* one per node
          FirstApp,  \* those which are application 0 of their node
          MsgId,
          RcvBuf,    \* packets the receive buffer of a socket holds
          MaxTime    \* bound on the simulation time

ASSUME FirstAppAssumption == FirstApp \subseteq App
ASSUME RcvBufAssumption == RcvBuf \in Nat \ {0}
ASSUME MaxTimeAssumption == MaxTime \in Nat

VARIABLES now,
          m_active,         \* the enabled applications
          m_isDeactivated,  \* those whose node was removed
          sent,             \* message ids used up
          inFlight,         \* packets on their way, with their destination
          socket,           \* receive buffer of each application
          reports,          \* RECV_WIFI_MSG and RECV_CELL_MSG written
          missed,           \* history: who was disabled when a packet came
          exited

vars == <<now, m_active, m_isDeactivated, sent, inFlight, socket, reports,
          missed, exited>>

Packet(id, time) == [msgID |-> id, arrived |-> time]

Init ==
    /\ now = 0
    /\ m_active = {}
    /\ m_isDeactivated = {}
    /\ sent = {}
    /\ inFlight = {}
    /\ socket = [a \in App |-> << >>]
    /\ reports = {}
    /\ missed = {}
    /\ exited = FALSE

-----------------------------------------------------------------------------
Tick ==
    /\ ~ exited
    /\ now < MaxTime
    /\ now' = now + 1
    /\ UNCHANGED <<m_active, m_isDeactivated, sent, inFlight, socket, reports,
                   missed, exited>>

(* ConfigureWifiRadio and ConfigureCellRadio do nothing for a removed node. *)
Enable(a) ==
    /\ ~ exited
    /\ a \notin m_isDeactivated
    /\ m_active' = m_active \cup {a}
    /\ UNCHANGED <<now, m_isDeactivated, sent, inFlight, socket, reports,
                   missed, exited>>

RemoveNode(a) ==
    /\ ~ exited
    /\ m_isDeactivated' = m_isDeactivated \cup {a}
    /\ m_active' = m_active \ ({a} \cap FirstApp)
    /\ UNCHANGED <<now, sent, inFlight, socket, reports, missed, exited>>

(* A disabled application ignores the request. *)
TransmitPacket(a, id) ==
    /\ ~ exited
    /\ a \notin m_isDeactivated
    /\ id \notin sent
    /\ sent' = sent \cup {id}
    /\ inFlight' = IF a \in m_active
                   THEN inFlight \cup {[msgID |-> id, to |-> b] : b \in App \ {a}}
                   ELSE inFlight
    /\ UNCHANGED <<now, m_active, m_isDeactivated, socket, reports, missed, exited>>

(* SendTo refuses the packet, for instance because it is too long. *)
SendFails(a) ==
    /\ ~ exited
    /\ a \in m_active \ m_isDeactivated
    /\ exited' = TRUE
    /\ UNCHANGED <<now, m_active, m_isDeactivated, sent, inFlight, socket,
                   reports, missed>>

(* Mutant: receptions of removed nodes are reported. *)
RecvMsg_RemovedToo(a, packet) ==
    reports' = reports \cup {[app |-> a, msgID |-> packet.msgID,
                              arrived |-> packet.arrived, recvTime |-> now]}

(* RecvWifiMsg and RecvCellMsg: nothing is reported for a removed node. *)
RecvMsg(a, packet) ==
    reports' = IF a \in m_isDeactivated
               THEN reports
               ELSE reports \cup {[app |-> a, msgID |-> packet.msgID,
                                   arrived |-> packet.arrived, recvTime |-> now]}

(* Mutants: the packet stays in the buffer; the newest packet is taken;    *)
(* the check for removed nodes made before the packet is taken.            *)
Receive_Peeks(a, queue) ==
    /\ socket' = [socket EXCEPT ![a] = queue]
    /\ IF a \in m_active
       THEN RecvMsg(a, Head(queue)) /\ UNCHANGED missed
       ELSE missed' = missed \cup {a} /\ UNCHANGED reports
Receive_Newest(a, queue) ==
    IF a \in m_active
    THEN /\ socket' = [socket EXCEPT ![a] = SubSeq(queue, 1, Len(queue) - 1)]
         /\ RecvMsg(a, queue[Len(queue)])
         /\ UNCHANGED missed
    ELSE /\ socket' = [socket EXCEPT ![a] = queue]
         /\ missed' = missed \cup {a}
         /\ UNCHANGED reports
Receive_RemovedFirst(a, queue) ==
    IF a \in m_active /\ a \notin m_isDeactivated
    THEN /\ socket' = [socket EXCEPT ![a] = Tail(queue)]
         /\ RecvMsg(a, Head(queue))
         /\ UNCHANGED missed
    ELSE /\ socket' = [socket EXCEPT ![a] = queue]
         /\ missed' = IF a \in m_active THEN missed ELSE missed \cup {a}
         /\ UNCHANGED reports

(* Receive() with `queue` in the receive buffer. *)
Receive(a, queue) ==
    IF a \in m_active
    THEN /\ socket' = [socket EXCEPT ![a] = Tail(queue)]
         /\ RecvMsg(a, Head(queue))
         /\ UNCHANGED missed
    ELSE /\ socket' = [socket EXCEPT ![a] = queue]
         /\ missed' = missed \cup {a}
         /\ UNCHANGED reports

(* Mutant: room for one packet too many. *)
HasRoom_OffByOne(a) == Len(socket[a]) <= RcvBuf

HasRoom(a) == Len(socket[a]) < RcvBuf

(* UdpSocketImpl::ForwardUp *)
Arrive(p) ==
    /\ ~ exited
    /\ p \in inFlight
    /\ inFlight' = inFlight \ {p}
    /\ IF HasRoom(p.to)
       THEN Receive(p.to, Append(socket[p.to], Packet(p.msgID, now)))
       ELSE UNCHANGED <<socket, reports, missed>>
    /\ UNCHANGED <<now, m_active, m_isDeactivated, sent, exited>>

Lose(p) ==
    /\ ~ exited
    /\ p \in inFlight
    /\ inFlight' = inFlight \ {p}
    /\ UNCHANGED <<now, m_active, m_isDeactivated, sent, socket, reports,
                   missed, exited>>

-----------------------------------------------------------------------------
Next ==
    \/ Tick
    \/ \E a \in App : Enable(a) \/ RemoveNode(a) \/ SendFails(a)
    \/ \E a \in App, id \in MsgId : TransmitPacket(a, id)
    \/ \E p \in inFlight : Arrive(p) \/ Lose(p)

Spec == Init /\ [][Next]_vars

-----------------------------------------------------------------------------
Packets(a) == {socket[a][i] : i \in DOMAIN socket[a]}

(* Type invariant. *)
TypeOK ==
    /\ now \in 0 .. MaxTime
    /\ m_active \cup m_isDeactivated \cup missed \subseteq App
    /\ sent \subseteq MsgId
    /\ inFlight \subseteq [msgID : MsgId, to : App]
    /\ socket \in [App -> Seq([msgID : MsgId, arrived : Nat])]
    /\ \A a \in App : Len(socket[a]) <= RcvBuf
    /\ reports \subseteq [app : App, msgID : MsgId, arrived : Nat, recvTime : Nat]
    /\ exited \in BOOLEAN

(* MOSAIC hears at most once of a message from one receiver, however long  *)
(* it lay in a buffer: what was reported is neither reported again nor     *)
(* still to come.                                                          *)
ReportedOnce ==
    \A r \in reports :
        /\ \A s \in reports : s.app = r.app /\ s.msgID = r.msgID => s = r
        /\ \A p \in Packets(r.app) : p.msgID # r.msgID
        /\ [msgID |-> r.msgID, to |-> r.app] \notin inFlight

(* An application reports packets in the order in which they arrived, also *)
(* across a time in which it was disabled.                                 *)
ReportedInOrder ==
    \A r \in reports :
        /\ \A s \in reports :
              s.app = r.app /\ s.arrived < r.arrived => s.recvTime <= r.recvTime
        /\ \A p \in Packets(r.app) : p.arrived >= r.arrived

(* One packet per call is enough as long as no call comes in vain: an      *)
(* application that was enabled whenever a packet came has an empty buffer *)
(* and has reported everything at the time of its arrival.                 *)
PromptUnlessMissed ==
    \A a \in App \ missed :
        /\ socket[a] = << >>
        /\ \A r \in reports : r.app = a => r.recvTime = r.arrived

(* Nothing sent to a removed node is reported, although the cell           *)
(* application of a radio node is never disabled.                          *)
NoneFromRemoved ==
    \A r \in reports' \ reports : r.app \notin m_isDeactivated
RemovedStaysSilent == [][NoneFromRemoved]_vars

(* "recvTime  time of the receipt": a message is reported with the time at *)
(* which its packet arrived.                                               *)
TimeOfReceipt == \A r \in reports : r.recvTime = r.arrived
=============================================================================
