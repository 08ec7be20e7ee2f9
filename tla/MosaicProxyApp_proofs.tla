--------------------------- MODULE MosaicProxyApp_proofs ---------------------------
(***************************************************************************)
(* The proxy applications, for every number of nodes, messages and packets *)
(* in a buffer, and every bound on time.                                   *)
(*                                                                         *)
(* A message is, for one receiver, in one place only: on its way, in the   *)
(* receive buffer or reported; and a buffer holds its packets in the order *)
(* of arrival, none older than one that was reported.                      *)
(***************************************************************************)
EXTENDS MosaicProxyApp, SequenceTheorems, TLAPS

PacketType == [msgID : MsgId, arrived : Nat]
ReportType == [app : App, msgID : MsgId, arrived : Nat, recvTime : Nat]

(* The packets of a buffer among themselves and at a time. *)
InOrder(queue, known, time) ==
    \A i \in 1 .. Len(queue) :
        /\ queue[i].arrived <= time
        /\ queue[i].msgID \in known
        /\ \A j \in 1 .. Len(queue) :
              i < j => /\ queue[i].msgID # queue[j].msgID
                       /\ queue[i].arrived <= queue[j].arrived

(* The packets of a buffer, and those on their way and reported. *)
InOnePlace(a, queue, flying, reported) ==
    \A i \in 1 .. Len(queue) :
        /\ [msgID |-> queue[i].msgID, to |-> a] \notin flying
        /\ \A r \in reported :
              r.app = a => r.msgID # queue[i].msgID /\ r.arrived <= queue[i].arrived

Reported(flying, reported, time) ==
    \A r \in reported :
        /\ r.msgID \in sent /\ r.arrived <= r.recvTime /\ r.recvTime <= time
        /\ [msgID |-> r.msgID, to |-> r.app] \notin flying
        /\ \A s \in reported : s.app = r.app /\ s.msgID = r.msgID => s = r
        /\ \A s \in reported :
              s.app = r.app /\ s.arrived < r.arrived => s.recvTime <= r.recvTime

PInv ==
    /\ TypeOK
    /\ \A p \in inFlight : p.msgID \in sent
    /\ \A a \in App : InOrder(socket[a], sent, now) /\ InOnePlace(a, socket[a], inFlight, reports)
    /\ Reported(inFlight, reports, now)
    /\ PromptUnlessMissed

-----------------------------------------------------------------------------
LEMMA PInvInit ==
    ASSUME Init
    PROVE  PInv
<1>1. \A a \in App : socket[a] = << >> /\ Len(socket[a]) = 0
  BY EmptySeq DEF Init
<1>2. TypeOK
  <2>1. socket \in [App -> Seq([msgID : MsgId, arrived : Nat])]
    BY EmptySeq DEF Init
  <2>2. \A a \in App : Len(socket[a]) <= RcvBuf
    <3>1. 0 <= RcvBuf
      BY RcvBufAssumption
    <3> QED
      BY <1>1, <3>1
  <2>3. now \in 0 .. MaxTime
    BY MaxTimeAssumption DEF Init
  <2> QED
    BY <2>1, <2>2, <2>3 DEF Init, TypeOK
<1> QED
  BY <1>1, <1>2 DEF Init, PInv, InOrder, InOnePlace, Reported, PromptUnlessMissed

(* The properties of the runs follow. *)
LEMMA PInvSuffices ==
    ASSUME PInv
    PROVE  ReportedOnce /\ ReportedInOrder
<1>1. \A a \in App : /\ socket[a] \in Seq(PacketType)
                     /\ DOMAIN socket[a] = 1 .. Len(socket[a])
  BY LenProperties DEF PInv, TypeOK, PacketType
<1>2. ASSUME NEW r \in reports, NEW p \in Packets(r.app)
      PROVE  p.msgID # r.msgID /\ p.arrived >= r.arrived
  <2>1. r.app \in App
    BY DEF PInv, TypeOK
  <2>2. PICK i \in 1 .. Len(socket[r.app]) : p = socket[r.app][i]
    BY <1>1, <2>1 DEF Packets
  <2>3. p \in PacketType
    BY <1>1, <2>1, <2>2, ElementOfSeq
  <2>4. r.msgID # p.msgID /\ r.arrived <= p.arrived
    BY <2>1, <2>2 DEF PInv, InOnePlace
  <2>5. r.arrived \in Nat /\ p.arrived \in Nat
    BY <2>3 DEF PInv, TypeOK, PacketType
  <2> QED
    BY <2>4, <2>5
<1>3. ReportedOnce
  BY <1>2 DEF PInv, Reported, ReportedOnce
<1>4. ReportedInOrder
  BY <1>2 DEF PInv, Reported, ReportedInOrder
<1> QED
  BY <1>3, <1>4

(* A packet at the end of a buffer. *)
LEMMA QueueOfArrival ==
    ASSUME PInv, NEW p \in inFlight, HasRoom(p.to), NEW queue,
           queue = Append(socket[p.to], Packet(p.msgID, now))
    PROVE  /\ p.to \in App
           /\ queue \in Seq(PacketType) /\ queue # << >>
           /\ Len(queue) = Len(socket[p.to]) + 1
           /\ Len(queue) \in 1 .. RcvBuf
           /\ InOrder(queue, sent, now)
           /\ InOnePlace(p.to, queue, inFlight \ {p}, reports)
           /\ socket[p.to] = << >> => queue[1].arrived = now
<1> DEFINE old == socket[p.to]
           new == Packet(p.msgID, now)
<1>1. /\ p.to \in App /\ p.msgID \in MsgId /\ p.msgID \in sent /\ now \in Nat
      /\ p = [msgID |-> p.msgID, to |-> p.to]
  BY DEF PInv, TypeOK
<1>2. /\ old \in Seq(PacketType) /\ Len(old) \in Nat /\ Len(old) < RcvBuf
      /\ InOrder(old, sent, now) /\ InOnePlace(p.to, old, inFlight, reports)
      /\ Reported(inFlight, reports, now)
  BY <1>1, LenProperties DEF PInv, TypeOK, PacketType, HasRoom
<1>3. new \in PacketType /\ new.msgID = p.msgID /\ new.arrived = now
  BY <1>1 DEF Packet, PacketType
<1> HIDE DEF old, new
<1>4. queue = Append(old, new)
  BY DEF old, new
<1>5. /\ queue \in Seq(PacketType) /\ queue # << >> /\ Len(queue) = Len(old) + 1
      /\ \A i \in 1 .. Len(old) : queue[i] = old[i]
      /\ queue[Len(old) + 1] = new
  BY <1>2, <1>3, <1>4, AppendProperties
<1>6. \A i \in 1 .. Len(queue) : i \in 1 .. Len(old) \/ i = Len(queue)
  BY <1>2, <1>5
<1>7. Len(queue) \in 1 .. RcvBuf
  BY <1>2, <1>5, RcvBufAssumption
<1>8. InOrder(queue, sent, now)
  <2> SUFFICES ASSUME NEW i \in 1 .. Len(queue)
               PROVE  /\ queue[i].arrived <= now /\ queue[i].msgID \in sent
                      /\ \A j \in 1 .. Len(queue) :
                            i < j => /\ queue[i].msgID # queue[j].msgID
                                     /\ queue[i].arrived <= queue[j].arrived
    BY DEF InOrder
  <2>1. CASE i = Len(queue)
    BY <1>1, <1>3, <1>5, <1>7, <2>1
  <2>2. CASE i \in 1 .. Len(old)
    <3>1. /\ old[i].arrived <= now /\ old[i].msgID \in sent
          /\ \A j \in 1 .. Len(old) :
                i < j => /\ old[i].msgID # old[j].msgID
                         /\ old[i].arrived <= old[j].arrived
      BY <1>2, <2>2 DEF InOrder
    <3>2. old[i].msgID # p.msgID
      BY <1>1, <1>2, <2>2 DEF InOnePlace
    <3> QED
      BY <1>3, <1>5, <1>6, <2>2, <3>1, <3>2
  <2> QED
    BY <1>6, <2>1, <2>2
<1>9. InOnePlace(p.to, queue, inFlight \ {p}, reports)
  <2> SUFFICES ASSUME NEW i \in 1 .. Len(queue)
               PROVE  /\ [msgID |-> queue[i].msgID, to |-> p.to] \notin inFlight \ {p}
                      /\ \A r \in reports :
                            r.app = p.to => r.msgID # queue[i].msgID
                                            /\ r.arrived <= queue[i].arrived
    BY DEF InOnePlace
  <2>1. CASE i = Len(queue)
    <3>1. queue[i] = new
      BY <1>5, <2>1
    <3>2. ASSUME NEW r \in reports, r.app = p.to
          PROVE  r.msgID # p.msgID /\ r.arrived <= now
      <4>1. r.arrived \in Nat /\ r.recvTime \in Nat
        BY DEF PInv, TypeOK
      <4>2. r.arrived <= r.recvTime /\ r.recvTime <= now
        BY <1>2 DEF Reported
      <4>3. [msgID |-> r.msgID, to |-> r.app] # p
        BY <1>2 DEF Reported
      <4> QED
        BY <1>1, <3>2, <4>1, <4>2, <4>3
    <3> QED
      BY <1>1, <1>3, <3>1, <3>2
  <2>2. CASE i \in 1 .. Len(old)
    BY <1>2, <1>5, <2>2 DEF InOnePlace
  <2> QED
    BY <1>6, <2>1, <2>2
<1>10. old = << >> => queue[1].arrived = now
  BY <1>3, <1>5, EmptySeq
<1> QED
  BY <1>1, <1>5, <1>7, <1>8, <1>9, <1>10 DEF old

(* Taking the first packet out. *)
LEMMA TailKeeps ==
    ASSUME NEW queue \in Seq(PacketType), queue # << >>, NEW known, NEW time
    PROVE  /\ Head(queue) = queue[1] /\ queue[1] \in PacketType
           /\ Tail(queue) \in Seq(PacketType)
           /\ Len(queue) \in Nat \ {0} /\ Len(Tail(queue)) = Len(queue) - 1
           /\ \A i \in 1 .. Len(Tail(queue)) :
                 Tail(queue)[i] = queue[i + 1] /\ i + 1 \in 1 .. Len(queue)
           /\ InOrder(queue, known, time) => InOrder(Tail(queue), known, time)
<1>1. /\ Tail(queue) \in Seq(PacketType) /\ Len(Tail(queue)) = Len(queue) - 1
      /\ \A i \in 1 .. Len(Tail(queue)) : Tail(queue)[i] = queue[i + 1]
  BY HeadTailProperties
<1>2. Len(queue) \in Nat \ {0}
  BY EmptySeq, LenProperties
<1>3. Head(queue) = queue[1] /\ queue[1] \in PacketType
  BY <1>2, ElementOfSeq
<1>4. \A i \in 1 .. Len(Tail(queue)) : i + 1 \in 1 .. Len(queue)
  BY <1>1, <1>2
<1>5. ASSUME InOrder(queue, known, time)
      PROVE  InOrder(Tail(queue), known, time)
  <2>1. \A i, j \in 1 .. Len(Tail(queue)) : i < j => i + 1 < j + 1
    BY <1>1, <1>2
  <2> QED
    BY <1>1, <1>4, <1>5, <2>1 DEF InOrder
<1> QED
  BY <1>1, <1>2, <1>3, <1>4, <1>5

-----------------------------------------------------------------------------
(* Steps that leave the packets where they are. *)
LEMMA QuietPreserves ==
    ASSUME PInv, UNCHANGED <<sent, inFlight, socket, reports, missed>>,
           now' \in 0 .. MaxTime, now <= now', TypeOK'
    PROVE  PInv'
<1>1. now \in Nat /\ now' \in Nat
  BY MaxTimeAssumption DEF PInv, TypeOK
<1>2. ASSUME NEW a \in App
      PROVE  InOrder(socket[a], sent, now)'
  <2>1. InOrder(socket[a], sent, now) /\ socket[a] \in Seq(PacketType)
    BY DEF PInv, TypeOK, PacketType
  <2>2. \A i \in 1 .. Len(socket[a]) : socket[a][i].arrived \in Nat
    <3>1. \A i \in 1 .. Len(socket[a]) : socket[a][i] \in PacketType
      BY <2>1, ElementOfSeq
    <3> QED
      BY <3>1 DEF PacketType
  <2>3. \A i \in 1 .. Len(socket[a]) : socket[a][i].arrived <= now'
    BY <1>1, <2>1, <2>2 DEF InOrder
  <2> QED
    BY <2>1, <2>3 DEF InOrder
<1>3. Reported(inFlight, reports, now)'
  <2>1. \A r \in reports : r.recvTime \in Nat /\ r.recvTime <= now
    BY DEF PInv, Reported, TypeOK
  <2>2. \A r \in reports : r.recvTime <= now'
    BY <1>1, <2>1
  <2> QED
    BY <2>2 DEF PInv, Reported
<1>4. \A a \in App : InOnePlace(a, socket[a], inFlight, reports)'
  BY DEF PInv, InOnePlace
<1>5. PromptUnlessMissed'
  BY DEF PInv, PromptUnlessMissed
<1> QED
  BY <1>2, <1>3, <1>4, <1>5 DEF PInv

LEMMA TransmitPreserves ==
    ASSUME PInv, NEW a \in App, NEW id \in MsgId, TransmitPacket(a, id)
    PROVE  PInv'
<1>1. /\ id \notin sent /\ sent' = sent \cup {id}
      /\ UNCHANGED <<now, m_active, m_isDeactivated, socket, reports, missed, exited>>
  BY DEF TransmitPacket
<1>2. \A p \in inFlight' :
          p \in inFlight \/ \E b \in App : p = [msgID |-> id, to |-> b]
  BY DEF TransmitPacket
<1>3. TypeOK'
  <2>1. inFlight' \subseteq [msgID : MsgId, to : App]
    BY <1>2 DEF PInv, TypeOK
  <2> QED
    BY <1>1, <2>1 DEF PInv, TypeOK
<1>4. \A p \in inFlight' : p.msgID \in sent'
  BY <1>1, <1>2 DEF PInv
<1>5. \A b \in App : InOrder(socket[b], sent, now)'
  BY <1>1 DEF PInv, InOrder
<1>6. ASSUME NEW b \in App
      PROVE  InOnePlace(b, socket[b], inFlight, reports)'
  <2>1. \A i \in 1 .. Len(socket[b]) :
            [msgID |-> socket[b][i].msgID, to |-> b] \notin inFlight'
    BY <1>1, <1>2 DEF PInv, InOrder, InOnePlace
  <2> QED
    BY <1>1, <2>1 DEF PInv, InOnePlace
<1>7. Reported(inFlight, reports, now)'
  <2>1. \A r \in reports : [msgID |-> r.msgID, to |-> r.app] \notin inFlight'
    BY <1>1, <1>2 DEF PInv, Reported
  <2> QED
    BY <1>1, <2>1 DEF PInv, Reported
<1>8. PromptUnlessMissed'
  BY <1>1 DEF PInv, PromptUnlessMissed
<1> QED
  BY <1>3, <1>4, <1>5, <1>6, <1>7, <1>8 DEF PInv

(* A packet is lost on its way, or finds no room. *)
LEMMA LossPreserves ==
    ASSUME PInv, NEW p \in inFlight, inFlight' = inFlight \ {p},
           UNCHANGED <<now, m_active, m_isDeactivated, sent, socket, reports,
                       missed, exited>>
    PROVE  PInv'
<1>1. TypeOK'
  BY DEF PInv, TypeOK
<1>2. \A a \in App : InOrder(socket[a], sent, now)'
  BY DEF PInv, InOrder
<1>3. \A a \in App : InOnePlace(a, socket[a], inFlight, reports)'
  BY DEF PInv, InOnePlace
<1>4. Reported(inFlight, reports, now)'
  BY DEF PInv, Reported
<1>5. PromptUnlessMissed'
  BY DEF PInv, PromptUnlessMissed
<1> QED
  BY <1>1, <1>2, <1>3, <1>4, <1>5 DEF PInv

(* A disabled application leaves the packet in the buffer. *)
LEMMA KeptPreserves ==
    ASSUME PInv, NEW p \in inFlight, HasRoom(p.to), inFlight' = inFlight \ {p},
           socket' = [socket EXCEPT ![p.to] =
                          Append(socket[p.to], Packet(p.msgID, now))],
           missed' = missed \cup {p.to},
           UNCHANGED <<now, m_active, m_isDeactivated, sent, reports, exited>>
    PROVE  PInv'
<1> DEFINE queue == Append(socket[p.to], Packet(p.msgID, now))
<1>1. /\ p.to \in App /\ queue \in Seq(PacketType)
      /\ Len(queue) \in 1 .. RcvBuf /\ InOrder(queue, sent, now)
      /\ InOnePlace(p.to, queue, inFlight \ {p}, reports)
  BY QueueOfArrival
<1> HIDE DEF queue
<1>2. /\ socket' \in [App -> Seq(PacketType)] /\ socket'[p.to] = queue
      /\ \A a \in App : a # p.to => socket'[a] = socket[a]
  BY <1>1 DEF PInv, TypeOK, PacketType, queue
<1>3. TypeOK'
  <2>1. \A a \in App : Len(socket'[a]) <= RcvBuf
    BY <1>1, <1>2 DEF PInv, TypeOK
  <2> QED
    BY <1>1, <1>2, <2>1 DEF PInv, TypeOK, PacketType
<1>4. ASSUME NEW a \in App
      PROVE  InOrder(socket[a], sent, now)'
  <2>1. InOrder(socket[a], sent, now) /\ InOrder(queue, sent, now)
    BY <1>1, <1>2 DEF PInv
  <2>2. socket'[a] = socket[a] \/ socket'[a] = queue
    BY <1>2
  <2>3. InOrder(socket'[a], sent', now')
    BY <2>1, <2>2
  <2> QED
    BY <2>3 DEF InOrder
<1>5. \A a \in App : InOnePlace(a, socket[a], inFlight, reports)'
  BY <1>1, <1>2 DEF PInv, InOnePlace
<1>6. Reported(inFlight, reports, now)'
  BY DEF PInv, Reported
<1>7. PromptUnlessMissed'
  BY <1>2 DEF PInv, PromptUnlessMissed
<1> QED
  BY <1>3, <1>4, <1>5, <1>6, <1>7 DEF PInv

(* An enabled application takes the oldest packet, and reports it unless   *)
(* its node was removed.                                                   *)
LEMMA TakenPreserves ==
    ASSUME PInv, NEW p \in inFlight, HasRoom(p.to), inFlight' = inFlight \ {p},
           NEW queue, queue = Append(socket[p.to], Packet(p.msgID, now)),
           socket' = [socket EXCEPT ![p.to] = Tail(queue)],
           RecvMsg(p.to, Head(queue)),
           UNCHANGED <<now, m_active, m_isDeactivated, sent, missed, exited>>
    PROVE  PInv'
<1> DEFINE first == Head(queue)
           rest == Tail(queue)
           report == [app |-> p.to, msgID |-> first.msgID,
                      arrived |-> first.arrived, recvTime |-> now]
<1>1. /\ p.to \in App /\ queue \in Seq(PacketType) /\ queue # << >>
      /\ Len(queue) \in 1 .. RcvBuf /\ InOrder(queue, sent, now)
      /\ InOnePlace(p.to, queue, inFlight \ {p}, reports)
      /\ Len(queue) = Len(socket[p.to]) + 1
      /\ socket[p.to] = << >> => queue[1].arrived = now
  BY QueueOfArrival
<1>2. /\ first = queue[1] /\ first \in PacketType
      /\ rest \in Seq(PacketType) /\ Len(rest) = Len(queue) - 1
      /\ \A i \in 1 .. Len(rest) : rest[i] = queue[i + 1] /\ i + 1 \in 1 .. Len(queue)
      /\ InOrder(rest, sent, now)
  BY <1>1, TailKeeps
<1>3. reports' = reports \/ reports' = reports \cup {report}
  BY DEF RecvMsg
<1>4. /\ first.arrived \in Nat /\ first.arrived <= now /\ now \in Nat
      /\ first.msgID \in sent /\ first.msgID \in MsgId
      /\ [msgID |-> first.msgID, to |-> p.to] \notin inFlight'
      /\ \A r \in reports :
            r.app = p.to => r.msgID # first.msgID /\ r.arrived <= first.arrived
      /\ \A i \in 1 .. Len(rest) :
            first.msgID # rest[i].msgID /\ first.arrived <= rest[i].arrived
  <2>1. 1 \in 1 .. Len(queue) /\ \A i \in 1 .. Len(rest) : 1 < i + 1
    BY <1>1, <1>2
  <2>2. /\ first.arrived \in Nat /\ first.msgID \in MsgId /\ now \in Nat
    BY <1>2, MaxTimeAssumption DEF PInv, TypeOK, PacketType
  <2>3. first.arrived <= now /\ first.msgID \in sent
    BY <1>1, <1>2, <2>1 DEF InOrder
  <2>4. /\ [msgID |-> first.msgID, to |-> p.to] \notin inFlight'
        /\ \A r \in reports :
              r.app = p.to => r.msgID # first.msgID /\ r.arrived <= first.arrived
    BY <1>1, <1>2, <2>1 DEF InOnePlace
  <2>5. \A i \in 1 .. Len(rest) :
            first.msgID # rest[i].msgID /\ first.arrived <= rest[i].arrived
    <3>1. \A j \in 1 .. Len(queue) :
              1 < j => queue[1].msgID # queue[j].msgID
                       /\ queue[1].arrived <= queue[j].arrived
      BY <1>1, <2>1 DEF InOrder
    <3> HIDE DEF first, rest
    <3> QED
      BY <1>2, <2>1, <3>1
  <2> HIDE DEF first, rest
  <2> QED
    BY <2>2, <2>3, <2>4, <2>5
<1>5. /\ report \in ReportType /\ report.app = p.to
      /\ report.msgID = first.msgID /\ report.arrived = first.arrived
      /\ report.recvTime = now
  BY <1>1, <1>4 DEF ReportType
<1>6. /\ socket' \in [App -> Seq(PacketType)] /\ socket'[p.to] = rest
      /\ \A a \in App : a # p.to => socket'[a] = socket[a]
  BY <1>1, <1>2 DEF PInv, TypeOK, PacketType
<1> HIDE DEF first, rest, report
<1>7. TypeOK'
  <2>1. \A a \in App : Len(socket'[a]) <= RcvBuf
    BY <1>1, <1>2, <1>6, RcvBufAssumption DEF PInv, TypeOK
  <2>2. reports' \subseteq ReportType
    BY <1>3, <1>5 DEF PInv, TypeOK, ReportType
  <2> QED
    BY <1>6, <2>1, <2>2 DEF PInv, TypeOK, PacketType, ReportType
<1>8. ASSUME NEW a \in App
      PROVE  InOrder(socket[a], sent, now)'
  <2>1. InOrder(socket[a], sent, now) /\ InOrder(rest, sent, now)
    BY <1>1, <1>2 DEF PInv
  <2>2. socket'[a] = socket[a] \/ socket'[a] = rest
    BY <1>2, <1>6
  <2>3. InOrder(socket'[a], sent', now')
    BY <2>1, <2>2
  <2> QED
    BY <2>3 DEF InOrder
<1>9. ASSUME NEW a \in App
      PROVE  InOnePlace(a, socket[a], inFlight, reports)'
  <2>1. CASE a = p.to
    <3>1. InOnePlace(p.to, rest, inFlight', reports)
      BY <1>1, <1>2 DEF InOnePlace
    <3>2. \A i \in 1 .. Len(rest) :
              report.msgID # rest[i].msgID /\ report.arrived <= rest[i].arrived
      BY <1>4, <1>5
    <3>3. InOnePlace(p.to, rest, inFlight', reports')
      BY <1>3, <3>1, <3>2 DEF InOnePlace
    <3>4. socket'[a] = rest
      BY <1>6, <2>1
    <3> HIDE DEF rest
    <3> QED
      BY <2>1, <3>3, <3>4 DEF InOnePlace
  <2>2. CASE a # p.to
    BY <1>3, <1>5, <1>6, <2>2 DEF PInv, InOnePlace
  <2> QED
    BY <2>1, <2>2
<1>10. Reported(inFlight, reports, now)'
  <2>1. Reported(inFlight', reports, now)
    BY DEF PInv, Reported
  <2>2. ASSUME NEW r \in reports, r.app = p.to
        PROVE  r.msgID # report.msgID /\ r.arrived <= report.arrived
               /\ ~ (report.arrived < r.arrived)
    BY <1>4, <1>5, <2>2 DEF PInv, TypeOK
  <2>3. ASSUME reports' = reports \cup {report}
        PROVE  Reported(inFlight', reports', now)
    <3> SUFFICES ASSUME NEW r \in reports'
                 PROVE  /\ r.msgID \in sent /\ r.arrived <= r.recvTime /\ r.recvTime <= now
                        /\ [msgID |-> r.msgID, to |-> r.app] \notin inFlight'
                        /\ \A s \in reports' : s.app = r.app /\ s.msgID = r.msgID => s = r
                        /\ \A s \in reports' :
                              s.app = r.app /\ s.arrived < r.arrived =>
                                  s.recvTime <= r.recvTime
      BY DEF Reported
    <3>1. CASE r = report
      <4>1. r.msgID \in sent /\ r.arrived <= r.recvTime /\ r.recvTime <= now
        BY <1>4, <1>5, <3>1
      <4>2. [msgID |-> r.msgID, to |-> r.app] \notin inFlight'
        BY <1>4, <1>5, <3>1
      <4>3. \A s \in reports' : s.app = r.app /\ s.msgID = r.msgID => s = r
        BY <1>5, <2>2, <2>3, <3>1
      <4>4. ASSUME NEW s \in reports'
            PROVE  s.recvTime <= r.recvTime
        <5>1. CASE s = report
          BY <1>4, <1>5, <3>1, <5>1
        <5>2. CASE s \in reports
          BY <1>5, <2>1, <3>1, <5>2 DEF Reported
        <5> QED
          BY <2>3, <5>1, <5>2
      <4> QED
        BY <4>1, <4>2, <4>3, <4>4
    <3>2. CASE r \in reports
      <4>1. \A s \in reports' : s.app = r.app /\ s.msgID = r.msgID => s = r
        BY <1>5, <2>1, <2>2, <2>3, <3>2 DEF Reported
      <4>2. \A s \in reports' :
                s.app = r.app /\ s.arrived < r.arrived => s.recvTime <= r.recvTime
        BY <1>5, <2>1, <2>2, <2>3, <3>2 DEF Reported
      <4> QED
        BY <2>1, <3>2, <4>1, <4>2 DEF Reported
    <3> QED
      BY <2>3, <3>1, <3>2
  <2> QED
    BY <1>3, <2>1, <2>3 DEF Reported
<1>11. PromptUnlessMissed'
  <2> SUFFICES ASSUME NEW a \in App \ missed
               PROVE  /\ socket'[a] = << >>
                      /\ \A r \in reports' : r.app = a => r.recvTime = r.arrived
    BY DEF PromptUnlessMissed
  <2>1. /\ socket[a] = << >>
        /\ \A r \in reports : r.app = a => r.recvTime = r.arrived
    BY DEF PInv, PromptUnlessMissed
  <2>2. CASE a = p.to
    <3>1. Len(rest) = 0 /\ first.arrived = now
      BY <1>1, <1>2, <2>1, <2>2, EmptySeq
    <3>2. rest = << >>
      BY <1>2, <3>1, EmptySeq
    <3> QED
      BY <1>3, <1>5, <1>6, <2>1, <2>2, <3>1, <3>2
  <2>3. CASE a # p.to
    BY <1>3, <1>5, <1>6, <2>1, <2>3
  <2> QED
    BY <2>2, <2>3
<1>12. \A q \in inFlight' : q.msgID \in sent'
  BY DEF PInv
<1> QED
  BY <1>7, <1>8, <1>9, <1>10, <1>11, <1>12 DEF PInv

-----------------------------------------------------------------------------
(* Every step preserves the invariant and reports nothing that came to a   *)
(* removed node.                                                           *)
LEMMA NextPreserves ==
    ASSUME PInv, [Next]_vars
    PROVE  PInv' /\ [NoneFromRemoved]_vars
<1> DEFINE Good == PInv' /\ NoneFromRemoved
<1>0. now \in 0 .. MaxTime /\ now \in Nat
  BY MaxTimeAssumption DEF PInv, TypeOK
<1>1. CASE UNCHANGED vars
  <2>1. TypeOK'
    BY <1>1 DEF PInv, TypeOK, vars
  <2>2. PInv'
    BY <1>0, <1>1, <2>1, QuietPreserves DEF vars
  <2> QED
    BY <1>1, <2>2
<1>2. ASSUME UNCHANGED reports
      PROVE  NoneFromRemoved
  BY <1>2 DEF NoneFromRemoved
<1>3. ASSUME Tick
      PROVE  Good
  <2>1. now' \in 0 .. MaxTime /\ now <= now'
    BY <1>0, <1>3, MaxTimeAssumption DEF Tick
  <2>2. TypeOK'
    BY <1>3, <2>1 DEF PInv, TypeOK, Tick
  <2> QED
    BY <1>2, <1>3, <2>1, <2>2, QuietPreserves DEF Tick
<1>4. ASSUME NEW a \in App, Enable(a) \/ RemoveNode(a) \/ SendFails(a)
      PROVE  Good
  <2>1. UNCHANGED <<now, sent, inFlight, socket, reports, missed>>
    BY <1>4 DEF Enable, RemoveNode, SendFails
  <2>2. TypeOK'
    <3>1. (m_active \cup m_isDeactivated \cup missed \subseteq App)' /\ exited' \in BOOLEAN
      BY <1>4 DEF PInv, TypeOK, Enable, RemoveNode, SendFails
    <3> QED
      BY <2>1, <3>1 DEF PInv, TypeOK
  <2>3. PInv'
    BY <1>0, <2>1, <2>2, QuietPreserves
  <2> QED
    BY <1>2, <2>1, <2>3
<1>5. ASSUME NEW a \in App, NEW id \in MsgId, TransmitPacket(a, id)
      PROVE  Good
  BY <1>2, <1>5, TransmitPreserves DEF TransmitPacket
<1>6. ASSUME NEW p \in inFlight, Lose(p)
      PROVE  Good
  BY <1>2, <1>6, LossPreserves DEF Lose
<1>7. ASSUME NEW p \in inFlight, Arrive(p)
      PROVE  Good
  <2> DEFINE queue == Append(socket[p.to], Packet(p.msgID, now))
  <2>1. /\ inFlight' = inFlight \ {p}
        /\ UNCHANGED <<now, m_active, m_isDeactivated, sent, exited>>
    BY <1>7 DEF Arrive
  <2>2. CASE ~ HasRoom(p.to)
    <3>1. UNCHANGED <<socket, reports, missed>>
      BY <1>7, <2>2 DEF Arrive
    <3>2. PInv'
      BY <2>1, <3>1, LossPreserves
    <3> QED
      BY <1>2, <3>1, <3>2
  <2>3. CASE HasRoom(p.to) /\ p.to \notin m_active
    <3>1. /\ socket' = [socket EXCEPT ![p.to] = queue]
          /\ missed' = missed \cup {p.to} /\ UNCHANGED reports
      BY <1>7, <2>3 DEF Arrive, Receive
    <3>2. PInv'
      BY <2>1, <2>3, <3>1, KeptPreserves
    <3> QED
      BY <1>2, <3>1, <3>2
  <2>4. CASE HasRoom(p.to) /\ p.to \in m_active
    <3>1. /\ socket' = [socket EXCEPT ![p.to] = Tail(queue)]
          /\ RecvMsg(p.to, Head(queue)) /\ UNCHANGED missed
      BY <1>7, <2>4 DEF Arrive, Receive
    <3>2. PInv'
      BY <2>1, <2>4, <3>1, TakenPreserves
    <3> HIDE DEF queue
    <3>3. NoneFromRemoved
      BY <3>1 DEF RecvMsg, NoneFromRemoved
    <3> QED
      BY <3>2, <3>3
  <2> QED
    BY <2>2, <2>3, <2>4
<1> QED
  BY <1>1, <1>3, <1>4, <1>5, <1>6, <1>7 DEF Next

(* The invariant holds in every reachable state. *)
THEOREM ProxiesInvariant == Spec => []PInv
<1>1. Init => PInv
  BY PInvInit
<1>2. PInv /\ [Next]_vars => PInv'
  BY NextPreserves
<1> QED
  BY <1>1, <1>2, PTL DEF Spec

(* No receive buffer holds more packets than ns-3 gave it room for, and    *)
(* every reported time is one of the simulation.                           *)
THEOREM TypesOfTheProxies == Spec => []TypeOK
BY ProxiesInvariant, PTL DEF PInv

(* A message is reported at most once per receiver, whenever the           *)
(* application was enabled, disabled or removed.                           *)
THEOREM NothingIsReportedTwice == Spec => []ReportedOnce
<1>1. PInv => ReportedOnce
  BY PInvSuffices
<1> QED
  BY <1>1, ProxiesInvariant, PTL

(* Disabling an application does not reorder what it reports. *)
THEOREM ReportsAreInOrder == Spec => []ReportedInOrder
<1>1. PInv => ReportedInOrder
  BY PInvSuffices
<1> QED
  BY <1>1, ProxiesInvariant, PTL

(* An application that never missed a call reports at the time of arrival. *)
THEOREM DelayNeedsAMissedCall == Spec => []PromptUnlessMissed
BY ProxiesInvariant, PTL DEF PInv

(* MOSAIC hears nothing of what comes to a removed node. *)
THEOREM RemovedNodesAreSilent == Spec => RemovedStaysSilent
<1>1. PInv /\ [Next]_vars => [NoneFromRemoved]_vars
  BY NextPreserves
<1> QED
  BY <1>1, ProxiesInvariant, PTL DEF Spec, RemovedStaysSilent
====================================================================================
