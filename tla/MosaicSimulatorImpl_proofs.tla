----------------------- MODULE MosaicSimulatorImpl_proofs -----------------------
(***************************************************************************)
(* What each operation of the event kernel does to the kernel invariant.   *)
(* The lemmas are about single operations, for every set of EventImpl      *)
(* objects and every width of m_uid: a module that composes the kernel     *)
(* with callers cites them for the steps in which the callers use it.      *)
(***************************************************************************)
EXTENDS MosaicSimulatorImpl, FiniteSetTheorems, SequenceTheorems, TLAPS

(***************************************************************************)
(* Erasing one entry of a list leaves a list of the same type, and no      *)
(* element that was not in it before.                                      *)
(***************************************************************************)
LEMMA RemoveAtProperties ==
    ASSUME NEW S, NEW list \in Seq(S), NEW i \in DOMAIN list
    PROVE  /\ Lists!RemoveAt(list, i) \in Seq(S)
           /\ \A k \in DOMAIN Lists!RemoveAt(list, i) :
                 \E j \in DOMAIN list : list[j] = Lists!RemoveAt(list, i)[k]
<1> DEFINE front == SubSeq(list, 1, i - 1)
           back == SubSeq(list, i + 1, Len(list))
           n == Len(list)
<1>1. n \in Nat /\ DOMAIN list = 1 .. n /\ i \in 1 .. n
  BY LenProperties
<1>2. /\ front \in Seq(S)
      /\ Len(front) = i - 1
      /\ \A k \in 1 .. i - 1 : front[k] = list[k]
  <2>1. \A k \in 1 .. i - 1 : list[k] \in S
    BY <1>1, ElementOfSeq
  <2> QED BY <1>1, <2>1, SubSeqProperties
<1>3. /\ back \in Seq(S)
      /\ Len(back) = n - i
      /\ \A k \in 1 .. n - i : back[k] = list[k + i]
  <2>1. \A k \in i + 1 .. n : list[k] \in S
    BY <1>1, ElementOfSeq
  <2> QED BY <1>1, <2>1, SubSeqProperties
<1>4. Lists!RemoveAt(list, i) = front \o back
  BY DEF Lists!RemoveAt
<1> HIDE DEF front, back, n
<1>5. /\ front \o back \in Seq(S)
      /\ Len(front \o back) = Len(front) + Len(back)
      /\ \A k \in 1 .. Len(front) + Len(back) :
            (front \o back)[k] = IF k <= Len(front) THEN front[k]
                                 ELSE back[k - Len(front)]
  BY <1>2, <1>3, ConcatProperties, Zenon
<1>6. Len(front) + Len(back) = n - 1
  BY <1>1, <1>2, <1>3
<1>7. ASSUME NEW k \in 1 .. n - 1
      PROVE  \E j \in 1 .. n : list[j] = (front \o back)[k]
  <2>1. CASE k <= i - 1
    <3>1. k \in 1 .. i - 1 /\ k \in 1 .. n
      BY <1>1, <2>1
    <3>2. (front \o back)[k] = front[k]
      BY <1>1, <1>2, <1>5, <1>6, <2>1
    <3> QED BY <1>2, <3>1, <3>2
  <2>2. CASE ~ (k <= i - 1)
    <3>1. k - (i - 1) \in 1 .. n - i /\ k + 1 \in 1 .. n
      BY <1>1, <2>2
    <3>2. (front \o back)[k] = back[k - (i - 1)]
      BY <1>1, <1>2, <1>5, <1>6, <2>2
    <3>3. back[k - (i - 1)] = list[(k - (i - 1)) + i]
      BY <1>3, <3>1
    <3>4. (k - (i - 1)) + i = k + 1
      BY <1>1
    <3> QED BY <3>1, <3>2, <3>3, <3>4
  <2> QED BY <2>1, <2>2
<1>8. DOMAIN (front \o back) = 1 .. n - 1
  BY <1>5, <1>6, LenProperties
<1> QED BY <1>1, <1>4, <1>5, <1>7, <1>8

(***************************************************************************)
(* The initial state of the constructor.                                   *)
(***************************************************************************)
LEMMA KernelInit == SimInit => KernelInv
<1> SUFFICES ASSUME SimInit PROVE KernelInv
  OBVIOUS
<1>1. KernelTypeOK
  <2>1. << >> \in Seq(EventId)
    BY EmptySeq
  <2>2. 0 \in Uid /\ FirstUid \in Uid
    BY UidModulusAssumption DEF Uid, FirstUid
  <2>3. m_unscheduledEvents \in Int /\ m_currentTs \in Nat
    BY DEF SimInit
  <2> QED
    BY <2>1, <2>2, <2>3 DEF SimInit, KernelTypeOK
<1>2. IsFiniteSet(m_events) /\ CountExact
  BY FS_EmptySet DEF SimInit, CountExact
<1>3. PendingAreLater /\ ReservedUidsUnused /\ UidsAllocated
  BY DEF SimInit, PendingAreLater, ReservedUidsUnused, UidsAllocated, FirstUid
<1> QED BY <1>1, <1>2, <1>3 DEF KernelInv

(***************************************************************************)
(* Schedule, ScheduleWithContext and ScheduleNow, as long as m_uid does    *)
(* not wrap and the delay is not negative.                                 *)
(***************************************************************************)
LEMMA NoWrap ==
    ASSUME KernelTypeOK, m_uid' = NextUid(m_uid), m_uid <= m_uid'
    PROVE  m_uid' = m_uid + 1 /\ m_uid' \in Uid
BY UidModulusAssumption DEF KernelTypeOK, Uid, NextUid

LEMMA NewEventProperties ==
    ASSUME KernelInv, NEW delay \in Nat, NEW impl \in Impl
    PROVE  /\ NewEvent(delay, impl) \in EventId
           /\ NewEvent(delay, impl).uid = m_uid
           /\ NewEvent(delay, impl).ts = m_currentTs + delay
           /\ NewEvent(delay, impl).impl = impl
           /\ NewEvent(delay, impl) \notin m_events
           /\ LaterThanCurrent(NewEvent(delay, impl))
<1> DEFINE new == NewEvent(delay, impl)
<1>1. /\ m_currentTs \in Nat
      /\ m_currentUid \in Nat
      /\ m_uid \in Uid
      /\ m_uid \in Nat
      /\ m_currentUid < m_uid
  BY DEF KernelInv, KernelTypeOK, UidsAllocated, Uid
<1>2. /\ new.uid = m_uid
      /\ new.ts = m_currentTs + delay
      /\ new.impl = impl
      /\ new \in EventId
  BY <1>1 DEF NewEvent, EventId
<1>3. new \notin m_events
  BY <1>1, <1>2 DEF KernelInv, UidsAllocated
<1>4. LaterThanCurrent(new)
  BY <1>1, <1>2 DEF LaterThanCurrent
<1> QED BY <1>2, <1>3, <1>4

LEMMA InsertKeeps ==
    ASSUME KernelInv, NEW delay \in Nat, NEW impl \in Impl,
           Insert(delay, impl), m_uid <= m_uid'
    PROVE  KernelInv'
<1> DEFINE new == NewEvent(delay, impl)
<1>1. /\ new \in EventId
      /\ new.uid = m_uid
      /\ new \notin m_events
      /\ LaterThanCurrent(new)
  BY NewEventProperties
<1> HIDE DEF new
<1>2. /\ m_events' = m_events \cup {new}
      /\ m_unscheduledEvents' = m_unscheduledEvents + 1
      /\ cancelled' = cancelled \ {impl}
      /\ m_currentTs' = m_currentTs
      /\ m_currentUid' = m_currentUid
      /\ m_stop' = m_stop
      /\ m_destroyEvents' = m_destroyEvents
      /\ m_uid' = NextUid(m_uid)
  BY DEF Insert, new
<1>3. m_uid' = m_uid + 1 /\ m_uid' \in Uid
  BY <1>2, NoWrap DEF KernelInv
<1>4. m_uid \in Nat /\ FirstUid <= m_uid /\ m_currentUid \in Nat
      /\ \A e \in m_events : e.uid \in Nat /\ e.uid < m_uid
  BY DEF KernelInv, KernelTypeOK, UidsAllocated, Uid, EventId
<1>5. KernelTypeOK'
  BY <1>1, <1>2, <1>3 DEF KernelInv, KernelTypeOK
<1>6. PendingAreLater'
  BY <1>1, <1>2 DEF KernelInv, PendingAreLater, LaterThanCurrent
<1>7. ReservedUidsUnused'
  BY <1>1, <1>2, <1>4 DEF KernelInv, ReservedUidsUnused
<1>8. UidsAllocated'
  <2>1. FirstUid <= m_uid' /\ m_currentUid' < m_uid'
    BY <1>2, <1>3, <1>4 DEF KernelInv, UidsAllocated, FirstUid
  <2>2. \A e \in m_events' : e.uid < m_uid'
    BY <1>1, <1>2, <1>3, <1>4
  <2>3. \A e, f \in m_events' : e.uid = f.uid => e = f
    BY <1>1, <1>2, <1>4 DEF KernelInv, UidsAllocated
  <2> QED BY <2>1, <2>2, <2>3 DEF UidsAllocated
<1>9. IsFiniteSet(m_events)' /\ CountExact'
  <2>1. IsFiniteSet(m_events) /\ m_unscheduledEvents = Cardinality(m_events)
    BY DEF KernelInv, CountExact
  <2>2. /\ IsFiniteSet(m_events \cup {new})
        /\ Cardinality(m_events \cup {new}) = Cardinality(m_events) + 1
    BY <1>1, <2>1, FS_AddElement
  <2> QED BY <1>2, <2>1, <2>2 DEF CountExact
<1> QED BY <1>5, <1>6, <1>7, <1>8, <1>9 DEF KernelInv

(***************************************************************************)
(* ScheduleDestroy takes a uid too.                                        *)
(***************************************************************************)
LEMMA ScheduleDestroyKeeps ==
    ASSUME KernelInv, NEW impl \in Impl, ScheduleDestroy(impl), m_uid <= m_uid'
    PROVE  KernelInv'
<1>1. m_uid' = m_uid + 1 /\ m_uid' \in Uid
  BY NoWrap DEF KernelInv, ScheduleDestroy
<1>2. NewDestroyEvent(impl) \in EventId
  BY UidModulusAssumption
     DEF NewDestroyEvent, EventId, Uid, DestroyUid, KernelInv, KernelTypeOK
<1>3. m_destroyEvents' \in Seq(EventId)
  BY <1>2 DEF ScheduleDestroy, KernelInv, KernelTypeOK
<1>4. KernelTypeOK'
  BY <1>1, <1>3 DEF ScheduleDestroy, KernelInv, KernelTypeOK
<1>5. PendingAreLater' /\ ReservedUidsUnused' /\ IsFiniteSet(m_events)' /\ CountExact'
  BY DEF ScheduleDestroy, KernelInv, PendingAreLater, LaterThanCurrent,
         ReservedUidsUnused, CountExact
<1>6. UidsAllocated'
  BY <1>1 DEF ScheduleDestroy, KernelInv, KernelTypeOK, UidsAllocated, Uid,
              FirstUid, EventId
<1> QED BY <1>4, <1>5, <1>6 DEF KernelInv

(***************************************************************************)
(* Executing the next event: every event left comes after it, and the key  *)
(* of the current event grows.                                             *)
(***************************************************************************)
LEMMA RestIsLater ==
    ASSUME KernelInv, NEW e, IsNext(e), NEW f \in m_events \ {e}
    PROVE  Before(e, f)
<1>1. /\ e \in m_events /\ f \in m_events /\ e # f
      /\ e.ts \in Nat /\ f.ts \in Nat /\ e.uid \in Nat /\ f.uid \in Nat
      /\ e.uid # f.uid
      /\ ~ Before(f, e)
  BY DEF IsNext, KernelInv, KernelTypeOK, UidsAllocated, EventId, Uid
<1> QED BY <1>1 DEF Before

LEMMA ProcessKeeps ==
    ASSUME KernelInv, NEW e, ProcessOneEvent(e)
    PROVE  /\ KernelInv'
           /\ e \in m_events
           /\ LaterThanCurrent(e)
<1>1. /\ IsNext(e) /\ e \in m_events /\ e \in EventId
      /\ m_events' = m_events \ {e}
      /\ m_unscheduledEvents' = m_unscheduledEvents - 1
      /\ m_currentTs' = e.ts
      /\ m_currentUid' = e.uid
      /\ m_uid' = m_uid
      /\ UNCHANGED <<m_stop, m_destroyEvents, cancelled>>
  BY DEF ProcessOneEvent, IsNext, KernelInv, KernelTypeOK
<1>2. LaterThanCurrent(e)
  BY <1>1 DEF KernelInv, PendingAreLater
<1>3. KernelTypeOK'
  BY <1>1 DEF KernelInv, KernelTypeOK, EventId
<1>4. PendingAreLater'
  BY <1>1, RestIsLater DEF PendingAreLater, LaterThanCurrent, Before
<1>5. ReservedUidsUnused' /\ UidsAllocated'
  BY <1>1 DEF KernelInv, ReservedUidsUnused, UidsAllocated
<1>6. IsFiniteSet(m_events)' /\ CountExact'
  <2>1. IsFiniteSet(m_events) /\ m_unscheduledEvents = Cardinality(m_events)
    BY DEF KernelInv, CountExact
  <2>2. /\ IsFiniteSet(m_events \ {e})
        /\ Cardinality(m_events \ {e}) = Cardinality(m_events) - 1
    BY <1>1, <2>1, FS_RemoveElement
  <2> QED BY <1>1, <2>1, <2>2 DEF CountExact
<1> QED BY <1>1, <1>2, <1>3, <1>4, <1>5, <1>6 DEF KernelInv

(***************************************************************************)
(* Removing a pending event.                                               *)
(***************************************************************************)
LEMMA RemovePendingKeeps ==
    ASSUME KernelInv, NEW id \in m_events, RemovePendingEvent(id)
    PROVE  KernelInv'
<1>1. /\ id \in EventId
      /\ m_events' = m_events \ {id}
      /\ cancelled' = cancelled \cup {id.impl}
      /\ m_unscheduledEvents' = m_unscheduledEvents - 1
      /\ UNCHANGED <<m_currentTs, m_currentUid, m_uid, m_stop, m_destroyEvents>>
  BY DEF RemovePendingEvent, KernelInv, KernelTypeOK
<1>2. KernelTypeOK'
  BY <1>1 DEF KernelInv, KernelTypeOK, EventId
<1>3. PendingAreLater' /\ ReservedUidsUnused' /\ UidsAllocated'
  BY <1>1 DEF KernelInv, PendingAreLater, LaterThanCurrent, ReservedUidsUnused,
              UidsAllocated
<1>4. IsFiniteSet(m_events)' /\ CountExact'
  <2>1. IsFiniteSet(m_events) /\ m_unscheduledEvents = Cardinality(m_events)
    BY DEF KernelInv, CountExact
  <2>2. /\ IsFiniteSet(m_events \ {id})
        /\ Cardinality(m_events \ {id}) = Cardinality(m_events) - 1
    BY <2>1, FS_RemoveElement
  <2> QED BY <1>1, <2>1, <2>2 DEF CountExact
<1> QED BY <1>2, <1>3, <1>4 DEF KernelInv

(***************************************************************************)
(* The operations that leave the scheduler and the clock alone.            *)
(***************************************************************************)
LEMMA KernelFrame ==
    ASSUME KernelInv, KernelTypeOK',
           UNCHANGED <<m_events, m_currentTs, m_currentUid, m_uid,
                       m_unscheduledEvents>>
    PROVE  KernelInv'
BY DEF KernelInv, PendingAreLater, LaterThanCurrent, ReservedUidsUnused,
       UidsAllocated, CountExact

LEMMA RemoveDestroyKeeps ==
    ASSUME KernelInv, NEW id, RemoveDestroyEvent(id)
    PROVE  /\ KernelInv'
           /\ \A other : InDestroyList(other)' => InDestroyList(other)
<1>1. PICK i \in DOMAIN m_destroyEvents :
            m_destroyEvents' = Lists!RemoveAt(m_destroyEvents, i)
  BY DEF RemoveDestroyEvent
<1>2. m_destroyEvents \in Seq(EventId)
  BY DEF KernelInv, KernelTypeOK
<1>3. /\ m_destroyEvents' \in Seq(EventId)
      /\ \A k \in DOMAIN m_destroyEvents' :
            \E j \in DOMAIN m_destroyEvents : m_destroyEvents[j] = m_destroyEvents'[k]
  BY <1>1, <1>2, RemoveAtProperties
<1>4. KernelTypeOK'
  BY <1>3 DEF RemoveDestroyEvent, KernelInv, KernelTypeOK
<1>5. KernelInv'
  BY <1>4, KernelFrame DEF RemoveDestroyEvent
<1> QED BY <1>3, <1>5 DEF InDestroyList

LEMMA DestroyNextKeeps ==
    ASSUME KernelInv, DestroyNext
    PROVE  /\ KernelInv'
           /\ \A other : InDestroyList(other)' => InDestroyList(other)
<1>1. m_destroyEvents \in Seq(EventId) /\ m_destroyEvents # << >>
  BY DEF KernelInv, KernelTypeOK, DestroyNext
<1>2. /\ m_destroyEvents' \in Seq(EventId)
      /\ Len(m_destroyEvents') = Len(m_destroyEvents) - 1
      /\ \A k \in 1 .. Len(m_destroyEvents') :
            m_destroyEvents'[k] = m_destroyEvents[k + 1]
  BY <1>1, HeadTailProperties DEF DestroyNext
<1>3. KernelTypeOK'
  BY <1>2 DEF DestroyNext, KernelInv, KernelTypeOK
<1>4. KernelInv'
  BY <1>3, KernelFrame DEF DestroyNext
<1>5. ASSUME NEW k \in DOMAIN m_destroyEvents'
      PROVE  \E j \in DOMAIN m_destroyEvents :
                m_destroyEvents[j] = m_destroyEvents'[k]
  <2>1. /\ DOMAIN m_destroyEvents = 1 .. Len(m_destroyEvents)
        /\ DOMAIN m_destroyEvents' = 1 .. Len(m_destroyEvents')
        /\ Len(m_destroyEvents) \in Nat
    BY <1>1, <1>2, LenProperties
  <2>2. k + 1 \in DOMAIN m_destroyEvents
    BY <1>2, <2>1
  <2> QED BY <1>2, <2>1, <2>2
<1> QED BY <1>4, <1>5 DEF InDestroyList

LEMMA CancelKeeps ==
    ASSUME KernelInv, NEW id \in EventId, Cancel(id)
    PROVE  KernelInv'
<1>1. KernelTypeOK'
  BY DEF Cancel, KernelInv, KernelTypeOK, EventId
<1> QED BY <1>1, KernelFrame DEF Cancel

LEMMA SetStopKeeps ==
    ASSUME KernelInv, NEW value \in BOOLEAN, SetStop(value)
    PROVE  KernelInv'
<1>1. KernelTypeOK'
  BY DEF SetStop, KernelInv, KernelTypeOK
<1> QED BY <1>1, KernelFrame DEF SetStop

LEMMA KernelStutters ==
    ASSUME KernelInv, UNCHANGED simVars
    PROVE  KernelInv'
<1>1. KernelTypeOK'
  BY DEF simVars, KernelInv, KernelTypeOK
<1> QED BY <1>1, KernelFrame DEF simVars
===============================================================================
