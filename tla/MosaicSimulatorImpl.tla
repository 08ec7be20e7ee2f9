-------------------------- MODULE MosaicSimulatorImpl --------------------------
(***************************************************************************)
(* The event kernel of src/mosaic-simulator-impl.cc: the state of class    *)
(* MosaicSimulatorImpl and one operator per method that changes it.        *)
(*                                                                         *)
(* The module has no Init/Next of its own.  SimulatorUse composes it with  *)
(* arbitrary callers, MosaicNs3Bridge with the command loop of the         *)
(* federate; the second also adds the call of writeNextTime that Schedule  *)
(* and ScheduleWithContext end with.                                       *)
(*                                                                         *)
(* Abstracted: the context (m_currentContext, a value no method tests) and *)
(* m_eventCount (a statistic).  An EventImpl is the model value `impl`;    *)
(* its m_cancel flag is membership in `cancelled`.  Time is a natural      *)
(* number of nanoseconds.  m_uid keeps its width: it is a uint32_t, and    *)
(* UidModulus is 2^32 in the code.                                         *)
(***************************************************************************)
EXTENDS Integers, Sequences, FiniteSets

Lists == INSTANCE SequencesExt

CONSTANTS Impl,         \* the EventImpl objects
          UidModulus    \* number of values of m_uid

ASSUME UidModulusAssumption == UidModulus \in Nat /\ UidModulus > 4

VARIABLES m_events,             \* the scheduler: the set of pending events
          m_currentTs,          \* simulation time
          m_currentUid,         \* uid of the event executed last
          m_uid,                \* next uid to allocate
          m_unscheduledEvents,  \* events inserted and not yet executed
          m_stop,
          m_destroyEvents,      \* EventIds to invoke in Destroy()
          cancelled             \* EventImpls whose Cancel() was called

simVars == <<m_events, m_currentTs, m_currentUid, m_uid,
             m_unscheduledEvents, m_stop, m_destroyEvents, cancelled>>

(***************************************************************************)
(* Uids 0, 1 and 2 are reserved: invalid, "now" and "destroy" events.      *)
(***************************************************************************)
FirstUid == 4
DestroyUid == 2

Uid == 0 .. UidModulus - 1

(* Scheduler::Event and EventId carry the same key and the same impl. *)
EventId == [ts : Nat, uid : Uid, impl : Impl]

SimInit ==
    /\ m_events = {}
    /\ m_currentTs = 0
    /\ m_currentUid = 0
    /\ m_uid = FirstUid
    /\ m_unscheduledEvents = 0
    /\ m_stop = FALSE
    /\ m_destroyEvents = << >>
    /\ cancelled = {}

(* Mutants: keys compared by time alone; the newest event of a time first. *)
Before_TimeOnly(e, f) == e.ts < f.ts
Before_NewestFirst(e, f) == e.ts < f.ts \/ (e.ts = f.ts /\ e.uid > f.uid)

(***************************************************************************)
(* Scheduler::EventKey::operator<, and the event PeekNext returns.  Among  *)
(* events of one key (possible once m_uid has wrapped) any may come first. *)
(***************************************************************************)
Before(e, f) == e.ts < f.ts \/ (e.ts = f.ts /\ e.uid < f.uid)

IsNext(e) == e \in m_events /\ \A f \in m_events : ~ Before(f, e)

IsFinished == m_events = {} \/ m_stop

(* NextTs() <= time, on a scheduler that is not empty *)
NextIsBy(time) == \E e \in m_events : IsNext(e) /\ e.ts <= time

(* Mutant: m_uid wider than the uid of an event. *)
NextUid_Wide(uid) == uid + 1

(* m_uid++ on a uint32_t *)
NextUid(uid) == IF uid + 1 = UidModulus THEN 0 ELSE uid + 1

(* The EventId that Schedule(delay, impl) inserts and returns. *)
NewEvent(delay, impl) ==
    [ts |-> m_currentTs + delay, uid |-> m_uid, impl |-> impl]

(***************************************************************************)
(* Schedule and ScheduleWithContext; ScheduleNow is the case delay = 0.    *)
(* A fresh EventImpl is not cancelled.                                     *)
(***************************************************************************)
Insert(delay, impl) ==
    /\ m_events' = m_events \cup {NewEvent(delay, impl)}
    /\ m_uid' = NextUid(m_uid)
    /\ m_unscheduledEvents' = m_unscheduledEvents + 1
    /\ cancelled' = cancelled \ {impl}
    /\ UNCHANGED <<m_currentTs, m_currentUid, m_stop, m_destroyEvents>>

NewDestroyEvent(impl) ==
    [ts |-> m_currentTs, uid |-> DestroyUid, impl |-> impl]

ScheduleDestroy(impl) ==
    /\ m_destroyEvents' = Append(m_destroyEvents, NewDestroyEvent(impl))
    /\ m_uid' = NextUid(m_uid)
    /\ cancelled' = cancelled \ {impl}
    /\ UNCHANGED <<m_events, m_currentTs, m_currentUid,
                   m_unscheduledEvents, m_stop>>

(***************************************************************************)
(* ProcessOneEvent up to the call of Invoke(): what the callback does is   *)
(* the business of the composing module, in the steps that follow.         *)
(***************************************************************************)
ProcessOneEvent(e) ==
    /\ IsNext(e)
    /\ m_events' = m_events \ {e}
    /\ m_unscheduledEvents' = m_unscheduledEvents - 1
    /\ m_currentTs' = e.ts
    /\ m_currentUid' = e.uid
    /\ UNCHANGED <<m_uid, m_stop, m_destroyEvents, cancelled>>

InDestroyList(id) ==
    \E i \in DOMAIN m_destroyEvents : m_destroyEvents[i] = id

(* Mutant: the event being executed is not expired. *)
IsExpired_Strict(id) ==
    \/ id.impl \in cancelled
    \/ id.uid = DestroyUid /\ ~ InDestroyList(id)
    \/ /\ id.uid # DestroyUid
       /\ \/ id.ts < m_currentTs
          \/ id.ts = m_currentTs /\ id.uid < m_currentUid

IsExpired(id) ==
    \/ id.impl \in cancelled
    \/ /\ id.uid = DestroyUid
       /\ ~ InDestroyList(id)
    \/ /\ id.uid # DestroyUid
       /\ \/ id.ts < m_currentTs
          \/ id.ts = m_currentTs /\ id.uid <= m_currentUid

(* erase(i) of the first element of the list that equals id; Remove of a  *)
(* destroy event that is not in the list changes nothing.                  *)
RemoveDestroyEvent(id) ==
    /\ id.uid = DestroyUid
    /\ \E i \in DOMAIN m_destroyEvents :
          /\ m_destroyEvents[i] = id
          /\ \A j \in 1 .. i - 1 : m_destroyEvents[j] # id
          /\ m_destroyEvents' = Lists!RemoveAt(m_destroyEvents, i)
    /\ UNCHANGED <<m_events, m_currentTs, m_currentUid, m_uid,
                   m_unscheduledEvents, m_stop, cancelled>>

(* Mutant: the removed event is still counted. *)
RemovePendingEvent_NotCounted(id) ==
    /\ id.uid # DestroyUid
    /\ ~ IsExpired(id)
    /\ m_events' = m_events \ {id}
    /\ cancelled' = cancelled \cup {id.impl}
    /\ UNCHANGED <<m_currentTs, m_currentUid, m_uid, m_unscheduledEvents,
                   m_stop, m_destroyEvents>>

RemovePendingEvent(id) ==
    /\ id.uid # DestroyUid
    /\ ~ IsExpired(id)
    /\ m_events' = m_events \ {id}
    /\ cancelled' = cancelled \cup {id.impl}
    /\ m_unscheduledEvents' = m_unscheduledEvents - 1
    /\ UNCHANGED <<m_currentTs, m_currentUid, m_uid, m_stop, m_destroyEvents>>

(* Remove of an expired event returns without a change. *)
Remove(id) == RemoveDestroyEvent(id) \/ RemovePendingEvent(id)

Cancel(id) ==
    /\ ~ IsExpired(id)
    /\ cancelled' = cancelled \cup {id.impl}
    /\ UNCHANGED <<m_events, m_currentTs, m_currentUid, m_uid,
                   m_unscheduledEvents, m_stop, m_destroyEvents>>

SetStop(value) ==
    /\ m_stop' = value
    /\ UNCHANGED <<m_events, m_currentTs, m_currentUid, m_uid,
                   m_unscheduledEvents, m_destroyEvents, cancelled>>

(* One iteration of the loop of Destroy(), up to the call of Invoke(). *)
DestroyNext ==
    /\ m_destroyEvents # << >>
    /\ m_destroyEvents' = Tail(m_destroyEvents)
    /\ UNCHANGED <<m_events, m_currentTs, m_currentUid, m_uid,
                   m_unscheduledEvents, m_stop, cancelled>>
-----------------------------------------------------------------------------
KernelTypeOK ==
    /\ m_events \subseteq EventId
    /\ m_currentTs \in Nat
    /\ m_currentUid \in Uid
    /\ m_uid \in Uid
    /\ m_unscheduledEvents \in Int
    /\ m_stop \in BOOLEAN
    /\ m_destroyEvents \in Seq(EventId)
    /\ cancelled \subseteq Impl

LaterThanCurrent(e) ==
    \/ m_currentTs < e.ts
    \/ m_currentTs = e.ts /\ m_currentUid < e.uid

(* Every pending event comes after the event executed last, in the order   *)
(* (time, uid): the assertion of ProcessOneEvent, and what IsExpired reads *)
(* from a key alone.                                                       *)
PendingAreLater == \A e \in m_events : LaterThanCurrent(e)

(* "we didn't lose any events along the way": the counter that Run()       *)
(* asserts on agrees with the scheduler after every mixture of executions, *)
(* removals and cancellations.                                             *)
CountExact == m_unscheduledEvents = Cardinality(m_events)

(* "uids are allocated from 4. uid 0 is invalid events, uid 1 is now       *)
(* events, uid 2 is destroy events": no scheduled event has a reserved     *)
(* uid.  Holds until m_uid wraps.                                          *)
ReservedUidsUnused == \A e \in m_events : e.uid >= FirstUid

(* What makes these inductive: uids are handed out once, upwards. *)
UidsAllocated ==
    /\ FirstUid <= m_uid
    /\ m_currentUid < m_uid
    /\ \A e \in m_events : e.uid < m_uid
    /\ \A e, f \in m_events : e.uid = f.uid => e = f

KernelInv ==
    /\ KernelTypeOK
    /\ PendingAreLater
    /\ ReservedUidsUnused
    /\ UidsAllocated
    /\ IsFiniteSet(m_events)
    /\ CountExact
===============================================================================
