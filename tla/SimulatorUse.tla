----------------------------- MODULE SimulatorUse ------------------------------
(***************************************************************************)
(* MosaicSimulatorImpl under arbitrary use.  The callers are the bridge,   *)
(* the ns-3 models and the callbacks of the events themselves: they        *)
(* schedule, keep, cancel, remove and drop EventIds in any order, between  *)
(* events and from inside them.  A call made by the callback of an event   *)
(* is a step that follows the one that executed the event.                 *)
(***************************************************************************)
EXTENDS MosaicSimulatorImpl

CONSTANTS Delays,   \* delays the callers ask for: never negative
          MaxTs     \* bound on the time stamps scheduled

ASSUME DelaysAssumption == Delays \subseteq Nat
ASSUME MaxTsAssumption == MaxTs \in Nat

VARIABLES handles,  \* the EventIds the callers hold
          mode      \* "idle", or inside Run() or Destroy()

vars == <<simVars, handles, mode>>

Init ==
    /\ SimInit
    /\ handles = {}
    /\ mode = "idle"

(***************************************************************************)
(* An EventImpl is allocated for one call and lives while a scheduler      *)
(* entry, a destroy entry or an EventId refers to it (Ptr<EventImpl>).     *)
(***************************************************************************)
Fresh(impl) ==
    /\ \A e \in m_events \cup handles : e.impl # impl
    /\ \A i \in DOMAIN m_destroyEvents : m_destroyEvents[i].impl # impl

MayInsert(delay, impl) == m_currentTs + delay <= MaxTs /\ Fresh(impl)

Schedule(delay, impl) ==
    /\ MayInsert(delay, impl)
    /\ Insert(delay, impl)
    /\ handles' = handles \cup {NewEvent(delay, impl)}
    /\ UNCHANGED mode

ScheduleNow(impl) ==
    /\ MayInsert(0, impl)
    /\ Insert(0, impl)
    /\ handles' = handles \cup {NewEvent(0, impl)}
    /\ UNCHANGED mode

(* returns no EventId *)
ScheduleWithContext(delay, impl) ==
    /\ MayInsert(delay, impl)
    /\ Insert(delay, impl)
    /\ UNCHANGED <<handles, mode>>

ScheduleAtDestroy(impl) ==
    /\ Fresh(impl)
    /\ ScheduleDestroy(impl)
    /\ handles' = handles \cup {NewDestroyEvent(impl)}
    /\ UNCHANGED mode

RemoveId(id) == Remove(id) /\ UNCHANGED <<handles, mode>>

CancelId(id) == Cancel(id) /\ UNCHANGED <<handles, mode>>

(* A caller lets an EventId go out of scope. *)
Drop(id) ==
    /\ handles' = handles \ {id}
    /\ UNCHANGED <<simVars, mode>>

Stop == SetStop(TRUE) /\ UNCHANGED <<handles, mode>>

RunOneEvent(e) ==
    /\ mode = "idle"
    /\ ProcessOneEvent(e)
    /\ UNCHANGED <<handles, mode>>

Run ==
    /\ mode = "idle"
    /\ mode' = "run"
    /\ SetStop(FALSE)
    /\ UNCHANGED handles

RunLoop(e) ==
    /\ mode = "run"
    /\ ~ IsFinished
    /\ ProcessOneEvent(e)
    /\ UNCHANGED <<handles, mode>>

RunReturns ==
    /\ mode = "run"
    /\ IsFinished
    /\ mode' = "idle"
    /\ UNCHANGED <<simVars, handles>>

Destroy ==
    /\ mode = "idle"
    /\ mode' = "destroy"
    /\ UNCHANGED <<simVars, handles>>

DestroyLoop ==
    /\ mode = "destroy"
    /\ DestroyNext
    /\ UNCHANGED <<handles, mode>>

DestroyReturns ==
    /\ mode = "destroy"
    /\ m_destroyEvents = << >>
    /\ mode' = "idle"
    /\ UNCHANGED <<simVars, handles>>

Next ==
    \/ \E impl \in Impl, delay \in Delays :
          Schedule(delay, impl) \/ ScheduleWithContext(delay, impl)
    \/ \E impl \in Impl : ScheduleNow(impl) \/ ScheduleAtDestroy(impl)
    \/ \E id \in handles : RemoveId(id) \/ CancelId(id) \/ Drop(id)
    \/ Stop
    \/ \E e \in m_events : RunOneEvent(e) \/ RunLoop(e)
    \/ Run \/ RunReturns
    \/ Destroy \/ DestroyLoop \/ DestroyReturns

Spec == Init /\ [][Next]_vars

(***************************************************************************)
(* The first 2^32 - 4 allocations: m_uid has not wrapped.                  *)
(***************************************************************************)
UidGrows == m_uid <= m_uid'

SpecBeforeWrap == Init /\ [][Next /\ UidGrows]_vars

-----------------------------------------------------------------------------
(* Type invariant of the kernel and of its callers. *)
TypeOK ==
    /\ KernelTypeOK
    /\ handles \subseteq EventId
    /\ mode \in {"idle", "run", "destroy"}

(* IsExpired looks only at the key and the cancel flag, yet says exactly   *)
(* whether the event is still going to be invoked.                         *)
ExpiredExact ==
    \A id \in handles :
        id.uid # DestroyUid =>
            (IsExpired(id) <=> (id \notin m_events \/ id.impl \in cancelled))

(* Events are executed in strictly increasing (time, uid) order: the clock *)
(* never runs back and events of one time are executed in the order in     *)
(* which they were scheduled, those scheduled by a callback included.      *)
InExecutionOrder ==
    \/ m_currentTs < m_currentTs'
    \/ m_currentTs = m_currentTs' /\ m_currentUid < m_currentUid'
ExecutionOrder == [][InExecutionOrder]_<<m_currentTs, m_currentUid>>

(* An EventId that has expired (executed, cancelled, removed, or destroyed *)
(* with the simulator) never comes back to life while its owner holds it.  *)
StaysExpired ==
    \A id \in handles : id \in handles' /\ IsExpired(id) => IsExpired(id)'
ExpiredForGood == [][StaysExpired]_vars

(***************************************************************************)
(* The inductive invariant: an EventId that is neither pending nor         *)
(* cancelled was executed, so its key is not after the current one.        *)
(***************************************************************************)
HandlesAllocated ==
    \A id \in handles : id.uid # DestroyUid => FirstUid <= id.uid /\ id.uid < m_uid

HandlesKnown ==
    \A id \in handles :
        id.uid # DestroyUid /\ id \notin m_events /\ id.impl \notin cancelled
            => ~ LaterThanCurrent(id)

IInv == TypeOK /\ KernelInv /\ HandlesAllocated /\ HandlesKnown
=============================================================================
