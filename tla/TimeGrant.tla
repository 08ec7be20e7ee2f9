------------------------------- MODULE TimeGrant -------------------------------
(***************************************************************************)
(* The promise of the bridge to the coordinator of the federation: two     *)
(* clocks, of which one moves only by leave of the other.                  *)
(*                                                                         *)
(* The federate is frozen unless a time is granted; it never runs beyond   *)
(* the time granted; and when it is stopped before that time, the          *)
(* coordinator falls back to exactly where the federate is.                *)
(***************************************************************************)
EXTENDS Naturals

VARIABLES phase,   \* "idle", "granted", or "over": nobody confirms any more
          time,    \* the coordinator's clock
          clock    \* the federate's clock

vars == <<phase, time, clock>>

Init ==
    /\ phase = "idle"
    /\ time = 0
    /\ clock = 0

Grant ==
    /\ phase = "idle"
    /\ phase' = "granted"
    /\ time' \in Nat /\ time' >= time
    /\ UNCHANGED clock

Advance ==
    /\ phase # "idle"
    /\ clock' \in clock .. time
    /\ UNCHANGED <<phase, time>>

Complete ==
    /\ phase = "granted"
    /\ phase' = "idle"
    /\ UNCHANGED <<time, clock>>

Preempt ==
    /\ phase = "granted"
    /\ phase' = "idle"
    /\ time' = clock
    /\ UNCHANGED clock

Leave ==
    /\ phase' = "over"
    /\ UNCHANGED <<time, clock>>

Next == Grant \/ Advance \/ Complete \/ Preempt \/ Leave

Spec == Init /\ [][Next]_vars
=============================================================================
