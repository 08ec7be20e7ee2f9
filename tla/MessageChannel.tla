---------------------------- MODULE MessageChannel -----------------------------
(***************************************************************************)
(* What the bridge takes a channel to be: whole messages, in the order in  *)
(* which they were sent.  When the connection ends, the messages that have *)
(* not arrived are lost from the last one backwards; then every read       *)
(* fails.                                                                  *)
(* One weakness is part of the promise: a message that is missing at the   *)
(* end of the stream may be received as an empty one.                      *)
(***************************************************************************)
EXTENDS Naturals, Sequences

CONSTANTS Message, Empty

VARIABLES queue,      \* sent and not yet received
          connected,  \* is the sender still there?
          received,   \* the message received last
          failed      \* has a read failed?

vars == <<queue, connected, received, failed>>

Init ==
    /\ queue = << >>
    /\ connected = TRUE
    /\ received = Empty
    /\ failed = FALSE

Send(m) ==
    /\ connected
    /\ queue' = Append(queue, m)
    /\ UNCHANGED <<connected, received, failed>>

Receive ==
    /\ queue # << >>
    /\ received' = Head(queue)
    /\ queue' = Tail(queue)
    /\ UNCHANGED <<connected, failed>>

Break ==
    /\ connected
    /\ connected' = FALSE
    /\ \E arriving \in 0 .. Len(queue) : queue' = SubSeq(queue, 1, arriving)
    /\ UNCHANGED <<received, failed>>

AtEnd == ~ connected /\ queue = << >>

ReceiveEmpty ==
    /\ AtEnd
    /\ received' = Empty
    /\ UNCHANGED <<queue, connected, failed>>

Fail ==
    /\ AtEnd
    /\ failed' = TRUE
    /\ UNCHANGED <<queue, connected, received>>

Next ==
    \/ \E m \in Message : Send(m)
    \/ Break
    \/ ~ failed /\ (Receive \/ ReceiveEmpty \/ Fail)

Spec == Init /\ [][Next]_vars
=============================================================================
