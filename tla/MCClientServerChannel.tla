------------------------- MODULE MCClientServerChannel -------------------------
(* Bodies of one to four bytes: lengths of one, two and three bytes.  A    *)
(* command that looks the same after the loss of some bytes lets the       *)
(* reader go on out of step, to lengths of too many bytes.                 *)
EXTENDS ClientServerChannel

MCLoneCommands == {<<1>>}
MCLeadCommands == {<<2, 2, 2>>}
MCUncheckedMessages == {<<0, 1>>}
MCCheckedMessages == {<<3, 3, 3, 2>>}
=============================================================================
