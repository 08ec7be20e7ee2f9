-------------------------- MODULE ClientServerChannel --------------------------
(***************************************************************************)
(* One direction of a src/client-server-channel.cc connection, byte by     *)
(* byte: the write methods at one end of a TCP stream and the read methods *)
(* at the other.  (The Java peer frames its messages in the same way.)     *)
(*                                                                         *)
(* A message on the wire is its length as a varint, then its body.  Some   *)
(* commands are followed by a message.  What is inside a body is           *)
(* protobuf's business; two bodies of different content are different.     *)
(*                                                                         *)
(* A signal without handler (SIGSTOP, then SIGCONT) makes Linux return     *)
(* from recv(MSG_WAITALL) and from send with the bytes moved so far; if    *)
(* none were, the call goes on.  One such signal that no check notices is  *)
(* enough: nothing is claimed of what is read after it.                    *)
(*                                                                         *)
(* The reader, `pc`: "prefix"  in readVarintPrefix                         *)
(*                   "body"    about to receive the body                   *)
(*                   "again"   readCommand, after the polls                *)
(*                   "closed"  readCommand has returned UNDEF: the bridge  *)
(*                             closes the connection                       *)
(*                   "exited"  a read of a message has called exit(1)      *)
(***************************************************************************)
EXTENDS Integers, Sequences

CONSTANTS Radix,       \* 128: a byte carries seven bits of the length
          MaxPrefix,   \* 4: bytes of a length
          LoneCommands, LeadCommands,         \* bodies of commands: without, with a message
          UncheckedMessages, CheckedMessages, \* bodies of messages, by their write method
          Capacity,    \* what the socket buffers hold
          Signals      \* may signals interrupt recv and send?

Commands == LoneCommands \cup LeadCommands
Messages == UncheckedMessages \cup CheckedMessages
Bodies == Commands \cup Messages
Byte == 0 .. 2 * Radix - 1

ASSUME RadixAssumption == Radix \in Nat \ {0, 1}
ASSUME BoundsAssumption == {MaxPrefix, Capacity} \subseteq Nat \ {0}
ASSUME SignalsAssumption == Signals \in BOOLEAN
ASSUME BodiesAssumption ==
    /\ Bodies \subseteq Seq(Byte) \ {<< >>}
    /\ \A body \in Bodies : Len(body) <= Capacity
    /\ Commands \cap Messages = {}
    /\ LoneCommands \cap LeadCommands = {}

VARIABLES stream,       \* bytes accepted by TCP and not yet received
          open,         \* is the writer connected?
          writing,      \* the body written last, or being written
          unsent,       \* bytes that the present send has not yet taken
          pc,
          reading,      \* "command" or "message"
          prefix,       \* bytes of the length read so far
          received,     \* the body read last
          interrupted   \* history: has a signal cut off a read or a write?

writer == <<open, writing, unsent>>
reader == <<pc, reading, prefix, received>>
vars == <<stream, writer, reader, interrupted>>

Varint[n \in Nat] ==
    IF n < Radix THEN <<n>> ELSE <<Radix + (n % Radix)>> \o Varint[n \div Radix]

(* No message is too long to be read. *)
ASSUME LengthsAssumption ==
    \A body \in Bodies : Len(Varint[Len(body)]) <= MaxPrefix

Frame(body) == Varint[Len(body)] \o body

More(byte) == byte >= Radix

ValueOf[bytes \in Seq(Byte)] ==
    IF bytes = << >> THEN 0
    ELSE (Head(bytes) % Radix) + Radix * ValueOf[Tail(bytes)]

Init ==
    /\ stream = << >>
    /\ open = TRUE
    /\ writing = << >>
    /\ unsent = << >>
    /\ pc = "prefix"
    /\ reading = "command"
    /\ prefix = << >>
    /\ received = << >>
    /\ interrupted = FALSE

-----------------------------------------------------------------------------
(***************************************************************************)
(* Writing: one send for the prefix and the body.                          *)
(***************************************************************************)
Follow(body) == IF body \in LeadCommands THEN Messages ELSE Commands

Write(body) ==
    /\ open
    /\ unsent = << >>
    /\ body \in Follow(writing)
    /\ writing' = body
    /\ unsent' = Frame(body)
    /\ UNCHANGED <<stream, open, reader, interrupted>>

(* TCP takes the next byte; while its buffers are full, send blocks. *)
Accept ==
    /\ unsent # << >>
    /\ Len(stream) < Capacity
    /\ stream' = Append(stream, Head(unsent))
    /\ unsent' = Tail(unsent)
    /\ UNCHANGED <<open, writing, reader, interrupted>>

(* Mutant: writeReceiveWifiMessage ignores what send returns, too. *)
Checks_Nothing(body) == FALSE

Checks(body) == body \in CheckedMessages

(* send returns early.  The methods that compare what it returns with the  *)
(* length of the message end the process, the others know nothing of it.   *)
SendInterrupted ==
    /\ Signals /\ ~ interrupted
    /\ unsent # << >> /\ Len(unsent) < Len(Frame(writing))
    /\ unsent' = << >>
    /\ IF Checks(writing)
       THEN open' = FALSE /\ UNCHANGED interrupted
       ELSE interrupted' = TRUE /\ UNCHANGED open
    /\ UNCHANGED <<stream, writing, reader>>

(* The writer is gone, with any part of what has not been received. *)
Disconnect ==
    /\ open
    /\ open' = FALSE
    /\ unsent' = << >>
    /\ \E arriving \in 0 .. Len(stream) : stream' = SubSeq(stream, 1, arriving)
    /\ UNCHANGED <<writing, reader, interrupted>>

-----------------------------------------------------------------------------
(***************************************************************************)
(* Reading.                                                                *)
(***************************************************************************)
AtEnd == ~ open /\ stream = << >>

Failure == IF reading = "command" THEN "closed" ELSE "exited"

(* Mutant: a fifth byte may be followed by a sixth. *)
AfterByte_OneMore(bytes) ==
    IF Len(bytes) > MaxPrefix + 1 THEN Failure
    ELSE IF More(bytes[Len(bytes)]) THEN "prefix" ELSE "body"

AfterByte(bytes) ==
    IF Len(bytes) > MaxPrefix THEN Failure
    ELSE IF More(bytes[Len(bytes)]) THEN "prefix" ELSE "body"

(* readVarintPrefix.  recv returns 0 at the end of the stream, which the   *)
(* code takes for a byte: the first has no value, the later ones are 0.    *)
ReadPrefix ==
    /\ pc = "prefix"
    /\ \E byte \in IF stream # << >> THEN {Head(stream)}
                   ELSE IF prefix = << >> THEN Byte ELSE {0} :
          /\ prefix' = Append(prefix, byte)
          /\ pc' = AfterByte(prefix')
    /\ IF stream # << >> THEN stream' = Tail(stream) ELSE AtEnd /\ UNCHANGED stream
    /\ UNCHANGED <<writer, reading, received, interrupted>>

(* recv(MSG_WAITALL) of the announced length: all of it, or what is there  *)
(* at the end of the stream or at a signal.                                *)
Announced == ValueOf[prefix]

Complete == Len(stream) >= Announced

CutShort ==
    /\ ~ Complete
    /\ \/ ~ open /\ UNCHANGED interrupted
       \/ open /\ stream # << >>
          /\ Signals /\ ~ interrupted /\ interrupted' = TRUE

Take(n) == stream' = SubSeq(stream, n + 1, Len(stream))

(* Mutant: the message of a command is left in the stream. *)
Deliver_MessageForgotten ==
    LET body == SubSeq(stream, 1, Announced)
    IN  /\ Complete /\ Take(Announced) /\ prefix' = << >> /\ pc' = "prefix"
        /\ received' = body
        /\ UNCHANGED <<reading, writer, interrupted>>

(* The body goes to the caller: a body that is no command is UNDEF, and    *)
(* the bridge decides by the command which message it reads next.          *)
Deliver ==
    LET body == SubSeq(stream, 1, Announced)
    IN  /\ Complete
        /\ Take(Announced)
        /\ prefix' = << >>
        /\ IF reading = "command" /\ body \notin Commands
           THEN pc' = "closed" /\ UNCHANGED <<reading, received>>
           ELSE /\ pc' = "prefix"
                /\ received' = body
                /\ reading' = IF reading = "command" /\ body \in LeadCommands
                              THEN "message" ELSE "command"
        /\ UNCHANGED <<writer, interrupted>>

(* Mutant: a message that is cut off is parsed as far as it goes. *)
MessageCutShort_Parsed ==
    /\ pc = "body" /\ reading = "message" /\ CutShort
    /\ received' = stream /\ stream' = << >> /\ prefix' = << >>
    /\ reading' = "command" /\ UNCHANGED <<pc, writer>>

MessageCutShort ==
    /\ pc = "body"
    /\ reading = "message"
    /\ CutShort
    /\ pc' = "exited"
    /\ Take(Len(stream))
    /\ UNCHANGED <<writer, reading, prefix, received>>

(* readCommand polls up to three times and then receives the whole length  *)
(* once more, into the beginning of the buffer: what it had is lost.       *)
CommandCutShort ==
    /\ pc = "body"
    /\ reading = "command"
    /\ CutShort
    /\ pc' = "again"
    /\ Take(Len(stream))
    /\ UNCHANGED <<writer, reading, prefix, received>>

(* Mutant: the loop polls until the command is there. *)
SecondCutShort_PollsOn ==
    /\ pc = "again" /\ CutShort /\ Take(Len(stream))
    /\ UNCHANGED <<pc, writer, reading, prefix, received>>

SecondCutShort ==
    /\ pc = "again"
    /\ CutShort
    /\ pc' = "closed"
    /\ Take(Len(stream))
    /\ UNCHANGED <<writer, reading, prefix, received>>

ReadBody == pc \in {"body", "again"} /\ Deliver

Read == ReadPrefix \/ ReadBody \/ MessageCutShort \/ CommandCutShort \/ SecondCutShort

Next ==
    \/ \E body \in Bodies : Write(body)
    \/ Accept \/ SendInterrupted \/ Disconnect
    \/ Read

Spec == Init /\ [][Next]_vars

(* The reader is a thread that does nothing else. *)
FairSpec == Spec /\ WF_vars(Read)

-----------------------------------------------------------------------------
(* Type invariant. *)
TypeOK ==
    /\ {stream, unsent, prefix, received, writing} \subseteq Seq(Byte)
    /\ Len(stream) <= Capacity
    /\ Len(prefix) <= MaxPrefix + 1
    /\ writing \in Bodies \cup {<< >>}
    /\ open \in BOOLEAN /\ interrupted \in BOOLEAN
    /\ pc \in {"prefix", "body", "again", "closed", "exited"}
    /\ reading \in {"command", "message"}

Frames[bytes \in Seq(Byte)] ==
    LET ends == {i \in DOMAIN bytes : ~ More(bytes[i])}
        last == CHOOSE i \in ends : \A j \in ends : i <= j
        end == last + ValueOf[SubSeq(bytes, 1, last)]
    IN  IF ends = {} THEN << >>
        ELSE IF end > Len(bytes) THEN << >>
        ELSE <<SubSeq(bytes, last + 1, end)>> \o Frames[SubSeq(bytes, end + 1, Len(bytes))]

(* The messages on their way, the one being written and the one being read *)
(* included; the bytes that readVarintPrefix makes up at the end are none. *)
Underway == IF AtEnd THEN << >> ELSE Frames[prefix \o stream \o unsent]

Failed == pc \in {"closed", "exited"}

Fifo == INSTANCE MessageChannel WITH
            Message <- Bodies, Empty <- << >>,
            queue <- Underway, connected <- open, failed <- Failed

(* However the stream is cut into reads and wherever it ends, the reader   *)
(* gets the messages written, in order, and nothing else (but an empty one *)
(* at the very end), and it gives up only at the end, until a signal cuts  *)
(* off a read or an unchecked write.                                       *)
IsMessageChannel ==
    Fifo!Init /\ [][interrupted' \/ Fifo!Next]_<<Fifo!vars, interrupted>>

(* A message is never read as a command nor a command as a message, though *)
(* nothing on the wire tells them apart: the reader expects what the       *)
(* writer wrote.                                                           *)
InStep ==
    ~ interrupted /\ Underway # << >> =>
        Head(Underway) \in (IF reading = "command" THEN Commands ELSE Messages)

(* The reader notices the end of the stream, wherever it comes. *)
EndIsNoticed == ~ open ~> Failed

(* "If we could not read one byte, return error": at the end of the stream *)
(* no message is received.  recv returns 0 there, the error of the code is *)
(* a negative number, and the byte that was not read may announce an empty *)
(* message, which the read methods of messages accept.                     *)
NothingAfterTheEnd == [][AtEnd => UNCHANGED received]_vars
=============================================================================
