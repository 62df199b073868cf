---------------------------- MODULE CommandStream ----------------------------
(***************************************************************************)
(* The Teensy's end of the line the commands come on: SerialBuffer         *)
(* (serial_buffer.cpp), and Client::poll_command and dispatch_command      *)
(* (client.cpp), a byte at a time.                                         *)
(***************************************************************************)
EXTENDS SerialLine

CONSTANTS
  COMMAND, IMU_01,  \* the bytes of the packet id and the device id
  CommandId,        \* the bytes of the commands
  FirstSeq          \* the sequence numbers to start with

ASSUME CommandAssumption ==
  /\ COMMAND \in Byte /\ IMU_01 \in Byte /\ CommandId \subseteq Byte /\ FirstSeq \subseteq Byte
  /\ MAX_PAYLOAD_SIZE >= 3

VARIABLES
  buffer_,     \* SerialBuffer: the bytes of the frame so far
  overflowed_,
  dispatched   \* history: the commands handled

commandVars == <<lineVars, buffer_, overflowed_, dispatched>>

Command(c, seq) == [packet_id |-> COMMAND, device_id |-> IMU_01, payload |-> <<c, seq, 0>>]

CommandTypeOK ==
  /\ line \in Seq(Byte) /\ last_byte \in Byte /\ faults \in 0 .. MaxFaults
  /\ buffer_ \in Seq(Byte \ {0}) /\ Len(buffer_) <= MAX_ENCODED_SIZE /\ overflowed_ \in BOOLEAN

CommandInit ==
  /\ LineInit
  /\ buffer_ = <<>> /\ overflowed_ = FALSE /\ dispatched = <<>>

(* Attempts are numbered in turn, the first from any of FirstSeq.             *)
SendCommand ==
  /\ \E c \in CommandId, first \in FirstSeq :
       Send(Command(c, IF sent = <<>> THEN first ELSE (Last(sent).payload[2] + 1) % (Full + 1)))
  /\ UNCHANGED <<buffer_, overflowed_, received, dispatched>>

(* Mutant of IsCommand: the payload's size is not looked at. *)
IsCommandOfAnySize(p) == p.packet_id = COMMAND

(* dispatch_command's checks. *)
IsCommand(p) == p.packet_id = COMMAND /\ Len(p.payload) = 3

Handle(frame) ==
  LET decoded == Decode(frame)
  IN  dispatched' = IF decoded.ok /\ IsCommand(decoded.packet)
                    THEN Append(dispatched, decoded.packet) ELSE dispatched

ReadByte ==
  /\ line # <<>>
  /\ line' = Tail(line) /\ received' = Append(received, Head(line))
  /\ UNCHANGED <<sent, clean, last_byte, faults>>

(* Mutant of PushByte: the check for room is off by one. *)
PushByteLate ==
  /\ ReadByte /\ Head(line) # 0
  /\ IF Len(buffer_) > MAX_ENCODED_SIZE
     THEN overflowed_' = TRUE /\ UNCHANGED buffer_
     ELSE buffer_' = Append(buffer_, Head(line)) /\ UNCHANGED overflowed_
  /\ UNCHANGED dispatched

(* push(): any other byte is kept while there is room. *)
PushByte ==
  /\ ReadByte /\ Head(line) # 0
  /\ IF Len(buffer_) >= MAX_ENCODED_SIZE
     THEN overflowed_' = TRUE /\ UNCHANGED buffer_
     ELSE buffer_' = Append(buffer_, Head(line)) /\ UNCHANGED overflowed_
  /\ UNCHANGED dispatched

(* Mutant of PushDelimiter: the frame that overflowed is dropped, its mark is not. *)
PushDelimiterKeepsMark ==
  /\ ReadByte /\ Head(line) = 0
  /\ IF buffer_ # <<>> /\ ~overflowed_ THEN Handle(buffer_) ELSE UNCHANGED dispatched
  /\ buffer_' = <<>> /\ UNCHANGED overflowed_

(* push(): at a delimiter poll_command has a frame, unless it is empty or     *)
(* has overflowed; the buffer is reset in any case.                           *)
PushDelimiter ==
  /\ ReadByte /\ Head(line) = 0
  /\ IF buffer_ # <<>> /\ ~overflowed_ THEN Handle(buffer_) ELSE UNCHANGED dispatched
  /\ buffer_' = <<>> /\ overflowed_' = FALSE

CommandNext == SendCommand \/ PushByte \/ PushDelimiter
CommandSpec == CommandInit /\ [][CommandNext]_commandVars

-------------------------------------------------------------------------------
(* Properties. *)

(* dispatch_command (client.cpp:51-55) and decode (packet.cpp:46-73): with at *)
(* most one faulty byte in a frame no command is handled that was not sent.   *)
(* The checksum alone does not give this: frames cut short or joined to their *)
(* successor by the fault may pass it.                                        *)
OnlySentCommands == ToSet(dispatched) \subseteq ToSet(sent)

(* serial_buffer.cpp:6-23: every command that is transmitted without a fault  *)
(* after a delimiter is handled, once and in order, whatever was lost or      *)
(* corrupted before it and even if that overflowed the buffer.                *)
CommandsResynchronize ==
  line = <<>> => SelectSeq(dispatched, LAMBDA p : p \in ToSet(clean)) = clean

(* The receiver implements FrameStream: a frame too long for the buffer is    *)
(* skipped, and only that frame.                                              *)
CommandFrames == INSTANCE FrameStream WITH
  MaxFrame <- MAX_ENCODED_SIZE, Accepts <- IsCommand, delivered <- dispatched
CommandsImplementFrameStream == CommandFrames!Spec
===============================================================================
