------------------------------ MODULE SerialLine ------------------------------
(***************************************************************************)
(* One direction of the serial line, with the sender at its end: a byte of *)
(* a frame may be lost or come out as another.  CommandStream and          *)
(* TelemetryStream add the receivers.                                      *)
(***************************************************************************)
EXTENDS Packet

CONSTANTS
  Noise,      \* the bytes a faulty byte may come out as
  MaxSent,    \* bound: packets sent
  MaxFaults,  \* bound: faulty bytes, at most one in a frame
  LineCap     \* bound: unread bytes on the line for another packet to be sent

ASSUME LineAssumption ==
  Noise \subseteq Byte /\ MaxSent \in Nat /\ MaxFaults \in Nat /\ LineCap \in Nat

VARIABLES
  line,      \* the bytes on the line
  sent,      \* history: the packets sent
  clean,     \* history: those whose frame reached the line with no fault, after a delimiter
  last_byte, \* history: the last byte put on the line
  faults,
  received   \* history: the bytes that have been read at the other end

lineVars == <<line, sent, clean, last_byte, faults, received>>

LineInit ==
  /\ line = <<>> /\ sent = <<>> /\ clean = <<>> /\ last_byte = 0 /\ faults = 0 /\ received = <<>>

Put(p, bytes) ==
  /\ line' = line \o bytes
  /\ last_byte' = (IF bytes = <<>> THEN last_byte ELSE Last(bytes))
  /\ sent' = Append(sent, p)

CanSend == Len(sent) < MaxSent /\ Len(line) <= LineCap

SendIntact(p) ==
  /\ CanSend /\ Put(p, EncodePacket(p))
  /\ clean' = IF last_byte = 0 THEN Append(clean, p) ELSE clean
  /\ UNCHANGED faults

SendLosingByte(p) ==
  /\ CanSend /\ faults < MaxFaults
  /\ LET frame == EncodePacket(p) IN \E i \in 1 .. Len(frame) : Put(p, RemoveAt(frame, i))
  /\ faults' = faults + 1 /\ UNCHANGED clean

SendCorruptingByte(p) ==
  /\ CanSend /\ faults < MaxFaults
  /\ LET frame == EncodePacket(p)
     IN  \E i \in 1 .. Len(frame) : \E byte \in Noise \ {frame[i]} : Put(p, [frame EXCEPT ![i] = byte])
  /\ faults' = faults + 1 /\ UNCHANGED clean

Send(p) == SendIntact(p) \/ SendLosingByte(p) \/ SendCorruptingByte(p)
===============================================================================
