----------------------------- MODULE FrameStream -----------------------------
(***************************************************************************)
(* What a receiver of the serial line promises, either end's: what it has  *)
(* delivered is a function of the bytes it has received, whatever pieces   *)
(* they came in.  They are cut at the delimiters; every frame between two  *)
(* that is no longer than MaxFrame and holds a packet that passes Accepts  *)
(* is delivered, in order, and every other one is skipped.                 *)
(***************************************************************************)
EXTENDS Packet

CONSTANTS MaxFrame, Accepts(_)

VARIABLES received, delivered

(* The bytes between the one at n and the last delimiter before it. *)
FrameBefore(bytes, n) ==
  LET start == Max({0} \cup {i \in 1 .. n - 1 : bytes[i] = 0})
  IN  SubSeq(bytes, start + 1, n - 1)

Deliverable(frame) ==
  /\ Len(frame) \in 1 .. MaxFrame
  /\ DecodePacket(frame).ok /\ Accepts(DecodePacket(frame).packet)

(* by[n] is what the first n bytes deliver. *)
DeliveredFrom(bytes) ==
  LET by[n \in 0 .. Len(bytes)] ==
        IF n = 0 THEN <<>>
        ELSE LET frame == FrameBefore(bytes, n) IN
             IF bytes[n] = 0 /\ Deliverable(frame)
             THEN Append(by[n - 1], DecodePacket(frame).packet) ELSE by[n - 1]
  IN  by[Len(bytes)]

Init == received = <<>> /\ delivered = <<>>

Receive ==
  /\ IsStrictPrefix(received, received')
  /\ delivered' = DeliveredFrom(received')

Spec == Init /\ [][Receive]_<<received, delivered>>
===============================================================================
