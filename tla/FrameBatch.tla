------------------------------ MODULE FrameBatch ------------------------------
(***************************************************************************)
(* core-engine/src/batch.cpp: the slab of frames the edge fills and sends.  *)
(* A batch is a record; every method of FrameBatch that changes it is an    *)
(* operator from batch to batch, used by the actions of EdgeUplink.  A frame *)
(* is FrameUnits units long on the wire (24 bytes in the code), the unit    *)
(* being the least a send can accept.                                       *)
(***************************************************************************)
EXTENDS Integers, Sequences

CONSTANTS
  Capacity,     \* capacity_, in frames
  FrameUnits    \* ZCMESH_WIRE_FRAME_SIZE, in units

ASSUME BatchAssumption ==
  /\ Capacity \in Nat \ {0}
  /\ FrameUnits \in Nat \ {0}

(* How long a flush took, against the two thresholds of adapt: below        *)
(* 200 us, above 2 ms, or between.                                          *)
FlushTimes == {"cheap", "middling", "slow"}

Batches(Frame) ==
  [frames : Seq(Frame), offset : Nat, flushAt : 1 .. Capacity]

EmptyBatch == [frames |-> <<>>, offset |-> 0, flushAt |-> Capacity]

Count(b) == Len(b.frames)
Units(b) == Count(b) * FrameUnits
Full(b) == Count(b) >= Capacity
ShouldFlush(b) == Count(b) >= b.flushAt
HasPartialSend(b) == b.offset > 0

UnsentIndex(b) == b.offset \div FrameUnits
UnsentFrames(b) == SubSeq(b.frames, UnsentIndex(b) + 1, Count(b))

(* Unit j of the slab, counted from 0: the frame it belongs to and its      *)
(* place in that frame.                                                     *)
UnitAt(b, j) == <<b.frames[j \div FrameUnits + 1], j % FrameUnits>>

Pushed(b, f) == IF Full(b) THEN b ELSE [b EXCEPT !.frames = Append(@, f)]

Cleared(b) == [b EXCEPT !.frames = <<>>, !.offset = 0]

(* flush_tcp after the socket took k more units.                            *)
Advanced(b, k) ==
  IF b.offset + k = Units(b) THEN Cleared(b) ELSE [b EXCEPT !.offset = @ + k]

(* Mutant: the offset is taken for a count of frames.                       *)
DiscardedByOffset(b) ==
  [b EXCEPT !.frames = SubSeq(@, b.offset + 1, Len(@)), !.offset = 0]

(* discard_fully_sent: returns early, with the offset as it was, when not   *)
(* even one frame is fully sent.                                            *)
DiscardedFullySent(b) ==
  IF UnsentIndex(b) = 0 THEN b
  ELSE IF UnsentIndex(b) >= Count(b) THEN Cleared(b)
  ELSE [b EXCEPT !.frames = UnsentFrames(b), !.offset = 0]

(* Mutant: the flush target may reach zero.                                 *)
HalvedToZero(n) == n \div 2

Halved(n) == IF n \div 2 < 1 THEN 1 ELSE n \div 2

Adapted(b, sent, time) ==
  [b EXCEPT !.flushAt =
     IF ~sent \/ time = "slow" THEN Halved(@)
     ELSE IF time = "cheap" /\ @ < Capacity THEN @ + 1
     ELSE @]
=============================================================================
