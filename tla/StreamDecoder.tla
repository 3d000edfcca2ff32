---------------------------- MODULE StreamDecoder ----------------------------
(***************************************************************************)
(* The two decoders of the TCP stream: decodeStream of the operator         *)
(* (FrameReceiver.java) and decode_tcp_stream of the capture tool           *)
(* (capture.cpp).  Both find frames by their magic in a stream whose        *)
(* boundaries are lost: reads return any number of bytes, and a sender that *)
(* lost its connection in mid-frame goes on in the middle of that frame on  *)
(* the next (EdgeUplink, transport tcp).                                    *)
(*                                                                         *)
(* A unit of the stream is <<f, u>>, unit u of frame f; unit 0 carries the  *)
(* magic.  Payload may look like the magic by chance.  The CRC is taken to  *)
(* hold for a whole frame only.  One action is one turn of the loop; the    *)
(* decoder is one thread, which reads again when the loop has ended.        *)
(***************************************************************************)
EXTENDS Integers, Sequences, FiniteSets, FiniteSetsExt, SequencesExt

CONSTANTS
  FrameUnits,      \* WireFrame.SIZE and ZCMESH_WIRE_FRAME_SIZE, in units
  FrameCount,      \* bound: frames, or what is left of them, in the stream
  MaxLookalikes    \* bound: payload units that look like the magic

ASSUME DecoderAssumption ==
  /\ FrameUnits \in Nat /\ FrameUnits >= 2
  /\ FrameCount \in Nat \ {0}
  /\ MaxLookalikes \in Nat

VARIABLES
  decoder,      \* "operator" or "capture"
  lookalikes,   \* the payload units that look like the magic
  stream,       \* what the sender wrote and the decoder has not read
  read,         \* history: what the decoder has read
  buf,          \* buf of decodeStream, stream of decode_tcp_stream
  pos,          \* the position the loop is at, from 0
  pc,           \* "idle": reads next; "decoding": in the loop
  decoded,      \* the frames passed on, in order
  resync,       \* tcpResync, resync: bytes counted as skipped
  crcFail       \* framesCrcFail, drop

vars == <<decoder, lookalikes, stream, read, buf, pos, pc, decoded, resync,
          crcFail>>

Frames == 1 .. FrameCount
StreamUnits == Frames \X (0 .. FrameUnits - 1)
Payload == Frames \X (1 .. FrameUnits - 1)

(* The part of frame f from unit a up to, and without, unit b.              *)
Part(f, a, b) == [u \in 1 .. b - a |-> <<f, a + u - 1>>]

(* A frame that is whole, lost its beginning, or lost its end.              *)
Parts(f) ==
  {Part(f, 0, FrameUnits)}
    \union {Part(f, a, FrameUnits) : a \in 1 .. FrameUnits - 1}
    \union {Part(f, 0, b) : b \in 1 .. FrameUnits - 1}

AllParts == UNION {Parts(f) : f \in Frames}

Init ==
  /\ decoder \in {"operator", "capture"}
  /\ lookalikes \in UNION {kSubset(n, Payload) : n \in 0 .. MaxLookalikes}
  /\ \E parts \in [Frames -> AllParts] :
       /\ \A f \in Frames : parts[f] \in Parts(f)
       /\ stream = FlattenSeq(parts)
  /\ read = <<>>
  /\ buf = <<>>
  /\ pos = 0
  /\ pc = "idle"
  /\ decoded = <<>>
  /\ resync = 0
  /\ crcFail = 0

(***************************************************************************)
(* Reading                                                                 *)
(***************************************************************************)
Remaining == Len(buf) - pos

(* A read that returns n units, which go behind what was kept.              *)
Read ==
  /\ pc = "idle"
  /\ \E n \in 1 .. Len(stream) :
       /\ buf' = buf \o SubSeq(stream, 1, n)
       /\ read' = read \o SubSeq(stream, 1, n)
       /\ stream' = SubSeq(stream, n + 1, Len(stream))
  /\ pc' = "decoding"
  /\ UNCHANGED <<decoder, lookalikes, pos, decoded, resync, crcFail>>

(***************************************************************************)
(* The loop                                                                *)
(***************************************************************************)
IsMagic(unit) == unit[2] = 0 \/ unit \in lookalikes

(* findMagic and find_magic: where a magic is with room for a frame.        *)
MagicAt == {i \in pos .. Len(buf) - FrameUnits : IsMagic(buf[i + 1])}

(* verify_frame and crcOk of the units at pos.                              *)
CrcOk ==
  \E f \in Frames :
    SubSeq(buf, pos + 1, pos + FrameUnits) = Part(f, 0, FrameUnits)

InLoop == pc = "decoding" /\ Remaining >= FrameUnits

SkipToMagic ==
  /\ InLoop
  /\ pos \notin MagicAt
  /\ \E magic \in MagicAt :
       /\ \A i \in MagicAt : magic <= i
       /\ pos' = magic
       /\ resync' = resync + magic - pos
  /\ UNCHANGED <<decoder, lookalikes, stream, read, buf, pc, decoded, crcFail>>

(* Mutant: the next frame's beginning is thrown away with the rest.         *)
CompactedEmpty(from) ==
  /\ buf' = <<>>
  /\ pos' = 0
  /\ pc' = "idle"

(* Mutant: what was decoded stays in the buffer.                            *)
CompactedNot(from) ==
  /\ UNCHANGED buf
  /\ pos' = from
  /\ pc' = "idle"

(* The loop ends and what is left moves to the front of the buffer.         *)
Compacted(from) ==
  /\ buf' = SubSeq(buf, from + 1, Len(buf))
  /\ pos' = 0
  /\ pc' = "idle"

(* Without a magic, all but the last FrameUnits - 1 units are dropped;      *)
(* the operator does not count them.                                        *)
DropNoise ==
  /\ InLoop
  /\ MagicAt = {}
  /\ LET keep == FrameUnits - 1 IN
     /\ Compacted(Len(buf) - keep)
     /\ resync' = IF decoder = "capture" THEN resync + Remaining - keep
                                         ELSE resync
  /\ UNCHANGED <<decoder, lookalikes, stream, read, decoded, crcFail>>

(* Mutant: the loop stays where the CRC failed.                             *)
RejectInPlace ==
  /\ InLoop
  /\ pos \in MagicAt
  /\ ~CrcOk
  /\ crcFail' = crcFail
  /\ UNCHANGED <<decoder, lookalikes, stream, read, buf, pos, pc, decoded,
                 resync>>

(* Mutant: a whole frame is skipped where the CRC failed.                   *)
RejectWhole ==
  /\ InLoop
  /\ pos \in MagicAt
  /\ ~CrcOk
  /\ crcFail' = crcFail + 1
  /\ resync' = resync + FrameUnits
  /\ pos' = pos + FrameUnits
  /\ UNCHANGED <<decoder, lookalikes, stream, read, buf, pc, decoded>>

Reject ==
  /\ InLoop
  /\ pos \in MagicAt
  /\ ~CrcOk
  /\ crcFail' = crcFail + 1
  /\ resync' = resync + 1
  /\ pos' = pos + 1
  /\ UNCHANGED <<decoder, lookalikes, stream, read, buf, pc, decoded>>

PassOn ==
  /\ InLoop
  /\ pos \in MagicAt
  /\ CrcOk
  /\ decoded' = Append(decoded, buf[pos + 1][1])
  /\ pos' = pos + FrameUnits
  /\ UNCHANGED <<decoder, lookalikes, stream, read, buf, pc, resync, crcFail>>

EndLoop ==
  /\ pc = "decoding"
  /\ Remaining < FrameUnits
  /\ Compacted(pos)
  /\ UNCHANGED <<decoder, lookalikes, stream, read, decoded, resync, crcFail>>

Decode == SkipToMagic \/ DropNoise \/ Reject \/ PassOn \/ EndLoop

Next == Read \/ Decode

Spec == Init /\ [][Next]_vars

(* The thread does not stop inside the loop.                                *)
FairSpec == Spec /\ WF_vars(Decode)

(***************************************************************************)
(* Properties                                                              *)
(***************************************************************************)
TypeOK ==
  /\ decoder \in {"operator", "capture"}
  /\ lookalikes \subseteq Payload
  /\ {stream, read, buf} \subseteq Seq(StreamUnits)
  /\ pos \in 0 .. Len(buf)
  /\ pc \in {"idle", "decoding"}
  /\ decoded \in Seq(Frames)
  /\ resync \in Nat
  /\ crcFail \in Nat

(* The frames whose units have all been read, one after the other.          *)
WholeFrames ==
  {f \in Frames :
     \E p \in 0 .. Len(read) - FrameUnits :
       SubSeq(read, p + 1, p + FrameUnits) = Part(f, 0, FrameUnits)}

(* Resynchronising costs no frame: however the stream was cut and whatever  *)
(* payload looks like a magic, when the loop of decodeStream or             *)
(* decode_tcp_stream ends, every frame that came whole has been passed on,  *)
(* once and in order, and nothing else has.                                 *)
WholeFramesDecoded ==
  pc = "idle" =>
    /\ Range(decoded) = WholeFrames
    /\ \A i \in 1 .. Len(decoded) - 1 : decoded[i] < decoded[i + 1]

(* Less than a frame is carried from one read to the next, so the fixed     *)
(* buffer of the operator (FrameReceiver.java:103) never fills up.          *)
CarriesLessThanAFrame == pc = "idle" => Len(buf) < FrameUnits

(* Every byte read is in a decoded frame, still buffered, or counted as     *)
(* skipped: exact in the capture tool, while the operator never counts a    *)
(* byte too many.                                                           *)
BytesAccounted ==
  LET rest == Len(read) - FrameUnits * Len(decoded) - Remaining IN
  /\ decoder = "capture" => resync = rest
  /\ decoder = "operator" => resync <= rest

(* Every read is decoded to its end; no input keeps the loop turning.       *)
LoopEnds == pc = "decoding" ~> pc = "idle"
=============================================================================
