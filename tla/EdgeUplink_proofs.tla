---------------------------- MODULE EdgeUplink_proofs ----------------------------
(***************************************************************************)
(* Where every sample ends up, for batches, frames and faults of any size   *)
(* and number: failover neither forgets nor repeats a frame, connections    *)
(* carry whole frames under auto, a fault tears one under tcp at most, and  *)
(* sent_ok is honest.                                                       *)
(***************************************************************************)
EXTENDS EdgeUplink, SequenceTheorems, FunctionTheorems, FiniteSetTheorems, TLAPS

(***************************************************************************)
(* The offset of a batch, in frames                                         *)
(***************************************************************************)
LEMMA Product ==
  ASSUME NEW x \in Nat, NEW y \in Nat, NEW f \in Nat \ {0}, x < y
  PROVE  f * x + f <= f * y
<1>1. f * (x + 1) <= f * y
  OBVIOUS
<1>2. f * (x + 1) = f * x + f
  OBVIOUS
<1>3. QED
  BY <1>1, <1>2

LEMMA Division ==
  ASSUME NEW a \in Nat, NEW f \in Nat \ {0}
  PROVE  /\ a \div f \in Nat
         /\ a % f \in 0 .. f - 1
         /\ a = f * (a \div f) + (a % f)
OBVIOUS

LEMMA QuotientBelow ==
  ASSUME NEW a \in Nat, NEW c \in Nat, NEW f \in Nat \ {0}, a < c * f
  PROVE  a \div f < c
<1>1. a \div f \in Nat /\ f * (a \div f) <= a
  BY Division
<1>2. SUFFICES ASSUME c <= a \div f PROVE FALSE
  BY <1>1
<1>3. f * c <= f * (a \div f)
  BY <1>1, <1>2
<1>4. QED
  BY <1>1, <1>3

LEMMA QuotientOfMultiple ==
  ASSUME NEW c \in Nat, NEW f \in Nat \ {0}
  PROVE  (c * f) \div f = c
OBVIOUS

LEMMA QuotientGrows ==
  ASSUME NEW a \in Nat, NEW b \in Nat, NEW f \in Nat \ {0}, a <= b
  PROVE  a \div f <= b \div f
<1>1. /\ a \div f \in Nat /\ f * (a \div f) <= a
      /\ b \div f \in Nat /\ b < f * (b \div f) + f
  BY Division
<1>2. SUFFICES ASSUME b \div f < a \div f PROVE FALSE
  BY <1>1
<1>3. f * (b \div f) + f <= f * (a \div f)
  BY <1>1, <1>2, Product
<1>4. QED
  BY <1>1, <1>3

(* Past the last unit of a frame the frame is taken whole.                  *)
LEMMA LastUnitFills ==
  ASSUME NEW a \in Nat, NEW b \in Nat, NEW f \in Nat \ {0},
         a % f = f - 1, a < b
  PROVE  a \div f + 1 <= b \div f
<1>a. a \div f \in Nat /\ a = f * (a \div f) + (a % f)
  BY Division
<1>b. /\ b \div f \in Nat /\ b % f \in 0 .. f - 1
      /\ b = f * (b \div f) + (b % f)
  BY Division
<1>c. f * (b \div f) \in Nat
  BY <1>b
<1>0. /\ a \div f \in Nat /\ a = f * (a \div f) + (a % f)
      /\ b \div f \in Nat /\ b < f * (b \div f) + f
  BY <1>a, <1>b, <1>c
<1>1. a = f * (a \div f) + (f - 1)
  BY <1>0
<1>2. SUFFICES ASSUME b \div f <= a \div f PROVE FALSE
  BY <1>0
<1>3. f * (b \div f) <= f * (a \div f)
  BY <1>0, <1>2
<1>4. QED
  BY <1>0, <1>1, <1>3

(***************************************************************************)
(* Batches                                                                  *)
(***************************************************************************)

(* No frame is in the batch twice, and the offset is inside it.             *)
Sound(b) ==
  /\ b \in Batches(Frames)
  /\ \A i, j \in 1 .. Len(b.frames) : b.frames[i] = b.frames[j] => i = j
  /\ b.offset = 0 \/ b.offset < Units(b)

(* The frames of the batch that the offset has not passed.                  *)
UnsentOf(b) == {b.frames[i] : i \in UnsentIndex(b) + 1 .. Count(b)}

LEMMA BatchFacts ==
  ASSUME NEW b \in Batches(Frames)
  PROVE  /\ b.frames \in Seq(Frames) /\ Count(b) \in Nat
         /\ b.offset \in Nat /\ b.flushAt \in 1 .. Capacity
         /\ Count(b) = Len(b.frames)
         /\ Units(b) \in Nat
         /\ FrameUnits \in Nat \ {0} /\ Capacity \in Nat \ {0}
         /\ UnsentIndex(b) \in Nat
<1>1. b.frames \in Seq(Frames) /\ b.offset \in Nat /\ b.flushAt \in 1 .. Capacity
  BY DEF Batches
<1>2. Count(b) \in Nat /\ Count(b) = Len(b.frames)
  BY <1>1 DEF Count
<1>3. FrameUnits \in Nat \ {0} /\ Capacity \in Nat \ {0}
  BY BatchAssumption
<1>4. Units(b) \in Nat
  BY <1>2, <1>3 DEF Units
<1>5. UnsentIndex(b) \in Nat
  BY <1>1, <1>3, Division DEF UnsentIndex
<1>6. QED
  BY <1>1, <1>2, <1>3, <1>4, <1>5

(* The unsent frames are frames.                                            *)
LEMMA UnsentAreFrames ==
  ASSUME NEW b \in Batches(Frames)
  PROVE  UnsentOf(b) \subseteq Frames
<1>1. /\ b.frames \in Seq(Frames) /\ Count(b) \in Nat
      /\ Count(b) = Len(b.frames) /\ UnsentIndex(b) \in Nat
  BY BatchFacts
<1>2. \A i \in UnsentIndex(b) + 1 .. Count(b) : b.frames[i] \in Frames
  BY <1>1, ElementOfSeq
<1>3. QED
  BY <1>2 DEF UnsentOf

LEMMA IndexInside ==
  ASSUME NEW b, Sound(b)
  PROVE  UnsentIndex(b) \in 0 .. Count(b) /\ b.offset \in 0 .. Units(b)
<1>1. b \in Batches(Frames) /\ (b.offset = 0 \/ b.offset < Units(b))
  BY DEF Sound
<1>2. /\ b.offset \in Nat /\ Count(b) \in Nat /\ Units(b) \in Nat
      /\ FrameUnits \in Nat \ {0} /\ UnsentIndex(b) \in Nat
  BY <1>1, BatchFacts
<1>3. CASE b.offset = 0
  <2>1. 0 \div FrameUnits = 0
    BY <1>2
  <2>2. QED
    BY <1>2, <1>3, <2>1 DEF UnsentIndex
<1>4. CASE b.offset < Units(b)
  <2>1. b.offset \div FrameUnits < Count(b)
    BY <1>2, <1>4, QuotientBelow DEF Units
  <2>2. QED
    BY <1>2, <1>4, <2>1 DEF UnsentIndex
<1>5. QED
  BY <1>1, <1>3, <1>4

LEMMA ClearedIs ==
  ASSUME NEW b \in Batches(Frames)
  PROVE  /\ Sound(Cleared(b))
         /\ Cleared(b).frames = <<>>
         /\ Cleared(b).offset = 0
         /\ UnsentOf(Cleared(b)) = {}
         /\ Below(Cleared(b), 0) = {}
<1>1. /\ Cleared(b).frames = <<>> /\ Cleared(b).offset = 0
      /\ Cleared(b) \in Batches(Frames)
  <2> DEFINE F == Seq(Frames)
             T == 1 .. Capacity
  <2>1. b \in [frames : F, offset : Nat, flushAt : T] /\ <<>> \in F
    BY DEF Batches
  <2> HIDE DEF F, T
  <2>2. Cleared(b) \in [frames : F, offset : Nat, flushAt : T]
    BY <2>1 DEF Cleared
  <2>3. Cleared(b).frames = <<>> /\ Cleared(b).offset = 0
    BY <2>1 DEF Cleared
  <2>4. QED
    BY <2>2, <2>3 DEF F, T, Batches
<1>2. Len(Cleared(b).frames) = 0
  BY <1>1
<1>3. 0 \div FrameUnits = 0
  BY BatchAssumption
<1>4. Sound(Cleared(b))
  BY <1>1, <1>2 DEF Sound
<1>5. QED
  BY <1>1, <1>2, <1>3, <1>4 DEF UnsentOf, UnsentIndex, Count, Below

(* The frames that an advance by k units takes over the line.               *)
TakenBy(b, k) ==
  {b.frames[i] : i \in UnsentIndex(b) + 1 .. (b.offset + k) \div FrameUnits}

(* flush_tcp: what it takes was unsent, and the rest still is.              *)
LEMMA AdvancedIs ==
  ASSUME NEW b, Sound(b), NEW k \in 0 .. Units(b) - b.offset
  PROVE  /\ Sound(Advanced(b, k))
         /\ UnsentOf(b) = TakenBy(b, k) \union UnsentOf(Advanced(b, k))
         /\ TakenBy(b, k) \intersect UnsentOf(Advanced(b, k)) = {}
         /\ Below(b, b.offset + k) = Below(b, b.offset) \union TakenBy(b, k)
         /\ Below(Advanced(b, k), Advanced(b, k).offset)
              \subseteq Below(b, b.offset + k)
         /\ b.offset + k = Units(b) => Advanced(b, k).frames = <<>>
<1> DEFINE idx == UnsentIndex(b)
           next == (b.offset + k) \div FrameUnits
<1>1. /\ b \in Batches(Frames)
      /\ b.offset = 0 \/ b.offset < Units(b)
      /\ \A i, j \in 1 .. Len(b.frames) : b.frames[i] = b.frames[j] => i = j
  BY DEF Sound
<1>2. /\ b.offset \in Nat /\ Count(b) \in Nat /\ Units(b) \in Nat
      /\ FrameUnits \in Nat \ {0} /\ Count(b) = Len(b.frames)
      /\ idx \in 0 .. Count(b)
  BY <1>1, BatchFacts, IndexInside
<1>3. b.offset + k \in 0 .. Units(b) /\ b.offset + k \in Nat
  BY <1>2
<1>4. next \in Nat /\ idx <= next
  <2>1. next \in Nat
    BY <1>2, <1>3, Division
  <2>2. b.offset \div FrameUnits <= next
    BY <1>2, <1>3, QuotientGrows
  <2>3. QED
    BY <2>1, <2>2 DEF UnsentIndex
<1>5. next <= Count(b)
  <2>1. (Count(b) * FrameUnits) \div FrameUnits = Count(b)
    BY <1>2, QuotientOfMultiple
  <2>2. next <= Units(b) \div FrameUnits
    BY <1>2, <1>3, QuotientGrows
  <2>3. QED
    BY <2>1, <2>2 DEF Units
<1>6. Below(b, b.offset + k) = Below(b, b.offset) \union TakenBy(b, k)
  BY <1>2, <1>4 DEF Below, TakenBy, UnsentIndex
<1>7. CASE b.offset + k = Units(b)
  <2>1. Advanced(b, k) = Cleared(b)
    BY <1>7 DEF Advanced
  <2>2. next = Count(b)
    BY <1>2, <1>7, QuotientOfMultiple DEF Units
  <2>3. TakenBy(b, k) = UnsentOf(b)
    BY <2>2 DEF TakenBy, UnsentOf
  <2>4. QED
    BY <1>1, <1>6, <2>1, <2>3, ClearedIs
<1>8. CASE b.offset + k # Units(b)
  <2> DEFINE a == Advanced(b, k)
  <2>1. a = [b EXCEPT !.offset = b.offset + k]
    BY <1>8 DEF Advanced
  <2>2. /\ a \in Batches(Frames) /\ a.frames = b.frames
        /\ a.offset = b.offset + k
    BY <1>1, <1>3, <2>1 DEF Batches
  <2>3. b.offset + k < Units(b)
    BY <1>3, <1>8, <1>2
  <2>4. Units(a) = Units(b) /\ Count(a) = Count(b) /\ UnsentIndex(a) = next
    BY <2>2 DEF Units, Count, UnsentIndex
  <2> HIDE DEF a
  <2>5. Sound(a)
    BY <1>1, <2>2, <2>3, <2>4 DEF Sound
  <2>6. UnsentOf(b) = TakenBy(b, k) \union UnsentOf(a)
    BY <1>2, <1>4, <1>5, <2>2, <2>4 DEF UnsentOf, TakenBy
  <2>7. TakenBy(b, k) \intersect UnsentOf(a) = {}
    <3>1. SUFFICES ASSUME NEW i \in idx + 1 .. next,
                          NEW j \in next + 1 .. Count(b),
                          b.frames[i] = b.frames[j]
                   PROVE  FALSE
      BY <2>2, <2>4 DEF UnsentOf, TakenBy
    <3>2. i \in 1 .. Len(b.frames) /\ j \in 1 .. Len(b.frames) /\ i # j
      BY <1>2, <1>4, <1>5
    <3>3. QED
      BY <1>1, <3>1, <3>2
  <2>8. Below(a, a.offset) = Below(b, b.offset + k)
    BY <2>2 DEF Below
  <2>9. QED
    BY <1>6, <1>8, <2>5, <2>6, <2>7, <2>8 DEF a
<1>9. QED
  BY <1>7, <1>8

(* A unit that is written is a frame's; the last one of a frame that the    *)
(* advance takes whole.                                                     *)
LEMMA UnitIs ==
  ASSUME NEW b, Sound(b), NEW k \in 0 .. Units(b) - b.offset, NEW j \in 1 .. k
  PROVE  /\ UnitAt(b, b.offset + j - 1) \in Frames \X (0 .. FrameUnits - 1)
         /\ UnitAt(b, b.offset + j - 1)[2] = FrameUnits - 1 =>
              UnitAt(b, b.offset + j - 1)[1] \in Below(b, b.offset + k)
<1> DEFINE at == b.offset + j - 1
<1>1. b \in Batches(Frames)
  BY DEF Sound
<1>2. /\ b.offset \in Nat /\ Count(b) \in Nat /\ Units(b) \in Nat
      /\ FrameUnits \in Nat \ {0} /\ Count(b) = Len(b.frames)
      /\ b.frames \in Seq(Frames)
  BY <1>1, BatchFacts
<1>3. at \in Nat /\ at < b.offset + k /\ at < Units(b) /\ b.offset + k \in Nat
  BY <1>2
<1> HIDE DEF at
<1>4. /\ at \div FrameUnits \in Nat /\ at % FrameUnits \in 0 .. FrameUnits - 1
      /\ at \div FrameUnits < Count(b)
  BY <1>2, <1>3, Division, QuotientBelow DEF Units
<1>5. at \div FrameUnits + 1 \in 1 .. Len(b.frames)
  BY <1>2, <1>4
<1>6. b.frames[at \div FrameUnits + 1] \in Frames
  BY <1>2, <1>5, ElementOfSeq
<1>7. UnitAt(b, at) = <<b.frames[at \div FrameUnits + 1], at % FrameUnits>>
  BY DEF UnitAt
<1>8. ASSUME at % FrameUnits = FrameUnits - 1
      PROVE  b.frames[at \div FrameUnits + 1] \in Below(b, b.offset + k)
  <2>1. at \div FrameUnits + 1 <= (b.offset + k) \div FrameUnits
    BY <1>2, <1>3, <1>8, LastUnitFills
  <2>2. (b.offset + k) \div FrameUnits \in Nat
    BY <1>2, <1>3, Division
  <2>3. QED
    BY <1>4, <2>1, <2>2 DEF Below
<1>9. QED
  BY <1>4, <1>6, <1>7, <1>8 DEF at

(* The frames after the offset, as a sequence and as a set.                 *)
LEMMA UnsentIs ==
  ASSUME NEW b, Sound(b)
  PROVE  /\ UnsentFrames(b) \in Seq(Frames)
         /\ Len(UnsentFrames(b)) = Count(b) - UnsentIndex(b)
         /\ Range(UnsentFrames(b)) = UnsentOf(b)
<1> DEFINE idx == UnsentIndex(b)
<1>1. b \in Batches(Frames)
  BY DEF Sound
<1>2. /\ Count(b) \in Nat /\ Count(b) = Len(b.frames)
      /\ b.frames \in Seq(Frames) /\ idx \in 0 .. Count(b)
  BY <1>1, BatchFacts, IndexInside
<1>3. /\ UnsentFrames(b) \in Seq(Frames)
      /\ Len(UnsentFrames(b)) = Count(b) - idx
      /\ \A i \in 1 .. Count(b) - idx :
           UnsentFrames(b)[i] = b.frames[idx + i]
  <2>1. \A i \in idx + 1 .. Count(b) : b.frames[i] \in Frames
    BY <1>2, ElementOfSeq
  <2>2. idx + 1 \in Int /\ Count(b) \in Int
    BY <1>2
  <2>3. /\ UnsentFrames(b) \in Seq(Frames)
        /\ Len(UnsentFrames(b)) =
             IF idx + 1 <= Count(b) THEN Count(b) - (idx + 1) + 1 ELSE 0
        /\ \A i \in 1 .. Count(b) - (idx + 1) + 1 :
             UnsentFrames(b)[i] = b.frames[idx + 1 + i - 1]
    BY <2>1, <2>2, SubSeqProperties DEF UnsentFrames
  <2>4. QED
    BY <1>2, <2>3
<1>4. Range(UnsentFrames(b)) = UnsentOf(b)
  <2>1. DOMAIN UnsentFrames(b) = 1 .. Count(b) - idx
    BY <1>2, <1>3
  <2>2. ASSUME NEW i \in 1 .. Count(b) - idx
        PROVE  UnsentFrames(b)[i] \in UnsentOf(b)
    <3>1. idx + i \in idx + 1 .. Count(b)
      BY <1>2
    <3>2. QED
      BY <1>3, <3>1 DEF UnsentOf
  <2>3. ASSUME NEW j \in idx + 1 .. Count(b)
        PROVE  \E i \in 1 .. Count(b) - idx : UnsentFrames(b)[i] = b.frames[j]
    <3>1. j - idx \in 1 .. Count(b) - idx /\ idx + (j - idx) = j
      BY <1>2
    <3>2. QED
      BY <1>3, <3>1
  <2>4. QED
    BY <2>1, <2>2, <2>3 DEF Range, UnsentOf
<1>5. QED
  BY <1>3, <1>4

(* What goes over UDP is what TCP left, whether or not frames that were     *)
(* sent are still in the batch.                                             *)
LEMMA DiscardedIs ==
  ASSUME NEW b, Sound(b)
  PROVE  /\ DiscardedFullySent(b) \in Batches(Frames)
         /\ Range(UnsentFrames(DiscardedFullySent(b))) = UnsentOf(b)
<1> DEFINE idx == UnsentIndex(b)
           d == DiscardedFullySent(b)
<1>1. b \in Batches(Frames)
  BY DEF Sound
<1>2. /\ b.offset \in Nat /\ Count(b) \in Nat /\ Count(b) = Len(b.frames)
      /\ b.frames \in Seq(Frames) /\ idx \in 0 .. Count(b)
      /\ FrameUnits \in Nat \ {0}
  BY <1>1, BatchFacts, IndexInside
<1>3. UnsentFrames(b) \in Seq(Frames) /\ Range(UnsentFrames(b)) = UnsentOf(b)
  BY UnsentIs
<1>4. Range(UnsentFrames(b)) = UnsentOf(b)
  BY <1>3
<1>5. CASE idx = 0
  BY <1>1, <1>4, <1>5 DEF DiscardedFullySent
<1>6. CASE idx # 0 /\ idx >= Count(b)
  <2>1. d = Cleared(b)
    BY <1>6 DEF DiscardedFullySent
  <2>2. Len(d.frames) = 0 /\ d.offset = 0 /\ d \in Batches(Frames)
    BY <1>1, <2>1, ClearedIs DEF Sound
  <2>3. UnsentFrames(d) = <<>>
    <3>1. UnsentIndex(d) = 0
      BY <1>2, <2>2 DEF UnsentIndex
    <3>2. QED
      BY <2>2, <3>1, SubSeqEmpty DEF UnsentFrames, Count
  <2>4. UnsentOf(b) = {}
    BY <1>2, <1>6 DEF UnsentOf
  <2>5. QED
    BY <2>2, <2>3, <2>4 DEF Range
<1>7. CASE idx # 0 /\ idx < Count(b)
  <2>1. d = [b EXCEPT !.frames = UnsentFrames(b), !.offset = 0]
    BY <1>2, <1>7 DEF DiscardedFullySent
  <2>2. /\ d \in Batches(Frames) /\ d.frames = UnsentFrames(b) /\ d.offset = 0
    <3> DEFINE F == Seq(Frames)
               T == 1 .. Capacity
    <3>1. b \in [frames : F, offset : Nat, flushAt : T]
          /\ UnsentFrames(b) \in F
      BY <1>1, <1>3 DEF Batches
    <3> HIDE DEF F, T, d
    <3>2. d \in [frames : F, offset : Nat, flushAt : T]
      BY <2>1, <3>1
    <3>3. d.frames = UnsentFrames(b) /\ d.offset = 0
      BY <2>1, <3>1
    <3>4. QED
      BY <3>2, <3>3 DEF F, T, Batches
  <2> HIDE DEF d
  <2>3. UnsentIndex(d) = 0
    BY <1>2, <2>2 DEF UnsentIndex
  <2>4. UnsentFrames(d) = SubSeq(UnsentFrames(b), 1, Len(UnsentFrames(b)))
    BY <2>2, <2>3 DEF UnsentFrames, Count
  <2>5. UnsentFrames(d) = UnsentFrames(b)
    BY <1>3, <2>4
  <2>6. QED
    BY <1>4, <2>2, <2>5 DEF d
<1>8. QED
  BY <1>2, <1>5, <1>6, <1>7

(* push: the new frame is unsent, and nothing else changes.                 *)
LEMMA PushedIs ==
  ASSUME NEW b, Sound(b), ~Full(b), NEW f \in Frames,
         \A i \in 1 .. Len(b.frames) : b.frames[i] # f
  PROVE  /\ Sound(Pushed(b, f))
         /\ UnsentOf(Pushed(b, f)) = UnsentOf(b) \union {f}
         /\ Below(Pushed(b, f), Pushed(b, f).offset) = Below(b, b.offset)
<1> DEFINE p == Pushed(b, f)
           idx == UnsentIndex(b)
           F == Seq(Frames)
           T == 1 .. Capacity
<1>1. /\ b \in Batches(Frames)
      /\ b.offset = 0 \/ b.offset < Units(b)
      /\ \A i, j \in 1 .. Len(b.frames) : b.frames[i] = b.frames[j] => i = j
  BY DEF Sound
<1>2. /\ b.offset \in Nat /\ Count(b) \in Nat /\ Count(b) = Len(b.frames)
      /\ b.frames \in Seq(Frames) /\ idx \in 0 .. Count(b)
      /\ FrameUnits \in Nat \ {0} /\ Units(b) \in Nat
  BY <1>1, BatchFacts, IndexInside
<1>3. p = [b EXCEPT !.frames = Append(b.frames, f)]
  BY DEF Pushed
<1>4. /\ Append(b.frames, f) \in Seq(Frames)
      /\ Len(Append(b.frames, f)) = Count(b) + 1
      /\ \A i \in 1 .. Count(b) : Append(b.frames, f)[i] = b.frames[i]
      /\ Append(b.frames, f)[Count(b) + 1] = f
  BY <1>2, AppendProperties
<1>5. p \in Batches(Frames) /\ p.frames = Append(b.frames, f)
      /\ p.offset = b.offset
  <2>1. b \in [frames : F, offset : Nat, flushAt : T]
        /\ Append(b.frames, f) \in F
    BY <1>1, <1>4 DEF Batches
  <2> HIDE DEF F, T, p
  <2>2. p \in [frames : F, offset : Nat, flushAt : T]
    BY <1>3, <2>1
  <2>3. p.frames = Append(b.frames, f) /\ p.offset = b.offset
    BY <1>3, <2>1
  <2>4. QED
    BY <2>2, <2>3 DEF F, T, Batches
<1> HIDE DEF p
<1>6. /\ Count(p) = Count(b) + 1 /\ UnsentIndex(p) = idx
      /\ \A i \in 1 .. Count(b) : p.frames[i] = b.frames[i]
      /\ p.frames[Count(b) + 1] = f
  BY <1>4, <1>5 DEF Count, UnsentIndex
<1>7. Sound(p)
  <2>1. Units(p) = Units(b) + FrameUnits
    <3>1. (Count(b) + 1) * FrameUnits = Count(b) * FrameUnits + FrameUnits
      BY <1>2
    <3>2. QED
      BY <1>6, <3>1 DEF Units
  <2>2. p.offset = 0 \/ p.offset < Units(p)
    BY <1>1, <1>2, <1>5, <2>1
  <2>3. ASSUME NEW i \in 1 .. Len(p.frames), NEW j \in 1 .. Len(p.frames),
               p.frames[i] = p.frames[j]
        PROVE  i = j
    <3>1. i \in 1 .. Count(b) + 1 /\ j \in 1 .. Count(b) + 1
      BY <1>4, <1>5
    <3>2. QED
      BY <1>1, <1>2, <1>6, <2>3, <3>1
  <2>4. QED
    BY <1>5, <2>2, <2>3 DEF Sound
<1>8. UnsentOf(p) = UnsentOf(b) \union {f}
  <2>1. UnsentOf(p) = {p.frames[i] : i \in idx + 1 .. Count(b) + 1}
    BY <1>6 DEF UnsentOf
  <2>2. idx + 1 .. Count(b) + 1 = (idx + 1 .. Count(b)) \union {Count(b) + 1}
    BY <1>2
  <2>3. \A i \in idx + 1 .. Count(b) : p.frames[i] = b.frames[i]
    BY <1>2, <1>6
  <2>4. {p.frames[i] : i \in idx + 1 .. Count(b)} = UnsentOf(b)
    BY <2>3 DEF UnsentOf
  <2>5. QED
    BY <1>6, <2>1, <2>2, <2>4
<1>9. Below(p, p.offset) = Below(b, b.offset)
  BY <1>2, <1>5, <1>6 DEF Below, UnsentIndex
<1>10. QED
  BY <1>7, <1>8, <1>9 DEF p

(***************************************************************************)
(* The invariant, of a state and of the outcome of a flush                  *)
(***************************************************************************)
WireUnits == Frames \X (0 .. FrameUnits - 1)
Tcps == [link : Links, wait : Nat, backoff : Nat, stream : Seq(WireUnits)]

(* The first n samples are each in one place, and what TCP has taken of the *)
(* batch is among what it took.                                             *)
Placed(b, taken, fwd, failed, n) ==
  /\ UnsentOf(b) \union taken \union fwd \union failed \union dropped
       = 0 .. n - 1
  /\ UnsentOf(b) \intersect (taken \union fwd \union failed \union dropped) = {}
  /\ taken \intersect (fwd \union failed \union dropped) = {}
  /\ fwd \intersect (failed \union dropped) = {}
  /\ failed \intersect dropped = {}
  /\ Below(b, b.offset) \subseteq taken

(* A frame whose last unit is on the connection was taken.                  *)
Streamed(t, taken) ==
  \A p \in 1 .. Len(t.stream) :
    t.stream[p][2] = FrameUnits - 1 => t.stream[p][1] \in taken

Outcomes ==
  [ok : BOOLEAN, alive : BOOLEAN, batch : Batches(Frames), tcp : Tcps,
   faults : Nat, drained : SUBSET Frames, whole : SUBSET Frames,
   forwarded : SUBSET Frames, lost : SUBSET Frames]

Good(o, n) ==
  /\ o \in Outcomes
  /\ Sound(o.batch)
  /\ Placed(o.batch, o.drained, o.forwarded, o.lost, n)
  /\ Streamed(o.tcp, o.drained)
  /\ o.whole \subseteq o.drained
  /\ o.ok => o.batch.frames = <<>>

Typed ==
  /\ transport \in Transports
  /\ faults \in Nat /\ seq \in 0 .. MaxFrames
  /\ drained \in SUBSET Frames /\ whole \in SUBSET Frames
  /\ forwarded \in SUBSET Frames /\ lost \in SUBSET Frames
  /\ dropped \in SUBSET Frames

(* What a flush begins with: batch b, connection t, the first n samples.    *)
Ready(b, t, n) ==
  /\ Typed
  /\ n \in 0 .. MaxFrames
  /\ t \in Tcps
  /\ Sound(b)
  /\ Placed(b, drained, forwarded, lost, n)
  /\ Streamed(t, drained)
  /\ whole \subseteq drained

UplinkInv == Ready(batch, tcp, seq) /\ (pc = "sample" => ~Full(batch))

(***************************************************************************)
(* Flushing                                                                 *)
(***************************************************************************)
LEMMA UntriedIsGood ==
  ASSUME NEW b, NEW t, NEW n, Ready(b, t, n)
  PROVE  Good(Untried(b, t), n)
<1>1. Untried(b, t) \in Outcomes
  BY DEF Ready, Typed, Sound, Untried, Outcomes
<1>2. QED
  BY <1>1 DEF Ready, Untried, Good

(* The units of one more write behind the stream.                           *)
LEMMA WroteIs ==
  ASSUME NEW b, NEW t \in Tcps, Sound(b), NEW k \in 0 .. Units(b) - b.offset,
         NEW taken, Streamed(t, taken)
  PROVE  /\ Wrote(t, b, k) \in Tcps
         /\ Streamed(Wrote(t, b, k), taken \union Below(b, b.offset + k))
<1> DEFINE more == [j \in 1 .. k |-> UnitAt(b, b.offset + j - 1)]
           after == Wrote(t, b, k)
<1>1. b.offset \in Nat /\ Units(b) \in Nat
  BY BatchFacts DEF Sound
<1>2. k \in Nat /\ t.stream \in Seq(WireUnits) /\ Len(t.stream) \in Nat
  BY <1>1 DEF Tcps
<1>3. more \in Seq(WireUnits) /\ Len(more) = k
  <2>1. \A j \in 1 .. k : more[j] \in WireUnits
    BY UnitIs DEF WireUnits
  <2>2. QED
    BY <1>2, <2>1
<1>4. /\ after.stream = t.stream \o more
      /\ after.link \in Links
  BY DEF Wrote, Tcps, Links
<1>5. t.stream \o more \in Seq(WireUnits)
  <2> HIDE DEF more
  <2>1. QED
    BY <1>2, <1>3, ConcatProperties
<1>6. after \in Tcps
  <2> DEFINE S == Seq(WireUnits)
             s == t.stream \o more
             l == IF t.link = "closing" /\ k > 0 THEN "doomed" ELSE t.link
  <2>1. after = [t EXCEPT !.link = l, !.stream = s]
    BY DEF Wrote
  <2>2. /\ t \in [link : Links, wait : Nat, backoff : Nat, stream : S]
        /\ s \in S /\ l \in Links
    BY <1>5 DEF Tcps, Links
  <2> HIDE DEF S, s, l, after
  <2>3. after \in [link : Links, wait : Nat, backoff : Nat, stream : S]
    BY <2>1, <2>2
  <2>4. QED
    BY <2>3 DEF S, Tcps
<1>7. ASSUME NEW p \in 1 .. Len(after.stream),
             after.stream[p][2] = FrameUnits - 1
      PROVE  after.stream[p][1] \in taken \union Below(b, b.offset + k)
  <2>1. p \in 1 .. Len(t.stream) + k
    <3> HIDE DEF more, after
    <3>1. QED
      BY <1>2, <1>3, <1>4, ConcatProperties
  <2>2. CASE p <= Len(t.stream)
    <3>1. p \in 1 .. Len(t.stream)
      BY <1>2, <2>1, <2>2
    <3>2. after.stream[p] = t.stream[p]
      <4> HIDE DEF more, after
      <4>1. QED
        BY <1>2, <1>3, <1>4, <2>1, <2>2, ConcatProperties
    <3>3. QED
      BY <1>7, <3>1, <3>2 DEF Streamed
  <2>3. CASE ~(p <= Len(t.stream))
    <3>1. p - Len(t.stream) \in 1 .. k
      BY <1>2, <2>1, <2>3
    <3>2. after.stream[p] = more[p - Len(t.stream)]
      <4> HIDE DEF more, after
      <4>1. QED
        BY <1>2, <1>3, <1>4, <2>1, <2>3, ConcatProperties
    <3>3. after.stream[p] = UnitAt(b, b.offset + (p - Len(t.stream)) - 1)
      BY <3>1, <3>2
    <3>4. QED
      BY <1>7, <3>1, <3>3, UnitIs
  <2>4. QED
    BY <2>2, <2>3
<1>8. QED
  BY <1>6, <1>7 DEF Streamed

(* A connection that is closed holds no stream.                             *)
LEMMA DisconnectedIs ==
  ASSUME NEW t \in Tcps, NEW taken
  PROVE  Disconnected(t) \in Tcps /\ Streamed(Disconnected(t), taken)
<1> DEFINE S == Seq(WireUnits)
<1>1. /\ t \in [link : Links, wait : Nat, backoff : Nat, stream : S]
      /\ "none" \in Links /\ <<>> \in S
  BY DEF Tcps, Links
<1> HIDE DEF S
<1>2. /\ Disconnected(t) \in [link : Links, wait : Nat, backoff : Nat, stream : S]
      /\ Disconnected(t).stream = <<>>
  BY <1>1 DEF Disconnected
<1>3. Len(Disconnected(t).stream) = 0
  BY <1>2
<1>4. QED
  BY <1>2, <1>3 DEF S, Tcps, Streamed

(* A frame that is whole on a connection ends there.                        *)
LEMMA WholeIsTaken ==
  ASSUME NEW t \in Tcps, NEW taken, Streamed(t, taken)
  PROVE  WholeIn(t.stream) \subseteq taken
<1>1. SUFFICES ASSUME NEW f \in Frames,
                      NEW p \in 1 .. Len(t.stream) - FrameUnits + 1,
                      \A u \in 0 .. FrameUnits - 1 : t.stream[p + u] = <<f, u>>
               PROVE  f \in taken
  BY DEF WholeIn
<1>2. FrameUnits \in Nat \ {0} /\ Len(t.stream) \in Nat
  BY BatchAssumption DEF Tcps
<1>3. FrameUnits - 1 \in 0 .. FrameUnits - 1
      /\ p + (FrameUnits - 1) \in 1 .. Len(t.stream)
  BY <1>2
<1>4. t.stream[p + (FrameUnits - 1)] = <<f, FrameUnits - 1>>
  BY <1>1, <1>3
<1>5. QED
  BY <1>3, <1>4 DEF Streamed

(* flush_tcp_retry: k more units are out, and something ended it.           *)
LEMMA SentIsGood ==
  ASSUME NEW b, NEW t, NEW n, Ready(b, t, n),
         NEW k \in 0 .. Units(b) - b.offset, NEW end \in SendEnds,
         end = "drained" => k = Units(b) - b.offset
  PROVE  Good(Sent(b, t, k, end), n)
<1> DEFINE wrote == Wrote(t, b, k)
           o == Sent(b, t, k, end)
           taken == drained \union Below(b, b.offset + k)
           kept == IF end = "failed" THEN Disconnected(t) ELSE wrote
           full == whole \union WholeIn(wrote.stream)
           failures == IF end = "failed" /\ t.link = "live"
                         THEN faults + 1 ELSE faults
<1>1. /\ t \in Tcps /\ Sound(b) /\ b \in Batches(Frames)
      /\ Typed /\ Streamed(t, drained) /\ whole \subseteq drained
      /\ Placed(b, drained, forwarded, lost, n)
  BY DEF Ready, Sound
<1>2. b.offset \in Nat /\ Units(b) \in Nat
  BY <1>1, BatchFacts
<1>3. /\ Sound(Advanced(b, k)) /\ Advanced(b, k) \in Batches(Frames)
      /\ UnsentOf(b) = TakenBy(b, k) \union UnsentOf(Advanced(b, k))
      /\ TakenBy(b, k) \intersect UnsentOf(Advanced(b, k)) = {}
      /\ Below(b, b.offset + k) = Below(b, b.offset) \union TakenBy(b, k)
      /\ Below(Advanced(b, k), Advanced(b, k).offset)
           \subseteq Below(b, b.offset + k)
      /\ b.offset + k = Units(b) => Advanced(b, k).frames = <<>>
  BY <1>1, AdvancedIs DEF Sound
<1>4. wrote \in Tcps /\ Streamed(wrote, taken)
  BY <1>1, WroteIs
<1>5. kept \in Tcps /\ Streamed(kept, taken)
  <2>1. Disconnected(t) \in Tcps /\ Streamed(Disconnected(t), taken)
    BY <1>1, DisconnectedIs
  <2>2. QED
    BY <1>4, <2>1
<1>6. full \subseteq taken
  <2> HIDE DEF wrote, taken
  <2>1. WholeIn(wrote.stream) \subseteq taken
    BY <1>4, WholeIsTaken
  <2>2. QED
    BY <1>1, <2>1 DEF taken
<1>7. taken \in SUBSET Frames /\ full \in SUBSET Frames
  <2>1. UnsentOf(b) \subseteq Frames
    BY <1>1, UnsentAreFrames
  <2>2. Below(b, b.offset + k) \subseteq Frames
    BY <1>1, <1>3, <2>1 DEF Placed, Typed
  <2>3. QED
    BY <1>1, <1>6, <2>2 DEF Typed
<1>8. failures \in Nat
  BY <1>1 DEF Typed
<1> HIDE DEF wrote, taken, kept, full, failures
<1>9. o = [ok |-> (end = "drained"), alive |-> (end # "killed"),
           batch |-> Advanced(b, k), tcp |-> kept, faults |-> failures,
           drained |-> taken, whole |-> full, forwarded |-> forwarded,
           lost |-> lost]
  <2> DEFINE u == Untried(b, t)
  <2>1. o = [u EXCEPT !.ok = (end = "drained"), !.alive = (end # "killed"),
                      !.batch = Advanced(b, k), !.tcp = kept,
                      !.faults = failures, !.drained = taken, !.whole = full]
    BY Zenon DEF Sent, Untried, wrote, taken, kept, full, failures
  <2>2. u = [ok |-> FALSE, alive |-> TRUE, batch |-> b, tcp |-> t,
             faults |-> faults, drained |-> drained, whole |-> whole,
             forwarded |-> forwarded, lost |-> lost]
    BY DEF Untried
  <2> HIDE DEF u, o
  <2>3. QED
    BY <2>1, <2>2
<1>10. o \in Outcomes
  BY <1>1, <1>3, <1>5, <1>7, <1>8, <1>9 DEF Outcomes, Typed
<1>11. Placed(o.batch, o.drained, o.forwarded, o.lost, n)
  <2> DEFINE u == UnsentOf(Advanced(b, k))
             v == TakenBy(b, k)
             w == Below(Advanced(b, k), Advanced(b, k).offset)
  <2>1. /\ UnsentOf(b) = v \union u /\ v \intersect u = {}
        /\ taken = drained \union Below(b, b.offset) \union v
        /\ w \subseteq taken
    BY <1>3 DEF taken
  <2>2. /\ o.batch = Advanced(b, k) /\ o.drained = taken
        /\ o.forwarded = forwarded /\ o.lost = lost
    BY <1>9
  <2> HIDE DEF u, v, w, o
  <2>3. taken = drained \union v
    BY <1>1, <2>1 DEF Placed
  <2>4. Placed(Advanced(b, k), taken, forwarded, lost, n)
    <3>1. u \union taken \union forwarded \union lost \union dropped = 0 .. n - 1
      BY <1>1, <2>1, <2>3 DEF Placed
    <3>2. u \intersect (taken \union forwarded \union lost \union dropped) = {}
      BY <1>1, <2>1, <2>3 DEF Placed
    <3>3. taken \intersect (forwarded \union lost \union dropped) = {}
      BY <1>1, <2>1, <2>3 DEF Placed
    <3>4. QED
      BY <1>1, <2>1, <3>1, <3>2, <3>3 DEF Placed, u, w
  <2>5. QED
    BY <2>2, <2>4
<1>12. o.ok => o.batch.frames = <<>>
  <2>1. o.ok = (end = "drained") /\ o.batch = Advanced(b, k)
    BY <1>9
  <2>2. end = "drained" => b.offset + k = Units(b)
    BY <1>2
  <2> HIDE DEF o
  <2>3. QED
    BY <1>3, <2>1, <2>2
<1>13. QED
  <2>1. /\ o.batch = Advanced(b, k) /\ o.tcp = kept /\ o.drained = taken
        /\ o.whole = full
    BY <1>9
  <2> HIDE DEF o
  <2>2. QED
    BY <1>3, <1>5, <1>6, <1>10, <1>11, <1>12, <2>1 DEF Good, o

(* flush_udp_direct and flush_udp_mesh: what was unsent went or was lost.   *)
LEMMA UdpIsGood ==
  ASSUME NEW o, NEW n, Good(o, n), NEW u \in UdpFlushes(o)
  PROVE  Good(u, n)
<1> DEFINE d == DiscardedFullySent(o.batch)
           unsent == UnsentOf(o.batch)
<1>1. /\ o \in Outcomes /\ Sound(o.batch) /\ Streamed(o.tcp, o.drained)
      /\ Placed(o.batch, o.drained, o.forwarded, o.lost, n)
      /\ o.whole \subseteq o.drained
  BY DEF Good
<1>2. d \in Batches(Frames) /\ Range(UnsentFrames(d)) = unsent
  BY <1>1, DiscardedIs
<1> HIDE DEF d
<1>3. PICK sent \in SUBSET unsent :
        u = [o EXCEPT !.ok = (sent = unsent),
                      !.batch = Cleared(d),
                      !.forwarded = @ \union sent,
                      !.lost = @ \union (unsent \ sent)]
  BY <1>2 DEF UdpFlushes, d
<1>4. /\ Sound(Cleared(d)) /\ Cleared(d) \in Batches(Frames)
      /\ Cleared(d).frames = <<>> /\ Cleared(d).offset = 0
      /\ UnsentOf(Cleared(d)) = {} /\ Below(Cleared(d), 0) = {}
  BY <1>2, ClearedIs DEF Sound
<1>5. unsent \subseteq Frames
  BY <1>1, UnsentAreFrames DEF Sound
<1> HIDE DEF unsent
<1>6. /\ u.ok = (sent = unsent) /\ u.batch = Cleared(d)
      /\ u.forwarded = o.forwarded \union sent
      /\ u.lost = o.lost \union (unsent \ sent)
      /\ u.tcp = o.tcp /\ u.drained = o.drained /\ u.whole = o.whole
      /\ u.alive = o.alive /\ u.faults = o.faults
  BY <1>1, <1>3 DEF Outcomes
<1>7. u \in Outcomes
  BY <1>1, <1>3, <1>4, <1>5 DEF Outcomes
<1>8. Placed(Cleared(d), o.drained, o.forwarded \union sent,
             o.lost \union (unsent \ sent), n)
  BY <1>1, <1>4 DEF Placed, unsent
<1>9. QED
  BY <1>1, <1>4, <1>6, <1>7, <1>8 DEF Good

(* adapt moves the flush target only.                                       *)
LEMMA AdaptedIsGood ==
  ASSUME NEW o, NEW n, Good(o, n), NEW time
  PROVE  Good(AdaptedAfter(o, time), n)
<1> DEFINE b == o.batch
           a == Adapted(b, o.ok, time)
           F == Seq(Frames)
           at == IF ~o.ok \/ time = "slow" THEN Halved(b.flushAt)
                 ELSE IF time = "cheap" /\ b.flushAt < Capacity
                   THEN b.flushAt + 1 ELSE b.flushAt
           T == 1 .. Capacity
<1>1. /\ o \in Outcomes /\ Sound(b) /\ b \in Batches(Frames)
      /\ Streamed(o.tcp, o.drained)
      /\ Placed(b, o.drained, o.forwarded, o.lost, n)
      /\ o.whole \subseteq o.drained
      /\ o.ok => b.frames = <<>>
  BY DEF Good, Sound
<1>2. at \in 1 .. Capacity
  <2>1. b.flushAt \in 1 .. Capacity /\ Capacity \in Nat
    BY <1>1, BatchFacts
  <2>2. QED
    BY <2>1 DEF Halved
<1>3. a = [b EXCEPT !.flushAt = at]
  BY DEF Adapted
<1>4. a \in Batches(Frames) /\ a.frames = b.frames /\ a.offset = b.offset
  <2>1. b \in [frames : F, offset : Nat, flushAt : T] /\ at \in T
    BY <1>1, <1>2 DEF Batches
  <2> HIDE DEF F, T, a, at, b
  <2>2. a \in [frames : F, offset : Nat, flushAt : T]
    BY <1>3, <2>1
  <2>3. a.frames = b.frames /\ a.offset = b.offset
    BY <1>3, <2>1
  <2>4. QED
    BY <2>2, <2>3 DEF F, T, Batches
<1> HIDE DEF a, b
<1>5. Sound(a) /\ UnsentOf(a) = UnsentOf(b) /\ Below(a, a.offset) = Below(b, b.offset)
  BY <1>1, <1>4 DEF Sound, Units, Count, UnsentOf, UnsentIndex, Below
<1>6. AdaptedAfter(o, time) = [o EXCEPT !.batch = a]
  BY DEF AdaptedAfter, a, b
<1>7. /\ AdaptedAfter(o, time) \in Outcomes
      /\ AdaptedAfter(o, time).batch = a
      /\ AdaptedAfter(o, time).ok = o.ok
      /\ AdaptedAfter(o, time).tcp = o.tcp
      /\ AdaptedAfter(o, time).drained = o.drained
      /\ AdaptedAfter(o, time).whole = o.whole
      /\ AdaptedAfter(o, time).forwarded = o.forwarded
      /\ AdaptedAfter(o, time).lost = o.lost
  BY <1>1, <1>4, <1>6 DEF Outcomes
<1>8. Placed(a, o.drained, o.forwarded, o.lost, n)
  BY <1>1, <1>5 DEF Placed
<1>9. QED
  BY <1>1, <1>4, <1>5, <1>7, <1>8 DEF Good

(* Lines 185-188 of flush_batch.                                            *)
LEMMA ClosedIsGood ==
  ASSUME NEW o, NEW n, Good(o, n), NEW partial
  PROVE  Good(ClosedAfterPartial(partial, o), n)
<1> DEFINE c == [o EXCEPT !.tcp = Disconnected(o.tcp)]
<1>1. /\ o \in Outcomes /\ Sound(o.batch) /\ o.tcp \in Tcps
      /\ Placed(o.batch, o.drained, o.forwarded, o.lost, n)
      /\ o.whole \subseteq o.drained
      /\ o.ok => o.batch.frames = <<>>
  BY DEF Good, Outcomes
<1>2. Disconnected(o.tcp) \in Tcps /\ Streamed(Disconnected(o.tcp), o.drained)
  BY <1>1, DisconnectedIs
<1>4. /\ c \in Outcomes /\ c.tcp = Disconnected(o.tcp)
      /\ c.batch = o.batch /\ c.ok = o.ok /\ c.drained = o.drained
      /\ c.whole = o.whole /\ c.forwarded = o.forwarded /\ c.lost = o.lost
  BY <1>1, <1>2 DEF Outcomes
<1>5. Streamed(c.tcp, c.drained)
  BY <1>2, <1>4
<1>6. Good(c, n)
  <2> HIDE DEF c
  <2>1. QED
    BY <1>1, <1>4, <1>5 DEF Good
<1>7. QED
  BY <1>6 DEF ClosedAfterPartial

LEMMA MinOfTwo ==
  ASSUME NEW x \in Nat, NEW y \in Nat
  PROVE  Min({x, y}) \in Nat
<1>1. \E m \in {x, y} : \A z \in {x, y} : m <= z
  BY DEF Min
<1>2. Min({x, y}) \in {x, y}
  BY <1>1 DEF Min
<1>3. QED
  BY <1>2

(* try_connect: a new connection begins with an empty stream.               *)
LEMMA TriedIs ==
  ASSUME NEW t \in Tcps, NEW taken, Streamed(t, taken)
  PROVE  TriedConnect(t) \in Tcps /\ Streamed(TriedConnect(t), taken)
<1> DEFINE S == Seq(WireUnits)
           later == Min({BackoffCap, 2 * t.backoff})
           fresh == [link |-> "live", wait |-> 0, backoff |-> 1, stream |-> <<>>]
           put == [t EXCEPT !.wait = t.backoff, !.backoff = later]
<1>1. /\ t \in [link : Links, wait : Nat, backoff : Nat, stream : S]
      /\ "live" \in Links /\ <<>> \in S
  BY DEF Tcps, Links
<1>2. later \in Nat
  <2>1. t.backoff \in Nat /\ BackoffCap \in Nat
    BY UplinkAssumption DEF Tcps
  <2>2. QED
    BY <2>1, MinOfTwo
<1>3. TriedConnect(t) \in {t, fresh, put}
  BY DEF TriedConnect
<1> HIDE DEF S, later
<1>4. fresh \in Tcps /\ Streamed(fresh, taken)
  <2>1. Len(fresh.stream) = 0
    OBVIOUS
  <2>2. fresh \in [link : Links, wait : Nat, backoff : Nat, stream : S]
    BY <1>1
  <2> HIDE DEF fresh
  <2>3. QED
    BY <2>1, <2>2 DEF S, Tcps, Streamed
<1>5. put \in Tcps /\ Streamed(put, taken)
  <2>1. /\ put \in [link : Links, wait : Nat, backoff : Nat, stream : S]
        /\ put.stream = t.stream
    BY <1>1, <1>2
  <2> HIDE DEF put
  <2>2. QED
    BY <2>1 DEF S, Tcps, Streamed
<1> HIDE DEF fresh, put
<1>6. QED
  BY <1>3, <1>4, <1>5

LEMMA TcpIsGood ==
  ASSUME NEW b, NEW t, NEW n, Ready(b, t, n), NEW o \in TcpFlushes(b, t)
  PROVE  Good(o, n)
<1>1. CASE ~Connected(t)
  BY <1>1, UntriedIsGood DEF TcpFlushes
<1>2. CASE Connected(t)
  <2>1. PICK p \in (0 .. Units(b) - b.offset) \X SendEnds :
          /\ SendMayEnd(t, Units(b) - b.offset, p[1], p[2])
          /\ o = Sent(b, t, p[1], p[2])
    BY <1>2 DEF TcpFlushes
  <2>2. p[2] = "drained" => p[1] = Units(b) - b.offset
    BY <2>1 DEF SendMayEnd
  <2>3. p[1] \in 0 .. Units(b) - b.offset /\ p[2] \in SendEnds
    BY <2>1
  <2>4. QED
    BY <2>1, <2>2, <2>3, SentIsGood
<1>3. QED
  BY <1>1, <1>2

(* flush_batch, under every transport.                                      *)
LEMMA FlushIsGood ==
  ASSUME NEW b, NEW n, Ready(b, tcp, n), NEW o \in FlushOutcomes(b)
  PROVE  Good(o, n)
<1>1. Ready(b, TriedConnect(tcp), n)
  BY TriedIs DEF Ready
<1>2. ASSUME NEW x \in TcpTried(b)
      PROVE  Good(x, n)
  <2>1. PICK y \in TcpFlushes(b, TriedConnect(tcp)), time \in FlushTimes :
          x = AdaptedAfter(y, time)
    BY DEF TcpTried
  <2>2. Good(y, n)
    BY <1>1, <2>1, TcpIsGood
  <2>3. QED
    BY <2>1, <2>2, AdaptedIsGood
<1>3. ASSUME NEW x \in TcpTried(b), NEW y \in FailedOver(x)
      PROVE  Good(y, n)
  <2>1. PICK u \in UdpFlushes(x) :
          y = ClosedAfterPartial(HasPartialSend(x.batch), u)
    BY DEF FailedOver
  <2>2. Good(u, n)
    BY <1>2, <2>1, UdpIsGood
  <2>3. QED
    BY <2>1, <2>2, ClosedIsGood
<1>4. transport \in {"auto", "tcp", "udp", "mesh"}
  BY UplinkAssumption DEF Ready, Typed
<1>5. CASE transport \in {"udp", "mesh"}
  <2>1. o \in UdpFlushes(Untried(b, tcp))
    BY <1>5 DEF FlushOutcomes
  <2>2. QED
    BY <2>1, UntriedIsGood, UdpIsGood
<1>6. CASE transport = "tcp"
  <2>1. o \in TcpTried(b)
    BY <1>6 DEF FlushOutcomes
  <2>2. QED
    BY <1>2, <2>1
<1>7. CASE transport = "auto"
  <2>1. o \in TcpTried(b) \/ \E x \in TcpTried(b) : o \in FailedOver(x)
    BY <1>7 DEF FlushOutcomes
  <2>2. QED
    BY <1>2, <1>3, <2>1
<1>8. QED
  BY <1>4, <1>5, <1>6, <1>7

(* The program takes over what a flush came to.                             *)
LEMMA TookKeeps ==
  ASSUME NEW o, NEW n \in 0 .. MaxFrames, Good(o, n), Took(o), Typed,
         seq' = n, UNCHANGED <<transport, dropped>>
  PROVE  Ready(batch, tcp, seq)'
<1>1. /\ batch' = o.batch /\ tcp' = o.tcp /\ faults' = o.faults
      /\ drained' = o.drained /\ whole' = o.whole
      /\ forwarded' = o.forwarded /\ lost' = o.lost
  BY DEF Took
<1>2. /\ o.faults \in Nat /\ o.tcp \in Tcps /\ o.drained \in SUBSET Frames
      /\ o.whole \in SUBSET Frames /\ o.forwarded \in SUBSET Frames
      /\ o.lost \in SUBSET Frames
  BY DEF Good, Outcomes
<1>3. Typed'
  BY <1>1, <1>2 DEF Typed, Frames
<1>4. QED
  BY <1>1, <1>2, <1>3 DEF Ready, Good, Placed, Sound, Streamed

LEMMA NotFullWhenEmpty ==
  ASSUME NEW b, b.frames = <<>>
  PROVE  ~Full(b)
BY BatchAssumption DEF Full, Count

(***************************************************************************)
(* Every step                                                               *)
(***************************************************************************)
LEMMA InitInv == Init => UplinkInv
<1> SUFFICES ASSUME Init PROVE UplinkInv
  OBVIOUS
<1>1. /\ EmptyBatch.frames = <<>> /\ EmptyBatch.offset = 0
      /\ EmptyBatch \in Batches(Frames) /\ Len(EmptyBatch.frames) = 0
  BY BatchAssumption DEF EmptyBatch, Batches
<1>2. 0 \div FrameUnits = 0
  BY BatchAssumption
<1> HIDE DEF EmptyBatch
<1>3. Sound(EmptyBatch) /\ UnsentOf(EmptyBatch) = {} /\ Below(EmptyBatch, 0) = {}
  BY <1>1, <1>2 DEF Sound, UnsentOf, UnsentIndex, Count, Below
<1>4. Placed(EmptyBatch, {}, {}, {}, 0)
  BY <1>1, <1>3 DEF Init, Placed
<1>5. Unconnected \in Tcps /\ Streamed(Unconnected, {})
  <2>1. /\ Unconnected \in Tcps /\ Len(Unconnected.stream) = 0
    BY DEF Unconnected, Tcps, Links
  <2>2. QED
    BY <2>1 DEF Streamed
<1>6. tcp \in Tcps /\ Streamed(tcp, {})
  BY <1>5, TriedIs DEF Init
<1>7. Typed /\ 0 \in 0 .. MaxFrames
  BY UplinkAssumption DEF Init, Typed
<1>8. QED
  BY <1>3, <1>4, <1>6, <1>7 DEF Init, UplinkInv, Ready

LEMMA DrainKeeps == UplinkInv /\ Drain => UplinkInv'
<1> SUFFICES ASSUME UplinkInv, Drain PROVE UplinkInv'
  OBVIOUS
<1>1. Ready(batch, tcp, seq) /\ Typed /\ seq \in 0 .. MaxFrames
  BY DEF UplinkInv, Ready
<1>2. PICK o \in FlushOutcomes(batch) :
        /\ Took(o)
        /\ IF o.ok \/ o.batch.frames = <<>>
             THEN pc' = After(o, "sample") ELSE pc' = After(o, "top")
  BY DEF Drain
<1>3. Good(o, seq)
  BY <1>1, <1>2, FlushIsGood
<1>4. seq' = seq /\ UNCHANGED <<transport, dropped>>
  BY DEF Drain
<1>5. Ready(batch, tcp, seq)'
  BY <1>1, <1>2, <1>3, <1>4, TookKeeps
<1>6. pc' = "sample" => ~Full(batch')
  <2>1. SUFFICES ASSUME pc' = "sample" PROVE o.batch.frames = <<>>
    BY <1>2, NotFullWhenEmpty DEF Took
  <2>2. o.ok \/ o.batch.frames = <<>>
    BY <1>2, <2>1 DEF After
  <2>3. QED
    BY <1>3, <2>2 DEF Good
<1>7. QED
  BY <1>5, <1>6 DEF UplinkInv

LEMMA DropKeeps == UplinkInv /\ Drop => UplinkInv'
<1> SUFFICES ASSUME UplinkInv, Drop PROVE UplinkInv'
  OBVIOUS
<1>1. Ready(batch, tcp, seq) /\ Typed /\ seq < MaxFrames /\ seq \in Nat
  BY UplinkAssumption DEF UplinkInv, Ready, Typed, Drop, MaySample
<1>2. /\ dropped' = dropped \union {seq} /\ seq' = seq + 1
      /\ UNCHANGED <<transport, batch, tcp, faults, drained, whole, forwarded, lost>>
      /\ pc' = "top"
  BY DEF Drop
<1>3. seq \in Frames /\ seq' \in 0 .. MaxFrames
      /\ seq \notin 0 .. seq - 1 /\ 0 .. (seq + 1) - 1 = 0 .. seq - 1 \union {seq}
  BY <1>1, <1>2, UplinkAssumption DEF Frames
<1>4. Typed'
  BY <1>1, <1>2, <1>3 DEF Typed, Frames
<1>5. Placed(batch, drained, forwarded, lost, seq)'
  <2>1. /\ UnsentOf(batch) \union drained \union forwarded \union lost
             \union dropped = 0 .. seq - 1
        /\ UnsentOf(batch) \intersect (drained \union forwarded \union lost
             \union dropped) = {}
        /\ drained \intersect (forwarded \union lost \union dropped) = {}
        /\ forwarded \intersect (lost \union dropped) = {}
        /\ lost \intersect dropped = {}
        /\ Below(batch, batch.offset) \subseteq drained
    BY <1>1 DEF Ready, Placed
  <2> DEFINE u == UnsentOf(batch)
             w == Below(batch, batch.offset)
             old == 0 .. seq - 1
             now == 0 .. (seq + 1) - 1
  <2>2. u' = u /\ w' = w
    BY <1>2
  <2> HIDE DEF u, w, old, now
  <2>3. /\ u \union drained \union forwarded \union lost \union dropped' = now
        /\ u \intersect (drained \union forwarded \union lost \union dropped') = {}
        /\ drained \intersect (forwarded \union lost \union dropped') = {}
        /\ forwarded \intersect (lost \union dropped') = {}
        /\ lost \intersect dropped' = {}
        /\ w \subseteq drained
    BY <1>2, <1>3, <2>1 DEF u, w, old, now
  <2>4. QED
    BY <1>2, <2>2, <2>3 DEF Placed, u, w, now
<1>6. QED
  BY <1>1, <1>2, <1>3, <1>4, <1>5 DEF Ready, UplinkInv, Sound, Streamed

(* push: the sample is the newest frame and in the batch alone.             *)
LEMMA PushIsReady ==
  ASSUME UplinkInv, MaySample, seq \in 0 .. MaxFrames
  PROVE  Ready(Pushed(batch, seq), tcp, seq + 1)
<1>1. /\ Ready(batch, tcp, seq) /\ Typed /\ Sound(batch)
      /\ Placed(batch, drained, forwarded, lost, seq)
      /\ seq < MaxFrames /\ seq \in Nat /\ ~Full(batch)
  BY UplinkAssumption DEF UplinkInv, Ready, Typed, MaySample, NeedsDrain
<1>2. seq \in Frames /\ seq + 1 \in 0 .. MaxFrames
      /\ seq \notin 0 .. seq - 1 /\ 0 .. (seq + 1) - 1 = 0 .. seq - 1 \union {seq}
  BY <1>1, UplinkAssumption DEF Frames
<1>3. \A i \in 1 .. Len(batch.frames) : batch.frames[i] # seq
  <2>1. SUFFICES ASSUME NEW i \in 1 .. Len(batch.frames)
                 PROVE  batch.frames[i] \in 0 .. seq - 1
    BY <1>2
  <2>2. /\ Count(batch) = Len(batch.frames) /\ Count(batch) \in Nat
        /\ UnsentIndex(batch) \in Nat
    BY <1>1, BatchFacts DEF Sound
  <2>3. i \in 1 .. UnsentIndex(batch) \/ i \in UnsentIndex(batch) + 1 .. Count(batch)
    BY <2>2
  <2>4. batch.frames[i] \in Below(batch, batch.offset) \union UnsentOf(batch)
    BY <2>3 DEF Below, UnsentOf, UnsentIndex
  <2>5. QED
    BY <1>1, <2>4 DEF Placed
<1>4. /\ Sound(Pushed(batch, seq))
      /\ UnsentOf(Pushed(batch, seq)) = UnsentOf(batch) \union {seq}
      /\ Below(Pushed(batch, seq), Pushed(batch, seq).offset)
           = Below(batch, batch.offset)
  BY <1>1, <1>2, <1>3, PushedIs
<1>5. Placed(Pushed(batch, seq), drained, forwarded, lost, seq + 1)
  <2> DEFINE old == 0 .. seq - 1
             now == 0 .. (seq + 1) - 1
             p == Pushed(batch, seq)
  <2> HIDE DEF old, now, p
  <2>1. now = old \union {seq} /\ seq \notin old
    BY <1>2 DEF old, now
  <2>2. /\ UnsentOf(batch) \union drained \union forwarded \union lost
             \union dropped = old
        /\ UnsentOf(batch) \intersect (drained \union forwarded \union lost
             \union dropped) = {}
        /\ drained \intersect (forwarded \union lost \union dropped) = {}
        /\ forwarded \intersect (lost \union dropped) = {}
        /\ lost \intersect dropped = {}
        /\ Below(batch, batch.offset) \subseteq drained
    BY <1>1 DEF Placed, old
  <2>3. /\ UnsentOf(p) = UnsentOf(batch) \union {seq}
        /\ Below(p, p.offset) = Below(batch, batch.offset)
    BY <1>4 DEF p
  <2>4. QED
    BY <2>1, <2>2, <2>3 DEF Placed, now, p
<1>6. QED
  BY <1>1, <1>2, <1>4, <1>5 DEF Ready

LEMMA SampleKeeps == UplinkInv /\ Sample => UplinkInv'
<1> SUFFICES ASSUME UplinkInv, Sample PROVE UplinkInv'
  OBVIOUS
<1> DEFINE b == Pushed(batch, seq)
<1>1. seq \in 0 .. MaxFrames /\ Typed /\ MaySample
  BY DEF UplinkInv, Ready, Typed, Sample
<1>2. Ready(b, tcp, seq + 1)
  BY <1>1, PushIsReady
<1>3. /\ seq' = seq + 1 /\ UNCHANGED <<transport, dropped>> /\ pc' # "sample"
  BY DEF Sample, After
<1> HIDE DEF b
<1>4. ASSUME NEW o \in FlushOutcomes(b), Took(o)
      PROVE  Ready(batch, tcp, seq)'
  <2>1. Good(o, seq + 1) /\ seq + 1 \in 0 .. MaxFrames
    BY <1>2, <1>4, FlushIsGood DEF Ready
  <2>2. QED
    BY <1>1, <1>3, <1>4, <2>1, TookKeeps
<1>5. ASSUME batch' = b,
             UNCHANGED <<tcp, faults, drained, whole, forwarded, lost>>
      PROVE  Ready(batch, tcp, seq)'
  BY <1>2, <1>3, <1>5 DEF Ready, Typed, Placed, Sound, Streamed
<1>6. \/ \E o \in FlushOutcomes(b) : Took(o)
      \/ /\ batch' = b
         /\ UNCHANGED <<tcp, faults, drained, whole, forwarded, lost>>
  BY DEF Sample, b
<1>7. QED
  BY <1>3, <1>4, <1>5, <1>6 DEF UplinkInv

LEMMA StopKeeps == UplinkInv /\ Stop => UplinkInv'
<1> SUFFICES ASSUME UplinkInv, Stop PROVE UplinkInv'
  OBVIOUS
<1>1. Ready(batch, tcp, seq) /\ Typed /\ seq \in 0 .. MaxFrames
  BY DEF UplinkInv, Ready
<1>2. seq' = seq /\ UNCHANGED <<transport, dropped>> /\ pc' # "sample"
  BY DEF Stop, After
<1>3. ASSUME NEW o \in FlushOutcomes(batch), Took(o)
      PROVE  Ready(batch, tcp, seq)'
  BY <1>1, <1>2, <1>3, FlushIsGood, TookKeeps
<1>4. ASSUME UNCHANGED <<batch, tcp, faults, drained, whole, forwarded, lost>>
      PROVE  Ready(batch, tcp, seq)'
  BY <1>1, <1>2, <1>4 DEF Ready, Typed, Placed, Sound, Streamed
<1>5. \/ \E o \in FlushOutcomes(batch) : Took(o)
      \/ UNCHANGED <<batch, tcp, faults, drained, whole, forwarded, lost>>
  BY DEF Stop
<1>6. QED
  BY <1>2, <1>3, <1>4, <1>5 DEF UplinkInv

(* The clock and the network change the connection, never what is on it.    *)
LEMMA NetworkKeeps == UplinkInv /\ (Tick \/ Network) => UplinkInv'
<1> SUFFICES ASSUME UplinkInv, Tick \/ Network PROVE UplinkInv'
  OBVIOUS
<1>1. /\ UNCHANGED <<transport, pc, batch, seq, dropped, drained, whole,
                     forwarded, lost>>
      /\ faults' \in {faults, faults + 1}
  BY DEF Tick, Network, PeerCloses, PeerResets, ResetArrives, PeerReturns, Fault
<1>2. tcp \in Tcps /\ Streamed(tcp, drained) /\ Typed
  BY DEF UplinkInv, Ready
<1>3. tcp' \in Tcps /\ tcp'.stream = tcp.stream
  <2> DEFINE S == Seq(WireUnits)
  <2>1. tcp \in [link : Links, wait : Nat, backoff : Nat, stream : S]
        /\ {"closing", "reset", "pipe"} \subseteq Links
    BY <1>2 DEF Tcps, Links
  <2> HIDE DEF S
  <2>2. \/ tcp' = tcp
        \/ \E l \in {"closing", "reset", "pipe"} : tcp' = [tcp EXCEPT !.link = l]
        \/ tcp.wait > 0 /\ tcp' = [tcp EXCEPT !.wait = tcp.wait - 1]
    BY DEF Tick, Network, PeerCloses, PeerResets, ResetArrives, PeerReturns
  <2>3. /\ tcp' \in [link : Links, wait : Nat, backoff : Nat, stream : S]
        /\ tcp'.stream = tcp.stream
    BY <2>1, <2>2
  <2>4. QED
    BY <2>3 DEF S, Tcps
<1>4. Typed'
  BY <1>1, <1>2 DEF Typed
<1>5. QED
  BY <1>1, <1>2, <1>3, <1>4 DEF UplinkInv, Ready, Placed, Sound, Streamed

LEMMA StepKeeps == UplinkInv /\ [Next]_vars => UplinkInv'
<1> SUFFICES ASSUME UplinkInv, [Next]_vars PROVE UplinkInv'
  OBVIOUS
<1>1. CASE Loop
  BY <1>1, DrainKeeps, DropKeeps, SampleKeeps, StopKeeps DEF Loop
<1>2. CASE Tick \/ Network
  BY <1>2, NetworkKeeps
<1>3. CASE UNCHANGED vars
  BY <1>3 DEF vars, UplinkInv, Ready, Typed, Placed, Sound, Streamed
<1>4. QED
  BY <1>1, <1>2, <1>3 DEF Next

LEMMA Invariance == Spec => []UplinkInv
BY InitInv, StepKeeps, PTL DEF Spec

(***************************************************************************)
(* The theorems                                                             *)
(***************************************************************************)
(* Every sample is in exactly one place, whatever the transport, the        *)
(* platform, the batch and the network do: flush_batch forgets and repeats  *)
(* no frame (main.cpp:146).                                                 *)
THEOREM Conserved == Spec => []Conservation
<1>1. UplinkInv => Conservation
  <2> SUFFICES ASSUME UplinkInv PROVE Conservation
    OBVIOUS
  <2>1. Sound(batch) /\ Placed(batch, drained, forwarded, lost, seq)
    BY DEF UplinkInv, Ready
  <2>2. Unsent = UnsentOf(batch)
    BY <2>1, UnsentIs DEF Unsent
  <2>3. /\ Unsent \union drained \union forwarded \union lost \union dropped
             = 0 .. seq - 1
        /\ Unsent \intersect (drained \union forwarded \union lost
             \union dropped) = {}
        /\ drained \intersect (forwarded \union lost \union dropped) = {}
        /\ forwarded \intersect (lost \union dropped) = {}
        /\ lost \intersect dropped = {}
    BY <2>1, <2>2 DEF Placed
  <2> DEFINE places == <<Unsent, drained, forwarded, lost, dropped>>
  <2>4. /\ UNION Range(places) = 0 .. seq - 1
        /\ \A i, j \in DOMAIN places :
             i # j => places[i] \intersect places[j] = {}
    <3>1. /\ DOMAIN places = 1 .. 5 /\ 1 .. 5 = {1, 2, 3, 4, 5}
          /\ places[1] = Unsent /\ places[2] = drained
          /\ places[3] = forwarded /\ places[4] = lost
          /\ places[5] = dropped
      OBVIOUS
    <3> HIDE DEF places
    <3>2. Range(places) = {Unsent, drained, forwarded, lost, dropped}
      BY <3>1 DEF Range
    <3>3. UNION Range(places) = 0 .. seq - 1
      BY <2>3, <3>2
    <3>4. ASSUME NEW i \in DOMAIN places, NEW j \in DOMAIN places, i # j
          PROVE  places[i] \intersect places[j] = {}
      BY <2>3, <3>1, <3>4
    <3>5. QED
      BY <3>3, <3>4
  <2>5. QED
    BY <2>4, Zenon DEF Conservation
<1>2. QED
  BY <1>1, Invariance, PTL

(* The operator never gets a frame whole over TCP and over the mesh too     *)
(* (main.cpp:183).                                                          *)
THEOREM NeverTwice == Spec => []NoDoubleSend
<1>1. UplinkInv => NoDoubleSend
  BY DEF UplinkInv, Ready, Placed, NoDoubleSend
<1>2. QED
  BY <1>1, Invariance, PTL

(***************************************************************************)
(* Under auto, whole frames on every connection                             *)
(***************************************************************************)
LEMMA DivisionIsUnique ==
  ASSUME NEW f \in Nat \ {0}, NEW a \in Nat, NEW c \in Nat,
         NEW r \in 0 .. f - 1, NEW s \in 0 .. f - 1, f * a + r = f * c + s
  PROVE  a = c /\ r = s
<1>1. f * a \in Nat /\ f * c \in Nat
  OBVIOUS
<1>2. ~(a < c)
  <2>1. a < c => f * a + f <= f * c
    BY Product
  <2>2. QED
    BY <1>1, <2>1
<1>3. ~(c < a)
  <2>1. c < a => f * c + f <= f * a
    BY Product
  <2>2. QED
    BY <1>1, <2>1
<1>4. a = c
  BY <1>2, <1>3
<1>5. QED
  BY <1>1, <1>4

LEMMA DivisionIs ==
  ASSUME NEW f \in Nat \ {0}, NEW a \in Nat, NEW r \in 0 .. f - 1
  PROVE  /\ (f * a + r) \div f = a
         /\ (f * a + r) % f = r
<1>1. f * a + r \in Nat
  OBVIOUS
<1> DEFINE n == f * a + r
<1>2. /\ n \div f \in Nat /\ n % f \in 0 .. f - 1
      /\ n = f * (n \div f) + (n % f)
  BY <1>1, Division
<1>3. f * a + r = f * (n \div f) + (n % f)
  BY <1>2
<1> HIDE DEF n
<1>4. a = n \div f /\ r = n % f
  BY <1>2, <1>3, DivisionIsUnique
<1>5. QED
  BY <1>4 DEF n

LEMMA WholeFramesDropOut ==
  ASSUME NEW f \in Nat \ {0}, NEW a \in Nat, NEW c \in Nat, a % f = 0
  PROVE  (a + c) % f = c % f
<1>1. a \div f \in Nat /\ a = f * (a \div f) + (a % f)
  BY Division
<1>2. /\ c \div f \in Nat /\ c % f \in 0 .. f - 1
      /\ c = f * (c \div f) + (c % f)
  BY Division
<1>3. a + c = f * (a \div f + c \div f) + (c % f)
  <2>1. f * (a \div f + c \div f) = f * (a \div f) + f * (c \div f)
    BY <1>1, <1>2
  <2>2. f * (a \div f) \in Nat /\ f * (c \div f) \in Nat
    BY <1>1, <1>2
  <2>3. QED
    BY <1>1, <1>2, <2>1, <2>2
<1>4. a \div f + c \div f \in Nat
  BY <1>1, <1>2
<1> DEFINE q == a \div f + c \div f
           r == c % f
<1>5. q \in Nat /\ r \in 0 .. f - 1 /\ a + c = f * q + r
  BY <1>2, <1>3, <1>4
<1> HIDE DEF q, r
<1>6. (f * q + r) % f = r
  BY <1>5, DivisionIs
<1>7. (a + c) % f = r
  BY <1>5, <1>6
<1>8. QED
  BY <1>7 DEF r

LEMMA SameFrame ==
  ASSUME NEW f \in Nat \ {0}, NEW a \in Nat, a % f > 0
  PROVE  a - 1 \in Nat /\ (a - 1) \div f = a \div f
<1>1. /\ a \div f \in Nat /\ a % f \in 0 .. f - 1
      /\ a = f * (a \div f) + (a % f)
  BY Division
<1>2. (a % f) - 1 \in 0 .. f - 1
  BY <1>1
<1>3. f * (a \div f) \in Nat
  BY <1>1
<1>4. a - 1 = f * (a \div f) + ((a % f) - 1)
  BY <1>1, <1>3
<1>5. a - 1 \in Nat
  BY <1>1, <1>2, <1>3, <1>4
<1> DEFINE q == a \div f
           r == (a % f) - 1
<1>6. q \in Nat /\ r \in 0 .. f - 1
  BY <1>1, <1>2
<1> HIDE DEF q, r
<1>7. (f * q + r) \div f = q
  BY <1>6, DivisionIs
<1>8. a - 1 = f * q + r
  BY <1>4 DEF q, r
<1>9. (a - 1) \div f = q
  BY <1>7, <1>8
<1>10. QED
  BY <1>5, <1>9 DEF q

(* The bytes of a connection are frames one after another, the last of      *)
(* which may be cut.                                                        *)
Clean(s) ==
  \A p \in 1 .. Len(s) :
    /\ s[p][2] = (p - 1) % FrameUnits
    /\ s[p][2] > 0 => s[p][1] = s[p - 1][1]

AtFrameEnd(s) == Len(s) % FrameUnits = 0

LEMMA EmptyIsClean ==
  ASSUME NEW s, s = <<>>
  PROVE  Clean(s) /\ AtFrameEnd(s)
<1>1. Len(s) = 0
  OBVIOUS
<1>2. 0 % FrameUnits = 0
  BY BatchAssumption
<1>3. QED
  BY <1>1, <1>2 DEF Clean, AtFrameEnd

(* The stream after a write, unit by unit.                                  *)
LEMMA WrittenUnits ==
  ASSUME NEW b, NEW t \in Tcps, Sound(b), b.offset = 0,
         NEW k \in 0 .. Units(b)
  PROVE  LET s == Wrote(t, b, k).stream IN
         /\ Len(t.stream) \in Nat
         /\ Len(s) = Len(t.stream) + k
         /\ \A p \in 1 .. Len(t.stream) : s[p] = t.stream[p]
         /\ \A j \in 1 .. k : s[Len(t.stream) + j] = UnitAt(b, j - 1)
<1> DEFINE more == [j \in 1 .. k |-> UnitAt(b, b.offset + j - 1)]
           old == t.stream
           s == Wrote(t, b, k).stream
<1>1. Units(b) \in Nat /\ k \in Nat
  BY BatchFacts DEF Sound
<1>2. old \in Seq(WireUnits) /\ Len(old) \in Nat
  BY DEF Tcps
<1>3. /\ more \in Seq(WireUnits) /\ Len(more) = k
      /\ \A j \in 1 .. k : more[j] = UnitAt(b, j - 1)
  <2>1. k \in 0 .. Units(b) - b.offset
    BY <1>1
  <2>2. \A j \in 1 .. k : more[j] \in WireUnits
    BY <2>1, UnitIs DEF WireUnits
  <2>3. \A j \in 1 .. k : more[j] = UnitAt(b, j - 1)
    OBVIOUS
  <2>4. QED
    BY <1>1, <2>2, <2>3
<1>4. s = old \o more
  BY DEF Wrote, Tcps
<1> HIDE DEF more, old, s
<1>5. /\ Len(s) = Len(old) + k
      /\ \A p \in 1 .. Len(old) + k :
           s[p] = IF p <= Len(old) THEN old[p] ELSE more[p - Len(old)]
  BY <1>2, <1>3, <1>4, ConcatProperties
<1>6. \A p \in 1 .. Len(old) : s[p] = old[p]
  BY <1>1, <1>2, <1>5
<1>7. ASSUME NEW j \in 1 .. k
      PROVE  s[Len(old) + j] = UnitAt(b, j - 1)
  <2>1. /\ Len(old) + j \in 1 .. Len(old) + k
        /\ ~(Len(old) + j <= Len(old)) /\ (Len(old) + j) - Len(old) = j
    BY <1>1, <1>2
  <2>2. QED
    BY <1>3, <1>5, <2>1
<1>8. QED
  BY <1>2, <1>5, <1>6, <1>7 DEF old, s

(* A batch sent from its start onto whole frames adds frames.               *)
LEMMA WroteIsClean ==
  ASSUME NEW b, NEW t \in Tcps, Sound(b), b.offset = 0,
         NEW k \in 0 .. Units(b), Clean(t.stream), AtFrameEnd(t.stream)
  PROVE  /\ Clean(Wrote(t, b, k).stream)
         /\ k = 0 \/ k = Units(b) => AtFrameEnd(Wrote(t, b, k).stream)
         /\ Below(b, k) \subseteq WholeIn(Wrote(t, b, k).stream)
<1> DEFINE s == Wrote(t, b, k).stream
           n == Len(t.stream)
           f == FrameUnits
<1>1. /\ n \in Nat /\ Len(s) = n + k
      /\ \A p \in 1 .. n : s[p] = t.stream[p]
      /\ \A j \in 1 .. k : s[n + j] = UnitAt(b, j - 1)
  BY WrittenUnits
<1>2. /\ f \in Nat \ {0} /\ Count(b) \in Nat /\ Count(b) = Len(b.frames)
      /\ Units(b) \in Nat /\ k \in Nat /\ b.frames \in Seq(Frames)
      /\ n % f = 0
  BY BatchFacts DEF Sound, AtFrameEnd
<1>3. \A a \in Nat : UnitAt(b, a) = <<b.frames[a \div f + 1], a % f>>
  BY DEF UnitAt
<1>4. \A p \in 1 .. n :
        /\ t.stream[p][2] = (p - 1) % f
        /\ t.stream[p][2] > 0 => t.stream[p][1] = t.stream[p - 1][1]
  BY DEF Clean
<1>a. Clean(t.stream)
  OBVIOUS
<1> HIDE DEF s, n, f
<1>5. ASSUME NEW p \in 1 .. n + k
      PROVE  /\ s[p][2] = (p - 1) % f
             /\ s[p][2] > 0 => s[p][1] = s[p - 1][1]
  <2>1. CASE p <= n
    <3>1. p \in 1 .. n
      BY <1>1, <1>2, <2>1
    <3>2. s[p][2] = (p - 1) % f
      BY <1>1, <1>4, <3>1
    <3>3. ASSUME s[p][2] > 0 PROVE s[p][1] = s[p - 1][1]
      <4>1. p # 1
        <5>1. 0 % f = 0
          BY <1>2
        <5>2. QED
          BY <3>2, <3>3, <5>1
      <4>2. p - 1 \in 1 .. n
        BY <1>1, <3>1, <4>1
      <4>3. QED
        BY <1>1, <1>4, <3>1, <3>3, <4>2
    <3>4. QED
      BY <3>2, <3>3
  <2>2. CASE ~(p <= n)
    <3> DEFINE j == p - n
               a == j - 1
    <3>1. j \in 1 .. k /\ a \in Nat /\ n + j = p /\ p - 1 = n + a
      BY <1>1, <1>2, <2>2
    <3> HIDE DEF a
    <3>2. s[p] = <<b.frames[a \div f + 1], a % f>>
      <4>1. s[n + j] = UnitAt(b, j - 1)
        BY <1>1, <3>1
      <4>2. QED
        BY <1>3, <3>1, <4>1 DEF a
    <3>a. (n + a) % f = a % f
      BY <1>1, <1>2, <3>1, WholeFramesDropOut
    <3>3. (p - 1) % f = a % f
      <4> DEFINE w == n + a
      <4>1. w % f = a % f /\ p - 1 = w
        BY <3>1, <3>a
      <4> HIDE DEF w
      <4>2. QED
        BY <4>1
    <3>4. ASSUME a % f > 0 PROVE s[p][1] = s[p - 1][1]
      <4>1. a - 1 \in Nat /\ (a - 1) \div f = a \div f
        BY <1>2, <3>1, <3>4, SameFrame
      <4>2. j - 1 \in 1 .. k /\ n + (j - 1) = p - 1 /\ (j - 1) - 1 = a - 1
        BY <1>1, <1>2, <3>1, <4>1 DEF a
      <4> HIDE DEF j
      <4>3. s[n + (j - 1)] = UnitAt(b, (j - 1) - 1)
        BY <1>1, <4>2
      <4>a. s[p - 1] = UnitAt(b, a - 1)
        BY <4>2, <4>3
      <4>4. s[p - 1] = <<b.frames[(a - 1) \div f + 1], (a - 1) % f>>
        BY <1>3, <4>1, <4>a
      <4>5. QED
        BY <3>2, <4>1, <4>4
    <3>5. QED
      BY <3>2, <3>3, <3>4
  <2>3. QED
    BY <2>1, <2>2
<1>6. Clean(s)
  BY <1>1, <1>5 DEF Clean, f
<1>7. ASSUME k = 0 \/ k = Units(b) PROVE AtFrameEnd(s)
  <2>1. k % f = 0
    <3>1. /\ 0 \in 0 .. f - 1
          /\ f * Count(b) + 0 = Count(b) * f
      BY <1>2
    <3>2. (f * Count(b) + 0) % f = 0
      BY <1>2, <3>1, DivisionIs
    <3> DEFINE m == Count(b) * f
    <3>3. f * Count(b) + 0 = m
      BY <3>1
    <3> HIDE DEF m
    <3>4. m % f = 0
      BY <3>2, <3>3
    <3>5. 0 % f = 0
      BY <1>2
    <3>6. k = 0 \/ k = m
      BY <1>7 DEF Units, f, m
    <3>7. QED
      BY <3>4, <3>5, <3>6
  <2>2. (n + k) % f = 0
    BY <1>1, <1>2, <2>1, WholeFramesDropOut
  <2>3. QED
    BY <1>1, <2>2 DEF AtFrameEnd, f
<1>8. ASSUME NEW i \in 1 .. k \div f
      PROVE  b.frames[i] \in WholeIn(s)
  <2>1. k \div f \in Nat /\ f * (k \div f) <= k /\ k \div f <= Count(b)
    <3>1. k \div f \in Nat /\ f * (k \div f) <= k
      <4>1. /\ k \div f \in Nat /\ k % f \in 0 .. f - 1
            /\ k = f * (k \div f) + (k % f)
        BY <1>2, Division
      <4>2. f * (k \div f) \in Nat
        BY <1>2, <4>1
      <4>3. QED
        BY <1>2, <4>1, <4>2
    <3>a. k <= Count(b) * f /\ Count(b) * f \in Nat
      BY <1>2 DEF Units, f
    <3>2. k \div f <= (Count(b) * f) \div f
      BY <1>2, <3>a, QuotientGrows
    <3>3. QED
      BY <1>2, <3>1, <3>2, QuotientOfMultiple
  <2>2. i \in 1 .. Len(b.frames) /\ i - 1 \in Nat
    BY <1>2, <2>1
  <2>3. f * (i - 1) \in Nat /\ f * (i - 1) + f <= k
    <3>1. f * (i - 1) + f <= f * (k \div f)
      BY <1>2, <2>1, <2>2, Product
    <3>2. f * (i - 1) \in Nat /\ f * (k \div f) \in Nat
      BY <1>2, <2>1, <2>2
    <3>3. QED
      BY <1>2, <2>1, <3>1, <3>2
  <2> DEFINE m == f * (i - 1)
             p == n + m + 1
  <2>4. p \in 1 .. Len(s) - f + 1
    BY <1>1, <1>2, <2>3
  <2>5. ASSUME NEW u \in 0 .. f - 1
        PROVE  s[p + u] = <<b.frames[i], u>>
    <3>1. m + u + 1 \in 1 .. k /\ p + u = n + (m + u + 1)
          /\ (m + u + 1) - 1 = m + u /\ m + u \in Nat
      BY <1>1, <1>2, <2>3
    <3>2. (m + u) \div f = i - 1 /\ (m + u) % f = u
      BY <1>2, <2>2, DivisionIs
    <3> HIDE DEF m, p
    <3>3. s[n + (m + u + 1)] = UnitAt(b, m + u)
      BY <1>1, <3>1
    <3>4. UnitAt(b, m + u) = <<b.frames[i], u>>
      BY <1>3, <2>2, <3>1, <3>2
    <3>5. QED
      BY <3>1, <3>3, <3>4
  <2>6. b.frames[i] \in Frames
    BY <1>2, <2>2, ElementOfSeq
  <2> HIDE DEF p
  <2>7. QED
    BY <2>4, <2>5, <2>6 DEF WholeIn, f
<1>9. Below(b, k) \subseteq WholeIn(s)
  BY <1>8 DEF Below, f
<1>10. QED
  BY <1>6, <1>7, <1>9 DEF s

(* Under auto, nothing TCP drained is torn; a connection carries whole      *)
(* frames, and between two turns of the loop it ends with one.              *)
AutoInv ==
  transport = "auto" =>
    /\ drained \subseteq whole
    /\ Clean(tcp.stream)
    /\ pc # "killed" => batch.offset = 0 /\ AtFrameEnd(tcp.stream)

(* The same of an outcome, once TCP was tried and at the end of the flush.  *)
TriedCleanly(o) ==
  /\ o.drained \subseteq o.whole
  /\ Clean(o.tcp.stream)
  /\ o.alive /\ o.batch.offset = 0 => AtFrameEnd(o.tcp.stream)
  /\ o.ok => o.batch.offset = 0

FlushedCleanly(o) ==
  /\ o.drained \subseteq o.whole
  /\ Clean(o.tcp.stream)
  /\ o.alive => o.batch.offset = 0 /\ AtFrameEnd(o.tcp.stream)

LEMMA TriedStaysClean ==
  ASSUME NEW t, Clean(t.stream), AtFrameEnd(t.stream), t \in Tcps
  PROVE  Clean(TriedConnect(t).stream) /\ AtFrameEnd(TriedConnect(t).stream)
<1>1. TriedConnect(t).stream \in {t.stream, <<>>}
  BY DEF TriedConnect, Tcps
<1>2. QED
  BY <1>1, EmptyIsClean

(* flush_tcp_retry on a connection that ends with a whole frame.            *)
LEMMA SentIsClean ==
  ASSUME NEW b, NEW t, NEW n, Ready(b, t, n), b.offset = 0,
         Clean(t.stream), AtFrameEnd(t.stream), drained \subseteq whole,
         NEW k \in 0 .. Units(b) - b.offset, NEW end \in SendEnds,
         end = "drained" => k = Units(b) - b.offset
  PROVE  TriedCleanly(Sent(b, t, k, end))
<1> DEFINE wrote == Wrote(t, b, k)
           o == Sent(b, t, k, end)
           kept == IF end = "failed" THEN Disconnected(t) ELSE wrote
           adv == Advanced(b, k)
<1>1. t \in Tcps /\ Sound(b) /\ b \in Batches(Frames)
  BY DEF Ready, Sound
<1>2. Units(b) \in Nat /\ k \in 0 .. Units(b) /\ b.offset + k = k
  BY <1>1, BatchFacts
<1>3. /\ Clean(wrote.stream)
      /\ k = 0 \/ k = Units(b) => AtFrameEnd(wrote.stream)
      /\ Below(b, k) \subseteq WholeIn(wrote.stream)
  BY <1>1, <1>2, WroteIsClean
<1>4. /\ o.ok = (end = "drained") /\ o.alive = (end # "killed")
      /\ o.batch = adv /\ o.tcp = kept
      /\ o.drained = drained \union Below(b, b.offset + k)
      /\ o.whole = whole \union WholeIn(wrote.stream)
  BY DEF Sent, Untried
<1>5. o.drained \subseteq o.whole
  <2> HIDE DEF o, wrote
  <2>1. Below(b, b.offset + k) = Below(b, k)
    BY <1>2
  <2>2. QED
    BY <1>3, <1>4, <2>1
<1>6. adv.offset = 0 => k = 0 \/ k = Units(b)
  BY <1>1, <1>2 DEF Advanced, Batches
<1>7. end = "drained" => adv.offset = 0
  <2>1. end = "drained" => b.offset + k = Units(b)
    BY <1>2
  <2>2. b.offset + k = Units(b) => adv = Cleared(b)
    BY DEF Advanced
  <2>3. QED
    BY <1>1, <2>1, <2>2, ClearedIs
<1>8. Disconnected(t).stream = <<>>
  BY <1>1 DEF Disconnected, Tcps
<1>9. Clean(kept.stream) /\ (adv.offset = 0 => AtFrameEnd(kept.stream))
  <2>1. CASE end = "failed"
    BY <1>8, <2>1, EmptyIsClean
  <2>2. CASE end # "failed"
    <3>1. kept = wrote
      BY <2>2
    <3> HIDE DEF kept, wrote, adv
    <3>2. QED
      BY <1>3, <1>6, <3>1
  <2>3. QED
    BY <2>1, <2>2
<1> HIDE DEF o, kept, adv, wrote
<1>10. TriedCleanly(o)
  BY <1>4, <1>5, <1>7, <1>9 DEF TriedCleanly
<1>11. QED
  BY <1>10 DEF o

LEMMA TcpTriedIsClean ==
  ASSUME NEW b, NEW n, Ready(b, tcp, n), b.offset = 0, Clean(tcp.stream),
         AtFrameEnd(tcp.stream), drained \subseteq whole, NEW o \in TcpTried(b)
  PROVE  Good(o, n) /\ TriedCleanly(o)
<1> DEFINE t == TriedConnect(tcp)
<1>1. Ready(b, t, n)
  BY TriedIs DEF Ready
<1>2. Clean(t.stream) /\ AtFrameEnd(t.stream)
  BY TriedStaysClean DEF Ready
<1> HIDE DEF t
<1>3. PICK y \in TcpFlushes(b, t), time \in FlushTimes :
        o = AdaptedAfter(y, time)
  BY DEF TcpTried, t
<1>4. Good(y, n)
  BY <1>1, <1>3, TcpIsGood
<1>5. TriedCleanly(y)
  <2>1. CASE ~Connected(t)
    <3>1. y = Untried(b, t)
      BY <1>3, <2>1 DEF TcpFlushes
    <3>2. QED
      BY <1>2, <3>1 DEF Untried, TriedCleanly
  <2>2. CASE Connected(t)
    <3>1. PICK p \in (0 .. Units(b) - b.offset) \X SendEnds :
            /\ SendMayEnd(t, Units(b) - b.offset, p[1], p[2])
            /\ y = Sent(b, t, p[1], p[2])
      BY <1>3, <2>2 DEF TcpFlushes
    <3>2. p[2] = "drained" => p[1] = Units(b) - b.offset
      BY <3>1 DEF SendMayEnd
    <3>3. p[1] \in 0 .. Units(b) - b.offset /\ p[2] \in SendEnds
      BY <3>1
    <3>4. QED
      BY <1>1, <1>2, <3>1, <3>2, <3>3, SentIsClean
  <2>3. QED
    BY <2>1, <2>2
<1>6. /\ o.tcp = y.tcp /\ o.ok = y.ok /\ o.alive = y.alive
      /\ o.drained = y.drained /\ o.whole = y.whole
      /\ o.batch.offset = y.batch.offset
  <2>1. y \in Outcomes /\ y.batch \in Batches(Frames)
    BY <1>4 DEF Good, Outcomes
  <2>2. Adapted(y.batch, y.ok, time).offset = y.batch.offset
    BY <2>1 DEF Adapted, Batches
  <2>3. QED
    BY <1>3, <2>1, <2>2 DEF AdaptedAfter, Outcomes
<1>7. TriedCleanly(o)
  BY <1>5, <1>6 DEF TriedCleanly
<1>8. QED
  BY <1>3, <1>4, <1>7, AdaptedIsGood

(* What TCP left in mid-frame takes its connection with it.                 *)
LEMMA FailoverIsClean ==
  ASSUME NEW x, NEW n, Good(x, n), TriedCleanly(x), x.alive,
         NEW y \in FailedOver(x)
  PROVE  FlushedCleanly(y)
<1> DEFINE d == DiscardedFullySent(x.batch)
<1>1. /\ x \in Outcomes /\ Sound(x.batch) /\ x.tcp \in Tcps
      /\ x.batch.offset \in Nat
  BY DEF Good, Outcomes, Batches
<1>2. d \in Batches(Frames)
  BY <1>1, DiscardedIs
<1>3. PICK u \in UdpFlushes(x) :
        y = ClosedAfterPartial(HasPartialSend(x.batch), u)
  BY DEF FailedOver
<1>4. PICK sent \in SUBSET Range(UnsentFrames(d)) :
        u = [x EXCEPT !.ok = (sent = Range(UnsentFrames(d))),
                      !.batch = Cleared(d),
                      !.forwarded = @ \union sent,
                      !.lost = @ \union (Range(UnsentFrames(d)) \ sent)]
  BY <1>3 DEF UdpFlushes
<1>5. Cleared(d).offset = 0
  BY <1>2, ClearedIs
<1> HIDE DEF d
<1>6. /\ u.tcp = x.tcp /\ u.drained = x.drained /\ u.whole = x.whole
      /\ u.batch.offset = 0 /\ DOMAIN u = DOMAIN x
  BY <1>1, <1>4, <1>5 DEF Outcomes
<1>7. CASE HasPartialSend(x.batch)
  <2>1. y = [u EXCEPT !.tcp = Disconnected(u.tcp)]
    BY <1>3, <1>7 DEF ClosedAfterPartial
  <2>2. Disconnected(u.tcp).stream = <<>>
    BY <1>1, <1>6 DEF Disconnected, Tcps
  <2>3. /\ y.tcp.stream = <<>> /\ y.drained = x.drained /\ y.whole = x.whole
        /\ y.batch.offset = 0
    <3>1. DOMAIN u = {"ok", "alive", "batch", "tcp", "faults", "drained",
                      "whole", "forwarded", "lost"}
      BY <1>1, <1>6 DEF Outcomes
    <3>2. QED
      BY <1>6, <2>1, <2>2, <3>1
  <2>4. QED
    BY <2>3, EmptyIsClean DEF TriedCleanly, FlushedCleanly
<1>8. CASE ~HasPartialSend(x.batch)
  <2>1. y = u
    BY <1>3, <1>8 DEF ClosedAfterPartial
  <2>2. x.batch.offset = 0
    BY <1>1, <1>8 DEF HasPartialSend
  <2>3. QED
    BY <1>6, <2>1, <2>2 DEF TriedCleanly, FlushedCleanly
<1>9. QED
  BY <1>7, <1>8

LEMMA FlushIsClean ==
  ASSUME NEW b, NEW n, Ready(b, tcp, n), b.offset = 0, Clean(tcp.stream),
         AtFrameEnd(tcp.stream), drained \subseteq whole, transport = "auto",
         NEW o \in FlushOutcomes(b)
  PROVE  FlushedCleanly(o)
<1>1. \/ o \in TcpTried(b) /\ ~(~o.ok /\ o.alive)
      \/ \E x \in TcpTried(b) : ~x.ok /\ x.alive /\ o \in FailedOver(x)
  BY DEF FlushOutcomes
<1>2. ASSUME NEW x \in TcpTried(b)
      PROVE  Good(x, n) /\ TriedCleanly(x)
  BY TcpTriedIsClean
<1>3. CASE o \in TcpTried(b) /\ ~(~o.ok /\ o.alive)
  BY <1>2, <1>3 DEF TriedCleanly, FlushedCleanly
<1>4. CASE \E x \in TcpTried(b) : ~x.ok /\ x.alive /\ o \in FailedOver(x)
  BY <1>2, <1>4, FailoverIsClean
<1>5. QED
  BY <1>1, <1>3, <1>4

(* The program takes over a flush, and is killed if the flush was.          *)
LEMMA CleanIsKept ==
  ASSUME UplinkInv, AutoInv, pc # "killed", NEW b, NEW n,
         Ready(b, tcp, n), b.offset = batch.offset,
         NEW o \in FlushOutcomes(b), Took(o), transport' = transport,
         NEW next, pc' = After(o, next)
  PROVE  AutoInv'
<1>1. SUFFICES ASSUME transport = "auto" PROVE AutoInv'
  BY DEF AutoInv
<1>2. FlushedCleanly(o)
  BY <1>1, FlushIsClean DEF AutoInv
<1>3. pc' # "killed" => o.alive
  BY DEF After
<1>4. QED
  BY <1>2, <1>3 DEF Took, FlushedCleanly, AutoInv

LEMMA AutoStart == Init => AutoInv
<1> SUFFICES ASSUME Init PROVE AutoInv
  OBVIOUS
<1>1. Unconnected.stream = <<>> /\ EmptyBatch.offset = 0
  BY DEF Unconnected, EmptyBatch
<1>2. TriedConnect(Unconnected).stream = <<>>
  BY <1>1 DEF TriedConnect, Unconnected
<1>3. tcp.stream = <<>> /\ batch.offset = 0 /\ drained = {}
  BY <1>1, <1>2 DEF Init
<1>4. QED
  BY <1>3, EmptyIsClean DEF AutoInv

LEMMA AutoStep == UplinkInv /\ AutoInv /\ [Next]_vars => AutoInv'
<1> SUFFICES ASSUME UplinkInv, AutoInv, [Next]_vars PROVE AutoInv'
  OBVIOUS
<1>1. Ready(batch, tcp, seq) /\ seq \in 0 .. MaxFrames /\ batch \in Batches(Frames)
  BY DEF UplinkInv, Ready, Sound
<1>2. CASE Drain
  <2>1. PICK o \in FlushOutcomes(batch) :
          Took(o) /\ (pc' = After(o, "sample") \/ pc' = After(o, "top"))
    BY <1>2 DEF Drain
  <2>2. pc # "killed" /\ transport' = transport
    BY <1>2 DEF Drain
  <2>3. QED
    BY <1>1, <2>1, <2>2, CleanIsKept
<1>3. CASE Drop
  BY <1>3 DEF Drop, MaySample, AutoInv
<1>4. CASE Sample
  <2> DEFINE b == Pushed(batch, seq)
  <2>1. Ready(b, tcp, seq + 1) /\ b.offset = batch.offset
    BY <1>1, <1>4, PushIsReady DEF Sample, Pushed, Batches
  <2>2. transport' = transport /\ pc # "killed"
    BY <1>4 DEF Sample, MaySample
  <2>3. \/ \E o \in FlushOutcomes(b) : Took(o) /\ pc' = After(o, "top")
        \/ batch' = b /\ UNCHANGED <<tcp, drained, whole>>
    BY <1>4 DEF Sample
  <2> HIDE DEF b
  <2>4. QED
    BY <2>1, <2>2, <2>3, CleanIsKept DEF AutoInv
<1>5. CASE Stop
  <2>1. transport' = transport /\ pc # "killed"
    BY <1>5 DEF Stop, Running
  <2>2. \/ \E o \in FlushOutcomes(batch) : Took(o) /\ pc' = After(o, "done")
        \/ UNCHANGED <<batch, tcp, drained, whole>>
    BY <1>5 DEF Stop
  <2>3. QED
    BY <1>1, <2>1, <2>2, CleanIsKept DEF AutoInv
<1>6. CASE Tick \/ Network
  <2>1. UNCHANGED <<transport, pc, batch, drained, whole>>
    BY <1>6 DEF Tick, Network, PeerCloses, PeerResets, ResetArrives,
                PeerReturns, Fault
  <2>2. tcp'.stream = tcp.stream
    <3>1. tcp \in [link : Links, wait : Nat, backoff : Nat, stream : Seq(WireUnits)]
      BY <1>1 DEF Ready, Tcps
    <3>2. \/ tcp' = tcp
          \/ \E l \in {"closing", "reset", "pipe"} : tcp' = [tcp EXCEPT !.link = l]
          \/ tcp' = [tcp EXCEPT !.wait = tcp.wait - 1]
      BY <1>6 DEF Tick, Network, PeerCloses, PeerResets, ResetArrives, PeerReturns
    <3>3. QED
      BY <3>1, <3>2
  <2>3. QED
    BY <2>1, <2>2 DEF AutoInv
<1>7. CASE UNCHANGED vars
  BY <1>7 DEF vars, AutoInv
<1>8. QED
  BY <1>2, <1>3, <1>4, <1>5, <1>6, <1>7 DEF Next, Loop

(* Under auto a connection carries whole frames and nothing else from its   *)
(* first byte on, and what TCP drained went out whole on one: flush_batch   *)
(* closes a stream it leaves in mid-frame (main.cpp:185).                   *)
THEOREM CleanStreams == Spec => []AutoStreamsClean
<1>1. AutoInv => AutoStreamsClean
  BY DEF AutoInv, AutoStreamsClean, Clean
<1>2. QED
  BY <1>1, Invariance, AutoStart, AutoStep, PTL DEF Spec

(***************************************************************************)
(* What sent_ok counts                                                      *)
(***************************************************************************)
FramesAreFinite == \A s \in SUBSET Frames : IsFiniteSet(s) /\ Cardinality(s) \in Nat

LEMMA FramesFinite == FramesAreFinite
<1>1. IsFiniteSet(Frames)
  BY UplinkAssumption, FS_Interval DEF Frames
<1>2. QED
  BY <1>1, FS_Subset, FS_CardinalityType DEF FramesAreFinite

(* The frames of a batch are as many as its slots.                          *)
LEMMA UnsentCardinality ==
  ASSUME NEW b, Sound(b)
  PROVE  Cardinality(UnsentOf(b)) = Count(b) - UnsentIndex(b)
<1> DEFINE I == UnsentIndex(b) + 1 .. Count(b)
           g == [i \in I |-> b.frames[i]]
<1>1. /\ UnsentIndex(b) \in 0 .. Count(b) /\ Count(b) \in Nat
      /\ Count(b) = Len(b.frames)
      /\ \A i, j \in 1 .. Len(b.frames) : b.frames[i] = b.frames[j] => i = j
  BY IndexInside, BatchFacts DEF Sound
<1>2. g \in Bijection(I, UnsentOf(b))
  <2>1. g \in [I -> UnsentOf(b)]
    BY DEF UnsentOf
  <2>2. \A i, j \in I : g[i] = g[j] => i = j
    BY <1>1
  <2>3. \A f \in UnsentOf(b) : \E i \in I : g[i] = f
    BY DEF UnsentOf
  <2> HIDE DEF g, I
  <2>4. QED
    BY <2>1, <2>2, <2>3, Fun_IsBij
<1>3. /\ IsFiniteSet(I)
      /\ Cardinality(I) = Count(b) - UnsentIndex(b)
  <2> DEFINE lo == UnsentIndex(b) + 1
  <2>1. lo \in Int /\ Count(b) \in Int /\ lo = UnsentIndex(b) + 1
    BY <1>1
  <2> HIDE DEF lo
  <2>2. /\ IsFiniteSet(lo .. Count(b))
        /\ Cardinality(lo .. Count(b)) =
             IF lo > Count(b) THEN 0 ELSE Count(b) - lo + 1
    BY <2>1, FS_Interval
  <2>3. (IF lo > Count(b) THEN 0 ELSE Count(b) - lo + 1)
          = Count(b) - UnsentIndex(b)
    BY <1>1, <2>1
  <2>4. I = lo .. Count(b)
    BY DEF lo
  <2> HIDE DEF I
  <2>5. QED
    BY <2>2, <2>3, <2>4
<1> HIDE DEF g, I
<1>4. ExistsBijection(I, UnsentOf(b))
  BY <1>2 DEF ExistsBijection
<1>5. QED
  BY <1>3, <1>4, FS_Bijection

LEMMA DisjointUnion ==
  ASSUME NEW S \in SUBSET Frames, NEW T \in SUBSET Frames, S \intersect T = {}
  PROVE  Cardinality(S \union T) = Cardinality(S) + Cardinality(T)
<1>1. IsFiniteSet(S) /\ IsFiniteSet(T) /\ Cardinality({}) = 0
      /\ Cardinality(S) \in Nat /\ Cardinality(T) \in Nat
  BY FramesFinite, FS_EmptySet DEF FramesAreFinite
<1>2. Cardinality(S \union T) =
        Cardinality(S) + Cardinality(T) - Cardinality(S \intersect T)
  BY <1>1, FS_Union
<1>3. Cardinality(S \intersect T) = 0
  BY <1>1, Zenon
<1>4. QED
  BY <1>1, <1>2, <1>3

(* What a flush of b leaves: nothing that arrived is taken back, under tcp  *)
(* nothing is forwarded, and only tcp keeps frames back.                    *)
Reached(o, b) ==
  /\ drained \union forwarded \subseteq o.drained \union o.forwarded
  /\ o.ok => o.lost = lost
  /\ transport = "tcp" =>
       /\ o.forwarded = forwarded /\ o.lost = lost
       /\ o.alive => o.ok \/ o.batch.frames = b.frames
  /\ transport # "tcp" /\ o.alive => o.batch.frames = <<>>

(* The same when TCP was tried.                                             *)
TcpReached(o, b) ==
  /\ drained \subseteq o.drained
  /\ o.forwarded = forwarded /\ o.lost = lost
  /\ o.alive => o.ok \/ o.batch.frames = b.frames

LEMMA SentReached ==
  ASSUME NEW b, NEW t, NEW n, Ready(b, t, n), Units(b) > 0,
         NEW k \in 0 .. Units(b) - b.offset, NEW end \in SendEnds,
         SendMayEnd(t, Units(b) - b.offset, k, end)
  PROVE  TcpReached(Sent(b, t, k, end), b)
<1> DEFINE o == Sent(b, t, k, end)
<1>1. Sound(b) /\ b \in Batches(Frames)
  BY DEF Ready, Sound
<1>2. /\ Units(b) \in Nat /\ b.offset \in Nat
      /\ b.offset = 0 \/ b.offset < Units(b)
  BY <1>1, BatchFacts DEF Sound
<1>3. /\ o.ok = (end = "drained") /\ o.alive = (end # "killed")
      /\ o.batch = Advanced(b, k)
      /\ o.drained = drained \union Below(b, b.offset + k)
      /\ o.forwarded = forwarded /\ o.lost = lost
  BY DEF Sent, Untried
<1>4. CASE end = "drained"
  BY <1>3, <1>4 DEF TcpReached
<1>5. CASE end = "killed"
  BY <1>3, <1>5 DEF TcpReached
<1>6. CASE end \in {"stalled", "failed"}
  <2>1. end = "stalled" => k < Units(b) - b.offset
    BY DEF SendMayEnd
  <2>2. end = "failed" => k < Units(b) - b.offset \/ k = 0
    BY DEF SendMayEnd
  <2>3. b.offset + k # Units(b)
    BY <1>2, <1>6, <2>1, <2>2
  <2>4. Advanced(b, k).frames = b.frames
    BY <1>1, <2>3 DEF Advanced, Batches
  <2>5. QED
    BY <1>3, <2>4 DEF TcpReached
<1>7. QED
  BY <1>4, <1>5, <1>6 DEF SendEnds

LEMMA TcpTriedReached ==
  ASSUME NEW b, NEW n, Ready(b, tcp, n), Units(b) > 0, NEW o \in TcpTried(b)
  PROVE  Good(o, n) /\ TcpReached(o, b)
<1> DEFINE t == TriedConnect(tcp)
<1>1. Ready(b, t, n)
  BY TriedIs DEF Ready
<1> HIDE DEF t
<1>2. PICK y \in TcpFlushes(b, t), time \in FlushTimes :
        o = AdaptedAfter(y, time)
  BY DEF TcpTried, t
<1>3. Good(y, n)
  BY <1>1, <1>2, TcpIsGood
<1>4. TcpReached(y, b)
  <2>1. CASE ~Connected(t)
    <3>1. y = Untried(b, t)
      BY <1>2, <2>1 DEF TcpFlushes
    <3>2. QED
      BY <3>1 DEF Untried, TcpReached
  <2>2. CASE Connected(t)
    <3>1. PICK p \in (0 .. Units(b) - b.offset) \X SendEnds :
            /\ SendMayEnd(t, Units(b) - b.offset, p[1], p[2])
            /\ y = Sent(b, t, p[1], p[2])
      BY <1>2, <2>2 DEF TcpFlushes
    <3>2. p[1] \in 0 .. Units(b) - b.offset /\ p[2] \in SendEnds
      BY <3>1
    <3>3. QED
      BY <1>1, <3>1, <3>2, SentReached
  <2>3. QED
    BY <2>1, <2>2
<1>5. /\ o.ok = y.ok /\ o.alive = y.alive /\ o.drained = y.drained
      /\ o.forwarded = y.forwarded /\ o.lost = y.lost
      /\ o.batch.frames = y.batch.frames
  <2>1. y \in Outcomes /\ y.batch \in Batches(Frames)
    BY <1>3 DEF Good, Outcomes
  <2>2. Adapted(y.batch, y.ok, time).frames = y.batch.frames
    BY <2>1 DEF Adapted, Batches
  <2>3. QED
    BY <1>2, <2>1, <2>2 DEF AdaptedAfter, Outcomes
<1>6. TcpReached(o, b)
  BY <1>4, <1>5 DEF TcpReached
<1>7. QED
  BY <1>2, <1>3, <1>6, AdaptedIsGood

LEMMA UdpReached ==
  ASSUME NEW x, NEW n, Good(x, n), NEW u \in UdpFlushes(x)
  PROVE  /\ u \in Outcomes
         /\ u.drained = x.drained /\ x.forwarded \subseteq u.forwarded
         /\ u.ok => u.lost = x.lost
         /\ u.batch.frames = <<>> /\ u.alive = x.alive
<1> DEFINE d == DiscardedFullySent(x.batch)
           r == Range(UnsentFrames(d))
<1>1. x \in Outcomes /\ Sound(x.batch)
  BY DEF Good
<1>2. d \in Batches(Frames)
  BY <1>1, DiscardedIs
<1>3. PICK sent \in SUBSET r :
        u = [x EXCEPT !.ok = (sent = r), !.batch = Cleared(d),
                      !.forwarded = @ \union sent,
                      !.lost = @ \union (r \ sent)]
  BY DEF UdpFlushes
<1>4. Cleared(d).frames = <<>>
  BY <1>2, ClearedIs
<1> HIDE DEF d, r
<1>5. /\ u.ok = (sent = r) /\ u.batch = Cleared(d) /\ u.alive = x.alive
      /\ u.forwarded = x.forwarded \union sent /\ u.drained = x.drained
      /\ u.lost = x.lost \union (r \ sent)
  BY <1>1, <1>3 DEF Outcomes
<1>6. u \in Outcomes
  <2>1. Good(u, n)
    BY UdpIsGood
  <2>2. QED
    BY <2>1 DEF Good
<1>7. QED
  BY <1>4, <1>5, <1>6

LEMMA FlushReached ==
  ASSUME NEW b, NEW n, Ready(b, tcp, n), Units(b) > 0,
         NEW o \in FlushOutcomes(b)
  PROVE  Good(o, n) /\ Reached(o, b)
<1>1. Good(o, n)
  BY FlushIsGood
<1>2. transport \in {"auto", "tcp", "udp", "mesh"}
  BY UplinkAssumption DEF Ready, Typed
<1>3. ASSUME NEW x \in TcpTried(b)
      PROVE  Good(x, n) /\ TcpReached(x, b)
  BY TcpTriedReached
<1>4. CASE transport \in {"udp", "mesh"}
  <2>1. o \in UdpFlushes(Untried(b, tcp))
    BY <1>4 DEF FlushOutcomes
  <2>2. /\ Untried(b, tcp).drained = drained /\ Untried(b, tcp).lost = lost
        /\ Untried(b, tcp).forwarded = forwarded
    BY DEF Untried
  <2>3. QED
    BY <1>1, <1>4, <2>1, <2>2, UntriedIsGood, UdpReached DEF Reached
<1>5. CASE transport = "tcp"
  <2>1. o \in TcpTried(b)
    BY <1>5 DEF FlushOutcomes
  <2>2. o.ok => o.batch.frames = <<>>
    BY <1>1 DEF Good
  <2>3. QED
    BY <1>1, <1>3, <1>5, <2>1, <2>2 DEF TcpReached, Reached
<1>6. CASE transport = "auto"
  <2>1. \/ o \in TcpTried(b) /\ ~(~o.ok /\ o.alive)
        \/ \E x \in TcpTried(b) : o \in FailedOver(x)
    BY <1>6 DEF FlushOutcomes
  <2>2. CASE o \in TcpTried(b) /\ ~(~o.ok /\ o.alive)
    <3>1. o.ok => o.batch.frames = <<>>
      BY <1>1 DEF Good
    <3>2. o.ok \in BOOLEAN /\ o.alive \in BOOLEAN
      BY <1>1 DEF Good, Outcomes
    <3>3. QED
      BY <1>1, <1>3, <1>6, <2>2, <3>1, <3>2 DEF TcpReached, Reached
  <2>3. ASSUME NEW x \in TcpTried(b), o \in FailedOver(x)
        PROVE  Reached(o, b)
    <3>1. PICK u \in UdpFlushes(x) :
            o = ClosedAfterPartial(HasPartialSend(x.batch), u)
      BY <2>3 DEF FailedOver
    <3>2. /\ u \in Outcomes /\ u.drained = x.drained
          /\ x.forwarded \subseteq u.forwarded
          /\ u.ok => u.lost = x.lost
          /\ u.batch.frames = <<>> /\ u.alive = x.alive
      BY <1>3, <3>1, UdpReached
    <3>3. /\ o.drained = u.drained /\ o.forwarded = u.forwarded
          /\ o.lost = u.lost /\ o.batch = u.batch /\ o.ok = u.ok
      BY <3>1, <3>2 DEF ClosedAfterPartial, Outcomes
    <3>4. TcpReached(x, b)
      BY <1>3
    <3>5. QED
      BY <1>6, <3>2, <3>3, <3>4 DEF TcpReached, Reached
  <2>4. QED
    BY <1>1, <2>1, <2>2, <2>3
<1>7. QED
  BY <1>2, <1>4, <1>5, <1>6

(* sent_ok is never ahead of what left; under tcp it is what was sampled    *)
(* and is neither dropped nor in the batch.  Under the other transports a   *)
(* turn of the loop ends with nothing to drain.                             *)
OkInv ==
  /\ sentOk \in Nat
  /\ sentOk <= Cardinality(drained \union forwarded)
  /\ transport = "tcp" =>
       /\ forwarded = {} /\ lost = {}
       /\ Running => sentOk + Count(batch) + Cardinality(dropped) = seq
  /\ transport # "tcp" /\ Running => batch.offset = 0 /\ ~NeedsDrain(batch)

LEMMA EmptyNeedsNothing ==
  ASSUME NEW b, Sound(b), b.frames = <<>>
  PROVE  b.offset = 0 /\ ~NeedsDrain(b) /\ Count(b) = 0
<1>1. /\ b.flushAt \in 1 .. Capacity /\ b.offset \in Nat
      /\ Capacity \in Nat \ {0} /\ FrameUnits \in Nat
  BY BatchFacts DEF Sound
<1>2. Count(b) = 0
  BY DEF Count
<1>3. Units(b) = 0
  BY <1>1, <1>2 DEF Units
<1>4. b.offset = 0
  BY <1>1, <1>3 DEF Sound
<1>5. QED
  BY <1>1, <1>2, <1>4 DEF NeedsDrain, ShouldFlush, Full, HasPartialSend

LEMMA NonemptyHasUnits ==
  ASSUME NEW b, Sound(b), Count(b) > 0
  PROVE  Units(b) > 0
<1>1. Count(b) \in Nat /\ FrameUnits \in Nat \ {0}
  BY BatchFacts DEF Sound
<1>2. QED
  BY <1>1 DEF Units

LEMMA DrainHasUnits ==
  ASSUME NEW b, Sound(b), NeedsDrain(b)
  PROVE  Units(b) > 0
<1>1. /\ b.flushAt \in 1 .. Capacity /\ b.offset \in Nat /\ Count(b) \in Nat
      /\ Capacity \in Nat \ {0} /\ Units(b) \in Nat
      /\ b.offset = 0 \/ b.offset < Units(b)
  BY BatchFacts DEF Sound
<1>2. Count(b) > 0 \/ b.offset > 0
  BY <1>1 DEF NeedsDrain, ShouldFlush, Full, HasPartialSend
<1>3. QED
  BY <1>1, <1>2, NonemptyHasUnits

(* Under tcp, once the batch is empty, all that was not dropped is drained. *)
LEMMA AllDrained ==
  ASSUME NEW o, NEW n \in Nat, Good(o, n), Typed, o.batch.frames = <<>>,
         o.forwarded = {}, o.lost = {}
  PROVE  Cardinality(o.drained \union o.forwarded) + Cardinality(dropped) = n
<1>1. /\ Sound(o.batch) /\ o.drained \in SUBSET Frames
      /\ Placed(o.batch, o.drained, {}, {}, n)
  BY DEF Good, Outcomes
<1>2. UnsentOf(o.batch) = {}
  <2>1. Count(o.batch) = 0 /\ UnsentIndex(o.batch) \in Nat
    BY <1>1, EmptyNeedsNothing, BatchFacts DEF Sound
  <2>2. UnsentIndex(o.batch) + 1 .. Count(o.batch) = {}
    BY <2>1
  <2>3. QED
    BY <2>2 DEF UnsentOf
<1>3. /\ o.drained \union dropped = 0 .. n - 1
      /\ o.drained \intersect dropped = {}
  BY <1>1, <1>2 DEF Placed
<1>4. Cardinality(0 .. n - 1) = n
  <2>1. 0 \in Int /\ n - 1 \in Int
    OBVIOUS
  <2>2. Cardinality(0 .. n - 1) = IF 0 > n - 1 THEN 0 ELSE n - 1 - 0 + 1
    BY <2>1, FS_Interval
  <2>3. QED
    BY <2>2
<1>5. Cardinality(o.drained \union dropped)
        = Cardinality(o.drained) + Cardinality(dropped)
  BY <1>1, <1>3, DisjointUnion DEF Typed
<1>6. o.drained \union o.forwarded = o.drained
  OBVIOUS
<1>7. QED
  <2>1. Cardinality(o.drained \union o.forwarded) = Cardinality(o.drained)
    BY <1>6, Zenon
  <2>2. Cardinality(o.drained \union dropped) = n
    BY <1>3, <1>4, Zenon
  <2>3. QED
    BY <1>5, <2>1, <2>2

LEMMA MoreArrived ==
  ASSUME NEW o, NEW n, NEW b, Good(o, n), Reached(o, b), Typed
  PROVE  Cardinality(drained \union forwarded)
           <= Cardinality(o.drained \union o.forwarded)
<1>1. o.drained \union o.forwarded \in SUBSET Frames
  BY DEF Good, Outcomes
<1>2. IsFiniteSet(o.drained \union o.forwarded)
  BY <1>1, FramesFinite DEF FramesAreFinite
<1>3. drained \union forwarded \in SUBSET (o.drained \union o.forwarded)
  BY DEF Reached
<1>4. QED
  BY <1>2, <1>3, FS_Subset

(* A flush that says it sent everything did.                                *)
LEMMA OkMeansArrived ==
  ASSUME NEW o, NEW n, NEW b, Ready(b, tcp, n), b.offset = 0,
         Good(o, n), Reached(o, b), o.ok
  PROVE  Cardinality(drained \union forwarded) + Count(b)
           <= Cardinality(o.drained \union o.forwarded)
<1>1. Sound(b) /\ Typed /\ Placed(b, drained, forwarded, lost, n)
  BY DEF Ready
<1>2. /\ Placed(o.batch, o.drained, o.forwarded, lost, n)
      /\ o.batch.frames = <<>> /\ Sound(o.batch)
  BY DEF Good, Reached
<1>3. UnsentOf(o.batch) = {}
  <2>1. Count(o.batch) = 0 /\ UnsentIndex(o.batch) \in Nat
    BY <1>2, EmptyNeedsNothing, BatchFacts DEF Sound
  <2>2. UnsentIndex(o.batch) + 1 .. Count(o.batch) = {}
    BY <2>1
  <2>3. QED
    BY <2>2 DEF UnsentOf
<1> DEFINE u == UnsentOf(b)
           before == drained \union forwarded
           after == o.drained \union o.forwarded
<1>4. u \union before \subseteq after /\ u \intersect before = {}
  BY <1>1, <1>2, <1>3 DEF Placed
<1>5. u \in SUBSET Frames /\ before \in SUBSET Frames /\ after \in SUBSET Frames
  <2>1. u \subseteq Frames
    BY <1>1, UnsentAreFrames DEF Sound
  <2>2. QED
    BY <1>1, <2>1 DEF Typed, Good, Outcomes
<1>6. Cardinality(u) = Count(b)
  <2>1. UnsentIndex(b) = 0 /\ Count(b) \in Nat
    <3>1. FrameUnits \in Nat \ {0} /\ Count(b) \in Nat
      BY <1>1, BatchFacts DEF Sound
    <3>2. 0 \div FrameUnits = 0
      BY <3>1
    <3>3. QED
      BY <3>1, <3>2 DEF UnsentIndex
  <2>2. Cardinality(u) = Count(b) - UnsentIndex(b)
    BY <1>1, UnsentCardinality
  <2>3. QED
    BY <2>1, <2>2
<1> HIDE DEF u, before, after
<1>7. Cardinality(u \union before) = Cardinality(u) + Cardinality(before)
  BY <1>4, <1>5, DisjointUnion
<1>8. Cardinality(u \union before) <= Cardinality(after)
  <2>1. IsFiniteSet(after)
    BY <1>5, FramesFinite DEF FramesAreFinite
  <2>2. QED
    BY <1>4, <2>1, FS_Subset
<1>9. Cardinality(u) \in Nat /\ Cardinality(before) \in Nat
      /\ Cardinality(after) \in Nat
  BY <1>5, FramesFinite DEF FramesAreFinite
<1>10. Cardinality(before) + Count(b) <= Cardinality(after)
  BY <1>6, <1>7, <1>8, <1>9
<1>11. QED
  BY <1>10 DEF before, after

(* The program takes over a flush of b, counting the batch or not.          *)
LEMMA FlushCounts ==
  ASSUME OkInv, NEW b, NEW n \in Nat, Ready(b, tcp, n), Units(b) > 0,
         NEW o \in FlushOutcomes(b), Took(o),
         UNCHANGED <<transport, dropped>>, seq' = n,
         transport = "tcp" => sentOk + Count(b) + Cardinality(dropped) = n,
         transport # "tcp" => b.offset = 0,
         NEW counted \in BOOLEAN,
         sentOk' = IF counted THEN sentOk + Count(b) ELSE sentOk,
         counted => o.ok \/ (transport = "tcp" /\ o.batch.frames = <<>>),
         Running' => o.alive /\ (transport = "tcp" => (counted <=> o.ok))
  PROVE  OkInv'
<1>1. Good(o, n) /\ Reached(o, b)
  BY FlushReached
<1>2. /\ Typed /\ Sound(b) /\ Sound(o.batch) /\ Count(b) \in Nat
      /\ o.ok => o.batch.frames = <<>>
  BY <1>1, BatchFacts DEF Ready, Good, Sound
<1>3. /\ batch' = o.batch /\ drained' = o.drained
      /\ forwarded' = o.forwarded /\ lost' = o.lost
  BY DEF Took
<1>4. /\ sentOk \in Nat /\ Cardinality(dropped) \in Nat
      /\ Cardinality(drained \union forwarded) \in Nat
      /\ Cardinality(o.drained \union o.forwarded) \in Nat
  <2>1. /\ dropped \in SUBSET Frames /\ drained \union forwarded \in SUBSET Frames
        /\ o.drained \union o.forwarded \in SUBSET Frames
    BY <1>1, <1>2 DEF Typed, Good, Outcomes
  <2>2. QED
    BY <2>1, FramesFinite DEF FramesAreFinite, OkInv
<1>5. transport = "tcp" =>
        /\ o.forwarded = {} /\ o.lost = {}
        /\ o.alive => o.ok \/ o.batch.frames = b.frames
  BY <1>1 DEF Reached, OkInv
<1>6. transport = "tcp" /\ o.batch.frames = <<>> =>
        Cardinality(o.drained \union o.forwarded) + Cardinality(dropped) = n
  BY <1>1, <1>2, <1>5, AllDrained
<1>7. sentOk' \in Nat
  BY <1>2, <1>4
<1>8. sentOk' <= Cardinality(o.drained \union o.forwarded)
  <2>1. CASE ~counted
    <3>1. Cardinality(drained \union forwarded)
            <= Cardinality(o.drained \union o.forwarded)
      BY <1>1, <1>2, MoreArrived
    <3>2. QED
      BY <1>4, <2>1, <3>1 DEF OkInv
  <2>2. CASE counted /\ transport = "tcp"
    BY <1>2, <1>4, <1>6, <2>2
  <2>3. CASE counted /\ transport # "tcp"
    <3>1. Cardinality(drained \union forwarded) + Count(b)
            <= Cardinality(o.drained \union o.forwarded)
      BY <1>1, <2>3, OkMeansArrived
    <3>2. QED
      BY <1>2, <1>4, <2>3, <3>1 DEF OkInv
  <2>4. QED
    BY <2>1, <2>2, <2>3
<1>9. ASSUME transport = "tcp", Running'
      PROVE  sentOk' + Count(o.batch) + Cardinality(dropped) = n
  <2>1. CASE o.ok
    <3>1. Count(o.batch) = 0
      BY <1>2, <2>1, EmptyNeedsNothing
    <3>2. counted
      BY <1>9, <2>1
    <3>3. QED
      BY <1>2, <1>4, <1>9, <3>1, <3>2
  <2>2. CASE ~o.ok
    <3>1. ~counted /\ o.batch.frames = b.frames
      BY <1>5, <1>9, <2>2
    <3>2. Count(o.batch) = Count(b)
      BY <3>1 DEF Count
    <3>3. QED
      BY <1>9, <3>1, <3>2
  <2>3. QED
    BY <2>1, <2>2
<1>10. ASSUME transport # "tcp", Running'
       PROVE  o.batch.offset = 0 /\ ~NeedsDrain(o.batch)
  <2>1. o.batch.frames = <<>>
    BY <1>1, <1>10 DEF Reached
  <2>2. QED
    BY <1>2, <2>1, EmptyNeedsNothing
<1>11. /\ sentOk' \in Nat
       /\ sentOk' <= Cardinality(drained' \union forwarded')
       /\ transport' = "tcp" =>
            /\ forwarded' = {} /\ lost' = {}
            /\ Running' => sentOk' + Count(batch') + Cardinality(dropped') = seq'
       /\ transport' # "tcp" /\ Running'
            => batch'.offset = 0 /\ ~NeedsDrain(batch')
  BY <1>3, <1>5, <1>7, <1>8, <1>9, <1>10
<1>12. QED
  BY <1>11 DEF OkInv, Count, NeedsDrain, ShouldFlush, Full, HasPartialSend

LEMMA OkStart == Init => OkInv
<1> SUFFICES ASSUME Init PROVE OkInv
  OBVIOUS
<1>1. Cardinality({}) = 0
  BY FS_EmptySet
<1>2. EmptyBatch.frames = <<>> /\ EmptyBatch.offset = 0
      /\ EmptyBatch.flushAt = Capacity /\ Len(EmptyBatch.frames) = 0
  BY DEF EmptyBatch
<1> HIDE DEF EmptyBatch
<1>3. drained \union forwarded = {}
  BY DEF Init
<1>4. Cardinality(drained \union forwarded) = 0 /\ Cardinality(dropped) = 0
  BY <1>1, <1>3, Zenon DEF Init
<1>5. Count(batch) = 0 /\ batch.offset = 0 /\ ~NeedsDrain(batch)
  BY <1>2, BatchAssumption DEF Init, Count, NeedsDrain, ShouldFlush, Full,
                               HasPartialSend
<1>6. QED
  BY <1>4, <1>5 DEF Init, OkInv

LEMMA OkDrain == UplinkInv /\ OkInv /\ Drain => OkInv'
<1> SUFFICES ASSUME UplinkInv, OkInv, Drain PROVE OkInv'
  OBVIOUS
<1>1. /\ Ready(batch, tcp, seq) /\ Sound(batch) /\ Running /\ NeedsDrain(batch)
      /\ seq \in Nat
  BY UplinkAssumption DEF UplinkInv, Ready, Drain, Running
<1>2. transport = "tcp"
  BY <1>1 DEF OkInv
<1>3. Units(batch) > 0
  BY <1>1, DrainHasUnits
<1>4. PICK o \in FlushOutcomes(batch) :
        /\ Took(o)
        /\ IF o.ok \/ o.batch.frames = <<>>
             THEN pc' = After(o, "sample") /\ sentOk' = sentOk + Count(batch)
             ELSE pc' = After(o, "top") /\ sentOk' = sentOk
  BY DEF Drain
<1>5. Good(o, seq) /\ Reached(o, batch)
  BY <1>1, <1>3, <1>4, FlushReached
<1> DEFINE counted == o.ok \/ o.batch.frames = <<>>
<1>6. Running' => o.alive
  BY <1>4 DEF Running, After
<1>7. Running' => (counted <=> o.ok)
  <2>1. SUFFICES ASSUME o.alive, ~o.ok PROVE o.batch.frames # <<>>
    BY <1>6
  <2>2. o.batch.frames = batch.frames
    BY <1>2, <1>5, <2>1 DEF Reached
  <2>3. batch.frames = <<>> => Count(batch) = 0 /\ batch.offset = 0 /\ ~NeedsDrain(batch)
    BY <1>1, EmptyNeedsNothing
  <2>4. QED
    BY <1>1, <2>2, <2>3
<1>8. UNCHANGED <<transport, dropped>> /\ seq' = seq
  BY DEF Drain
<1>9. /\ counted \in BOOLEAN
      /\ sentOk' = IF counted THEN sentOk + Count(batch) ELSE sentOk
      /\ counted => o.ok \/ (transport = "tcp" /\ o.batch.frames = <<>>)
  <2>1. o.ok \in BOOLEAN
    BY <1>5 DEF Good, Outcomes
  <2>2. QED
    BY <1>2, <1>4, <2>1
<1>10. sentOk + Count(batch) + Cardinality(dropped) = seq
  BY <1>1, <1>2 DEF OkInv
<1> HIDE DEF counted
<1>11. QED
  BY <1>1, <1>2, <1>3, <1>4, <1>6, <1>7, <1>8, <1>9, <1>10, FlushCounts

LEMMA OkStop == UplinkInv /\ OkInv /\ Stop => OkInv'
<1> SUFFICES ASSUME UplinkInv, OkInv, Stop PROVE OkInv'
  OBVIOUS
<1>1. Ready(batch, tcp, seq) /\ Sound(batch) /\ Running /\ seq \in Nat
  BY UplinkAssumption DEF UplinkInv, Ready, Stop
<1>2. UNCHANGED <<transport, seq, dropped, sentOk>> /\ ~Running'
  BY DEF Stop, After, Running
<1>3. CASE batch.frames # <<>>
  <2>1. PICK o \in FlushOutcomes(batch) : Took(o)
    BY <1>3 DEF Stop
  <2>2. Units(batch) > 0
    <3>1. Count(batch) \in Nat /\ batch.frames \in Seq(Frames)
          /\ Count(batch) = Len(batch.frames)
      BY <1>1, BatchFacts DEF Sound
    <3>2. Count(batch) > 0
      BY <1>3, <3>1, EmptySeq
    <3>3. QED
      BY <1>1, <3>2, NonemptyHasUnits
  <2>3. /\ transport = "tcp" => sentOk + Count(batch) + Cardinality(dropped) = seq
        /\ transport # "tcp" => batch.offset = 0
    BY <1>1 DEF OkInv
  <2>4. sentOk' = IF FALSE THEN sentOk + Count(batch) ELSE sentOk
    BY <1>2
  <2>5. QED
    BY <1>1, <1>2, <2>1, <2>2, <2>3, <2>4, FlushCounts
<1>4. CASE batch.frames = <<>>
  BY <1>2, <1>4 DEF Stop, OkInv
<1>5. QED
  BY <1>3, <1>4

LEMMA OkSample == UplinkInv /\ OkInv /\ Sample => OkInv'
<1> SUFFICES ASSUME UplinkInv, OkInv, Sample PROVE OkInv'
  OBVIOUS
<1> DEFINE b == Pushed(batch, seq)
<1>1. /\ Ready(batch, tcp, seq) /\ Sound(batch) /\ batch \in Batches(Frames)
      /\ Running /\ MaySample /\ seq \in 0 .. MaxFrames /\ seq \in Nat
  BY UplinkAssumption DEF UplinkInv, Ready, Sample, MaySample, Running, Sound
<1>2. Ready(b, tcp, seq + 1)
  BY <1>1, PushIsReady
<1>3. /\ b.offset = batch.offset /\ Count(b) = Count(batch) + 1
      /\ Count(batch) \in Nat
  <2>1. ~Full(batch)
    BY <1>1 DEF UplinkInv, MaySample, NeedsDrain
  <2>2. /\ batch.frames \in Seq(Frames) /\ Count(batch) = Len(batch.frames)
        /\ Count(batch) \in Nat
    BY <1>1, BatchFacts
  <2>3. b.frames = Append(batch.frames, seq) /\ b.offset = batch.offset
    BY <1>1, <2>1 DEF Pushed, Batches
  <2>4. Len(Append(batch.frames, seq)) = Len(batch.frames) + 1
    BY <2>2
  <2> HIDE DEF b
  <2>5. QED
    BY <2>2, <2>3, <2>4 DEF Count
<1>4. Sound(b) /\ Count(b) > 0 /\ Units(b) > 0
  <2>1. Sound(b)
    BY <1>2 DEF Ready
  <2>2. Count(b) > 0
    BY <1>3
  <2>3. QED
    BY <2>1, <2>2, NonemptyHasUnits
<1>5. UNCHANGED <<transport, dropped>> /\ seq' = seq + 1
  BY DEF Sample
<1>6. /\ transport = "tcp" => sentOk + Count(b) + Cardinality(dropped) = seq + 1
      /\ transport # "tcp" => b.offset = 0
  <2>1. dropped \in SUBSET Frames /\ sentOk \in Nat
    BY <1>1 DEF Ready, Typed, OkInv
  <2>2. Cardinality(dropped) \in Nat
    BY <2>1, FramesFinite DEF FramesAreFinite
  <2>3. /\ transport = "tcp" => sentOk + Count(batch) + Cardinality(dropped) = seq
        /\ transport # "tcp" => batch.offset = 0
    BY <1>1 DEF OkInv
  <2> HIDE DEF b
  <2>4. QED
    BY <1>1, <1>3, <2>1, <2>2, <2>3
<1>7. \/ \E o \in FlushOutcomes(b) :
           /\ Took(o)
           /\ sentOk' = IF o.ok THEN sentOk + Count(b) ELSE sentOk
           /\ pc' = After(o, "top")
      \/ /\ ~ShouldFlush(b) /\ ~Full(b)
         /\ batch' = b
         /\ UNCHANGED <<drained, forwarded, lost, sentOk>>
  BY DEF Sample, CountedOk
<1> HIDE DEF b
<1>8. ASSUME NEW o \in FlushOutcomes(b), Took(o), pc' = After(o, "top"),
             sentOk' = IF o.ok THEN sentOk + Count(b) ELSE sentOk
      PROVE  OkInv'
  <2>1. Good(o, seq + 1)
    BY <1>2, <1>4, FlushReached
  <2>2. o.ok \in BOOLEAN /\ seq + 1 \in Nat
    BY <1>1, <2>1 DEF Good, Outcomes
  <2>3. Running' => o.alive
    BY <1>8 DEF Running, After
  <2>4. QED
    BY <1>2, <1>4, <1>5, <1>6, <1>8, <2>2, <2>3, FlushCounts
<1>9. ASSUME ~ShouldFlush(b), ~Full(b), batch' = b,
             UNCHANGED <<drained, forwarded, lost, sentOk>>
      PROVE  OkInv'
  <2>1. transport # "tcp" => ~NeedsDrain(b)
    BY <1>6, <1>9 DEF NeedsDrain, HasPartialSend
  <2>2. QED
    BY <1>5, <1>6, <1>9, <2>1 DEF OkInv, Count, NeedsDrain, ShouldFlush, Full,
                                  HasPartialSend
<1>10. QED
  BY <1>7, <1>8, <1>9

LEMMA OkDrop == UplinkInv /\ OkInv /\ Drop => OkInv'
<1> SUFFICES ASSUME UplinkInv, OkInv, Drop PROVE OkInv'
  OBVIOUS
<1>1. /\ Typed /\ Placed(batch, drained, forwarded, lost, seq) /\ seq \in Nat
      /\ Running /\ Sound(batch) /\ pc' = "top"
      /\ transport # "tcp" => ~NeedsDrain(batch) /\ batch.offset = 0
  BY UplinkAssumption DEF UplinkInv, Ready, Typed, Drop, MaySample, Running, OkInv
<1>2. seq \notin dropped
  <2>1. dropped \subseteq 0 .. seq - 1
    BY <1>1 DEF Placed
  <2>2. seq \notin 0 .. seq - 1
    BY <1>1
  <2>3. QED
    BY <2>1, <2>2
<1>3. Cardinality(dropped \union {seq}) = Cardinality(dropped) + 1
      /\ Cardinality(dropped) \in Nat
  <2>1. IsFiniteSet(dropped) /\ Cardinality(dropped) \in Nat
    BY <1>1, FramesFinite DEF Typed, FramesAreFinite
  <2>2. QED
    BY <1>2, <2>1, FS_AddElement
<1>4. Count(batch) \in Nat /\ sentOk \in Nat
  BY <1>1, BatchFacts DEF Sound, OkInv
<1>5. /\ UNCHANGED <<transport, batch, drained, forwarded, lost, sentOk>>
      /\ dropped' = dropped \union {seq} /\ seq' = seq + 1
  BY DEF Drop
<1>6. transport = "tcp" => sentOk + Count(batch) + Cardinality(dropped) = seq
  BY <1>1 DEF OkInv
<1>7. transport = "tcp" => sentOk + Count(batch) + Cardinality(dropped') = seq + 1
  BY <1>1, <1>3, <1>4, <1>5, <1>6
<1>8. QED
  BY <1>1, <1>5, <1>7 DEF OkInv

LEMMA OkStep == UplinkInv /\ OkInv /\ [Next]_vars => OkInv'
<1> SUFFICES ASSUME UplinkInv, OkInv, [Next]_vars PROVE OkInv'
  OBVIOUS
<1>1. CASE Loop
  BY <1>1, OkDrain, OkDrop, OkSample, OkStop DEF Loop
<1>2. CASE Tick \/ Network \/ UNCHANGED vars
  <2>1. UNCHANGED <<transport, pc, batch, seq, dropped, drained, forwarded,
                    lost, sentOk>>
    BY <1>2 DEF Tick, Network, PeerCloses, PeerResets, ResetArrives,
                PeerReturns, Fault, vars
  <2>2. QED
    BY <2>1 DEF OkInv, Running
<1>3. QED
  BY <1>1, <1>2 DEF Next

(* sent_ok never claims a frame that did not leave (main.cpp:396, :479),    *)
(* whatever TCP, failover and the batch do; under tcp it is exact but for   *)
(* the frames of a batch still being sent.                                  *)
THEOREM OkIsHonest == Spec => []OkCountsSent
<1>1. UplinkInv /\ OkInv => OkCountsSent
  <2> SUFFICES ASSUME UplinkInv, OkInv PROVE OkCountsSent
    OBVIOUS
  <2>1. /\ Typed /\ Sound(batch) /\ Placed(batch, drained, forwarded, lost, seq)
        /\ seq \in Nat
    BY UplinkAssumption DEF UplinkInv, Ready
  <2>2. ASSUME transport = "tcp", Running
        PROVE  sentOk = Cardinality(drained) - UnsentIndex(batch)
    <3> DEFINE u == UnsentOf(batch)
    <3>1. /\ u \union drained \union dropped = 0 .. seq - 1
          /\ u \intersect (drained \union dropped) = {}
          /\ drained \intersect dropped = {}
      BY <2>1, <2>2 DEF OkInv, Placed
    <3>2. /\ u \in SUBSET Frames /\ drained \in SUBSET Frames
          /\ dropped \in SUBSET Frames
      BY <2>1, UnsentAreFrames DEF Typed, Sound
    <3>3. Cardinality(u) = Count(batch) - UnsentIndex(batch)
      BY <2>1, UnsentCardinality
    <3>4. Count(batch) \in Nat /\ UnsentIndex(batch) \in Nat
      BY <2>1, BatchFacts DEF Sound
    <3> HIDE DEF u
    <3>5. Cardinality(drained \union dropped)
            = Cardinality(drained) + Cardinality(dropped)
      BY <3>1, <3>2, DisjointUnion
    <3>6. Cardinality(u \union (drained \union dropped))
            = Cardinality(u) + Cardinality(drained \union dropped)
      BY <3>1, <3>2, DisjointUnion
    <3>7. Cardinality(0 .. seq - 1) = seq
      <4>1. 0 \in Int /\ seq - 1 \in Int
        BY <2>1
      <4>2. Cardinality(0 .. seq - 1) = IF 0 > seq - 1 THEN 0 ELSE seq - 1 - 0 + 1
        BY <4>1, FS_Interval
      <4>3. QED
        BY <2>1, <4>2
    <3>8. u \union (drained \union dropped) = 0 .. seq - 1
      BY <3>1
    <3>9. Cardinality(u \union (drained \union dropped)) = seq
      BY <3>7, <3>8, Zenon
    <3>10. sentOk + Count(batch) + Cardinality(dropped) = seq /\ sentOk \in Nat
      BY <2>2 DEF OkInv
    <3>11. /\ Cardinality(drained) \in Nat /\ Cardinality(dropped) \in Nat
           /\ Cardinality(u) \in Nat
      BY <3>2, FramesFinite DEF FramesAreFinite
    <3>12. QED
      BY <3>3, <3>4, <3>5, <3>6, <3>9, <3>10, <3>11
  <2>3. QED
    BY <2>2 DEF OkInv, OkCountsSent
<1>2. QED
  BY <1>1, Invariance, OkStart, OkStep, PTL DEF Spec

(***************************************************************************)
(* Types                                                                    *)
(***************************************************************************)
(* The gate's clock and back-off, and the faults spent.                     *)
Paced(t) == t.wait \in 0 .. BackoffCap /\ t.backoff \in 1 .. BackoffCap

Limited(o) == o.faults \in 0 .. MaxFaults /\ Paced(o.tcp)

RangeInv ==
  /\ platform \in Platforms
  /\ pc \in {"top", "sample", "done", "killed"}
  /\ peerUp \in BOOLEAN
  /\ faults \in 0 .. MaxFaults
  /\ Paced(tcp)

LEMMA LeastOfTwo ==
  ASSUME NEW x \in Nat, NEW y \in Nat
  PROVE  Min({x, y}) = IF x <= y THEN x ELSE y
<1>1. CASE x <= y
  <2>1. x \in {x, y} /\ \A z \in {x, y} : x <= z
    BY <1>1
  <2>2. QED
    BY <1>1, <2>1 DEF Min
<1>2. CASE ~(x <= y)
  <2>1. y \in {x, y} /\ \A z \in {x, y} : y <= z
    BY <1>2
  <2>2. QED
    BY <1>2, <2>1 DEF Min
<1>3. QED
  BY <1>1, <1>2

LEMMA TriedIsPaced ==
  ASSUME NEW t \in Tcps, Paced(t)
  PROVE  Paced(TriedConnect(t))
<1> DEFINE later == Min({BackoffCap, 2 * t.backoff})
           fresh == [link |-> "live", wait |-> 0, backoff |-> 1, stream |-> <<>>]
           put == [t EXCEPT !.wait = t.backoff, !.backoff = later]
<1>1. BackoffCap \in Nat \ {0} /\ t.backoff \in 1 .. BackoffCap
  BY UplinkAssumption DEF Paced
<1>2. later \in 1 .. BackoffCap
  <2>1. 2 * t.backoff \in Nat /\ 2 * t.backoff >= 1
    BY <1>1
  <2>2. later = IF BackoffCap <= 2 * t.backoff THEN BackoffCap ELSE 2 * t.backoff
    BY <1>1, <2>1, LeastOfTwo
  <2>3. QED
    BY <1>1, <2>1, <2>2
<1>3. TriedConnect(t) \in {t, fresh, put}
  BY DEF TriedConnect
<1> HIDE DEF later
<1>4. Paced(fresh)
  BY <1>1 DEF Paced
<1>5. Paced(put)
  BY <1>1, <1>2 DEF Paced, Tcps
<1> HIDE DEF fresh, put
<1>6. QED
  BY <1>3, <1>4, <1>5

LEMMA SentIsLimited ==
  ASSUME NEW b, NEW t \in Tcps, Paced(t), faults \in 0 .. MaxFaults,
         NEW k, NEW end, NEW left, SendMayEnd(t, left, k, end)
  PROVE  Limited(Sent(b, t, k, end))
<1> DEFINE o == Sent(b, t, k, end)
           wrote == Wrote(t, b, k)
<1>1. /\ o.tcp = IF end = "failed" THEN Disconnected(t) ELSE wrote
      /\ o.faults = IF end = "failed" /\ t.link = "live"
                      THEN faults + 1 ELSE faults
  BY DEF Sent, Untried
<1>2. end = "failed" /\ t.link = "live" => faults < MaxFaults
  <2>1. ASSUME end = "failed", t.link = "live"
        PROVE  faults < MaxFaults
    BY <2>1 DEF SendMayEnd
  <2>2. QED
    BY <2>1
<1>3. o.faults \in 0 .. MaxFaults
  <2> HIDE DEF o
  <2>1. QED
    BY <1>1, <1>2, UplinkAssumption
<1>4. Paced(Disconnected(t)) /\ Paced(wrote)
  BY DEF Paced, Disconnected, Wrote, Tcps
<1> HIDE DEF o, wrote
<1>5. Limited(o)
  BY <1>1, <1>3, <1>4 DEF Limited
<1>6. QED
  BY <1>5 DEF o

LEMMA TcpTriedIsLimited ==
  ASSUME NEW b, NEW n, Ready(b, tcp, n), Paced(tcp), faults \in 0 .. MaxFaults,
         NEW o \in TcpTried(b)
  PROVE  Good(o, n) /\ Limited(o)
<1> DEFINE t == TriedConnect(tcp)
<1>1. Ready(b, t, n) /\ Paced(t) /\ t \in Tcps
  BY TriedIs, TriedIsPaced DEF Ready
<1> HIDE DEF t
<1>2. PICK y \in TcpFlushes(b, t), time \in FlushTimes :
        o = AdaptedAfter(y, time)
  BY DEF TcpTried, t
<1>3. Good(y, n)
  BY <1>1, <1>2, TcpIsGood
<1>4. Limited(y)
  <2>1. CASE ~Connected(t)
    <3>1. y = Untried(b, t)
      BY <1>2, <2>1 DEF TcpFlushes
    <3>2. QED
      BY <1>1, <3>1 DEF Untried, Limited
  <2>2. CASE Connected(t)
    <3>1. PICK p \in (0 .. Units(b) - b.offset) \X SendEnds :
            /\ SendMayEnd(t, Units(b) - b.offset, p[1], p[2])
            /\ y = Sent(b, t, p[1], p[2])
      BY <1>2, <2>2 DEF TcpFlushes
    <3>2. QED
      BY <1>1, <3>1, SentIsLimited
  <2>3. QED
    BY <2>1, <2>2
<1>5. o.tcp = y.tcp /\ o.faults = y.faults
  BY <1>2, <1>3 DEF AdaptedAfter, Good, Outcomes
<1>6. Limited(o)
  BY <1>4, <1>5 DEF Limited
<1>7. QED
  BY <1>2, <1>3, <1>6, AdaptedIsGood

LEMMA FlushIsLimited ==
  ASSUME NEW b, NEW n, Ready(b, tcp, n), Paced(tcp), faults \in 0 .. MaxFaults,
         NEW o \in FlushOutcomes(b)
  PROVE  Limited(o)
<1>1. ASSUME NEW x, Good(x, n), Limited(x), NEW u \in UdpFlushes(x)
      PROVE  Limited(u) /\ Good(u, n)
  <2> DEFINE d == DiscardedFullySent(x.batch)
             r == Range(UnsentFrames(d))
  <2>1. PICK sent \in SUBSET r :
          u = [x EXCEPT !.ok = (sent = r), !.batch = Cleared(d),
                        !.forwarded = @ \union sent,
                        !.lost = @ \union (r \ sent)]
    BY <1>1 DEF UdpFlushes
  <2>2. x \in Outcomes
    BY <1>1 DEF Good
  <2> HIDE DEF d, r
  <2>3. u.tcp = x.tcp /\ u.faults = x.faults
    BY <2>1, <2>2 DEF Outcomes
  <2>4. QED
    BY <1>1, <2>3, UdpIsGood DEF Limited
<1>2. transport \in {"auto", "tcp", "udp", "mesh"}
  BY UplinkAssumption DEF Ready, Typed
<1>3. CASE transport \in {"udp", "mesh"}
  <2>1. o \in UdpFlushes(Untried(b, tcp))
    BY <1>3 DEF FlushOutcomes
  <2>2. Limited(Untried(b, tcp))
    BY DEF Untried, Limited
  <2>3. QED
    BY <1>1, <2>1, <2>2, UntriedIsGood
<1>4. CASE transport \in {"tcp", "auto"}
  <2>1. \/ o \in TcpTried(b)
        \/ \E x \in TcpTried(b) : o \in FailedOver(x)
    BY <1>4 DEF FlushOutcomes
  <2>2. ASSUME NEW x \in TcpTried(b), o \in FailedOver(x)
        PROVE  Limited(o)
    <3>1. PICK u \in UdpFlushes(x) :
            o = ClosedAfterPartial(HasPartialSend(x.batch), u)
      BY <2>2 DEF FailedOver
    <3>2. Limited(u) /\ Good(u, n)
      BY <1>1, <3>1, TcpTriedIsLimited
    <3>3. /\ u \in Outcomes /\ u.tcp \in Tcps
      BY <3>2 DEF Good, Outcomes
    <3>4. Paced(Disconnected(u.tcp))
      BY <3>2, <3>3 DEF Limited, Paced, Disconnected, Tcps
    <3>5. o.faults = u.faults /\ o.tcp \in {u.tcp, Disconnected(u.tcp)}
      BY <3>1, <3>3 DEF ClosedAfterPartial, Outcomes
    <3>6. QED
      BY <3>2, <3>4, <3>5 DEF Limited
  <2>3. QED
    BY <2>1, <2>2, TcpTriedIsLimited
<1>5. QED
  BY <1>2, <1>3, <1>4

LEMMA RangeStart == Init => RangeInv
<1> SUFFICES ASSUME Init PROVE RangeInv
  OBVIOUS
<1>1. Unconnected \in Tcps /\ Paced(Unconnected)
  BY UplinkAssumption DEF Unconnected, Tcps, Links, Paced
<1>2. Paced(tcp)
  BY <1>1, TriedIsPaced DEF Init
<1>3. QED
  BY <1>2, UplinkAssumption DEF Init, RangeInv

LEMMA RangeStep == UplinkInv /\ RangeInv /\ [Next]_vars => RangeInv'
<1> SUFFICES ASSUME UplinkInv, RangeInv, [Next]_vars PROVE RangeInv'
  OBVIOUS
<1>1. Ready(batch, tcp, seq) /\ Paced(tcp) /\ faults \in 0 .. MaxFaults
      /\ tcp \in Tcps /\ seq \in 0 .. MaxFrames
  BY DEF UplinkInv, RangeInv, Ready
<1>2. ASSUME NEW b, NEW n, Ready(b, tcp, n), NEW o \in FlushOutcomes(b), Took(o)
      PROVE  faults' \in 0 .. MaxFaults /\ Paced(tcp')
  BY <1>1, <1>2, FlushIsLimited DEF Took, Limited
<1>3. CASE Drain
  BY <1>1, <1>2, <1>3 DEF Drain, After, RangeInv, Paced
<1>4. CASE Drop
  BY <1>4 DEF Drop, RangeInv, Paced
<1>5. CASE Sample
  <2> DEFINE b == Pushed(batch, seq)
  <2>1. Ready(b, tcp, seq + 1)
    BY <1>1, <1>5, PushIsReady DEF Sample
  <2>2. \/ \E o \in FlushOutcomes(b) : Took(o) /\ pc' = After(o, "top")
        \/ pc' = "top" /\ UNCHANGED <<tcp, faults>>
    BY <1>5 DEF Sample
  <2>3. UNCHANGED <<platform, peerUp>>
    BY <1>5 DEF Sample
  <2> HIDE DEF b
  <2>4. QED
    BY <1>2, <2>1, <2>2, <2>3 DEF After, RangeInv, Paced
<1>6. CASE Stop
  BY <1>1, <1>2, <1>6 DEF Stop, After, RangeInv, Paced
<1>7. CASE Tick
  BY <1>1, <1>7, UplinkAssumption DEF Tick, RangeInv, Paced, Tcps
<1>8. CASE Network
  <2>1. Paced(tcp')
    BY <1>1, <1>8 DEF Network, PeerCloses, PeerResets, ResetArrives,
                      PeerReturns, Paced, Tcps
  <2>2. /\ faults' \in 0 .. MaxFaults /\ peerUp' \in BOOLEAN
        /\ UNCHANGED <<platform, pc>>
    <3>1. faults' = faults \/ (faults < MaxFaults /\ faults' = faults + 1)
      BY <1>8 DEF Network, PeerCloses, PeerResets, ResetArrives, PeerReturns,
                  Fault
    <3>2. peerUp' \in BOOLEAN
      BY <1>8 DEF Network, PeerCloses, PeerResets, ResetArrives, PeerReturns,
                  RangeInv
    <3>3. UNCHANGED <<platform, pc>>
      BY <1>8 DEF Network, PeerCloses, PeerResets, ResetArrives, PeerReturns,
                  Fault
    <3>4. faults' \in 0 .. MaxFaults
      BY <1>1, <3>1, UplinkAssumption
    <3>5. QED
      BY <3>2, <3>3, <3>4
  <2>3. QED
    BY <2>1, <2>2 DEF RangeInv, Paced
<1>9. CASE UNCHANGED vars
  BY <1>9 DEF vars, RangeInv, Paced
<1>10. QED
  BY <1>3, <1>4, <1>5, <1>6, <1>7, <1>8, <1>9 DEF Next, Loop

(* Every variable keeps to its range: the back-off to its cap, sent_ok to   *)
(* the frames there are.                                                    *)
THEOREM Typing == Spec => []TypeOK
<1>1. UplinkInv /\ OkInv /\ RangeInv => TypeOK
  <2> SUFFICES ASSUME UplinkInv, OkInv, RangeInv PROVE TypeOK
    OBVIOUS
  <2>1. Typed /\ tcp \in Tcps /\ batch \in Batches(Frames)
    BY DEF UplinkInv, Ready, Sound
  <2>2. sentOk \in 0 .. MaxFrames
    <3>1. /\ IsFiniteSet(Frames) /\ Cardinality(Frames) = MaxFrames
          /\ MaxFrames \in Nat
      <4>1. 0 \in Int /\ MaxFrames - 1 \in Int /\ MaxFrames \in Nat
        BY UplinkAssumption
      <4>2. /\ IsFiniteSet(0 .. MaxFrames - 1)
            /\ Cardinality(0 .. MaxFrames - 1) =
                 IF 0 > MaxFrames - 1 THEN 0 ELSE MaxFrames - 1 - 0 + 1
        BY <4>1, FS_Interval
      <4>3. (IF 0 > MaxFrames - 1 THEN 0 ELSE MaxFrames - 1 - 0 + 1) = MaxFrames
        BY <4>1
      <4>4. QED
        BY <4>1, <4>2, <4>3 DEF Frames
    <3>2. drained \union forwarded \in SUBSET Frames
      BY <2>1 DEF Typed
    <3>3. /\ Cardinality(drained \union forwarded) <= Cardinality(Frames)
          /\ Cardinality(drained \union forwarded) \in Nat
      BY <3>1, <3>2, FS_Subset, FramesFinite DEF FramesAreFinite
    <3>4. QED
      BY <3>1, <3>3 DEF OkInv
  <2>3. /\ tcp.link \in Links
        /\ tcp.stream \in Seq(Frames \X (0 .. FrameUnits - 1))
    BY <2>1 DEF Tcps, WireUnits
  <2>4. {dropped, drained, whole, forwarded, lost} \subseteq SUBSET Frames
    BY <2>1 DEF Typed
  <2>5. QED
    BY <2>1, <2>2, <2>3, <2>4 DEF RangeInv, Paced, Typed, TypeOK
<1>2. QED
  BY <1>1, Invariance, OkStart, OkStep, RangeStart, RangeStep, PTL DEF Spec

(***************************************************************************)
(* Under tcp, a fault for each torn frame                                   *)
(***************************************************************************)
One(condition) == IF condition THEN 1 ELSE 0

(* The first unit of the frame the offset is in, as a place in the slab.    *)
Begin(b) == FrameUnits * UnsentIndex(b)

(* The frame under way began on an earlier connection.                      *)
Cut(b, s) == Len(s) < b.offset - Begin(b)

(* If not, the connection ends with what is out of it.                      *)
Traced(b, s) ==
  ~Cut(b, s) => \A j \in Begin(b) .. b.offset - 1 :
                  s[Len(s) + (j - b.offset) + 1] = UnitAt(b, j)

(* The connection is lost, but the edge has yet to find out.                *)
Dying(t) == t.link \in {"closing", "doomed", "pipe", "reset"}

(* n faults pay for the frames torn, the one being torn and the connection  *)
(* that will tear one.                                                      *)
Paid(b, t, taken, full, n) ==
  Cardinality(taken \ full) + One(Cut(b, t.stream)) + One(Dying(t)) <= n

Accounted(b, t, taken, full, n) ==
  /\ Traced(b, t.stream)
  /\ t.link = "none" => t.stream = <<>>
  /\ Paid(b, t, taken, full, n)

TornInv == transport = "tcp" => Accounted(batch, tcp, drained, whole, faults)

LEMMA QuotientIs ==
  ASSUME NEW x \in Nat, NEW y \in Nat, NEW f \in Nat \ {0}
  PROVE  LET n == (x + y) \div f IN
         n \in Nat /\ f * n <= x + y /\ x + y < f * n + f
<1> DEFINE w == x + y
           r == w % f
           n == w \div f
<1>1. w \in Nat
  OBVIOUS
<1> HIDE DEF w
<1>2. n \in Nat /\ r \in 0 .. f - 1 /\ w = f * n + r
  BY <1>1, Division
<1> HIDE DEF n, r
<1>3. f * n \in Nat
  BY <1>2
<1>4. n \in Nat /\ f * n <= w /\ w < f * n + f
  BY <1>1, <1>2, <1>3
<1>5. QED
  BY <1>4 DEF w, n

LEMMA BeginIs ==
  ASSUME NEW b \in Batches(Frames)
  PROVE  /\ Begin(b) \in Nat /\ Begin(b) <= b.offset
         /\ b.offset < Begin(b) + FrameUnits
<1>1. b.offset \in Nat /\ FrameUnits \in Nat \ {0} /\ UnsentIndex(b) \in Nat
  BY BatchFacts
<1>2. /\ b.offset % FrameUnits \in 0 .. FrameUnits - 1
      /\ b.offset = FrameUnits * (b.offset \div FrameUnits) + (b.offset % FrameUnits)
  BY <1>1, Division
<1>3. Begin(b) \in Nat
  BY <1>1 DEF Begin
<1> DEFINE r == b.offset % FrameUnits
<1>4. b.offset = Begin(b) + r /\ r \in 0 .. FrameUnits - 1
  BY <1>2 DEF Begin, UnsentIndex
<1> HIDE DEF r
<1>5. QED
  BY <1>1, <1>3, <1>4

(* The stream after a write, unit by unit, from where it reaches back to.   *)
LEMMA StreamAfter ==
  ASSUME NEW b, NEW t \in Tcps, Sound(b), NEW k \in 0 .. Units(b) - b.offset
  PROVE  LET s == Wrote(t, b, k).stream IN
         /\ Len(t.stream) \in Nat
         /\ Len(s) = Len(t.stream) + k
         /\ \A p \in 1 .. Len(t.stream) : s[p] = t.stream[p]
         /\ \A j \in 1 .. k : s[Len(t.stream) + j] = UnitAt(b, b.offset + j - 1)
<1> DEFINE more == [j \in 1 .. k |-> UnitAt(b, b.offset + j - 1)]
           old == t.stream
           s == Wrote(t, b, k).stream
<1>1. Units(b) \in Nat /\ b.offset \in Nat /\ k \in Nat
  BY BatchFacts DEF Sound
<1>2. old \in Seq(WireUnits) /\ Len(old) \in Nat
  BY DEF Tcps
<1>3. /\ more \in Seq(WireUnits) /\ Len(more) = k
      /\ \A j \in 1 .. k : more[j] = UnitAt(b, b.offset + j - 1)
  <2>1. \A j \in 1 .. k : more[j] \in WireUnits
    BY UnitIs DEF WireUnits
  <2>2. \A j \in 1 .. k : more[j] = UnitAt(b, b.offset + j - 1)
    OBVIOUS
  <2>3. QED
    BY <1>1, <2>1, <2>2
<1>4. s = old \o more
  BY DEF Wrote, Tcps
<1> HIDE DEF more, old, s
<1>5. /\ Len(s) = Len(old) + k
      /\ \A p \in 1 .. Len(old) + k :
           s[p] = IF p <= Len(old) THEN old[p] ELSE more[p - Len(old)]
  BY <1>2, <1>3, <1>4, ConcatProperties
<1>6. \A p \in 1 .. Len(old) : s[p] = old[p]
  BY <1>1, <1>2, <1>5
<1>7. ASSUME NEW j \in 1 .. k
      PROVE  s[Len(old) + j] = UnitAt(b, b.offset + j - 1)
  <2>1. /\ Len(old) + j \in 1 .. Len(old) + k
        /\ ~(Len(old) + j <= Len(old)) /\ (Len(old) + j) - Len(old) = j
    BY <1>1, <1>2
  <2>2. QED
    BY <1>3, <1>5, <2>1
<1>8. QED
  BY <1>2, <1>5, <1>6, <1>7 DEF old, s

From(b, s) == IF Cut(b, s) THEN b.offset ELSE Begin(b)

LEMMA ReachesBack ==
  ASSUME NEW b, NEW t \in Tcps, Sound(b), NEW k \in 0 .. Units(b) - b.offset,
         Traced(b, t.stream)
  PROVE  LET s == Wrote(t, b, k).stream
             from == From(b, t.stream)
         IN /\ from \in Nat /\ Begin(b) <= from /\ from <= b.offset
            /\ b.offset - from <= Len(t.stream)
            /\ \A j \in from .. b.offset + k - 1 :
                 s[Len(t.stream) + (j - b.offset) + 1] = UnitAt(b, j)
<1> DEFINE s == Wrote(t, b, k).stream
           n == Len(t.stream)
           o == b.offset
           from == From(b, t.stream)
           begin == Begin(b)
<1>1. b \in Batches(Frames)
  BY DEF Sound
<1>2. /\ o \in Nat /\ Units(b) \in Nat
      /\ begin \in Nat /\ begin <= o
  BY <1>1, BatchFacts, BeginIs
<1>3. /\ n \in Nat
      /\ \A p \in 1 .. n : s[p] = t.stream[p]
      /\ \A j \in 1 .. k : s[n + j] = UnitAt(b, o + j - 1)
  BY StreamAfter
<1>4. /\ from = IF n < o - begin THEN o ELSE begin
      /\ ~(n < o - begin) => \A j \in begin .. o - 1 :
                              t.stream[n + (j - o) + 1] = UnitAt(b, j)
  BY DEF From, Cut, Traced
<1> HIDE DEF s, n, o, from, begin
<1>5. from \in Nat /\ begin <= from /\ from <= o /\ o - from <= n
  BY <1>2, <1>3, <1>4
<1>a. k \in Nat
  BY <1>2 DEF o
<1>6. ASSUME NEW j \in from .. o + k - 1
      PROVE  s[n + (j - o) + 1] = UnitAt(b, j)
  <2>1. CASE j < o
    <3>1. ~(n < o - begin) /\ from = begin
      BY <1>2, <1>3, <1>4, <1>6, <2>1
    <3>2. j \in begin .. o - 1
      BY <1>2, <1>5, <1>6, <2>1, <3>1
    <3> DEFINE p == n + (j - o) + 1
    <3>3. p \in 1 .. n
      BY <1>2, <1>3, <1>5, <1>6, <2>1
    <3>4. t.stream[p] = UnitAt(b, j)
      BY <1>4, <3>1, <3>2
    <3> HIDE DEF p
    <3>5. s[p] = UnitAt(b, j)
      BY <1>3, <3>3, <3>4
    <3>6. QED
      BY <3>5 DEF p
  <2>2. CASE ~(j < o)
    <3> DEFINE i == j - o + 1
    <3>1. i \in 1 .. k /\ n + (j - o) + 1 = n + i /\ o + i - 1 = j
      BY <1>2, <1>3, <1>5, <1>6, <1>a, <2>2
    <3> HIDE DEF i
    <3>2. s[n + i] = UnitAt(b, o + i - 1)
      BY <1>3, <3>1
    <3>3. QED
      BY <3>1, <3>2
  <2>3. QED
    BY <2>1, <2>2
<1>7. QED
  BY <1>5, <1>6 DEF s, n, o, from, begin

(* A frame that lies between there and the new offset is whole.             *)
LEMMA FrameFits ==
  ASSUME NEW b, NEW t \in Tcps, Sound(b), NEW k \in 0 .. Units(b) - b.offset,
         Traced(b, t.stream), NEW i \in 1 .. Count(b),
         From(b, t.stream) <= FrameUnits * (i - 1),
         FrameUnits * (i - 1) + FrameUnits <= b.offset + k
  PROVE  b.frames[i] \in WholeIn(Wrote(t, b, k).stream)
<1> DEFINE s == Wrote(t, b, k).stream
           n == Len(t.stream)
           o == b.offset
           from == From(b, t.stream)
           f == FrameUnits
           m == f * (i - 1)
           p == n + (m - o) + 1
<1>1. b \in Batches(Frames)
  BY DEF Sound
<1>2. /\ o \in Nat /\ Units(b) \in Nat /\ f \in Nat \ {0}
      /\ Count(b) \in Nat /\ Count(b) = Len(b.frames) /\ b.frames \in Seq(Frames)
  BY <1>1, BatchFacts
<1>3. /\ n \in Nat /\ Len(s) = n + k
  BY StreamAfter
<1>4. /\ from \in Nat /\ from <= o /\ o - from <= n
      /\ \A j \in from .. o + k - 1 : s[n + (j - o) + 1] = UnitAt(b, j)
  BY ReachesBack
<1>5. b.frames[i] \in Frames /\ i - 1 \in Nat
  BY <1>2, ElementOfSeq
<1>6. m \in Nat /\ from <= m /\ m + f <= o + k
  BY <1>2, <1>5
<1>7. k \in Nat
  BY <1>2
<1>8. \A u \in 0 .. f - 1 : (m + u) \div f = i - 1 /\ (m + u) % f = u
  BY <1>2, <1>5, DivisionIs
<1> HIDE DEF s, n, o, from, m, f
<1>9. p \in 1 .. Len(s) - f + 1
  BY <1>2, <1>3, <1>4, <1>6, <1>7
<1>10. ASSUME NEW u \in 0 .. f - 1
       PROVE  s[p + u] = <<b.frames[i], u>>
  <2> DEFINE j == m + u
  <2>1. j \in from .. o + k - 1 /\ n + (j - o) + 1 = p + u
    BY <1>2, <1>3, <1>4, <1>6, <1>7
  <2>2. UnitAt(b, j) = <<b.frames[j \div f + 1], j % f>>
    BY DEF UnitAt, f
  <2>3. j \div f + 1 = i /\ j % f = u
    BY <1>8, <1>5
  <2> HIDE DEF j, p
  <2>4. s[n + (j - o) + 1] = UnitAt(b, j)
    BY <1>4, <2>1
  <2>5. QED
    BY <2>1, <2>2, <2>3, <2>4
<1> HIDE DEF p
<1>11. QED
  BY <1>5, <1>9, <1>10 DEF WholeIn, s, f

(* So a write tears at most the frame that was cut, and only once that is   *)
(* out to its last unit.                                                    *)
LEMMA TornByWrite ==
  ASSUME NEW b, NEW t \in Tcps, Sound(b), NEW k \in 0 .. Units(b) - b.offset,
         Traced(b, t.stream), NEW taken, NEW full,
         Below(b, b.offset) \subseteq taken
  PROVE  LET next == (b.offset + k) \div FrameUnits
             left == (taken \union Below(b, b.offset + k))
                       \ (full \union WholeIn(Wrote(t, b, k).stream))
         IN \/ left \subseteq taken \ full
            \/ /\ Cut(b, t.stream) /\ UnsentIndex(b) < next
               /\ left \subseteq (taken \ full) \union {b.frames[UnsentIndex(b) + 1]}
<1> DEFINE next == (b.offset + k) \div FrameUnits
           q == UnsentIndex(b)
           ws == WholeIn(Wrote(t, b, k).stream)
           o == b.offset
           f == FrameUnits
           from == From(b, t.stream)
<1>1. b \in Batches(Frames) /\ Below(b, o + k) = Below(b, o) \union TakenBy(b, k)
  BY AdvancedIs DEF Sound
<1>2. /\ o \in Nat /\ Units(b) \in Nat /\ f \in Nat \ {0} /\ q \in Nat
      /\ Count(b) \in Nat /\ k \in Nat /\ Units(b) = Count(b) * f
  BY <1>1, BatchFacts DEF Units
<1>3. next \in Nat /\ f * next <= o + k /\ next <= Count(b)
  <2>1. next \in Nat /\ f * next <= o + k /\ o + k < f * next + f
    BY <1>2, QuotientIs
  <2>2. f * next \in Nat
    BY <1>2, <2>1
  <2>3. next <= (Count(b) * f) \div f
    BY <1>2, QuotientGrows
  <2>4. QED
    BY <1>2, <2>1, <2>2, <2>3, QuotientOfMultiple
<1>4. /\ Begin(b) = f * q /\ Begin(b) <= o /\ o < Begin(b) + f
      /\ from = IF Cut(b, t.stream) THEN o ELSE Begin(b)
  BY <1>1, BeginIs DEF Begin, From
<1> HIDE DEF next, q, ws, o, f, from
<1>5. ASSUME NEW i \in q + 1 .. next, i # q + 1 \/ ~Cut(b, t.stream)
      PROVE  b.frames[i] \in ws
  <2>1. i \in 1 .. Count(b) /\ i - 1 \in Nat
    BY <1>2, <1>3
  <2>2. f * (i - 1) + f <= o + k
    <3>1. f * (i - 1) + f <= f * next
      BY <1>2, <1>3, <2>1, Product
    <3>2. f * (i - 1) \in Nat /\ f * next \in Nat
      BY <1>2, <1>3, <2>1
    <3>3. QED
      BY <1>2, <1>3, <3>1, <3>2
  <2>3. from <= f * (i - 1)
    <3>1. CASE i = q + 1
      <4>1. i - 1 = q /\ from = Begin(b)
        BY <1>2, <1>4, <1>5, <3>1
      <4>2. f * q \in Nat
        BY <1>2
      <4>3. QED
        BY <1>4, <4>1, <4>2
    <3>2. CASE i # q + 1
      <4>1. q < i - 1
        BY <1>2, <1>3, <3>2
      <4>2. f * q + f <= f * (i - 1)
        BY <1>2, <2>1, <4>1, Product
      <4>3. f * q \in Nat /\ f * (i - 1) \in Nat
        BY <1>2, <2>1
      <4>4. QED
        BY <1>2, <1>4, <4>2, <4>3
    <3>3. QED
      BY <3>1, <3>2
  <2>4. QED
    BY <2>1, <2>2, <2>3, FrameFits DEF ws, o, f, from
<1>6. TakenBy(b, k) = {b.frames[i] : i \in q + 1 .. next}
  BY DEF TakenBy, q, next, o
<1>7. CASE ~Cut(b, t.stream) \/ ~(q < next)
  <2>1. TakenBy(b, k) \subseteq ws
    BY <1>2, <1>3, <1>5, <1>6, <1>7
  <2>2. (taken \union Below(b, o + k)) \ (full \union ws) \subseteq taken \ full
    BY <1>1, <2>1 DEF o
  <2>3. QED
    BY <2>2 DEF o, ws
<1>8. CASE Cut(b, t.stream) /\ q < next
  <2>1. TakenBy(b, k) \subseteq ws \union {b.frames[q + 1]}
    BY <1>5, <1>6
  <2>2. (taken \union Below(b, o + k)) \ (full \union ws)
          \subseteq (taken \ full) \union {b.frames[q + 1]}
    BY <1>1, <2>1 DEF o
  <2>3. QED
    BY <1>8, <2>2 DEF o, ws, q, next
<1>9. QED
  BY <1>7, <1>8

(* A batch that is empty is cut nowhere.                                    *)
LEMMA NothingCut ==
  ASSUME NEW b, b.offset = 0, NEW s, Len(s) \in Nat
  PROVE  Traced(b, s) /\ ~Cut(b, s)
<1>1. UnsentIndex(b) = 0
  <2>1. 0 \div FrameUnits = 0
    BY BatchAssumption
  <2>2. QED
    BY <2>1 DEF UnsentIndex
<1>2. Begin(b) = 0
  BY <1>1, BatchAssumption DEF Begin
<1>3. QED
  BY <1>2 DEF Traced, Cut

(* The stream still ends with the frame under way, and a frame is cut after *)
(* the write only if it was before.                                         *)
LEMMA TracedAfter ==
  ASSUME NEW b, NEW t \in Tcps, Sound(b), NEW k \in 0 .. Units(b) - b.offset,
         Traced(b, t.stream)
  PROVE  LET a == Advanced(b, k)
             s == Wrote(t, b, k).stream
         IN /\ Traced(a, s)
            /\ Cut(a, s) => /\ Cut(b, t.stream)
                            /\ UnsentIndex(b) = (b.offset + k) \div FrameUnits
<1> DEFINE a == Advanced(b, k)
           s == Wrote(t, b, k).stream
           n == Len(t.stream)
           o == b.offset
           f == FrameUnits
           from == From(b, t.stream)
           q == UnsentIndex(b)
           next == (o + k) \div f
<1>1. b \in Batches(Frames)
  BY DEF Sound
<1>2. /\ o \in Nat /\ Units(b) \in Nat /\ f \in Nat \ {0} /\ q \in Nat
      /\ k \in Nat /\ Begin(b) \in Nat /\ Begin(b) <= o /\ o < Begin(b) + f
      /\ Begin(b) = f * q
  BY <1>1, BatchFacts, BeginIs DEF Begin
<1>3. /\ n \in Nat /\ Len(s) = n + k
  BY StreamAfter
<1>4. /\ from \in Nat /\ from <= o /\ o - from <= n
      /\ \A j \in from .. o + k - 1 : s[n + (j - o) + 1] = UnitAt(b, j)
      /\ from = IF Cut(b, t.stream) THEN o ELSE Begin(b)
      /\ Cut(b, t.stream) <=> n < o - Begin(b)
  BY ReachesBack DEF From, Cut
<1>5. CASE o + k = Units(b)
  <2>1. a.offset = 0
    BY <1>1, <1>5, ClearedIs DEF Advanced
  <2>2. Len(s) \in Nat
    BY <1>2, <1>3
  <2> HIDE DEF a, s
  <2>3. QED
    BY <2>1, <2>2, NothingCut DEF a, s
<1>6. CASE o + k # Units(b)
  <2>1. a.frames = b.frames /\ a.offset = o + k
    BY <1>1, <1>6 DEF Advanced, Batches
  <2>2. \A j : UnitAt(a, j) = UnitAt(b, j)
    BY <2>1 DEF UnitAt
  <2>3. UnsentIndex(a) = next /\ Begin(a) = f * next
    BY <2>1 DEF UnsentIndex, Begin
  <2>4. next \in Nat /\ f * next <= o + k /\ o + k < f * next + f
    BY <1>2, QuotientIs
  <2>5. q <= next
    <3> DEFINE w == o + k
    <3>1. w \in Nat /\ o <= w
      BY <1>2
    <3> HIDE DEF w
    <3>2. o \div f <= w \div f
      BY <1>2, <3>1, QuotientGrows
    <3>3. QED
      BY <3>2 DEF UnsentIndex, w
  <2> HIDE DEF a, s, n, o, f, from, q, next
  <2>6. f * next \in Nat /\ f * next <= o + k
    BY <1>2, <2>4
  <2>7. Cut(a, s) <=> n + k < (o + k) - f * next
    BY <1>3, <2>1, <2>3 DEF Cut
  <2>8. q < next => o < f * next
    <3>1. q < next => f * q + f <= f * next
      BY <1>2, <2>4, Product
    <3>2. QED
      BY <1>2, <2>6, <3>1
  <2>9. Cut(a, s) => Cut(b, t.stream) /\ q = next
    <3>1. SUFFICES ASSUME n + k < (o + k) - f * next
                   PROVE  n < o - Begin(b) /\ q = next
      BY <1>4, <2>7
    <3>2. ~(q < next)
      BY <1>2, <1>3, <2>6, <2>8, <3>1
    <3>3. q = next
      BY <1>2, <2>4, <2>5, <3>2
    <3>4. Begin(b) = f * next
      BY <1>2, <3>3
    <3>5. QED
      BY <1>2, <1>3, <2>6, <3>1, <3>3, <3>4
  <2>10. ASSUME ~Cut(a, s), NEW j \in f * next .. (o + k) - 1
         PROVE  s[(n + k) + (j - (o + k)) + 1] = UnitAt(b, j)
    <3>1. from <= f * next
      <4>1. CASE q < next
        BY <1>2, <1>4, <2>6, <2>8, <4>1
      <4>2. CASE q = next
        <5>1. Begin(b) = f * next
          BY <1>2, <4>2
        <5>2. ~Cut(b, t.stream)
          BY <1>2, <1>3, <1>4, <2>6, <2>7, <2>10, <5>1
        <5>3. QED
          BY <1>2, <1>4, <5>1, <5>2
      <4>3. QED
        BY <1>2, <2>4, <2>5, <4>1, <4>2
    <3>2. j \in from .. o + k - 1 /\ (n + k) + (j - (o + k)) + 1 = n + (j - o) + 1
      BY <1>2, <1>3, <1>4, <2>6, <3>1
    <3>3. s[n + (j - o) + 1] = UnitAt(b, j)
      BY <1>4, <3>2
    <3>4. QED
      BY <3>2, <3>3
  <2>11. Traced(a, s)
    BY <1>3, <2>1, <2>2, <2>3, <2>10 DEF Traced
  <2>12. QED
    BY <2>9, <2>11 DEF a, s, q, next, o, f
<1>7. QED
  BY <1>5, <1>6

(* A frame more at most is torn by a write, and it was cut before.          *)
LEMMA TornCount ==
  ASSUME NEW b, NEW t \in Tcps, Sound(b), NEW k \in 0 .. Units(b) - b.offset,
         Traced(b, t.stream), NEW taken \in SUBSET Frames, NEW full \in SUBSET Frames,
         Below(b, b.offset) \subseteq taken
  PROVE  LET a == Advanced(b, k)
             s == Wrote(t, b, k).stream
             left == (taken \union Below(b, b.offset + k)) \ (full \union WholeIn(s))
         IN /\ Cardinality(left) + One(Cut(a, s))
                 <= Cardinality(taken \ full) + One(Cut(b, t.stream))
            /\ Cardinality(left) \in Nat
<1> DEFINE a == Advanced(b, k)
           s == Wrote(t, b, k).stream
           left == (taken \union Below(b, b.offset + k)) \ (full \union WholeIn(s))
           old == taken \ full
           c == b.frames[UnsentIndex(b) + 1]
           before == Cut(b, t.stream)
           after == Cut(a, s)
           reached == UnsentIndex(b) < (b.offset + k) \div FrameUnits
<1>1. b \in Batches(Frames)
  BY DEF Sound
<1>2. after => before /\ ~reached
  <2>1. /\ Cut(a, s) => /\ before
                         /\ UnsentIndex(b) = (b.offset + k) \div FrameUnits
    BY TracedAfter
  <2>2. UnsentIndex(b) \in Nat
    BY <1>1, BatchFacts
  <2> HIDE DEF a, s
  <2>3. QED
    BY <2>1, <2>2
<1>3. \/ left \subseteq old
      \/ before /\ reached /\ left \subseteq old \union {c}
  BY TornByWrite
<1>4. old \in SUBSET Frames
  OBVIOUS
<1> HIDE DEF a, s, left, old, c, before, after, reached
<1>5. IsFiniteSet(old) /\ Cardinality(old) \in Nat
  BY <1>4, FramesFinite DEF FramesAreFinite
<1>6. CASE left \subseteq old
  <2>1. Cardinality(left) <= Cardinality(old) /\ Cardinality(left) \in Nat
    BY <1>5, <1>6, FS_Subset, FS_CardinalityType
  <2>2. One(after) <= One(before) /\ One(after) \in Nat /\ One(before) \in Nat
    BY <1>2 DEF One
  <2>3. Cardinality(left) + One(after) <= Cardinality(old) + One(before)
    BY <1>5, <2>1, <2>2
  <2>4. QED
    BY <2>1, <2>3 DEF a, s, left, old, before, after
<1>7. CASE before /\ reached /\ left \subseteq old \union {c}
  <2>1. One(after) = 0 /\ One(before) = 1
    BY <1>2, <1>7 DEF One
  <2>2. /\ IsFiniteSet(old \union {c})
        /\ Cardinality(old \union {c}) = IF c \in old THEN Cardinality(old)
                                         ELSE Cardinality(old) + 1
    BY <1>5, FS_AddElement
  <2>3. Cardinality(left) <= Cardinality(old \union {c}) /\ Cardinality(left) \in Nat
    BY <1>7, <2>2, FS_Subset, FS_CardinalityType
  <2>4. Cardinality(old \union {c}) <= Cardinality(old) + 1
        /\ Cardinality(old \union {c}) \in Nat
    BY <1>5, <2>2
  <2>5. Cardinality(left) + One(after) <= Cardinality(old) + One(before)
    BY <1>5, <2>1, <2>3, <2>4
  <2>6. QED
    BY <2>3, <2>5 DEF a, s, left, old, before, after
<1>8. QED
  BY <1>3, <1>6, <1>7

(* flush_tcp_retry: a failure that is not paid for already costs a fault.   *)
LEMMA SentIsAccounted ==
  ASSUME NEW b, NEW t, NEW n, Ready(b, t, n), Accounted(b, t, drained, whole, faults),
         NEW k \in 0 .. Units(b) - b.offset, NEW end \in SendEnds,
         SendMayEnd(t, Units(b) - b.offset, k, end), Connected(t)
  PROVE  LET o == Sent(b, t, k, end) IN
         Accounted(o.batch, o.tcp, o.drained, o.whole, o.faults)
<1> DEFINE wrote == Wrote(t, b, k)
           o == Sent(b, t, k, end)
           a == Advanced(b, k)
           taken == drained \union Below(b, b.offset + k)
           full == whole \union WholeIn(wrote.stream)
<1>1. /\ t \in Tcps /\ Sound(b) /\ Below(b, b.offset) \subseteq drained
      /\ drained \in SUBSET Frames /\ whole \in SUBSET Frames /\ faults \in Nat
      /\ Traced(b, t.stream) /\ Paid(b, t, drained, whole, faults)
  BY DEF Ready, Placed, Typed, Accounted
<1>2. /\ o.batch = a /\ o.drained = taken /\ o.whole = full
      /\ o.tcp = IF end = "failed" THEN Disconnected(t) ELSE wrote
      /\ o.faults = IF end = "failed" /\ t.link = "live" THEN faults + 1 ELSE faults
  BY DEF Sent, Untried
<1>3. /\ Cardinality(taken \ full) + One(Cut(a, wrote.stream))
           <= Cardinality(drained \ whole) + One(Cut(b, t.stream))
      /\ Cardinality(taken \ full) \in Nat
  BY <1>1, TornCount
<1>4. Traced(a, wrote.stream)
  BY <1>1, TracedAfter
<1>5. Cardinality(drained \ whole) + One(Cut(b, t.stream)) + One(Dying(t)) <= faults
  BY <1>1 DEF Paid
<1>6. Cardinality(drained \ whole) \in Nat
  BY <1>1, FramesFinite DEF FramesAreFinite
<1>7. \A x : One(x) \in {0, 1}
  BY DEF One
<1>8. t.link \in Links /\ t.link # "none"
  BY <1>1 DEF Tcps, Connected
<1>9. wrote.link = IF t.link = "closing" /\ k > 0 THEN "doomed" ELSE t.link
  BY <1>1 DEF Wrote, Tcps
<1>10. Disconnected(t).link = "none" /\ Disconnected(t).stream = <<>>
  BY <1>1 DEF Disconnected, Tcps
<1> DEFINE torn == Cardinality(taken \ full)
           was == Cardinality(drained \ whole)
<1> HIDE DEF wrote, o, a, taken, full, torn, was
<1>11. CASE end # "failed"
  <2>1. o.tcp = wrote /\ o.faults = faults
    BY <1>2, <1>11
  <2>2. wrote.link # "none" /\ (Dying(wrote) <=> Dying(t))
    BY <1>8, <1>9 DEF Dying
  <2>3. One(Dying(wrote)) = One(Dying(t))
    BY <2>2, Zenon DEF One
  <2>4. torn + One(Cut(a, wrote.stream)) + One(Dying(wrote)) <= faults
    <3> DEFINE c1 == One(Cut(a, wrote.stream))
               c2 == One(Cut(b, t.stream))
               d == One(Dying(t))
    <3>1. /\ c1 \in {0, 1} /\ c2 \in {0, 1} /\ d \in {0, 1}
          /\ torn + c1 <= was + c2 /\ was + c2 + d <= faults
          /\ torn \in Nat /\ was \in Nat /\ faults \in Nat
      BY <1>1, <1>3, <1>5, <1>6, <1>7 DEF torn, was
    <3> HIDE DEF c1, c2, d
    <3>2. torn + c1 + d <= faults
      BY <3>1
    <3>3. QED
      BY <2>3, <3>2 DEF c1, d
  <2>5. Paid(a, wrote, taken, full, faults)
    BY <2>4 DEF Paid, torn
  <2>6. Accounted(a, wrote, taken, full, faults)
    BY <1>4, <2>2, <2>5 DEF Accounted
  <2>7. QED
    BY <1>2, <2>1, <2>6 DEF o
<1>12. CASE end = "failed"
  <2> DEFINE gone == Disconnected(t)
             paid == IF t.link = "live" THEN faults + 1 ELSE faults
  <2>1. o.tcp = gone /\ o.faults = paid
    BY <1>2, <1>12
  <2>2. t.link = "live" \/ Dying(t)
    BY <1>8 DEF Links, Dying
  <2>3. Traced(a, gone.stream)
    <3>1. Cut(a, <<>>) \/ a.offset - Begin(a) <= 0
      <4>1. Sound(a) /\ Len(<<>>) = 0
        BY <1>1, AdvancedIs DEF a
      <4>2. a.offset \in Nat /\ Begin(a) \in Nat
        BY <4>1, BeginIs, BatchFacts DEF Sound
      <4>3. QED
        BY <4>1, <4>2 DEF Cut
    <3>2. a.offset \in Nat /\ Begin(a) \in Nat
      BY <1>1, AdvancedIs, BeginIs, BatchFacts DEF a, Sound
    <3>3. QED
      BY <1>10, <3>1, <3>2 DEF Traced
  <2>4. Dying(gone) = FALSE /\ One(Dying(gone)) = 0
    BY <1>10 DEF Dying, One
  <2>5. torn + One(Cut(a, gone.stream)) + One(Dying(gone)) <= paid
    <3> DEFINE c0 == One(Cut(a, gone.stream))
               c1 == One(Cut(a, wrote.stream))
               c2 == One(Cut(b, t.stream))
               d == One(Dying(t))
    <3>1. /\ c0 \in {0, 1} /\ c1 \in {0, 1} /\ c2 \in {0, 1} /\ d \in {0, 1}
          /\ torn + c1 <= was + c2 /\ was + c2 + d <= faults
          /\ torn \in Nat /\ was \in Nat /\ faults \in Nat
      BY <1>1, <1>3, <1>5, <1>6, <1>7 DEF torn, was
    <3>2. d + (paid - faults) >= 1 /\ paid \in Nat /\ paid >= faults
      BY <1>1, <2>2 DEF One
    <3> HIDE DEF c0, c1, c2, d, paid
    <3>3. torn + c0 <= paid
      BY <3>1, <3>2
    <3>4. QED
      BY <2>4, <3>1, <3>3 DEF c0
  <2> HIDE DEF gone, paid
  <2>6. Paid(a, gone, taken, full, paid)
    BY <2>5 DEF Paid, torn
  <2>7. Accounted(a, gone, taken, full, paid)
    BY <1>10, <2>3, <2>6 DEF Accounted, gone
  <2>8. QED
    BY <1>2, <2>1, <2>7 DEF o
<1>13. QED
  BY <1>11, <1>12

(* try_connect begins a connection where there was none.                    *)
LEMMA TriedIsAccounted ==
  ASSUME NEW b, NEW t \in Tcps, NEW taken, NEW full, NEW n,
         Accounted(b, t, taken, full, n)
  PROVE  Accounted(b, TriedConnect(t), taken, full, n)
<1> DEFINE u == TriedConnect(t)
<1>1. CASE u = t
  BY <1>1
<1>2. CASE u # t
  <2>1. t.link = "none" /\ t.stream = <<>>
    BY <1>2 DEF TriedConnect, Connected, Accounted
  <2>2. u.stream = <<>> /\ (u.link = "live" \/ u.link = "none")
    BY <2>1 DEF TriedConnect, Tcps
  <2>3. ~Dying(u) /\ ~Dying(t)
    BY <2>1, <2>2 DEF Dying
  <2>4. One(Dying(u)) = One(Dying(t)) /\ u.stream = t.stream
    BY <2>1, <2>2, <2>3 DEF One
  <2> HIDE DEF u
  <2>5. Accounted(b, u, taken, full, n)
    BY <2>1, <2>2, <2>4 DEF Accounted, Paid
  <2>6. QED
    BY <2>5 DEF u
<1>3. QED
  BY <1>1, <1>2

LEMMA FlushIsAccounted ==
  ASSUME NEW b, NEW n, Ready(b, tcp, n), transport = "tcp",
         Accounted(b, tcp, drained, whole, faults), NEW o \in FlushOutcomes(b)
  PROVE  Accounted(o.batch, o.tcp, o.drained, o.whole, o.faults)
<1> DEFINE t == TriedConnect(tcp)
<1>1. Ready(b, t, n) /\ Accounted(b, t, drained, whole, faults)
  BY TriedIs, TriedIsAccounted DEF Ready
<1> HIDE DEF t
<1>2. PICK y \in TcpFlushes(b, t), time \in FlushTimes :
        o = AdaptedAfter(y, time)
  BY DEF FlushOutcomes, TcpTried, t
<1>3. Good(y, n)
  BY <1>1, <1>2, TcpIsGood
<1>4. Accounted(y.batch, y.tcp, y.drained, y.whole, y.faults)
  <2>1. CASE ~Connected(t)
    <3>1. y = Untried(b, t)
      BY <1>2, <2>1 DEF TcpFlushes
    <3>2. QED
      BY <1>1, <3>1 DEF Untried
  <2>2. CASE Connected(t)
    <3>1. PICK p \in (0 .. Units(b) - b.offset) \X SendEnds :
            /\ SendMayEnd(t, Units(b) - b.offset, p[1], p[2])
            /\ y = Sent(b, t, p[1], p[2])
      BY <1>2, <2>2 DEF TcpFlushes
    <3>2. p[1] \in 0 .. Units(b) - b.offset /\ p[2] \in SendEnds
      BY <3>1
    <3>3. QED
      BY <1>1, <2>2, <3>1, <3>2, SentIsAccounted
  <2>3. QED
    BY <2>1, <2>2
<1>5. /\ o.tcp = y.tcp /\ o.faults = y.faults /\ o.drained = y.drained
      /\ o.whole = y.whole /\ o.batch.frames = y.batch.frames
      /\ o.batch.offset = y.batch.offset
  <2>1. y \in Outcomes /\ y.batch \in Batches(Frames)
    BY <1>3 DEF Good, Outcomes
  <2>2. /\ Adapted(y.batch, y.ok, time).offset = y.batch.offset
        /\ Adapted(y.batch, y.ok, time).frames = y.batch.frames
    BY <2>1 DEF Adapted, Batches
  <2>3. QED
    BY <1>2, <2>1, <2>2 DEF AdaptedAfter, Outcomes
<1>6. QED
  BY <1>4, <1>5 DEF Accounted, Paid, Traced, Cut, Begin, UnsentIndex, UnitAt

(* push leaves what the offset has passed as it is.                         *)
LEMMA PushIsAccounted ==
  ASSUME NEW b, Sound(b), NEW f, NEW t, NEW taken, NEW full, NEW n,
         Accounted(b, t, taken, full, n)
  PROVE  Accounted(Pushed(b, f), t, taken, full, n)
<1> DEFINE p == Pushed(b, f)
<1>1. b \in Batches(Frames)
  BY DEF Sound
<1>2. /\ b.offset \in 0 .. Units(b) /\ Units(b) = Count(b) * FrameUnits
      /\ Count(b) \in Nat /\ Count(b) = Len(b.frames)
      /\ b.frames \in Seq(Frames) /\ FrameUnits \in Nat \ {0}
      /\ b.offset \in Nat /\ Units(b) \in Nat /\ Begin(b) \in Nat
  BY <1>1, BatchFacts, IndexInside, BeginIs DEF Units
<1>3. /\ p.offset = b.offset
      /\ \A i \in 1 .. Count(b) : p.frames[i] = b.frames[i]
  BY <1>1, <1>2 DEF Pushed, Batches
<1>4. ASSUME NEW j \in Nat, j < b.offset
      PROVE  UnitAt(p, j) = UnitAt(b, j)
  <2>1. j < Count(b) * FrameUnits
    BY <1>2, <1>4
  <2>2. j \div FrameUnits \in Nat /\ j \div FrameUnits < Count(b)
    BY <1>2, <2>1, Division, QuotientBelow
  <2>3. j \div FrameUnits + 1 \in 1 .. Count(b)
    BY <1>2, <2>2
  <2> HIDE DEF p
  <2>4. QED
    BY <1>3, <2>3 DEF UnitAt
<1>5. Begin(p) = Begin(b) /\ \A s : Cut(p, s) <=> Cut(b, s)
  BY <1>3 DEF Begin, UnsentIndex, Cut
<1> HIDE DEF p
<1>6. Traced(p, t.stream)
  <2>1. \A j \in Begin(b) .. b.offset - 1 : j \in Nat /\ j < b.offset
    BY <1>2
  <2>2. Traced(b, t.stream)
    BY DEF Accounted
  <2>3. QED
    BY <1>3, <1>4, <1>5, <2>1, <2>2 DEF Traced
<1>7. One(Cut(p, t.stream)) = One(Cut(b, t.stream))
  BY <1>5, Zenon DEF One
<1>8. QED
  BY <1>6, <1>7 DEF Accounted, Paid, p

(* The program takes over a flush.                                          *)
LEMMA AccountIsKept ==
  ASSUME NEW b, NEW n, Ready(b, tcp, n), transport' = transport,
         transport = "tcp" => Accounted(b, tcp, drained, whole, faults),
         NEW o \in FlushOutcomes(b), Took(o)
  PROVE  TornInv'
<1>1. SUFFICES ASSUME transport = "tcp" PROVE TornInv'
  BY DEF TornInv
<1>2. Accounted(o.batch, o.tcp, o.drained, o.whole, o.faults)
  BY <1>1, FlushIsAccounted
<1>3. Accounted(batch', tcp', drained', whole', faults')
  BY <1>2 DEF Took
<1>4. QED
  BY <1>3 DEF TornInv, Accounted, Paid, Traced, Cut, Begin, UnsentIndex, UnitAt, Dying

LEMMA TornStart == Init => TornInv
<1> SUFFICES ASSUME Init PROVE TornInv
  OBVIOUS
<1>1. /\ Unconnected.stream = <<>> /\ EmptyBatch.offset = 0 /\ Len(<<>>) \in Nat
      /\ Unconnected.link = "none"
  BY DEF Unconnected, EmptyBatch
<1>2. /\ TriedConnect(Unconnected).stream = <<>>
      /\ TriedConnect(Unconnected).link \in {"none", "live"}
  BY <1>1 DEF TriedConnect, Unconnected
<1>3. /\ tcp.stream = <<>> /\ batch.offset = 0 /\ drained = {} /\ faults = 0
      /\ tcp.link \in {"none", "live"}
  BY <1>1, <1>2 DEF Init
<1>4. Traced(batch, tcp.stream) /\ ~Cut(batch, tcp.stream)
  BY <1>1, <1>3, NothingCut
<1>5. Cardinality(drained \ whole) = 0
  <2>1. drained \ whole = {}
    BY <1>3
  <2>2. QED
    BY <2>1, FS_EmptySet, Zenon
<1>6. One(Cut(batch, tcp.stream)) = 0 /\ One(Dying(tcp)) = 0
  BY <1>3, <1>4 DEF One, Dying
<1>7. QED
  BY <1>3, <1>4, <1>5, <1>6 DEF TornInv, Accounted, Paid

LEMMA TornNetwork ==
  ASSUME UplinkInv, TornInv, Tick \/ Network
  PROVE  TornInv'
<1>1. SUFFICES ASSUME transport = "tcp" PROVE Accounted(batch, tcp, drained, whole, faults)'
  BY DEF TornInv, Tick, Network, PeerCloses, PeerResets, ResetArrives,
         PeerReturns, Fault
<1>2. /\ tcp \in Tcps /\ faults \in Nat
      /\ drained \in SUBSET Frames
      /\ Accounted(batch, tcp, drained, whole, faults)
  BY <1>1 DEF UplinkInv, Ready, Typed, TornInv
<1>3. UNCHANGED <<batch, drained, whole>>
  BY DEF Tick, Network, PeerCloses, PeerResets, ResetArrives, PeerReturns, Fault
<1>4. /\ tcp'.stream = tcp.stream
      /\ \/ faults' = faults /\ (Dying(tcp') <=> Dying(tcp))
            /\ (tcp'.link = "none" <=> tcp.link = "none")
         \/ /\ faults' = faults + 1
            /\ tcp'.link = "none" <=> tcp.link = "none"
  <2>1. tcp \in [link : Links, wait : Nat, backoff : Nat, stream : Seq(WireUnits)]
    BY <1>2 DEF Tcps
  <2>2. CASE Tick
    <3>1. tcp' = [tcp EXCEPT !.wait = tcp.wait - 1] /\ faults' = faults
      BY <2>2 DEF Tick
    <3>2. tcp'.link = tcp.link /\ tcp'.stream = tcp.stream
      BY <2>1, <3>1
    <3>3. QED
      BY <3>1, <3>2 DEF Dying
  <2>3. CASE PeerCloses \/ PeerResets
    <3>1. /\ faults' = faults + 1
          /\ \/ tcp' = tcp
             \/ /\ tcp.link = "live"
                /\ \E l \in {"closing", "reset"} : tcp' = [tcp EXCEPT !.link = l]
      BY <2>3 DEF PeerCloses, PeerResets, Fault
    <3>2. QED
      BY <2>1, <3>1
  <2>4. CASE ResetArrives
    <3>1. /\ faults' = faults /\ tcp.link = "doomed"
          /\ tcp' = [tcp EXCEPT !.link = "pipe"]
      BY <2>4 DEF ResetArrives
    <3>2. tcp'.link = "pipe" /\ tcp'.stream = tcp.stream
      BY <2>1, <3>1
    <3>3. QED
      BY <3>1, <3>2 DEF Dying
  <2>5. CASE PeerReturns
    BY <2>5 DEF PeerReturns, Dying
  <2>6. QED
    BY <2>2, <2>3, <2>4, <2>5 DEF Network
<1> DEFINE c == One(Cut(batch, tcp.stream))
           torn == Cardinality(drained \ whole)
<1>5. c \in Nat /\ torn \in Nat /\ One(Dying(tcp)) \in {0, 1}
      /\ One(Dying(tcp')) \in {0, 1} /\ torn + c + One(Dying(tcp)) <= faults
  <2>1. torn \in Nat
    BY <1>2, FramesFinite DEF FramesAreFinite
  <2>2. QED
    BY <1>2, <2>1 DEF One, Accounted, Paid
<1> HIDE DEF c, torn
<1>6. torn + c + One(Dying(tcp')) <= faults'
  <2>1. CASE faults' = faults /\ (Dying(tcp') <=> Dying(tcp))
    <3>1. One(Dying(tcp')) = One(Dying(tcp))
      BY <2>1, Zenon DEF One
    <3>2. QED
      BY <1>5, <2>1, <3>1
  <2>2. CASE faults' = faults + 1
    BY <1>2, <1>5, <2>2
  <2>3. QED
    BY <1>4, <2>1, <2>2
<1>7. Paid(batch, tcp', drained, whole, faults')
  BY <1>4, <1>6 DEF Paid, c, torn
<1>8. Accounted(batch, tcp', drained, whole, faults')
  BY <1>2, <1>4, <1>7 DEF Accounted
<1>9. QED
  BY <1>3, <1>8 DEF Accounted, Paid, Traced, Cut, Begin, UnsentIndex, UnitAt, Dying

LEMMA TornStep == UplinkInv /\ TornInv /\ [Next]_vars => TornInv'
<1> SUFFICES ASSUME UplinkInv, TornInv, [Next]_vars PROVE TornInv'
  OBVIOUS
<1>1. Ready(batch, tcp, seq) /\ seq \in 0 .. MaxFrames /\ Sound(batch)
  BY DEF UplinkInv, Ready
<1>2. CASE Drain
  BY <1>1, <1>2, AccountIsKept DEF Drain, TornInv
<1>3. CASE UNCHANGED <<transport, batch, tcp, faults, drained, whole>>
  BY <1>3 DEF TornInv, Accounted, Paid, Traced, Cut, Begin, UnsentIndex, UnitAt, Dying
<1>4. CASE Sample
  <2> DEFINE b == Pushed(batch, seq)
  <2>1. Ready(b, tcp, seq + 1)
    BY <1>1, <1>4, PushIsReady DEF Sample
  <2>2. transport = "tcp" => Accounted(b, tcp, drained, whole, faults)
    BY <1>1, PushIsAccounted DEF TornInv
  <2>3. \/ \E o \in FlushOutcomes(b) : Took(o)
        \/ batch' = b /\ UNCHANGED <<tcp, faults, drained, whole>>
    BY <1>4 DEF Sample
  <2>4. transport' = transport
    BY <1>4 DEF Sample
  <2> HIDE DEF b
  <2>5. CASE \E o \in FlushOutcomes(b) : Took(o)
    BY <2>1, <2>2, <2>4, <2>5, AccountIsKept
  <2>6. CASE batch' = b /\ UNCHANGED <<tcp, faults, drained, whole>>
    BY <2>2, <2>4, <2>6 DEF TornInv, Accounted, Paid, Traced, Cut, Begin,
                             UnsentIndex, UnitAt, Dying
  <2>7. QED
    BY <2>3, <2>5, <2>6
<1>5. CASE Stop
  BY <1>1, <1>3, <1>5, AccountIsKept DEF Stop, TornInv
<1>6. CASE Tick \/ Network
  BY <1>6, TornNetwork
<1>7. QED
  BY <1>2, <1>3, <1>4, <1>5, <1>6 DEF Next, Loop, Drop, vars

(* Under tcp a frame is torn by a lost connection only, and by each at most *)
(* one: the batch resumes in mid-frame on the next (batch.cpp, flush_tcp).  *)
THEOREM OneTornPerFault == Spec => []TornAtMostOncePerFault
<1>1. UplinkInv /\ TornInv => TornAtMostOncePerFault
  <2> SUFFICES ASSUME UplinkInv, TornInv, transport = "tcp"
               PROVE  Cardinality(drained \ whole) <= faults
    BY DEF TornAtMostOncePerFault
  <2>1. /\ drained \in SUBSET Frames /\ faults \in Nat
        /\ Paid(batch, tcp, drained, whole, faults)
    BY DEF UplinkInv, Ready, Typed, TornInv, Accounted
  <2>2. Cardinality(drained \ whole) \in Nat
    BY <2>1, FramesFinite DEF FramesAreFinite
  <2> DEFINE c == One(Cut(batch, tcp.stream))
             d == One(Dying(tcp))
  <2>3. c \in {0, 1} /\ d \in {0, 1}
    BY DEF One
  <2>4. Cardinality(drained \ whole) + c + d <= faults
    BY <2>1 DEF Paid
  <2> HIDE DEF c, d
  <2>5. QED
    BY <2>1, <2>2, <2>3, <2>4
<1>2. QED
  BY <1>1, Invariance, TornStart, TornStep, PTL DEF Spec
=============================================================================
