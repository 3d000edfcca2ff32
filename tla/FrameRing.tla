------------------------------ MODULE FrameRing ------------------------------
(***************************************************************************)
(* operator-node/.../pipeline/FrameRing.java: the ring between the receiver *)
(* thread (offer) and the tick or smoke thread (poll).                      *)
(*                                                                         *)
(* Every access to head, tail, drops or a slot is one action, because each  *)
(* is one volatile (or ordered) access of the code and the two threads may  *)
(* interleave between any two.  The only pair joined is head and tail at    *)
(* the start of offer: head is written by the offering thread alone.        *)
(*                                                                         *)
(* The k-th frame offered is the number k: it is stored at position k - 1.  *)
(* The code masks positions with capacity - 1, which for the powers of two  *)
(* the constructor insists on is the remainder used here.  The 64-bit       *)
(* positions do not wrap in any run of the program, so they are naturals.   *)
(***************************************************************************)
EXTENDS Integers, Sequences

CONSTANTS
  Cap,         \* slots.length()
  MaxOffers    \* bound: how many frames the receiver offers

ASSUME CapAssumption == Cap \in Nat /\ Cap >= 2
ASSUME MaxOffersAssumption == MaxOffers \in Nat

VARIABLES
  head, tail, drops, slots,
  ppc,         \* the offering thread: its next access
  pHead,       \* its local h
  pTail,       \* its local t
  cpc,         \* the polling thread: its next access
  cTail,       \* its local t
  cFrame,      \* its local f
  delivered,   \* history: the frames poll returned, in order
  raced        \* history: an eviction moved tail while a poll was under way

vars == <<head, tail, drops, slots, ppc, pHead, pTail,
          cpc, cTail, cFrame, delivered, raced>>
producerVars == <<ppc, pHead, pTail>>
consumerVars == <<cpc, cTail, cFrame, delivered>>

Empty == 0                       \* a null slot
Frames == 1 .. MaxOffers
Idx(position) == position % Cap
PollUnderWay == cpc # "idle"

Init ==
  /\ head = 0
  /\ tail = 0
  /\ drops = 0
  /\ slots = [i \in 0 .. Cap - 1 |-> Empty]
  /\ ppc = "idle"
  /\ pHead = 0
  /\ pTail = 0
  /\ cpc = "idle"
  /\ cTail = 0
  /\ cFrame = Empty
  /\ delivered = <<>>
  /\ raced = FALSE

(***************************************************************************)
(* offer                                                                   *)
(***************************************************************************)
(* Mutant: the full test is off by one.                                     *)
OfferBeginLateTest ==
  /\ ppc = "idle"
  /\ head < MaxOffers
  /\ pHead' = head
  /\ pTail' = tail
  /\ ppc' = IF head - tail > Cap THEN "evict" ELSE "store"
  /\ UNCHANGED <<head, tail, drops, slots, raced, consumerVars>>

OfferBegin ==
  /\ ppc = "idle"
  /\ head < MaxOffers
  /\ pHead' = head
  /\ pTail' = tail
  /\ ppc' = IF head - tail >= Cap THEN "evict" ELSE "store"
  /\ UNCHANGED <<head, tail, drops, slots, raced, consumerVars>>

(* Mutant: tail is stored without comparing it first.                       *)
OfferEvictBlind ==
  /\ ppc = "evict"
  /\ tail' = pTail + 1
  /\ ppc' = "count"
  /\ raced' = (raced \/ PollUnderWay)
  /\ UNCHANGED <<head, drops, slots, pHead, pTail, consumerVars>>

(* tail.compareAndSet(t, t + 1)                                             *)
OfferEvict ==
  /\ ppc = "evict"
  /\ IF tail = pTail
       THEN /\ tail' = pTail + 1
            /\ ppc' = "count"
            /\ raced' = (raced \/ PollUnderWay)
       ELSE /\ ppc' = "store"
            /\ UNCHANGED <<tail, raced>>
  /\ UNCHANGED <<head, drops, slots, pHead, pTail, consumerVars>>

OfferCount ==
  /\ ppc = "count"
  /\ drops' = drops + 1
  /\ ppc' = "store"
  /\ UNCHANGED <<head, tail, slots, pHead, pTail, raced, consumerVars>>

OfferStore ==
  /\ ppc = "store"
  /\ slots' = [slots EXCEPT ![Idx(pHead)] = pHead + 1]
  /\ ppc' = "publish"
  /\ UNCHANGED <<head, tail, drops, pHead, pTail, raced, consumerVars>>

OfferPublish ==
  /\ ppc = "publish"
  /\ head' = pHead + 1
  /\ ppc' = "idle"
  /\ UNCHANGED <<tail, drops, slots, pHead, pTail, raced, consumerVars>>

(***************************************************************************)
(* poll                                                                    *)
(***************************************************************************)
(* Mutant: tail taken for the last position read instead of the next one.   *)
PollTailPrevious ==
  /\ cpc = "idle"
  /\ cTail' = tail - 1
  /\ cpc' = "head"
  /\ UNCHANGED <<head, tail, drops, slots, cFrame, delivered, raced,
                 producerVars>>

PollTail ==
  /\ cpc = "idle"
  /\ cTail' = tail
  /\ cpc' = "head"
  /\ UNCHANGED <<head, tail, drops, slots, cFrame, delivered, raced,
                 producerVars>>

(* Mutants: the empty test admits an empty ring, or hides the last frame.   *)
PollHeadPastEnd ==
  /\ cpc = "head"
  /\ cpc' = IF cTail > head THEN "idle" ELSE "take"
  /\ UNCHANGED <<head, tail, drops, slots, cTail, cFrame, delivered, raced,
                 producerVars>>

PollHeadShort ==
  /\ cpc = "head"
  /\ cpc' = IF cTail + 1 >= head THEN "idle" ELSE "take"
  /\ UNCHANGED <<head, tail, drops, slots, cTail, cFrame, delivered, raced,
                 producerVars>>

PollHead ==
  /\ cpc = "head"
  /\ cpc' = IF cTail >= head THEN "idle" ELSE "take"
  /\ UNCHANGED <<head, tail, drops, slots, cTail, cFrame, delivered, raced,
                 producerVars>>

PollTake ==
  /\ cpc = "take"
  /\ cFrame' = slots[Idx(cTail)]
  /\ cpc' = "clear"
  /\ UNCHANGED <<head, tail, drops, slots, cTail, delivered, raced,
                 producerVars>>

(* Mutant: the slot keeps its frame.                                        *)
PollClearSkipped ==
  /\ cpc = "clear"
  /\ cpc' = "advance"
  /\ UNCHANGED <<head, tail, drops, slots, cTail, cFrame, delivered, raced,
                 producerVars>>

PollClear ==
  /\ cpc = "clear"
  /\ slots' = [slots EXCEPT ![Idx(cTail)] = Empty]
  /\ cpc' = "advance"
  /\ UNCHANGED <<head, tail, drops, cTail, cFrame, delivered, raced,
                 producerVars>>

(* A plain store, not a compareAndSet: it can undo an eviction.  A null     *)
(* frame is returned as it is, and the caller takes it for an empty ring.   *)
PollAdvance ==
  /\ cpc = "advance"
  /\ tail' = cTail + 1
  /\ delivered' =
       IF cFrame = Empty THEN delivered ELSE Append(delivered, cFrame)
  /\ cFrame' = Empty
  /\ cpc' = "idle"
  /\ UNCHANGED <<head, drops, slots, cTail, raced, producerVars>>

OfferStep == OfferEvict \/ OfferCount \/ OfferStore \/ OfferPublish
Producer == OfferBegin \/ OfferStep
Consumer == PollTail \/ PollHead \/ PollTake \/ PollClear \/ PollAdvance

Next == Producer \/ Consumer

Spec == Init /\ [][Next]_vars

(* Both threads run on their own; the tick polls for ever, while whether a  *)
(* further frame arrives is up to the network.                              *)
FairSpec == Spec /\ WF_vars(OfferStep) /\ WF_vars(Consumer)

(***************************************************************************)
(* Properties                                                              *)
(***************************************************************************)
TypeOK ==
  /\ head \in Nat
  /\ tail \in Nat
  /\ drops \in Nat
  /\ slots \in [0 .. Cap - 1 -> Nat]
  /\ ppc \in {"idle", "evict", "count", "store", "publish"}
  /\ pHead \in Nat
  /\ pTail \in Nat
  /\ cpc \in {"idle", "head", "take", "clear", "advance"}
  /\ cTail \in Nat
  /\ cFrame \in Nat
  /\ delivered \in Seq(Nat)
  /\ raced \in BOOLEAN

InSlots(f) == \E i \in 0 .. Cap - 1 : slots[i] = f

(* No frame reaches the consumer twice, whatever eviction races with it:    *)
(* offer's overflow path of FrameRing.java against poll.                    *)
AtMostOnce ==
  \A i, j \in 1 .. Len(delivered) : delivered[i] = delivered[j] => i = j

(* Neither thread ever takes tail past head, although each moves it on the  *)
(* strength of a head and a tail it read some steps earlier.                *)
TailBehindHead == tail <= head

(* Frames come out in the order they went in, which is what the class       *)
(* comment's "SPSC ring" (FrameRing.java:9) promises: only the consumer     *)
(* moves tail in such a ring.  It does not hold: an eviction between        *)
(* poll's read of tail and its store is undone by the store, and the        *)
(* position delivered next already holds a frame from a later lap.          *)
InOrder ==
  \A i, j \in 1 .. Len(delivered) : i < j => delivered[i] < delivered[j]

(* As long as no eviction falls inside a poll, the ring is exact: it keeps  *)
(* the order, holds at most Cap frames, and every frame offered is either   *)
(* delivered, still resident, or counted in drops().                        *)
ExactUnlessRaced ==
  ~raced =>
    /\ InOrder
    /\ head - tail <= Cap
    /\ head = Len(delivered) + drops + (head - tail)
              + (IF ppc = "count" THEN 1 ELSE 0)

(* A ring that never overflowed is a plain FIFO: what came out is exactly   *)
(* the first frames offered, in order, none missing.                        *)
FifoUntilFull ==
  (drops = 0 /\ ppc # "count") => delivered = [i \in 1 .. tail |-> i]

(* No frame is stranded: whatever the cursors went through, a frame that    *)
(* was stored leaves its slot in the end (polled, evicted or overwritten).  *)
FrameLeaves == \A f \in Frames : InSlots(f) ~> ~InSlots(f)

(* The ring implements LossyChannel: at most once, nothing made up.  A      *)
(* frame is inside while it is in a slot or in the hands of a poll that has *)
(* yet to return it.                                                        *)
Accepted == IF ppc = "publish" THEN head + 1 ELSE head
Inside == {f \in 1 .. Accepted : InSlots(f) \/ f = cFrame}
Channel == INSTANCE LossyChannel
             WITH accepted <- Accepted, inside <- Inside, received <- delivered
ImplementsLossyChannel == Channel!Spec
=============================================================================
