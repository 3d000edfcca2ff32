-------------------------- MODULE FrameRing_proofs --------------------------
(***************************************************************************)
(* Proofs about FrameRing for every capacity and every number of offers.    *)
(*                                                                         *)
(*   Typing           TypeOK                                                *)
(*   CursorsBehind    TailBehindHead                                        *)
(*   NoDuplicates     AtMostOnce                                            *)
(*   Exact            ExactUnlessRaced and FifoUntilFull                    *)
(*   RefinesChannel   ImplementsLossyChannel                                *)
(***************************************************************************)
EXTENDS FrameRing, TLAPS

USE DEF Empty

(***************************************************************************)
(* Positions                                                               *)
(***************************************************************************)

(* A masked position is the index of a slot.                                *)
LEMMA IdxInRange == ASSUME NEW k \in Nat PROVE Idx(k) \in 0 .. Cap - 1
BY CapAssumption, SMT DEF Idx

(* Two positions less than a capacity apart use different slots.            *)
LEMMA IdxDistinct ==
  ASSUME NEW a \in Nat, NEW b \in Nat, a < b, b < a + Cap
  PROVE  Idx(a) # Idx(b)
<1>1. Cap \in Nat /\ Cap > 0
  BY CapAssumption
<1>2. /\ a = Cap * (a \div Cap) + (a % Cap)
      /\ b = Cap * (b \div Cap) + (b % Cap)
  BY <1>1, SMT
<1>3. (a \div Cap) \in Int /\ (b \div Cap) \in Int /\ a % Cap \in 0 .. Cap - 1
  BY <1>1, SMT
<1>4. SUFFICES ASSUME a % Cap = b % Cap PROVE FALSE
  BY DEF Idx
<1>5. PICK d \in Int : d = (b \div Cap) - (a \div Cap)
  BY <1>3
<1>6. b - a = Cap * d
  BY <1>1, <1>2, <1>3, <1>4, <1>5, SMT
<1>7. CASE d <= 0
  <2>1. Cap * d <= 0
    BY <1>1, <1>7, SMT
  <2> QED BY <1>6, <2>1
<1>8. CASE d >= 1
  <2>1. Cap * d >= Cap
    BY <1>1, <1>8, SMT
  <2> QED BY <1>1, <1>6, <2>1
<1> QED BY <1>5, <1>7, <1>8

(***************************************************************************)
(* Typing                                                                  *)
(***************************************************************************)

(* TypeOK is inductive: every access of offer and poll keeps the cursors,   *)
(* slots and locals of FrameRing.java in their types.                       *)
LEMMA TypingStep == TypeOK /\ [Next]_vars => TypeOK'
<1> SUFFICES ASSUME TypeOK, [Next]_vars PROVE TypeOK'
  OBVIOUS
<1> USE CapAssumption DEF TypeOK, producerVars, consumerVars
<1>1. CASE OfferBegin BY <1>1 DEF OfferBegin
<1>2. CASE OfferEvict
  <2>1. raced' \in BOOLEAN
    BY <1>2, Zenon DEF OfferEvict, PollUnderWay
  <2>2. tail' \in Nat /\ ppc' \in {"idle", "evict", "count", "store", "publish"}
    BY <1>2 DEF OfferEvict
  <2> QED BY <1>2, <2>1, <2>2 DEF OfferEvict
<1>3. CASE OfferCount BY <1>3 DEF OfferCount
<1>4. CASE OfferStore
  <2>0. Idx(pHead) \in 0 .. Cap - 1
    BY IdxInRange
  <2>1. slots' \in [0 .. Cap - 1 -> Nat]
    BY <1>4, <2>0 DEF OfferStore
  <2> QED BY <1>4, <2>1 DEF OfferStore
<1>5. CASE OfferPublish BY <1>5 DEF OfferPublish
<1>6. CASE PollTail BY <1>6 DEF PollTail
<1>7. CASE PollHead BY <1>7 DEF PollHead
<1>8. CASE PollTake
  <2>1. Idx(cTail) \in 0 .. Cap - 1
    BY IdxInRange
  <2> QED BY <1>8, <2>1 DEF PollTake
<1>9. CASE PollClear BY <1>9, IdxInRange DEF PollClear
<1>10. CASE PollAdvance BY <1>10 DEF PollAdvance
<1>11. CASE UNCHANGED vars BY <1>11 DEF vars
<1> QED
  BY <1>1, <1>2, <1>3, <1>4, <1>5, <1>6, <1>7, <1>8, <1>9, <1>10, <1>11
  DEF Next, Producer, OfferStep, Consumer

(* Every variable keeps its type, for any capacity and number of frames.    *)
THEOREM Typing == Spec => []TypeOK
<1>1. Init => TypeOK
  <2> SUFFICES ASSUME Init PROVE TypeOK
    OBVIOUS
  <2>1. slots \in [0 .. Cap - 1 -> Nat]
    BY CapAssumption DEF Init
  <2>2. raced \in BOOLEAN
    BY Zenon DEF Init
  <2>3. delivered \in Seq(Nat)
    BY DEF Init
  <2> QED BY <2>1, <2>2, <2>3 DEF Init, TypeOK
<1> QED BY <1>1, TypingStep, PTL DEF Spec

(***************************************************************************)
(* The cursors                                                             *)
(***************************************************************************)

(* What each thread may rely on of the cursors it read earlier.             *)
CursorInv ==
  /\ TailBehindHead
  /\ ppc # "idle" => pHead = head
  /\ ppc = "evict" => pTail < head
  /\ cpc \in {"take", "clear", "advance"} => cTail < head

(* Each access of offer or poll keeps the cursors in their windows.         *)
LEMMA CursorStep == TypeOK /\ CursorInv /\ [Next]_vars => CursorInv'
<1> SUFFICES ASSUME TypeOK, CursorInv, [Next]_vars PROVE CursorInv'
  OBVIOUS
<1>0. /\ head \in Nat /\ tail \in Nat /\ pHead \in Nat /\ pTail \in Nat /\ cTail \in Nat
  BY DEF TypeOK
<1> USE CapAssumption, <1>0 DEF CursorInv, TailBehindHead, producerVars, consumerVars
<1>1. CASE OfferBegin BY <1>1 DEF OfferBegin
<1>2. CASE OfferEvict BY <1>2 DEF OfferEvict
<1>3. CASE OfferCount BY <1>3 DEF OfferCount
<1>4. CASE OfferStore BY <1>4 DEF OfferStore
<1>5. CASE OfferPublish BY <1>5 DEF OfferPublish
<1>6. CASE PollTail BY <1>6 DEF PollTail
<1>7. CASE PollHead BY <1>7 DEF PollHead
<1>8. CASE PollTake BY <1>8 DEF PollTake
<1>9. CASE PollClear BY <1>9 DEF PollClear
<1>10. CASE PollAdvance BY <1>10 DEF PollAdvance
<1>11. CASE UNCHANGED vars BY <1>11 DEF vars
<1> QED
  BY <1>1, <1>2, <1>3, <1>4, <1>5, <1>6, <1>7, <1>8, <1>9, <1>10, <1>11
  DEF Next, Producer, OfferStep, Consumer

(* So they are in them in every reachable state.                            *)
LEMMA Cursors == Spec => []CursorInv
<1>1. Init => CursorInv
  BY DEF Init, CursorInv, TailBehindHead
<1> QED BY <1>1, Typing, CursorStep, PTL DEF Spec

(* tail never passes head: neither the eviction in offer nor the plain      *)
(* store in poll of FrameRing.java can take it there.                       *)
THEOREM CursorsBehind == Spec => []TailBehindHead
BY Cursors, PTL DEF CursorInv

(***************************************************************************)
(* At most once                                                            *)
(***************************************************************************)

(* A slot holds no frame but one whose position is masked to that slot, so  *)
(* no frame is in two slots.                                                *)
SlotsInv ==
  \A i \in 0 .. Cap - 1 :
    slots[i] # Empty => slots[i] <= Accepted /\ Idx(slots[i] - 1) = i

(* The frame a poll holds may still be in the slot it came from, until the  *)
(* slot is cleared; a frame stored there meanwhile is a later one.          *)
HeldInv ==
  cFrame # Empty =>
    /\ cpc \in {"clear", "advance"}
    /\ cFrame <= Accepted
    /\ Idx(cFrame - 1) = Idx(cTail)
    /\ cpc = "advance" => ~InSlots(cFrame)

(* A frame that came out is nowhere in the ring any more.                   *)
ReceivedInv ==
  \A n \in 1 .. Len(delivered) :
    /\ delivered[n] # Empty
    /\ delivered[n] <= Accepted
    /\ ~InSlots(delivered[n])
    /\ delivered[n] # cFrame

OnceInv == SlotsInv /\ HeldInv /\ ReceivedInv /\ AtMostOnce

(* At the start no frame is anywhere, so none is there twice.               *)
LEMMA OnceInit == Init => OnceInv
BY DEF Init, OnceInv, SlotsInv, HeldInv, ReceivedInv, AtMostOnce, InSlots

(* Steps that leave the slots, the held frame and the deliveries alone.     *)
LEMMA OnceIdle ==
  ASSUME OnceInv, UNCHANGED <<slots, cFrame, delivered>>, Accepted' = Accepted,
         cFrame # Empty => cpc' = cpc /\ cTail' = cTail
  PROVE  OnceInv'
BY DEF OnceInv, SlotsInv, HeldInv, ReceivedInv, AtMostOnce, InSlots

(* OfferStore puts a new frame into a slot: one that was nowhere before.    *)
LEMMA OnceStore == TypeOK /\ CursorInv /\ OnceInv /\ OfferStore => OnceInv'
<1> SUFFICES ASSUME TypeOK, CursorInv, OnceInv, OfferStore PROVE OnceInv'
  OBVIOUS
<1> DEFINE new == pHead + 1
<1>1. /\ pHead = head /\ head \in Nat /\ slots \in [0 .. Cap - 1 -> Nat]
      /\ cFrame \in Nat /\ delivered \in Seq(Nat)
  BY DEF CursorInv, TypeOK, OfferStore
<1>2. Accepted = head /\ Accepted' = head + 1
  BY <1>1 DEF Accepted, OfferStore
<1>3. Idx(pHead) \in 0 .. Cap - 1
  BY <1>1, IdxInRange
<1>4. slots' = [slots EXCEPT ![Idx(pHead)] = new]
      /\ UNCHANGED <<cpc, cTail, cFrame, delivered>>
  BY DEF OfferStore, consumerVars
<1>5. \A f \in Nat : f <= head /\ InSlots(f)' => InSlots(f)
  BY <1>1, <1>3, <1>4 DEF InSlots
<1>6. SlotsInv'
  <2> SUFFICES ASSUME NEW i \in 0 .. Cap - 1, slots'[i] # Empty
               PROVE  slots'[i] <= Accepted' /\ Idx(slots'[i] - 1) = i
    BY DEF SlotsInv
  <2>1. CASE i = Idx(pHead)
    <3>1. slots'[i] = head + 1 /\ slots'[i] - 1 = pHead
      BY <1>1, <1>3, <1>4, <2>1
    <3> QED BY <1>1, <1>2, <2>1, <3>1
  <2>2. CASE i # Idx(pHead)
    <3>1. slots'[i] = slots[i] /\ slots[i] \in Nat
      BY <1>1, <1>3, <1>4, <2>2
    <3> QED BY <1>1, <1>2, <3>1 DEF OnceInv, SlotsInv
  <2> QED BY <2>1, <2>2
<1>7. HeldInv'
  BY <1>1, <1>2, <1>4, <1>5 DEF OnceInv, HeldInv
<1>8. ReceivedInv'
  <2> SUFFICES ASSUME NEW n \in 1 .. Len(delivered)
               PROVE  /\ delivered[n] # Empty /\ delivered[n] <= head + 1
                      /\ ~InSlots(delivered[n])' /\ delivered[n] # cFrame
    BY <1>2, <1>4 DEF ReceivedInv
  <2>1. delivered[n] \in Nat
    BY <1>1
  <2> QED BY <1>1, <1>2, <1>4, <1>5, <2>1 DEF OnceInv, ReceivedInv
<1>9. AtMostOnce'
  BY <1>4 DEF OnceInv, AtMostOnce
<1> QED BY <1>6, <1>7, <1>8, <1>9 DEF OnceInv

(* PollTake reads a slot: the frame is in hand, and may still be there.     *)
LEMMA OnceTake == TypeOK /\ OnceInv /\ PollTake => OnceInv'
<1> SUFFICES ASSUME TypeOK, OnceInv, PollTake PROVE OnceInv'
  OBVIOUS
<1>1. cTail \in Nat /\ slots \in [0 .. Cap - 1 -> Nat]
  BY DEF TypeOK
<1>2. Idx(cTail) \in 0 .. Cap - 1
  BY <1>1, IdxInRange
<1>3. /\ cFrame' = slots[Idx(cTail)] /\ cpc' = "clear" /\ cTail' = cTail
      /\ slots' = slots /\ delivered' = delivered /\ Accepted' = Accepted
  BY DEF PollTake, producerVars, Accepted
<1>4. SlotsInv'
  BY <1>3 DEF OnceInv, SlotsInv
<1>5. HeldInv'
  BY <1>2, <1>3 DEF OnceInv, SlotsInv, HeldInv
<1>6. ReceivedInv'
  BY <1>2, <1>3 DEF OnceInv, ReceivedInv, InSlots
<1>7. AtMostOnce'
  BY <1>3 DEF OnceInv, AtMostOnce
<1> QED BY <1>4, <1>5, <1>6, <1>7 DEF OnceInv

(* PollClear empties the slot the frame in hand came from.                  *)
LEMMA OnceClear == TypeOK /\ OnceInv /\ PollClear => OnceInv'
<1> SUFFICES ASSUME TypeOK, OnceInv, PollClear PROVE OnceInv'
  OBVIOUS
<1>1. cTail \in Nat /\ slots \in [0 .. Cap - 1 -> Nat] /\ cFrame \in Nat
  BY DEF TypeOK
<1>2. Idx(cTail) \in 0 .. Cap - 1
  BY <1>1, IdxInRange
<1>3. /\ slots' = [slots EXCEPT ![Idx(cTail)] = Empty]
      /\ cFrame' = cFrame /\ cpc' = "advance" /\ cTail' = cTail
      /\ delivered' = delivered /\ Accepted' = Accepted
  BY DEF PollClear, producerVars, Accepted
<1>4. \A i \in 0 .. Cap - 1 :
        slots'[i] = IF i = Idx(cTail) THEN Empty ELSE slots[i]
  BY <1>1, <1>2, <1>3
<1>5. SlotsInv'
  BY <1>3, <1>4 DEF OnceInv, SlotsInv
<1>6. HeldInv'
  <2> SUFFICES ASSUME cFrame # Empty, NEW i \in 0 .. Cap - 1, slots'[i] = cFrame
               PROVE  FALSE
    BY <1>3 DEF OnceInv, HeldInv, InSlots
  <2>1. i # Idx(cTail) /\ slots[i] = cFrame
    BY <1>4
  <2>2. Idx(cFrame - 1) = i
    BY <2>1 DEF OnceInv, SlotsInv
  <2> QED BY <2>1, <2>2 DEF OnceInv, HeldInv
<1>7. ReceivedInv'
  BY <1>3, <1>4 DEF OnceInv, ReceivedInv, InSlots
<1>8. AtMostOnce'
  BY <1>3 DEF OnceInv, AtMostOnce
<1> QED BY <1>5, <1>6, <1>7, <1>8 DEF OnceInv

(* PollAdvance delivers the frame in hand, which is in no slot any more.    *)
LEMMA OnceAdvance == TypeOK /\ OnceInv /\ PollAdvance => OnceInv'
<1> SUFFICES ASSUME TypeOK, OnceInv, PollAdvance PROVE OnceInv'
  OBVIOUS
<1>1. cFrame \in Nat /\ delivered \in Seq(Nat)
  BY DEF TypeOK
<1>2. cpc = "advance" /\ slots' = slots /\ cFrame' = Empty /\ Accepted' = Accepted
  BY DEF PollAdvance, producerVars, Accepted
<1>3. SlotsInv' /\ HeldInv'
  BY <1>2 DEF OnceInv, SlotsInv, HeldInv
<1>4. CASE cFrame = Empty
  <2>1. delivered' = delivered
    BY <1>4 DEF PollAdvance
  <2>2. ReceivedInv'
    BY <1>2, <2>1 DEF OnceInv, ReceivedInv, InSlots
  <2>3. AtMostOnce'
    BY <2>1 DEF OnceInv, AtMostOnce
  <2> QED BY <1>3, <2>2, <2>3 DEF OnceInv
<1>5. CASE cFrame # Empty
  <2>1. delivered' = Append(delivered, cFrame)
    BY <1>5 DEF PollAdvance
  <2>2. /\ Len(delivered') = Len(delivered) + 1
        /\ Len(delivered) \in Nat
        /\ \A n \in 1 .. Len(delivered) : delivered'[n] = delivered[n]
        /\ delivered'[Len(delivered) + 1] = cFrame
    BY <1>1, <2>1
  <2>3. cFrame <= Accepted /\ ~InSlots(cFrame)
    BY <1>2, <1>5 DEF OnceInv, HeldInv
  <2>4. ReceivedInv'
    <3> SUFFICES ASSUME NEW n \in 1 .. Len(delivered) + 1
                 PROVE  /\ delivered'[n] # Empty /\ delivered'[n] <= Accepted
                        /\ ~InSlots(delivered'[n])
      BY <1>2, <2>2 DEF ReceivedInv, InSlots
    <3>1. CASE n = Len(delivered) + 1
      BY <1>5, <2>2, <2>3, <3>1
    <3>2. CASE n \in 1 .. Len(delivered)
      BY <2>2, <3>2 DEF OnceInv, ReceivedInv
    <3> QED BY <2>2, <3>1, <3>2
  <2>5. AtMostOnce'
    BY <2>2 DEF OnceInv, ReceivedInv, AtMostOnce
  <2> QED BY <1>3, <2>4, <2>5 DEF OnceInv
<1> QED BY <1>4, <1>5

(* Together: every step keeps a frame in one place.                         *)
LEMMA OnceStep == TypeOK /\ CursorInv /\ OnceInv /\ [Next]_vars => OnceInv'
<1> SUFFICES ASSUME TypeOK, CursorInv, OnceInv, [Next]_vars PROVE OnceInv'
  OBVIOUS
<1> USE DEF Accepted, consumerVars, producerVars
<1>1. CASE OfferBegin BY <1>1, OnceIdle DEF OfferBegin
<1>2. CASE OfferEvict BY <1>2, OnceIdle DEF OfferEvict
<1>3. CASE OfferCount BY <1>3, OnceIdle DEF OfferCount
<1>4. CASE OfferStore BY <1>4, OnceStore
<1>5. CASE OfferPublish
  <2>1. Accepted' = Accepted
    BY <1>5 DEF OfferPublish, CursorInv
  <2> QED BY <1>5, <2>1, OnceIdle DEF OfferPublish
<1>6. CASE PollTail BY <1>6, OnceIdle DEF PollTail, OnceInv, HeldInv
<1>7. CASE PollHead BY <1>7, OnceIdle DEF PollHead, OnceInv, HeldInv
<1>8. CASE PollTake BY <1>8, OnceTake
<1>9. CASE PollClear BY <1>9, OnceClear
<1>10. CASE PollAdvance BY <1>10, OnceAdvance
<1>11. CASE UNCHANGED vars BY <1>11, OnceIdle DEF vars
<1> QED
  BY <1>1, <1>2, <1>3, <1>4, <1>5, <1>6, <1>7, <1>8, <1>9, <1>10, <1>11
  DEF Next, Producer, OfferStep, Consumer

(* So no frame is in two places in any reachable state.                     *)
LEMMA Once == Spec => []OnceInv
BY OnceInit, Typing, Cursors, OnceStep, PTL DEF Spec

(* No frame is handed to the consumer twice, with any capacity and however  *)
(* the evictions of offer race with poll in FrameRing.java.                 *)
THEOREM NoDuplicates == Spec => []AtMostOnce
BY Once, PTL DEF OnceInv

(***************************************************************************)
(* Refinement                                                              *)
(***************************************************************************)

(* Every step of the ring is one of the lossy channel, or none.             *)
LEMMA RefineStep ==
  TypeOK /\ CursorInv /\ OnceInv /\ [Next]_vars => [Channel!Next]_(Channel!vars)
<1> SUFFICES ASSUME TypeOK, CursorInv, OnceInv, [Next]_vars
             PROVE  Channel!Next \/ UNCHANGED Channel!vars
  OBVIOUS
<1>0. /\ head \in Nat /\ cTail \in Nat /\ slots \in [0 .. Cap - 1 -> Nat]
      /\ cFrame \in Nat
  BY DEF TypeOK
<1> USE DEF consumerVars, producerVars, Channel!vars
<1>1. CASE OfferBegin \/ OfferEvict \/ OfferCount \/ OfferPublish \/ PollTail
           \/ PollHead \/ UNCHANGED vars
  <2>1. UNCHANGED <<slots, cFrame, delivered>>
    BY <1>1 DEF OfferBegin, OfferEvict, OfferCount, OfferPublish, PollTail,
                PollHead, vars
  <2>2. Accepted' = Accepted
    BY <1>1 DEF OfferBegin, OfferEvict, OfferCount, OfferPublish, PollTail,
                PollHead, vars, Accepted, CursorInv
  <2>3. Inside' = Inside
    BY <2>1, <2>2 DEF Inside, InSlots
  <2> QED BY <2>1, <2>2, <2>3
<1>2. CASE OfferStore
  <2>1. Accepted = head /\ Accepted' = head + 1 /\ pHead = head
    BY <1>2 DEF OfferStore, Accepted, CursorInv
  <2>2. Idx(pHead) \in 0 .. Cap - 1
    BY <1>0, <2>1, IdxInRange
  <2>3. slots' = [slots EXCEPT ![Idx(pHead)] = head + 1]
        /\ UNCHANGED <<cFrame, delivered>>
    BY <1>2, <2>1 DEF OfferStore
  <2>4. \A f : (InSlots(f))' => InSlots(f) \/ f = head + 1
    BY <1>0, <2>2, <2>3 DEF InSlots
  <2>5. Inside' \in SUBSET (Inside \union {Accepted + 1})
    BY <1>0, <2>1, <2>3, <2>4 DEF Inside
  <2> QED BY <2>1, <2>3, <2>5 DEF Channel!Next, Channel!Accept
<1>3. CASE PollTake
  <2>1. Idx(cTail) \in 0 .. Cap - 1
    BY <1>0, IdxInRange
  <2>2. /\ Accepted' = Accepted /\ slots' = slots /\ delivered' = delivered
        /\ cFrame' = slots[Idx(cTail)]
    BY <1>3 DEF PollTake, Accepted
  <2>3. Inside' \in SUBSET Inside
    BY <2>1, <2>2 DEF Inside, InSlots
  <2> QED BY <2>2, <2>3 DEF Channel!Next, Channel!Lose
<1>4. CASE PollClear
  <2>1. Idx(cTail) \in 0 .. Cap - 1
    BY <1>0, IdxInRange
  <2>2. /\ Accepted' = Accepted /\ delivered' = delivered /\ cFrame' = cFrame
        /\ slots' = [slots EXCEPT ![Idx(cTail)] = Empty]
    BY <1>4 DEF PollClear, Accepted
  <2>3. \A f : (InSlots(f))' => InSlots(f) \/ f = Empty
    BY <1>0, <2>1, <2>2 DEF InSlots
  <2>4. Accepted \in Nat
    BY <1>0 DEF Accepted
  <2>5. Inside' \in SUBSET Inside
    BY <2>2, <2>3, <2>4 DEF Inside
  <2> QED BY <2>2, <2>5 DEF Channel!Next, Channel!Lose
<1>5. CASE PollAdvance
  <2>1. /\ Accepted' = Accepted /\ slots' = slots /\ cFrame' = Empty
        /\ cpc = "advance"
    BY <1>5 DEF PollAdvance, Accepted
  <2>2. Accepted \in Nat
    BY <1>0 DEF Accepted
  <2>3. Inside' \in SUBSET (Inside \ {cFrame})
    <3> SUFFICES ASSUME NEW f \in 1 .. Accepted, InSlots(f)
                 PROVE  f \in Inside /\ f # cFrame
      BY <2>1, <2>2 DEF Inside, InSlots
    <3>1. f # cFrame
      BY <2>1, <2>2 DEF OnceInv, HeldInv
    <3> QED BY <3>1 DEF Inside
  <2>4. CASE cFrame = Empty
    <3>1. delivered' = delivered
      BY <1>5, <2>4 DEF PollAdvance
    <3> QED BY <2>1, <2>3, <3>1 DEF Channel!Next, Channel!Lose
  <2>5. CASE cFrame # Empty
    <3>1. cFrame \in Inside
      BY <1>0, <2>2, <2>5 DEF Inside, OnceInv, HeldInv
    <3>2. delivered' = Append(delivered, cFrame)
      BY <1>5, <2>5 DEF PollAdvance
    <3> QED BY <2>1, <2>3, <3>1, <3>2 DEF Channel!Next, Channel!Deliver
  <2> QED BY <2>4, <2>5
<1> QED
  BY <1>1, <1>2, <1>3, <1>4, <1>5 DEF Next, Producer, OfferStep, Consumer

(* offer and poll of FrameRing.java, interleaved at every access, implement *)
(* the at-most-once channel: a frame comes out once or not at all.          *)
THEOREM RefinesChannel == Spec => ImplementsLossyChannel
<1>1. Init => Channel!Init
  BY CapAssumption DEF Init, Channel!Init, Accepted, Inside, InSlots
<1> QED
  BY <1>1, Typing, Cursors, Once, RefineStep, PTL
  DEF Spec, ImplementsLossyChannel, Channel!Spec

(***************************************************************************)
(* Exactness                                                               *)
(***************************************************************************)

Counting == IF ppc = "count" THEN 1 ELSE 0

(* Until an eviction falls inside a poll, the positions from tail to head   *)
(* are a window of at most Cap slots that hold the frames stored there, and *)
(* the poll under way works on the position tail still points at.           *)
CursorsExact ==
  /\ head - tail <= Cap
  /\ ppc = "evict" => pTail <= tail /\ head - pTail <= Cap
  /\ ppc \in {"count", "store", "publish"} => head - tail < Cap
  /\ cpc # "idle" => cTail = tail
  /\ cpc \in {"clear", "advance"} => cFrame = tail + 1

WindowExact ==
  \A p \in Nat :
    tail <= p /\ p < Accepted /\ (cpc = "advance" => p # tail) =>
      slots[Idx(p)] = p + 1

DeliveriesExact ==
  /\ Len(delivered) + drops + Counting = tail
  /\ \A n \in 1 .. Len(delivered) : delivered[n] <= tail
  /\ InOrder
  /\ drops = 0 /\ ppc # "count" => delivered = [i \in 1 .. tail |-> i]

ExactInv ==
  /\ raced => drops > 0 \/ ppc = "count"
  /\ ~raced => CursorsExact /\ WindowExact /\ DeliveriesExact

(* The exact account holds of the empty ring.                               *)
LEMMA ExactInit == Init => ExactInv
<1> SUFFICES ASSUME Init PROVE ExactInv
  OBVIOUS
<1>1. CursorsExact /\ WindowExact
  BY CapAssumption DEF Init, CursorsExact, WindowExact, Accepted
<1>2. delivered = [i \in 1 .. tail |-> i]
  BY DEF Init
<1>3. DeliveriesExact
  BY <1>2 DEF Init, DeliveriesExact, InOrder, Counting
<1> QED BY <1>1, <1>3 DEF Init, ExactInv

(* A step that leaves the cursors and slots alone keeps the window exact.   *)
LEMMA WindowKept ==
  ASSUME WindowExact, UNCHANGED slots, Accepted' = Accepted, tail' = tail,
         cpc = "advance" => cpc' = "advance"
  PROVE  WindowExact'
BY DEF WindowExact

(* A step that delivers nothing keeps the deliveries exact.                 *)
LEMMA DeliveriesKept ==
  ASSUME DeliveriesExact, UNCHANGED <<tail, drops, delivered>>,
         ppc' = "count" <=> ppc = "count"
  PROVE  DeliveriesExact'
BY DEF DeliveriesExact, Counting, InOrder

(* Until an eviction falls inside a poll, every step keeps the account.     *)
LEMMA ExactStep == TypeOK /\ CursorInv /\ ExactInv /\ [Next]_vars => ExactInv'
<1> SUFFICES ASSUME TypeOK, CursorInv, ExactInv, [Next]_vars PROVE ExactInv'
  OBVIOUS
<1>0. /\ head \in Nat /\ tail \in Nat /\ drops \in Nat /\ pHead \in Nat
      /\ pTail \in Nat /\ cTail \in Nat /\ cFrame \in Nat
      /\ slots \in [0 .. Cap - 1 -> Nat] /\ delivered \in Seq(Nat)
      /\ Cap \in Nat /\ Cap >= 2
  BY CapAssumption DEF TypeOK
<1> USE DEF consumerVars, producerVars, ExactInv
<1>1. CASE OfferBegin
  <2>1. raced' = raced /\ drops' = drops /\ ppc = "idle" /\ ppc' \in {"evict", "store"}
    BY <1>1 DEF OfferBegin
  <2>2. ASSUME ~raced PROVE CursorsExact'
    BY <1>0, <1>1, <2>2 DEF OfferBegin, CursorsExact
  <2>3. ASSUME ~raced PROVE WindowExact' /\ DeliveriesExact'
    BY <1>1, <2>1, <2>3, WindowKept, DeliveriesKept DEF OfferBegin, Accepted
  <2> QED BY <2>1, <2>2, <2>3
<1>2. CASE OfferEvict
  <2>1. CASE tail = pTail
    <3>1. tail' = tail + 1 /\ ppc' = "count" /\ drops' = drops
          /\ UNCHANGED <<head, slots, pHead, pTail, cpc, cTail, cFrame, delivered>>
      BY <1>2, <2>1 DEF OfferEvict
    <3>2. ASSUME ~raced' PROVE ~raced /\ cpc = "idle"
      BY <1>2, <2>1, <3>2 DEF OfferEvict, PollUnderWay
    <3>3. ASSUME ~raced' PROVE CursorsExact'
      BY <1>0, <1>2, <2>1, <3>1, <3>2, <3>3 DEF CursorsExact, OfferEvict
    <3>4. ASSUME ~raced' PROVE WindowExact'
      BY <1>0, <1>2, <3>1, <3>2, <3>4 DEF WindowExact, Accepted, OfferEvict
    <3>5. ASSUME ~raced' PROVE DeliveriesExact'
      <4>1. \A n \in 1 .. Len(delivered) : delivered[n] \in Nat
        BY <1>0
      <4>2. ppc # "count" /\ DeliveriesExact
        BY <1>2, <3>2, <3>5 DEF OfferEvict
      <4>3. Len(delivered) + drops + 1 = tail + 1
        BY <1>0, <4>2 DEF DeliveriesExact, Counting
      <4>4. \A n \in 1 .. Len(delivered) : delivered[n] <= tail + 1
        BY <1>0, <4>1, <4>2 DEF DeliveriesExact
      <4>5. InOrder'
        BY <3>1, <4>2 DEF DeliveriesExact, InOrder
      <4> QED BY <3>1, <4>3, <4>4, <4>5 DEF DeliveriesExact, Counting
    <3> QED BY <3>1, <3>3, <3>4, <3>5
  <2>2. CASE tail # pTail
    <3>1. ppc' = "store"
          /\ UNCHANGED <<head, tail, drops, raced, slots, pHead, pTail, cpc,
                         cTail, cFrame, delivered>>
      BY <1>2, <2>2 DEF OfferEvict
    <3>2. ASSUME ~raced PROVE CursorsExact'
      BY <1>0, <1>2, <2>2, <3>1, <3>2 DEF CursorsExact, OfferEvict
    <3>3. ASSUME ~raced PROVE WindowExact' /\ DeliveriesExact'
      BY <1>2, <3>1, <3>3, WindowKept, DeliveriesKept DEF OfferEvict, Accepted
    <3> QED BY <1>2, <3>1, <3>2, <3>3 DEF OfferEvict
  <2> QED BY <2>1, <2>2
<1>3. CASE OfferCount
  <2>1. drops' = drops + 1 /\ ppc = "count" /\ ppc' = "store"
        /\ UNCHANGED <<head, tail, raced, slots, pHead, pTail, cpc, cTail,
                       cFrame, delivered>>
    BY <1>3 DEF OfferCount
  <2>2. ASSUME ~raced PROVE CursorsExact' /\ WindowExact'
    BY <2>1, <2>2, WindowKept DEF CursorsExact, Accepted
  <2>3. ASSUME ~raced PROVE DeliveriesExact'
    BY <1>0, <2>1, <2>3 DEF DeliveriesExact, Counting, InOrder
  <2> QED BY <1>0, <2>1, <2>2, <2>3
<1>4. CASE OfferStore
  <2>1. /\ pHead = head /\ ppc = "store" /\ ppc' = "publish"
        /\ slots' = [slots EXCEPT ![Idx(head)] = head + 1]
        /\ UNCHANGED <<head, tail, drops, raced, pHead, pTail, cpc, cTail,
                       cFrame, delivered>>
        /\ Accepted = head /\ Accepted' = head + 1
    BY <1>4 DEF OfferStore, CursorInv, Accepted
  <2>2. Idx(head) \in 0 .. Cap - 1
    BY <1>0, IdxInRange
  <2>3. ASSUME ~raced PROVE CursorsExact' /\ DeliveriesExact'
    BY <2>1, <2>3, DeliveriesKept DEF CursorsExact
  <2>4. ASSUME ~raced PROVE WindowExact'
    <3> SUFFICES ASSUME NEW p \in Nat, tail <= p, p < head + 1,
                        cpc = "advance" => p # tail
                 PROVE  slots'[Idx(p)] = p + 1
      BY <2>1 DEF WindowExact
    <3>1. CASE p = head
      BY <1>0, <2>1, <2>2, <3>1
    <3>2. CASE p < head
      <4>1. head < p + Cap
        BY <1>0, <2>1, <2>4, <3>2 DEF CursorsExact
      <4>2. Idx(p) # Idx(head) /\ Idx(p) \in 0 .. Cap - 1
        BY <1>0, <3>2, <4>1, IdxDistinct, IdxInRange
      <4>3. slots[Idx(p)] = p + 1
        BY <2>1, <2>4, <3>2 DEF WindowExact
      <4> QED BY <1>0, <2>1, <4>2, <4>3
    <3> QED BY <1>0, <3>1, <3>2
  <2> QED BY <2>1, <2>3, <2>4
<1>5. CASE OfferPublish
  <2>1. /\ pHead = head /\ ppc = "publish" /\ ppc' = "idle" /\ head' = head + 1
        /\ UNCHANGED <<tail, drops, raced, slots, pHead, pTail, cpc, cTail,
                       cFrame, delivered>>
    BY <1>5 DEF OfferPublish, CursorInv
  <2>2. Accepted' = Accepted
    BY <2>1 DEF Accepted
  <2>3. ASSUME ~raced PROVE CursorsExact'
    BY <1>0, <2>1, <2>3 DEF CursorsExact
  <2>4. ASSUME ~raced PROVE WindowExact' /\ DeliveriesExact'
    BY <2>1, <2>2, <2>4, WindowKept, DeliveriesKept
  <2> QED BY <2>1, <2>3, <2>4
<1>6. CASE PollTail
  <2>1. /\ cTail' = tail /\ cpc = "idle" /\ cpc' = "head"
        /\ UNCHANGED <<head, tail, drops, raced, slots, ppc, pHead, pTail,
                       cFrame, delivered>>
    BY <1>6 DEF PollTail
  <2> QED BY <2>1, WindowKept, DeliveriesKept DEF CursorsExact, Accepted
<1>7. CASE PollHead
  <2>1. /\ cpc = "head" /\ cpc' \in {"idle", "take"} /\ cTail' = cTail
        /\ UNCHANGED <<head, tail, drops, raced, slots, ppc, pHead, pTail,
                       cFrame, delivered>>
    BY <1>7 DEF PollHead
  <2> QED BY <2>1, WindowKept, DeliveriesKept DEF CursorsExact, Accepted
<1>8. CASE PollTake
  <2>1. /\ cpc = "take" /\ cpc' = "clear" /\ cFrame' = slots[Idx(cTail)]
        /\ UNCHANGED <<head, tail, drops, raced, slots, ppc, pHead, pTail,
                       cTail, delivered>>
    BY <1>8 DEF PollTake
  <2>2. ASSUME ~raced PROVE slots[Idx(tail)] = tail + 1 /\ cTail = tail
    <3>1. cTail = tail /\ tail < head
      BY <2>1, <2>2 DEF CursorsExact, CursorInv
    <3>2. tail < Accepted
      BY <1>0, <3>1 DEF Accepted
    <3> QED BY <1>0, <2>1, <2>2, <3>1, <3>2 DEF WindowExact
  <2>3. ASSUME ~raced PROVE CursorsExact'
    BY <2>1, <2>2, <2>3 DEF CursorsExact
  <2>4. ASSUME ~raced PROVE WindowExact' /\ DeliveriesExact'
    BY <2>1, <2>4, WindowKept, DeliveriesKept DEF Accepted
  <2> QED BY <2>1, <2>3, <2>4
<1>9. CASE PollClear
  <2>1. /\ cpc = "clear" /\ cpc' = "advance"
        /\ slots' = [slots EXCEPT ![Idx(cTail)] = Empty]
        /\ UNCHANGED <<head, tail, drops, raced, ppc, pHead, pTail, cTail,
                       cFrame, delivered>>
    BY <1>9 DEF PollClear
  <2>2. ASSUME ~raced PROVE CursorsExact' /\ DeliveriesExact'
    BY <2>1, <2>2, DeliveriesKept DEF CursorsExact
  <2>3. ASSUME ~raced PROVE WindowExact'
    <3>1. Accepted' = Accepted /\ Accepted \in Nat
      BY <1>0, <2>1 DEF Accepted
    <3>2. cTail = tail /\ Accepted <= tail + Cap
      BY <1>0, <2>1, <2>3 DEF CursorsExact, Accepted
    <3> SUFFICES ASSUME NEW p \in Nat, tail < p, p < Accepted
                 PROVE  slots'[Idx(p)] = p + 1
      BY <1>0, <2>1, <3>1 DEF WindowExact
    <3>0. tail < p /\ p < tail + Cap
      BY <1>0, <3>1, <3>2
    <3>3. Idx(p) # Idx(tail) /\ Idx(p) \in 0 .. Cap - 1
      BY <1>0, <3>0, IdxDistinct, IdxInRange
    <3>4. slots[Idx(p)] = p + 1
      BY <1>0, <2>1, <2>3 DEF WindowExact
    <3> QED BY <1>0, <2>1, <3>2, <3>3, <3>4
  <2> QED BY <2>1, <2>2, <2>3
<1>10. CASE PollAdvance
  <2>1. /\ cpc = "advance" /\ cpc' = "idle" /\ tail' = cTail + 1
        /\ UNCHANGED <<head, drops, raced, slots, ppc, pHead, pTail>>
    BY <1>10 DEF PollAdvance
  <2>2. ASSUME ~raced PROVE ExactInv'
    <3>1. cTail = tail /\ cFrame = tail + 1 /\ tail' = tail + 1
      BY <2>1, <2>2 DEF CursorsExact
    <3>2. delivered' = Append(delivered, tail + 1)
      BY <1>0, <1>10, <3>1 DEF PollAdvance
    <3>3. CursorsExact'
      BY <1>0, <2>1, <2>2, <3>1 DEF CursorsExact
    <3>4. WindowExact'
      BY <1>0, <2>1, <2>2, <3>1 DEF WindowExact, Accepted
    <3>5. /\ Len(delivered') = Len(delivered) + 1
          /\ Len(delivered) \in Nat
          /\ \A n \in 1 .. Len(delivered) :
               delivered'[n] = delivered[n] /\ delivered[n] \in Nat
          /\ delivered'[Len(delivered) + 1] = tail + 1
      BY <1>0, <3>2
    <3>6. InOrder' /\ \A n \in 1 .. Len(delivered') : delivered'[n] <= tail'
      <4>1. \A n \in 1 .. Len(delivered) : delivered'[n] <= tail
        BY <2>2, <3>5 DEF DeliveriesExact
      <4>2. ASSUME NEW n \in 1 .. Len(delivered') PROVE delivered'[n] <= tail + 1
        <5>1. CASE n = Len(delivered) + 1
          BY <1>0, <3>5, <5>1
        <5>2. CASE n \in 1 .. Len(delivered)
          <6>1. delivered'[n] <= tail /\ delivered'[n] \in Nat
            BY <3>5, <4>1, <5>2
          <6> QED BY <1>0, <6>1
        <5> QED BY <3>5, <5>1, <5>2
      <4>3. ASSUME NEW i \in 1 .. Len(delivered'), NEW j \in 1 .. Len(delivered'), i < j
            PROVE  delivered'[i] < delivered'[j]
        <5>1. i \in 1 .. Len(delivered)
          BY <3>5, <4>3
        <5>2. CASE j = Len(delivered) + 1
          BY <1>0, <3>5, <4>1, <5>1, <5>2
        <5>3. CASE j \in 1 .. Len(delivered)
          BY <2>2, <3>5, <4>3, <5>1, <5>3 DEF DeliveriesExact, InOrder
        <5> QED BY <3>5, <5>2, <5>3
      <4> QED BY <3>1, <4>2, <4>3 DEF InOrder
    <3>7. ASSUME drops = 0, ppc # "count"
          PROVE  delivered' = [i \in 1 .. tail + 1 |-> i]
      <4>1. delivered = [i \in 1 .. tail |-> i] /\ Len(delivered) = tail
        BY <1>0, <2>2, <3>5, <3>7 DEF DeliveriesExact, Counting
      <4>2. \A i \in 1 .. tail + 1 : delivered'[i] = i
        BY <1>0, <3>5, <4>1
      <4>3. delivered' \in Seq(Nat) /\ Len(delivered') = tail + 1
        BY <1>0, <3>2, <3>5, <4>1
      <4>4. delivered' = [i \in 1 .. Len(delivered') |-> delivered'[i]]
        BY <4>3
      <4> QED BY <4>2, <4>3, <4>4
    <3>8. DeliveriesExact'
      <4>1. Len(delivered') + drops' + Counting' = tail'
        BY <1>0, <2>1, <2>2, <3>1, <3>5 DEF DeliveriesExact, Counting
      <4> QED BY <2>1, <3>1, <3>6, <3>7, <4>1 DEF DeliveriesExact
    <3> QED BY <2>1, <2>2, <3>3, <3>4, <3>8
  <2> QED BY <2>1, <2>2
<1>11. CASE UNCHANGED vars
  BY <1>11 DEF vars, CursorsExact, WindowExact, DeliveriesExact, InOrder,
               Counting, Accepted
<1> QED
  BY <1>1, <1>2, <1>3, <1>4, <1>5, <1>6, <1>7, <1>8, <1>9, <1>10, <1>11
  DEF Next, Producer, OfferStep, Consumer

(* Until an eviction of offer falls inside a poll, the ring keeps order and *)
(* capacity and accounts for every frame; and while it has evicted nothing, *)
(* what poll returned is exactly the frames offered first.                  *)
THEOREM Exact == Spec => [](ExactUnlessRaced /\ FifoUntilFull)
<1>1. TypeOK /\ ExactInv => ExactUnlessRaced /\ FifoUntilFull
  <2> SUFFICES ASSUME TypeOK, ExactInv PROVE ExactUnlessRaced /\ FifoUntilFull
    OBVIOUS
  <2>1. head \in Nat /\ tail \in Nat /\ drops \in Nat /\ Len(delivered) \in Nat
    BY DEF TypeOK
  <2>2. ExactUnlessRaced
    BY <2>1 DEF ExactInv, ExactUnlessRaced, CursorsExact, DeliveriesExact, Counting
  <2>3. FifoUntilFull
    BY <2>1 DEF ExactInv, FifoUntilFull, DeliveriesExact
  <2> QED BY <2>2, <2>3
<1> QED BY <1>1, Typing, Cursors, ExactInit, ExactStep, PTL DEF Spec

(* Until the ring first overflows, what poll returned is exactly the frames *)
(* offered first, in order.                                                 *)
THEOREM FifoBeforeOverflow == Spec => []FifoUntilFull
BY Exact, PTL
=============================================================================
