-------------------------- MODULE Recording_proofs --------------------------
(***************************************************************************)
(* Proofs about Recording for every size of a drain and of a frame, every   *)
(* number of frames and any number of failing writes.                       *)
(*                                                                         *)
(*   Typing           TypeOK                                                *)
(*   ClosedIsExact    CloseCountsAll                                        *)
(*   LossIsBounded    FewLost                                               *)
(*   HeaderIsHonest   NeverOverclaims                                       *)
(*   ReadersGetWhatWasCounted   ReadsWhatWasCounted                         *)
(*   TornFilesAreRefused        TearsAreNoticed                             *)
(***************************************************************************)
EXTENDS Recording, SequenceTheorems, TLAPS

(***************************************************************************)
(* Sequences                                                               *)
(***************************************************************************)

(* The elements from m to n.                                               *)
LEMMA SubSeqElements ==
  ASSUME NEW S, NEW s \in Seq(S), NEW m \in 1 .. Len(s) + 1,
         NEW n \in m - 1 .. Len(s)
  PROVE  /\ SubSeq(s, m, n) \in Seq(S)
         /\ Len(SubSeq(s, m, n)) = n - m + 1
         /\ \A k \in 1 .. n - m + 1 : SubSeq(s, m, n)[k] = s[m + k - 1]
<1>1. m \in Int /\ n \in Int /\ Len(s) \in Nat
  BY LenProperties
<1>2. \A i \in m .. n : s[i] \in S
  BY <1>1, ElementOfSeq
<1>3. IF m <= n THEN n - m + 1 = n - m + 1 ELSE 0 = n - m + 1
  BY <1>1
<1> QED BY <1>1, <1>2, <1>3, SubSeqProperties

(* A sequence is its first n elements and the rest.                         *)
IsFront(front, n, t) ==
  /\ Len(front) = n
  /\ \A k \in 1 .. n : front[k] = t[k]

IsRest(rest, n, t) ==
  /\ Len(rest) = Len(t) - n
  /\ \A k \in 1 .. Len(t) - n : rest[k] = t[n + k]

(* SubSeq gives the two.                                                    *)
LEMMA SplitIn ==
  ASSUME NEW S, NEW t \in Seq(S), NEW n \in 0 .. Len(t)
  PROVE  /\ SubSeq(t, 1, n) \in Seq(S)
         /\ IsFront(SubSeq(t, 1, n), n, t)
         /\ SubSeq(t, n + 1, Len(t)) \in Seq(S)
         /\ IsRest(SubSeq(t, n + 1, Len(t)), n, t)
<1>1. Len(t) \in Nat /\ n \in Nat /\ n - 1 + 1 = n
      /\ Len(t) - (n + 1) + 1 = Len(t) - n
  BY LenProperties
<1>2. SubSeq(t, 1, n) \in Seq(S) /\ IsFront(SubSeq(t, 1, n), n, t)
  <2>1. 1 \in 1 .. Len(t) + 1 /\ n \in 1 - 1 .. Len(t)
    BY <1>1
  <2>2. \A k \in 1 .. n : 1 + k - 1 = k
    OBVIOUS
  <2> QED BY <1>1, <2>1, <2>2, SubSeqElements DEF IsFront
<1>3. /\ SubSeq(t, n + 1, Len(t)) \in Seq(S)
      /\ IsRest(SubSeq(t, n + 1, Len(t)), n, t)
  <2>1. n + 1 \in 1 .. Len(t) + 1 /\ Len(t) \in (n + 1) - 1 .. Len(t)
    BY <1>1
  <2>2. /\ SubSeq(t, n + 1, Len(t)) \in Seq(S)
        /\ Len(SubSeq(t, n + 1, Len(t))) = Len(t) - (n + 1) + 1
        /\ \A k \in 1 .. Len(t) - (n + 1) + 1 :
             SubSeq(t, n + 1, Len(t))[k] = t[(n + 1) + k - 1]
    BY <2>1, SubSeqElements
  <2>3. \A k \in 1 .. Len(t) - n : (n + 1) + k - 1 = n + k
    BY <1>1
  <2> QED BY <1>1, <2>2, <2>3 DEF IsRest
<1> QED BY <1>2, <1>3

(***************************************************************************)
(* Typing                                                                  *)
(***************************************************************************)

(* What is in the file and what was counted came from the ring, so the      *)
(* counters are no greater than the number of frames polled.                *)
CountInv ==
  /\ frameCount = Len(counted)
  /\ Len(counted) + Held <= polled
  /\ header <= frameCount
  /\ Held = 1 => drained < DrainMax

(* Appending units of the frame in hand keeps the file's type.              *)
LEMMA PutTyped ==
  ASSUME TypeOK, CountInv, drainPc = "writing",
         NEW k \in 0 .. Units - written, Put(k)
  PROVE  /\ disk' \in Seq((1 .. MaxFrames) \X (1 .. Units))
         /\ Len(disk') = Len(disk) + k
<1> DEFINE more == [i \in 1 .. k |-> <<InHand, written + i>>]
           Unit == (1 .. MaxFrames) \X (1 .. Units)
<1>1. polled \in 1 .. MaxFrames /\ k \in Nat
  BY RecordingAssumption, SMT DEF TypeOK, CountInv, Held
<1>2. \A i \in 1 .. k : <<InHand, written + i>> \in Unit
  <2> SUFFICES ASSUME NEW i \in 1 .. k PROVE <<InHand, written + i>> \in Unit
    OBVIOUS
  <2>1. written + i \in 1 .. Units
    BY RecordingAssumption, SMT DEF TypeOK
  <2> QED BY <1>1, <2>1 DEF InHand
<1>3. more \in Seq(Unit) /\ Len(more) = k
  BY <1>1, <1>2, SMT
<1>4. disk \in Seq(Unit) /\ disk' = disk \o more
  BY DEF TypeOK, Put
<1> HIDE DEF more, Unit
<1>5. disk' \in Seq(Unit) /\ Len(disk') = Len(disk) + k
  BY <1>3, <1>4, ConcatProperties
<1> QED BY <1>5 DEF Unit

(* The counters, the monitor and the file at the start.                     *)
LEMMA TypingInit == Init => TypeOK /\ CountInv
<1> SUFFICES ASSUME Init PROVE TypeOK /\ CountInv
  OBVIOUS
<1>1. /\ ui \in BOOLEAN /\ running \in BOOLEAN
      /\ stopping \in BOOLEAN /\ interrupted \in BOOLEAN
      /\ open \in BOOLEAN /\ closed \in BOOLEAN
  BY Zenon DEF Init
<1>2. /\ disk \in Seq((1 .. MaxFrames) \X (1 .. Units))
      /\ counted \in Seq(1 .. MaxFrames) /\ Len(counted) = 0
  BY EmptySeq DEF Init
<1>3. CountInv
  BY <1>2 DEF Init, CountInv, Held
<1> QED BY <1>1, <1>2, <1>3, RecordingAssumption DEF Init, TypeOK

(* Every step keeps the types and the order of the counters.                *)
LEMMA TypingStep == TypeOK /\ CountInv /\ [Next]_vars => TypeOK' /\ CountInv'
<1> SUFFICES ASSUME TypeOK, CountInv, [Next]_vars PROVE TypeOK' /\ CountInv'
  OBVIOUS
<1> USE RecordingAssumption DEF TypeOK, CountInv, Held, reader, writer, drain
<1>1. CASE Offer BY <1>1 DEF Offer
<1>2. CASE DrainBegin BY <1>2 DEF DrainBegin
<1>3. CASE DrainEnd BY <1>3 DEF DrainEnd
<1>4. CASE DrainPoll BY <1>4 DEF DrainPoll, Poll
<1>5. CASE WriteEnter BY <1>5 DEF WriteEnter, Enter
<1>6. CASE WriteRefused
  BY <1>6 DEF WriteRefused, Throw, LeaveWrite, DrainFails
<1>7. CASE WriteSome
  BY <1>7, PutTyped DEF WriteSome, WriteDone
<1>8. CASE WriteReturn
  <2>1. /\ counted' \in Seq(1 .. MaxFrames)
        /\ Len(counted') = Len(counted) + 1
        /\ Len(counted) + 1 <= polled
    BY <1>8 DEF WriteReturn, InHand
  <2>2. drained' \in 0 .. DrainMax
    BY <1>8 DEF WriteReturn
  <2> QED BY <1>8, <2>1, <2>2 DEF WriteReturn, LeaveWrite
<1>9. CASE WriteFault
  BY <1>9 DEF WriteFault, Throw, LeaveWrite, DrainFails
<1>10. CASE WriteInterrupted
  <2>1. PICK k \in 0 .. Units - written : Put(k) /\ written' = written + k
    BY <1>10 DEF WriteInterrupted
  <2>2. disk' \in Seq((1 .. MaxFrames) \X (1 .. Units))
    BY <1>10, <2>1, PutTyped DEF WriteInterrupted
  <2>3. open' \in BOOLEAN
    BY <1>10, Zenon DEF WriteInterrupted
  <2> QED
    BY <1>10, <2>1, <2>2, <2>3
    DEF WriteInterrupted, Throw, LeaveWrite, DrainFails
<1>11. CASE Shutdown BY <1>11 DEF Shutdown
<1>12. CASE CloseEnter BY <1>12 DEF CloseEnter
<1>13. CASE CloseHeader BY <1>13 DEF CloseHeader
<1>14. CASE CloseRefused BY <1>14 DEF CloseRefused
<1>15. CASE CloseChannel BY <1>15 DEF CloseChannel
<1>16. CASE Kill
  <2>1. running' \in BOOLEAN
    BY <1>16, Zenon DEF Kill
  <2> QED BY <1>16, <2>1 DEF Kill
<1>17. CASE UNCHANGED vars BY <1>17 DEF vars
<1> QED
  BY <1>1, <1>2, <1>3, <1>4, <1>5, <1>6, <1>7, <1>8, <1>9, <1>10, <1>11,
     <1>12, <1>13, <1>14, <1>15, <1>16, <1>17
  DEF Next, Drain, Close

(* Every variable keeps its type, for any sizes and number of faults.       *)
THEOREM Typing == Spec => []TypeOK
BY TypingInit, TypingStep, PTL DEF Spec

(***************************************************************************)
(* The monitor                                                             *)
(***************************************************************************)

(* Who holds the monitor, and what an interrupt or a closed channel says    *)
(* of the closing thread.                                                   *)
MonitorInv ==
  /\ drainPc \in {"writing", "counting"} <=> lock = "drain"
  /\ closePc \in {"header", "channel"} <=> lock = "close"
  /\ closePc # "waiting" => stopping
  /\ closePc # "waiting" /\ drainPc # "idle" => ui
  /\ interrupted \/ closed \/ ~open => closePc # "waiting"

(* What the header says from the moment it is rewritten: the closing thread *)
(* has the monitor, or the writer is closed, so no frame is being counted.  *)
ClosedInv ==
  /\ closePc = "channel" => header = frameCount
  /\ closed => /\ header = frameCount
               /\ closePc = "done"
               /\ drainPc # "counting"

(* Every step of the two threads keeps both.                                *)
LEMMA MonitorStep ==
  TypeOK /\ MonitorInv /\ ClosedInv /\ [Next]_vars
    => MonitorInv' /\ ClosedInv'
<1> SUFFICES ASSUME TypeOK, MonitorInv, ClosedInv, [Next]_vars
             PROVE  MonitorInv' /\ ClosedInv'
  OBVIOUS
<1> USE DEF MonitorInv, ClosedInv, reader, writer, drain
<1>0. /\ ui \in BOOLEAN /\ stopping \in BOOLEAN /\ interrupted \in BOOLEAN
      /\ open \in BOOLEAN /\ closed \in BOOLEAN
  BY DEF TypeOK
<1>1. CASE Offer BY <1>1 DEF Offer
<1>2. CASE DrainBegin BY <1>2 DEF DrainBegin
<1>3. CASE DrainEnd BY <1>3 DEF DrainEnd
<1>4. CASE DrainPoll BY <1>4 DEF DrainPoll, Poll
<1>5. CASE WriteEnter BY <1>5 DEF WriteEnter, Enter
<1>6. CASE WriteRefused
  BY <1>6 DEF WriteRefused, Throw, LeaveWrite, DrainFails
<1>7. CASE WriteSome BY <1>7 DEF WriteSome
<1>8. CASE WriteReturn BY <1>8 DEF WriteReturn, LeaveWrite
<1>9. CASE WriteFault
  BY <1>9 DEF WriteFault, Throw, LeaveWrite, DrainFails
<1>10. CASE WriteInterrupted
  BY <1>10
  DEF WriteInterrupted, Throw, LeaveWrite, DrainFails
<1>11. CASE Shutdown BY <1>11 DEF Shutdown
<1>12. CASE CloseEnter BY <1>12 DEF CloseEnter
<1>13. CASE CloseHeader BY <1>13 DEF CloseHeader
<1>14. CASE CloseRefused BY <1>14 DEF CloseRefused
<1>15. CASE CloseChannel BY <1>15 DEF CloseChannel
<1>16. CASE Kill BY <1>16 DEF Kill
<1>17. CASE UNCHANGED vars BY <1>17 DEF vars
<1> QED
  BY <1>1, <1>2, <1>3, <1>4, <1>5, <1>6, <1>7, <1>8, <1>9, <1>10, <1>11,
     <1>12, <1>13, <1>14, <1>15, <1>16, <1>17
  DEF Next, Drain, Close

(* So they hold in every reachable state.                                   *)
LEMMA Monitor == Spec => [](MonitorInv /\ ClosedInv)
<1>1. Init => MonitorInv /\ ClosedInv
  BY DEF Init, MonitorInv, ClosedInv
<1> QED BY <1>1, Typing, MonitorStep, PTL DEF Spec

(* A writer that is closed has put the number of frames it counted into the *)
(* header, however write and close raced (synchronized, ZcmWriter.java:38). *)
THEOREM ClosedIsExact == Spec => []CloseCountsAll
<1>1. CountInv /\ ClosedInv => CloseCountsAll
  BY DEF CountInv, ClosedInv, CloseCountsAll
<1> QED BY <1>1, TypingInit, TypingStep, Monitor, PTL DEF Spec

(***************************************************************************)
(* Losses                                                                  *)
(***************************************************************************)

(* The shutdown cuts off one frame at most, and with it the last drain.     *)
LossInv ==
  polled - Len(counted) - Held <=
    faults + (IF drainPc = "idle" /\ ui /\ stopping THEN 1 ELSE 0)

(* Each step loses no frame but by a fault or as the shutdown's one.        *)
LEMMA LossStep ==
  TypeOK /\ CountInv /\ MonitorInv /\ LossInv /\ [Next]_vars => LossInv'
<1> SUFFICES ASSUME TypeOK, CountInv, MonitorInv, LossInv, [Next]_vars
             PROVE  LossInv'
  OBVIOUS
<1>0. /\ polled \in Nat /\ Len(counted) \in Nat /\ faults \in Nat
      /\ counted \in Seq(1 .. MaxFrames)
  BY RecordingAssumption DEF TypeOK
<1> USE <1>0 DEF LossInv, Held, reader, writer, drain
<1>1. CASE Offer BY <1>1 DEF Offer
<1>2. CASE DrainBegin BY <1>2 DEF DrainBegin
<1>3. CASE DrainEnd BY <1>3 DEF DrainEnd
<1>4. CASE DrainPoll BY <1>4 DEF DrainPoll, Poll
<1>5. CASE WriteEnter BY <1>5 DEF WriteEnter
<1>6. CASE WriteRefused
  <2>1. ui /\ stopping /\ stopping'
    BY <1>6 DEF WriteRefused, Throw, DrainFails, MonitorInv
  <2> QED BY <1>6, <2>1 DEF WriteRefused, Throw, DrainFails
<1>7. CASE WriteSome BY <1>7 DEF WriteSome
<1>8. CASE WriteReturn
  <2>1. Len(counted') = Len(counted) + 1
    BY <1>8 DEF WriteReturn
  <2> QED BY <1>8, <2>1 DEF WriteReturn
<1>9. CASE WriteFault BY <1>9 DEF WriteFault, Throw, DrainFails
<1>10. CASE WriteInterrupted
  <2>1. ui /\ stopping /\ stopping'
    BY <1>10 DEF WriteInterrupted, Throw, DrainFails, MonitorInv
  <2> QED BY <1>10, <2>1 DEF WriteInterrupted, Throw, DrainFails
<1>11. CASE Shutdown BY <1>11 DEF Shutdown
<1>12. CASE Close
  BY <1>12 DEF Close, CloseEnter, CloseHeader, CloseRefused, CloseChannel
<1>13. CASE Kill BY <1>13 DEF Kill
<1>14. CASE UNCHANGED vars BY <1>14 DEF vars
<1> QED
  BY <1>1, <1>2, <1>3, <1>4, <1>5, <1>6, <1>7, <1>8, <1>9, <1>10, <1>11,
     <1>12, <1>13, <1>14
  DEF Next, Drain

(* Frames polled and not recorded: one per failed write, and one more at    *)
(* the shutdown (drainToRecorder and tick end with the first exception).    *)
THEOREM LossIsBounded == Spec => []FewLost
<1>1. Init => LossInv
  BY EmptySeq DEF Init, LossInv, Held
<1>2. TypeOK /\ LossInv => FewLost
  <2> SUFFICES ASSUME TypeOK, LossInv PROVE FewLost
    OBVIOUS
  <2>1. polled \in Nat /\ Len(counted) \in Nat /\ faults \in Nat
    BY RecordingAssumption DEF TypeOK
  <2> QED BY <2>1 DEF LossInv, FewLost, Held
<1> QED
  BY <1>1, <1>2, Typing, TypingInit, TypingStep, Monitor, LossStep, PTL
  DEF Spec

(***************************************************************************)
(* The file                                                                *)
(***************************************************************************)

(* The units that belong to the frame being written.                        *)
UnderWay ==
  CASE drainPc = "writing" -> written
    [] drainPc = "counting" -> Units
    [] OTHER -> 0

(* The file holds the units of every frame counted and of the one under     *)
(* way.                                                                     *)
FileInv ==
  /\ drainPc = "entering" => written = 0
  /\ drainPc = "writing" => written < Units
  /\ frameCount * Units + UnderWay <= Len(disk)

(* A frame is counted only when all its units are out.                      *)
LEMMA FileStep ==
  TypeOK /\ CountInv /\ FileInv /\ [Next]_vars => FileInv'
<1> SUFFICES ASSUME TypeOK, CountInv, FileInv, [Next]_vars PROVE FileInv'
  OBVIOUS
<1>0. /\ Units \in Nat \ {0} /\ written \in Nat /\ frameCount \in Nat
      /\ Len(disk) \in Nat
  BY RecordingAssumption DEF TypeOK
<1>a. frameCount * Units \in Nat
  BY <1>0
<1> USE <1>0, <1>a DEF FileInv, UnderWay, reader, writer, drain
<1>1. CASE Offer BY <1>1 DEF Offer
<1>2. CASE DrainBegin BY <1>2 DEF DrainBegin
<1>3. CASE DrainEnd BY <1>3 DEF DrainEnd
<1>4. CASE DrainPoll BY <1>4 DEF DrainPoll, Poll
<1>5. CASE WriteEnter BY <1>5 DEF WriteEnter
<1>6. CASE WriteRefused BY <1>6 DEF WriteRefused, Throw, DrainFails
<1>7. CASE WriteSome
  <2>1. PICK k \in 1 .. Units - written : Put(k) /\ written' = written + k
    BY <1>7 DEF WriteSome
  <2>2. Len(disk') = Len(disk) + k
    BY <1>7, <2>1, PutTyped DEF WriteSome
  <2>3. drainPc = "writing" /\ frameCount' = frameCount
        /\ drainPc' = IF written' = Units THEN "counting" ELSE "writing"
    BY <1>7 DEF WriteSome, WriteDone
  <2>4. UnderWay = written /\ UnderWay' = written' /\ written' <= Units
        /\ written' \in Nat
    BY <2>1, <2>3
  <2>5. frameCount' * Units + UnderWay' <= Len(disk')
    BY <2>1, <2>2, <2>3, <2>4
  <2>6. drainPc' = "writing" => written' < Units
    BY <2>3, <2>4
  <2> QED BY <2>3, <2>5, <2>6
<1>8. CASE WriteReturn
  <2>1. (frameCount + 1) * Units = frameCount * Units + Units
    BY SMT
  <2> QED BY <1>8, <2>1 DEF WriteReturn
<1>9. CASE WriteFault BY <1>9 DEF WriteFault, Throw, DrainFails
<1>10. CASE WriteInterrupted
  <2>1. PICK k \in 0 .. Units - written : Put(k) /\ written' = written + k
    BY <1>10 DEF WriteInterrupted
  <2>2. Len(disk') = Len(disk) + k
    BY <1>10, <2>1, PutTyped DEF WriteInterrupted
  <2> QED BY <1>10, <2>1, <2>2 DEF WriteInterrupted, Throw, DrainFails
<1>11. CASE Shutdown BY <1>11 DEF Shutdown
<1>12. CASE Close
  BY <1>12 DEF Close, CloseEnter, CloseHeader, CloseRefused, CloseChannel
<1>13. CASE Kill BY <1>13 DEF Kill
<1>14. CASE UNCHANGED vars BY <1>14 DEF vars
<1> QED
  BY <1>1, <1>2, <1>3, <1>4, <1>5, <1>6, <1>7, <1>8, <1>9, <1>10, <1>11,
     <1>12, <1>13, <1>14
  DEF Next, Drain

(* The header never promises a frame that is not in the file, wherever the  *)
(* program is killed (ZcmWriter.java:51 counts after the write).            *)
THEOREM HeaderIsHonest == Spec => []NeverOverclaims
<1>1. Init => FileInv
  BY RecordingAssumption, EmptySeq DEF Init, FileInv, UnderWay
<1>2. TypeOK /\ CountInv /\ FileInv => NeverOverclaims
  <2> SUFFICES ASSUME TypeOK, CountInv, FileInv PROVE NeverOverclaims
    OBVIOUS
  <2>1. /\ Units \in Nat /\ header \in Nat /\ frameCount \in Nat
        /\ Len(disk) \in Nat /\ UnderWay \in Nat /\ header <= frameCount
    BY RecordingAssumption DEF TypeOK, CountInv, UnderWay
  <2>2. header * Units <= frameCount * Units
    BY <2>1, SMT
  <2>3. header * Units \in Nat /\ frameCount * Units \in Nat
    BY <2>1
  <2> QED BY <2>1, <2>2, <2>3 DEF FileInv, NeverOverclaims, Truncated
<1> QED
  BY <1>1, <1>2, Typing, TypingInit, TypingStep, FileStep, PTL DEF Spec

(***************************************************************************)
(* What a reader gets                                                      *)
(***************************************************************************)

Base == Len(counted) * Units         \* the units of the frames counted
Behind == Len(disk) - Base           \* the units after them

(* They are the first units of frame f.                                     *)
BehindIs(f) == \A i \in 1 .. Behind : disk[Base + i] = <<f, i>>

(* The frames counted are the first in the file, all of them whole.         *)
Recorded ==
  \A j \in 1 .. Len(counted), u \in 1 .. Units :
    disk[(j - 1) * Units + u] = <<counted[j], u>>

(* Behind them come the units of the frame under way, and no others.        *)
Exact == Behind = UnderWay /\ BehindIs(polled)

(* Or a frame was given up there: headless it is the last that is drained;  *)
(* with the UI it is cut short, or the channel went with it.                *)
GivenUp ==
  /\ Behind > 0 /\ UnderWay = 0
  /\ \E f \in 1 .. polled - Held : BehindIs(f)
  /\ ~ui => drainPc = "idle" /\ stopping
  /\ open => Behind < Units

Sound == Recorded /\ (Exact \/ GivenUp)

(* With the UI a frame was begun behind one cut short.  Some place of a     *)
(* frame in the file, with the counted frames before it, then has units of  *)
(* two frames, and keeps them.                                              *)
Flawed ==
  /\ ui /\ Torn
  /\ \E i \in 1 .. Len(counted) + 1, p, q \in 1 .. Units :
       /\ (i - 1) * Units + p <= Len(disk)
       /\ (i - 1) * Units + q <= Len(disk)
       /\ disk[(i - 1) * Units + p][1] # disk[(i - 1) * Units + q][1]
       /\ \A j \in 1 .. i - 1, u \in 1 .. Units :
            disk[(j - 1) * Units + u] = <<counted[j], u>>

FileInOrder == Sound \/ Flawed

(* The numbers of the file.                                                 *)
LEMMA FileNumbers ==
  ASSUME TypeOK, CountInv, FileInv
  PROVE  /\ Base \in Nat /\ Behind \in Nat /\ Len(disk) \in Nat
         /\ Base + Behind = Len(disk)
         /\ Units \in Nat /\ Units >= 1 /\ written \in Nat /\ polled \in Nat
         /\ Len(counted) \in Nat
<1>1. /\ Units \in Nat /\ Units >= 1 /\ written \in Nat /\ polled \in Nat
      /\ Len(disk) \in Nat /\ Len(counted) \in Nat
  BY RecordingAssumption DEF TypeOK
<1>2. Base \in Nat /\ frameCount * Units = Base
  BY <1>1 DEF Base, CountInv
<1>3. Base + UnderWay <= Len(disk) /\ UnderWay \in Nat
  BY <1>1, <1>2 DEF FileInv, UnderWay
<1> QED BY <1>1, <1>2, <1>3 DEF Behind

(* More frames have more units.                                             *)
LEMMA MoreUnits ==
  ASSUME NEW m \in Nat, NEW n \in Nat, m <= n
  PROVE  m * Units \in Nat /\ n * Units \in Nat /\ m * Units <= n * Units
<1>1. Units \in Nat
  BY RecordingAssumption
<1>2. PICK d \in Nat : n = m + d
  <2>1. n - m \in Nat /\ n = m + (n - m)
    OBVIOUS
  <2> QED BY <2>1
<1>3. m * Units \in Nat /\ d * Units \in Nat
  BY <1>1
<1>4. n * Units = m * Units + d * Units
  BY <1>1, <1>2
<1> QED BY <1>3, <1>4

(* A step that leaves the file and the count alone leaves what is in them.  *)
LEMMA SameFile ==
  ASSUME UNCHANGED <<disk, counted>>
  PROVE  /\ Torn' <=> Torn
         /\ Recorded' <=> Recorded
         /\ Base' = Base /\ Behind' = Behind
         /\ \A f : BehindIs(f)' <=> BehindIs(f)
BY DEF Torn, Recorded, Base, Behind, BehindIs

(* Units of the frame in hand go to the end of the file.                    *)
LEMMA PutElements ==
  ASSUME TypeOK, CountInv, drainPc = "writing",
         NEW k \in 0 .. Units - written, Put(k)
  PROVE  /\ Len(disk') = Len(disk) + k
         /\ \A i \in 1 .. Len(disk) : disk'[i] = disk[i]
         /\ \A i \in 1 .. k : disk'[Len(disk) + i] = <<polled, written + i>>
<1> DEFINE more == [i \in 1 .. k |-> <<InHand, written + i>>]
           Unit == (1 .. MaxFrames) \X (1 .. Units)
<1>1. polled \in 1 .. MaxFrames /\ k \in Nat
  BY RecordingAssumption, SMT DEF TypeOK, CountInv, Held
<1>2. \A i \in 1 .. k : <<InHand, written + i>> \in Unit
  <2> SUFFICES ASSUME NEW i \in 1 .. k PROVE <<InHand, written + i>> \in Unit
    OBVIOUS
  <2>1. written + i \in 1 .. Units
    BY RecordingAssumption, SMT DEF TypeOK
  <2> QED BY <1>1, <2>1 DEF InHand
<1>3. /\ more \in Seq(Unit) /\ Len(more) = k
      /\ \A i \in 1 .. k : more[i] = <<polled, written + i>>
  <2>1. more \in Seq(Unit) /\ Len(more) = k
    BY <1>1, <1>2, SMT
  <2>2. \A i \in 1 .. k : more[i] = <<polled, written + i>>
    BY DEF InHand
  <2> QED BY <2>1, <2>2
<1>4. disk \in Seq(Unit)
  BY DEF TypeOK
<1>5. disk' = disk \o more
  BY DEF Put
<1>6. more \in Seq(Unit)
  BY <1>3
<1> HIDE DEF more, Unit
<1>7. /\ Len(disk \o more) = Len(disk) + Len(more)
      /\ \A i \in 1 .. Len(disk) : (disk \o more)[i] = disk[i]
      /\ \A i \in 1 .. Len(more) : (disk \o more)[Len(disk) + i] = more[i]
  BY <1>6, <1>4, ConcatProperties
<1>8. /\ Len(disk') = Len(disk) + Len(more)
      /\ \A i \in 1 .. Len(disk) : disk'[i] = disk[i]
      /\ \A i \in 1 .. Len(more) : disk'[Len(disk) + i] = more[i]
  BY <1>5, <1>7
<1> QED BY <1>3, <1>8

(* What was torn stays torn when the file grows.                            *)
LEMMA TornStays ==
  ASSUME Len(disk) \in Nat, NEW k \in Nat, Len(disk') = Len(disk) + k,
         \A i \in 1 .. Len(disk) : disk'[i] = disk[i], Torn
  PROVE  Torn'
<1>1. PICK i \in 1 .. Len(disk) - 1 :
        disk[i][1] # disk[i + 1][1] /\ disk[i][2] # Units
  BY DEF Torn
<1>2. i \in 1 .. Len(disk) /\ i + 1 \in 1 .. Len(disk)
      /\ i \in 1 .. Len(disk') - 1
  BY <1>1
<1>3. disk'[i] = disk[i] /\ disk'[i + 1] = disk[i + 1]
  BY <1>2
<1> QED BY <1>1, <1>2, <1>3 DEF Torn

(* The counted frames stay in the file when it grows.                       *)
LEMMA RecordedStays ==
  ASSUME TypeOK, CountInv, FileInv, drainPc = "writing", Recorded,
         NEW k \in 0 .. Units - written, Put(k), UNCHANGED counted
  PROVE  Recorded'
<1>1. /\ Base \in Nat /\ Behind \in Nat /\ Len(disk) \in Nat
      /\ Base + Behind = Len(disk) /\ Units \in Nat
      /\ written \in Nat /\ Len(counted) \in Nat
  BY FileNumbers
<1>3. /\ Len(disk') = Len(disk) + k
      /\ \A i \in 1 .. Len(disk) : disk'[i] = disk[i]
  BY PutElements
<1> SUFFICES ASSUME NEW j \in 1 .. Len(counted), NEW u \in 1 .. Units
             PROVE  disk'[(j - 1) * Units + u] = <<counted[j], u>>
  BY DEF Recorded
<1>4. disk[(j - 1) * Units + u] = <<counted[j], u>>
  BY DEF Recorded
<1>5. (j - 1) * Units + u \in 1 .. Len(disk)
  <2>1. (j - 1) * Units + Units = j * Units /\ (j - 1) * Units \in Nat
    BY <1>1
  <2>2. j * Units <= Len(counted) * Units
    BY <1>1
  <2>3. j * Units \in Nat /\ j * Units <= Base
    BY <1>1, <2>2 DEF Base
  <2> QED BY <1>1, <2>1, <2>3
<1> QED BY <1>3, <1>4, <1>5

(* Units put behind a frame that was cut short tear the file.               *)
LEMMA PutFlaws ==
  ASSUME TypeOK, CountInv, FileInv, drainPc = "writing", GivenUp, open,
         Recorded, NEW k \in 1 .. Units - written, Put(k),
         UNCHANGED <<ui, counted>>
  PROVE  Flawed'
<1>1. /\ Base \in Nat /\ Behind \in Nat /\ Len(disk) \in Nat
      /\ Base + Behind = Len(disk) /\ Units \in Nat /\ polled \in Nat
      /\ written \in Nat
  BY FileNumbers
<1>2. /\ Behind > 0 /\ written = 0 /\ Behind < Units /\ ui
  BY DEF GivenUp, UnderWay
<1>3. PICK f \in 1 .. polled - 1 : BehindIs(f)
  BY DEF GivenUp, Held
<1>4. k \in 0 .. Units - written /\ 1 \in 1 .. k /\ k \in Nat
  BY <1>1
<1>5. /\ Len(disk') = Len(disk) + k
      /\ \A i \in 1 .. Len(disk) : disk'[i] = disk[i]
      /\ \A i \in 1 .. k : disk'[Len(disk) + i] = <<polled, written + i>>
  BY <1>4, PutElements
<1>6. disk[Len(disk)] = <<f, Behind>>
  <2>1. Behind \in 1 .. Behind
    BY <1>1, <1>2
  <2> QED BY <1>1, <1>3, <2>1 DEF BehindIs
<1>7. Len(disk) \in 1 .. Len(disk) /\ Len(disk) \in 1 .. Len(disk') - 1
  BY <1>1, <1>2, <1>4, <1>5
<1>8. /\ disk'[Len(disk)] = <<f, Behind>>
      /\ disk'[Len(disk) + 1] = <<polled, written + 1>>
  BY <1>4, <1>5, <1>6, <1>7
<1>9. f # polled /\ Behind # Units
  BY <1>1, <1>2, <1>3
<1>10. ui' /\ Torn'
  BY <1>2, <1>7, <1>8, <1>9 DEF Torn
<1>11. Recorded'
  BY <1>4, RecordedStays
<1>12. PICK i, p, q : i = Len(counted) + 1 /\ p = Behind /\ q = Behind + 1
  OBVIOUS
<1>13. /\ i \in 1 .. Len(counted') + 1 /\ p \in 1 .. Units /\ q \in 1 .. Units
       /\ (i - 1) * Units + p = Len(disk)
       /\ (i - 1) * Units + q = Len(disk) + 1
       /\ Len(disk) + 1 <= Len(disk')
  <2>1. (i - 1) * Units = Base /\ Len(counted) \in Nat
    BY <1>12, FileNumbers DEF Base
  <2>2. i \in 1 .. Len(counted') + 1
    BY <1>12, <2>1
  <2>3. p \in 1 .. Units /\ q \in 1 .. Units
    BY <1>1, <1>2, <1>12
  <2>4. Base + p = Len(disk) /\ Base + q = Len(disk) + 1
    BY <1>1, <1>12
  <2>5. Len(disk) + 1 <= Len(disk')
    BY <1>1, <1>4, <1>5
  <2> QED BY <2>1, <2>2, <2>3, <2>4, <2>5
<1>14. \A j \in 1 .. i - 1, u \in 1 .. Units :
         disk'[(j - 1) * Units + u] = <<counted'[j], u>>
  <2>1. i - 1 = Len(counted')
    BY <1>12, FileNumbers
  <2> QED BY <1>11, <2>1 DEF Recorded
<1>15. disk'[(i - 1) * Units + p][1] # disk'[(i - 1) * Units + q][1]
  BY <1>8, <1>9, <1>13
<1>16. /\ (i - 1) * Units + p <= Len(disk')
       /\ (i - 1) * Units + q <= Len(disk')
  BY <1>1, <1>13, <1>5
<1> QED BY <1>10, <1>13, <1>14, <1>15, <1>16 DEF Flawed

(* Units put behind those of the same frame belong to it.                   *)
LEMMA PutExtends ==
  ASSUME TypeOK, CountInv, FileInv, drainPc = "writing", Recorded, Exact,
         NEW k \in 0 .. Units - written, Put(k), UNCHANGED <<polled, counted>>
  PROVE  Recorded' /\ BehindIs(polled)' /\ Behind' = written + k
<1>1. /\ Base \in Nat /\ Behind \in Nat /\ Len(disk) \in Nat
      /\ Base + Behind = Len(disk) /\ Units \in Nat /\ polled \in Nat
      /\ written \in Nat /\ Len(counted) \in Nat
  BY FileNumbers
<1>2. Behind = written /\ k \in Nat
  BY <1>1 DEF Exact, UnderWay
<1>3. /\ Len(disk') = Len(disk) + k
      /\ \A i \in 1 .. Len(disk) : disk'[i] = disk[i]
      /\ \A i \in 1 .. k : disk'[Len(disk) + i] = <<polled, written + i>>
  BY PutElements
<1>4. Base' = Base /\ Behind' = written + k
  <2>1. Base' = Base
    BY DEF Base
  <2> QED BY <1>1, <1>2, <1>3, <2>1 DEF Behind
<1>5. ASSUME NEW i \in 1 .. written + k
      PROVE  disk'[Base + i] = <<polled, i>>
  <2>1. CASE i <= written
    <3>1. i \in 1 .. Behind /\ Base + i \in 1 .. Len(disk)
      BY <1>1, <1>2, <2>1
    <3>2. disk[Base + i] = <<polled, i>>
      BY <3>1 DEF Exact, BehindIs
    <3> QED BY <1>3, <3>1, <3>2
  <2>2. CASE i > written
    <3>1. i - written \in 1 .. k /\ Len(disk) + (i - written) = Base + i
          /\ written + (i - written) = i
      BY <1>1, <1>2, <2>2
    <3>2. disk'[Len(disk) + (i - written)] = <<polled, written + (i - written)>>
      BY <1>3, <3>1
    <3> QED BY <3>1, <3>2
  <2> QED BY <1>1, <1>2, <2>1, <2>2
<1>6. BehindIs(polled)'
  <2>1. PICK n : n = written + k
    OBVIOUS
  <2>2. \A i \in 1 .. n : disk'[Base + i] = <<polled, i>>
    BY <1>5, <2>1
  <2>3. Behind' = n
    BY <1>4, <2>1
  <2> QED BY <1>4, <2>2, <2>3 DEF BehindIs
<1>7. Recorded'
  BY RecordedStays
<1> QED BY <1>4, <1>6, <1>7

(* A frame is counted when its units are the last of the file.              *)
LEMMA CountExtends ==
  ASSUME TypeOK, CountInv, FileInv, drainPc = "counting", Recorded, Exact,
         counted' = Append(counted, polled), UNCHANGED disk
  PROVE  Recorded' /\ Behind' = 0
<1>1. /\ Base \in Nat /\ Behind \in Nat /\ Len(disk) \in Nat
      /\ Base + Behind = Len(disk) /\ Units \in Nat /\ polled \in Nat
      /\ Len(counted) \in Nat
  BY FileNumbers
<1>2. Behind = Units
  BY DEF Exact, UnderWay
<1>3. /\ Len(counted') = Len(counted) + 1
      /\ counted'[Len(counted) + 1] = polled
      /\ \A j \in 1 .. Len(counted) : counted'[j] = counted[j]
  <2>1. counted \in Seq(1 .. MaxFrames) /\ polled \in 1 .. MaxFrames
    BY RecordingAssumption, SMT DEF TypeOK, CountInv, Held
  <2> QED BY <2>1, AppendProperties
<1>4. Behind' = 0
  <2>1. (Len(counted) + 1) * Units = Len(counted) * Units + Units
    BY <1>1
  <2>2. Base' = Base + Units
    BY <1>3, <2>1 DEF Base
  <2>3. Behind' = Len(disk) - Base'
    BY DEF Behind
  <2> QED BY <1>1, <1>2, <2>2, <2>3
<1>5. ASSUME NEW j \in 1 .. Len(counted) + 1, NEW u \in 1 .. Units
      PROVE  disk[(j - 1) * Units + u] = <<counted'[j], u>>
  <2>1. CASE j <= Len(counted)
    <3>1. j \in 1 .. Len(counted)
      BY <1>1, <2>1
    <3> QED BY <1>3, <3>1 DEF Recorded
  <2>2. CASE j = Len(counted) + 1
    <3>1. (j - 1) * Units = Base
      BY <1>1, <2>2 DEF Base
    <3>2. disk[Base + u] = <<polled, u>>
      BY <1>2 DEF Exact, BehindIs
    <3> QED BY <1>3, <2>2, <3>1, <3>2
  <2> QED BY <1>1, <2>1, <2>2
<1>6. Recorded'
  <2>1. PICK n : n = Len(counted) + 1
    OBVIOUS
  <2>2. \A j \in 1 .. n, u \in 1 .. Units :
          disk[(j - 1) * Units + u] = <<counted'[j], u>>
    BY <1>5, <2>1
  <2>3. Len(counted') = n
    BY <1>3, <2>1
  <2> QED BY <2>2, <2>3 DEF Recorded
<1> QED BY <1>4, <1>6

(* A write that throws leaves the frame in hand where it is.                *)
LEMMA ThrowGivesUp ==
  ASSUME TypeOK, CountInv, MonitorInv, drainPc = "writing", drainPc' = "idle",
         UNCHANGED <<ui, polled>>, stopping' = (stopping \/ ~ui),
         Base' \in Nat, Behind' \in Nat,
         Behind' <= Units, open' => Behind' < Units,
         \/ BehindIs(polled)'
         \/ Behind' > 0 /\ ui /\ \E f \in 1 .. polled - 1 : BehindIs(f)'
  PROVE  Exact' \/ GivenUp'
<1>1. polled \in Nat /\ polled >= 1 /\ Held' = 0 /\ UnderWay' = 0
      /\ stopping \in BOOLEAN /\ ui \in BOOLEAN
  <2>1. polled \in Nat /\ Len(counted) \in Nat
    BY RecordingAssumption DEF TypeOK
  <2>2. Len(counted) + 1 <= polled
    BY DEF CountInv, Held
  <2>3. Held' = 0 /\ UnderWay' = 0
    BY DEF Held, UnderWay
  <2>4. stopping \in BOOLEAN /\ ui \in BOOLEAN
    BY DEF TypeOK
  <2> QED BY <2>1, <2>2, <2>3, <2>4
<1>2. CASE Behind' = 0
  BY <1>1, <1>2 DEF Exact, BehindIs
<1>3. CASE Behind' > 0
  <2>1. \E f \in 1 .. polled' - Held' : BehindIs(f)'
    <3>1. CASE BehindIs(polled)'
      <4>1. PICK f : f = polled
        OBVIOUS
      <4>2. f \in 1 .. polled' - Held'
        BY <1>1, <4>1
      <4>3. BehindIs(f)'
        BY <3>1, <4>1 DEF BehindIs
      <4> QED BY <4>2, <4>3
    <3>2. CASE \E f \in 1 .. polled - 1 : BehindIs(f)'
      BY <1>1, <3>2
    <3> QED BY <3>1, <3>2
  <2>2. ~ui' => drainPc' = "idle" /\ stopping'
    BY <1>1
  <2> QED BY <1>1, <1>3, <2>1, <2>2 DEF GivenUp
<1> QED BY <1>2, <1>3

(* A file in order stays so, or a frame is torn in it.                      *)
LEMMA SoundStep ==
  TypeOK /\ CountInv /\ MonitorInv /\ FileInv /\ Sound /\ [Next]_vars
    => Sound' \/ Flawed'
<1> SUFFICES ASSUME TypeOK, CountInv, MonitorInv, FileInv, [Next]_vars,
                    Recorded, Exact \/ GivenUp, ~Flawed'
             PROVE  Recorded' /\ (Exact' \/ GivenUp')
  BY DEF Sound
<1> USE DEF reader, writer, drain
<1>1. /\ Base \in Nat /\ Behind \in Nat /\ Len(disk) \in Nat
      /\ Base + Behind = Len(disk)
      /\ Units \in Nat /\ Units >= 1 /\ written \in Nat /\ polled \in Nat
      /\ Len(counted) \in Nat
  BY FileNumbers
<1>2. ui' = ui
  BY DEF Next, vars, Drain, Close, Offer, DrainBegin, DrainEnd, DrainPoll,
         WriteEnter, WriteRefused, WriteSome, WriteReturn, WriteFault,
         WriteInterrupted, Shutdown, CloseEnter, CloseHeader, CloseRefused,
         CloseChannel, Kill
<1>3. ASSUME UNCHANGED <<disk, counted>>
      PROVE  /\ Recorded' /\ Recorded /\ (Exact \/ GivenUp)
             /\ Base' = Base /\ Behind' = Behind
             /\ \A f : BehindIs(f)' <=> BehindIs(f)
  BY <1>3, SameFile
<1>4. ASSUME UNCHANGED <<ui, polled, drainPc, written, disk, counted>>,
             open' => open, stopping => stopping'
      PROVE  Recorded' /\ (Exact' \/ GivenUp')
  <2>1. UnderWay' = UnderWay /\ Held' = Held
    BY <1>4 DEF UnderWay, Held
  <2>2. CASE Exact
    <3>1. PICK f : f = polled
      OBVIOUS
    <3>2. BehindIs(f)' /\ polled' = f
      BY <1>3, <1>4, <2>2, <3>1 DEF Exact
    <3>3. BehindIs(polled)'
      BY <3>2 DEF BehindIs
    <3> QED BY <1>3, <1>4, <2>1, <2>2, <3>3 DEF Exact
  <2>3. CASE GivenUp
    <3>1. PICK f \in 1 .. polled - Held : BehindIs(f)
      BY <2>3 DEF GivenUp
    <3>2. BehindIs(f)' /\ f \in 1 .. polled' - Held'
      BY <1>3, <1>4, <2>1, <3>1
    <3>3. /\ Behind' > 0 /\ UnderWay' = 0
          /\ ~ui' => drainPc' = "idle" /\ stopping'
          /\ open' => Behind' < Units
      BY <1>3, <1>4, <2>1, <2>3 DEF GivenUp
    <3> QED BY <1>3, <1>4, <3>2, <3>3 DEF GivenUp
  <2> QED BY <1>3, <1>4, <2>2, <2>3
<1>5. CASE Offer BY <1>4, <1>5 DEF Offer
<1>6. CASE Shutdown BY <1>4, <1>6 DEF Shutdown
<1>7. CASE Close
  BY <1>4, <1>7 DEF Close, CloseEnter, CloseHeader, CloseRefused, CloseChannel
<1>8. CASE Kill BY <1>4, <1>8 DEF Kill
<1>9. CASE UNCHANGED vars BY <1>4, <1>9 DEF vars
<1>10. ASSUME UNCHANGED <<ui, disk, counted, open>>,
              UnderWay = 0, UnderWay' = 0, polled' - Held' = polled - Held,
              Held \in {0, 1},
              polled' = polled \/ drainPc = "draining",
              drainPc = "idle" => ~stopping
       PROVE  Recorded' /\ (Exact' \/ GivenUp')
  <2>1. CASE Exact
    <3>1. Behind' = 0
      BY <1>3, <1>10, <2>1 DEF Exact
    <3> QED BY <1>3, <1>10, <3>1 DEF Exact, BehindIs
  <2>2. CASE GivenUp
    <3>1. PICK f \in 1 .. polled - Held : BehindIs(f)
      BY <2>2 DEF GivenUp
    <3>2. BehindIs(f)' /\ f \in 1 .. polled' - Held'
      BY <1>3, <1>10, <3>1
    <3>3. ui /\ Behind' > 0 /\ (open' => Behind' < Units)
      BY <1>3, <1>10, <2>2 DEF GivenUp
    <3> QED BY <1>3, <1>10, <3>2, <3>3 DEF GivenUp
  <2> QED BY <1>3, <1>10, <2>1, <2>2
<1>11. CASE DrainBegin
  <2>1. UnderWay = 0 /\ UnderWay' = 0 /\ Held = 0 /\ Held' = 0
    BY <1>11 DEF DrainBegin, UnderWay, Held
  <2> QED BY <1>10, <1>11, <2>1 DEF DrainBegin
<1>12. CASE DrainEnd
  <2>1. UnderWay = 0 /\ UnderWay' = 0 /\ Held = 0 /\ Held' = 0
    BY <1>12 DEF DrainEnd, UnderWay, Held
  <2>2. drainPc # "idle"
    BY <1>12 DEF DrainEnd
  <2> QED BY <1>10, <1>12, <2>1, <2>2 DEF DrainEnd
<1>13. CASE DrainPoll
  <2>1. UnderWay = 0 /\ UnderWay' = 0 /\ Held = 0 /\ Held' = 1
        /\ polled' = polled + 1 /\ drainPc = "draining"
    BY <1>13 DEF DrainPoll, Poll, UnderWay, Held
  <2>2. polled' - Held' = polled - Held /\ drainPc # "idle"
    BY <1>1, <2>1
  <2> QED BY <1>10, <1>13, <2>1, <2>2 DEF DrainPoll
<1>14. CASE WriteEnter
  <2>1. UnderWay = 0 /\ UnderWay' = 0 /\ Held = 1 /\ Held' = 1
    BY <1>14 DEF WriteEnter, UnderWay, Held, FileInv
  <2>2. drainPc # "idle"
    BY <1>14 DEF WriteEnter
  <2> QED BY <1>10, <1>14, <2>1, <2>2 DEF WriteEnter
<1>15. ASSUME drainPc = "writing", drainPc' = "idle", open' => open,
              UNCHANGED <<ui, polled, disk, counted>>,
              stopping' = (stopping \/ ~ui)
       PROVE  Recorded' /\ (Exact' \/ GivenUp')
  <2>1. UnderWay = written /\ Held = 1 /\ written < Units
    BY <1>15 DEF UnderWay, Held, FileInv
  <2>2. Base' \in Nat /\ Behind' \in Nat
    BY <1>1, <1>3, <1>15
  <2>3. CASE Exact
    <3>1. Behind' < Units
      BY <1>1, <1>3, <1>15, <2>1, <2>3 DEF Exact
    <3>2. PICK f : f = polled
      OBVIOUS
    <3>3. BehindIs(f)' /\ polled' = f
      BY <1>3, <1>15, <2>3, <3>2 DEF Exact
    <3>4. BehindIs(polled)'
      BY <3>3 DEF BehindIs
    <3>5. Behind' <= Units
      BY <1>1, <2>2, <3>1
    <3> QED BY <1>3, <1>15, <2>2, <3>1, <3>4, <3>5, ThrowGivesUp
  <2>4. CASE GivenUp
    <3>1. PICK f \in 1 .. polled - 1 : BehindIs(f)
      BY <2>1, <2>4 DEF GivenUp
    <3>2. ui /\ Behind' > 0
      BY <1>3, <1>15, <2>4 DEF GivenUp
    <3>3. \E g \in 1 .. polled - 1 : BehindIs(g)'
      BY <1>3, <1>15, <3>1
    <3>4. open' => Behind' < Units
      BY <1>3, <1>15, <2>4 DEF GivenUp
    <3>5. Held' = 0 /\ UnderWay' = 0 /\ polled - 1 <= polled' - Held'
      BY <1>1, <1>15 DEF Held, UnderWay
    <3>6. PICK g \in 1 .. polled - 1 : BehindIs(g)'
      BY <3>3
    <3>7. g \in 1 .. polled' - Held'
      BY <1>1, <1>15, <3>5, <3>6
    <3> QED BY <1>3, <1>15, <3>2, <3>4, <3>5, <3>6, <3>7 DEF GivenUp
  <2> QED BY <1>3, <1>15, <2>3, <2>4
<1>16. CASE WriteRefused
  BY <1>15, <1>16 DEF WriteRefused, Throw, DrainFails
<1>17. CASE WriteFault
  BY <1>15, <1>17 DEF WriteFault, Throw, DrainFails
<1>18. ASSUME drainPc = "writing", open, UNCHANGED counted,
              NEW k \in 0 .. Units - written, Put(k)
       PROVE  /\ GivenUp => k = 0
              /\ k = 0 => UNCHANGED <<disk, counted>>
  <2>1. /\ Len(disk') = Len(disk) + k
        /\ \A i \in 1 .. Len(disk) : disk'[i] = disk[i]
    BY <1>18, PutElements
  <2>2. ASSUME GivenUp, k # 0 PROVE FALSE
    <3>1. k \in 1 .. Units - written
      BY <1>1, <1>18, <2>2
    <3> QED BY <1>2, <1>18, <2>2, <3>1, PutFlaws
  <2>3. ASSUME k = 0 PROVE disk' = disk
    <3>1. disk \in Seq((1 .. MaxFrames) \X (1 .. Units))
          /\ disk' \in Seq((1 .. MaxFrames) \X (1 .. Units))
      BY <1>18, PutTyped DEF TypeOK
    <3>2. Len(disk') = Len(disk)
      BY <1>1, <2>1, <2>3
    <3> QED BY <2>1, <3>1, <3>2, SeqEqual
  <2> QED BY <1>18, <2>2, <2>3
<1>19. CASE WriteSome
  <2>1. PICK k \in 1 .. Units - written : Put(k) /\ written' = written + k
    BY <1>19 DEF WriteSome
  <2>2. k \in 0 .. Units - written /\ k # 0
    BY <1>1, <2>1
  <2>3. drainPc = "writing" /\ open /\ UNCHANGED <<ui, counted, polled>>
        /\ drainPc' = IF written' = Units THEN "counting" ELSE "writing"
    BY <1>19 DEF WriteSome, WriteDone
  <2>4. Exact
    BY <1>18, <2>1, <2>2, <2>3
  <2>5. Recorded' /\ BehindIs(polled)' /\ Behind' = written + k
    BY <2>1, <2>2, <2>3, <2>4, PutExtends
  <2>6. UnderWay' = written'
    BY <2>3 DEF UnderWay
  <2> QED BY <2>1, <2>5, <2>6 DEF Exact
<1>20. CASE WriteReturn
  <2>1. drainPc = "counting" /\ UNCHANGED <<disk, polled, ui>>
        /\ counted' = Append(counted, polled) /\ drainPc' = "draining"
    BY <1>20 DEF WriteReturn, InHand
  <2>2. UnderWay = Units /\ UnderWay' = 0
    BY <2>1 DEF UnderWay
  <2>3. Exact
    BY <1>1, <2>2 DEF GivenUp
  <2>4. Recorded' /\ Behind' = 0
    BY <2>1, <2>3, CountExtends
  <2> QED BY <2>2, <2>4 DEF Exact, BehindIs
<1>21. CASE WriteInterrupted
  <2>1. PICK k \in 0 .. Units - written : Put(k)
    BY <1>21 DEF WriteInterrupted
  <2>2. drainPc = "writing" /\ drainPc' = "idle" /\ open /\ ~open'
        /\ UNCHANGED <<ui, counted, polled>>
        /\ stopping' = (stopping \/ ~ui)
    BY <1>21 DEF WriteInterrupted, Throw, DrainFails
  <2>3. (GivenUp => k = 0) /\ (k = 0 => UNCHANGED <<disk, counted>>)
    BY <1>18, <2>1, <2>2
  <2>4. CASE k = 0
    BY <1>15, <2>2, <2>3, <2>4
  <2>5. CASE k # 0
    <3>1. Recorded' /\ BehindIs(polled)' /\ Behind' = written + k
      BY <2>1, <2>2, <2>3, <2>5, PutExtends
    <3>2. Behind' \in Nat /\ Behind' <= Units
      BY <1>1, <2>1, <3>1
    <3>3. Base' \in Nat
      BY <1>1, <2>2 DEF Base
    <3> QED BY <2>2, <3>1, <3>2, <3>3, ThrowGivesUp
  <2> QED BY <2>4, <2>5
<1> QED
  BY <1>5, <1>6, <1>7, <1>8, <1>9, <1>11, <1>12, <1>13, <1>14, <1>16, <1>17,
     <1>19, <1>20, <1>21
  DEF Next, Drain

(* What lies across two frames does so for good: the file only grows.       *)
LEMMA FlawedStays ==
  ASSUME TypeOK, Flawed, ui' = ui,
         NEW k \in Nat, Len(disk') = Len(disk) + k,
         \A i \in 1 .. Len(disk) : disk'[i] = disk[i],
         counted' = counted \/ \E f \in 1 .. MaxFrames : counted' = Append(counted, f)
  PROVE  Flawed'
<1>1. /\ Len(disk) \in Nat /\ Len(counted) \in Nat /\ Units \in Nat
      /\ counted \in Seq(1 .. MaxFrames)
  BY RecordingAssumption DEF TypeOK
<1>2. /\ Len(counted') \in Nat /\ Len(counted) <= Len(counted')
      /\ \A j \in 1 .. Len(counted) : counted'[j] = counted[j]
  <2>1. CASE counted' = counted
    BY <1>1, <2>1
  <2>2. ASSUME NEW f \in 1 .. MaxFrames, counted' = Append(counted, f)
        PROVE  /\ Len(counted') = Len(counted) + 1
               /\ \A j \in 1 .. Len(counted) : counted'[j] = counted[j]
    BY <1>1, <2>2, AppendProperties
  <2> QED BY <1>1, <2>1, <2>2
<1>3. ui' /\ Torn'
  BY <1>1, TornStays DEF Flawed
<1>4. PICK i \in 1 .. Len(counted) + 1, p \in 1 .. Units, q \in 1 .. Units :
        /\ (i - 1) * Units + p <= Len(disk)
        /\ (i - 1) * Units + q <= Len(disk)
        /\ disk[(i - 1) * Units + p][1] # disk[(i - 1) * Units + q][1]
        /\ \A j \in 1 .. i - 1, u \in 1 .. Units :
             disk[(j - 1) * Units + u] = <<counted[j], u>>
  BY DEF Flawed
<1>5. PICK base : base = (i - 1) * Units
  OBVIOUS
<1>6. base \in Nat
  BY <1>1, <1>5
<1>7. /\ base + p \in 1 .. Len(disk) /\ base + q \in 1 .. Len(disk)
  <2>1. base + p <= Len(disk) /\ base + q <= Len(disk)
    BY <1>4, <1>5
  <2> QED BY <1>1, <1>6, <2>1
<1>8. /\ disk'[base + p] = disk[base + p] /\ disk'[base + q] = disk[base + q]
      /\ base + p <= Len(disk') /\ base + q <= Len(disk')
  BY <1>1, <1>7
<1>9. ASSUME NEW j \in 1 .. i - 1, NEW u \in 1 .. Units
      PROVE  disk'[(j - 1) * Units + u] = <<counted'[j], u>>
  <2>1. j \in 1 .. Len(counted)
    BY <1>1
  <2>2. (j - 1) * Units + u \in 1 .. Len(disk)
    <3>1. (j - 1) * Units + Units = j * Units /\ (j - 1) * Units \in Nat
      BY <1>1
    <3>2. j * Units <= (i - 1) * Units /\ j * Units \in Nat
      BY <1>1, MoreUnits
    <3>3. PICK before, upto : before = (j - 1) * Units /\ upto = j * Units
      OBVIOUS
    <3>4. /\ before \in Nat /\ upto \in Nat /\ upto = before + Units
          /\ upto <= base
      BY <1>5, <3>1, <3>2, <3>3
    <3>5. base <= Len(disk)
      BY <1>1, <1>6, <1>7
    <3>6. before + u \in 1 .. Len(disk)
      BY <1>1, <1>6, <3>4, <3>5
    <3> QED BY <3>3, <3>6
  <2>3. disk[(j - 1) * Units + u] = <<counted[j], u>>
    BY <1>4
  <2> QED BY <1>2, <2>1, <2>2, <2>3
<1>10. i \in 1 .. Len(counted') + 1
  BY <1>1, <1>2
<1> QED BY <1>3, <1>4, <1>5, <1>8, <1>9, <1>10 DEF Flawed

(* Every step keeps FileInOrder.                                            *)
LEMMA FileInOrderStep ==
  TypeOK /\ CountInv /\ MonitorInv /\ FileInv /\ FileInOrder /\ [Next]_vars
    => FileInOrder'
<1> SUFFICES ASSUME TypeOK, CountInv, FileInv, Flawed, [Next]_vars
             PROVE  Flawed'
  BY SoundStep DEF FileInOrder
<1> USE DEF reader, writer, drain
<1>1. Len(disk) \in Nat /\ Len(disk) = Len(disk) + 0 /\ 0 \in Nat
  BY DEF TypeOK
<1>2. CASE UNCHANGED <<ui, disk, counted>>
  BY <1>1, <1>2, FlawedStays
<1>3. CASE WriteSome \/ WriteInterrupted
  <2>1. PICK k \in 0 .. Units - written : Put(k)
    <3>1. Units \in Nat /\ written \in Nat
      BY RecordingAssumption DEF TypeOK
    <3>2. CASE WriteSome
      <4>1. PICK k \in 1 .. Units - written : Put(k)
        BY <3>2 DEF WriteSome
      <4>2. k \in 0 .. Units - written
        BY <3>1
      <4> QED BY <4>1, <4>2
    <3>3. CASE WriteInterrupted
      BY <3>3 DEF WriteInterrupted
    <3> QED BY <1>3, <3>2, <3>3
  <2>2. drainPc = "writing" /\ ui' = ui /\ counted' = counted
    BY <1>3 DEF WriteSome, WriteInterrupted
  <2>3. k \in Nat
    BY RecordingAssumption DEF TypeOK
  <2> QED BY <2>1, <2>2, <2>3, PutElements, FlawedStays
<1>4. CASE WriteReturn
  <2>1. polled \in 1 .. MaxFrames
    BY <1>4, RecordingAssumption, SMT DEF WriteReturn, TypeOK, CountInv, Held
  <2>2. counted' = Append(counted, polled) /\ disk' = disk /\ ui' = ui
    BY <1>4 DEF WriteReturn, InHand
  <2> QED BY <1>1, <2>1, <2>2, FlawedStays
<1>5. ASSUME ~WriteSome, ~WriteInterrupted, ~WriteReturn
      PROVE  UNCHANGED <<ui, disk, counted>>
  BY <1>5
  DEF Next, vars, Drain, Close, Offer, DrainBegin, DrainEnd, DrainPoll,
      WriteEnter, WriteRefused, WriteFault, Shutdown, CloseEnter, CloseHeader,
      CloseRefused, CloseChannel, Kill
<1> QED BY <1>2, <1>3, <1>4, <1>5

(* What a reader makes of a file in which the header's frames are those     *)
(* counted.                                                                *)
LEMMA ReadBack ==
  ASSUME TypeOK, CountInv, FileInv,
         \A j \in 1 .. header, u \in 1 .. Units :
           disk[(j - 1) * Units + u] = <<counted[j], u>>
  PROVE  Frames = SubSeq(counted, 1, header)
<1>1. /\ Base \in Nat /\ Base <= Len(disk) /\ Len(disk) \in Nat
      /\ Units \in Nat /\ Units >= 1 /\ Len(counted) \in Nat
  BY FileNumbers
<1>2. header \in Nat /\ header <= Len(counted)
      /\ counted \in Seq(1 .. MaxFrames)
  BY RecordingAssumption DEF TypeOK, CountInv
<1>3. ASSUME NEW i \in 1 .. header
      PROVE  Verifies(i) /\ disk[(i - 1) * Units + 1][1] = counted[i]
  <2>1. i \in 1 .. Len(counted) /\ 1 \in 1 .. Units
    BY <1>1, <1>2
  <2>2. \A u \in 1 .. Units : disk[(i - 1) * Units + u] = <<counted[i], u>>
    OBVIOUS
  <2>3. disk[(i - 1) * Units + 1][1] = counted[i]
    BY <2>1, <2>2
  <2>4. i * Units <= Len(disk)
    <3>1. i \in Nat /\ i <= Len(counted)
      BY <1>1, <2>1
    <3>2. i * Units <= Base /\ i * Units \in Nat
      BY <1>1, <3>1, MoreUnits DEF Base
    <3> QED BY <1>1, <3>2
  <2> QED BY <2>2, <2>3, <2>4 DEF Verifies
<1>4. Frames = [i \in 1 .. header |-> counted[i]]
  <2>1. {i \in 1 .. header : Verifies(i)} = 1 .. header
    BY <1>3
  <2> QED BY <1>3, <2>1 DEF Frames
<1>5. /\ SubSeq(counted, 1, header) \in Seq(1 .. MaxFrames)
      /\ Len(SubSeq(counted, 1, header)) = header
      /\ \A i \in 1 .. header : SubSeq(counted, 1, header)[i] = counted[i]
  <2>1. header \in 0 .. Len(counted)
    BY <1>1, <1>2
  <2> QED BY <1>2, <2>1, SplitIn DEF IsFront
<1>6. /\ Frames \in Seq(1 .. MaxFrames) /\ Len(Frames) = header
      /\ \A i \in 1 .. header : Frames[i] = counted[i]
  <2>1. \A i \in 1 .. header : counted[i] \in 1 .. MaxFrames
    <3>1. \A i \in 1 .. header : i \in 1 .. Len(counted)
      BY <1>1, <1>2
    <3> QED BY <1>2, <3>1, ElementOfSeq
  <2>2. Frames \in [1 .. header -> 1 .. MaxFrames]
    BY <1>4, <2>1
  <2> QED BY <1>2, <1>4, <2>2
<1> QED BY <1>5, <1>6, SeqEqual

(* So it is while nothing is torn.                                          *)
LEMMA SoundReadsBack ==
  ASSUME TypeOK, CountInv, FileInv, Sound
  PROVE  Frames = SubSeq(counted, 1, header)
<1>1. 1 .. header \subseteq 1 .. Len(counted)
  BY RecordingAssumption DEF TypeOK, CountInv
<1> QED BY <1>1, ReadBack DEF Sound, Recorded

(* A header that counts no further than the torn place is right, and one    *)
(* that does counts a frame that does not verify.                           *)
LEMMA FlawsAreSeen ==
  ASSUME TypeOK, CountInv, FileInv, Flawed,
         \A i \in 1 .. header : Verifies(i)
  PROVE  Frames = SubSeq(counted, 1, header)
<1>1. PICK i \in 1 .. Len(counted) + 1, p \in 1 .. Units, q \in 1 .. Units :
        /\ disk[(i - 1) * Units + p][1] # disk[(i - 1) * Units + q][1]
        /\ \A j \in 1 .. i - 1, u \in 1 .. Units :
             disk[(j - 1) * Units + u] = <<counted[j], u>>
  BY DEF Flawed
<1>2. header \in Nat /\ Len(counted) \in Nat /\ Units \in Nat
  BY RecordingAssumption DEF TypeOK
<1>3. ~Verifies(i)
  <2> SUFFICES ASSUME Verifies(i) PROVE FALSE
    OBVIOUS
  <2>1. PICK first : first = disk[(i - 1) * Units + 1][1]
    OBVIOUS
  <2>2. \A u \in 1 .. Units : disk[(i - 1) * Units + u] = <<first, u>>
    BY <2>1 DEF Verifies
  <2> QED BY <1>1, <2>2
<1>4. header <= i - 1
  BY <1>2, <1>3
<1>5. \A j \in 1 .. header : j \in 1 .. i - 1
  BY <1>2, <1>4
<1> QED BY <1>1, <1>5, ReadBack

(* The file is in order, or torn with a trace, in every reachable state.    *)
LEMMA FileInOrderAlways == Spec => [](FileInv /\ FileInOrder)
<1>1. Init => FileInv /\ FileInOrder
  <2> SUFFICES ASSUME Init PROVE FileInv /\ FileInOrder
    OBVIOUS
  <2>1. Len(disk) = 0 /\ Len(counted) = 0 /\ polled = 0 /\ UnderWay = 0
        /\ frameCount = 0 /\ drainPc = "idle"
    BY EmptySeq DEF Init, UnderWay
  <2>2. Units \in Nat
    BY RecordingAssumption
  <2>3. Base = 0 /\ Behind = 0
    BY <2>1, <2>2 DEF Base, Behind
  <2> QED BY <2>1, <2>2, <2>3
          DEF FileInv, FileInOrder, Sound, Recorded, Exact, BehindIs
<1> QED
  BY <1>1, Typing, TypingInit, TypingStep, Monitor, FileStep,
     FileInOrderStep, PTL
  DEF Spec

(* What inspect and replay read is what the writer counted, up to the       *)
(* header's number, headless always and with the UI while no frame is torn  *)
(* (drainToRecorder, ZcmWriter.write and close).                            *)
THEOREM ReadersGetWhatWasCounted == Spec => []ReadsWhatWasCounted
<1>1. TypeOK /\ CountInv /\ FileInv /\ FileInOrder => ReadsWhatWasCounted
  BY SoundReadsBack DEF FileInOrder, Flawed, ReadsWhatWasCounted
<1> QED
  BY <1>1, Typing, TypingInit, TypingStep, FileInOrderAlways, PTL DEF Spec

(* A file that inspect accepts holds the frames that were counted, with the *)
(* UI too and wherever writes failed: what is torn shows, for the units     *)
(* behind it never make up for it.                                          *)
THEOREM TornFilesAreRefused == Spec => []TearsAreNoticed
<1>1. TypeOK /\ CountInv /\ FileInv /\ FileInOrder => TearsAreNoticed
  BY SoundReadsBack, FlawsAreSeen DEF FileInOrder, TearsAreNoticed
<1> QED
  BY <1>1, Typing, TypingInit, TypingStep, FileInOrderAlways, PTL DEF Spec
=============================================================================
