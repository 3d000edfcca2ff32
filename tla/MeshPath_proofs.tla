----------------------------- MODULE MeshPath_proofs -----------------------------
(***************************************************************************)
(* What holds of the path for chains, sequence spaces and traffic of any    *)
(* size.                                                                    *)
(***************************************************************************)
EXTENDS MeshPath, SequenceTheorems, FiniteSetTheorems, TLAPS

LEMMA MinOfTwo ==
  ASSUME NEW a \in Nat, NEW b \in Nat
  PROVE  Min({a, b}) = IF a <= b THEN a ELSE b
<1>1. CASE a <= b
  <2>1. a \in {a, b} /\ \A y \in {a, b} : a <= y
    BY <1>1
  <2>2. QED
    BY <1>1, <2>1 DEF Min
<1>2. CASE ~(a <= b)
  <2>1. b \in {a, b} /\ \A y \in {a, b} : b <= y
    BY <1>2
  <2>2. QED
    BY <1>2, <2>1 DEF Min
<1>3. QED
  BY <1>1, <1>2

(* The frame that a stamp makes of a frame.                                 *)
LEMMA StampedIs ==
  ASSUME NEW f \in Frames, NEW final \in BOOLEAN
  PROVE  /\ Stamped(f, final) \in Frames
         /\ Stamped(f, final).last = final
         /\ Stamped(f, final).index =
              IF IndexMax <= f.index + 1 THEN IndexMax ELSE f.index + 1
<1>1. f.index \in 0 .. IndexMax /\ IndexMax \in Nat
  BY PathAssumption DEF Frames
<1>2. Min({IndexMax, f.index + 1}) =
        IF IndexMax <= f.index + 1 THEN IndexMax ELSE f.index + 1
  BY <1>1, MinOfTwo
<1>3. Min({IndexMax, f.index + 1}) \in 0 .. IndexMax
  BY <1>1, <1>2
<1>4. QED
  BY <1>2, <1>3 DEF Stamped, Frames

Accounts == [seen : BOOLEAN, prev : Seqs, gaps : Nat, dups : Nat]

(* An account moved on: the last seq, and what to add to gaps and to dups.  *)
Moved(a, seq, gaps, dups) ==
  [a EXCEPT !.prev = seq, !.gaps = @ + gaps, !.dups = @ + dups]

LEMMA MovedIsAccount ==
  ASSUME NEW a \in Accounts, NEW seq \in Seqs, NEW gaps \in Nat, NEW dups \in Nat
  PROVE  Moved(a, seq, gaps, dups) \in Accounts
<1>1. a.gaps + gaps \in Nat /\ a.dups + dups \in Nat
  BY DEF Accounts
<1>2. QED
  BY <1>1 DEF Moved, Accounts

LEMMA MovedNowhere ==
  ASSUME NEW a \in Accounts, NEW seq \in Seqs
  PROVE  Moved(a, seq, 0, 0) = [a EXCEPT !.prev = seq]
<1>1. a.gaps + 0 = a.gaps /\ a.dups + 0 = a.dups
  BY DEF Accounts
<1>2. QED
  BY <1>1 DEF Moved, Accounts

LEMMA MovedBack ==
  ASSUME NEW a \in Accounts, NEW seq \in Seqs
  PROVE  Moved(a, seq, 0, 1) = [a EXCEPT !.prev = seq, !.dups = @ + 1]
<1>1. a.gaps + 0 = a.gaps
  BY DEF Accounts
<1>2. QED
  BY <1>1 DEF Moved, Accounts

LEMMA MovedAhead ==
  ASSUME NEW a \in Accounts, NEW seq \in Seqs, NEW gaps \in Nat
  PROVE  Moved(a, seq, gaps, 0) = [a EXCEPT !.prev = seq, !.gaps = @ + gaps]
<1>1. a.dups + 0 = a.dups
  BY DEF Accounts
<1>2. QED
  BY <1>1 DEF Moved, Accounts

(* What the accounts make of a frame's seq is the same: in 32 bits prev + 1 *)
(* is 0 only where no seq is greater than prev.                             *)
LEMMA AccountsMove ==
  ASSUME NEW a \in Accounts, NEW seq \in Seqs
  PROVE  /\ Tracked(a, seq) \in Accounts
         /\ Observed(a, seq) = Tracked(a, seq)
<1> DEFINE expected == a.prev + 1
           hole == IF seq > expected THEN seq - expected ELSE 0
           back == IF seq <= a.prev THEN 1 ELSE 0
<1>0. SeqSpace \in Nat /\ SeqSpace >= 2
      /\ a.prev \in 0 .. SeqSpace - 1 /\ seq \in 0 .. SeqSpace - 1
      /\ a.gaps \in Nat /\ a.dups \in Nat
  BY PathAssumption DEF Accounts, Seqs
<1>1. hole \in Nat /\ back \in Nat
  BY <1>0
<1> HIDE DEF hole, back
<1>2. CASE ~a.seen
  <2>1. Tracked(a, seq) = [a EXCEPT !.seen = TRUE, !.prev = seq]
    BY <1>2, Zenon DEF Tracked
  <2>2. Observed(a, seq) = [a EXCEPT !.seen = TRUE, !.prev = seq]
    BY <1>2 DEF Observed
  <2>3. [a EXCEPT !.seen = TRUE, !.prev = seq] \in Accounts
    BY DEF Accounts
  <2>4. QED
    BY <2>1, <2>2, <2>3
<1>3. CASE a.seen
  <2>1. Tracked(a, seq) = Moved(a, seq, hole, back)
    BY <1>3, Zenon DEF Tracked, Moved, hole, back
  <2>2. Tracked(a, seq) \in Accounts
    <3>1. Moved(a, seq, hole, back) \in Accounts
      BY <1>1, MovedIsAccount
    <3>2. QED
      BY <2>1, <3>1, Zenon
  <2>3. CASE seq <= a.prev
    <3>1. hole = 0 /\ back = 1
      BY <1>0, <2>3 DEF hole, back
    <3>2. Observed(a, seq) = [a EXCEPT !.prev = seq, !.dups = @ + 1]
      BY <1>3, <2>3, <1>0 DEF Observed
    <3>3. Moved(a, seq, 0, 1) = [a EXCEPT !.prev = seq, !.dups = @ + 1]
      BY MovedBack
    <3>4. QED
      BY <2>1, <2>2, <3>1, <3>2, <3>3
  <2>4. CASE seq > a.prev
    <3>1. (a.prev + 1) % SeqSpace = expected
      BY <1>0, <2>4
    <3>2. back = 0 /\ ~(seq <= a.prev)
      BY <1>0, <2>4 DEF back
    <3>3. CASE seq > expected
      <4>1. (seq - expected) % SeqSpace = hole
        BY <1>0, <3>3 DEF hole
      <4>2. Observed(a, seq) = [a EXCEPT !.prev = seq, !.gaps = @ + hole]
        BY <1>3, <2>4, <3>1, <3>2, <3>3, <4>1 DEF Observed
      <4>3. Moved(a, seq, hole, 0) = [a EXCEPT !.prev = seq, !.gaps = @ + hole]
        BY <1>1, MovedAhead
      <4>4. QED
        BY <2>1, <2>2, <3>2, <4>2, <4>3
    <3>4. CASE ~(seq > expected)
      <4>1. Observed(a, seq) = [a EXCEPT !.prev = seq]
        BY <1>3, <2>4, <3>1, <3>2, <3>4 DEF Observed
      <4>2. hole = 0
        BY <3>4 DEF hole
      <4>3. QED
        BY <2>1, <2>2, <3>2, <4>1, <4>2, MovedNowhere
    <3>5. QED
      BY <3>3, <3>4
  <2>5. QED
    BY <1>0, <2>3, <2>4
<1>4. QED
  BY <1>2, <1>3

(* ------------------------------ typing ------------------------------ *)

LEMMA TypeInit == Init => TypeOK
<1> SUFFICES ASSUME Init PROVE TypeOK
  OBVIOUS
<1>1. nextSeq \in Seqs /\ dropped \subseteq Seqs
  BY PathAssumption DEF Init, Seqs
<1>2. sent \in Seq(Seqs) /\ received \in Seq(Frames)
  BY DEF Init
<1>3. NoAccount \in Accounts
  BY PathAssumption DEF NoAccount, Accounts, Seqs
<1>4. restarts \in 0 .. MaxRestarts /\ copies \in 0 .. MaxCopies
  BY PathAssumption DEF Init
<1>5. inFlight \in [0 .. HopCount -> SUBSET Frames]
  BY DEF Init
<1>6. QED
  BY <1>1, <1>2, <1>3, <1>4, <1>5 DEF Init, TypeOK, Accounts

LEMMA TypeStep == TypeOK /\ [Next]_vars => TypeOK'
<1> SUFFICES ASSUME TypeOK, [Next]_vars PROVE TypeOK'
  OBVIOUS
<1>a. HopCount \in Nat /\ SeqSpace \in Nat /\ SeqSpace >= 2
      /\ MaxFrames \in Nat /\ IndexMax \in Nat
  BY PathAssumption
<1>1. CASE Send
  <2>1. nextSeq' \in Seqs
    BY <1>1, <1>a DEF Send, TypeOK, Seqs
  <2>2. sent' \in Seq(Seqs) /\ Len(sent') = Len(sent) + 1
        /\ Len(sent') \in 1 .. MaxFrames
    BY <1>1, <1>a DEF Send, TypeOK
  <2>3. DEFINE new == [num |-> Len(sent'), seq |-> nextSeq, index |-> 0,
                       last |-> HopCount = 0]
  <2>4. new \in Frames
    <3>1. (HopCount = 0) \in BOOLEAN
      BY Zenon
    <3>2. QED
      BY <2>2, <3>1, <1>a DEF Frames, TypeOK
  <2>5. inFlight' \in [0 .. HopCount -> SUBSET Frames]
    BY <1>1, <2>4, <1>a DEF Send, TypeOK
  <2>6. QED
    BY <1>1, <2>1, <2>2, <2>5 DEF Send, TypeOK
<1>2. CASE EdgeRestarts
  BY <1>2, PathAssumption DEF EdgeRestarts, TypeOK, Seqs
<1>3. CASE Lose
  <2>1. inFlight' \in [0 .. HopCount -> SUBSET Frames]
    BY <1>3 DEF Lose, TypeOK
  <2>2. QED
    BY <1>3, <2>1 DEF Lose, TypeOK
<1>4. ASSUME NEW h \in Hops, Relay(h) PROVE TypeOK'
  <2>1. PICK f \in inFlight[h] : Relay(h)!1!(f)
    BY <1>4 DEF Relay
  <2>2. h \in 0 .. HopCount /\ h + 1 \in 0 .. HopCount /\ f \in Frames
    BY <1>a, <2>1 DEF Hops, TypeOK
  <2>3. DEFINE onward == IF h = Lossy /\ f.seq \in dropped
                           THEN {} ELSE {Stamped(f, isFinal[h])}
  <2>4. onward \subseteq Frames
    <3>1. isFinal[h] \in BOOLEAN
      BY DEF TypeOK
    <3>2. QED
      BY <2>2, <3>1, StampedIs
  <2>5. inFlight' \in [0 .. HopCount -> SUBSET Frames]
        /\ copies' \in 0 .. MaxCopies
    <3>1. CASE inFlight' = [inFlight EXCEPT ![h] = @ \ {f},
                                            ![h + 1] = @ \union onward]
               /\ UNCHANGED copies
      BY <3>1, <2>2, <2>4 DEF TypeOK
    <3>2. CASE copies < MaxCopies /\ copies' = copies + 1
               /\ inFlight' = [inFlight EXCEPT ![h + 1] = @ \union onward]
      BY <3>2, <2>2, <2>4, PathAssumption DEF TypeOK
    <3>3. QED
      BY <2>1, <3>1, <3>2
  <2>6. QED
    BY <1>4, <2>5 DEF Relay, TypeOK
<1>5. CASE Arrive
  <2>1. PICK f \in inFlight[Operator] : Arrive!1!(f)
    BY <1>5 DEF Arrive
  <2>2. f \in Frames /\ f.seq \in Seqs
    BY <1>a, <2>1 DEF Operator, TypeOK, Frames
  <2>3. received' \in Seq(Frames)
    BY <2>1, <2>2 DEF TypeOK
  <2>4. live \in Accounts /\ report \in Accounts
    BY DEF TypeOK, Accounts
  <2>5. live' \in Accounts /\ report' \in Accounts
    BY <2>1, <2>2, <2>4, AccountsMove
  <2>6. inFlight' \in [0 .. HopCount -> SUBSET Frames]
        /\ copies' \in 0 .. MaxCopies
    <3>1. CASE copies' = copies
               /\ inFlight' = [inFlight EXCEPT ![Operator] = @ \ {f}]
      BY <3>1, <1>a DEF Operator, TypeOK
    <3>2. CASE copies < MaxCopies /\ copies' = copies + 1
               /\ inFlight' = inFlight
      BY <3>2, PathAssumption DEF TypeOK
    <3>3. QED
      BY <2>1, <3>1, <3>2 DEF Take
  <2>7. QED
    BY <1>5, <2>3, <2>5, <2>6 DEF Arrive, TypeOK, Accounts
<1>6. CASE UNCHANGED vars
  BY <1>6 DEF vars, TypeOK
<1>7. QED
  BY <1>1, <1>2, <1>3, <1>4, <1>5, <1>6 DEF Next, Relays

(* Frames, sequence numbers and accounts stay in their ranges; in           *)
(* particular no gap is negative and the hop index does not pass 255.       *)
THEOREM Typing == Spec => []TypeOK
BY TypeInit, TypeStep, PTL DEF Spec

(* ----------------------------- the accounts ----------------------------- *)

LEMMA AgreeStep == TypeOK /\ AccountsAgree /\ [Next]_vars => AccountsAgree'
<1> SUFFICES ASSUME TypeOK, AccountsAgree, [Next]_vars PROVE AccountsAgree'
  OBVIOUS
<1>1. CASE Arrive
  <2>1. PICK f \in inFlight[Operator] : Arrive!1!(f)
    BY <1>1 DEF Arrive
  <2>2. f.seq \in Seqs /\ live \in Accounts
    BY <2>1, PathAssumption DEF Operator, TypeOK, Frames, Accounts
  <2>3. live' = report'
    BY <2>1, <2>2, AccountsMove DEF AccountsAgree
  <2>4. QED
    BY <2>3 DEF AccountsAgree
<1>2. CASE live' = live /\ report' = report
  BY <1>2 DEF AccountsAgree
<1>3. QED
  BY <1>1, <1>2 DEF Next, Send, EdgeRestarts, Lose, Relays, Relay, vars

(* trackGaps in 64 bits and ZcmAnalyze::observe in 32 never differ, however *)
(* often the edge restarts, seq wraps, and datagrams are lost, repeated or  *)
(* swapped, for any size of seq.                                            *)
THEOREM Agreement == Spec => []AccountsAgree
<1>1. Init => AccountsAgree
  BY DEF Init, AccountsAgree
<1>2. QED
  BY <1>1, TypeInit, TypeStep, AgreeStep, PTL DEF Spec

(* ------------------------------ the stamps ------------------------------ *)

(* The stamp of a frame that has crossed h hops.                            *)
StampedFor(f, h) ==
  /\ f.index = IF IndexMax <= h THEN IndexMax ELSE h
  /\ h > 0 => f.last = isFinal[h - 1]

StampsInv ==
  /\ \A h \in 0 .. HopCount : \A f \in inFlight[h] : StampedFor(f, h)
  /\ \A i \in DOMAIN received : StampedFor(received[i], HopCount)

(* Each hop puts its own mark over the one before and adds to the index.    *)
LEMMA StampAdds ==
  ASSUME TypeOK, NEW h \in Hops, NEW f \in Frames, StampedFor(f, h)
  PROVE  StampedFor(Stamped(f, isFinal[h]), h + 1)
<1>1. h \in Nat /\ IndexMax \in Nat /\ IndexMax # 0 /\ f.index \in Nat
  BY PathAssumption DEF Hops, Frames
<1>2. isFinal[h] \in BOOLEAN
  BY DEF TypeOK
<1> DEFINE g == Stamped(f, isFinal[h])
<1>3. g.last = isFinal[h]
  BY <1>2, StampedIs
<1>4. g.index = IF IndexMax <= f.index + 1 THEN IndexMax ELSE f.index + 1
  BY <1>2, StampedIs
<1> HIDE DEF g
<1>5. g.index = IF IndexMax <= h + 1 THEN IndexMax ELSE h + 1
  BY <1>1, <1>4 DEF StampedFor
<1>6. (h + 1) - 1 = h
  BY <1>1
<1>7. StampedFor(g, h + 1)
  BY <1>3, <1>5, <1>6 DEF StampedFor
<1>8. QED
  BY <1>7 DEF g

LEMMA StampStep == TypeOK /\ StampsInv /\ [Next]_vars => StampsInv'
<1> SUFFICES ASSUME TypeOK, StampsInv, [Next]_vars PROVE StampsInv'
  OBVIOUS
<1>a. HopCount \in Nat /\ IndexMax \in Nat /\ IndexMax # 0
  BY PathAssumption
<1>b. isFinal' = isFinal
  BY DEF Next, Send, EdgeRestarts, Lose, Relays, Relay, Arrive, vars
<1>c. \A f, h : StampedFor(f, h)' <=> StampedFor(f, h)
  BY <1>b DEF StampedFor
<1>d. DOMAIN inFlight = 0 .. HopCount
  BY DEF TypeOK
<1>1. ASSUME \A h \in 0 .. HopCount : \A f \in inFlight'[h] : StampedFor(f, h),
             received' = received
      PROVE  StampsInv'
  BY <1>1, <1>c DEF StampsInv
<1>2. CASE Send
  <2>1. PICK new : /\ new.index = 0
                   /\ inFlight' = [inFlight EXCEPT ![0] = @ \union {new}]
    <3>1. [num |-> Len(sent'), seq |-> nextSeq, index |-> 0,
           last |-> HopCount = 0].index = 0
      OBVIOUS
    <3>2. QED
      BY <1>2, <3>1 DEF Send
  <2>2. StampedFor(new, 0)
    BY <2>1, <1>a DEF StampedFor
  <2>3. QED
    BY <1>1, <1>2, <1>a, <1>d, <2>1, <2>2 DEF Send, StampsInv
<1>3. CASE Lose
  BY <1>1, <1>3, <1>d DEF Lose, StampsInv
<1>4. ASSUME NEW h \in Hops, Relay(h) PROVE StampsInv'
  <2>1. PICK f \in inFlight[h] : Relay(h)!1!(f)
    BY <1>4 DEF Relay
  <2>2. h \in 0 .. HopCount /\ h + 1 \in 0 .. HopCount /\ f \in Frames /\ h # h + 1
    BY <1>a, <2>1 DEF Hops, TypeOK
  <2>3. StampedFor(Stamped(f, isFinal[h]), h + 1)
    BY <2>1, <2>2, StampAdds DEF StampsInv
  <2>4. DEFINE onward == IF h = Lossy /\ f.seq \in dropped
                           THEN {} ELSE {Stamped(f, isFinal[h])}
  <2>5. \A g \in onward : StampedFor(g, h + 1)
    BY <2>3
  <2>6. \/ inFlight' = [inFlight EXCEPT ![h] = @ \ {f}, ![h + 1] = @ \union onward]
        \/ inFlight' = [inFlight EXCEPT ![h + 1] = @ \union onward]
    BY <2>1
  <2> HIDE DEF onward
  <2>7. \A k \in 0 .. HopCount : \A g \in inFlight'[k] :
          g \in inFlight[k] \/ (k = h + 1 /\ g \in onward)
    BY <2>2, <2>6, <1>d
  <2>8. QED
    BY <1>1, <1>4, <2>5, <2>7 DEF Relay, StampsInv
<1>5. CASE Arrive
  <2>1. PICK f \in inFlight[Operator] : Arrive!1!(f)
    BY <1>5 DEF Arrive
  <2>2. StampedFor(f, HopCount)
    BY <2>1, <1>a DEF Operator, StampsInv
  <2>3. \A k \in 0 .. HopCount : inFlight'[k] \subseteq inFlight[k]
    BY <2>1, <1>d DEF Take
  <2>4. \A i \in DOMAIN received' : StampedFor(received'[i], HopCount)
    <3>1. received' = Append(received, f) /\ received \in Seq(Frames)
      BY <2>1 DEF TypeOK
    <3>2. \A i \in DOMAIN received' :
            \/ i \in DOMAIN received /\ received'[i] = received[i]
            \/ received'[i] = f
      BY <3>1
    <3>3. QED
      BY <2>2, <3>2 DEF StampsInv
  <2>5. QED
    BY <2>3, <2>4, <1>c DEF StampsInv
<1>6. CASE EdgeRestarts \/ UNCHANGED vars
  BY <1>1, <1>6 DEF EdgeRestarts, vars, StampsInv
<1>7. QED
  BY <1>2, <1>3, <1>4, <1>5, <1>6 DEF Next, Relays

(* Whatever is lost, delayed or repeated on a chain of any length, a frame  *)
(* arrives with the number of hops it crossed, or 255 when they are more,   *)
(* and with the last one's mark.                                            *)
THEOREM StampsAreTrue == Spec => []StampsTruthful
<1>1. Init => StampsInv
  BY DEF Init, StampsInv
<1>2. TypeOK /\ StampsInv => StampsTruthful
  <2>1. Min({IndexMax, HopCount}) =
          IF IndexMax <= HopCount THEN IndexMax ELSE HopCount
    BY PathAssumption, MinOfTwo
  <2>2. QED
    BY <2>1 DEF StampsInv, StampedFor, StampsTruthful
<1>3. QED
  BY <1>1, <1>2, TypeInit, TypeStep, StampStep, PTL DEF Spec

(* ------------------------- what gaps count ---------------------------- *)

(* The numbers of the edge go up by one, or fall when it is started again   *)
(* or seq wraps.                                                            *)
Falls == {i \in 1 .. Len(sent) - 1 : sent[i] >= sent[i + 1]}

(* Between two frames the numbers rise by no more than the frames between,  *)
(* and by just as many where they never fall.                               *)
SentInv ==
  /\ \A i, j \in 1 .. Len(sent) : i < j =>
       /\ sent[j] <= sent[i] + (j - i)
       /\ sent[j] = sent[i] + (j - i) \/ \E k \in i .. j - 1 : k \in Falls
  /\ sent # <<>> => nextSeq = 0 \/ nextSeq = sent[Len(sent)] + 1

(* A frame under way or arrived bears the number it was sent with.          *)
Genuine(f) == f.num \in 1 .. Len(sent) /\ f.seq = sent[f.num]

GenuineInv ==
  /\ \A h \in 0 .. HopCount : \A f \in inFlight[h] : Genuine(f)
  /\ \A i \in DOMAIN received : Genuine(received[i])

(* The account holds the number of the last frame to arrive.                *)
LastInv ==
  /\ received = <<>> => live = NoAccount
  /\ received # <<>> => live.seen /\ live.prev = received[Len(received)].seq

LEMMA SentStart == Init => SentInv /\ GenuineInv /\ LastInv
<1> SUFFICES ASSUME Init PROVE SentInv /\ GenuineInv /\ LastInv
  OBVIOUS
<1>1. sent = <<>> /\ received = <<>> /\ live = NoAccount
      /\ Len(sent) = 0 /\ DOMAIN received = {}
      /\ inFlight = [h \in 0 .. HopCount |-> {}]
  BY DEF Init
<1>2. QED
  BY <1>1 DEF SentInv, GenuineInv, LastInv

LEMMA SentStep == TypeOK /\ SentInv /\ [Next]_vars => SentInv'
<1> SUFFICES ASSUME TypeOK, SentInv, [Next]_vars PROVE SentInv'
  OBVIOUS
<1>1. SeqSpace \in Nat /\ SeqSpace >= 2 /\ sent \in Seq(Seqs)
      /\ nextSeq \in 0 .. SeqSpace - 1 /\ Len(sent) \in Nat
  BY PathAssumption DEF TypeOK, Seqs
<1>2. CASE Send
  <2> DEFINE n == Len(sent)
  <2>1. /\ sent' = Append(sent, nextSeq) /\ Len(sent') = n + 1
        /\ \A i \in 1 .. n : sent'[i] = sent[i] /\ sent[i] \in Nat
        /\ sent'[n + 1] = nextSeq
    <3>1. sent' = Append(sent, nextSeq)
      BY <1>2 DEF Send
    <3>2. \A i \in 1 .. n : sent[i] \in Nat
      BY <1>1, ElementOfSeq DEF Seqs
    <3>3. nextSeq \in Seqs
      BY DEF TypeOK
    <3>4. QED
      BY <1>1, <3>1, <3>2, <3>3, AppendProperties
  <2>2. nextSeq' = (nextSeq + 1) % SeqSpace
    BY <1>2 DEF Send
  <2>3. nextSeq' = 0 \/ nextSeq' = nextSeq + 1
    <3>1. CASE nextSeq + 1 = SeqSpace
      BY <1>1, <2>2, <3>1
    <3>2. CASE nextSeq + 1 < SeqSpace
      BY <1>1, <2>2, <3>2
    <3>3. QED
      BY <1>1, <3>1, <3>2
  <2>4. \A k \in 1 .. n - 1 : k \in Falls => k \in Falls'
    BY <1>1, <2>1 DEF Falls
  <2> HIDE DEF n
  <2>a. n = Len(sent) /\ n \in Nat
    BY <1>1 DEF n
  <2>5. n > 0 => nextSeq = 0 \/ nextSeq = sent[n] + 1
    BY <1>1, <2>a, EmptySeq DEF SentInv
  <2>6. n > 0 /\ nextSeq = 0 => n \in Falls'
    <3>1. n > 0 /\ nextSeq = 0 => n \in 1 .. (n + 1) - 1 /\ sent'[n] >= sent'[n + 1]
      BY <2>a, <2>1
    <3>2. QED
      BY <2>1, <3>1 DEF Falls
  <2>7. ASSUME NEW i \in 1 .. n + 1, NEW j \in 1 .. n + 1, i < j
        PROVE  /\ sent'[j] <= sent'[i] + (j - i)
               /\ \/ sent'[j] = sent'[i] + (j - i)
                  \/ \E k \in i .. j - 1 : k \in Falls'
    <3>1. CASE j <= n
      <4>1. i \in 1 .. n /\ j \in 1 .. n
        BY <2>a, <2>7, <3>1
      <4>2. /\ sent[j] <= sent[i] + (j - i)
            /\ sent[j] = sent[i] + (j - i) \/ \E k \in i .. j - 1 : k \in Falls
        BY <2>a, <2>7, <4>1 DEF SentInv
      <4>3. i .. j - 1 \subseteq 1 .. n - 1
        BY <2>a, <4>1
      <4>4. QED
        BY <2>1, <2>4, <4>1, <4>2, <4>3
    <3>2. CASE j = n + 1
      <4>1. i \in 1 .. n /\ n \in 1 .. n /\ n > 0 /\ j - 1 = n
        BY <2>a, <2>7, <3>2
      <4>2. sent'[i] = sent[i] /\ sent'[j] = nextSeq /\ sent[i] \in Nat
            /\ sent[n] \in Nat
        BY <2>1, <3>2, <4>1
      <4>3. /\ sent[n] <= sent[i] + (n - i)
            /\ sent[n] = sent[i] + (n - i) \/ \E k \in i .. n - 1 : k \in Falls
        <5>1. CASE i = n
          BY <2>a, <4>2, <5>1
        <5>2. CASE i < n
          BY <2>a, <4>1, <5>2 DEF SentInv
        <5>3. QED
          BY <2>a, <4>1, <5>1, <5>2
      <4>4. CASE nextSeq = 0
        <5>1. n \in i .. j - 1 /\ n \in Falls'
          BY <2>a, <2>6, <4>1, <4>4
        <5>2. 0 <= sent[i] + (j - i)
          BY <2>a, <2>7, <4>2
        <5>3. QED
          BY <4>2, <4>4, <5>1, <5>2
      <4>5. CASE nextSeq = sent[n] + 1
        <5>1. nextSeq <= sent[i] + (j - i)
          BY <2>a, <3>2, <4>1, <4>2, <4>3, <4>5
        <5>2. CASE sent[n] = sent[i] + (n - i)
          <6>1. nextSeq = sent[i] + (j - i)
            BY <2>a, <3>2, <4>1, <4>2, <4>5, <5>2
          <6>2. QED
            BY <4>2, <5>1, <6>1
        <5>3. CASE \E k \in i .. n - 1 : k \in Falls
          <6>1. PICK k \in i .. n - 1 : k \in Falls
            BY <5>3
          <6>2. k \in 1 .. n - 1 /\ k \in i .. j - 1
            BY <2>a, <4>1, <6>1
          <6>3. QED
            BY <2>4, <4>2, <5>1, <6>1, <6>2
        <5>4. QED
          BY <4>3, <5>2, <5>3
      <4>6. QED
        BY <2>5, <4>1, <4>4, <4>5
    <3>3. QED
      BY <2>a, <2>7, <3>1, <3>2
  <2>8. sent' # <<>> => nextSeq' = 0 \/ nextSeq' = sent'[Len(sent')] + 1
    BY <2>1, <2>3
  <2>9. QED
    BY <2>1, <2>7, <2>8 DEF SentInv
<1>3. CASE EdgeRestarts
  <2>1. sent' = sent /\ nextSeq' = 0
    BY <1>3 DEF EdgeRestarts
  <2>2. QED
    BY <2>1 DEF SentInv, Falls
<1>4. CASE sent' = sent /\ nextSeq' = nextSeq
  BY <1>4 DEF SentInv, Falls
<1>5. QED
  BY <1>2, <1>3, <1>4 DEF Next, Lose, Relays, Relay, Arrive, vars

LEMMA GenuineStep == TypeOK /\ GenuineInv /\ [Next]_vars => GenuineInv'
<1> SUFFICES ASSUME TypeOK, GenuineInv, [Next]_vars PROVE GenuineInv'
  OBVIOUS
<1>1. HopCount \in Nat /\ DOMAIN inFlight = 0 .. HopCount
      /\ sent \in Seq(Seqs) /\ Len(sent) \in Nat
  BY PathAssumption DEF TypeOK
<1>2. ASSUME sent' = sent, received' = received,
             \A h \in 0 .. HopCount : \A f \in inFlight'[h] : Genuine(f)
      PROVE  GenuineInv'
  BY <1>2 DEF GenuineInv, Genuine
<1>3. CASE Send
  <2>1. /\ sent' = Append(sent, nextSeq) /\ Len(sent') = Len(sent) + 1
        /\ \A i \in 1 .. Len(sent) : sent'[i] = sent[i]
        /\ sent'[Len(sent) + 1] = nextSeq
    <3>1. sent' = Append(sent, nextSeq) /\ nextSeq \in Seqs
      BY <1>3 DEF Send, TypeOK
    <3>2. QED
      BY <1>1, <3>1, AppendProperties
  <2> DEFINE new == [num |-> Len(sent'), seq |-> nextSeq, index |-> 0,
                     last |-> HopCount = 0]
  <2>2. inFlight' = [inFlight EXCEPT ![0] = @ \union {new}]
        /\ received' = received
    BY <1>3 DEF Send
  <2>3. new.num = Len(sent) + 1 /\ new.seq = nextSeq
    BY <2>1
  <2> HIDE DEF new
  <2>4. new.num \in 1 .. Len(sent') /\ new.seq = sent'[new.num]
    BY <1>1, <2>1, <2>3
  <2>5. \A f : Genuine(f) => f.num \in 1 .. Len(sent') /\ f.seq = sent'[f.num]
    BY <1>1, <2>1 DEF Genuine
  <2>6. \A h \in 0 .. HopCount : \A f \in inFlight'[h] :
          f.num \in 1 .. Len(sent') /\ f.seq = sent'[f.num]
    BY <1>1, <2>2, <2>4, <2>5 DEF GenuineInv
  <2>7. \A i \in DOMAIN received' :
          received'[i].num \in 1 .. Len(sent')
          /\ received'[i].seq = sent'[received'[i].num]
    BY <2>2, <2>5 DEF GenuineInv
  <2>8. QED
    BY <2>6, <2>7 DEF GenuineInv, Genuine
<1>4. CASE Lose
  BY <1>1, <1>2, <1>4 DEF Lose, GenuineInv
<1>5. ASSUME NEW h \in Hops, Relay(h) PROVE GenuineInv'
  <2>1. PICK f \in inFlight[h] : Relay(h)!1!(f)
    BY <1>5 DEF Relay
  <2>2. h \in 0 .. HopCount /\ h + 1 \in 0 .. HopCount /\ f \in Frames
    BY <1>1, <2>1 DEF Hops, TypeOK
  <2>3. Genuine(Stamped(f, isFinal[h]))
    <3>1. /\ Stamped(f, isFinal[h]).num = f.num
          /\ Stamped(f, isFinal[h]).seq = f.seq
      BY <2>2 DEF Stamped, Frames
    <3>2. Genuine(f)
      BY <2>1, <2>2 DEF GenuineInv
    <3>3. QED
      BY <3>1, <3>2 DEF Genuine
  <2> DEFINE onward == IF h = Lossy /\ f.seq \in dropped
                         THEN {} ELSE {Stamped(f, isFinal[h])}
  <2>4. \A g \in onward : Genuine(g)
    BY <2>3
  <2>5. \/ inFlight' = [inFlight EXCEPT ![h] = @ \ {f}, ![h + 1] = @ \union onward]
        \/ inFlight' = [inFlight EXCEPT ![h + 1] = @ \union onward]
    BY <2>1
  <2> HIDE DEF onward
  <2>6. \A k \in 0 .. HopCount : \A g \in inFlight'[k] :
          g \in inFlight[k] \/ g \in onward
    BY <1>1, <2>2, <2>5
  <2>7. QED
    BY <1>2, <1>5, <2>4, <2>6 DEF Relay, GenuineInv
<1>6. CASE Arrive
  <2>1. PICK f \in inFlight[Operator] : Arrive!1!(f)
    BY <1>6 DEF Arrive
  <2>2. Genuine(f)
    BY <1>1, <2>1 DEF Operator, GenuineInv
  <2>3. \A k \in 0 .. HopCount : inFlight'[k] \subseteq inFlight[k]
    BY <1>1, <2>1 DEF Take
  <2>4. \A i \in DOMAIN received' : Genuine(received'[i])
    <3>1. received' = Append(received, f) /\ received \in Seq(Frames)
      BY <2>1 DEF TypeOK
    <3>2. \A i \in DOMAIN received' :
            \/ i \in DOMAIN received /\ received'[i] = received[i]
            \/ received'[i] = f
      BY <3>1
    <3>3. QED
      BY <2>2, <3>2 DEF GenuineInv
  <2>5. sent' = sent
    BY <1>6 DEF Arrive
  <2>6. QED
    BY <2>3, <2>4, <2>5 DEF GenuineInv, Genuine
<1>7. CASE EdgeRestarts \/ UNCHANGED vars
  BY <1>2, <1>7 DEF EdgeRestarts, vars, GenuineInv
<1>8. QED
  BY <1>3, <1>4, <1>5, <1>6, <1>7 DEF Next, Relays

LEMMA LastStep == TypeOK /\ LastInv /\ [Next]_vars => LastInv'
<1> SUFFICES ASSUME TypeOK, LastInv, [Next]_vars PROVE LastInv'
  OBVIOUS
<1>1. CASE Arrive
  <2>1. PICK f \in inFlight[Operator] : Arrive!1!(f)
    BY <1>1 DEF Arrive
  <2>2. received' = Append(received, f) /\ received \in Seq(Frames)
        /\ live' = Tracked(live, f.seq) /\ live \in Accounts
    BY <2>1 DEF TypeOK, Accounts
  <2>3. Len(received') = Len(received) + 1 /\ received'[Len(received')] = f
        /\ received' # <<>>
    BY <2>2
  <2>4. live'.seen /\ live'.prev = f.seq
    BY <2>2 DEF Tracked, Accounts
  <2>5. QED
    BY <2>3, <2>4 DEF LastInv
<1>2. CASE received' = received /\ live' = live
  BY <1>2 DEF LastInv
<1>3. QED
  BY <1>1, <1>2 DEF Next, Send, EdgeRestarts, Lose, Relays, Relay, vars

LEMMA GreatestIs ==
  ASSUME NEW S \in SUBSET Nat, NEW m \in S, \A x \in S : x <= m
  PROVE  Max(S) = m
<1>1. m \in S /\ \A y \in S : m >= y
  OBVIOUS
<1>2. Max(S) \in S /\ \A y \in S : Max(S) >= y
  BY <1>1 DEF Max
<1>3. Max(S) >= m /\ Max(S) <= m /\ Max(S) \in Nat /\ m \in Nat
  BY <1>2
<1>4. QED
  BY <1>3

LastNum == received[Len(received)].num

(* The last frame to arrive and the latest one of those that did.           *)
TopInv == received # <<>> => \E top \in Nums : \A x \in Nums : x <= top

(* The frames missing are no more than the gaps say.                        *)
LossInv == Rising => Cardinality(Missing) <= live.gaps

(* In order, gaps say no more than is missing, and each duplicate is the    *)
(* price of a fall of the numbers before the last frame to arrive.          *)
OrderInv ==
  InOrder =>
    /\ received # <<>> => \A x \in Nums : x <= LastNum
    /\ live.gaps <= Cardinality(Missing)
    /\ Rising => live.gaps = Cardinality(Missing)
    /\ received = <<>> => live.dups = 0
    /\ received # <<>> => live.dups <= Cardinality(Falls \intersect (1 .. LastNum - 1))

LEMMA NumsAre ==
  ASSUME TypeOK
  PROVE  /\ Nums \in SUBSET Nat
         /\ received # <<>> => /\ Len(received) \in Nat \ {0}
                               /\ received[1].num \in Nums
                               /\ LastNum \in Nums
<1>1. received \in Seq(Frames) /\ MaxFrames \in Nat
  BY PathAssumption DEF TypeOK
<1>2. \A i \in DOMAIN received : received[i].num \in Nat
  <2>1. \A i \in DOMAIN received : received[i] \in Frames
    BY <1>1
  <2>2. QED
    BY <1>1, <2>1 DEF Frames
<1>3. received # <<>> => Len(received) \in Nat \ {0}
  BY <1>1, EmptySeq
<1>4. received # <<>> => 1 \in DOMAIN received /\ Len(received) \in DOMAIN received
  BY <1>1, <1>3
<1>5. QED
  BY <1>2, <1>3, <1>4 DEF Nums, LastNum

(* The frames missing, given the latest to arrive.                          *)
LEMMA MissingIs ==
  ASSUME TypeOK, received # <<>>, NEW top \in Nums, \A x \in Nums : x <= top
  PROVE  /\ Missing = (received[1].num .. top) \ Nums
         /\ received[1].num <= top
         /\ IsFiniteSet(Missing) /\ Cardinality(Missing) \in Nat
<1>1. Nums \in SUBSET Nat /\ received[1].num \in Nums
  BY NumsAre
<1>2. Max(Nums) = top
  BY <1>1, GreatestIs
<1>3. Missing = (received[1].num .. top) \ Nums
  BY <1>2 DEF Missing
<1>4. IsFiniteSet(received[1].num .. top)
  <2>0. \A x \in Nums : x \in Int
    BY <1>1
  <2>1. received[1].num \in Int /\ top \in Int
    BY <1>1, <2>0, Zenon
  <2>2. QED
    BY <2>1, FS_Interval
<1>5. QED
  BY <1>1, <1>3, <1>4, FS_Difference, FS_CardinalityType

LEMMA NothingMissing ==
  ASSUME received = <<>>
  PROVE  Cardinality(Missing) = 0
<1>1. Missing = {}
  BY DEF Missing
<1>2. QED
  BY <1>1, FS_EmptySet, Zenon

(* The numbers of two frames, by how many were sent between.                *)
LEMMA NumbersBetween ==
  ASSUME TypeOK, SentInv, NEW i \in 1 .. Len(sent), NEW j \in 1 .. Len(sent), i < j
  PROVE  /\ sent[i] \in Nat /\ sent[j] \in Nat
         /\ sent[j] <= sent[i] + (j - i)
         /\ sent[j] <= sent[i] => \E k \in i .. j - 1 : k \in Falls
         /\ Rising => sent[j] = sent[i] + (j - i)
<1>1. sent \in Seq(Seqs) /\ Len(sent) \in Nat
  BY DEF TypeOK
<1>2. \A k \in 1 .. Len(sent) : sent[k] \in Nat
  <2>1. \A k \in 1 .. Len(sent) : sent[k] \in Seqs
    BY <1>1
  <2>2. QED
    BY <2>1 DEF Seqs
<1>3. /\ sent[j] <= sent[i] + (j - i)
      /\ sent[j] = sent[i] + (j - i) \/ \E k \in i .. j - 1 : k \in Falls
  BY DEF SentInv
<1>4. Rising => \A k : k \notin Falls
  <2>1. SUFFICES ASSUME Rising, NEW k \in 1 .. Len(sent) - 1
                 PROVE  ~(sent[k] >= sent[k + 1])
    BY DEF Falls
  <2>2. k \in 1 .. Len(sent) /\ k + 1 \in 1 .. Len(sent)
    BY <1>1
  <2>3. QED
    BY <1>2, <2>1, <2>2 DEF Rising
<1>5. QED
  BY <1>1, <1>2, <1>3, <1>4

(* What one more arrival adds to the account.                               *)
LEMMA AccountAdds ==
  ASSUME NEW a \in Accounts, a.seen, NEW seq \in Seqs
  PROVE  /\ Tracked(a, seq).gaps =
              a.gaps + (IF seq > a.prev + 1 THEN seq - (a.prev + 1) ELSE 0)
         /\ Tracked(a, seq).dups = a.dups + (IF seq <= a.prev THEN 1 ELSE 0)
BY DEF Tracked, Accounts

(* The next frame to arrive, after others.                                  *)
LEMMA ArriveAfter ==
  ASSUME TypeOK, SentInv, GenuineInv, LastInv, TopInv, LossInv, OrderInv,
         received # <<>>, NEW f \in Frames, Genuine(f), sent' = sent,
         received' = Append(received, f), live' = Tracked(live, f.seq), TypeOK'
  PROVE  TopInv' /\ LossInv' /\ OrderInv'
<1> DEFINE m == f.num
           l == LastNum
           first == received[1].num
<1>1. /\ received \in Seq(Frames) /\ Len(received) \in Nat \ {0}
      /\ Nums \in SUBSET Nat /\ first \in Nums /\ l \in Nums
      /\ m \in Nat
  <2>1. received \in Seq(Frames)
    BY DEF TypeOK
  <2>2. Len(received) \in Nat \ {0} /\ Nums \in SUBSET Nat
        /\ received[1].num \in Nums /\ LastNum \in Nums
    BY NumsAre
  <2>3. f.num \in Nat
    BY PathAssumption DEF Frames
  <2>4. QED
    BY <2>1, <2>2, <2>3
<1>2. /\ Len(received') = Len(received) + 1 /\ received' # <<>>
      /\ \A i \in 1 .. Len(received) : received'[i] = received[i]
      /\ received'[Len(received) + 1] = f
  BY <1>1, AppendProperties
<1>3. Nums' = Nums \union {m} /\ received'[1].num = first /\ LastNum' = m
  <2>1. DOMAIN received = 1 .. Len(received)
        /\ DOMAIN received' = 1 .. Len(received) + 1
        /\ 1 .. Len(received) + 1 = (1 .. Len(received)) \union {Len(received) + 1}
    BY <1>1, <1>2
  <2>2. Nums' = Nums \union {m}
    BY <1>2, <2>1 DEF Nums
  <2>3. 1 \in 1 .. Len(received)
    BY <1>1
  <2>4. QED
    BY <1>2, <2>2, <2>3 DEF LastNum
<1>4. PICK top \in Nums : \A x \in Nums : x <= top
  BY DEF TopInv
<1>5. /\ Missing = (first .. top) \ Nums /\ first <= top
      /\ IsFiniteSet(Missing) /\ Cardinality(Missing) \in Nat
  BY <1>4, MissingIs
<1>6. l <= top /\ l \in Nat /\ top \in Nat /\ first \in Nat
  BY <1>1, <1>4
<1> DEFINE top2 == IF m > top THEN m ELSE top
<1>7. top2 \in Nums' /\ \A x \in Nums' : x <= top2
  BY <1>1, <1>3, <1>4, <1>6
<1>8. TopInv'
  BY <1>7 DEF TopInv
<1>9. Missing' = (first .. top2) \ (Nums \union {m})
  <2>1. Max(Nums') = top2
    <3>1. Nums' \in SUBSET Nat
      BY <1>1, <1>3
    <3> HIDE DEF top2
    <3>2. QED
      BY <1>7, <3>1, GreatestIs
  <2>2. Missing' = (received'[1].num .. Max(Nums')) \ Nums'
    BY <1>2 DEF Missing
  <2> HIDE DEF top2
  <2>3. QED
    BY <1>3, <2>1, <2>2
<1>10. m <= top => /\ Cardinality(Missing') <= Cardinality(Missing)
                   /\ Cardinality(Missing') \in Nat
  <2>1. ASSUME m <= top PROVE Missing' \in SUBSET Missing
    <3>1. top2 = top
      BY <1>1, <1>6, <2>1
    <3> HIDE DEF top2
    <3>2. QED
      BY <1>5, <1>9, <3>1
  <2>2. QED
    BY <1>5, <2>1, FS_Subset, FS_CardinalityType
<1>11. m > top => Cardinality(Missing') = Cardinality(Missing) + (m - 1 - top)
  <2>1. SUFFICES ASSUME m > top
                 PROVE  Cardinality(Missing') = Cardinality(Missing) + (m - 1 - top)
    OBVIOUS
  <2> DEFINE new == top + 1 .. m - 1
  <2>2. Missing' = Missing \union new /\ Missing \intersect new = {}
    <3>1. top2 = m
      BY <2>1
    <3>2. (first .. m) \ (Nums \union {m}) = ((first .. top) \ Nums) \union new
      <4>1. SUFFICES ASSUME NEW x
                     PROVE  x \in (first .. m) \ (Nums \union {m})
                              <=> x \in ((first .. top) \ Nums) \union new
        OBVIOUS
      <4>2. x \in new => x \in Nat /\ x > top /\ x < m /\ x \notin Nums
        BY <1>4, <1>6, <1>1
      <4>3. x \in (first .. m) \ {m} <=> x \in (first .. top) \union new
        BY <1>1, <1>5, <1>6, <2>1
      <4>4. x \in (first .. top) => x # m
        BY <1>1, <1>6, <2>1
      <4> HIDE DEF new, m, first
      <4>5. QED
        BY <4>2, <4>3, <4>4
    <3>3. Missing \intersect new = {}
      BY <1>5, <1>6
    <3> HIDE DEF top2, new, m, first
    <3>4. QED
      BY <1>5, <1>9, <3>1, <3>2, <3>3
  <2>3. IsFiniteSet(new) /\ Cardinality(new) = m - 1 - top
    <3> DEFINE a == top + 1
               b == m - 1
    <3>1. a \in Int /\ b \in Int /\ a <= b + 1 /\ b - a + 1 = m - 1 - top
          /\ (a > b => m - 1 - top = 0)
      BY <1>1, <1>6, <2>1
    <3> HIDE DEF a, b
    <3>2. IsFiniteSet(a .. b) /\ Cardinality(a .. b) = IF a > b THEN 0 ELSE b - a + 1
      BY <3>1, FS_Interval
    <3>3. (IF a > b THEN 0 ELSE b - a + 1) = m - 1 - top
      BY <3>1
    <3>4. new = a .. b
      BY DEF a, b
    <3> HIDE DEF new
    <3>5. QED
      BY <3>2, <3>3, <3>4
  <2> HIDE DEF new
  <2>4. Cardinality(Missing \union new) =
          Cardinality(Missing) + Cardinality(new) - Cardinality(Missing \intersect new)
    BY <1>5, <2>3, FS_Union
  <2>5. Cardinality(Missing \intersect new) = 0
    BY <2>2, FS_EmptySet, Zenon
  <2>6. Cardinality(Missing') = Cardinality(Missing \union new)
    BY <2>2, Zenon
  <2>7. QED
    BY <1>1, <1>5, <1>6, <2>3, <2>4, <2>5, <2>6
<1>12. /\ m \in 1 .. Len(sent) /\ f.seq = sent[m] /\ f.seq \in Seqs
       /\ l \in 1 .. Len(sent) /\ live.prev = sent[l] /\ live.seen
       /\ live \in Accounts /\ Len(sent) \in Nat
  <2>1. Genuine(received[Len(received)])
    BY <1>1 DEF GenuineInv
  <2>2. l \in 1 .. Len(sent) /\ live.prev = sent[l] /\ live.seen
    BY <2>1 DEF Genuine, LastInv, LastNum
  <2>3. m \in 1 .. Len(sent) /\ f.seq = sent[m]
    BY DEF Genuine
  <2>4. f.seq \in Seqs
    BY DEF Frames
  <2>5. sent \in Seq(Seqs) /\ live \in Accounts
    BY DEF TypeOK, Accounts
  <2>6. QED
    BY <2>2, <2>3, <2>4, <2>5
<1> DEFINE hole == IF sent[m] > sent[l] + 1 THEN sent[m] - (sent[l] + 1) ELSE 0
           back == IF sent[m] <= sent[l] THEN 1 ELSE 0
<1>13. live'.gaps = live.gaps + hole /\ live'.dups = live.dups + back
  BY <1>12, AccountAdds
<1>14. /\ live.gaps \in Nat /\ live.dups \in Nat
       /\ sent[m] \in Nat /\ sent[l] \in Nat
  BY <1>12 DEF Accounts, Seqs
<1>15. hole \in Nat
  BY <1>14
<1>16. m > l => /\ hole <= m - l - 1
                /\ Rising => hole = m - l - 1
                /\ sent[m] <= sent[l] => \E k \in l .. m - 1 : k \in Falls
  <2>1. SUFFICES ASSUME m > l
                 PROVE  /\ hole <= m - l - 1
                        /\ Rising => hole = m - l - 1
                        /\ sent[m] <= sent[l] => \E k \in l .. m - 1 : k \in Falls
    OBVIOUS
  <2>2. /\ sent[m] <= sent[l] + (m - l)
        /\ sent[m] <= sent[l] => \E k \in l .. m - 1 : k \in Falls
        /\ Rising => sent[m] = sent[l] + (m - l)
    BY <1>6, <1>1, <1>12, <2>1, NumbersBetween
  <2> DEFINE x == sent[m]
             y == sent[l]
  <2>a. m \in Nat /\ l \in Nat /\ x \in Nat /\ y \in Nat
    BY <1>1, <1>6, <1>14
  <2>b. hole = IF x > y + 1 THEN x - (y + 1) ELSE 0
    OBVIOUS
  <2>c. x <= y + (m - l) /\ (Rising => x = y + (m - l))
    BY <2>2
  <2>3. hole <= m - l - 1 /\ (Rising => hole = m - l - 1)
    <3> HIDE DEF x, y, hole, m, l
    <3>1. CASE x > y + 1
      BY <2>1, <2>a, <2>b, <2>c, <3>1
    <3>2. CASE ~(x > y + 1)
      <4>1. hole = 0
        BY <2>b, <3>2
      <4>2. 0 <= m - l - 1
        BY <2>1, <2>a
      <4>3. ASSUME Rising PROVE m - l - 1 = 0
        BY <2>1, <2>a, <2>c, <3>2, <4>3
      <4>4. QED
        BY <4>1, <4>2, <4>3
    <3>3. QED
      BY <3>1, <3>2
  <2>4. QED
    BY <2>2, <2>3
<1> HIDE DEF m, l, first, top2, hole, back
<1>17. Rising' <=> Rising
  BY DEF Rising
<1>18. LossInv'
  <2>1. SUFFICES ASSUME Rising PROVE Cardinality(Missing') <= live'.gaps
    BY <1>17 DEF LossInv
  <2>2. Cardinality(Missing) <= live.gaps
    BY <2>1 DEF LossInv
  <2>3. CASE m <= top
    <3>1. Cardinality(Missing') <= Cardinality(Missing)
          /\ Cardinality(Missing') \in Nat
      BY <1>10, <2>3
    <3>2. QED
      BY <1>5, <1>13, <1>14, <1>15, <2>2, <3>1
  <2>4. CASE m > top
    <3>1. m > l /\ hole = m - l - 1
      BY <1>1, <1>6, <1>16, <2>1, <2>4
    <3>2. QED
      BY <1>1, <1>5, <1>6, <1>11, <1>13, <1>14, <2>2, <2>4, <3>1
  <2>5. QED
    BY <1>1, <1>6, <2>3, <2>4
<1>19. OrderInv'
  <2>1. SUFFICES ASSUME InOrder' PROVE OrderInv'
    BY DEF OrderInv
  <2>2. InOrder /\ m > l
    <3>1. \A i \in 1 .. Len(received) - 1 :
            i \in 1 .. Len(received) /\ i + 1 \in 1 .. Len(received)
            /\ i \in 1 .. Len(received') - 1
      BY <1>1, <1>2
    <3>2. InOrder
      BY <1>2, <2>1, <3>1 DEF InOrder
    <3>3. /\ Len(received) \in 1 .. Len(received') - 1
          /\ Len(received) \in 1 .. Len(received)
      BY <1>1, <1>2
    <3>4. received'[Len(received)].num < received'[Len(received) + 1].num
      BY <2>1, <3>3 DEF InOrder
    <3>5. l < m
      BY <1>2, <3>3, <3>4 DEF l, m, LastNum
    <3>6. QED
      BY <1>1, <1>6, <3>2, <3>5
  <2>3. top = l
    <3>1. \A x \in Nums : x <= l
      BY <2>2 DEF OrderInv, l
    <3>2. QED
      BY <1>4, <1>6, <3>1
  <2>4. /\ live.gaps <= Cardinality(Missing)
        /\ Rising => live.gaps = Cardinality(Missing)
        /\ live.dups <= Cardinality(Falls \intersect (1 .. l - 1))
    BY <2>2 DEF OrderInv, l
  <2>5. Cardinality(Missing') = Cardinality(Missing) + (m - 1 - l)
    BY <1>11, <2>2, <2>3
  <2>6. ASSUME NEW x \in Nums' PROVE x <= m
    <3>1. CASE x \in Nums
      <4>1. x \in Nat /\ x <= top
        BY <1>1, <1>4, <3>1
      <4>2. QED
        BY <1>1, <1>6, <2>2, <2>3, <4>1
    <3>2. CASE x = m
      BY <1>1, <3>2
    <3>3. QED
      BY <1>3, <3>1, <3>2
  <2>7. live'.gaps <= Cardinality(Missing')
    BY <1>1, <1>5, <1>6, <1>13, <1>14, <1>15, <1>16, <2>2, <2>4, <2>5
  <2>8. Rising => live'.gaps = Cardinality(Missing')
    BY <1>1, <1>5, <1>6, <1>13, <1>14, <1>15, <1>16, <2>2, <2>4, <2>5
  <2>9. live'.dups <= Cardinality(Falls \intersect (1 .. m - 1))
    <3> DEFINE D == Falls \intersect (1 .. l - 1)
               E == Falls \intersect (1 .. m - 1)
    <3>1. D \subseteq E
      BY <1>1, <1>6, <2>2
    <3>2. IsFiniteSet(E)
      <4>1. IsFiniteSet(1 .. m - 1)
        BY <1>1, FS_Interval
      <4>2. QED
        BY <4>1, FS_Intersection
    <3>3. IsFiniteSet(D) /\ Cardinality(D) <= Cardinality(E)
          /\ Cardinality(D) \in Nat /\ Cardinality(E) \in Nat
      BY <3>1, <3>2, FS_Subset, FS_CardinalityType
    <3>4. CASE ~(sent[m] <= sent[l])
      <4>1. back = 0
        BY <3>4 DEF back
      <4>2. QED
        BY <1>13, <1>14, <2>4, <3>3, <4>1
    <3>5. CASE sent[m] <= sent[l]
      <4>1. PICK k \in l .. m - 1 : k \in Falls
        BY <1>16, <2>2, <3>5
      <4>2. l >= 1
        BY <1>12
      <4>3. k \in E /\ k \notin D
        BY <1>1, <1>6, <4>1, <4>2
      <4> HIDE DEF D, E
      <4>4. Cardinality(D \union {k}) = Cardinality(D) + 1
        BY <3>3, <4>3, FS_AddElement
      <4>5. D \union {k} \in SUBSET E
        BY <3>1, <4>3
      <4>6. Cardinality(D \union {k}) <= Cardinality(E)
        BY <3>2, <4>5, FS_Subset
      <4>7. back = 1
        BY <3>5 DEF back
      <4>8. live.dups <= Cardinality(D)
        BY <2>4 DEF D
      <4>9. live'.dups <= Cardinality(E)
        BY <1>13, <1>14, <3>3, <4>4, <4>6, <4>7, <4>8
      <4>10. QED
        BY <4>9 DEF E
    <3>6. QED
      BY <3>4, <3>5
  <2>10. Falls' = Falls
    BY DEF Falls
  <2>11. QED
    BY <1>2, <1>3, <1>17, <2>6, <2>7, <2>8, <2>9, <2>10 DEF OrderInv
<1>20. QED
  BY <1>8, <1>18, <1>19

(* The first frame to arrive is the latest, and nothing is missing.         *)
LEMMA ArriveFirst ==
  ASSUME TypeOK, LastInv, received = <<>>, NEW f \in Frames,
         received' = <<f>>, live' = Tracked(live, f.seq), sent' = sent
  PROVE  TopInv' /\ LossInv' /\ OrderInv'
<1>1. f.num \in Nat
  BY PathAssumption DEF Frames
<1>2. DOMAIN received' = {1} /\ received'[1] = f /\ Len(received') = 1
      /\ received' # <<>>
  OBVIOUS
<1>3. Nums' = {f.num} /\ LastNum' = f.num
  BY <1>2 DEF Nums, LastNum
<1>4. Missing' = {}
  <2>1. Max(Nums') = f.num
    <3>1. {f.num} \in SUBSET Nat /\ f.num \in {f.num} /\ \A x \in {f.num} : x <= f.num
      BY <1>1
    <3>2. QED
      BY <1>3, <3>1, GreatestIs
  <2>2. Missing' = (received'[1].num .. Max(Nums')) \ Nums'
    BY <1>2 DEF Missing
  <2>3. QED
    BY <1>1, <1>2, <1>3, <2>1, <2>2
<1>5. Cardinality(Missing') = 0
  BY <1>4, FS_EmptySet, Zenon
<1>6. live'.gaps = 0 /\ live'.dups = 0
  <2>1. live = NoAccount
    BY DEF LastInv
  <2>2. live' = [NoAccount EXCEPT !.seen = TRUE, !.prev = f.seq]
    BY <2>1 DEF Tracked, NoAccount
  <2>3. QED
    BY <2>2 DEF NoAccount
<1>7. 0 <= Cardinality(Falls \intersect (1 .. f.num - 1))
  <2>1. IsFiniteSet(1 .. f.num - 1)
    BY <1>1, FS_Interval
  <2> DEFINE E == Falls \intersect (1 .. f.num - 1)
  <2>2. IsFiniteSet(E)
    BY <2>1, FS_Intersection
  <2> HIDE DEF E
  <2>3. Cardinality(E) \in Nat
    BY <2>2, FS_CardinalityType
  <2>4. QED
    BY <2>3 DEF E
<1>8. Falls' = Falls
  BY DEF Falls
<1>9. TopInv' /\ LossInv'
  BY <1>1, <1>3, <1>5, <1>6 DEF TopInv, LossInv
<1>10. OrderInv'
  <2>1. \A x \in Nums' : x <= LastNum'
    BY <1>1, <1>3
  <2>2. live'.dups <= Cardinality(Falls' \intersect (1 .. LastNum' - 1))
    BY <1>3, <1>6, <1>7, <1>8
  <2>3. QED
    BY <1>2, <1>5, <1>6, <2>1, <2>2 DEF OrderInv
<1>11. QED
  BY <1>9, <1>10

(* Everything that relates what was sent to what arrived and what is        *)
(* counted.                                                                 *)
CountsInv ==
  /\ TypeOK
  /\ SentInv
  /\ GenuineInv
  /\ LastInv
  /\ TopInv
  /\ LossInv
  /\ OrderInv

LEMMA CountsStart == Init => CountsInv
<1> SUFFICES ASSUME Init PROVE CountsInv
  OBVIOUS
<1>1. received = <<>> /\ live = NoAccount
  BY DEF Init
<1>2. Cardinality(Missing) = 0
  BY <1>1, NothingMissing
<1>3. TopInv /\ LossInv /\ OrderInv
  BY <1>1, <1>2 DEF TopInv, LossInv, OrderInv, NoAccount
<1>4. QED
  BY <1>3, TypeInit, SentStart DEF CountsInv

LEMMA CountsStep == CountsInv /\ [Next]_vars => CountsInv'
<1> SUFFICES ASSUME CountsInv, [Next]_vars PROVE CountsInv'
  OBVIOUS
<1>0. TypeOK' /\ SentInv' /\ GenuineInv' /\ LastInv'
  BY TypeStep, SentStep, GenuineStep, LastStep DEF CountsInv
<1>1. CASE Arrive
  <2>1. PICK f \in inFlight[Operator] : Arrive!1!(f)
    BY <1>1 DEF Arrive
  <2>2. f \in Frames /\ Genuine(f)
    BY <2>1, PathAssumption DEF CountsInv, GenuineInv, TypeOK, Operator
  <2>3. received' = Append(received, f) /\ live' = Tracked(live, f.seq)
        /\ sent' = sent
    BY <1>1, <2>1 DEF Arrive
  <2>4. CASE received = <<>>
    <3>1. received' = <<f>>
      BY <2>3, <2>4
    <3>2. QED
      BY <1>0, <2>2, <2>3, <2>4, <3>1, ArriveFirst DEF CountsInv
  <2>5. CASE received # <<>>
    BY <1>0, <2>2, <2>3, <2>5, ArriveAfter DEF CountsInv
  <2>6. QED
    BY <2>4, <2>5
<1>2. ASSUME received' = received, live' = live,
             Rising' => Rising,
             received # <<>> =>
               Falls' \intersect (1 .. LastNum - 1) = Falls \intersect (1 .. LastNum - 1)
      PROVE  CountsInv'
  <2>1. /\ Nums' = Nums /\ Missing' = Missing /\ LastNum' = LastNum
        /\ InOrder' <=> InOrder
    BY <1>2 DEF Nums, Missing, LastNum, InOrder
  <2>2. TopInv' /\ LossInv'
    BY <1>2, <2>1 DEF CountsInv, TopInv, LossInv
  <2>3. OrderInv'
    <3>1. received # <<>> =>
            Cardinality(Falls' \intersect (1 .. LastNum - 1))
              = Cardinality(Falls \intersect (1 .. LastNum - 1))
      BY <1>2, Zenon
    <3>2. QED
      BY <1>2, <2>1, <3>1 DEF CountsInv, OrderInv
  <2>4. QED
    BY <1>0, <2>2, <2>3 DEF CountsInv
<1>3. CASE Send
  <2>1. sent \in Seq(Seqs) /\ Len(sent) \in Nat /\ nextSeq \in Seqs
    BY DEF CountsInv, TypeOK
  <2>2. /\ Len(sent') = Len(sent) + 1
        /\ \A i \in 1 .. Len(sent) : sent'[i] = sent[i]
    BY <1>3, <2>1, AppendProperties DEF Send
  <2>3. ASSUME NEW i \in 1 .. Len(sent) - 1
        PROVE  /\ i \in 1 .. Len(sent') - 1
               /\ sent'[i] = sent[i] /\ sent'[i + 1] = sent[i + 1]
    BY <2>1, <2>2
  <2>4. Rising' => Rising
    BY <2>3 DEF Rising
  <2>5. ASSUME received # <<>>
        PROVE  Falls' \intersect (1 .. LastNum - 1) = Falls \intersect (1 .. LastNum - 1)
    <3>1. LastNum \in 1 .. Len(sent)
      <4>1. Len(received) \in DOMAIN received
        BY <2>5, NumsAre DEF CountsInv, TypeOK
      <4>2. QED
        BY <4>1 DEF CountsInv, GenuineInv, Genuine, LastNum
    <3>2. \A i \in 1 .. LastNum - 1 : i \in 1 .. Len(sent) - 1
      BY <2>1, <3>1
    <3>3. \A i \in 1 .. LastNum - 1 : i \in Falls' <=> i \in Falls
      BY <2>3, <3>2 DEF Falls
    <3>4. QED
      BY <3>3
  <2>6. QED
    BY <1>2, <1>3, <2>4, <2>5 DEF Send
<1>4. CASE received' = received /\ live' = live /\ sent' = sent
  <2>1. (Rising' <=> Rising) /\ Falls' = Falls
    BY <1>4 DEF Rising, Falls
  <2>2. QED
    BY <1>2, <1>4, <2>1
<1>5. QED
  BY <1>1, <1>3, <1>4 DEF Next, EdgeRestarts, Lose, Relays, Relay, vars

(* Whatever is lost, delayed or repeated on the way, and however long the   *)
(* chain: while the edge runs on, trackGaps has counted every frame that is *)
(* missing.                                                                 *)
THEOREM NothingUnreported == Spec => []LossesReported
<1>1. CountsInv => LossesReported
  <2>1. SUFFICES ASSUME CountsInv, Rising PROVE live.gaps >= Cardinality(Missing)
    BY DEF LossesReported
  <2>2. Cardinality(Missing) <= live.gaps
    BY <2>1 DEF CountsInv, LossInv
  <2>3. QED
    BY <2>2
<1>2. QED
  BY <1>1, CountsStart, CountsStep, PTL DEF Spec

(* In order, trackGaps counts no frame that is not missing and at most one  *)
(* duplicate for each fall of the numbers, and without a fall it counts the *)
(* missing frames exactly.                                                  *)
THEOREM GapsAreExact == Spec => []ExactInOrder
<1>1. CountsInv => ExactInOrder
  <2>1. SUFFICES ASSUME CountsInv, InOrder PROVE ExactInOrder
    BY DEF ExactInOrder
  <2>2. live.dups \in Nat /\ Len(sent) \in Nat
    BY <2>1 DEF CountsInv, TypeOK
  <2>3. IsFiniteSet(Falls)
    <3> DEFINE n == Len(sent) - 1
    <3>1. n \in Int
      BY <2>2
    <3>2. Falls \in SUBSET (1 .. n)
      BY DEF Falls
    <3> HIDE DEF n
    <3>3. 1 \in Int /\ IsFiniteSet(1 .. n)
      BY <3>1, FS_Interval
    <3>4. QED
      BY <3>2, <3>3, FS_Subset
  <2>4. live.dups <= Cardinality(Falls)
    <3>1. CASE received = <<>>
      <4>1. live.dups = 0
        BY <2>1, <3>1 DEF CountsInv, OrderInv
      <4>2. Cardinality(Falls) \in Nat
        BY <2>3, FS_CardinalityType
      <4>3. QED
        BY <4>1, <4>2
    <3>2. CASE received # <<>>
      <4> DEFINE D == Falls \intersect (1 .. LastNum - 1)
      <4>1. live.dups <= Cardinality(D)
        BY <2>1, <3>2 DEF CountsInv, OrderInv
      <4>2. D \in SUBSET Falls
        OBVIOUS
      <4> HIDE DEF D
      <4>3. Cardinality(D) <= Cardinality(Falls)
            /\ Cardinality(D) \in Nat /\ Cardinality(Falls) \in Nat
        BY <2>3, <4>2, FS_Subset, FS_CardinalityType
      <4>4. QED
        BY <2>2, <4>1, <4>3
    <3>3. QED
      BY <3>1, <3>2
  <2>5. /\ live.gaps <= Cardinality(Missing)
        /\ Rising => live.gaps = Cardinality(Missing)
    BY <2>1 DEF CountsInv, OrderInv
  <2>6. QED
    BY <2>4, <2>5 DEF ExactInOrder, Falls
<1>2. QED
  BY <1>1, CountsStart, CountsStep, PTL DEF Spec
=============================================================================
