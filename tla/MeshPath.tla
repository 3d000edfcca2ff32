------------------------------- MODULE MeshPath -------------------------------
(***************************************************************************)
(* The way of one edge's frames over UDP: the edge numbers them (main.cpp), *)
(* a chain of hops checks, drops, stamps and forwards them (hop.cpp), and   *)
(* two programs keep an account of what arrives: the operator as it comes   *)
(* (TelemetryPipeline.offer) and the inspect tool from a capture of it      *)
(* (zcm_analyze.hpp).                                                       *)
(*                                                                         *)
(* Datagrams are lost, overtake one another and may arrive twice.  A frame  *)
(* that arrives is whole, for UDP has a checksum of its own; the hop's CRC  *)
(* test is left out with the damaged frames it is for.                      *)
(*                                                                         *)
(* Both accounts are kept per node id, so one edge is enough.  num is the   *)
(* number of a frame in the order of sending, seq is what its header says:  *)
(* they part when the edge is started again and when seq wraps.             *)
(***************************************************************************)
EXTENDS Integers, Sequences, FiniteSets, FiniteSetsExt, SequencesExt

CONSTANTS
  HopCount,     \* hops between the edge and the operator
  SeqSpace,     \* 2^32, where seq wraps
  IndexMax,     \* 255, where the hop index saturates
  MaxFrames,    \* bound: frames sent
  MaxCopies,    \* bound: datagrams the network duplicates
  MaxRestarts   \* bound: times the edge is started again

ASSUME PathAssumption ==
  /\ HopCount \in Nat
  /\ SeqSpace \in Nat /\ SeqSpace >= 2
  /\ IndexMax \in Nat \ {0}
  /\ MaxFrames \in Nat
  /\ MaxCopies \in Nat
  /\ MaxRestarts \in Nat

VARIABLES
  nextSeq,      \* seq of the edge
  sent,         \* history: the seq of every frame sent, by num
  restarts,
  copies,
  dropped,      \* the seqs should_drop picks, at the hop given --loss-pct
  isFinal,      \* --final, by hop
  inFlight,     \* the frames on their way to each hop, and to the operator
  received,     \* history: the frames that arrived, in order
  live,         \* the operator's account
  report        \* the inspect tool's account

vars == <<nextSeq, sent, restarts, copies, dropped, isFinal, inFlight,
          received, live, report>>

Hops == 0 .. HopCount - 1
Operator == HopCount
Lossy == 0                       \* the hop that drops on purpose
Seqs == 0 .. SeqSpace - 1
Frames == [num : 1 .. MaxFrames, seq : Seqs, index : 0 .. IndexMax,
           last : BOOLEAN]

NoAccount == [seen |-> FALSE, prev |-> 0, gaps |-> 0, dups |-> 0]

(* The edge may have run for long already, so its seq may be about to wrap. *)
Init ==
  /\ nextSeq \in {0, SeqSpace - 2}
  /\ sent = <<>>
  /\ restarts = 0
  /\ copies = 0
  /\ dropped \in {{}} \union {{s} : s \in Seqs}
  /\ isFinal \in [Hops -> BOOLEAN]
  /\ inFlight = [h \in 0 .. HopCount |-> {}]
  /\ received = <<>>
  /\ live = NoAccount
  /\ report = NoAccount

(***************************************************************************)
(* The edge                                                                *)
(***************************************************************************)

(* A frame sent straight to the operator is on its last hop already.  One   *)
(* that --drop-pct keeps back has its number too; Lose stands for it.       *)
Send ==
  /\ Len(sent) < MaxFrames
  /\ sent' = Append(sent, nextSeq)
  /\ nextSeq' = (nextSeq + 1) % SeqSpace
  /\ inFlight' = [inFlight EXCEPT ![0] = @ \union
       {[num |-> Len(sent'), seq |-> nextSeq, index |-> 0,
         last |-> HopCount = 0]}]
  /\ UNCHANGED <<restarts, copies, dropped, isFinal, received, live, report>>

EdgeRestarts ==
  /\ restarts < MaxRestarts
  /\ restarts' = restarts + 1
  /\ nextSeq' = 0
  /\ UNCHANGED <<sent, copies, dropped, isFinal, inFlight, received, live,
                 report>>

(***************************************************************************)
(* The network                                                             *)
(***************************************************************************)

(* A frame leaves the link it was on, unless the network keeps a copy.      *)
Take(f, link) ==
  \/ /\ inFlight' = [inFlight EXCEPT ![link] = @ \ {f}]
     /\ UNCHANGED copies
  \/ /\ copies < MaxCopies
     /\ copies' = copies + 1
     /\ UNCHANGED inFlight

Lose ==
  /\ \E link \in 0 .. HopCount : \E f \in inFlight[link] :
       inFlight' = [inFlight EXCEPT ![link] = @ \ {f}]
  /\ UNCHANGED <<nextSeq, sent, restarts, copies, dropped, isFinal, received,
                 live, report>>

(***************************************************************************)
(* A hop                                                                   *)
(***************************************************************************)
(* Mutant: only the last hop touches the mark, so an earlier one stays.     *)
StampedOnce(f, final) ==
  [f EXCEPT !.index = Min({IndexMax, @ + 1}), !.last = @ \/ final]

(* apply_hop_stamp                                                          *)
Stamped(f, final) ==
  [f EXCEPT !.index = Min({IndexMax, @ + 1}), !.last = final]

(* The frame goes on to the next link; a copy of it may stay on this one.   *)
Relay(h) ==
  /\ \E f \in inFlight[h] :
       LET onward == IF h = Lossy /\ f.seq \in dropped
                       THEN {} ELSE {Stamped(f, isFinal[h])}
       IN \/ /\ inFlight' = [inFlight EXCEPT ![h] = @ \ {f},
                                             ![h + 1] = @ \union onward]
             /\ UNCHANGED copies
          \/ /\ copies < MaxCopies
             /\ copies' = copies + 1
             /\ inFlight' = [inFlight EXCEPT ![h + 1] = @ \union onward]
  /\ UNCHANGED <<nextSeq, sent, restarts, dropped, isFinal, received, live,
                 report>>

(***************************************************************************)
(* The accounts                                                            *)
(***************************************************************************)

(* Mutant: holes are counted, not the numbers missing from them.            *)
TrackedHoles(a, seq) ==
  IF ~a.seen THEN [a EXCEPT !.seen = TRUE, !.prev = seq]
  ELSE [a EXCEPT !.prev = seq,
                 !.gaps = @ + (IF seq > a.prev + 1 THEN 1 ELSE 0),
                 !.dups = @ + (IF seq <= a.prev THEN 1 ELSE 0)]

(* Mutant: the hole includes the frame that ends it.                        *)
TrackedWide(a, seq) ==
  IF ~a.seen THEN [a EXCEPT !.seen = TRUE, !.prev = seq]
  ELSE [a EXCEPT !.prev = seq,
                 !.gaps = @ + (IF seq > a.prev + 1 THEN seq - a.prev ELSE 0),
                 !.dups = @ + (IF seq <= a.prev THEN 1 ELSE 0)]

(* trackGaps, in 64-bit numbers.                                            *)
Tracked(a, seq) ==
  LET expected == a.prev + 1 IN
  IF ~a.seen THEN [a EXCEPT !.seen = TRUE, !.prev = seq]
  ELSE [a EXCEPT
          !.prev = seq,
          !.gaps = @ + (IF seq > expected THEN seq - expected ELSE 0),
          !.dups = @ + (IF seq <= a.prev THEN 1 ELSE 0)]

(* Mutant: the test for a hole, which wraps, comes before that for a        *)
(* duplicate.                                                               *)
ObservedHoleFirst(a, seq) ==
  LET expected == (a.prev + 1) % SeqSpace IN
  IF ~a.seen THEN [a EXCEPT !.seen = TRUE, !.prev = seq]
  ELSE IF seq > expected
    THEN [a EXCEPT !.prev = seq, !.gaps = @ + (seq - expected)]
    ELSE [a EXCEPT !.prev = seq,
                   !.dups = @ + (IF seq <= a.prev THEN 1 ELSE 0)]

(* ZcmAnalyze::observe, in 32-bit numbers.                                  *)
Observed(a, seq) ==
  LET expected == (a.prev + 1) % SeqSpace IN
  CASE ~a.seen -> [a EXCEPT !.seen = TRUE, !.prev = seq]
    [] a.seen /\ seq <= a.prev -> [a EXCEPT !.prev = seq, !.dups = @ + 1]
    [] a.seen /\ seq > a.prev /\ seq > expected ->
         [a EXCEPT !.prev = seq, !.gaps = @ + ((seq - expected) % SeqSpace)]
    [] OTHER -> [a EXCEPT !.prev = seq]

Arrive ==
  /\ \E f \in inFlight[Operator] :
       /\ Take(f, Operator)
       /\ received' = Append(received, f)
       /\ live' = Tracked(live, f.seq)
       /\ report' = Observed(report, f.seq)
  /\ UNCHANGED <<nextSeq, sent, restarts, dropped, isFinal>>

Relays == \E h \in Hops : Relay(h)

Next == Send \/ EdgeRestarts \/ Lose \/ Relays \/ Arrive

Spec == Init /\ [][Next]_vars

(***************************************************************************)
(* Properties                                                              *)
(***************************************************************************)
TypeOK ==
  /\ nextSeq \in Seqs
  /\ sent \in Seq(Seqs)
  /\ restarts \in 0 .. MaxRestarts
  /\ copies \in 0 .. MaxCopies
  /\ dropped \subseteq Seqs
  /\ isFinal \in [Hops -> BOOLEAN]
  /\ inFlight \in [0 .. HopCount -> SUBSET Frames]
  /\ received \in Seq(Frames)
  /\ {live, report} \subseteq
       [seen : BOOLEAN, prev : Seqs, gaps : Nat, dups : Nat]

Nums == {received[i].num : i \in DOMAIN received}

(* Frames arrived in the order they were sent, each at most once.           *)
InOrder ==
  \A i \in 1 .. Len(received) - 1 : received[i].num < received[i + 1].num

(* The numbers never went back: no restart, no wrap.                        *)
Rising == \A i \in 1 .. Len(sent) - 1 : sent[i] < sent[i + 1]

(* The frames between the first to arrive and the latest that did not.      *)
Missing ==
  IF received = <<>> THEN {}
  ELSE (received[1].num .. Max(Nums)) \ Nums

(* While nothing overtakes anything, the operator's gaps are exactly the    *)
(* frames missing and nothing counts as a duplicate; a restart or a wrap    *)
(* can only hide missing frames, never make some up, and costs one          *)
(* duplicate at most (trackGaps).                                           *)
ExactInOrder ==
  InOrder =>
    /\ live.gaps <= Cardinality(Missing)
    /\ live.dups <= Cardinality({i \in 1 .. Len(sent) - 1 :
                                   sent[i] >= sent[i + 1]})
    /\ Rising => live.gaps = Cardinality(Missing)

(* Whatever order datagrams take, no loss goes unreported: every frame      *)
(* missing since the first to arrive has been counted.                      *)
LossesReported == Rising => live.gaps >= Cardinality(Missing)

(* The operator and the inspect tool agree on what they were given,         *)
(* although one counts in 64 bits and the other in 32 (trackGaps against    *)
(* ZcmAnalyze::observe).                                                    *)
AccountsAgree == live = report

(* Every frame that arrives carries the number of hops it crossed and the   *)
(* mark of the last of them, whichever hops were started with --final       *)
(* ("every frame hop_idx=2, last_hop=100%", DEMO.md:41).                    *)
StampsTruthful ==
  \A i \in DOMAIN received :
    /\ received[i].index = Min({IndexMax, HopCount})
    /\ HopCount > 0 => received[i].last = isFinal[HopCount - 1]
=============================================================================
