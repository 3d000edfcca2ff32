----------------------------- MODULE Sampler_proofs -----------------------------
(***************************************************************************)
(* The two properties of Sampler for any number of callers, frames and      *)
(* snapshots.                                                              *)
(***************************************************************************)
EXTENDS Sampler, TLAPS

Points == {"idle", "ok", "bytes", "dt", "rate", "keepOk", "keepNs", "rest"}

(* Integers, for a window may be negative; the counters are naturals.       *)
TypeInv ==
  /\ clock \in Nat
  /\ bytesIn \in Nat /\ hopIdx \in Nat /\ framesOk \in Nat
  /\ offerPc \in {"idle", "hop", "ok"}
  /\ prevOk \in Nat /\ prevNs \in Nat
  /\ pc \in [Threads -> Points]
  /\ now \in [Threads -> Nat] /\ ok \in [Threads -> Nat]
  /\ bytes \in [Threads -> Nat]
  /\ dt \in [Threads -> Int] /\ delta \in [Threads -> Int]
  /\ shot \in [Threads -> [ok : Nat, bytes : Nat, hops : Nat, delta : Int]]
  /\ rated \in Int /\ unrated \in Int
  /\ overlapped \in BOOLEAN
  /\ shots \in Nat

LEMMA TypeInit == Init => TypeInv
<1> SUFFICES ASSUME Init PROVE TypeInv
  OBVIOUS
<1>1. overlapped \in BOOLEAN
  BY Zenon DEF Init
<1>2. QED
  BY <1>1 DEF Init, TypeInv, Points, Zero, NoShot

LEMMA TypeStep == TypeInv /\ [Next]_vars => TypeInv'
<1> SUFFICES ASSUME TypeInv, [Next]_vars PROVE TypeInv'
  OBVIOUS
<1> USE DEF TypeInv, counters, prev, locals, history
<1>1. CASE Tick
  BY <1>1 DEF Tick
<1>2. CASE Offer
  BY <1>2 DEF Offer, OfferBytes, OfferHop, OfferOk
<1>3. ASSUME NEW t \in Threads, Snapshot(t) PROVE TypeInv'
  <2> USE DEF At, Points
  <2>1. CASE ReadNow(t)
    <3>1. overlapped' \in BOOLEAN
      BY <2>1, Zenon DEF ReadNow
    <3>2. QED
      BY <2>1, <3>1 DEF ReadNow
  <2>2. CASE ReadOk(t)
    BY <2>2 DEF ReadOk
  <2>3. CASE ReadBytes(t)
    BY <2>3 DEF ReadBytes
  <2>4. CASE ReadPrevNs(t)
    BY <2>4 DEF ReadPrevNs
  <2>5. CASE Rate(t)
    BY <2>5 DEF Rate
  <2>6. CASE KeepOk(t)
    BY <2>6 DEF KeepOk
  <2>7. CASE KeepNs(t)
    BY <2>7 DEF KeepNs
  <2>8. CASE Return(t)
    BY <2>8 DEF Return
  <2>9. QED
    BY <1>3, <2>1, <2>2, <2>3, <2>4, <2>5, <2>6, <2>7, <2>8 DEF Snapshot
<1>4. CASE UNCHANGED vars
  BY <1>4 DEF vars
<1>5. QED
  BY <1>1, <1>2, <1>3, <1>4 DEF Next, Snapshots

(* -------------------- counters that cover one another -------------------- *)

(* offer counts a good frame last; a thread past its read of framesOk has   *)
(* no more than that, and past its read of bytesIn no less of those.        *)
CoverInv ==
  /\ framesOk + (IF offerPc = "ok" THEN 1 ELSE 0) <= hopIdx
  /\ hopIdx + (IF offerPc = "hop" THEN 1 ELSE 0) <= bytesIn
  /\ \A t \in Threads :
       /\ ok[t] <= framesOk
       /\ pc[t] \notin {"idle", "ok", "bytes"} => ok[t] <= bytes[t]
  /\ CountersCover

LEMMA CoverStep == TypeInv /\ CoverInv /\ [Next]_vars => CoverInv'
<1> SUFFICES ASSUME TypeInv, CoverInv, [Next]_vars PROVE CoverInv'
  OBVIOUS
<1> USE DEF TypeInv, CoverInv, CountersCover, counters, prev, locals, history
<1>1. CASE Tick
  BY <1>1 DEF Tick
<1>2. CASE Offer
  <2>1. CASE OfferBytes
    BY <2>1 DEF OfferBytes
  <2>2. CASE OfferHop
    BY <2>2 DEF OfferHop
  <2>3. CASE OfferOk
    BY <2>3 DEF OfferOk
  <2>4. QED
    BY <1>2, <2>1, <2>2, <2>3 DEF Offer
<1>3. ASSUME NEW t \in Threads, Snapshot(t) PROVE CoverInv'
  <2> USE DEF At, Points
  <2>1. CASE ReadNow(t)
    BY <2>1 DEF ReadNow
  <2>2. CASE ReadOk(t)
    BY <2>2 DEF ReadOk
  <2>3. CASE ReadBytes(t)
    BY <2>3 DEF ReadBytes
  <2>4. CASE ReadPrevNs(t)
    BY <2>4 DEF ReadPrevNs
  <2>5. CASE Rate(t)
    BY <2>5 DEF Rate
  <2>6. CASE KeepOk(t)
    BY <2>6 DEF KeepOk
  <2>7. CASE KeepNs(t)
    BY <2>7 DEF KeepNs
  <2>8. CASE Return(t)
    <3>1. ok[t] <= bytes[t] /\ ok[t] <= hopIdx
      BY <2>8 DEF Return
    <3>2. QED
      BY <2>8, <3>1 DEF Return
  <2>9. QED
    BY <1>3, <2>1, <2>2, <2>3, <2>4, <2>5, <2>6, <2>7, <2>8 DEF Snapshot
<1>4. CASE UNCHANGED vars
  BY <1>4 DEF vars
<1>5. QED
  BY <1>1, <1>2, <1>3, <1>4 DEF Next, Snapshots

(* No snapshot shows more good frames than bytes or hop indexes for them,   *)
(* whatever number of callers read while offer counts.                      *)
THEOREM SnapshotsCover == Spec => []CountersCover
<1>1. Init => CoverInv
  BY DEF Init, CoverInv, CountersCover, Zero, NoShot
<1>2. QED
  BY <1>1, TypeInit, TypeStep, CoverStep, PTL DEF Spec, CoverInv

(* ------------------------ windows that tile time ------------------------ *)

(* Until two snapshots overlap one thread at most is in snapshot; the       *)
(* windows add up to what it read once it has rated, and before and after   *)
(* that to prevOk, which never goes back.                                   *)
WindowInv ==
  /\ prevOk <= framesOk
  /\ ~overlapped =>
       /\ \A t, u \in Threads : pc[t] # "idle" /\ pc[u] # "idle" => t = u
       /\ (\A t \in Threads : pc[t] # "keepOk") => rated + unrated = prevOk
       /\ \A t \in Threads :
            /\ pc[t] = "keepOk" => rated + unrated = ok[t]
            /\ pc[t] \in {"bytes", "dt", "rate"} => prevOk <= ok[t]
            /\ delta[t] >= 0

LEMMA WindowStep ==
  TypeInv /\ CoverInv /\ WindowInv /\ [Next]_vars => WindowInv'
<1> SUFFICES ASSUME TypeInv, CoverInv, WindowInv, [Next]_vars PROVE WindowInv'
  OBVIOUS
<1> USE DEF TypeInv, WindowInv, counters, prev, locals, history
<1>0. \A t \in Threads : ok[t] <= framesOk
  BY DEF CoverInv
<1>1. CASE Tick
  BY <1>1 DEF Tick
<1>2. CASE Offer
  <2>1. framesOk <= framesOk'
    BY <1>2 DEF Offer, OfferBytes, OfferHop, OfferOk
  <2>2. UNCHANGED <<prev, pc, locals, history>>
    BY <1>2 DEF Offer, OfferBytes, OfferHop, OfferOk
  <2>3. framesOk' \in Nat
    BY <1>2 DEF Offer, OfferBytes, OfferHop, OfferOk
  <2>4. (prevOk <= framesOk)'
    BY <2>1, <2>2, <2>3
  <2>5. QED
    BY <2>2, <2>4
<1>3. ASSUME NEW t \in Threads, Snapshot(t) PROVE WindowInv'
  <2> USE DEF At, Points
  <2>1. CASE ReadNow(t)
    BY <2>1 DEF ReadNow
  <2>2. CASE ReadOk(t)
    BY <2>2 DEF ReadOk
  <2>3. CASE ReadBytes(t)
    BY <2>3 DEF ReadBytes
  <2>4. CASE ReadPrevNs(t)
    BY <2>4 DEF ReadPrevNs
  <2>5. CASE Rate(t)
    BY <2>5 DEF Rate
  <2>6. CASE KeepOk(t)
    BY <1>0, <2>6 DEF KeepOk
  <2>7. CASE KeepNs(t)
    BY <2>7 DEF KeepNs
  <2>8. CASE Return(t)
    BY <2>8 DEF Return
  <2>9. QED
    BY <1>3, <2>1, <2>2, <2>3, <2>4, <2>5, <2>6, <2>7, <2>8 DEF Snapshot
<1>4. CASE UNCHANGED vars
  BY <1>4 DEF vars
<1>5. QED
  BY <1>1, <1>2, <1>3, <1>4 DEF Next, Snapshots

(* Snapshots that do not overlap rate every frame once, and never below 0.  *)
THEOREM WindowsTile == Spec => []RatedOnce
<1>1. Init => CoverInv /\ WindowInv
  BY DEF Init, CoverInv, CountersCover, WindowInv, Zero, NoShot
<1>2. WindowInv => RatedOnce
  BY DEF WindowInv, RatedOnce
<1>3. QED
  BY <1>1, <1>2, TypeInit, TypeStep, CoverStep, WindowStep, PTL DEF Spec
=============================================================================
