---------------------------- MODULE MeshRouter_proofs ----------------------------
(***************************************************************************)
(* What holds of forward_udp for any probe interval, rate and number of     *)
(* control datagrams and changes of the hops.                               *)
(***************************************************************************)
EXTENDS MeshRouter, TLAPS

(* A set of small numbers that has a member has a least one.                *)
LEMMA MinIsIn ==
  ASSUME NEW S, S \subseteq 0 .. 3, S # {}
  PROVE  Min(S) \in S /\ \A x \in S : Min(S) <= x
<1>1. \E x \in S : \A y \in S : x <= y
  <2>1. CASE 0 \in S
    BY <2>1
  <2>2. CASE 0 \notin S /\ 1 \in S
    BY <2>2
  <2>3. CASE 0 \notin S /\ 1 \notin S /\ 2 \in S
    BY <2>3
  <2>4. CASE 0 \notin S /\ 1 \notin S /\ 2 \notin S
    <3>1. 0 .. 3 = {0, 1, 2, 3}
      OBVIOUS
    <3>2. \A x \in S : x = 3
      BY <2>4, <3>1
    <3>3. PICK x \in S : x = 3
      BY <3>2
    <3>4. \A y \in S : x <= y
      BY <3>2, <3>3
    <3>5. QED
      BY <3>4
  <2>5. QED
    BY <2>1, <2>2, <2>3, <2>4
<1>2. QED
  BY <1>1 DEF Min

(* The smaller of two ticks.                                                *)
LEMMA MinOfTwo ==
  ASSUME NEW a \in Nat, NEW b \in Nat
  PROVE  Min({a, b}) \in {a, b} /\ Min({a, b}) <= a /\ Min({a, b}) <= b
<1>1. \E x \in {a, b} : \A y \in {a, b} : x <= y
  OBVIOUS
<1>2. QED
  BY <1>1 DEF Min

LEMMA AfterIsHop ==
  ASSUME NEW h \in Hops, NEW step \in 0 .. HopCount
  PROVE  After(h, step) \in Hops
BY RouterAssumption DEF After, Hops

LEMMA StartIsAllowed ==
  ASSUME TypeOK, Allowed # {}
  PROVE  Start \in Allowed
<1>1. Allowed \subseteq 0 .. 3
  BY RouterAssumption DEF Allowed, Hops
<1>2. Min(Allowed) \in Allowed
  BY <1>1, MinIsIn
<1>3. QED
  BY <1>2 DEF Start

LEMMA AllowedAreHops == Allowed \subseteq Hops
BY DEF Allowed

(* Every attempt, the probe among them, is at a hop that is not masked.     *)
LEMMA AttemptsAreAllowed ==
  ASSUME NEW a \in Attempts
  PROVE  Target(a) \in Allowed
<1>1. CASE a = 0
  BY <1>1 DEF Attempts, Probes, Target
<1>2. CASE a # 0
  BY <1>2 DEF Attempts
<1>3. QED
  BY <1>1, <1>2

LEMMA AttemptsAreFew == Attempts \subseteq 0 .. 3
BY RouterAssumption DEF Attempts

(* Going once round from the start meets an allowed hop: itself.            *)
LEMMA NextActiveIsAllowed ==
  ASSUME TypeOK, Allowed # {}
  PROVE  NextActive \in Allowed
<1> DEFINE Steps == {step \in 1 .. HopCount : After(Start, step) \in Allowed}
<1>1. Start \in Allowed /\ Start \in Hops
  BY StartIsAllowed, AllowedAreHops
<1>2. After(Start, HopCount) = Start
  BY <1>1, RouterAssumption DEF After, Hops
<1>3. HopCount \in Steps
  BY <1>1, <1>2, RouterAssumption
<1>4. Steps \subseteq 0 .. 3
  BY RouterAssumption
<1>5. Min(Steps) \in Steps
  BY <1>3, <1>4, MinIsIn
<1>6. QED
  BY <1>5 DEF NextActive

(* What a frame does to the route while some hop is allowed.                *)
LEMMA ForwardMoves ==
  ASSUME TypeOK, Forward, Allowed # {}
  PROVE  /\ active' \in Allowed
         /\ tried' \subseteq Allowed
         /\ arrived' \in BOOLEAN
         /\ pending' \in BOOLEAN
<1>1. CASE Reaching \ Spent # {}
  <2>1. ForwardOk(Min(Reaching \ Spent))
    BY <1>1 DEF Forward
  <2>2. Reaching \ Spent \subseteq Attempts
    BY DEF Reaching
  <2>3. Min(Reaching \ Spent) \in Attempts
    BY <1>1, <2>2, AttemptsAreFew, MinIsIn
  <2>4. Target(Min(Reaching \ Spent)) \in Allowed
    BY <2>3, AttemptsAreAllowed
  <2>5. \A a \in Attempts : Target(a) \in Allowed
    BY AttemptsAreAllowed
  <2>6. active' \in Allowed /\ tried' \subseteq Allowed
    BY <2>1, <2>4, <2>5 DEF ForwardOk
  <2>7. arrived' \in BOOLEAN /\ pending' \in BOOLEAN
    BY <2>1 DEF ForwardOk, Refusals
  <2>8. QED
    BY <2>6, <2>7
<1>2. CASE Reaching \ Spent = {}
  <2>1. ForwardFails
    BY <1>2 DEF Forward
  <2>2. active' \in Allowed
    BY <2>1, NextActiveIsAllowed DEF ForwardFails
  <2>3. \A a \in Attempts : Target(a) \in Allowed
    BY AttemptsAreAllowed
  <2>4. tried' \subseteq Allowed
    BY <2>1, <2>3 DEF ForwardFails
  <2>5. arrived' \in BOOLEAN /\ pending' \in BOOLEAN
    BY <2>1 DEF ForwardFails
  <2>6. QED
    BY <2>2, <2>4, <2>5
<1>3. QED
  BY <1>1, <1>2

(* ------------------------------ typing ------------------------------ *)

LEMMA TypeInit == Init => TypeOK
<1> SUFFICES ASSUME Init PROVE TypeOK
  OBVIOUS
<1>1. /\ active \in Hops
      /\ probeAge \in 0 .. ProbeInterval
      /\ sentInTick \in 0 .. MinRate
      /\ changes \in 0 .. MaxChanges
      /\ controls \in 0 .. MaxControls
  BY RouterAssumption DEF Init, Hops
<1>2. skip \subseteq Hops /\ tried \subseteq Hops
  BY DEF Init
<1>3. pending \in BOOLEAN /\ arrived \in BOOLEAN /\ hops \in [Hops -> Conditions]
  BY Zenon DEF Init
<1>4. QED
  BY <1>1, <1>2, <1>3 DEF TypeOK

LEMMA TypeForward ==
  ASSUME TypeOK, Forward
  PROVE  TypeOK'
<1>1. /\ skip' \subseteq Hops
      /\ hops' \in [Hops -> Conditions]
      /\ changes' \in 0 .. MaxChanges
      /\ controls' \in 0 .. MaxControls
  BY DEF TypeOK, Forward
<1>2. sentInTick' \in 0 .. MinRate
  BY RouterAssumption, MinOfTwo DEF TypeOK, Forward
<1>3. probeAge' \in 0 .. ProbeInterval
  BY RouterAssumption DEF TypeOK, Forward
<1>4. active' \in Hops /\ tried' \subseteq Hops
      /\ arrived' \in BOOLEAN /\ pending' \in BOOLEAN
  <2>1. CASE Allowed = {}
    BY <2>1 DEF TypeOK, Forward, NoFrame
  <2>2. CASE Allowed # {}
    BY <2>2, ForwardMoves, AllowedAreHops
  <2>3. QED
    BY <2>1, <2>2
<1>5. QED
  BY <1>1, <1>2, <1>3, <1>4 DEF TypeOK

LEMMA TypeSetSkip ==
  ASSUME TypeOK, SetSkip
  PROVE  TypeOK'
<1>1. skip' \subseteq Hops
  <2>1. \A msg \in Datagrams : msg.mask \subseteq Hops
    BY DEF Datagrams, Ctl
  <2>2. \A msg \in Datagrams : Applied(msg) \subseteq Hops
    BY <2>1 DEF Applied, TypeOK
  <2>3. QED
    BY <2>2 DEF SetSkip
<1>2. controls' \in 0 .. MaxControls
  BY RouterAssumption DEF TypeOK, SetSkip
<1>3. QED
  BY <1>1, <1>2 DEF TypeOK, SetSkip, NoFrame

LEMMA TypeStep == TypeOK /\ [Next]_vars => TypeOK'
<1> SUFFICES ASSUME TypeOK, [Next]_vars PROVE TypeOK'
  OBVIOUS
<1>1. CASE Forward
  BY <1>1, TypeForward
<1>2. CASE SetSkip
  BY <1>2, TypeSetSkip
<1>3. CASE HopChanges
  <2>1. hops' \in [Hops -> Conditions] /\ changes' \in 0 .. MaxChanges
    BY <1>3, RouterAssumption DEF TypeOK, HopChanges
  <2>2. QED
    BY <1>3, <2>1 DEF TypeOK, HopChanges, NoFrame, route
<1>4. CASE Tick
  <2>1. probeAge' \in 0 .. ProbeInterval
    BY <1>4, RouterAssumption, MinOfTwo DEF TypeOK, Tick, Aged
  <2>2. sentInTick' \in 0 .. MinRate
    BY <1>4, RouterAssumption DEF Tick
  <2>3. QED
    BY <1>4, <2>1, <2>2 DEF TypeOK, Tick, NoFrame
<1>5. CASE UNCHANGED vars
  BY <1>5 DEF TypeOK, vars, route
<1>6. QED
  BY <1>1, <1>2, <1>3, <1>4, <1>5 DEF Next

(* The route, the socket and the hops stay what they can be; in particular  *)
(* the active hop is always one of the route's.                             *)
THEOREM Typing == Spec => []TypeOK
BY TypeInit, TypeStep, PTL DEF Spec

(* --------------------------- the skip mask --------------------------- *)

(* "Bit i set => never send to hops[i]": for any history of control, probes *)
(* and failures, no attempt of forward_udp is at a hop masked at the time.  *)
THEOREM MaskIsObeyed == Spec => NeverSendsToSkipped
<1>1. TypeOK /\ [Next]_vars => [tried' \intersect skip = {}]_vars
  <2>1. ASSUME TypeOK, Forward PROVE tried' \intersect skip = {}
    <3>1. CASE Allowed = {}
      BY <2>1, <3>1 DEF Forward, NoFrame
    <3>2. CASE Allowed # {}
      BY <2>1, <3>2, ForwardMoves DEF Allowed
    <3>3. QED
      BY <3>1, <3>2
  <2>2. SetSkip \/ HopChanges \/ Tick => tried' \intersect skip = {}
    BY DEF SetSkip, HopChanges, Tick, NoFrame
  <2>3. QED
    BY <2>1, <2>2 DEF Next
<1>2. QED
  BY <1>1, Typing, PTL DEF Spec, NeverSendsToSkipped

(* forward_udp leaves an allowed hop active whenever there is one, also     *)
(* when every send failed and the rotation went past masked hops.           *)
THEOREM ActiveIsAllowed == Spec => ActiveStaysAllowed
<1>1. TypeOK /\ [Next]_vars =>
        [Forward /\ Allowed # {} => active' \in Allowed]_vars
  BY ForwardMoves
<1>2. QED
  BY <1>1, Typing, PTL DEF Spec, ActiveStaysAllowed

(* The route is sticky: a hop that is up and allowed is left for hop 0      *)
(* alone, since the attempt at it comes before any other but the probe, and *)
(* with no refusal pending it succeeds.                                     *)
THEOREM RouteIsSticky == Spec => StickyWhileUp
<1>1. ASSUME TypeOK, Forward, active \in Allowed, hops[active] = "up", ~pending
      PROVE  active' \in {0, active}
  <2>1. Start = active /\ active \in Hops /\ HopCount \in Nat \ {0}
    BY <1>1, RouterAssumption DEF Start, TypeOK
  <2>2. Target(1) = active
    BY <2>1 DEF Target, After, Hops
  <2>3. 1 \in Reaching
    BY <1>1, <2>1, <2>2 DEF Reaching, Attempts
  <2>4. Spent = {}
    BY <1>1 DEF Spent
  <2> DEFINE last == Min(Reaching \ Spent)
  <2>5. Reaching \ Spent \subseteq 0 .. 3 /\ 1 \in Reaching \ Spent
    BY <2>3, <2>4, AttemptsAreFew DEF Reaching
  <2>6. last \in 0 .. 3 /\ last <= 1
    BY <2>5, MinIsIn
  <2>7. active' = Target(last)
    BY <1>1, <2>5 DEF Forward, ForwardOk
  <2> HIDE DEF last
  <2>8. last = 0 \/ last = 1
    BY <2>6
  <2>9. QED
    BY <2>2, <2>7, <2>8 DEF Target
<1>2. TypeOK /\ [Next]_vars =>
        [~pending /\ active \in Allowed /\ hops[active] = "up" =>
           active' \in {0, active}]_vars
  <2>1. SetSkip \/ HopChanges \/ Tick => active' = active
    BY DEF SetSkip, HopChanges, Tick, route
  <2>2. QED
    BY <1>1, <2>1 DEF Next
<1>3. QED
  BY <1>2, Typing, PTL DEF Spec, StickyWhileUp
=============================================================================
