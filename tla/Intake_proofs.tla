---------------------------- MODULE Intake_proofs ----------------------------
(***************************************************************************)
(* What the listening programs make of their connections, for any number of *)
(* edges and frames, any length of a frame and any room in a socket.        *)
(***************************************************************************)
EXTENDS Intake, SequenceTheorems, FiniteSetTheorems,
        WellFoundedInduction, TLAPS

(***************************************************************************)
(* Induction                                                               *)
(***************************************************************************)

(* A set of naturals that is not empty has a least element.                 *)
LEMMA LeastNatural ==
  ASSUME NEW T, T \subseteq Nat, T # {}
  PROVE  \E x \in T : \A y \in T : x <= y
<1> DEFINE R == StrictSubsetOrdering(Nat)
           S == FiniteSubsetsOf(Nat)
           U == {0 .. n : n \in T}
<1>1. IsWellFoundedOn(R, S)
  BY FS_StrictSubsetOrderingWellFounded
<1>2. U \subseteq S
  <2>1. SUFFICES ASSUME NEW n \in T PROVE 0 .. n \in S
    OBVIOUS
  <2>2. n \in Nat /\ n \in Int /\ 0 \in Int /\ 0 .. n \subseteq Nat
    OBVIOUS
  <2>3. IsFiniteSet(0 .. n)
    BY <2>2, FS_Interval
  <2> QED BY <2>2, <2>3 DEF FiniteSubsetsOf
<1>3. PICK u \in U : \A v \in U : ~(<<v, u>> \in R)
  <2>1. U # {}
    OBVIOUS
  <2> HIDE DEF U, R, S
  <2> QED BY <1>1, <1>2, <2>1, WFMin
<1>4. PICK x \in T : u = 0 .. x
  OBVIOUS
<1>5. ASSUME NEW y \in T, y < x PROVE FALSE
  <2>1. 0 .. y \in U
    OBVIOUS
  <2>2. /\ 0 .. y \subseteq 0 .. x /\ 0 .. y # 0 .. x
        /\ 0 .. y \subseteq Nat /\ 0 .. x \subseteq Nat
    BY <1>5
  <2>3. <<0 .. y, 0 .. x>> \in R
    BY <2>2 DEF StrictSubsetOrdering
  <2> QED BY <2>1, <2>3, <1>3, <1>4
<1> QED BY <1>5

(* What holds of 0, and of a number if of the one before, holds up to n.    *)
LEMMA InductionUpTo ==
  ASSUME NEW T, NEW n \in Nat, 0 \in T,
         \A k \in 0 .. n - 1 : k \in T => k + 1 \in T
  PROVE  n \in T
<1> DEFINE Others == {j \in Nat : j <= n /\ j \notin T}
<1>1. SUFFICES ASSUME n \notin T PROVE FALSE
  OBVIOUS
<1>2. PICK m \in Others : \A j \in Others : m <= j
  <2>1. Others \subseteq Nat /\ Others # {}
    BY <1>1
  <2> HIDE DEF Others
  <2> QED BY <2>1, LeastNatural
<1>3. m - 1 \in 0 .. n - 1
  BY <1>2
<1>4. m - 1 \in T
  BY <1>2, <1>3
<1> QED BY <1>2, <1>3, <1>4

(***************************************************************************)
(* Sequences                                                               *)
(***************************************************************************)

(* A function on the numbers up to n is a sequence of that length.          *)
LEMMA FunctionIsSeq ==
  ASSUME NEW S, NEW n \in Nat, NEW f \in [1 .. n -> S]
  PROVE  f \in Seq(S) /\ Len(f) = n
OBVIOUS

(* The elements from m to n.                                               *)
LEMMA SubSeqElements ==
  ASSUME NEW S, NEW s \in Seq(S), NEW m \in 1 .. Len(s) + 1,
         NEW n \in m - 1 .. Len(s)
  PROVE  /\ SubSeq(s, m, n) \in Seq(S)
         /\ Len(SubSeq(s, m, n)) = n - m + 1
         /\ \A k \in 1 .. n - m + 1 : SubSeq(s, m, n)[k] = s[m + k - 1]
<1>1. m \in Int /\ n \in Int /\ Len(s) \in Nat
  BY LenProperties
<1>2. \A j \in m .. n : s[j] \in S
  BY <1>1, ElementOfSeq
<1>3. IF m <= n THEN n - m + 1 = n - m + 1 ELSE 0 = n - m + 1
  BY <1>1
<1> QED BY <1>1, <1>2, <1>3, SubSeqProperties

(* The elements of one sequence behind another.                             *)
LEMMA ConcatElements ==
  ASSUME NEW S, NEW s \in Seq(S), NEW t \in Seq(S)
  PROVE  /\ s \o t \in Seq(S)
         /\ Len(s \o t) = Len(s) + Len(t)
         /\ \A k \in 1 .. Len(s) : (s \o t)[k] = s[k]
         /\ \A k \in 1 .. Len(t) : (s \o t)[Len(s) + k] = t[k]
BY ConcatProperties

(* A sequence is its first n elements and the rest.                         *)
IsFront(front, n, t) ==
  /\ Len(front) = n
  /\ \A k \in 1 .. n : front[k] = t[k]

IsRest(rest, n, t) ==
  /\ Len(rest) = Len(t) - n
  /\ \A k \in 1 .. Len(t) - n : rest[k] = t[n + k]

(* SubSeq gives the two.                                                    *)
LEMMA SplitIn ==
  ASSUME NEW S, NEW t \in Seq(S), NEW n \in 0 .. Len(t)
  PROVE  /\ SubSeq(t, 1, n) \in Seq(S)
         /\ IsFront(SubSeq(t, 1, n), n, t)
         /\ SubSeq(t, n + 1, Len(t)) \in Seq(S)
         /\ IsRest(SubSeq(t, n + 1, Len(t)), n, t)
<1>1. Len(t) \in Nat /\ n \in Nat /\ n - 1 + 1 = n
      /\ Len(t) - (n + 1) + 1 = Len(t) - n
  BY LenProperties
<1>2. SubSeq(t, 1, n) \in Seq(S) /\ IsFront(SubSeq(t, 1, n), n, t)
  <2>1. 1 \in 1 .. Len(t) + 1 /\ n \in 1 - 1 .. Len(t)
    BY <1>1
  <2>2. \A k \in 1 .. n : 1 + k - 1 = k
    OBVIOUS
  <2> QED BY <1>1, <2>1, <2>2, SubSeqElements DEF IsFront
<1>3. /\ SubSeq(t, n + 1, Len(t)) \in Seq(S)
      /\ IsRest(SubSeq(t, n + 1, Len(t)), n, t)
  <2>1. n + 1 \in 1 .. Len(t) + 1 /\ Len(t) \in (n + 1) - 1 .. Len(t)
    BY <1>1
  <2>2. /\ SubSeq(t, n + 1, Len(t)) \in Seq(S)
        /\ Len(SubSeq(t, n + 1, Len(t))) = Len(t) - (n + 1) + 1
        /\ \A k \in 1 .. Len(t) - (n + 1) + 1 :
             SubSeq(t, n + 1, Len(t))[k] = t[(n + 1) + k - 1]
    BY <2>1, SubSeqElements
  <2>3. \A k \in 1 .. Len(t) - n : (n + 1) + k - 1 = n + k
    BY <1>1
  <2> QED BY <1>1, <2>2, <2>3 DEF IsRest
<1> QED BY <1>2, <1>3

(***************************************************************************)
(* Prefixes                                                                *)
(***************************************************************************)

(* An element put behind two sequences is put behind the second.            *)
LEMMA AppendMoves ==
  ASSUME NEW S, NEW s \in Seq(S), NEW t \in Seq(S), NEW e \in S
  PROVE  s \o Append(t, e) = Append(s \o t, e)
<1> DEFINE u == s \o Append(t, e)
           v == Append(s \o t, e)
<1>1. /\ Append(t, e) \in Seq(S) /\ Len(Append(t, e)) = Len(t) + 1
      /\ \A k \in 1 .. Len(t) : Append(t, e)[k] = t[k]
      /\ Append(t, e)[Len(t) + 1] = e
      /\ Len(t) \in Nat /\ Len(s) \in Nat
  BY AppendProperties, LenProperties
<1>2. /\ u \in Seq(S) /\ Len(u) = Len(s) + Len(Append(t, e))
      /\ \A k \in 1 .. Len(s) : u[k] = s[k]
      /\ \A k \in 1 .. Len(Append(t, e)) : u[Len(s) + k] = Append(t, e)[k]
  BY <1>1, ConcatElements
<1>3. /\ s \o t \in Seq(S) /\ Len(s \o t) = Len(s) + Len(t)
      /\ \A k \in 1 .. Len(s) : (s \o t)[k] = s[k]
      /\ \A k \in 1 .. Len(t) : (s \o t)[Len(s) + k] = t[k]
  BY ConcatElements
<1>4. /\ v \in Seq(S) /\ Len(v) = Len(s \o t) + 1
      /\ \A k \in 1 .. Len(s \o t) : v[k] = (s \o t)[k]
      /\ v[Len(s \o t) + 1] = e
  BY <1>3, AppendProperties
<1> HIDE DEF u, v
<1>5. Len(u) = Len(v) /\ Len(u) = Len(s) + Len(t) + 1
  BY <1>1, <1>2, <1>3, <1>4
<1>6. ASSUME NEW k \in 1 .. Len(s) + Len(t) + 1 PROVE u[k] = v[k]
  <2>1. CASE k <= Len(s)
    <3>1. k \in 1 .. Len(s) /\ k \in 1 .. Len(s) + Len(t)
      BY <1>1, <2>1
    <3> QED BY <1>2, <1>3, <1>4, <3>1
  <2>2. CASE k > Len(s) /\ k <= Len(s) + Len(t)
    <3>1. k - Len(s) \in 1 .. Len(t) /\ k - Len(s) \in 1 .. Len(t) + 1
          /\ Len(s) + (k - Len(s)) = k /\ k \in 1 .. Len(s) + Len(t)
      BY <1>1, <2>2
    <3>2. u[Len(s) + (k - Len(s))] = t[k - Len(s)]
      BY <1>1, <1>2, <3>1
    <3>3. v[k] = (s \o t)[Len(s) + (k - Len(s))]
      BY <1>3, <1>4, <3>1
    <3>4. (s \o t)[Len(s) + (k - Len(s))] = t[k - Len(s)]
      BY <1>3, <3>1
    <3> QED BY <3>1, <3>2, <3>3, <3>4
  <2>3. CASE k = Len(s) + Len(t) + 1
    <3>1. Len(t) + 1 \in 1 .. Len(Append(t, e)) /\ Len(s) + (Len(t) + 1) = k
      BY <1>1, <2>3
    <3>2. u[Len(s) + (Len(t) + 1)] = e
      BY <1>1, <1>2, <3>1
    <3>3. v[k] = e
      BY <1>3, <1>4, <2>3
    <3> QED BY <3>1, <3>2, <3>3
  <2> QED BY <1>1, <2>1, <2>2, <2>3
<1>7. u = v
  BY <1>2, <1>4, <1>5, <1>6, SeqEqual
<1> QED BY <1>7 DEF u, v

(* A prefix with the next element is the next prefix.                       *)
LEMMA PrefixGrows ==
  ASSUME NEW S, NEW t \in Seq(S), NEW k \in 0 .. Len(t) - 1
  PROVE  SubSeq(t, 1, k + 1) = Append(SubSeq(t, 1, k), t[k + 1])
<1> DEFINE u == SubSeq(t, 1, k + 1)
           w == SubSeq(t, 1, k)
<1>1. Len(t) \in Nat /\ k \in 0 .. Len(t) /\ k + 1 \in 0 .. Len(t)
      /\ k + 1 \in 1 .. Len(t)
  BY LenProperties
<1>2. u \in Seq(S) /\ IsFront(u, k + 1, t)
  BY <1>1, SplitIn
<1>3. w \in Seq(S) /\ IsFront(w, k, t)
  BY <1>1, SplitIn
<1>4. t[k + 1] \in S
  BY <1>1, ElementOfSeq
<1> HIDE DEF u, w
<1>5. /\ Append(w, t[k + 1]) \in Seq(S)
      /\ Len(Append(w, t[k + 1])) = Len(w) + 1
      /\ \A j \in 1 .. Len(w) : Append(w, t[k + 1])[j] = w[j]
      /\ Append(w, t[k + 1])[Len(w) + 1] = t[k + 1]
  BY <1>3, <1>4, AppendProperties
<1> DEFINE v == Append(w, t[k + 1])
<1> HIDE DEF v
<1>6. v \in Seq(S) /\ Len(v) = k + 1 /\ v[k + 1] = t[k + 1]
      /\ \A j \in 1 .. k : v[j] = t[j]
  BY <1>3, <1>5 DEF IsFront, v
<1>7. u \in Seq(S) /\ Len(u) = k + 1 /\ \A j \in 1 .. k + 1 : u[j] = t[j]
  BY <1>2 DEF IsFront
<1>8. \A j \in 1 .. k + 1 : j \in 1 .. k \/ j = k + 1
  BY <1>1
<1>9. u = v
  BY <1>6, <1>7, <1>8, SeqEqual
<1> QED BY <1>9 DEF u, v, w

(* The first prefix is empty, the last is the sequence.                     *)
LEMMA PrefixEnds ==
  ASSUME NEW S, NEW t \in Seq(S)
  PROVE  SubSeq(t, 1, 0) = <<>> /\ SubSeq(t, 1, Len(t)) = t
<1>1. Len(t) \in Nat /\ 0 \in 0 .. Len(t) /\ Len(t) \in 0 .. Len(t)
  BY LenProperties
<1>2. SubSeq(t, 1, 0) \in Seq(S) /\ Len(SubSeq(t, 1, 0)) = 0
  BY <1>1, SplitIn DEF IsFront
<1>3. /\ SubSeq(t, 1, Len(t)) \in Seq(S) /\ Len(SubSeq(t, 1, Len(t))) = Len(t)
      /\ \A k \in 1 .. Len(t) : SubSeq(t, 1, Len(t))[k] = t[k]
  BY <1>1, SplitIn DEF IsFront
<1>4. SubSeq(t, 1, 0) = <<>>
  BY <1>2, EmptySeq
<1>5. SubSeq(t, 1, Len(t)) = t
  BY <1>3, SeqEqual
<1> QED BY <1>4, <1>5

(***************************************************************************)
(* Folds                                                                   *)
(***************************************************************************)

(* A fold from the left: f is its result after each element.                *)
Folds(f, g, a, s) ==
  /\ f[0] = a
  /\ \A k \in 1 .. Len(s) : f[k] = g[<<f[k - 1], s[k]>>]

LEMMA FoldExists ==
  ASSUME NEW A, NEW B, NEW a \in A, NEW s \in Seq(B), NEW g \in [A \X B -> A]
  PROVE  \E f \in [0 .. Len(s) -> A] : Folds(f, g, a, s)
<1> DEFINE n == Len(s)
           Is(f, m) == /\ f \in [0 .. m -> A]
                       /\ f[0] = a
                       /\ \A k \in 1 .. m : f[k] = g[<<f[k - 1], s[k]>>]
           T == {m \in Nat : \E f : Is(f, m)}
<1>1. n \in Nat /\ \A k \in 1 .. n : s[k] \in B
  BY LenProperties, ElementOfSeq
<1> HIDE DEF n
<1>2. 0 \in T
  <2> DEFINE f == [k \in 0 .. 0 |-> a]
  <2>1. f \in [0 .. 0 -> A] /\ f[0] = a
    OBVIOUS
  <2> HIDE DEF f
  <2> QED BY <2>1
<1>3. ASSUME NEW m \in 0 .. n - 1, m \in T PROVE m + 1 \in T
  <2>1. PICK f : Is(f, m)
    BY <1>3
  <2> DEFINE new == g[<<f[m], s[m + 1]>>]
             h == [k \in 0 .. m + 1 |-> IF k = m + 1 THEN new ELSE f[k]]
  <2>2. m \in 0 .. m /\ m + 1 \in 1 .. n /\ m \in Nat /\ m + 1 \in Nat
    BY <1>1
  <2>3. f[m] \in A /\ s[m + 1] \in B
    BY <1>1, <2>1, <2>2
  <2>4. new \in A
    BY <2>3
  <2> HIDE DEF new
  <2>5. h \in [0 .. m + 1 -> A]
    <3>1. \A k \in 0 .. m + 1 : k # m + 1 => k \in 0 .. m
      BY <2>2
    <3> QED BY <2>1, <2>4, <3>1
  <2>6. h[0] = a
    BY <2>1, <2>2
  <2>7. ASSUME NEW k \in 1 .. m + 1 PROVE h[k] = g[<<h[k - 1], s[k]>>]
    <3>1. CASE k = m + 1
      <4>1. k - 1 = m /\ m # m + 1 /\ m \in 0 .. m + 1
        BY <2>2, <3>1
      <4>2. h[k] = new /\ h[k - 1] = f[m]
        BY <3>1, <4>1
      <4> QED BY <3>1, <4>2 DEF new
    <3>2. CASE k # m + 1
      <4>1. k \in 1 .. m /\ k - 1 \in 0 .. m + 1 /\ k - 1 # m + 1
        BY <2>2, <3>2
      <4>2. h[k] = f[k] /\ h[k - 1] = f[k - 1]
        BY <3>2, <4>1
      <4> QED BY <2>1, <4>1, <4>2
    <3> QED BY <3>1, <3>2
  <2>8. Is(h, m + 1)
    <3> HIDE DEF h
    <3> QED BY <2>5, <2>6, <2>7
  <2> HIDE DEF h, Is
  <2> QED BY <2>2, <2>8
<1>4. n \in T
  <2> HIDE DEF T
  <2> QED BY <1>1, <1>2, <1>3, InductionUpTo
<1> QED BY <1>4 DEF n, Folds

Frame == Clients \X Nat
Unit == Clients \X Nat \X Nat

(***************************************************************************)
(* The frames of a client                                                  *)
(***************************************************************************)

(* own is what From builds, frame by frame.                                 *)
OwnOf(own, c, s) ==
  /\ own[0] = <<>>
  /\ \A k \in 1 .. Len(s) :
       own[k] = IF s[k][1] = c THEN Append(own[k - 1], s[k]) ELSE own[k - 1]
  /\ From(c, s) = own[Len(s)]

LEMMA FromIs ==
  ASSUME NEW c, NEW s \in Seq(Frame)
  PROVE  \E own \in [0 .. Len(s) -> Seq(Frame)] : OwnOf(own, c, s)
<1> DEFINE n == Len(s)
           Is(f) == f = [k \in 0 .. n |->
                           IF k = 0 THEN <<>>
                           ELSE IF s[k][1] = c THEN Append(f[k - 1], s[k])
                                               ELSE f[k - 1]]
           step == [x \in Seq(Frame) \X Frame |->
                      IF x[2][1] = c THEN Append(x[1], x[2]) ELSE x[1]]
           own == CHOOSE f : Is(f)
<1>1. n \in Nat /\ \A k \in 1 .. n : s[k] \in Frame
  BY LenProperties, ElementOfSeq
<1>2. step \in [Seq(Frame) \X Frame -> Seq(Frame)]
  <2> SUFFICES ASSUME NEW q \in Seq(Frame), NEW f \in Frame
               PROVE  (IF f[1] = c THEN Append(q, f) ELSE q) \in Seq(Frame)
    OBVIOUS
  <2> QED BY AppendProperties
<1>3. \A q \in Seq(Frame), f \in Frame :
        step[<<q, f>>] = IF f[1] = c THEN Append(q, f) ELSE q
  OBVIOUS
<1>4. <<>> \in Seq(Frame)
  BY EmptySeq
<1> HIDE DEF step
<1>5. PICK f \in [0 .. n -> Seq(Frame)] : Folds(f, step, <<>>, s)
  BY <1>2, <1>4, FoldExists
<1> HIDE DEF n
<1>6. /\ f[0] = <<>>
      /\ \A k \in 1 .. n : f[k] = IF s[k][1] = c THEN Append(f[k - 1], s[k])
                                                 ELSE f[k - 1]
  <2>1. f[0] = <<>> /\ \A k \in 1 .. n : f[k] = step[<<f[k - 1], s[k]>>]
    BY <1>5 DEF Folds, n
  <2>2. \A k \in 1 .. n : f[k - 1] \in Seq(Frame)
    BY <1>1
  <2> QED BY <1>1, <1>3, <2>1, <2>2
<1>7. Is(f)
  <2>1. f = [k \in 0 .. n |-> f[k]]
    OBVIOUS
  <2>2. \A k \in 0 .. n : k = 0 \/ k \in 1 .. n
    BY <1>1
  <2> QED BY <1>6, <2>1, <2>2
<1>8. Is(own)
  <2>1. \E h : Is(h)
    BY <1>7
  <2> HIDE DEF Is
  <2> QED BY <2>1
<1>9. From(c, s) = own[n]
  BY DEF From, n
<1> HIDE DEF own
<1>10. /\ own[0] = <<>>
       /\ \A k \in 1 .. n : own[k] = IF s[k][1] = c
                                      THEN Append(own[k - 1], s[k])
                                      ELSE own[k - 1]
  <2>1. \A k \in 0 .. n : own[k] = IF k = 0 THEN <<>>
                           ELSE IF s[k][1] = c THEN Append(own[k - 1], s[k])
                                               ELSE own[k - 1]
    BY <1>8
  <2>2. 0 \in 0 .. n /\ \A k \in 1 .. n : k \in 0 .. n /\ k # 0
    BY <1>1
  <2> QED BY <2>1, <2>2
<1>11. own \in [0 .. n -> Seq(Frame)]
  <2>1. \A k \in 0 .. n : own[k] \in Seq(Frame)
    <3> SUFFICES ASSUME NEW k \in 0 .. n PROVE own[k] \in Seq(Frame)
      OBVIOUS
    <3> DEFINE T == {m \in Nat : m <= n => own[m] \in Seq(Frame)}
    <3>1. 0 \in T
      BY <1>1, <1>4, <1>10
    <3>2. ASSUME NEW m \in 0 .. k - 1, m \in T PROVE m + 1 \in T
      <4>1. m <= n /\ m + 1 \in 1 .. n /\ (m + 1) - 1 = m /\ m + 1 \in Nat
        BY <1>1
      <4>2. own[m] \in Seq(Frame) /\ s[m + 1] \in Frame
        BY <1>1, <3>2, <4>1
      <4>3. own[m + 1] = IF s[m + 1][1] = c THEN Append(own[m], s[m + 1])
                                            ELSE own[m]
        BY <1>10, <4>1
      <4>4. own[m + 1] \in Seq(Frame)
        BY <4>2, <4>3, AppendProperties
      <4> QED BY <4>1, <4>4
    <3>3. k \in Nat
      OBVIOUS
    <3>4. k \in T
      <4> HIDE DEF T
      <4> QED BY <3>1, <3>2, <3>3, InductionUpTo
    <3> QED BY <3>4
  <2>2. own = [k \in 0 .. n |-> own[k]]
    BY <1>8
  <2> QED BY <2>1, <2>2
<1> QED BY <1>9, <1>10, <1>11 DEF OwnOf, n

(* From of nothing.                                                         *)
LEMMA FromNone ==
  ASSUME NEW c
  PROVE  From(c, <<>>) = <<>>
<1>1. <<>> \in Seq(Frame) /\ Len(<<>>) = 0
  BY EmptySeq
<1>2. PICK own \in [0 .. 0 -> Seq(Frame)] : OwnOf(own, c, <<>>)
  BY <1>1, FromIs
<1> QED BY <1>1, <1>2 DEF OwnOf

(* From of one frame more.                                                  *)
LEMMA FromAppend ==
  ASSUME NEW c, NEW s \in Seq(Frame), NEW f \in Frame
  PROVE  /\ From(c, s) \in Seq(Frame)
         /\ From(c, Append(s, f)) = IF f[1] = c THEN Append(From(c, s), f)
                                                ELSE From(c, s)
<1> DEFINE n == Len(s)
           t == Append(s, f)
<1>1. /\ n \in Nat /\ t \in Seq(Frame) /\ Len(t) = n + 1 /\ t[n + 1] = f
      /\ \A k \in 1 .. n : t[k] = s[k]
  BY AppendProperties, LenProperties
<1>2. PICK a \in [0 .. n -> Seq(Frame)] : OwnOf(a, c, s)
  BY FromIs
<1> HIDE DEF t
<1>3. PICK b \in [0 .. n + 1 -> Seq(Frame)] : OwnOf(b, c, t)
  BY <1>1, FromIs
<1>4. /\ a[0] = <<>> /\ From(c, s) = a[n]
      /\ \A k \in 1 .. n : a[k] = IF s[k][1] = c THEN Append(a[k - 1], s[k])
                                                 ELSE a[k - 1]
  BY <1>2 DEF OwnOf
<1>5. /\ b[0] = <<>> /\ From(c, t) = b[n + 1]
      /\ \A k \in 1 .. n + 1 : b[k] = IF t[k][1] = c
                                       THEN Append(b[k - 1], t[k])
                                       ELSE b[k - 1]
  BY <1>1, <1>3 DEF OwnOf
<1> HIDE DEF n
<1>6. a[n] = b[n]
  <2> DEFINE T == {k \in Nat : k <= n => a[k] = b[k]}
  <2>1. 0 \in T
    BY <1>4, <1>5
  <2>2. ASSUME NEW k \in 0 .. n - 1, k \in T PROVE k + 1 \in T
    <3>1. /\ k <= n /\ k + 1 \in 1 .. n /\ k + 1 \in 1 .. n + 1
          /\ (k + 1) - 1 = k /\ k + 1 \in Nat
      BY <1>1
    <3>2. a[k] = b[k] /\ t[k + 1] = s[k + 1]
      BY <1>1, <2>2, <3>1
    <3>3. a[k + 1] = IF s[k + 1][1] = c THEN Append(a[k], s[k + 1]) ELSE a[k]
      BY <1>4, <3>1
    <3>4. b[k + 1] = IF t[k + 1][1] = c THEN Append(b[k], t[k + 1]) ELSE b[k]
      BY <1>5, <3>1
    <3>5. a[k + 1] = b[k + 1]
      BY <3>2, <3>3, <3>4
    <3> QED BY <3>1, <3>5
  <2>3. n \in T
    <3> HIDE DEF T
    <3> QED BY <1>1, <2>1, <2>2, InductionUpTo
  <2> QED BY <1>1, <2>3
<1>7. n + 1 \in 1 .. n + 1 /\ (n + 1) - 1 = n /\ n \in 0 .. n
  BY <1>1
<1>8. b[n + 1] = IF f[1] = c THEN Append(a[n], f) ELSE a[n]
  <2>1. b[n + 1] = IF t[n + 1][1] = c THEN Append(b[n], t[n + 1]) ELSE b[n]
    BY <1>5, <1>7
  <2>2. t[n + 1] = f
    BY <1>1
  <2> QED BY <1>6, <2>1, <2>2
<1>9. a[n] \in Seq(Frame)
  BY <1>7
<1> QED BY <1>4, <1>5, <1>8, <1>9 DEF t

(* From of more frames, all of the client's or none.                        *)
LEMMA FromConcat ==
  ASSUME NEW c, NEW s \in Seq(Frame), NEW t \in Seq(Frame)
  PROVE  /\ (\A k \in 1 .. Len(t) : t[k][1] = c)
              => From(c, s \o t) = From(c, s) \o t
         /\ (\A k \in 1 .. Len(t) : t[k][1] # c)
              => From(c, s \o t) = From(c, s)
<1> DEFINE n == Len(t)
           p(k) == SubSeq(t, 1, k)
<1>1. n \in Nat /\ \A k \in 1 .. n : t[k] \in Frame
  BY LenProperties, ElementOfSeq
<1>2. \A k \in 0 .. n : p(k) \in Seq(Frame)
  BY SplitIn
<1>3. \A k \in 0 .. n - 1 : p(k + 1) = Append(p(k), t[k + 1])
  BY PrefixGrows
<1>4. p(0) = <<>> /\ p(n) = t
  BY PrefixEnds
<1>5. s \o <<>> = s
  BY ConcatEmptySeq
<1>6. From(c, s) \in Seq(Frame)
  <2>1. PICK own \in [0 .. Len(s) -> Seq(Frame)] : OwnOf(own, c, s)
    BY FromIs
  <2>2. Len(s) \in 0 .. Len(s)
    BY LenProperties
  <2> QED BY <2>1, <2>2 DEF OwnOf
<1>7. From(c, s) \o <<>> = From(c, s)
  BY <1>6, ConcatEmptySeq
<1>8. ASSUME NEW k \in 0 .. n - 1
      PROVE  From(c, s \o p(k + 1)) = IF t[k + 1][1] = c
                                       THEN Append(From(c, s \o p(k)), t[k + 1])
                                       ELSE From(c, s \o p(k))
  <2>1. k \in 0 .. n /\ k + 1 \in 1 .. n
    BY <1>1
  <2>2. p(k) \in Seq(Frame) /\ t[k + 1] \in Frame
    BY <1>1, <1>2, <2>1
  <2>3. p(k + 1) = Append(p(k), t[k + 1])
    BY <1>3
  <2> HIDE DEF p
  <2>4. PICK q \in Seq(Frame) : q = p(k)
    BY <2>2
  <2>5. PICK f \in Frame : f = t[k + 1]
    BY <2>2
  <2>6. s \o Append(q, f) = Append(s \o q, f)
    BY AppendMoves
  <2>7. s \o q \in Seq(Frame)
    BY ConcatElements
  <2>8. From(c, Append(s \o q, f)) = IF f[1] = c THEN Append(From(c, s \o q), f)
                                                ELSE From(c, s \o q)
    BY <2>7, FromAppend
  <2> QED BY <2>3, <2>4, <2>5, <2>6, <2>8
<1> HIDE DEF n, p
<1>9. ASSUME \A k \in 1 .. n : t[k][1] = c
      PROVE  From(c, s \o t) = From(c, s) \o t
  <2> DEFINE T == {k \in Nat : From(c, s \o p(k)) = From(c, s) \o p(k)}
  <2>1. 0 \in T
    BY <1>4, <1>5, <1>7
  <2>2. ASSUME NEW k \in 0 .. n - 1, k \in T PROVE k + 1 \in T
    <3>1. k \in 0 .. n /\ k + 1 \in 1 .. n /\ k + 1 \in Nat
      BY <1>1
    <3>2. p(k) \in Seq(Frame) /\ t[k + 1] \in Frame /\ t[k + 1][1] = c
      BY <1>1, <1>2, <1>9, <3>1
    <3>3. From(c, s \o p(k + 1)) = Append(From(c, s) \o p(k), t[k + 1])
      BY <1>8, <2>2, <3>2
    <3>4. From(c, s) \o Append(p(k), t[k + 1])
            = Append(From(c, s) \o p(k), t[k + 1])
      BY <1>6, <3>2, AppendMoves
    <3>5. p(k + 1) = Append(p(k), t[k + 1])
      BY <1>3
    <3> QED BY <3>1, <3>3, <3>4, <3>5
  <2>3. n \in T
    <3> HIDE DEF T
    <3> QED BY <1>1, <2>1, <2>2, InductionUpTo
  <2> QED BY <1>4, <2>3
<1>10. ASSUME \A k \in 1 .. n : t[k][1] # c
       PROVE  From(c, s \o t) = From(c, s)
  <2> DEFINE T == {k \in Nat : From(c, s \o p(k)) = From(c, s)}
  <2>1. 0 \in T
    BY <1>4, <1>5
  <2>2. ASSUME NEW k \in 0 .. n - 1, k \in T PROVE k + 1 \in T
    <3>1. k + 1 \in 1 .. n /\ k + 1 \in Nat
      BY <1>1
    <3> QED BY <1>8, <1>10, <2>2, <3>1
  <2>3. n \in T
    <3> HIDE DEF T
    <3> QED BY <1>1, <2>1, <2>2, InductionUpTo
  <2> QED BY <1>4, <2>3
<1> QED BY <1>9, <1>10 DEF n

(***************************************************************************)
(* The decoder, on the units of one connection                             *)
(***************************************************************************)

(* Unit k, from 0, of a stream whose frames have these numbers.             *)
UnitAt(c, num, k) == <<c, num[k \div Units + 1], k % Units>>

(* The units of s are those from the q-th on.                               *)
IsUnits(s, c, num, q) ==
  \A j \in 1 .. Len(s) : s[j] = UnitAt(c, num, q + j - 1)

(* The whole frames before unit q; the first is lost if it was begun before *)
(* the connection.                                                          *)
Own(c, num, lost, q) ==
  [k \in 1 .. (q \div Units) - lost |-> <<c, num[k + lost]>>]

(* Where the decoder may be at: a frame's beginning, or in the lost frame.  *)
Aligned(q, lost) ==
  IF lost = 0 THEN q % Units = 0 ELSE q > 0 /\ (q % Units = 0 \/ q < Units)

Numbers == [Nat -> Nat]

(* The decoder is at unit q when it was given those before p, and base are  *)
(* the frames it passed on before.                                          *)
ParsedTo(acc, c, num, lost, base, p, q) ==
  /\ q + Len(acc.left) = p /\ Len(acc.left) < Units
  /\ Aligned(q, lost)
  /\ IsUnits(acc.left, c, num, q)
  /\ base \o acc.frames = Own(c, num, lost, q)

Accs == [left : Seq(Unit), frames : Seq(Frame), skipped : Nat]

Parsed(acc, c, num, lost, base, p) ==
  /\ acc \in Accs
  /\ \A k \in 1 .. Len(acc.frames) : acc.frames[k][1] = c
  /\ lost = 0 => acc.skipped = 0
  /\ \E q \in Nat : ParsedTo(acc, c, num, lost, base, p, q)

(* Unit b of a frame after a others.                                        *)
LEMMA MulAdd ==
  ASSUME NEW n \in Nat \ {0}, NEW a \in Nat, NEW b \in 0 .. n - 1
  PROVE  /\ a * n + b \in Nat
         /\ (a * n + b) \div n = a /\ (a * n + b) % n = b
BY SMTT(30)

(* Division by the length of a frame.                                       *)
LEMMA DivMod ==
  ASSUME NEW n \in Nat \ {0}, NEW k \in Nat
  PROVE  /\ k \div n \in Nat /\ k % n \in 0 .. n - 1
         /\ k = (k \div n) * n + (k % n)
         /\ k % n = n - 1 => (k + 1) % n = 0 /\ (k + 1) \div n = (k \div n) + 1
         /\ k % n < n - 1 =>
              (k + 1) % n = (k % n) + 1 /\ (k + 1) \div n = k \div n
<1>1. k \div n \in Nat /\ k % n \in 0 .. n - 1
  OBVIOUS
<1>2. k = (k \div n) * n + (k % n)
  OBVIOUS
<1>3. PICK q \in Nat, r \in 0 .. n - 1 : q = k \div n /\ r = k % n
  BY <1>1
<1>4. k = q * n + r
  BY <1>2, <1>3
<1>5. ASSUME r = n - 1
      PROVE  (k + 1) % n = 0 /\ (k + 1) \div n = q + 1
  <2>1. k + 1 = (q + 1) * n + 0
    BY <1>4, <1>5
  <2>2. q + 1 \in Nat /\ 0 \in 0 .. n - 1
    OBVIOUS
  <2>3. ((q + 1) * n + 0) \div n = q + 1 /\ ((q + 1) * n + 0) % n = 0
    BY <2>2, MulAdd
  <2> QED BY <2>1, <2>3
<1>6. ASSUME r < n - 1
      PROVE  (k + 1) % n = r + 1 /\ (k + 1) \div n = q
  <2>1. r + 1 \in 0 .. n - 1
    BY <1>6
  <2>2. PICK s \in 0 .. n - 1 : s = r + 1
    BY <2>1
  <2>3. k + 1 = q * n + s
    BY <1>4, <2>2
  <2>4. (q * n + s) \div n = q /\ (q * n + s) % n = s
    BY MulAdd
  <2> QED BY <2>2, <2>3, <2>4
<1> QED BY <1>1, <1>2, <1>3, <1>5, <1>6

LEMMA Division ==
  ASSUME NEW k \in Nat
  PROVE  /\ k \div Units \in Nat /\ k % Units \in 0 .. Units - 1
         /\ k < Units => k \div Units = 0 /\ k % Units = k
         /\ k % Units = 0 =>
              /\ (k + Units) % Units = 0
              /\ (k + Units) \div Units = (k \div Units) + 1
              /\ \A b \in 0 .. Units - 1 :
                   (k + b) \div Units = k \div Units /\ (k + b) % Units = b
         /\ k % Units = Units - 1 =>
              (k + 1) % Units = 0 /\ (k + 1) \div Units = (k \div Units) + 1
         /\ k % Units < Units - 1 =>
              (k + 1) % Units = (k % Units) + 1 /\ (k + 1) \div Units = k \div Units
<1>1. Units \in Nat \ {0} /\ Units \in Int
  BY ListenerAssumption
<1>2. k \div Units \in Nat /\ k % Units \in 0 .. Units - 1
  BY <1>1
<1>3. k < Units => k \div Units = 0 /\ k % Units = k
  BY <1>1
<1>4. ASSUME k % Units = 0, NEW b \in 0 .. Units - 1
      PROVE  (k + b) \div Units = k \div Units /\ (k + b) % Units = b
  BY <1>1, <1>4
<1>5. ASSUME k % Units = 0
      PROVE  /\ (k + Units) % Units = 0
             /\ (k + Units) \div Units = (k \div Units) + 1
  <2>1. k = (k \div Units) * Units + (k % Units)
    BY <1>1
  <2>2. PICK a \in Nat : a = k \div Units
    BY <1>2
  <2>3. k + Units = (a + 1) * Units + 0
    BY <1>1, <1>5, <2>1, <2>2
  <2>4. /\ ((a + 1) * Units + 0) \div Units = a + 1
        /\ ((a + 1) * Units + 0) % Units = 0
    BY <1>1
  <2> QED BY <2>2, <2>3, <2>4
<1>6. k % Units = Units - 1 =>
        (k + 1) % Units = 0 /\ (k + 1) \div Units = (k \div Units) + 1
  BY <1>1, DivMod
<1>7. k % Units < Units - 1 =>
        (k + 1) % Units = (k % Units) + 1 /\ (k + 1) \div Units = k \div Units
  BY <1>1, DivMod
<1> QED BY <1>2, <1>3, <1>4, <1>5, <1>6, <1>7

(* The frames before unit q as a sequence.                                  *)
LEMMA OwnIsSeq ==
  ASSUME NEW c \in Clients, NEW num \in Numbers, NEW lost \in {0, 1},
         NEW q \in Nat
  PROVE  /\ Own(c, num, lost, q) \in Seq(Frame)
         /\ Len(Own(c, num, lost, q))
              = IF q \div Units >= lost THEN (q \div Units) - lost ELSE 0
         /\ \A k \in 1 .. (q \div Units) - lost :
              Own(c, num, lost, q)[k] = <<c, num[k + lost]>>
<1>1. q \div Units \in Nat
  BY Division
<1>2. PICK n \in Nat :
        n = IF q \div Units >= lost THEN (q \div Units) - lost ELSE 0
  BY <1>1
<1>3. 1 .. (q \div Units) - lost = 1 .. n
  BY <1>1, <1>2
<1>4. \A k \in 1 .. n : num[k + lost] \in Nat
  BY DEF Numbers
<1>5. Own(c, num, lost, q) = [k \in 1 .. n |-> <<c, num[k + lost]>>]
  BY <1>3 DEF Own
<1>6. Own(c, num, lost, q) \in [1 .. n -> Frame]
  <2>1. \A k \in 1 .. n : <<c, num[k + lost]>> \in Frame
    BY <1>4 DEF Frame
  <2> QED BY <1>5, <2>1
<1>7. Own(c, num, lost, q) \in Seq(Frame) /\ Len(Own(c, num, lost, q)) = n
  BY <1>6, FunctionIsSeq
<1>8. \A k \in 1 .. n : Own(c, num, lost, q)[k] = <<c, num[k + lost]>>
  BY <1>5
<1> QED BY <1>2, <1>3, <1>7, <1>8

(* One frame more, or the lost one.                                         *)
LEMMA OwnGrows ==
  ASSUME NEW c \in Clients, NEW num \in Numbers, NEW lost \in {0, 1},
         NEW q \in Nat, Aligned(q, lost), q % Units = 0
  PROVE  Own(c, num, lost, q + Units)
           = Append(Own(c, num, lost, q), <<c, num[q \div Units + 1]>>)
<1> DEFINE n == (q \div Units) - lost
           s == Own(c, num, lost, q)
           t == Own(c, num, lost, q + Units)
           f == <<c, num[q \div Units + 1]>>
<1>1. /\ Units \in Nat /\ Units >= 2 /\ q \div Units \in Nat
      /\ (q + Units) \div Units = (q \div Units) + 1 /\ q + Units \in Nat
  BY Division, ListenerAssumption
<1>2. q \div Units >= lost
  <2>1. CASE lost = 0
    BY <1>1, <2>1
  <2>2. CASE lost = 1
    <3>1. q > 0 /\ ~(q < Units)
      BY <2>2, Division DEF Aligned
    <3>2. q \div Units # 0
      BY <1>1, <3>1
    <3> QED BY <1>1, <2>2, <3>2
  <2> QED BY <2>1, <2>2
<1>3. n \in Nat /\ n + lost = q \div Units
      /\ (q + Units) \div Units - lost = n + 1
      /\ (q + Units) \div Units >= lost
  BY <1>1, <1>2
<1>4. /\ s \in Seq(Frame) /\ Len(s) = n
      /\ \A k \in 1 .. n : s[k] = <<c, num[k + lost]>>
  <2>1. /\ s \in Seq(Frame)
        /\ Len(s) = IF q \div Units >= lost THEN (q \div Units) - lost ELSE 0
        /\ \A k \in 1 .. (q \div Units) - lost : s[k] = <<c, num[k + lost]>>
    BY OwnIsSeq
  <2> QED BY <1>2, <2>1
<1>5. /\ t \in Seq(Frame) /\ Len(t) = n + 1
      /\ \A k \in 1 .. n + 1 : t[k] = <<c, num[k + lost]>>
  <2>1. PICK r \in Nat : r = q + Units
    BY <1>1
  <2>2. /\ Own(c, num, lost, r) \in Seq(Frame)
        /\ Len(Own(c, num, lost, r))
             = IF r \div Units >= lost THEN (r \div Units) - lost ELSE 0
        /\ \A k \in 1 .. (r \div Units) - lost :
             Own(c, num, lost, r)[k] = <<c, num[k + lost]>>
    BY OwnIsSeq
  <2> HIDE DEF n
  <2>3. (r \div Units) - lost = n + 1 /\ r \div Units >= lost
    BY <1>3, <2>1
  <2> QED BY <2>1, <2>2, <2>3
<1>6. f \in Frame /\ f = <<c, num[(n + 1) + lost]>>
  <2>1. (n + 1) + lost = q \div Units + 1 /\ q \div Units + 1 \in Nat
    BY <1>1, <1>3
  <2> QED BY <2>1 DEF Numbers, Frame
<1> HIDE DEF s, t, f, n
<1>7. /\ Append(s, f) \in Seq(Frame) /\ Len(Append(s, f)) = n + 1
      /\ \A k \in 1 .. n : Append(s, f)[k] = s[k]
      /\ Append(s, f)[n + 1] = f
  BY <1>4, <1>6, AppendProperties
<1>8. \A k \in 1 .. n + 1 : k \in 1 .. n \/ k = n + 1
  BY <1>3
<1>9. \A k \in 1 .. n + 1 : t[k] = Append(s, f)[k]
  <2> SUFFICES ASSUME NEW k \in 1 .. n + 1 PROVE t[k] = Append(s, f)[k]
    OBVIOUS
  <2>1. CASE k = n + 1
    BY <1>5, <1>6, <1>7, <2>1
  <2>2. CASE k \in 1 .. n
    BY <1>4, <1>5, <1>7, <2>2
  <2> QED BY <1>8, <2>1, <2>2
<1>10. t = Append(s, f)
  BY <1>5, <1>7, <1>9, SeqEqual
<1> QED BY <1>10 DEF s, t, f

(* The frame of a unit.                                                     *)
LEMMA FrameOfUnit ==
  ASSUME NEW a, NEW b, NEW d
  PROVE  SubSeq(<<a, b, d>>, 1, 2) = <<a, b>>
<1> DEFINE S == {a, b, d}
           s == <<a, b, d>>
           t == <<a, b>>
<1>1. s \in Seq(S) /\ Len(s) = 3 /\ s[1] = a /\ s[2] = b
  OBVIOUS
<1>2. t \in Seq(S) /\ Len(t) = 2 /\ t[1] = a /\ t[2] = b
  OBVIOUS
<1>3. SubSeq(s, 1, 2) \in Seq(S) /\ IsFront(SubSeq(s, 1, 2), 2, s)
  <2>1. 2 \in 0 .. Len(s)
    BY <1>1
  <2> HIDE DEF s, S
  <2> QED BY <1>1, <2>1, SplitIn
<1> HIDE DEF s, t, S
<1>4. \A k \in 1 .. 2 : k = 1 \/ k = 2
  OBVIOUS
<1>5. \A k \in 1 .. 2 : SubSeq(s, 1, 2)[k] = t[k]
  BY <1>1, <1>2, <1>3, <1>4 DEF IsFront
<1>6. SubSeq(s, 1, 2) = t
  BY <1>2, <1>3, <1>5, SeqEqual DEF IsFront
<1> QED BY <1>6 DEF s, t

(* A unit and the frame of it.                                              *)
LEMMA UnitsAreUnits ==
  ASSUME NEW c \in Clients, NEW num \in Numbers, NEW k \in Nat
  PROVE  /\ UnitAt(c, num, k) \in Unit
         /\ UnitAt(c, num, k)[1] = c
         /\ UnitAt(c, num, k)[2] = num[k \div Units + 1]
         /\ UnitAt(c, num, k)[3] = k % Units
         /\ SubSeq(UnitAt(c, num, k), 1, 2) = <<c, num[k \div Units + 1]>>
         /\ <<c, num[k \div Units + 1]>> \in Frame
<1>1. k \div Units + 1 \in Nat /\ k % Units \in Nat
  <2>1. k \div Units \in Nat /\ k % Units \in 0 .. Units - 1
    BY Division
  <2> QED BY <2>1
<1>2. num[k \div Units + 1] \in Nat
  BY <1>1 DEF Numbers
<1> QED BY <1>1, <1>2, FrameOfUnit DEF UnitAt, Unit, Frame

(* A window at a frame's beginning is that frame, and no other one is.      *)
LEMMA VerifiedAtBeginnings ==
  ASSUME NEW c \in Clients, NEW num \in Numbers, NEW q \in Nat,
         NEW w \in Seq(Unit), Len(w) = Units, IsUnits(w, c, num, q)
  PROVE  Verified(w) <=> q % Units = 0
<1>1. Units \in Nat /\ Units >= 2
  BY ListenerAssumption
<1>2. \A u \in 1 .. Units : w[u] = UnitAt(c, num, q + u - 1)
  BY DEF IsUnits
<1>3. /\ w[1] = UnitAt(c, num, q)
      /\ w[1][1] = c /\ w[1][2] = num[q \div Units + 1]
      /\ w[1][3] = q % Units
  <2>1. 1 \in 1 .. Units /\ q + 1 - 1 = q
    BY <1>1
  <2>2. w[1] = UnitAt(c, num, q)
    BY <1>2, <2>1
  <2>3. /\ UnitAt(c, num, q)[1] = c
        /\ UnitAt(c, num, q)[2] = num[q \div Units + 1]
        /\ UnitAt(c, num, q)[3] = q % Units
    BY UnitsAreUnits
  <2> QED BY <2>2, <2>3
<1>4. ASSUME Verified(w) PROVE q % Units = 0
  <2>1. 1 \in 1 .. Units /\ 1 - 1 = 0
    BY <1>1
  <2>2. w[1] = <<w[1][1], w[1][2], 0>>
    BY <1>4, <2>1 DEF Verified
  <2>3. w[1][3] = 0
    BY <2>2
  <2> QED BY <1>3, <2>3
<1>5. ASSUME q % Units = 0 PROVE Verified(w)
  <2> SUFFICES ASSUME NEW u \in 1 .. Units
               PROVE  w[u] = <<w[1][1], w[1][2], u - 1>>
    BY DEF Verified
  <2>1. u - 1 \in 0 .. Units - 1 /\ q + u - 1 = q + (u - 1)
    BY <1>1
  <2>2. /\ (q + (u - 1)) \div Units = q \div Units
        /\ (q + (u - 1)) % Units = u - 1
    BY <1>5, <2>1, Division
  <2>3. w[u] = UnitAt(c, num, q + (u - 1))
    BY <1>2, <2>1
  <2>4. UnitAt(c, num, q + (u - 1)) = <<c, num[q \div Units + 1], u - 1>>
    BY <2>2 DEF UnitAt
  <2> QED BY <1>3, <2>3, <2>4
<1> QED BY <1>4, <1>5

(* In the lost frame there is no whole one.                                 *)
LEMMA NoneInLost ==
  ASSUME NEW c \in Clients, NEW num \in Numbers, NEW q \in Nat, q <= Units
  PROVE  Own(c, num, 1, q) = <<>>
<1>1. q \div Units - 1 <= 0 /\ q \div Units \in Nat
  <2>1. CASE q < Units
    BY <2>1, Division
  <2>2. CASE q = Units
    <3>1. 0 % Units = 0 /\ 0 \div Units = 0 /\ 0 + Units = Units
      BY ListenerAssumption
    <3>2. (0 + Units) \div Units = (0 \div Units) + 1
      BY <3>1, Division
    <3> QED BY <2>2, <3>1, <3>2
  <2> QED BY <2>1, <2>2, ListenerAssumption
<1>2. Own(c, num, 1, q) \in Seq(Frame) /\ Len(Own(c, num, 1, q)) = 0
  <2>1. /\ Own(c, num, 1, q) \in Seq(Frame)
        /\ Len(Own(c, num, 1, q))
             = IF q \div Units >= 1 THEN (q \div Units) - 1 ELSE 0
    BY OwnIsSeq
  <2> QED BY <1>1, <2>1
<1> QED BY <1>2, EmptySeq

(* Behind the units that are there comes the next.                          *)
LEMMA UnitsGrow ==
  ASSUME NEW c \in Clients, NEW num \in Numbers, NEW q \in Nat,
         NEW s \in Seq(Unit), IsUnits(s, c, num, q)
  PROVE  /\ Append(s, UnitAt(c, num, q + Len(s))) \in Seq(Unit)
         /\ Len(Append(s, UnitAt(c, num, q + Len(s)))) = Len(s) + 1
         /\ IsUnits(Append(s, UnitAt(c, num, q + Len(s))), c, num, q)
<1> DEFINE e == UnitAt(c, num, q + Len(s))
           t == Append(s, e)
<1>1. Len(s) \in Nat /\ q + Len(s) \in Nat
  BY LenProperties
<1>2. e \in Unit
  BY <1>1, UnitsAreUnits
<1>3. \A j \in 1 .. Len(s) : s[j] = UnitAt(c, num, q + j - 1)
  BY DEF IsUnits
<1> HIDE DEF e
<1>4. /\ t \in Seq(Unit) /\ Len(t) = Len(s) + 1
      /\ \A j \in 1 .. Len(s) : t[j] = s[j]
      /\ t[Len(s) + 1] = e
  BY <1>2, AppendProperties
<1>5. ASSUME NEW j \in 1 .. Len(t) PROVE t[j] = UnitAt(c, num, q + j - 1)
  <2> HIDE DEF t
  <2>1. CASE j \in 1 .. Len(s)
    BY <1>3, <1>4, <2>1
  <2>2. CASE j = Len(s) + 1
    <3>1. q + j - 1 = q + Len(s)
      BY <1>1, <2>2
    <3> QED BY <1>4, <2>2, <3>1 DEF e
  <2> QED BY <1>1, <1>4, <2>1, <2>2
<1>6. IsUnits(t, c, num, q)
  BY <1>5 DEF IsUnits
<1> QED BY <1>4, <1>6 DEF e

(* Without the first they are those from the next on.                       *)
LEMMA UnitsShrink ==
  ASSUME NEW c \in Clients, NEW num \in Numbers, NEW q \in Nat,
         NEW s \in Seq(Unit), NEW n \in 0 .. Len(s), IsUnits(s, c, num, q)
  PROVE  /\ SubSeq(s, n + 1, Len(s)) \in Seq(Unit)
         /\ Len(SubSeq(s, n + 1, Len(s))) = Len(s) - n
         /\ IsUnits(SubSeq(s, n + 1, Len(s)), c, num, q + n)
<1> DEFINE t == SubSeq(s, n + 1, Len(s))
<1>1. Len(s) \in Nat
  BY LenProperties
<1>2. t \in Seq(Unit) /\ IsRest(t, n, s)
  BY SplitIn
<1> HIDE DEF t
<1>3. Len(t) = Len(s) - n /\ \A j \in 1 .. Len(s) - n : t[j] = s[n + j]
  BY <1>2 DEF IsRest
<1>4. ASSUME NEW j \in 1 .. Len(t) PROVE t[j] = UnitAt(c, num, (q + n) + j - 1)
  <2>1. n + j \in 1 .. Len(s) /\ q + (n + j) - 1 = (q + n) + j - 1
    BY <1>1, <1>3
  <2>2. s[n + j] = UnitAt(c, num, q + (n + j) - 1)
    BY <2>1 DEF IsUnits
  <2> QED BY <1>3, <2>1, <2>2
<1>5. IsUnits(t, c, num, q + n)
  BY <1>4 DEF IsUnits
<1> QED BY <1>2, <1>3, <1>5 DEF t

(* The decoder has read one unit more.                                      *)
LEMMA SlideKeeps ==
  ASSUME NEW c \in Clients, NEW num \in Numbers, NEW lost \in {0, 1},
         NEW base \in Seq(Frame), NEW p \in Nat, NEW acc,
         Parsed(acc, c, num, lost, base, p)
  PROVE  Parsed(Slide(acc, UnitAt(c, num, p)), c, num, lost, base, p + 1)
<1> DEFINE unit == UnitAt(c, num, p)
           w == Append(acc.left, unit)
           next == Slide(acc, unit)
<1>1. /\ acc \in Accs
      /\ \A k \in 1 .. Len(acc.frames) : acc.frames[k][1] = c
      /\ lost = 0 => acc.skipped = 0
  BY DEF Parsed
<1>2. PICK q \in Nat : ParsedTo(acc, c, num, lost, base, p, q)
  BY DEF Parsed
<1>3. /\ acc.left \in Seq(Unit) /\ acc.frames \in Seq(Frame)
      /\ acc.skipped \in Nat
  BY <1>1 DEF Accs
<1>4. /\ q + Len(acc.left) = p /\ Len(acc.left) < Units
      /\ Aligned(q, lost)
      /\ IsUnits(acc.left, c, num, q)
      /\ base \o acc.frames = Own(c, num, lost, q)
  BY <1>2 DEF ParsedTo
<1>5. w \in Seq(Unit) /\ Len(w) = Len(acc.left) + 1 /\ IsUnits(w, c, num, q)
  <2>1. /\ Append(acc.left, UnitAt(c, num, q + Len(acc.left))) \in Seq(Unit)
        /\ Len(Append(acc.left, UnitAt(c, num, q + Len(acc.left))))
             = Len(acc.left) + 1
        /\ IsUnits(Append(acc.left, UnitAt(c, num, q + Len(acc.left))), c,
                   num, q)
    BY <1>3, <1>4, UnitsGrow
  <2> QED BY <1>4, <2>1
<1>6. /\ Len(acc.left) \in Nat /\ Units \in Nat /\ Units >= 2
      /\ q + Len(w) = p + 1 /\ Len(w) <= Units
  <2>1. Len(acc.left) \in Nat /\ Units \in Nat /\ Units >= 2
    BY <1>3, LenProperties, ListenerAssumption
  <2>2. PICK k \in Nat : k = Len(acc.left)
    BY <2>1
  <2>3. q + k = p /\ k < Units /\ Len(w) = k + 1
    BY <1>4, <1>5, <2>2
  <2>4. q + Len(w) = p + 1 /\ Len(w) <= Units
    BY <2>1, <2>3
  <2> QED BY <2>1, <2>4
<1> HIDE DEF w, unit
<1>7. CASE Len(w) < Units
  <2>1. next = [acc EXCEPT !.left = w]
    BY <1>7 DEF Slide, w, unit
  <2>2. /\ next \in Accs /\ next.left = w /\ next.frames = acc.frames
        /\ next.skipped = acc.skipped
    BY <1>1, <1>3, <1>5, <2>1 DEF Accs
  <2> HIDE DEF next
  <2>3. ParsedTo(next, c, num, lost, base, p + 1, q)
    BY <1>4, <1>5, <1>6, <1>7, <2>2 DEF ParsedTo
  <2> QED BY <1>1, <2>2, <2>3 DEF Parsed, next, unit
<1>8. CASE Len(w) = Units /\ q % Units = 0
  <2> DEFINE f == <<c, num[q \div Units + 1]>>
  <2>1. Verified(w)
    BY <1>5, <1>8, VerifiedAtBeginnings
  <2>2. next = [acc EXCEPT !.left = <<>>,
                           !.frames = Append(@, SubSeq(w[1], 1, 2))]
    <3> DEFINE grown == [acc EXCEPT !.left = <<>>,
                                    !.frames = Append(@, SubSeq(w[1], 1, 2))]
    <3>1. next = CASE Len(w) < Units -> [acc EXCEPT !.left = w]
                   [] Len(w) = Units /\ Verified(w) -> grown
                   [] OTHER -> [acc EXCEPT !.left = Tail(w), !.skipped = @ + 1]
      BY DEF Slide, w, unit
    <3> HIDE DEF grown, next
    <3>2. ~(Len(w) < Units)
      BY <1>6, <1>8
    <3>3. next = grown
      BY <1>8, <2>1, <3>1, <3>2
    <3> QED BY <3>3 DEF grown
  <2>3. SubSeq(w[1], 1, 2) = f /\ f \in Frame
    <3>1. 1 \in 1 .. Len(w) /\ q + 1 - 1 = q
      BY <1>6, <1>8
    <3>2. w[1] = UnitAt(c, num, q)
      BY <1>5, <3>1 DEF IsUnits
    <3>3. SubSeq(UnitAt(c, num, q), 1, 2) = f /\ f \in Frame
      BY UnitsAreUnits
    <3> QED BY <3>2, <3>3
  <2> HIDE DEF f
  <2>4. /\ Append(acc.frames, f) \in Seq(Frame)
        /\ Len(Append(acc.frames, f)) = Len(acc.frames) + 1
        /\ \A k \in 1 .. Len(acc.frames) :
             Append(acc.frames, f)[k] = acc.frames[k]
        /\ Append(acc.frames, f)[Len(acc.frames) + 1] = f
        /\ Len(acc.frames) \in Nat
    BY <1>3, <2>3, AppendProperties, LenProperties
  <2>5. /\ next \in Accs /\ next.left = <<>>
        /\ next.frames = Append(acc.frames, f)
        /\ next.skipped = acc.skipped
    <3>1. <<>> \in Seq(Unit)
      BY EmptySeq
    <3> HIDE DEF next
    <3> QED BY <1>1, <1>3, <2>2, <2>3, <2>4, <3>1 DEF Accs
  <2> HIDE DEF next
  <2>6. \A k \in 1 .. Len(next.frames) : next.frames[k][1] = c
    <3>1. f[1] = c
      BY DEF f
    <3>2. \A k \in 1 .. Len(acc.frames) + 1 :
            k \in 1 .. Len(acc.frames) \/ k = Len(acc.frames) + 1
      BY <2>4
    <3> QED BY <1>1, <2>4, <2>5, <3>1, <3>2
  <2>7. Len(<<>>) = 0 /\ IsUnits(<<>>, c, num, q + Units)
    BY DEF IsUnits
  <2>8. Aligned(q + Units, lost)
    <3>1. q % Units = 0 => (q + Units) % Units = 0
      BY Division
    <3>2. (q + Units) % Units = 0 /\ q + Units > 0
      BY <1>6, <1>8, <3>1
    <3> QED BY <3>2 DEF Aligned
  <2>9. base \o next.frames = Own(c, num, lost, q + Units)
    <3>1. base \o Append(acc.frames, f) = Append(base \o acc.frames, f)
      <4>1. acc.frames \in Seq(Frame)
        BY <1>3
      <4> HIDE DEF f
      <4> QED BY <2>3, <4>1, AppendMoves
    <3>2. Own(c, num, lost, q + Units) = Append(Own(c, num, lost, q), f)
      <4>1. Aligned(q, lost) /\ q % Units = 0
        BY <1>4, <1>8
      <4> QED BY <4>1, OwnGrows DEF f
    <3> QED BY <1>4, <2>5, <3>1, <3>2
  <2>10. q + Units \in Nat /\ (q + Units) + 0 = p + 1 /\ 0 < Units
    BY <1>6, <1>8
  <2>11. ParsedTo(next, c, num, lost, base, p + 1, q + Units)
    BY <2>5, <2>7, <2>8, <2>9, <2>10 DEF ParsedTo
  <2> QED BY <1>1, <2>5, <2>6, <2>10, <2>11 DEF Parsed, next, unit
<1>9. CASE Len(w) = Units /\ q % Units # 0
  <2>1. ~Verified(w)
    BY <1>5, <1>9, VerifiedAtBeginnings
  <2>2. next = [acc EXCEPT !.left = Tail(w), !.skipped = @ + 1]
    BY <1>6, <1>9, <2>1 DEF Slide, w, unit
  <2>3. /\ Tail(w) \in Seq(Unit) /\ Len(Tail(w)) = Units - 1
        /\ IsUnits(Tail(w), c, num, q + 1)
    <3>1. w # <<>> /\ 1 \in 0 .. Len(w)
      BY <1>6, <1>9, EmptySeq
    <3>2. Tail(w) = SubSeq(w, 1 + 1, Len(w))
      BY <1>5, <3>1, TailIsSubSeq
    <3>3. /\ SubSeq(w, 1 + 1, Len(w)) \in Seq(Unit)
          /\ Len(SubSeq(w, 1 + 1, Len(w))) = Len(w) - 1
          /\ IsUnits(SubSeq(w, 1 + 1, Len(w)), c, num, q + 1)
      BY <1>5, <3>1, UnitsShrink
    <3> QED BY <1>9, <3>2, <3>3
  <2>4. /\ next \in Accs /\ next.left = Tail(w) /\ next.frames = acc.frames
        /\ next.skipped = acc.skipped + 1
    <3> HIDE DEF next
    <3>1. PICK tail \in Seq(Unit) : tail = Tail(w)
      BY <2>3
    <3>2. next = [acc EXCEPT !.left = tail, !.skipped = acc.skipped + 1]
      BY <1>1, <2>2, <3>1 DEF Accs
    <3>3. acc.skipped + 1 \in Nat
      BY <1>3
    <3> QED BY <1>1, <3>1, <3>2, <3>3 DEF Accs
  <2> HIDE DEF next
  <2>5. lost = 1 /\ q < Units /\ q + 1 <= Units /\ q + 1 \in Nat
    BY <1>4, <1>6, <1>9 DEF Aligned
  <2>6. Aligned(q + 1, lost)
    <3>1. CASE q + 1 < Units
      BY <2>5, <3>1 DEF Aligned
    <3>2. CASE q + 1 = Units
      <4>1. 0 % Units = 0 /\ 0 + Units = q + 1
        BY <1>6, <3>2
      <4>2. (0 + Units) % Units = 0
        BY <4>1, Division
      <4> QED BY <2>5, <4>1, <4>2 DEF Aligned
    <3> QED BY <1>6, <2>5, <3>1, <3>2
  <2>7. base \o next.frames = Own(c, num, lost, q + 1)
    <3>1. Own(c, num, 1, q) = <<>>
      BY <1>6, <2>5, NoneInLost
    <3>2. Own(c, num, 1, q + 1) = <<>>
      BY <2>5, NoneInLost
    <3> QED BY <1>4, <2>4, <2>5, <3>1, <3>2
  <2>8. ParsedTo(next, c, num, lost, base, p + 1, q + 1)
    <3>1. (q + 1) + (Units - 1) = p + 1 /\ Units - 1 < Units
      BY <1>6, <1>9
    <3> QED BY <2>3, <2>4, <2>6, <2>7, <3>1 DEF ParsedTo
  <2> QED BY <1>1, <2>4, <2>5, <2>8 DEF Parsed, next, unit
<1> QED BY <1>6, <1>7, <1>8, <1>9

(* Slide of any units.                                                      *)
LEMMA SlideType ==
  ASSUME NEW acc \in Accs, NEW unit \in Unit
  PROVE  Slide(acc, unit) \in Accs
<1> DEFINE w == Append(acc.left, unit)
           grown == [acc EXCEPT !.left = <<>>,
                                !.frames = Append(@, SubSeq(w[1], 1, 2))]
<1>1. /\ acc.left \in Seq(Unit) /\ acc.frames \in Seq(Frame)
      /\ acc.skipped \in Nat
  BY DEF Accs
<1>2. w \in Seq(Unit) /\ w # <<>> /\ Len(w) = Len(acc.left) + 1
  BY <1>1, AppendProperties
<1>3. Slide(acc, unit) = CASE Len(w) < Units -> [acc EXCEPT !.left = w]
                 [] Len(w) = Units /\ Verified(w) -> grown
                 [] OTHER -> [acc EXCEPT !.left = Tail(w), !.skipped = @ + 1]
  BY DEF Slide
<1>4. grown \in Accs
  <2>1. 1 \in 1 .. Len(w)
    BY <1>1, <1>2, LenProperties
  <2>2. w[1] \in Unit
    BY <1>2, <2>1, ElementOfSeq
  <2>3. SubSeq(w[1], 1, 2) \in Frame
    <3>1. PICK a \in Clients, b \in Nat, d \in Nat : w[1] = <<a, b, d>>
      BY <2>2 DEF Unit
    <3>2. SubSeq(<<a, b, d>>, 1, 2) = <<a, b>>
      BY FrameOfUnit
    <3> QED BY <3>1, <3>2 DEF Frame
  <2>4. PICK more \in Seq(Frame) : more = Append(acc.frames, SubSeq(w[1], 1, 2))
    BY <1>1, <2>3, AppendProperties
  <2>5. <<>> \in Seq(Unit)
    BY EmptySeq
  <2>6. grown = [acc EXCEPT !.left = <<>>, !.frames = more]
    BY <2>4
  <2> HIDE DEF grown
  <2> QED BY <2>4, <2>5, <2>6 DEF Accs
<1>5. [acc EXCEPT !.left = w] \in Accs
  <2> HIDE DEF w
  <2> QED BY <1>2 DEF Accs
<1>6. [acc EXCEPT !.left = Tail(w), !.skipped = @ + 1] \in Accs
  <2>1. PICK tail \in Seq(Unit) : tail = Tail(w)
    BY <1>2, HeadTailProperties
  <2>2. acc.skipped + 1 \in Nat
    BY <1>1
  <2>3. [acc EXCEPT !.left = tail, !.skipped = acc.skipped + 1] \in Accs
    BY <2>1, <2>2 DEF Accs
  <2> QED BY <2>1, <2>3
<1> HIDE DEF w, grown
<1>7. CASE Len(w) < Units
  BY <1>3, <1>5, <1>7
<1>8. CASE ~(Len(w) < Units) /\ Len(w) = Units /\ Verified(w)
  BY <1>3, <1>4, <1>8
<1>9. CASE ~(Len(w) < Units) /\ ~(Len(w) = Units /\ Verified(w))
  BY <1>3, <1>6, <1>9
<1> QED BY <1>7, <1>8, <1>9

(* after is what Decoded builds, unit by unit.                              *)
DecodedBy(after, left, units) ==
  /\ after[0] = [left |-> left, frames |-> <<>>, skipped |-> 0]
  /\ \A k \in 1 .. Len(units) : after[k] = Slide(after[k - 1], units[k])
  /\ Decoded(left, units) = after[Len(units)]

LEMMA DecodedIs ==
  ASSUME NEW left \in Seq(Unit), NEW units \in Seq(Unit)
  PROVE  \E after : DecodedBy(after, left, units)
<1> DEFINE n == Len(units)
           acc == [left |-> left, frames |-> <<>>, skipped |-> 0]
           Is(f) == f = [k \in 0 .. n |-> IF k = 0 THEN acc
                                          ELSE Slide(f[k - 1], units[k])]
           step == [x \in Accs \X Unit |-> Slide(x[1], x[2])]
           after == CHOOSE f : Is(f)
<1>1. n \in Nat /\ \A k \in 1 .. n : units[k] \in Unit
  BY LenProperties, ElementOfSeq
<1>2. step \in [Accs \X Unit -> Accs]
  BY SlideType
<1>3. \A x \in Accs, y \in Unit : step[<<x, y>>] = Slide(x, y)
  OBVIOUS
<1>4. acc \in Accs
  BY EmptySeq DEF Accs
<1> HIDE DEF step, acc
<1>5. PICK f \in [0 .. n -> Accs] : Folds(f, step, acc, units)
  BY <1>2, <1>4, FoldExists
<1> HIDE DEF n
<1>6. f[0] = acc /\ \A k \in 1 .. n : f[k] = Slide(f[k - 1], units[k])
  <2>1. f[0] = acc /\ \A k \in 1 .. n : f[k] = step[<<f[k - 1], units[k]>>]
    BY <1>5 DEF Folds, n
  <2>2. \A k \in 1 .. n : f[k - 1] \in Accs
    BY <1>1
  <2> QED BY <1>1, <1>3, <2>1, <2>2
<1>7. Is(f)
  <2>1. f = [k \in 0 .. n |-> f[k]]
    OBVIOUS
  <2>2. \A k \in 0 .. n : k = 0 \/ k \in 1 .. n
    BY <1>1
  <2> QED BY <1>6, <2>1, <2>2
<1>8. Is(after)
  <2>1. \E h : Is(h)
    BY <1>7
  <2> HIDE DEF Is
  <2> QED BY <2>1
<1>9. Decoded(left, units) = after[n]
  BY DEF Decoded, n, acc
<1> HIDE DEF after
<1>10. after[0] = acc /\ \A k \in 1 .. n : after[k] = Slide(after[k - 1], units[k])
  <2>1. \A k \in 0 .. n : after[k] = IF k = 0 THEN acc
                                     ELSE Slide(after[k - 1], units[k])
    BY <1>8
  <2>2. 0 \in 0 .. n /\ \A k \in 1 .. n : k \in 0 .. n /\ k # 0
    BY <1>1
  <2> QED BY <2>1, <2>2
<1> QED BY <1>9, <1>10 DEF DecodedBy, n, acc

(* The decoder has read what was received.                                  *)
LEMMA DecodedKeeps ==
  ASSUME NEW c \in Clients, NEW num \in Numbers, NEW lost \in {0, 1},
         NEW base \in Seq(Frame), NEW q \in Nat,
         NEW left \in Seq(Unit), NEW units \in Seq(Unit),
         Len(left) < Units, Aligned(q, lost), IsUnits(left, c, num, q),
         base = Own(c, num, lost, q),
         IsUnits(units, c, num, q + Len(left))
  PROVE  Parsed(Decoded(left, units), c, num, lost, base,
                (q + Len(left)) + Len(units))
<1> DEFINE n == Len(units)
           p == q + Len(left)
<1>1. PICK after : DecodedBy(after, left, units)
  BY DecodedIs
<1> DEFINE T == {k \in Nat : Parsed(after[k], c, num, lost, base, p + k)}
<1>2. n \in Nat /\ Len(left) \in Nat /\ p \in Nat
  BY LenProperties
<1>3. 0 \in T
  <2> DEFINE acc == after[0]
  <2>1. acc = [left |-> left, frames |-> <<>>, skipped |-> 0]
    BY <1>1 DEF DecodedBy
  <2> HIDE DEF acc
  <2>2. acc \in Accs /\ acc.left = left /\ acc.frames = <<>> /\ acc.skipped = 0
    BY <2>1, EmptySeq DEF Accs
  <2>3. base \o <<>> = base
    BY ConcatEmptySeq
  <2>4. ParsedTo(acc, c, num, lost, base, p, q)
    BY <2>2, <2>3 DEF ParsedTo
  <2>5. Len(<<>>) = 0 /\ p + 0 = p
    BY <1>2
  <2>6. Parsed(acc, c, num, lost, base, p)
    BY <2>2, <2>4, <2>5 DEF Parsed
  <2> QED BY <2>5, <2>6 DEF acc
<1>4. ASSUME NEW k \in 0 .. n - 1, k \in T PROVE k + 1 \in T
  <2>1. /\ k + 1 \in 1 .. Len(units) /\ (k + 1) - 1 = k /\ k + 1 \in Nat
        /\ (p + k) + 1 = p + (k + 1) /\ p + k \in Nat
        /\ p + (k + 1) - 1 = p + k
    BY <1>2
  <2>2. after[k + 1] = Slide(after[k], units[k + 1])
    BY <1>1, <2>1 DEF DecodedBy
  <2>3. units[k + 1] = UnitAt(c, num, p + k)
    BY <2>1 DEF IsUnits
  <2>4. Parsed(after[k], c, num, lost, base, p + k)
    BY <1>4
  <2>5. PICK acc : acc = after[k]
    OBVIOUS
  <2>6. PICK m \in Nat : m = p + k
    BY <2>1
  <2>7. Parsed(Slide(acc, UnitAt(c, num, m)), c, num, lost, base, m + 1)
    BY <2>4, <2>5, <2>6, SlideKeeps
  <2> QED BY <2>1, <2>2, <2>3, <2>5, <2>6, <2>7
<1>5. n \in T
  <2> HIDE DEF T
  <2> QED BY <1>2, <1>3, <1>4, InductionUpTo
<1>6. Decoded(left, units) = after[n]
  BY <1>1 DEF DecodedBy
<1> QED BY <1>5, <1>6

(***************************************************************************)
(* One connection                                                          *)
(***************************************************************************)

(* Of the sent units the decoder is done with some, which gave own; left    *)
(* has the next and rest those behind.                                      *)
Conn(c, num, lost, sent, left, rest, own) ==
  /\ left \in Seq(Unit) /\ rest \in Seq(Unit)
  /\ \E q \in Nat :
       /\ Aligned(q, lost) /\ Len(left) < Units
       /\ (q + Len(left)) + Len(rest) = sent
       /\ IsUnits(left, c, num, q)
       /\ IsUnits(rest, c, num, q + Len(left))
       /\ own = Own(c, num, lost, q)

(* n more units, up to the end of the frame that unit p is of.              *)
LEMMA OwnAdvances ==
  ASSUME NEW c \in Clients, NEW num \in Numbers, NEW lost \in {0, 1},
         NEW p \in Nat, NEW n \in Nat, (p % Units) + n <= Units
  PROVE  /\ (p + n) \div Units
              = IF (p % Units) + n = Units THEN (p \div Units) + 1
                                           ELSE p \div Units
         /\ Own(c, num, lost, p + n)
              = IF (p % Units) + n = Units /\ p \div Units >= lost
                THEN Append(Own(c, num, lost, p), <<c, num[p \div Units + 1]>>)
                ELSE Own(c, num, lost, p)
<1> DEFINE d == p \div Units
           r == p % Units
           b == d * Units
<1>1. /\ Units \in Nat \ {0} /\ Units >= 2 /\ d \in Nat /\ r \in 0 .. Units - 1
      /\ p = b + r /\ b \in Nat
  <2>1. Units \in Nat \ {0} /\ Units >= 2
    BY ListenerAssumption
  <2>2. p \div Units \in Nat /\ p % Units \in 0 .. Units - 1
        /\ p = (p \div Units) * Units + (p % Units)
    BY <2>1, DivMod
  <2>3. b \in Nat
    BY <2>1, <2>2
  <2> QED BY <2>1, <2>2, <2>3
<1>2. b % Units = 0 /\ b \div Units = d
  <2>1. \A k \in Nat : (k * Units + 0) \div Units = k /\ (k * Units + 0) % Units = 0
    BY <1>1
  <2>2. b = d * Units + 0
    BY <1>1
  <2> HIDE DEF d, b
  <2> QED BY <1>1, <2>1, <2>2 DEF b
<1>3. \A k \in 0 .. Units - 1 : (b + k) \div Units = d
  <2>1. b % Units = 0 => \A k \in 0 .. Units - 1 : (b + k) \div Units = b \div Units
    BY <1>1, Division
  <2> QED BY <1>2, <2>1
<1>4. (b + Units) \div Units = d + 1
  <2>1. b % Units = 0 => (b + Units) \div Units = (b \div Units) + 1
    BY <1>1, Division
  <2> QED BY <1>2, <2>1
<1>5. (p + n) \div Units = IF r + n = Units THEN d + 1 ELSE d
  <2>1. CASE r + n = Units
    <3>1. p + n = b + Units
      BY <1>1, <2>1
    <3> QED BY <1>4, <2>1, <3>1
  <2>2. CASE r + n # Units
    <3>1. r + n \in 0 .. Units - 1 /\ p + n = b + (r + n)
      BY <1>1, <2>2
    <3> QED BY <1>3, <2>2, <3>1
  <2> QED BY <2>1, <2>2
<1>6. \A k \in Nat : k \div Units = p \div Units
                       => Own(c, num, lost, k) = Own(c, num, lost, p)
  BY DEF Own
<1>7. CASE r + n # Units
  BY <1>5, <1>6, <1>7
<1>8. CASE r + n = Units /\ d < lost
  <2>1. lost = 1 /\ d = 0 /\ b = 0
    BY <1>1, <1>8
  <2>2. p <= Units /\ p + n <= Units /\ p + n \in Nat
    BY <1>1, <1>8, <2>1
  <2>3. Own(c, num, 1, p) = <<>> /\ Own(c, num, 1, p + n) = <<>>
    <3>1. Own(c, num, 1, p) = <<>>
      BY <2>2, NoneInLost
    <3>2. Own(c, num, 1, p + n) = <<>>
      BY <2>2, NoneInLost
    <3> QED BY <3>1, <3>2
  <2> QED BY <1>1, <1>5, <1>8, <2>1, <2>3
<1>9. CASE r + n = Units /\ d >= lost
  <2>1. p + n = b + Units
    BY <1>1, <1>9
  <2>2. Aligned(b, lost)
    <3>1. CASE lost = 1
      <4>1. b >= Units
        BY <1>1, <1>9, <3>1
      <4> QED BY <1>1, <1>2, <3>1, <4>1 DEF Aligned
    <3>2. CASE lost = 0
      BY <1>1, <1>2, <3>2 DEF Aligned
    <3> QED BY <3>1, <3>2
  <2>3. PICK m \in Nat : m = b
    BY <1>1
  <2>4. Aligned(m, lost) /\ m % Units = 0 /\ m \div Units = d
    BY <1>2, <2>2, <2>3
  <2>5. Own(c, num, lost, m + Units)
          = Append(Own(c, num, lost, m), <<c, num[m \div Units + 1]>>)
    BY <2>4, OwnGrows
  <2>6. Own(c, num, lost, m) = Own(c, num, lost, p)
    BY <1>6, <2>4
  <2> QED BY <1>5, <1>9, <2>1, <2>3, <2>4, <2>5, <2>6
<1> QED BY <1>1, <1>7, <1>8, <1>9

(* The same of a position named.                                            *)
Passes(p, n, next) == next = p + n /\ (p % Units) + n <= Units

Passed(c, num, lost, p, n, next) ==
  Own(c, num, lost, next)
    = IF (p % Units) + n = Units /\ p \div Units >= lost
      THEN Append(Own(c, num, lost, p), <<c, num[p \div Units + 1]>>)
      ELSE Own(c, num, lost, p)

LEMMA OwnPasses ==
  ASSUME NEW c \in Clients, NEW num \in Numbers, NEW lost \in {0, 1},
         NEW p \in Nat, NEW n \in Nat, NEW next, Passes(p, n, next)
  PROVE  Passed(c, num, lost, p, n, next)
<1>1. next = p + n /\ (p % Units) + n <= Units
  BY DEF Passes
<1>2. Own(c, num, lost, p + n)
        = IF (p % Units) + n = Units /\ p \div Units >= lost
          THEN Append(Own(c, num, lost, p), <<c, num[p \div Units + 1]>>)
          ELSE Own(c, num, lost, p)
  BY <1>1, OwnAdvances
<1> QED BY <1>1, <1>2 DEF Passed

(* A connection begins, perhaps in the middle of a frame.                   *)
LEMMA ConnBegins ==
  ASSUME NEW c \in Clients, NEW num \in Numbers, NEW lost \in {0, 1},
         NEW u \in 0 .. Units - 1, lost = (IF u > 0 THEN 1 ELSE 0)
  PROVE  /\ Conn(c, num, lost, u, <<>>, <<>>, <<>>)
         /\ Own(c, num, lost, u) = <<>>
<1>1. u \in Nat /\ 0 < Units /\ u \div Units = 0 /\ u % Units = u
      /\ u < Units
  <2>1. u \in Nat /\ 0 < Units /\ u < Units
    BY ListenerAssumption
  <2>2. u < Units => u \div Units = 0 /\ u % Units = u
    BY <2>1, Division
  <2> QED BY <2>1, <2>2
<1>2. Own(c, num, lost, u) = <<>>
  <2>1. /\ Own(c, num, lost, u) \in Seq(Frame)
        /\ Len(Own(c, num, lost, u))
             = IF u \div Units >= lost THEN (u \div Units) - lost ELSE 0
    BY <1>1, OwnIsSeq
  <2>2. Len(Own(c, num, lost, u)) = 0
    BY <1>1, <2>1
  <2> QED BY <2>1, <2>2, EmptySeq
<1>3. Aligned(u, lost)
  BY <1>1 DEF Aligned
<1>4. <<>> \in Seq(Unit) /\ Len(<<>>) = 0
  BY EmptySeq
<1>5. IsUnits(<<>>, c, num, u) /\ IsUnits(<<>>, c, num, u + 0)
  BY <1>4 DEF IsUnits
<1>6. (u + 0) + 0 = u /\ 0 < Units
  BY <1>1
<1> QED BY <1>1, <1>2, <1>3, <1>4, <1>5, <1>6 DEF Conn

(* Of one that nothing was sent on there is nothing.                        *)
LEMMA ConnEmpty ==
  ASSUME NEW c \in Clients, NEW num \in Numbers, NEW left, NEW rest, NEW own,
         Conn(c, num, 0, 0, left, rest, own)
  PROVE  left = <<>> /\ rest = <<>> /\ own = <<>>
<1>1. left \in Seq(Unit) /\ rest \in Seq(Unit)
  BY DEF Conn
<1>2. PICK q \in Nat : (q + Len(left)) + Len(rest) = 0 /\ own = Own(c, num, 0, q)
  BY DEF Conn
<1>3. q = 0 /\ Len(left) = 0 /\ Len(rest) = 0
  BY <1>1, <1>2, LenProperties
<1>4. Own(c, num, 0, 0) = <<>>
  <2>1. 0 \in 0 .. Units - 1
    BY ListenerAssumption
  <2> QED BY <2>1, ConnBegins
<1> QED BY <1>1, <1>2, <1>3, <1>4, EmptySeq

(* More is sent.                                                            *)
LEMMA ConnSends ==
  ASSUME NEW c \in Clients, NEW num \in Numbers, NEW lost \in {0, 1},
         NEW sent, NEW left, NEW rest, NEW own,
         Conn(c, num, lost, sent, left, rest, own),
         NEW more \in Seq(Unit), IsUnits(more, c, num, sent)
  PROVE  Conn(c, num, lost, sent + Len(more), left, rest \o more, own)
<1>1. left \in Seq(Unit) /\ rest \in Seq(Unit)
  BY DEF Conn
<1>2. PICK q \in Nat :
        /\ Aligned(q, lost) /\ Len(left) < Units
        /\ (q + Len(left)) + Len(rest) = sent
        /\ IsUnits(left, c, num, q)
        /\ IsUnits(rest, c, num, q + Len(left))
        /\ own = Own(c, num, lost, q)
  BY DEF Conn
<1>3. Len(left) \in Nat /\ Len(rest) \in Nat /\ Len(more) \in Nat
  BY <1>1, LenProperties
<1> DEFINE all == rest \o more
           p == q + Len(left)
<1>4. /\ all \in Seq(Unit) /\ Len(all) = Len(rest) + Len(more)
      /\ \A k \in 1 .. Len(rest) : all[k] = rest[k]
      /\ \A k \in 1 .. Len(more) : all[Len(rest) + k] = more[k]
  BY <1>1, ConcatElements
<1> HIDE DEF all
<1>5. ASSUME NEW j \in 1 .. Len(all) PROVE all[j] = UnitAt(c, num, p + j - 1)
  <2>1. CASE j <= Len(rest)
    <3>1. j \in 1 .. Len(rest)
      BY <2>1
    <3> QED BY <1>2, <1>4, <3>1 DEF IsUnits
  <2>2. CASE j > Len(rest)
    <3>1. PICK k \in 1 .. Len(more) : j = Len(rest) + k
      <4>1. j - Len(rest) \in 1 .. Len(more) /\ j = Len(rest) + (j - Len(rest))
        BY <1>3, <1>4, <2>2
      <4> QED BY <4>1
    <3>2. all[j] = more[k] /\ more[k] = UnitAt(c, num, sent + k - 1)
      BY <1>4, <3>1 DEF IsUnits
    <3>3. sent + k - 1 = p + j - 1
      BY <1>2, <1>3, <3>1
    <3> QED BY <3>2, <3>3
  <2> QED BY <1>3, <1>4, <2>1, <2>2
<1>6. IsUnits(all, c, num, p)
  BY <1>5 DEF IsUnits
<1>7. (q + Len(left)) + Len(all) = sent + Len(more)
  BY <1>2, <1>3, <1>4
<1>8. Conn(c, num, lost, sent + Len(more), left, all, own)
  BY <1>1, <1>2, <1>4, <1>6, <1>7 DEF Conn
<1> QED BY <1>8 DEF all

(* n units are received and decoded.                                        *)
LEMMA ConnReceives ==
  ASSUME NEW c \in Clients, NEW num \in Numbers, NEW lost \in {0, 1},
         NEW sent, NEW left, NEW rest, NEW own,
         Conn(c, num, lost, sent, left, rest, own),
         NEW n \in 1 .. Len(rest), NEW result,
         result = Decoded(left, SubSeq(rest, 1, n))
  PROVE  /\ result \in Accs
         /\ \A k \in 1 .. Len(result.frames) : result.frames[k][1] = c
         /\ lost = 0 => result.skipped = 0
         /\ Conn(c, num, lost, sent, result.left,
                 SubSeq(rest, n + 1, Len(rest)), own \o result.frames)
<1>1. left \in Seq(Unit) /\ rest \in Seq(Unit)
  BY DEF Conn
<1>2. PICK q \in Nat :
        /\ Aligned(q, lost) /\ Len(left) < Units
        /\ (q + Len(left)) + Len(rest) = sent
        /\ IsUnits(left, c, num, q)
        /\ IsUnits(rest, c, num, q + Len(left))
        /\ own = Own(c, num, lost, q)
  BY DEF Conn
<1>3. Len(left) \in Nat /\ Len(rest) \in Nat /\ n \in 0 .. Len(rest)
      /\ q + Len(left) \in Nat
  BY <1>1, LenProperties
<1> DEFINE units == SubSeq(rest, 1, n)
           more == SubSeq(rest, n + 1, Len(rest))
<1>4. units \in Seq(Unit) /\ Len(units) = n /\ IsUnits(units, c, num, q + Len(left))
  <2>1. units \in Seq(Unit) /\ IsFront(units, n, rest)
    BY <1>1, <1>3, SplitIn
  <2> HIDE DEF units
  <2>2. Len(units) = n /\ \A k \in 1 .. n : units[k] = rest[k] /\ k \in 1 .. Len(rest)
    BY <1>3, <2>1 DEF IsFront
  <2>3. IsUnits(units, c, num, q + Len(left))
    BY <1>2, <2>2 DEF IsUnits
  <2> QED BY <2>1, <2>2, <2>3
<1>5. /\ more \in Seq(Unit) /\ Len(more) = Len(rest) - n
      /\ IsUnits(more, c, num, (q + Len(left)) + n)
  BY <1>1, <1>2, <1>3, UnitsShrink
<1> HIDE DEF units, more
<1>6. own \in Seq(Frame)
  BY <1>2, OwnIsSeq
<1>7. Parsed(result, c, num, lost, own, (q + Len(left)) + n)
  <2>1. Parsed(Decoded(left, units), c, num, lost, own,
               (q + Len(left)) + Len(units))
    BY <1>1, <1>2, <1>4, <1>6, DecodedKeeps
  <2> QED BY <1>4, <2>1 DEF units
<1>8. PICK r \in Nat : ParsedTo(result, c, num, lost, own, (q + Len(left)) + n, r)
  BY <1>7 DEF Parsed
<1>9. result \in Accs
  BY <1>7 DEF Parsed
<1>10. result.left \in Seq(Unit)
  BY <1>9 DEF Accs
<1>11. Conn(c, num, lost, sent, result.left, more, own \o result.frames)
  <2>1. /\ r + Len(result.left) = (q + Len(left)) + n
        /\ Len(result.left) < Units /\ Aligned(r, lost)
        /\ IsUnits(result.left, c, num, r)
        /\ own \o result.frames = Own(c, num, lost, r)
    BY <1>8 DEF ParsedTo
  <2>2. (r + Len(result.left)) + Len(more) = sent
    <3>1. Len(result.left) \in Nat /\ Len(rest) \in Nat
      BY <1>1, <1>10, LenProperties
    <3>2. PICK a \in Nat, b \in Nat : a = Len(result.left) /\ b = Len(rest)
      BY <3>1
    <3>3. (r + a) + (b - n) = ((q + Len(left)) + n) + (b - n)
      BY <2>1, <3>2
    <3>4. ((q + Len(left)) + n) + (b - n) = (q + Len(left)) + b
      BY <1>3, <3>2
    <3> QED BY <1>2, <1>5, <3>2, <3>3, <3>4
  <2>3. IsUnits(more, c, num, r + Len(result.left))
    BY <1>5, <2>1
  <2> QED BY <1>5, <1>10, <2>1, <2>2, <2>3 DEF Conn
<1> QED BY <1>7, <1>9, <1>11 DEF Parsed, more

(* Division keeps the order.                                                *)
LEMMA DivOrder ==
  ASSUME NEW n \in Nat \ {0}, NEW k \in Nat, NEW l \in Nat
  PROVE  /\ k <= l => k \div n <= l \div n
         /\ k < l /\ l % n = 0 => (k \div n) + 1 <= l \div n
OBVIOUS

(* What was passed on are the first of the whole frames, and all of them    *)
(* when nothing is left to receive.                                         *)
LEMMA ConnIsPrefix ==
  ASSUME NEW c \in Clients, NEW num \in Numbers, NEW lost \in {0, 1},
         NEW sent \in Nat, NEW left, NEW rest, NEW own,
         Conn(c, num, lost, sent, left, rest, own)
  PROVE  /\ IsPrefix(own, Own(c, num, lost, sent))
         /\ rest = <<>> => own = Own(c, num, lost, sent)
<1> DEFINE all == Own(c, num, lost, sent)
<1>1. left \in Seq(Unit) /\ rest \in Seq(Unit)
  BY DEF Conn
<1>2. PICK q \in Nat :
        /\ Aligned(q, lost) /\ Len(left) < Units
        /\ (q + Len(left)) + Len(rest) = sent
        /\ own = Own(c, num, lost, q)
  BY DEF Conn
<1>3. Len(left) \in Nat /\ Len(rest) \in Nat /\ q <= sent
      /\ Units \in Nat \ {0} /\ Units >= 2
  <2>1. Len(left) \in Nat /\ Len(rest) \in Nat
    BY <1>1, LenProperties
  <2> QED BY <1>2, <2>1, ListenerAssumption
<1>4. IsPrefix(own, all)
  <2>1. /\ q \div Units \in Nat /\ sent \div Units \in Nat
        /\ q \div Units <= sent \div Units
    <3>1. q <= sent => q \div Units <= sent \div Units
      BY <1>3, DivOrder
    <3> QED BY <1>3, <3>1, DivMod
  <2>2. PICK m \in Nat, n \in Nat :
          /\ m = IF q \div Units >= lost THEN (q \div Units) - lost ELSE 0
          /\ n = IF sent \div Units >= lost THEN (sent \div Units) - lost ELSE 0
    BY <2>1
  <2>3. m <= n
    BY <2>1, <2>2
  <2>4. /\ own \in Seq(Frame) /\ Len(own) = m
        /\ \A k \in 1 .. m : own[k] = <<c, num[k + lost]>>
    <3>1. /\ Own(c, num, lost, q) \in Seq(Frame)
          /\ Len(Own(c, num, lost, q))
               = IF q \div Units >= lost THEN (q \div Units) - lost ELSE 0
          /\ \A k \in 1 .. (q \div Units) - lost :
               Own(c, num, lost, q)[k] = <<c, num[k + lost]>>
      BY OwnIsSeq
    <3>2. \A k \in 1 .. m : k \in 1 .. (q \div Units) - lost
      BY <2>1, <2>2
    <3> QED BY <1>2, <2>2, <3>1, <3>2
  <2>5. /\ all \in Seq(Frame) /\ Len(all) = n
        /\ \A k \in 1 .. n : all[k] = <<c, num[k + lost]>>
    <3>1. /\ all \in Seq(Frame)
          /\ Len(all)
               = IF sent \div Units >= lost THEN (sent \div Units) - lost ELSE 0
          /\ \A k \in 1 .. (sent \div Units) - lost :
               all[k] = <<c, num[k + lost]>>
      BY OwnIsSeq
    <3>2. \A k \in 1 .. n : k \in 1 .. (sent \div Units) - lost
      BY <2>1, <2>2
    <3> HIDE DEF all
    <3> QED BY <2>2, <3>1, <3>2
  <2> HIDE DEF all
  <2>6. m \in 0 .. Len(all) /\ m \in 0 .. Len(own)
    BY <2>3, <2>4, <2>5
  <2>7. SubSeq(all, 1, m) \in Seq(Frame) /\ IsFront(SubSeq(all, 1, m), m, all)
    BY <2>5, <2>6, SplitIn
  <2>8. SubSeq(own, 1, m) = own
    BY <2>4, PrefixEnds
  <2>9. \A k \in 1 .. m : k \in 1 .. n
    BY <2>3
  <2>10. SubSeq(all, 1, m) = own
    <3>1. Len(SubSeq(all, 1, m)) = m /\ \A k \in 1 .. m : SubSeq(all, 1, m)[k] = own[k]
      BY <2>4, <2>5, <2>7, <2>9 DEF IsFront
    <3> QED BY <2>4, <2>7, <3>1, SeqEqual
  <2>11. Len(own) <= Len(all)
    BY <2>3, <2>4, <2>5
  <2> QED BY <2>4, <2>8, <2>10, <2>11 DEF IsPrefix
<1>5. ASSUME rest = <<>> PROVE own = all
  <2>1. Len(rest) = 0
    BY <1>5, EmptySeq
  <2>2. sent = q + Len(left)
    BY <1>2, <1>3, <2>1
  <2>3. CASE q % Units = 0
    <3>1. (q % Units) + Len(left) < Units
      BY <1>2, <1>3, <2>3
    <3>2. Own(c, num, lost, q + Len(left)) = Own(c, num, lost, q)
      <4>1. PICK n \in Nat : n = Len(left)
        BY <1>3
      <4>2. (q % Units) + n <= Units /\ ~((q % Units) + n = Units)
        BY <1>3, <3>1, <4>1, <2>3
      <4>3. PICK z : z = q + n
        OBVIOUS
      <4>4. Passes(q, n, z)
        BY <4>2, <4>3 DEF Passes
      <4>5. Passed(c, num, lost, q, n, z)
        BY <4>4, OwnPasses
      <4> QED BY <4>1, <4>2, <4>3, <4>5 DEF Passed
    <3> QED BY <1>2, <2>2, <3>2
  <2>4. CASE q % Units # 0
    <3>1. lost = 1 /\ q < Units
      BY <1>2, <2>4 DEF Aligned
    <3>2. Own(c, num, 1, q) = <<>>
      BY <1>3, <3>1, NoneInLost
    <3>3. CASE sent <= Units
      <4>1. Own(c, num, 1, sent) = <<>>
        BY <3>3, NoneInLost
      <4> QED BY <1>2, <3>1, <3>2, <4>1
    <3>4. CASE sent > Units
      <4>1. PICK n \in Nat : sent = Units + n /\ n < Units
        <5>1. sent - Units \in Nat /\ sent - Units < Units
              /\ sent = Units + (sent - Units)
          BY <1>2, <1>3, <2>2, <3>1, <3>4
        <5> QED BY <5>1
      <4>2. Units \in Nat /\ Units % Units = 0
        <5>1. 0 % Units = 0 /\ 0 + Units = Units
          BY <1>3
        <5>2. 0 % Units = 0 => (0 + Units) % Units = 0
          BY Division
        <5> QED BY <1>3, <5>1, <5>2
      <4>3. PICK p \in Nat : p = Units
        BY <4>2
      <4>4. (p % Units) + n <= Units /\ ~((p % Units) + n = Units)
        BY <1>3, <4>1, <4>2, <4>3
      <4>5. PICK z : z = p + n
        OBVIOUS
      <4>6. Passes(p, n, z)
        BY <4>4, <4>5 DEF Passes
      <4>7. Passed(c, num, lost, p, n, z)
        BY <4>6, OwnPasses
      <4>8. Own(c, num, lost, z) = Own(c, num, lost, p)
        BY <4>4, <4>7 DEF Passed
      <4>9. Own(c, num, 1, p) = <<>>
        BY <1>3, <4>3, NoneInLost
      <4> QED BY <1>2, <3>1, <3>2, <4>1, <4>3, <4>5, <4>8, <4>9
    <3> QED BY <1>3, <3>3, <3>4
  <2> QED BY <2>3, <2>4
<1> QED BY <1>4, <1>5

(* The numbers of frames that nothing was sent of do not matter.            *)
SameNumbers(num, other, sent) ==
  /\ sent % Units = 0
  /\ \A k \in 1 .. sent \div Units : num[k] = other[k]

LEMMA ConnRenumbered ==
  ASSUME NEW c \in Clients, NEW num \in Numbers, NEW other \in Numbers,
         NEW lost \in {0, 1},
         NEW sent \in Nat, NEW left, NEW rest, NEW own,
         Conn(c, num, lost, sent, left, rest, own),
         SameNumbers(num, other, sent)
  PROVE  /\ Conn(c, other, lost, sent, left, rest, own)
         /\ Own(c, other, lost, sent) = Own(c, num, lost, sent)
<1>1. left \in Seq(Unit) /\ rest \in Seq(Unit)
  BY DEF Conn
<1>2. PICK q \in Nat :
        /\ Aligned(q, lost) /\ Len(left) < Units
        /\ (q + Len(left)) + Len(rest) = sent
        /\ IsUnits(left, c, num, q)
        /\ IsUnits(rest, c, num, q + Len(left))
        /\ own = Own(c, num, lost, q)
  BY DEF Conn
<1>3. Len(left) \in Nat /\ Len(rest) \in Nat /\ q <= sent
      /\ Units \in Nat \ {0}
  <2>1. Len(left) \in Nat /\ Len(rest) \in Nat
    BY <1>1, LenProperties
  <2> QED BY <1>2, <2>1, ListenerAssumption
<1>0. sent % Units = 0 /\ \A k \in 1 .. sent \div Units : num[k] = other[k]
  BY DEF SameNumbers
<1>4. ASSUME NEW k \in 0 .. sent - 1
      PROVE  UnitAt(c, num, k) = UnitAt(c, other, k)
  <2>1. k \in Nat /\ k < sent
    OBVIOUS
  <2>2. k < sent /\ sent % Units = 0 => (k \div Units) + 1 <= sent \div Units
    BY <1>3, <2>1, DivOrder
  <2>3. k \div Units \in Nat /\ sent \div Units \in Nat
    BY <1>3, <2>1, DivMod
  <2>4. k \div Units + 1 \in 1 .. sent \div Units
    BY <1>0, <2>1, <2>2, <2>3
  <2> QED BY <1>0, <2>4 DEF UnitAt
<1>5. ASSUME NEW k \in Nat, k <= sent
      PROVE  Own(c, num, lost, k) = Own(c, other, lost, k)
  <2>1. k \div Units <= sent \div Units /\ k \div Units \in Nat
        /\ sent \div Units \in Nat
    <3>1. k <= sent => k \div Units <= sent \div Units
      BY <1>3, DivOrder
    <3> QED BY <1>3, <1>5, <3>1, DivMod
  <2>2. \A j \in 1 .. (k \div Units) - lost : j + lost \in 1 .. sent \div Units
    BY <2>1
  <2> QED BY <1>0, <2>2 DEF Own
<1>6. IsUnits(left, c, other, q)
  <2> SUFFICES ASSUME NEW j \in 1 .. Len(left)
               PROVE  left[j] = UnitAt(c, other, q + j - 1)
    BY DEF IsUnits
  <2>1. q + j - 1 \in 0 .. sent - 1
    BY <1>2, <1>3
  <2> QED BY <1>2, <1>4, <2>1 DEF IsUnits
<1>7. IsUnits(rest, c, other, q + Len(left))
  <2> SUFFICES ASSUME NEW j \in 1 .. Len(rest)
               PROVE  rest[j] = UnitAt(c, other, (q + Len(left)) + j - 1)
    BY DEF IsUnits
  <2>1. (q + Len(left)) + j - 1 \in 0 .. sent - 1
    BY <1>2, <1>3
  <2> QED BY <1>2, <1>4, <2>1 DEF IsUnits
<1>8. own = Own(c, other, lost, q)
  BY <1>2, <1>3, <1>5
<1>9. sent <= sent
  OBVIOUS
<1> QED BY <1>1, <1>2, <1>5, <1>6, <1>7, <1>8, <1>9 DEF Conn

(***************************************************************************)
(* The inductive invariant                                                 *)
(***************************************************************************)
Links == {"idle", "backlog", "open", "eof", "cut"}
Datagrams == {<<"replay", n>> : n \in Nat} \union {<<"garbled">>}

Typed ==
  /\ program \in {"capture", "operator"} /\ transport \in {"tcp", "udp"}
  /\ link \in [Clients -> Links]
  /\ sock \in [Clients -> Seq(Unit)]
  /\ ended \in [Clients -> {"no", "closed", "reset"}]
  /\ at \in [Edges -> Nat] /\ torn \subseteq Edges
  /\ whole \in [Clients -> Seq(Frame)]
  /\ backlog \in Seq(Clients) /\ dgrams \in Seq(Datagrams)
  /\ got \in Seq(Frame) /\ skipped \in Nat
  /\ client \in Clients \union {"none"} /\ stream \in Seq(Unit)
  /\ buffers \in [Clients -> Seq(Unit)]
  /\ i \in Nat \ {0} /\ off \in 0 .. Units - 1

(* No connection waits twice, and those that wait are not accepted.         *)
Queue(s, how) ==
  /\ \A k \in 1 .. Len(s) : how[s[k]] = "backlog"
  /\ \A k, l \in 1 .. Len(s) : s[k] = s[l] => k = l

QueueInv == Queue(backlog, link)

(* Capture has one connection, and bytes of no other.                       *)
ClientInv ==
  /\ program = "operator" => client = "none"
  /\ program = "capture" /\ Running =>
       /\ client = "none" => stream = <<>>
       /\ \A c \in Clients : link[c] = "open" <=> c = client

ReplayInv ==
  /\ transport = "tcp" => dgrams = <<>>
  /\ transport = "udp" => link["replay"] = "idle"
  /\ off > 0 => source.good[i]
  /\ replayPc # "ended" => ended["replay"] = "no"
  /\ transport = "tcp" /\ replayPc = "sending" => link["replay"] # "idle"

(* The connections of which ConnectionsKeepTheirFrames tells.               *)
Followed(c) == transport = "tcp" \/ c # "replay"

Lost(c) == IF c \in torn THEN 1 ELSE 0

Sent(c) == IF c = "replay" THEN Len(whole[c]) * Units + off ELSE at[c]

(* The number of the frame that the client is sending, 0 between frames.    *)
Now(c) == IF c = "replay" /\ off > 0 THEN i ELSE 0

Left(c) ==
  IF program = "operator" THEN buffers[c]
  ELSE IF c = client THEN stream ELSE <<>>

Numbered(c, num, w, now) ==
  /\ c \in Edges => \A k \in Nat : num[k] = k
  /\ now > 0 => num[Len(w) + 1] = now

Live == {"idle", "backlog", "open"}

(* A connection, until it ends and after.                                   *)
Linked(c, how, w, lost, sent, left, rest, own, now) ==
  IF how \in Live
    THEN /\ how = "idle" => sent = 0 /\ lost = 0
         /\ \E num \in Numbers :
              /\ Numbered(c, num, w, now)
              /\ w = Own(c, num, lost, sent)
              /\ Conn(c, num, lost, sent, left, rest, own)
    ELSE /\ IsPrefix(own, w)
         /\ how = "eof" => own = w

LinkInv(c) ==
  Linked(c, link[c], whole[c], Lost(c), Sent(c), Left(c), sock[c],
         From(c, got), Now(c))

Linking == \A c \in Clients : Followed(c) => LinkInv(c)

SkipInv == torn = {} => skipped = 0

Inv ==
  Typed /\ QueueInv /\ ClientInv /\ ReplayInv /\ SkipInv /\ Linking

(***************************************************************************)
(* The types                                                               *)
(***************************************************************************)

(* What Decoded returns of any units.                                       *)
LEMMA DecodedType ==
  ASSUME NEW left \in Seq(Unit), NEW units \in Seq(Unit)
  PROVE  Decoded(left, units) \in Accs
<1>1. PICK after : DecodedBy(after, left, units)
  BY DecodedIs
<1> DEFINE T == {k \in Nat : after[k] \in Accs}
           n == Len(units)
<1>2. n \in Nat /\ \A k \in 1 .. n : units[k] \in Unit
  BY LenProperties, ElementOfSeq
<1>3. 0 \in T
  <2>1. [left |-> left, frames |-> <<>>, skipped |-> 0] \in Accs
    BY EmptySeq DEF Accs
  <2> QED BY <1>1, <2>1 DEF DecodedBy
<1>4. ASSUME NEW k \in 0 .. n - 1, k \in T PROVE k + 1 \in T
  <2>1. k + 1 \in 1 .. n /\ (k + 1) - 1 = k /\ k + 1 \in Nat
    BY <1>2
  <2>2. after[k + 1] = Slide(after[k], units[k + 1])
    BY <1>1, <2>1 DEF DecodedBy
  <2>3. after[k] \in Accs /\ units[k + 1] \in Unit
    BY <1>2, <1>4, <2>1
  <2> QED BY <2>1, <2>2, <2>3, SlideType
<1>5. n \in T
  <2> HIDE DEF T
  <2> QED BY <1>2, <1>3, <1>4, InductionUpTo
<1> QED BY <1>1, <1>5 DEF DecodedBy

(* What is received, and what that leaves, are units.                       *)
LEMMA ReceivedType ==
  ASSUME Typed, NEW c \in Clients, NEW n \in 1 .. Len(sock[c])
  PROVE  /\ Received(c, n) \in Seq(Unit)
         /\ SubSeq(sock[c], n + 1, Len(sock[c])) \in Seq(Unit)
<1>1. sock[c] \in Seq(Unit) /\ n \in 0 .. Len(sock[c])
  BY DEF Typed
<1> QED BY <1>1, SplitIn DEF Received

LEMMA TypedInit ==
  ASSUME Init
  PROVE  Typed
<1>1. /\ <<>> \in Seq(Unit) /\ <<>> \in Seq(Frame) /\ <<>> \in Seq(Clients)
      /\ <<>> \in Seq(Datagrams)
  BY EmptySeq
<1>2. 0 \in 0 .. Units - 1
  BY ListenerAssumption
<1> QED BY <1>1, <1>2 DEF Init, ListenerInit, ReplayInit, CaptureInit,
                           ReceiverInit, Typed, Links

(* The replay tool.                                                         *)
LEMMA TypedReplay ==
  ASSUME Typed, ReplayStep
  PROVE  Typed'
<1> USE DEF Typed, kernel, results, replayVars, captureVars, receiverVars,
            ReplayStep
<1>1. "replay" \in Clients /\ 0 \in 0 .. Units - 1
  BY ListenerAssumption DEF Clients
<1>2. CASE ReplayRefused
  BY <1>2 DEF ReplayRefused, Exit
<1>3. CASE ReplayStart
  <2>1. Append(backlog, "replay") \in Seq(Clients)
    BY <1>1, AppendProperties
  <2> QED BY <1>1, <1>3, <2>1 DEF ReplayStart, Connect, Links
<1>4. CASE SkipBad
  <2>1. i' \in Nat \ {0} /\ off' \in 0 .. Units - 1
    BY <1>1, <1>4 DEF SkipBad, Advance
  <2> QED BY <1>4, <2>1 DEF SkipBad
<1>5. CASE SendSome
  <2>1. PICK n \in 1 .. Units - off :
          /\ sock' = [sock EXCEPT !["replay"] = @ \o Rest(n)]
          /\ IF off + n = Units
               THEN /\ Advance(TRUE)
                    /\ whole' = [whole EXCEPT !["replay"] =
                                   Append(@, <<"replay", i>>)]
               ELSE off' = off + n /\ UNCHANGED <<i, fail, whole>>
    BY <1>5 DEF SendSome
  <2>2. Rest(n) \in Seq(Unit)
    <3>1. \A k \in 1 .. n : <<"replay", i, off + k - 1>> \in Unit
      <4>1. i \in Nat /\ \A k \in 1 .. n : off + k - 1 \in Nat
        BY <1>1
      <4> HIDE DEF Typed
      <4> QED BY <1>1, <4>1 DEF Unit
    <3>2. n \in Nat
      BY ListenerAssumption
    <3>3. Rest(n) \in [1 .. n -> Unit]
      BY <3>1 DEF Rest
    <3> QED BY <3>2, <3>3, FunctionIsSeq
  <2>3. sock' \in [Clients -> Seq(Unit)]
    <3>1. sock["replay"] \o Rest(n) \in Seq(Unit)
      BY <1>1, <2>2, ConcatProperties
    <3> QED BY <2>1, <3>1
  <2>4. whole' \in [Clients -> Seq(Frame)]
    <3>1. Append(whole["replay"], <<"replay", i>>) \in Seq(Frame)
      BY <1>1, AppendProperties DEF Frame
    <3> QED BY <2>1, <3>1
  <2>5. i' \in Nat \ {0} /\ off' \in 0 .. Units - 1
    <3>1. CASE off + n = Units
      <4>1. i' = i + 1 /\ off' = 0
        BY <2>1, <3>1 DEF Advance
      <4> QED BY <1>1, <4>1
    <3>2. CASE off + n # Units
      <4>1. off' = off + n /\ i' = i
        BY <2>1, <3>2
      <4> QED BY <3>2, <4>1, ListenerAssumption
    <3> QED BY <3>1, <3>2
  <2> QED BY <1>5, <2>3, <2>4, <2>5 DEF SendSome
<1>6. CASE SendBroken
  <2>1. i' \in Nat \ {0} /\ off' \in 0 .. Units - 1
    <3>1. \/ i' = i + 1 /\ off' = 0
          \/ i' = i /\ off' = off
      BY <1>6 DEF SendBroken, Advance
    <3>2. i \in Nat \ {0} /\ i + 1 \in Nat \ {0} /\ off \in 0 .. Units - 1
      OBVIOUS
    <3> HIDE DEF Typed
    <3> QED BY <1>1, <3>1, <3>2
  <2> QED BY <1>6, <2>1 DEF SendBroken
<1>7. CASE SendDatagram
  <2>1. dgrams' \in Seq(Datagrams)
    <3>1. \A d \in {<<"replay", i>>, <<"garbled">>} :
            Append(dgrams, d) \in Seq(Datagrams)
      <4> SUFFICES ASSUME NEW d \in {<<"replay", i>>, <<"garbled">>}
                   PROVE  Append(dgrams, d) \in Seq(Datagrams)
        OBVIOUS
      <4>1. d \in Datagrams
        BY DEF Datagrams
      <4> QED BY <4>1, AppendProperties
    <3> QED BY <1>7, <3>1 DEF SendDatagram
  <2>2. i' = i + 1 /\ off' = 0
    BY <1>7 DEF SendDatagram, Advance
  <2>3. i + 1 \in Nat \ {0}
    OBVIOUS
  <2> QED BY <1>1, <1>7, <2>1, <2>2, <2>3 DEF SendDatagram
<1>8. CASE ReplayEnd
  BY <1>1, <1>8 DEF ReplayEnd, Exit
<1> QED BY <1>2, <1>3, <1>4, <1>5, <1>6, <1>7, <1>8 DEF ReplayNext

(* Edges.                                                                   *)
LEMMA TypedEdges ==
  ASSUME Typed, EdgeStep
  PROVE  Typed'
<1> USE DEF Typed, kernel, results, replayVars, captureVars, receiverVars,
            EdgeStep
<1>1. PICK e \in Edges : EdgeConnects(e) \/ EdgeSends(e) \/ EdgeEnds(e)
  BY DEF EdgeNext
<1>2. e \in Clients
  BY DEF Clients
<1>3. CASE EdgeConnects(e)
  <2>1. Append(backlog, e) \in Seq(Clients)
    BY <1>2, AppendProperties
  <2>2. link' \in [Clients -> Links]
    BY <1>3 DEF EdgeConnects, Connect, Links
  <2>3. at' \in [Edges -> Nat] /\ torn' \subseteq Edges
    BY <1>3, ListenerAssumption DEF EdgeConnects
  <2> QED BY <1>3, <2>1, <2>2, <2>3 DEF EdgeConnects, Connect
<1>4. CASE EdgeSends(e)
  <2>1. at[e] \div Units + 1 \in Nat /\ at[e] % Units \in Nat
    <3>1. at[e] \div Units \in Nat /\ at[e] % Units \in 0 .. Units - 1
      BY Division
    <3> QED BY <3>1
  <2>2. PICK f \in Nat, u \in Nat :
          f = at[e] \div Units + 1 /\ u = at[e] % Units
    BY <2>1
  <2>3. sock' \in [Clients -> Seq(Unit)]
    <3>1. Append(sock[e], <<e, f, u>>) \in Seq(Unit)
      BY <1>2, AppendProperties DEF Unit
    <3> QED BY <1>4, <2>2, <3>1 DEF EdgeSends
  <2>4. whole' \in [Clients -> Seq(Frame)]
    <3>1. Append(whole[e], <<e, f>>) \in Seq(Frame)
      BY <1>2, AppendProperties DEF Frame
    <3>2. whole' \in {whole, [whole EXCEPT ![e] = Append(@, <<e, f>>)]}
      BY <1>4, <2>2 DEF EdgeSends
    <3> QED BY <3>1, <3>2
  <2>5. at' \in [Edges -> Nat]
    <3>1. at[e] + 1 \in Nat
      OBVIOUS
    <3>2. at' = [at EXCEPT ![e] = @ + 1]
      BY <1>4 DEF EdgeSends
    <3> QED BY <3>1, <3>2
  <2> QED BY <1>4, <2>3, <2>4, <2>5 DEF EdgeSends
<1>5. CASE EdgeEnds(e)
  BY <1>5 DEF EdgeEnds
<1> QED BY <1>1, <1>3, <1>4, <1>5

(* A connection is taken from the queue.                                    *)
LEMMA AcceptType ==
  ASSUME Typed, NEW c \in Clients, Accept(c)
  PROVE  backlog' \in Seq(Clients)
BY HeadTailProperties DEF Typed, Accept

(* A datagram that verifies is a frame of the replay's.                     *)
LEMMA DatagramType ==
  ASSUME Typed, dgrams # <<>>
  PROVE  /\ Tail(dgrams) \in Seq(Datagrams)
         /\ Head(dgrams) # <<"garbled">>
              => Head(dgrams) \in Frame /\ Head(dgrams)[1] = "replay"
<1>1. Head(dgrams) \in Datagrams /\ Tail(dgrams) \in Seq(Datagrams)
  BY HeadTailProperties DEF Typed
<1>2. ASSUME Head(dgrams) # <<"garbled">>
      PROVE  Head(dgrams) \in Frame /\ Head(dgrams)[1] = "replay"
  <2>1. PICK n \in Nat : Head(dgrams) = <<"replay", n>>
    BY <1>1, <1>2 DEF Datagrams
  <2> QED BY <2>1 DEF Frame, Clients
<1> QED BY <1>1, <1>2

(* All sockets are gone.                                                    *)
LEMMA GoneType ==
  ASSUME Typed, Gone
  PROVE  /\ link' \in [Clients -> Links] /\ sock' \in [Clients -> Seq(Unit)]
         /\ backlog' \in Seq(Clients) /\ dgrams' \in Seq(Datagrams)
         /\ UNCHANGED <<ended, at, torn, whole, got, skipped>>
<1>1. <<>> \in Seq(Unit) /\ <<>> \in Seq(Clients) /\ <<>> \in Seq(Datagrams)
  BY EmptySeq
<1>2. link' \in [Clients -> Links]
  BY DEF Gone, Typed, Links
<1> QED BY <1>1, <1>2 DEF Gone, results

(* Capture.                                                                 *)
LEMMA TypedCapture ==
  ASSUME Typed, Captures(CaptureNext)
  PROVE  Typed'
<1> USE DEF Typed, kernel, results, replayVars, receiverVars
<1>1. <<>> \in Seq(Unit) /\ UNCHANGED <<program, replayVars, receiverVars>>
  BY EmptySeq DEF Captures
<1>2. ASSUME NEW c \in Clients, CaptureAccepts(c) PROVE Typed'
  <2>1. backlog' \in Seq(Clients)
    BY <1>2, AcceptType DEF CaptureAccepts
  <2>2. /\ link' \in [Clients -> Links] /\ sock' \in [Clients -> Seq(Unit)]
        /\ stream' \in Seq(Unit)
    <3>1. CASE client = "none"
      BY <1>2, <3>1 DEF CaptureAccepts, Replace, Links
    <3>2. CASE client # "none"
      BY <1>1, <1>2, <3>2 DEF CaptureAccepts, Replace, Forget, Links
    <3> QED BY <3>1, <3>2
  <2> QED BY <1>1, <1>2, <2>1, <2>2 DEF CaptureAccepts
<1>3. CASE CaptureReceives
  <2>1. client \in Clients
    BY <1>3 DEF CaptureReceives
  <2>2. PICK n \in 1 .. Len(sock[client]),
             result \in {Decoded(stream, Received(client, m)) :
                         m \in 1 .. Len(sock[client])} :
          /\ result = Decoded(stream, Received(client, n))
          /\ Take(client, n)
          /\ stream' = result.left
          /\ skipped' = skipped + result.skipped
          /\ AppendFrames(result.frames)
    BY <1>3 DEF CaptureReceives
  <2>3. /\ Received(client, n) \in Seq(Unit)
        /\ SubSeq(sock[client], n + 1, Len(sock[client])) \in Seq(Unit)
    BY <2>1, ReceivedType
  <2>4. result \in Accs
    BY <2>2, <2>3, DecodedType
  <2>5. /\ result.left \in Seq(Unit) /\ result.frames \in Seq(Frame)
        /\ result.skipped \in Nat
    BY <2>4 DEF Accs
  <2>6. got' \in Seq(Frame)
    BY <2>2, <2>5, ConcatProperties DEF AppendFrames
  <2>7. sock' \in [Clients -> Seq(Unit)]
    BY <2>2, <2>3 DEF Take
  <2>8. skipped' \in Nat
    <3>1. \A a, b \in Nat : a + b \in Nat
      OBVIOUS
    <3>2. skipped \in Nat
      OBVIOUS
    <3> QED BY <2>2, <2>5, <3>1, <3>2
  <2> QED BY <1>1, <1>3, <2>2, <2>5, <2>6, <2>7, <2>8 DEF CaptureReceives, Take
<1>4. CASE CaptureLosesClient
  BY <1>1, <1>4 DEF CaptureLosesClient, Closed, Forget, Links
<1>5. CASE CaptureReceivesDatagram
  <2>1. dgrams' \in Seq(Datagrams)
    BY <1>5, DatagramType DEF CaptureReceivesDatagram
  <2>2. got' \in Seq(Frame)
    <3>1. PICK frames : frames = IF Head(dgrams) = <<"garbled">> THEN <<>>
                                                      ELSE <<Head(dgrams)>>
      OBVIOUS
    <3>2. frames \in Seq(Frame)
      BY <1>5, <3>1, DatagramType, EmptySeq DEF CaptureReceivesDatagram
    <3>3. got' = got \o frames
      BY <1>5, <3>1 DEF CaptureReceivesDatagram, AppendFrames
    <3> QED BY <3>2, <3>3, ConcatProperties
  <2> QED BY <1>1, <1>5, <2>1, <2>2 DEF CaptureReceivesDatagram
<1>6. CASE CaptureEnds
  BY <1>1, <1>6, GoneType DEF CaptureEnds
<1>7. CASE CaptureKilled
  BY <1>1, <1>7, GoneType DEF CaptureKilled
<1> QED BY <1>2, <1>3, <1>4, <1>5, <1>6, <1>7 DEF Captures, CaptureNext

(* The receiver.                                                            *)
LEMMA TypedReceiver ==
  ASSUME Typed, Receives(ReceiverNext)
  PROVE  Typed'
<1> USE DEF Typed, kernel, results, replayVars, captureVars, receiverVars
<1>1. <<>> \in Seq(Unit) /\ UNCHANGED <<program, replayVars, captureVars>>
  BY EmptySeq DEF Receives
<1>2. ASSUME NEW c \in Clients, ReceiverAccepts(c) PROVE Typed'
  <2>1. backlog' \in Seq(Clients)
    BY <1>2, AcceptType DEF ReceiverAccepts
  <2> QED BY <1>1, <1>2, <2>1 DEF ReceiverAccepts, Links
<1>3. ASSUME NEW c \in Clients, ReadTcp(c) PROVE Typed'
  <2>2. PICK n \in 1 .. Len(sock[c]),
             result \in {Decoded(buffers[c], Received(c, m)) :
                         m \in 1 .. Len(sock[c])} :
          /\ result = Decoded(buffers[c], Received(c, n))
          /\ Take(c, n)
          /\ buffers' = [buffers EXCEPT ![c] = result.left]
          /\ got' = got \o result.frames
          /\ skipped' = skipped + result.skipped
    BY <1>3 DEF ReadTcp, BufferOf
  <2>3. /\ Received(c, n) \in Seq(Unit)
        /\ SubSeq(sock[c], n + 1, Len(sock[c])) \in Seq(Unit)
    BY ReceivedType
  <2>4. result \in Accs
    BY <2>2, <2>3, DecodedType
  <2>5. /\ result.left \in Seq(Unit) /\ result.frames \in Seq(Frame)
        /\ result.skipped \in Nat
    BY <2>4 DEF Accs
  <2>6. got' \in Seq(Frame)
    BY <2>2, <2>5, ConcatProperties
  <2>7. sock' \in [Clients -> Seq(Unit)] /\ buffers' \in [Clients -> Seq(Unit)]
    BY <2>2, <2>3, <2>5 DEF Take
  <2>8. skipped' \in Nat
    <3>1. \A a, b \in Nat : a + b \in Nat
      OBVIOUS
    <3>2. skipped \in Nat
      OBVIOUS
    <3> QED BY <2>2, <2>5, <3>1, <3>2
  <2> QED BY <1>1, <1>3, <2>2, <2>6, <2>7, <2>8 DEF ReadTcp, Take
<1>4. ASSUME NEW c \in Clients, ReadTcpEnd(c) PROVE Typed'
  BY <1>1, <1>4 DEF ReadTcpEnd, Closed, Links
<1>5. ASSUME NEW c \in Clients, ReadTcpThrows(c) PROVE Typed'
  <2>1. <<>> \in Seq(Datagrams)
    BY EmptySeq
  <2> QED BY <1>1, <1>5, <2>1 DEF ReadTcpThrows
<1>6. CASE ReadUdp
  <2>1. dgrams' \in Seq(Datagrams)
    BY <1>6, DatagramType DEF ReadUdp
  <2>2. got' \in Seq(Frame)
    <3>1. CASE Head(dgrams) = <<"garbled">>
      BY <1>6, <3>1 DEF ReadUdp
    <3>2. CASE Head(dgrams) # <<"garbled">>
      <4>1. Head(dgrams) \in Frame
        BY <1>6, <3>2, DatagramType DEF ReadUdp
      <4>2. got' = Append(got, Head(dgrams))
        BY <1>6, <3>2 DEF ReadUdp
      <4> QED BY <4>1, <4>2, AppendProperties
    <3> QED BY <3>1, <3>2
  <2> QED BY <1>1, <1>6, <2>1, <2>2 DEF ReadUdp
<1>7. CASE OperatorExits
  BY <1>1, <1>7, GoneType DEF OperatorExits
<1> QED BY <1>2, <1>3, <1>4, <1>5, <1>6, <1>7 DEF Receives, ReceiverNext

(***************************************************************************)
(* The queue, the client and the replay tool                               *)
(***************************************************************************)

(* Those that wait still do.                                                *)
LEMMA QueueSame ==
  ASSUME NEW s \in Seq(Clients), NEW how, NEW now, Queue(s, how),
         \A d \in Clients : how[d] = "backlog" => now[d] = "backlog"
  PROVE  Queue(s, now)
<1>1. \A k \in 1 .. Len(s) : s[k] \in Clients
  BY ElementOfSeq
<1> QED BY <1>1 DEF Queue

(* One more waits.                                                          *)
LEMMA QueueGrows ==
  ASSUME NEW s \in Seq(Clients), NEW how \in [Clients -> Links], Queue(s, how),
         NEW c \in Clients, how[c] = "idle"
  PROVE  Queue(Append(s, c), [how EXCEPT ![c] = "backlog"])
<1> DEFINE t == Append(s, c)
           now == [how EXCEPT ![c] = "backlog"]
<1>1. /\ Len(t) = Len(s) + 1 /\ t[Len(s) + 1] = c /\ Len(s) \in Nat
      /\ \A k \in 1 .. Len(s) : t[k] = s[k]
  BY AppendProperties, LenProperties
<1>2. \A k \in 1 .. Len(s) : s[k] \in Clients /\ how[s[k]] = "backlog"
  BY ElementOfSeq DEF Queue
<1>3. \A d \in Clients : how[d] = "backlog" => now[d] = "backlog"
  OBVIOUS
<1>4. now[c] = "backlog"
  OBVIOUS
<1> HIDE DEF t, now
<1>5. \A k \in 1 .. Len(t) : k \in 1 .. Len(s) \/ k = Len(s) + 1
  BY <1>1
<1>6. \A k \in 1 .. Len(t) : now[t[k]] = "backlog"
  BY <1>1, <1>2, <1>3, <1>4, <1>5
<1>7. ASSUME NEW k \in 1 .. Len(t), NEW l \in 1 .. Len(t), t[k] = t[l]
      PROVE  k = l
  <2>1. CASE k \in 1 .. Len(s) /\ l \in 1 .. Len(s)
    BY <1>1, <1>7, <2>1 DEF Queue
  <2>2. CASE k \in 1 .. Len(s) /\ l = Len(s) + 1
    BY <1>1, <1>2, <1>7, <2>2
  <2>3. CASE k = Len(s) + 1 /\ l \in 1 .. Len(s)
    BY <1>1, <1>2, <1>7, <2>3
  <2> QED BY <1>5, <2>1, <2>2, <2>3
<1>8. Queue(t, now)
  BY <1>6, <1>7 DEF Queue
<1> QED BY <1>8 DEF t, now

(* The first is taken.                                                      *)
LEMMA QueueShrinks ==
  ASSUME NEW s \in Seq(Clients), s # <<>>, NEW how, NEW now, Queue(s, how),
         \A d \in Clients :
           how[d] = "backlog" /\ d # Head(s) => now[d] = "backlog"
  PROVE  Queue(Tail(s), now) /\ how[Head(s)] = "backlog"
<1>1. /\ Tail(s) \in Seq(Clients) /\ Len(Tail(s)) = Len(s) - 1
      /\ \A k \in 1 .. Len(Tail(s)) : Tail(s)[k] = s[k + 1]
      /\ Head(s) = s[1] /\ Len(s) \in Nat \ {0}
  BY HeadTailProperties, EmptySeq
<1>2. \A k \in 1 .. Len(s) : s[k] \in Clients /\ how[s[k]] = "backlog"
  BY ElementOfSeq DEF Queue
<1>3. \A k \in 1 .. Len(Tail(s)) : k + 1 \in 1 .. Len(s) /\ k + 1 # 1
  BY <1>1
<1>4. \A k \in 1 .. Len(Tail(s)) : s[k + 1] # s[1]
  BY <1>1, <1>3 DEF Queue
<1>5. \A k \in 1 .. Len(Tail(s)) : now[Tail(s)[k]] = "backlog"
  BY <1>1, <1>2, <1>3, <1>4
<1>6. ASSUME NEW k \in 1 .. Len(Tail(s)), NEW l \in 1 .. Len(Tail(s)),
             Tail(s)[k] = Tail(s)[l]
      PROVE  k = l
  <2>1. s[k + 1] = s[l + 1]
    BY <1>1, <1>6
  <2>2. k + 1 = l + 1
    BY <1>3, <2>1 DEF Queue
  <2> QED BY <2>2
<1>7. 1 \in 1 .. Len(s)
  BY <1>1
<1> QED BY <1>1, <1>2, <1>5, <1>6, <1>7 DEF Queue

(* The connection accepted was waiting.                                     *)
LEMMA AcceptedWaited ==
  ASSUME Typed, QueueInv, NEW c \in Clients, Accept(c)
  PROVE  link[c] = "backlog" /\ c # "none"
<1>1. "none" \notin Clients
  BY CaptureAssumption DEF Clients
<1>2. link[Head(backlog)] = "backlog"
  BY QueueShrinks DEF Typed, QueueInv, Accept
<1> QED BY <1>1, <1>2 DEF Accept

LEMMA QueueStep ==
  ASSUME Typed, QueueInv, ClientInv, Next
  PROVE  QueueInv'
<1> USE DEF Typed, kernel, results, replayVars, captureVars, receiverVars
<1>1. CASE UNCHANGED backlog /\ \A d \in Clients :
             link[d] = "backlog" => link'[d] = "backlog"
  BY <1>1, QueueSame DEF QueueInv
<1>2. ASSUME NEW c \in Clients, Connect(c) PROVE QueueInv'
  BY <1>2, QueueGrows DEF Connect, QueueInv
<1>3. ASSUME NEW c \in Clients, Accept(c),
             \A d \in Clients :
               link[d] = "backlog" /\ d # c => link'[d] = "backlog"
      PROVE  QueueInv'
  <2>1. /\ backlog \in Seq(Clients) /\ backlog # <<>> /\ c = Head(backlog)
        /\ backlog' = Tail(backlog) /\ Queue(backlog, link)
    BY <1>3 DEF Accept, QueueInv
  <2>2. PICK next : next = link'
    OBVIOUS
  <2>3. \A d \in Clients :
          link[d] = "backlog" /\ d # Head(backlog) => next[d] = "backlog"
    BY <1>3, <2>1, <2>2
  <2> HIDE DEF Typed
  <2>4. Queue(Tail(backlog), next)
    BY <2>1, <2>3, QueueShrinks
  <2> QED BY <2>1, <2>2, <2>4 DEF QueueInv
<1>4. CASE Gone
  <2>1. backlog' = <<>> /\ Len(<<>>) = 0
    BY <1>4 DEF Gone
  <2> QED BY <2>1 DEF QueueInv, Queue
<1>5. "replay" \in Clients /\ Edges \subseteq Clients
  BY DEF Clients
<1>6. CASE ReplayStep
  <2>1. CASE ReplayStart
    <3>1. CASE transport = "tcp"
      BY <1>2, <1>5, <2>1, <3>1 DEF ReplayStart
    <3>2. CASE transport # "tcp"
      BY <1>1, <2>1, <3>2 DEF ReplayStart
    <3> QED BY <3>1, <3>2
  <2>2. CASE ~ReplayStart
    <3>1. UNCHANGED <<backlog, link>>
      BY <1>6, <2>2 DEF ReplayStep, ReplayNext, ReplayRefused, SkipBad,
                        SendSome, SendBroken, SendDatagram, ReplayEnd
    <3> QED BY <1>1, <3>1
  <2> QED BY <2>1, <2>2
<1>7. CASE EdgeStep
  <2>1. PICK e \in Edges : EdgeConnects(e) \/ EdgeSends(e) \/ EdgeEnds(e)
    BY <1>7 DEF EdgeStep, EdgeNext
  <2>2. CASE EdgeConnects(e)
    BY <1>2, <1>5, <2>2 DEF EdgeConnects
  <2>3. CASE EdgeSends(e) \/ EdgeEnds(e)
    BY <1>1, <2>3 DEF EdgeSends, EdgeEnds
  <2> QED BY <2>1, <2>2, <2>3
<1>8. CASE Captures(CaptureNext)
  <2>1. ASSUME NEW c \in Clients, CaptureAccepts(c) PROVE QueueInv'
    <3>1. client # "none" => link[client] = "open" /\ client \in Clients
      BY <1>8, <2>1 DEF CaptureAccepts, ClientInv, Captures
    <3>2. \A d \in Clients : d # c /\ d # client => link'[d] = link[d]
      BY <2>1 DEF CaptureAccepts, Replace
    <3>3. \A d \in Clients : link[d] = "backlog" /\ d # c => link'[d] = "backlog"
      <4>1. \A d \in Clients : link[d] = "backlog" => d # client
        BY <3>1, CaptureAssumption DEF Clients
      <4> QED BY <3>2, <4>1
    <3>4. Accept(c)
      BY <2>1 DEF CaptureAccepts
    <3> QED BY <1>3, <3>3, <3>4
  <2>2. CASE CaptureReceives
    BY <1>1, <2>2 DEF CaptureReceives, Take
  <2>3. CASE CaptureLosesClient
    <3>1. link[client] = "open" /\ UNCHANGED backlog
      BY <2>3 DEF CaptureLosesClient, AtEnd, Broken
    <3>2. \A d \in Clients : d # client => link'[d] = link[d]
      BY <2>3 DEF CaptureLosesClient, Closed
    <3> QED BY <1>1, <3>1, <3>2
  <2>4. CASE CaptureReceivesDatagram
    BY <1>1, <2>4 DEF CaptureReceivesDatagram
  <2>5. CASE CaptureEnds \/ CaptureKilled
    BY <1>4, <2>5 DEF CaptureEnds, CaptureKilled
  <2> QED BY <1>8, <2>1, <2>2, <2>3, <2>4, <2>5 DEF Captures, CaptureNext
<1>9. CASE Receives(ReceiverNext)
  <2>1. ASSUME NEW c \in Clients, ReceiverAccepts(c) PROVE QueueInv'
    BY <1>3, <2>1 DEF ReceiverAccepts
  <2>2. ASSUME NEW c \in Clients, ReadTcpEnd(c) PROVE QueueInv'
    BY <1>1, <2>2 DEF ReadTcpEnd, Closed, AtEnd
  <2>3. ASSUME NEW c \in Clients, ReadTcp(c) \/ ReadTcpThrows(c)
        PROVE  QueueInv'
    BY <1>1, <2>3 DEF ReadTcp, ReadTcpThrows, Take
  <2>4. CASE ReadUdp
    BY <1>1, <2>4 DEF ReadUdp
  <2>5. CASE OperatorExits
    BY <1>4, <2>5 DEF OperatorExits
  <2> QED BY <1>9, <2>1, <2>2, <2>3, <2>4, <2>5 DEF Receives, ReceiverNext
<1> QED BY <1>6, <1>7, <1>8, <1>9 DEF Next

LEMMA ClientStep ==
  ASSUME Typed, QueueInv, ClientInv, Next
  PROVE  ClientInv'
<1> USE DEF Typed, kernel, results, replayVars, captureVars, receiverVars
<1>1. "replay" \in Clients /\ Edges \subseteq Clients /\ "none" \notin Clients
  BY CaptureAssumption DEF Clients
<1>2. CASE /\ UNCHANGED <<program, client, stream, captureExit>>
           /\ \A d \in Clients : link[d] = "open" <=> link'[d] = "open"
  BY <1>2 DEF ClientInv, Running
<1>3. ASSUME NEW c \in Clients, Connect(c),
             UNCHANGED <<program, client, stream, captureExit>>
      PROVE  ClientInv'
  BY <1>2, <1>3 DEF Connect
<1>4. CASE ReplayStep
  <2>1. UNCHANGED <<program, client, stream, captureExit>>
    BY <1>4 DEF ReplayStep
  <2>2. CASE ReplayStart
    BY <1>1, <1>2, <1>3, <2>1, <2>2 DEF ReplayStart
  <2>3. CASE ~ReplayStart
    <3>1. UNCHANGED link
      BY <1>4, <2>3 DEF ReplayStep, ReplayNext, ReplayRefused, SkipBad,
                        SendSome, SendBroken, SendDatagram, ReplayEnd
    <3> QED BY <1>2, <2>1, <3>1
  <2> QED BY <2>2, <2>3
<1>5. CASE EdgeStep
  <2>1. PICK e \in Edges : EdgeConnects(e) \/ EdgeSends(e) \/ EdgeEnds(e)
    BY <1>5 DEF EdgeStep, EdgeNext
  <2>2. UNCHANGED <<program, client, stream, captureExit>>
    BY <1>5 DEF EdgeStep
  <2>3. CASE EdgeConnects(e)
    BY <1>1, <1>3, <2>2, <2>3 DEF EdgeConnects
  <2>4. CASE EdgeSends(e) \/ EdgeEnds(e)
    BY <1>2, <2>2, <2>4 DEF EdgeSends, EdgeEnds
  <2> QED BY <2>1, <2>3, <2>4
<1>6. CASE Captures(CaptureNext)
  <2>1. program = "capture" /\ UNCHANGED program
    BY <1>6 DEF Captures
  <2>2. ASSUME NEW c \in Clients, CaptureAccepts(c) PROVE ClientInv'
    <3>1. /\ client = "none" => stream = <<>>
          /\ \A d \in Clients : link[d] = "open" <=> d = client
      BY <2>1, <2>2 DEF CaptureAccepts, ClientInv
    <3>2. client' = c /\ c # "none" /\ UNCHANGED captureExit
      BY <1>1, <2>2 DEF CaptureAccepts
    <3>3. \A d \in Clients : link'[d] = "open" <=> d = c
      <4>1. link[c] # "open" /\ c # client
        <5>1. link[c] = "backlog"
          BY <2>2, AcceptedWaited DEF CaptureAccepts
        <5> QED BY <3>1, <5>1
      <4>2. CASE client = "none"
        BY <1>1, <2>2, <3>1, <4>1, <4>2 DEF CaptureAccepts, Replace
      <4>3. CASE client # "none"
        BY <1>1, <2>2, <3>1, <4>1, <4>3 DEF CaptureAccepts, Replace
      <4> QED BY <4>2, <4>3
    <3> QED BY <2>1, <3>2, <3>3 DEF ClientInv
  <2>3. CASE CaptureReceives
    <3>1. client # "none" /\ UNCHANGED <<client, captureExit, link>>
      BY <2>3 DEF CaptureReceives, Take
    <3> QED BY <2>1, <3>1 DEF ClientInv, Running
  <2>4. CASE CaptureLosesClient
    <3>1. /\ client' = "none" /\ stream' = <<>> /\ UNCHANGED captureExit
          /\ Running /\ client \in Clients
      BY <2>4 DEF CaptureLosesClient, Forget
    <3>2. \A d \in Clients : link'[d] # "open"
      <4>1. link'[client] # "open"
        BY <2>4, <3>1 DEF CaptureLosesClient, Closed
      <4>2. \A d \in Clients : d # client => link'[d] = link[d]
        BY <2>4 DEF CaptureLosesClient, Closed
      <4>3. \A d \in Clients : link[d] = "open" <=> d = client
        BY <2>1, <3>1 DEF ClientInv
      <4> QED BY <4>1, <4>2, <4>3
    <3> QED BY <1>1, <2>1, <3>1, <3>2 DEF ClientInv
  <2>5. CASE CaptureReceivesDatagram
    BY <1>2, <2>1, <2>5 DEF CaptureReceivesDatagram
  <2>6. CASE CaptureEnds \/ CaptureKilled
    <3>1. captureExit' # "running"
      BY <2>6 DEF CaptureEnds, CaptureKilled
    <3> QED BY <2>1, <3>1 DEF ClientInv, Running
  <2> QED BY <1>6, <2>2, <2>3, <2>4, <2>5, <2>6 DEF Captures, CaptureNext
<1>7. CASE Receives(ReceiverNext)
  BY <1>7 DEF Receives, ClientInv
<1> QED BY <1>4, <1>5, <1>6, <1>7 DEF Next

(* What a program that listens does to the replay's connection: one that    *)
(* was never begun it does not know, one that was it cannot undo.           *)
LEMMA ListenersStep ==
  ASSUME Typed, QueueInv, ClientInv,
         Captures(CaptureNext) \/ Receives(ReceiverNext)
  PROVE  /\ UNCHANGED <<replayVars, ended, at, torn, whole>>
         /\ dgrams = <<>> => dgrams' = <<>>
         /\ \A d \in Clients : link'[d] = "idle" <=> link[d] = "idle"
<1> USE DEF Typed, kernel, results, captureVars, receiverVars
<1>1. "none" \notin Clients
  BY CaptureAssumption DEF Clients
<1>2. UNCHANGED replayVars
  BY DEF Captures, Receives
<1>3. ASSUME Gone
      PROVE  /\ UNCHANGED <<ended, at, torn, whole>> /\ dgrams' = <<>>
             /\ \A d \in Clients : link'[d] = "idle" <=> link[d] = "idle"
  BY <1>3 DEF Gone
<1>4. CASE Captures(CaptureNext)
  <2>1. ASSUME NEW c \in Clients, CaptureAccepts(c)
        PROVE  /\ UNCHANGED <<ended, at, torn, whole, dgrams>>
               /\ \A d \in Clients : link'[d] = "idle" <=> link[d] = "idle"
    <3>1. link[c] = "backlog"
      BY <2>1, AcceptedWaited DEF CaptureAccepts
    <3>2. client # "none" => link[client] = "open" /\ client \in Clients
      BY <1>4, <2>1 DEF CaptureAccepts, ClientInv, Captures
    <3>3. CASE client = "none"
      BY <2>1, <3>1, <3>3 DEF CaptureAccepts, Replace
    <3>4. CASE client # "none"
      BY <2>1, <3>1, <3>2, <3>4 DEF CaptureAccepts, Replace
    <3> QED BY <2>1, <3>3, <3>4 DEF CaptureAccepts
  <2>2. CASE CaptureReceives
    BY <1>2, <2>2 DEF CaptureReceives, Take
  <2>3. CASE CaptureLosesClient
    BY <1>1, <1>2, <2>3 DEF CaptureLosesClient, AtEnd, Broken, Closed
  <2>4. CASE CaptureReceivesDatagram
    BY <1>2, <2>4 DEF CaptureReceivesDatagram
  <2>5. CASE CaptureEnds \/ CaptureKilled
    BY <1>2, <1>3, <2>5 DEF CaptureEnds, CaptureKilled
  <2> QED BY <1>2, <1>4, <2>1, <2>2, <2>3, <2>4, <2>5 DEF Captures, CaptureNext
<1>5. CASE Receives(ReceiverNext)
  <2>1. ASSUME NEW c \in Clients, ReceiverAccepts(c)
        PROVE  /\ UNCHANGED <<ended, at, torn, whole, dgrams>>
               /\ \A d \in Clients : link'[d] = "idle" <=> link[d] = "idle"
    <3>1. link[c] = "backlog"
      BY <2>1, AcceptedWaited DEF ReceiverAccepts
    <3> QED BY <2>1, <3>1 DEF ReceiverAccepts
  <2>2. ASSUME NEW c \in Clients, ReadTcp(c)
        PROVE  UNCHANGED <<ended, at, torn, whole, dgrams, link>>
    BY <2>2 DEF ReadTcp, Take
  <2>3. ASSUME NEW c \in Clients, ReadTcpEnd(c)
        PROVE  /\ UNCHANGED <<ended, at, torn, whole, dgrams>>
               /\ \A d \in Clients : link'[d] = "idle" <=> link[d] = "idle"
    BY <2>3 DEF ReadTcpEnd, AtEnd, Closed
  <2>4. ASSUME NEW c \in Clients, ReadTcpThrows(c)
        PROVE  UNCHANGED <<ended, at, torn, whole, link>> /\ dgrams' = <<>>
    BY <2>4 DEF ReadTcpThrows
  <2>5. CASE ReadUdp
    BY <1>2, <2>5 DEF ReadUdp
  <2>6. CASE OperatorExits
    BY <1>2, <1>3, <2>6 DEF OperatorExits
  <2> QED BY <1>2, <1>5, <2>1, <2>2, <2>3, <2>4, <2>5, <2>6
          DEF Receives, ReceiverNext
<1> QED BY <1>4, <1>5

LEMMA ReplayInvStep ==
  ASSUME Typed, QueueInv, ClientInv, ReplayInv, Next
  PROVE  ReplayInv'
<1> USE DEF Typed, kernel, results, replayVars
<1>1. "replay" \in Clients /\ "replay" \notin Edges
  BY ListenerAssumption DEF Clients
<1>2. CASE ReplayStep
  <2>1. CASE ReplayRefused
    BY <2>1 DEF ReplayRefused, Exit, ReplayInv
  <2>2. CASE ReplayStart
    <3>1. CASE transport = "tcp"
      <4>1. link'["replay"] = "backlog" /\ UNCHANGED <<transport, dgrams>>
        BY <1>1, <2>2, <3>1 DEF ReplayStart, Connect
      <4>2. UNCHANGED <<off, source, i, ended>> /\ replayPc = "start"
        BY <2>2 DEF ReplayStart
      <4> QED BY <3>1, <4>1, <4>2 DEF ReplayInv
    <3>2. CASE transport # "tcp"
      BY <2>2, <3>2 DEF ReplayStart, ReplayInv
    <3> QED BY <3>1, <3>2
  <2>3. CASE SkipBad
    BY <2>3 DEF SkipBad, Advance, ReplayInv
  <2>4. CASE SendSome
    <3>1. UNCHANGED <<transport, dgrams, link, replayPc, ended, source>>
      BY <2>4 DEF SendSome
    <3>2. off' > 0 => i' = i /\ source.good[i]
      BY <2>4 DEF SendSome, Advance, Sending
    <3> QED BY <3>1, <3>2 DEF ReplayInv
  <2>5. CASE SendBroken
    BY <2>5 DEF SendBroken, Advance, Exit, ReplayInv
  <2>6. CASE SendDatagram
    BY <2>6 DEF SendDatagram, Advance, Sending, ReplayInv
  <2>7. CASE ReplayEnd
    BY <2>7 DEF ReplayEnd, Exit, ReplayInv
  <2> QED BY <1>2, <2>1, <2>2, <2>3, <2>4, <2>5, <2>6, <2>7
          DEF ReplayStep, ReplayNext
<1>3. CASE EdgeStep
  <2>1. PICK e \in Edges : EdgeConnects(e) \/ EdgeSends(e) \/ EdgeEnds(e)
    BY <1>3 DEF EdgeStep, EdgeNext
  <2>2. e # "replay"
    BY <1>1
  <2>3. UNCHANGED <<replayVars, dgrams>>
    BY <1>3, <2>1 DEF EdgeStep, EdgeConnects, EdgeSends, EdgeEnds
  <2>4. link'["replay"] = link["replay"] /\ ended'["replay"] = ended["replay"]
    <3>1. CASE EdgeConnects(e)
      BY <1>1, <2>2, <3>1 DEF EdgeConnects, Connect
    <3>2. CASE EdgeSends(e)
      BY <3>2 DEF EdgeSends
    <3>3. CASE EdgeEnds(e)
      BY <1>1, <2>2, <3>3 DEF EdgeEnds
    <3> QED BY <2>1, <3>1, <3>2, <3>3
  <2> QED BY <2>3, <2>4 DEF ReplayInv
<1>4. CASE Captures(CaptureNext) \/ Receives(ReceiverNext)
  BY <1>1, <1>4, ListenersStep DEF ReplayInv
<1> QED BY <1>2, <1>3, <1>4 DEF Next

(***************************************************************************)
(* A connection's steps                                                    *)
(***************************************************************************)

(* It is cut: what was passed on stays a prefix, whatever is sent.          *)
LEMMA LinkedCut ==
  ASSUME NEW c \in Clients, NEW how, NEW w, NEW lost \in {0, 1},
         NEW sent \in Nat, NEW left, NEW rest, NEW own, NEW now,
         Linked(c, how, w, lost, sent, left, rest, own, now)
  PROVE  \A l, s, le, re, n : Linked(c, "cut", w, l, s, le, re, own, n)
<1>1. IsPrefix(own, w)
  <2>1. CASE how \in Live
    <3>1. PICK num \in Numbers :
            /\ w = Own(c, num, lost, sent)
            /\ Conn(c, num, lost, sent, left, rest, own)
      BY <2>1 DEF Linked
    <3> QED BY <3>1, ConnIsPrefix
  <2>2. CASE how \notin Live
    BY <2>2 DEF Linked
  <2> QED BY <2>1, <2>2
<1>2. "cut" \notin Live /\ "cut" # "eof"
  BY DEF Live
<1> QED BY <1>1, <1>2 DEF Linked

(* Its end is read: all was passed on.                                      *)
LEMMA LinkedEnds ==
  ASSUME NEW c \in Clients, NEW how, NEW w, NEW lost \in {0, 1},
         NEW sent \in Nat, NEW left, NEW own, NEW now, how \in Live,
         Linked(c, how, w, lost, sent, left, <<>>, own, now)
  PROVE  \A l, s, le, re, n : Linked(c, "eof", w, l, s, le, re, own, n)
<1>1. PICK num \in Numbers :
        /\ w = Own(c, num, lost, sent)
        /\ Conn(c, num, lost, sent, left, <<>>, own)
  BY DEF Linked
<1>2. IsPrefix(own, w) /\ own = w
  BY <1>1, ConnIsPrefix
<1>3. "eof" \notin Live
  BY DEF Live
<1> QED BY <1>2, <1>3 DEF Linked

(* It waits, or is accepted.                                                *)
LEMMA LinkedOpens ==
  ASSUME NEW c, NEW how, NEW w, NEW lost, NEW sent, NEW left, NEW rest,
         NEW own, NEW now, how \in Live,
         Linked(c, how, w, lost, sent, left, rest, own, now)
  PROVE  /\ Linked(c, "backlog", w, lost, sent, left, rest, own, now)
         /\ Linked(c, "open", w, lost, sent, left, rest, own, now)
BY DEF Linked, Live

(* It is over.                                                              *)
LEMMA LinkedDead ==
  ASSUME NEW c, NEW how, NEW w, NEW lost, NEW sent, NEW left, NEW rest,
         NEW own, NEW now, how \notin Live,
         Linked(c, how, w, lost, sent, left, rest, own, now)
  PROVE  \A l, s, le, re, n : Linked(c, how, w, l, s, le, re, own, n)
BY DEF Linked

(* Nothing was sent on one that was not begun.                              *)
LEMMA LinkedIdle ==
  ASSUME NEW c \in Clients, NEW w, NEW lost, NEW sent, NEW left, NEW rest,
         NEW own, NEW now,
         Linked(c, "idle", w, lost, sent, left, rest, own, now)
  PROVE  /\ sent = 0 /\ lost = 0
         /\ left = <<>> /\ rest = <<>> /\ own = <<>> /\ w = <<>>
<1>1. "idle" \in Live
  BY DEF Live
<1>2. sent = 0 /\ lost = 0
  BY <1>1 DEF Linked
<1>3. PICK num \in Numbers :
        /\ w = Own(c, num, 0, 0)
        /\ Conn(c, num, 0, 0, left, rest, own)
  BY <1>1, <1>2 DEF Linked
<1>4. left = <<>> /\ rest = <<>> /\ own = <<>>
  BY <1>3, ConnEmpty
<1>5. Own(c, num, 0, 0) = <<>>
  <2>1. 0 \in 0 .. Units - 1 /\ 0 = (IF 0 > 0 THEN 1 ELSE 0)
    BY ListenerAssumption
  <2> QED BY <2>1, ConnBegins
<1> QED BY <1>2, <1>3, <1>4, <1>5

(* n units are received and decoded.                                        *)
Takes(left, rest, own, n, result, fewer, more) ==
  /\ n \in 1 .. Len(rest)
  /\ result = Decoded(left, SubSeq(rest, 1, n))
  /\ fewer = SubSeq(rest, n + 1, Len(rest))
  /\ more = own \o result.frames

AllOf(c, frames) == \A k \in 1 .. Len(frames) : frames[k][1] = c

LEMMA LinkedReceives ==
  ASSUME NEW c \in Clients, NEW how \in {"backlog", "open"}, NEW w,
         NEW lost \in {0, 1}, NEW sent, NEW left, NEW rest, NEW own, NEW now,
         Linked(c, how, w, lost, sent, left, rest, own, now),
         NEW n, NEW result, NEW fewer, NEW more,
         Takes(left, rest, own, n, result, fewer, more)
  PROVE  /\ result \in Accs /\ AllOf(c, result.frames)
         /\ lost = 0 => result.skipped = 0
         /\ Linked(c, how, w, lost, sent, result.left, fewer, more, now)
<1>0. /\ n \in 1 .. Len(rest)
      /\ result = Decoded(left, SubSeq(rest, 1, n))
      /\ fewer = SubSeq(rest, n + 1, Len(rest)) /\ more = own \o result.frames
  BY DEF Takes
<1>1. how \in Live /\ how # "idle"
  BY DEF Live
<1>2. PICK num \in Numbers :
        /\ Numbered(c, num, w, now)
        /\ w = Own(c, num, lost, sent)
        /\ Conn(c, num, lost, sent, left, rest, own)
  BY <1>1 DEF Linked
<1>3. /\ result \in Accs
      /\ \A k \in 1 .. Len(result.frames) : result.frames[k][1] = c
      /\ lost = 0 => result.skipped = 0
      /\ Conn(c, num, lost, sent, result.left,
              SubSeq(rest, n + 1, Len(rest)), own \o result.frames)
  BY <1>0, <1>2, ConnReceives
<1> QED BY <1>0, <1>1, <1>2, <1>3 DEF Linked, AllOf

(* An edge's connection begins after the first u units of a frame.          *)
LEMMA LinkedBegins ==
  ASSUME NEW c \in Edges, NEW u \in 0 .. Units - 1,
         NEW lost \in {0, 1}, lost = (IF u > 0 THEN 1 ELSE 0)
  PROVE  Linked(c, "backlog", <<>>, lost, u, <<>>, <<>>, <<>>, 0)
<1> DEFINE num == [k \in Nat |-> k]
<1>1. num \in Numbers /\ \A k \in Nat : num[k] = k
  BY DEF Numbers
<1> HIDE DEF num
<1>2. c \in Clients
  BY DEF Clients
<1>3. Conn(c, num, lost, u, <<>>, <<>>, <<>>) /\ Own(c, num, lost, u) = <<>>
  BY <1>1, <1>2, ConnBegins
<1>4. Numbered(c, num, <<>>, 0)
  BY <1>1 DEF Numbered
<1>5. "backlog" \in Live /\ "backlog" # "idle"
  BY DEF Live
<1> QED BY <1>1, <1>3, <1>4, <1>5 DEF Linked

(* An edge sends its next unit.                                             *)
SendsUnit(c, w, lost, sent, rest, all, next, more) ==
  LET f == sent \div Units + 1
      u == sent % Units IN
  /\ next = sent + 1
  /\ more = Append(rest, <<c, f, u>>)
  /\ all = IF u = Units - 1 /\ f > lost THEN Append(w, <<c, f>>) ELSE w

LEMMA LinkedSends ==
  ASSUME NEW c \in Edges, NEW how \in {"backlog", "open"}, NEW w,
         NEW lost \in {0, 1}, NEW sent \in Nat, NEW left, NEW rest, NEW own,
         Linked(c, how, w, lost, sent, left, rest, own, 0),
         NEW all, NEW next, NEW more,
         SendsUnit(c, w, lost, sent, rest, all, next, more)
  PROVE  Linked(c, how, all, lost, next, left, more, own, 0)
<1>0. PICK f, u :
        /\ f = sent \div Units + 1 /\ u = sent % Units /\ next = sent + 1
        /\ more = Append(rest, <<c, f, u>>)
        /\ all = IF u = Units - 1 /\ f > lost THEN Append(w, <<c, f>>) ELSE w
  BY DEF SendsUnit
<1>1. how \in Live /\ how # "idle" /\ c \in Clients
  BY DEF Live, Clients
<1>2. PICK num \in Numbers :
        /\ Numbered(c, num, w, 0)
        /\ w = Own(c, num, lost, sent)
        /\ Conn(c, num, lost, sent, left, rest, own)
  BY <1>1 DEF Linked
<1>3. rest \in Seq(Unit)
  BY <1>2 DEF Conn
<1>4. /\ Units \in Nat /\ Units >= 2
      /\ sent \div Units \in Nat /\ u \in 0 .. Units - 1 /\ f \in Nat
  <2>1. sent \div Units \in Nat /\ sent % Units \in 0 .. Units - 1
    BY Division
  <2> QED BY <1>0, <2>1, ListenerAssumption
<1>5. num[f] = f
  BY <1>0, <1>2, <1>4 DEF Numbered
<1> DEFINE unit == <<c, f, u>>
           one == <<unit>>
<1>6. /\ one \in Seq(Unit) /\ Len(one) = 1 /\ one[1] = unit
      /\ unit = UnitAt(c, num, sent)
  BY <1>0, <1>1, <1>4, <1>5 DEF Unit, UnitAt
<1>7. Append(rest, unit) = rest \o one
  <2>1. unit \in Unit
    BY <1>1, <1>4 DEF Unit
  <2> QED BY <1>3, <2>1, AppendIsConcat
<1> HIDE DEF one, unit
<1>8. IsUnits(one, c, num, sent)
  <2>1. \A j \in 1 .. 1 : sent + j - 1 = sent /\ j = 1
    OBVIOUS
  <2> QED BY <1>6, <2>1 DEF IsUnits
<1>9. Conn(c, num, lost, sent + 1, left, Append(rest, unit), own)
  BY <1>1, <1>2, <1>6, <1>7, <1>8, ConnSends
<1>10. Own(c, num, lost, sent + 1) = all
  <2>1. (sent % Units) + 1 <= Units
        /\ ((sent % Units) + 1 = Units <=> u = Units - 1)
        /\ (sent \div Units >= lost <=> f > lost)
    BY <1>0, <1>4
  <2>2. PICK n \in Nat, z \in Nat : n = 1 /\ z = sent + n
    OBVIOUS
  <2>3. Passes(sent, n, z)
    BY <2>1, <2>2 DEF Passes
  <2>4. Passed(c, num, lost, sent, n, z)
    BY <1>1, <2>3, OwnPasses
  <2> QED BY <1>0, <1>2, <1>5, <2>1, <2>2, <2>4 DEF Passed
<1>11. \A v : Numbered(c, num, v, 0)
  BY <1>2 DEF Numbered
<1>12. Linked(c, how, all, lost, sent + 1, left, Append(rest, unit), own, 0)
  BY <1>1, <1>9, <1>10, <1>11 DEF Linked
<1> QED BY <1>0, <1>12 DEF unit

(* The replay tool sends the next n units of frame f.                       *)
Replays(c, w, o, f, n, start, was, rest, all, next, now, longer) ==
  /\ start = Len(w) * Units + o
  /\ was = IF o > 0 THEN f ELSE 0
  /\ all = IF o + n = Units THEN Append(w, <<c, f>>) ELSE w
  /\ next = Len(w) * Units + (o + n)
  /\ now = IF o + n = Units THEN 0 ELSE f
  /\ longer = rest \o [k \in 1 .. n |-> <<c, f, o + k - 1>>]

LEMMA LinkedReplays ==
  ASSUME NEW c \in Clients, c \notin Edges, NEW how \in {"backlog", "open"},
         NEW w \in Seq(Frame), NEW o \in 0 .. Units - 1,
         NEW n \in 1 .. Units - o, NEW f \in Nat \ {0},
         NEW left, NEW rest, NEW own, NEW start, NEW was,
         Linked(c, how, w, 0, start, left, rest, own, was),
         NEW all, NEW next, NEW now, NEW longer,
         Replays(c, w, o, f, n, start, was, rest, all, next, now, longer)
  PROVE  Linked(c, how, all, 0, next, left, longer, own, now)
<1> DEFINE m == Len(w)
           sent == m * Units + o
           more == [k \in 1 .. n |-> <<c, f, o + k - 1>>]
<1>0. /\ start = sent
      /\ was = (IF o > 0 THEN f ELSE 0)
      /\ all = (IF o + n = Units THEN Append(w, <<c, f>>) ELSE w)
      /\ next = m * Units + (o + n)
      /\ now = (IF o + n = Units THEN 0 ELSE f)
      /\ longer = rest \o more
  BY DEF Replays
<1>1. how \in Live /\ how # "idle"
  BY DEF Live
<1>2. /\ Units \in Nat \ {0} /\ Units >= 2 /\ m \in Nat /\ o \in Nat
      /\ n \in Nat \ {0} /\ o + n <= Units /\ m + 1 \in Nat
  BY ListenerAssumption, LenProperties
<1> HIDE DEF m
<1>3. \A a \in Nat, b \in 0 .. Units - 1 :
        /\ a * Units + b \in Nat
        /\ (a * Units + b) \div Units = a /\ (a * Units + b) % Units = b
  BY <1>2, MulAdd
<1>4. sent \in Nat /\ sent \div Units = m /\ sent % Units = o
  BY <1>2, <1>3
<1>5. PICK old \in Numbers :
        /\ Numbered(c, old, w, was)
        /\ w = Own(c, old, 0, sent)
        /\ Conn(c, old, 0, sent, left, rest, own)
  BY <1>0, <1>1 DEF Linked
<1> HIDE DEF sent
<1>6. PICK num \in Numbers :
        /\ num[m + 1] = f
        /\ w = Own(c, num, 0, sent)
        /\ Conn(c, num, 0, sent, left, rest, own)
  <2>1. CASE o > 0
    <3>1. old[m + 1] = f
      BY <1>0, <1>5, <2>1 DEF Numbered, m
    <3> QED BY <1>5, <3>1
  <2>2. CASE ~(o > 0)
    <3> DEFINE other == [old EXCEPT ![m + 1] = f]
    <3>1. other \in Numbers /\ other[m + 1] = f
      BY <1>2 DEF Numbers
    <3>2. \A k \in 1 .. m : old[k] = other[k]
      BY <1>2 DEF Numbers
    <3> HIDE DEF other
    <3>3. SameNumbers(old, other, sent)
      BY <1>2, <1>4, <2>2, <3>2 DEF SameNumbers
    <3>4. /\ Conn(c, other, 0, sent, left, rest, own)
          /\ Own(c, other, 0, sent) = Own(c, old, 0, sent)
      BY <1>4, <1>5, <3>1, <3>3, ConnRenumbered
    <3> QED BY <1>5, <3>1, <3>4
  <2> QED BY <2>1, <2>2
<1>7. /\ more \in Seq(Unit) /\ Len(more) = n
      /\ \A k \in 1 .. n : more[k] = <<c, f, o + k - 1>>
  <2>1. \A k \in 1 .. n : <<c, f, o + k - 1>> \in Unit
    BY <1>2 DEF Unit
  <2>2. more \in [1 .. n -> Unit]
    BY <2>1
  <2> QED BY <1>2, <2>2, FunctionIsSeq
<1> HIDE DEF more
<1>8. IsUnits(more, c, num, sent)
  <2> SUFFICES ASSUME NEW j \in 1 .. n
               PROVE  more[j] = UnitAt(c, num, sent + j - 1)
    BY <1>7 DEF IsUnits
  <2>1. o + j - 1 \in 0 .. Units - 1 /\ sent + j - 1 = m * Units + (o + j - 1)
    <3>1. PICK b \in Nat : b = m * Units
      <4>1. m * Units + 0 \in Nat /\ m * Units + 0 = m * Units
        BY <1>2, <1>3
      <4> QED BY <4>1
    <3> QED BY <1>2, <3>1 DEF sent
  <2>2. (sent + j - 1) \div Units = m /\ (sent + j - 1) % Units = o + j - 1
    BY <1>2, <1>3, <2>1
  <2> QED BY <1>6, <1>7, <2>2 DEF UnitAt
<1>9. Conn(c, num, 0, sent + n, left, rest \o more, own)
  BY <1>6, <1>7, <1>8, ConnSends
<1>10. all = Own(c, num, 0, sent + n)
  <2>1. (sent % Units) + n <= Units /\ sent \in Nat /\ n \in Nat
    BY <1>2, <1>4
  <2>2. Own(c, num, 0, sent + n)
          = IF (sent % Units) + n = Units /\ sent \div Units >= 0
            THEN Append(Own(c, num, 0, sent), <<c, num[sent \div Units + 1]>>)
            ELSE Own(c, num, 0, sent)
    <3>1. PICK lost \in {0, 1}, x \in Nat, y \in Nat :
            lost = 0 /\ x = n /\ y = sent
      BY <2>1
    <3>2. PICK z : z = y + x
      OBVIOUS
    <3>3. Passes(y, x, z)
      BY <2>1, <3>1, <3>2 DEF Passes
    <3>4. Passed(c, num, lost, y, x, z)
      BY <3>3, OwnPasses
    <3> QED BY <3>1, <3>2, <3>4 DEF Passed
  <2>3. sent \div Units >= 0
    BY <1>2, <1>4
  <2> QED BY <1>0, <1>4, <1>6, <2>2, <2>3
<1>11. Numbered(c, num, all, now)
  BY <1>0, <1>2, <1>6 DEF Numbered, m
<1>12. sent + n = m * Units + (o + n)
  <2>1. PICK b \in Nat : b = m * Units
    <3>1. m * Units + 0 \in Nat /\ m * Units + 0 = m * Units
      BY <1>2, <1>3
    <3> QED BY <3>1
  <2> QED BY <1>2, <2>1 DEF sent
<1>13. Linked(c, how, all, 0, m * Units + (o + n), left, rest \o more, own, now)
  BY <1>1, <1>9, <1>10, <1>11, <1>12 DEF Linked
<1> QED BY <1>0, <1>13

(***************************************************************************)
(* The connections                                                         *)
(***************************************************************************)

(* How much was sent, and whether a frame was lost.                         *)
LEMMA ViewType ==
  ASSUME Typed, NEW c \in Clients
  PROVE  /\ Lost(c) \in {0, 1} /\ Sent(c) \in Nat
         /\ c \notin Edges => Lost(c) = 0
<1>1. Lost(c) \in {0, 1} /\ (c \notin Edges => Lost(c) = 0)
  BY DEF Lost, Typed
<1>2. CASE c = "replay"
  <2>1. PICK n \in Nat : n = Len(whole[c])
    BY LenProperties DEF Typed
  <2>2. Units \in Nat \ {0} /\ off \in 0 .. Units - 1
    BY ListenerAssumption DEF Typed
  <2>3. n * Units + off \in Nat
    BY <2>2, MulAdd
  <2> QED BY <1>1, <1>2, <2>1, <2>3 DEF Sent
<1>3. CASE c # "replay"
  BY <1>1, <1>3 DEF Sent, Typed, Clients
<1> QED BY <1>2, <1>3

(* A step that does not touch a connection.                                 *)
LEMMA LinkSame ==
  ASSUME NEW d \in Clients, LinkInv(d),
         link'[d] = link[d], whole'[d] = whole[d], Lost(d)' = Lost(d),
         Sent(d)' = Sent(d), Left(d)' = Left(d), sock'[d] = sock[d],
         From(d, got)' = From(d, got), Now(d)' = Now(d)
  PROVE  LinkInv(d)'
BY DEF LinkInv

(* The replay tool, which sends on a connection of its own.                 *)
LEMMA LinkReplay ==
  ASSUME Typed, ReplayInv, ReplayStep, NEW d \in Clients, Followed(d), LinkInv(d)
  PROVE  LinkInv(d)'
<1> USE DEF kernel, results, replayVars, captureVars, receiverVars
<1>1. "replay" \in Clients /\ "replay" \notin Edges /\ UNCHANGED transport
  BY ListenerAssumption DEF Clients, ReplayStep, ReplayNext, ReplayRefused, Exit,
     ReplayStart, SkipBad, SendSome, SendBroken, SendDatagram, ReplayEnd
<1>2. UNCHANGED <<program, client, stream, buffers, at, torn, got>>
  BY DEF ReplayStep, ReplayNext, ReplayRefused, ReplayStart, SkipBad,
         SendSome, SendBroken, SendDatagram, ReplayEnd
<1>3. /\ Lost(d)' = Lost(d) /\ Left(d)' = Left(d)
      /\ From(d, got)' = From(d, got)
  BY <1>2 DEF Lost, Left
<1>4. CASE d # "replay"
  <2>1. /\ link'[d] = link[d] /\ whole'[d] = whole[d] /\ sock'[d] = sock[d]
    BY <1>1, <1>4 DEF Typed, ReplayStep, ReplayNext, ReplayRefused, ReplayStart,
       Connect, SkipBad, SendSome, SendBroken, SendDatagram, ReplayEnd
  <2>2. Sent(d)' = Sent(d) /\ Now(d)' = Now(d)
    BY <1>2, <1>4 DEF Sent, Now
  <2> QED BY <1>3, <2>1, <2>2, LinkSame
<1>5. CASE d = "replay"
  <2>1. transport = "tcp"
    BY <1>5 DEF Followed
  <2>2. CASE UNCHANGED <<link, whole, sock, off, i>>
    <3>1. Sent(d)' = Sent(d) /\ Now(d)' = Now(d)
      BY <1>5, <2>2 DEF Sent, Now
    <3> QED BY <1>3, <2>2, <3>1, LinkSame
  <2>3. CASE ReplayRefused \/ ReplayEnd
    BY <2>2, <2>3 DEF ReplayRefused, ReplayEnd
  <2>4. CASE ReplayStart
    <3>1. /\ link[d] = "idle" /\ link'[d] = "backlog"
          /\ UNCHANGED <<whole, sock, off, i>>
      BY <1>5, <2>1, <2>4 DEF ReplayStart, Connect, Typed
    <3>2. Sent(d)' = Sent(d) /\ Now(d)' = Now(d)
      BY <1>5, <3>1 DEF Sent, Now
    <3>3. Linked(d, "backlog", whole[d], Lost(d), Sent(d), Left(d), sock[d],
                 From(d, got), Now(d))
      <4>1. Linked(d, "idle", whole[d], Lost(d), Sent(d), Left(d), sock[d],
                   From(d, got), Now(d))
        BY <3>1 DEF LinkInv
      <4>2. "idle" \in Live
        BY DEF Live
      <4> QED BY <4>1, <4>2, LinkedOpens
    <3> QED BY <1>3, <3>1, <3>2, <3>3 DEF LinkInv
  <2>5. CASE SkipBad
    <3>1. UNCHANGED <<link, whole, sock>> /\ off' = 0 /\ off = 0
      BY <2>5 DEF SkipBad, Advance, ReplayInv, Typed
    <3>2. Sent(d)' = Sent(d) /\ Now(d)' = Now(d)
      BY <1>5, <3>1 DEF Sent, Now
    <3> QED BY <1>3, <3>1, <3>2, LinkSame
  <2>6. CASE SendSome
    <3>1. PICK n \in 1 .. Units - off :
            /\ sock' = [sock EXCEPT !["replay"] = @ \o Rest(n)]
            /\ IF off + n = Units
                 THEN /\ Advance(TRUE)
                      /\ whole' = [whole EXCEPT !["replay"] =
                                     Append(@, <<"replay", i>>)]
                 ELSE off' = off + n /\ UNCHANGED <<i, fail, whole>>
      BY <2>6 DEF SendSome
    <3>2. link[d] \in {"backlog", "open"} /\ UNCHANGED link
      BY <1>5, <2>6 DEF SendSome, Connected
    <3>3. /\ Lost(d) = 0 /\ whole[d] \in Seq(Frame)
          /\ off \in 0 .. Units - 1 /\ i \in Nat \ {0}
      BY <1>1, <1>5, ViewType DEF Typed
    <3>4. /\ Now(d) = IF off > 0 THEN i ELSE 0
          /\ Linked(d, link[d], whole[d], 0, Len(whole[d]) * Units + off, Left(d),
                    sock[d], From(d, got), Now(d))
      <4>1. Sent(d) = Len(whole[d]) * Units + off
            /\ Now(d) = IF off > 0 THEN i ELSE 0
        BY <1>5 DEF Sent, Now
      <4> QED BY <3>3, <4>1 DEF LinkInv
    <3>5. Rest(n) = [k \in 1 .. n |-> <<d, i, off + k - 1>>]
      BY <1>5 DEF Rest
    <3>6. \A all, now :
            /\ all = IF off + n = Units THEN Append(whole[d], <<d, i>>)
                                        ELSE whole[d]
            /\ now = IF off + n = Units THEN 0 ELSE i
            => Linked(d, link[d], all, 0, Len(whole[d]) * Units + (off + n),
                      Left(d), sock[d] \o Rest(n), From(d, got), now)
      <4>1. PICK w \in Seq(Frame), o \in 0 .. Units - 1, f \in Nat \ {0},
                 how \in {"backlog", "open"} :
              w = whole[d] /\ o = off /\ f = i /\ how = link[d]
        BY <3>2, <3>3
      <4>2. PICK left, rest, own, more :
              /\ left = Left(d) /\ rest = sock[d] /\ own = From(d, got)
              /\ more = Rest(n)
        OBVIOUS
      <4> SUFFICES ASSUME NEW all, NEW now,
                          all = IF o + n = Units THEN Append(w, <<d, f>>) ELSE w,
                          now = IF o + n = Units THEN 0 ELSE f
                   PROVE  Linked(d, how, all, 0, Len(w) * Units + (o + n), left,
                                 rest \o more, own, now)
        BY <4>1, <4>2
      <4>3. PICK was, start, next, longer :
              /\ was = IF o > 0 THEN f ELSE 0
              /\ start = Len(w) * Units + o
              /\ next = Len(w) * Units + (o + n)
              /\ longer = rest \o more
        OBVIOUS
      <4>4. more = [k \in 1 .. n |-> <<d, f, o + k - 1>>]
        BY <3>5, <4>1, <4>2
      <4>5. Replays(d, w, o, f, n, start, was, rest, all, next, now, longer)
        BY <4>3, <4>4 DEF Replays
      <4>6. /\ Linked(d, how, w, 0, start, left, rest, own, was)
            /\ n \in 1 .. Units - o /\ d \notin Edges
        BY <1>1, <1>5, <3>4, <4>1, <4>2, <4>3
      <4>7. Linked(d, how, all, 0, next, left, longer, own, now)
        BY <4>5, <4>6, LinkedReplays
      <4> QED BY <4>3, <4>7
    <3>7. sock'[d] = sock[d] \o Rest(n)
      BY <1>1, <1>5, <3>1 DEF Typed
    <3>8. CASE off + n = Units
      <4>1. whole'[d] = Append(whole[d], <<d, i>>) /\ off' = 0
        BY <1>1, <1>5, <3>1, <3>8 DEF Typed, Advance
      <4>2. Len(whole'[d]) = Len(whole[d]) + 1
        <5>1. <<d, i>> \in Frame
          BY <3>3 DEF Frame
        <5> QED BY <3>3, <4>1, <5>1, AppendProperties
      <4>3. Sent(d)' = Len(whole[d]) * Units + (off + n) /\ Now(d)' = 0
        <5>1. Sent(d)' = Len(whole'[d]) * Units + off' /\ Now(d)' = 0
          BY <1>5, <4>1 DEF Sent, Now
        <5>2. \A a \in Nat : (a + 1) * Units + 0 = a * Units + Units
          BY ListenerAssumption
        <5>3. Len(whole[d]) \in Nat
          BY <3>3, LenProperties
        <5> QED BY <3>8, <4>1, <4>2, <5>1, <5>2, <5>3
      <4> QED BY <1>3, <3>2, <3>3, <3>6, <3>7, <3>8, <4>1, <4>3 DEF LinkInv
    <3>9. CASE off + n # Units
      <4>1. whole' = whole /\ off' = off + n /\ i' = i
        BY <3>1, <3>9
      <4>2. off' > 0
        BY <3>3, <4>1
      <4>3. Sent(d)' = Len(whole[d]) * Units + (off + n) /\ Now(d)' = i
        BY <1>5, <4>1, <4>2 DEF Sent, Now
      <4> QED BY <1>3, <3>2, <3>3, <3>6, <3>7, <3>9, <4>1, <4>3 DEF LinkInv
    <3> QED BY <3>8, <3>9
  <2>7. CASE SendBroken
    <3>1. UNCHANGED <<link, whole, sock>> /\ link[d] \notin Live
      BY <1>5, <2>1, <2>7 DEF SendBroken, Sending, InLoop, Connected, ReplayInv,
         Live
    <3>2. Linked(d, link[d], whole[d], Lost(d)', Sent(d)', Left(d)', sock'[d],
                 From(d, got), Now(d)')
      BY <3>1, LinkedDead DEF LinkInv
    <3> QED BY <1>3, <3>1, <3>2 DEF LinkInv
  <2>8. CASE SendDatagram
    BY <2>1, <2>8 DEF SendDatagram, Sending
  <2> QED BY <2>3, <2>4, <2>5, <2>6, <2>7, <2>8 DEF ReplayStep, ReplayNext
<1> QED BY <1>4, <1>5

(* Edges.                                                                   *)
LEMMA LinkEdges ==
  ASSUME Typed, EdgeStep, NEW d \in Clients, LinkInv(d)
  PROVE  LinkInv(d)'
<1> USE DEF kernel, results, replayVars, captureVars, receiverVars
<1>1. PICK e \in Edges : EdgeConnects(e) \/ EdgeSends(e) \/ EdgeEnds(e)
  BY DEF EdgeStep, EdgeNext
<1>2. e \in Clients /\ e # "replay"
  BY ListenerAssumption DEF Clients
<1>3. UNCHANGED <<program, client, stream, buffers, off, i, got>>
  BY <1>1 DEF EdgeStep, EdgeConnects, EdgeSends, EdgeEnds
<1>4. /\ Left(d)' = Left(d) /\ Now(d)' = Now(d)
      /\ From(d, got)' = From(d, got)
  BY <1>3 DEF Now, Left
<1>5. CASE d # e
  <2>1. /\ link'[d] = link[d] /\ whole'[d] = whole[d] /\ sock'[d] = sock[d]
        /\ Lost(d)' = Lost(d)
    BY <1>1, <1>2, <1>5 DEF Typed, EdgeConnects, Connect, EdgeSends, EdgeEnds,
       Lost
  <2>2. d # "replay" => at'[d] = at[d]
    BY <1>1, <1>2, <1>5 DEF Typed, EdgeConnects, EdgeSends, EdgeEnds, Clients
  <2>3. Sent(d)' = Sent(d)
    BY <1>3, <2>1, <2>2 DEF Sent
  <2> QED BY <1>4, <2>1, <2>3, LinkSame
<1>6. CASE d = e
  <2>1. d # "replay" /\ Sent(d) = at[d] /\ Sent(d)' = at'[d] /\ Now(d) = 0
    BY <1>2, <1>6 DEF Sent, Now
  <2>2. CASE EdgeConnects(e)
    <3>1. PICK u \in 0 .. Units - 1 :
            /\ at' = [at EXCEPT ![e] = u]
            /\ torn' = IF u > 0 THEN torn \union {e} ELSE torn
      BY <2>2 DEF EdgeConnects
    <3>2. /\ link[d] = "idle" /\ link'[d] = "backlog"
          /\ UNCHANGED <<whole, sock>>
      BY <1>2, <1>6, <2>2 DEF EdgeConnects, Connect, Typed
    <3>3. /\ Lost(d) = 0 /\ Left(d) = <<>> /\ sock[d] = <<>>
          /\ From(d, got) = <<>> /\ whole[d] = <<>>
      <4>1. Linked(d, "idle", whole[d], Lost(d), Sent(d), Left(d), sock[d],
                   From(d, got), Now(d))
        BY <3>2 DEF LinkInv
      <4> QED BY <4>1, LinkedIdle
    <3>4. at'[d] = u /\ Lost(d)' = (IF u > 0 THEN 1 ELSE 0)
      BY <1>6, <3>1, <3>3 DEF Typed, Lost
    <3>5. PICK lost \in {0, 1} : lost = (IF u > 0 THEN 1 ELSE 0)
      OBVIOUS
    <3>6. Linked(d, "backlog", <<>>, lost, u, <<>>, <<>>, <<>>, 0)
      BY <1>6, <3>5, LinkedBegins
    <3> QED BY <1>4, <2>1, <3>2, <3>3, <3>4, <3>5, <3>6 DEF LinkInv
  <2>3. CASE EdgeSends(e)
    <3>1. PICK f, u : f = at[d] \div Units + 1 /\ u = at[d] % Units
      OBVIOUS
    <3>2. /\ sock' = [sock EXCEPT ![e] = Append(@, <<e, f, u>>)]
          /\ whole' = IF u = Units - 1 /\ (f > 1 \/ e \notin torn)
                        THEN [whole EXCEPT ![e] = Append(@, <<e, f>>)] ELSE whole
          /\ at' = [at EXCEPT ![e] = @ + 1]
          /\ UNCHANGED <<link, torn>> /\ link[d] \in {"backlog", "open"}
      BY <1>6, <2>3, <3>1 DEF EdgeSends, Connected
    <3>3. f \in Nat \ {0} /\ Lost(d) \in {0, 1} /\ at[d] \in Nat
      <4>1. at[d] \in Nat
        BY <1>6 DEF Typed
      <4>2. at[d] \div Units \in Nat
        BY <4>1, Division
      <4> QED BY <3>1, <4>1, <4>2 DEF Lost
    <3>4. f > Lost(d) <=> (f > 1 \/ e \notin torn)
      BY <1>6, <3>3 DEF Lost
    <3>5. /\ sock'[d] = Append(sock[d], <<d, f, u>>)
          /\ whole'[d] = IF u = Units - 1 /\ f > Lost(d)
                           THEN Append(whole[d], <<d, f>>) ELSE whole[d]
          /\ at'[d] = at[d] + 1 /\ link'[d] = link[d] /\ Lost(d)' = Lost(d)
      <4>1. /\ sock'[d] = Append(sock[d], <<d, f, u>>)
            /\ at'[d] = at[d] + 1 /\ link'[d] = link[d] /\ Lost(d)' = Lost(d)
        BY <1>6, <3>2 DEF Typed, Lost
      <4>2. CASE u = Units - 1 /\ f > Lost(d)
        BY <1>6, <3>2, <3>4, <4>1, <4>2 DEF Typed
      <4>3. CASE ~(u = Units - 1 /\ f > Lost(d))
        BY <1>6, <3>2, <3>4, <4>1, <4>3
      <4> QED BY <4>2, <4>3
    <3>6. Linked(d, link[d], whole[d], Lost(d), at[d], Left(d), sock[d],
                 From(d, got), 0)
      BY <2>1 DEF LinkInv
    <3>7. Linked(d, link[d], whole'[d], Lost(d), at'[d], Left(d), sock'[d],
                 From(d, got), 0)
      <4>1. PICK lost \in {0, 1}, sent \in Nat, how \in {"backlog", "open"} :
              lost = Lost(d) /\ sent = at[d] /\ how = link[d]
        BY <3>2, <3>3
      <4>2. PICK w, left, rest, own :
              /\ w = whole[d] /\ left = Left(d) /\ rest = sock[d]
              /\ own = From(d, got)
        OBVIOUS
      <4>3. Linked(d, how, w, lost, sent, left, rest, own, 0)
        BY <3>6, <4>1, <4>2
      <4>4. SendsUnit(d, w, lost, sent, rest, whole'[d], at'[d], sock'[d])
        BY <3>1, <3>5, <4>1, <4>2 DEF SendsUnit
      <4>5. PICK all, next, more :
              all = whole'[d] /\ next = at'[d] /\ more = sock'[d]
        OBVIOUS
      <4>6. SendsUnit(d, w, lost, sent, rest, all, next, more) /\ d \in Edges
        BY <1>6, <4>4, <4>5
      <4>7. Linked(d, how, all, lost, next, left, more, own, 0)
        BY <4>3, <4>6, LinkedSends
      <4> QED BY <3>5, <4>1, <4>2, <4>5, <4>7
    <3> QED BY <1>4, <2>1, <3>5, <3>7 DEF LinkInv
  <2>4. CASE EdgeEnds(e)
    <3>1. UNCHANGED <<link, sock, whole, torn, at>>
      BY <2>4 DEF EdgeEnds
    <3>2. Lost(d)' = Lost(d) /\ Sent(d)' = Sent(d)
      BY <2>1, <3>1 DEF Lost
    <3> QED BY <1>4, <3>1, <3>2, LinkSame
  <2> QED BY <1>1, <2>2, <2>3, <2>4
<1> QED BY <1>5, <1>6

(* The rest of a connection's state, which the listening program leaves.    *)
LEMMA ListenersLeave ==
  ASSUME UNCHANGED <<at, torn, whole, off, i>>, NEW d
  PROVE  Lost(d)' = Lost(d) /\ Sent(d)' = Sent(d) /\ Now(d)' = Now(d)
BY DEF Lost, Sent, Now

(* The program takes n units of c's and decodes them.                       *)
Reads(c, n, result) ==
  /\ link[c] = "open" /\ n \in 1 .. Len(sock[c])
  /\ result = Decoded(Left(c), Received(c, n))
  /\ sock' = [sock EXCEPT ![c] = SubSeq(@, n + 1, Len(@))]
  /\ Left(c)' = result.left
  /\ \A d \in Clients \ {c} : Left(d)' = Left(d)
  /\ got' = got \o result.frames
  /\ UNCHANGED <<link, at, torn, whole, off, i>>

LEMMA LinkReads ==
  ASSUME Typed, NEW c \in Clients, LinkInv(c), NEW n, NEW result,
         Reads(c, n, result), NEW d \in Clients, LinkInv(d)
  PROVE  /\ LinkInv(d)'
         /\ Lost(c) = 0 => result.skipped = 0
<1>0. PICK lost \in {0, 1} : lost = Lost(c)
  BY ViewType
<1>1. PICK how, w, sent, left, rest, own, now :
        /\ how = link[c] /\ w = whole[c] /\ lost = Lost(c) /\ sent = Sent(c)
        /\ left = Left(c) /\ rest = sock[c] /\ own = From(c, got)
        /\ now = Now(c)
  BY <1>0
<1>2. /\ Linked(c, how, w, lost, sent, left, rest, own, now)
      /\ how \in {"backlog", "open"}
  BY <1>1 DEF LinkInv, Reads
<1>3. PICK fewer, more : Takes(left, rest, own, n, result, fewer, more)
  BY <1>1 DEF Reads, Received, Takes
<1>4. /\ result \in Accs /\ AllOf(c, result.frames)
      /\ lost = 0 => result.skipped = 0
      /\ Linked(c, how, w, lost, sent, result.left, fewer, more, now)
  BY <1>2, <1>3, LinkedReceives
<1>5. result.frames \in Seq(Frame) /\ got \in Seq(Frame)
  BY <1>4 DEF Accs, Typed
<1>6. got' = got \o result.frames /\ UNCHANGED <<link, at, torn, whole, off, i>>
  BY DEF Reads
<1>7. Lost(d)' = Lost(d) /\ Sent(d)' = Sent(d) /\ Now(d)' = Now(d)
  BY <1>6, ListenersLeave
<1>8. CASE d = c
  <2>1. From(d, got)' = more
    <3>1. From(c, got \o result.frames) = From(c, got) \o result.frames
      BY <1>4, <1>5, FromConcat DEF AllOf
    <3> QED BY <1>1, <1>3, <1>6, <1>8, <3>1 DEF Takes
  <2>2. sock'[d] = fewer /\ Left(d)' = result.left
    BY <1>1, <1>3, <1>8 DEF Typed, Reads, Takes
  <2> QED BY <1>1, <1>4, <1>6, <1>7, <1>8, <2>1, <2>2 DEF LinkInv
<1>9. CASE d # c
  <2>1. From(d, got)' = From(d, got)
    <3>1. \A k \in 1 .. Len(result.frames) : result.frames[k][1] # d
      BY <1>4, <1>9 DEF AllOf
    <3>2. From(d, got \o result.frames) = From(d, got)
      BY <1>5, <3>1, FromConcat
    <3> QED BY <1>6, <3>2
  <2>2. sock'[d] = sock[d] /\ Left(d)' = Left(d)
    BY <1>9 DEF Typed, Reads
  <2>3. LinkInv(d)'
    BY <1>6, <1>7, <2>1, <2>2, LinkSame
  <2> QED BY <1>1, <1>4, <2>3
<1> QED BY <1>8, <1>9

(* A datagram is read: there is none where the replay has a connection.     *)
LEMMA LinkDatagram ==
  ASSUME Typed, ReplayInv, dgrams # <<>>, NEW d \in Clients, Followed(d),
         LinkInv(d),
         \/ got' = got
         \/ /\ Head(dgrams) # <<"garbled">>
            /\ got' = Append(got, Head(dgrams)),
         UNCHANGED <<link, sock, at, torn, whole, off, i>>, Left(d)' = Left(d)
  PROVE  LinkInv(d)'
<1>1. d # "replay"
  BY DEF Typed, ReplayInv, Followed
<1>2. From(d, got)' = From(d, got)
  <2>1. CASE got' = got
    BY <2>1
  <2>2. CASE got' = Append(got, Head(dgrams)) /\ Head(dgrams) # <<"garbled">>
    <3>1. PICK f \in Frame : f = Head(dgrams) /\ f[1] = "replay"
      BY <2>2, DatagramType
    <3>2. got \in Seq(Frame) /\ f[1] # d
      BY <1>1, <3>1 DEF Typed
    <3>3. From(d, Append(got, f)) = From(d, got)
      BY <3>2, FromAppend
    <3> QED BY <2>2, <3>1, <3>3
  <2> QED BY <2>1, <2>2
<1>3. Lost(d)' = Lost(d) /\ Sent(d)' = Sent(d) /\ Now(d)' = Now(d)
  BY ListenersLeave
<1> QED BY <1>2, <1>3, LinkSame

(* The program is gone.                                                     *)
LEMMA LinkGone ==
  ASSUME Typed, Gone, NEW d \in Clients, LinkInv(d), Left(d)' = Left(d),
         UNCHANGED <<off, i>>
  PROVE  LinkInv(d)'
<1>1. /\ UNCHANGED <<at, torn, whole, got>> /\ sock'[d] = <<>>
      /\ link'[d] = IF link[d] \in {"backlog", "open"} THEN "cut" ELSE link[d]
  BY DEF Gone, results
<1>2. Lost(d)' = Lost(d) /\ Sent(d)' = Sent(d) /\ Now(d)' = Now(d)
  BY <1>1, ListenersLeave
<1>3. Linked(d, link[d], whole[d], Lost(d), Sent(d), Left(d), sock[d],
             From(d, got), Now(d))
      /\ Lost(d) \in {0, 1} /\ Sent(d) \in Nat
  BY ViewType DEF LinkInv
<1>4. From(d, got)' = From(d, got)
  BY <1>1
<1>5. CASE link[d] \in {"backlog", "open"}
  <2>1. Linked(d, "cut", whole[d], Lost(d), Sent(d), Left(d), <<>>,
               From(d, got), Now(d))
    BY <1>3, LinkedCut
  <2> QED BY <1>1, <1>2, <1>4, <1>5, <2>1 DEF LinkInv
<1>6. CASE link[d] = "idle"
  <2>1. sock[d] = <<>>
    <3>1. Linked(d, "idle", whole[d], Lost(d), Sent(d), Left(d), sock[d],
                 From(d, got), Now(d))
      BY <1>3, <1>6
    <3> QED BY <3>1, LinkedIdle
  <2> QED BY <1>1, <1>2, <1>4, <1>6, <2>1, LinkSame
<1>7. CASE link[d] \notin Live
  <2>1. Linked(d, link[d], whole[d], Lost(d), Sent(d), Left(d), <<>>,
               From(d, got), Now(d))
    BY <1>3, <1>7, LinkedDead
  <2>2. link'[d] = link[d]
    BY <1>1, <1>7 DEF Live
  <2> QED BY <1>1, <1>2, <1>4, <2>1, <2>2 DEF LinkInv
<1> QED BY <1>5, <1>6, <1>7 DEF Live

(* Its end is read, or it is closed before that.                            *)
LEMMA LinkCloses ==
  ASSUME Typed, NEW c \in Clients, NEW how \in {"eof", "cut"}, Closed(c, how),
         LinkInv(c), link[c] = "open", how = "eof" => sock[c] = <<>>,
         UNCHANGED <<at, torn, whole, off, i, got>>
  PROVE  LinkInv(c)'
<1>1. link'[c] = how /\ whole'[c] = whole[c] /\ From(c, got)' = From(c, got)
  BY DEF Closed, Typed
<1>2. /\ Linked(c, "open", whole[c], Lost(c), Sent(c), Left(c), sock[c],
                From(c, got), Now(c))
      /\ Lost(c) \in {0, 1} /\ Sent(c) \in Nat
  BY ViewType DEF LinkInv
<1>3. Linked(c, how, whole[c], Lost(c)', Sent(c)', Left(c)', sock'[c],
             From(c, got), Now(c)')
  <2>1. CASE how = "cut"
    BY <1>2, <2>1, LinkedCut
  <2>2. CASE how = "eof"
    <3>1. Linked(c, "open", whole[c], Lost(c), Sent(c), Left(c), <<>>,
                 From(c, got), Now(c)) /\ "open" \in Live
      BY <1>2, <2>2 DEF Live
    <3> QED BY <1>2, <2>2, <3>1, LinkedEnds
  <2> QED BY <2>1, <2>2
<1> QED BY <1>1, <1>3 DEF LinkInv

(* A connection that is open is one of them.                                *)
LEMMA OpenFollowed ==
  ASSUME Typed, ReplayInv, NEW c \in Clients, link[c] = "open"
  PROVE  Followed(c)
BY DEF Typed, ReplayInv, Followed

(* Capture's view of a client.                                              *)
LEMMA CaptureView ==
  ASSUME Captures(CaptureNext)
  PROVE  /\ program = "capture" /\ UNCHANGED <<program, replayVars, receiverVars>>
         /\ \A d : Left(d) = IF d = client THEN stream ELSE <<>>
         /\ \A d : Left(d)' = IF d = client' THEN stream' ELSE <<>>
BY DEF Captures, Left

LEMMA LinkAccepts ==
  ASSUME Typed, QueueInv, ClientInv, Captures(CaptureNext),
         NEW c \in Clients, CaptureAccepts(c), NEW d \in Clients, LinkInv(d)
  PROVE  LinkInv(d)'
<1> USE DEF kernel, results, replayVars, receiverVars
<1>1. /\ UNCHANGED <<at, torn, whole, off, i, got>> /\ client' = c
      /\ program = "capture" /\ Running
  BY CaptureView DEF CaptureAccepts
<1>2. Lost(d)' = Lost(d) /\ Sent(d)' = Sent(d) /\ Now(d)' = Now(d)
  BY <1>1, ListenersLeave
<1>3. link[c] = "backlog"
  BY AcceptedWaited DEF CaptureAccepts
<1>4. /\ client = "none" => stream = <<>>
      /\ \A e \in Clients : link[e] = "open" <=> e = client
  BY <1>1 DEF ClientInv
<1>5. c # client /\ "none" \notin Clients /\ client \in Clients \union {"none"}
  BY <1>3, <1>4, CaptureAssumption DEF Clients, Typed
<1>6. CaptureAccepts(c) => stream' = <<>>
  BY <1>4 DEF CaptureAccepts, Replace, Forget
<1>7. /\ Left(d) = IF d = client THEN stream ELSE <<>>
      /\ Left(d)' = IF d = client' THEN stream' ELSE <<>>
  BY CaptureView
<1>8. From(d, got)' = From(d, got) /\ whole'[d] = whole[d]
  BY <1>1
<1>9. CASE d = client
  <2>1. /\ link'[d] = "cut" /\ sock'[d] = <<>>
    BY <1>5, <1>9 DEF CaptureAccepts, Replace, Typed
  <2>2. Linked(d, "cut", whole[d], Lost(d), Sent(d), Left(d)', sock'[d],
               From(d, got), Now(d))
    <3>1. /\ Linked(d, link[d], whole[d], Lost(d), Sent(d), Left(d), sock[d],
                    From(d, got), Now(d))
          /\ Lost(d) \in {0, 1} /\ Sent(d) \in Nat
      BY ViewType DEF LinkInv
    <3> QED BY <3>1, LinkedCut
  <2> QED BY <1>2, <1>8, <2>1, <2>2 DEF LinkInv
<1>10. CASE d # client
  <2>1. sock'[d] = sock[d] /\ Left(d)' = Left(d)
    <3>1. sock'[d] = sock[d]
      BY <1>5, <1>10 DEF CaptureAccepts, Replace, Typed
    <3> QED BY <1>6, <1>7, <1>10, <3>1
  <2>2. CASE d = c
    <3>1. link'[d] = "open"
      BY <1>5, <2>2 DEF CaptureAccepts, Replace, Typed
    <3>2. Linked(d, "open", whole[d], Lost(d), Sent(d), Left(d), sock[d],
                 From(d, got), Now(d))
      <4>1. /\ Linked(d, "backlog", whole[d], Lost(d), Sent(d), Left(d), sock[d],
                      From(d, got), Now(d))
            /\ "backlog" \in Live
        BY <1>3, <2>2 DEF LinkInv, Live
      <4> QED BY <4>1, LinkedOpens
    <3> QED BY <1>2, <1>8, <2>1, <3>1, <3>2 DEF LinkInv
  <2>3. CASE d # c
    <3>1. link'[d] = link[d]
      BY <1>5, <1>10, <2>3 DEF CaptureAccepts, Replace, Typed
    <3> QED BY <1>2, <1>8, <2>1, <3>1, LinkSame
  <2> QED BY <2>2, <2>3
<1> QED BY <1>9, <1>10

(* Capture receives on an open connection of which the invariant tells.     *)
LEMMA CaptureReads ==
  ASSUME Typed, ClientInv, ReplayInv, Linking, Captures(CaptureNext),
         CaptureReceives
  PROVE  \E c \in Clients : \E n, result :
           /\ LinkInv(c) /\ Reads(c, n, result)
           /\ skipped' = skipped + result.skipped /\ UNCHANGED torn
<1> USE DEF kernel, results, replayVars, receiverVars
<1>1. /\ program = "capture" /\ UNCHANGED <<off, i>>
      /\ \A e : Left(e) = IF e = client THEN stream ELSE <<>>
      /\ \A e : Left(e)' = IF e = client' THEN stream' ELSE <<>>
  BY CaptureView
<1>2. client \in Clients /\ Running /\ client # "none"
  BY DEF Typed, CaptureReceives
<1>3. link[client] = "open"
  BY <1>1, <1>2 DEF ClientInv
<1>4. LinkInv(client)
  BY <1>2, <1>3, OpenFollowed DEF Linking
<1>5. PICK n \in 1 .. Len(sock[client]) :
        /\ MayReceive(client, n) /\ Take(client, n) /\ client' = client
        /\ stream' = Decoded(stream, Received(client, n)).left
        /\ skipped' = skipped + Decoded(stream, Received(client, n)).skipped
        /\ AppendFrames(Decoded(stream, Received(client, n)).frames)
  BY DEF CaptureReceives
<1>6. PICK c, result :
        c = client /\ result = Decoded(stream, Received(client, n))
  OBVIOUS
<1>7. stream = Left(c) /\ stream' = Left(c)'
      /\ \A e \in Clients \ {c} : Left(e)' = Left(e)
  BY <1>1, <1>5, <1>6
<1>8. Reads(c, n, result)
  BY <1>1, <1>5, <1>6, <1>7 DEF Reads, MayReceive, Take, AppendFrames
<1> QED BY <1>2, <1>4, <1>5, <1>6, <1>8 DEF Take

(* And so does the receiver.                                                *)
LEMMA ReceiverReads ==
  ASSUME Typed, ReplayInv, Linking, Receives(ReceiverNext),
         NEW c \in Clients, ReadTcp(c)
  PROVE  \E n, result :
           /\ LinkInv(c) /\ Reads(c, n, result)
           /\ skipped' = skipped + result.skipped /\ UNCHANGED torn
<1> USE DEF kernel, results, replayVars, captureVars
<1>1. /\ program = "operator" /\ UNCHANGED <<off, i>>
      /\ \A e : Left(e) = buffers[e] /\ Left(e)' = buffers'[e]
  BY DEF Receives, Left
<1>2. PICK n \in 1 .. Len(sock[c]) :
        /\ MayReceive(c, n) /\ Take(c, n)
        /\ buffers' = [buffers EXCEPT
                         ![c] = Decoded(buffers[c], Received(c, n)).left]
        /\ got' = got \o Decoded(buffers[c], Received(c, n)).frames
        /\ skipped' = skipped + Decoded(buffers[c], Received(c, n)).skipped
  BY DEF ReadTcp, BufferOf
<1>3. PICK result : result = Decoded(buffers[c], Received(c, n))
  OBVIOUS
<1>4. LinkInv(c)
  BY <1>2, OpenFollowed DEF Linking, MayReceive
<1>5. buffers[c] = Left(c) /\ result.left = Left(c)'
      /\ \A e \in Clients \ {c} : Left(e)' = Left(e)
  BY <1>1, <1>2, <1>3 DEF Typed
<1>6. Reads(c, n, result)
  BY <1>1, <1>2, <1>3, <1>5 DEF Reads, MayReceive, Take
<1> QED BY <1>2, <1>3, <1>4, <1>6 DEF Take

(* Capture.                                                                 *)
LEMMA LinkCapture ==
  ASSUME Typed, QueueInv, ClientInv, ReplayInv, Linking, Captures(CaptureNext),
         NEW d \in Clients, Followed(d)
  PROVE  LinkInv(d)'
<1> USE DEF kernel, results, replayVars, receiverVars
<1>1. /\ program = "capture" /\ UNCHANGED <<off, i>> /\ LinkInv(d)
      /\ \A e : Left(e) = IF e = client THEN stream ELSE <<>>
      /\ \A e : Left(e)' = IF e = client' THEN stream' ELSE <<>>
  BY CaptureView DEF Linking
<1>2. ASSUME Running, client # "none"
      PROVE  client \in Clients /\ link[client] = "open" /\ LinkInv(client)
  <2>1. client \in Clients
    BY <1>2 DEF Typed
  <2>2. link[client] = "open"
    BY <1>1, <1>2, <2>1 DEF ClientInv
  <2> QED BY <2>1, <2>2, OpenFollowed DEF Linking
<1>3. ASSUME NEW c \in Clients, CaptureAccepts(c) PROVE LinkInv(d)'
  BY <1>1, <1>3, LinkAccepts
<1>4. CASE CaptureReceives
  BY <1>1, <1>4, CaptureReads, LinkReads
<1>5. CASE CaptureLosesClient
  <2>1. client \in Clients /\ link[client] = "open" /\ LinkInv(client)
    BY <1>2, <1>5 DEF CaptureLosesClient
  <2>2. PICK how \in {"eof", "cut"} :
          Closed(client, how) /\ (how = "eof" => sock[client] = <<>>)
    BY <1>5 DEF CaptureLosesClient, AtEnd
  <2>3. UNCHANGED <<at, torn, whole, off, i, got>> /\ client' = "none"
        /\ "none" \notin Clients
    BY <1>1, <1>5, CaptureAssumption DEF CaptureLosesClient, Clients
  <2>4. CASE d = client
    BY <2>1, <2>2, <2>3, <2>4, LinkCloses
  <2>5. CASE d # client
    <3>1. /\ link'[d] = link[d] /\ sock'[d] = sock[d] /\ whole'[d] = whole[d]
          /\ Left(d)' = Left(d) /\ From(d, got)' = From(d, got)
      <4>1. link'[d] = link[d] /\ sock'[d] = sock[d]
        BY <2>2, <2>5 DEF Closed, Typed
      <4> QED BY <1>1, <2>3, <2>5, <4>1
    <3>2. Lost(d)' = Lost(d) /\ Sent(d)' = Sent(d) /\ Now(d)' = Now(d)
      BY <2>3, ListenersLeave
    <3> QED BY <1>1, <3>1, <3>2, LinkSame
  <2> QED BY <2>4, <2>5
<1>6. CASE CaptureReceivesDatagram
  <2>1. PICK frames :
          /\ frames = IF Head(dgrams) = <<"garbled">> THEN <<>>
                                                      ELSE <<Head(dgrams)>>
          /\ got' = got \o frames
    BY <1>6 DEF CaptureReceivesDatagram, AppendFrames
  <2>2. dgrams # <<>> /\ UNCHANGED <<link, sock, at, torn, whole, client, stream>>
    BY <1>6 DEF CaptureReceivesDatagram
  <2>3. \/ got' = got
        \/ /\ Head(dgrams) # <<"garbled">>
           /\ got' = Append(got, Head(dgrams))
    <3>1. got \in Seq(Frame)
      BY DEF Typed
    <3>2. CASE Head(dgrams) = <<"garbled">>
      BY <2>1, <3>1, <3>2, ConcatEmptySeq
    <3>3. CASE Head(dgrams) # <<"garbled">>
      <4>1. Head(dgrams) \in Frame
        BY <2>2, <3>3, DatagramType
      <4>2. PICK f \in Frame : f = Head(dgrams)
        BY <4>1
      <4>3. Append(got, f) = got \o <<f>>
        BY <3>1, AppendIsConcat
      <4> QED BY <2>1, <3>3, <4>2, <4>3
    <3> QED BY <3>2, <3>3
  <2>4. Left(d)' = Left(d)
    BY <1>1, <2>2
  <2> QED BY <1>1, <2>2, <2>3, <2>4, LinkDatagram
<1>7. ASSUME Gone, UNCHANGED <<client, stream>> PROVE LinkInv(d)'
  <2>1. Left(d)' = Left(d)
    BY <1>1, <1>7
  <2> QED BY <1>1, <1>7, <2>1, LinkGone
<1>8. CASE CaptureEnds
  BY <1>7, <1>8 DEF CaptureEnds
<1>9. CASE CaptureKilled
  BY <1>7, <1>9 DEF CaptureKilled
<1> QED BY <1>3, <1>4, <1>5, <1>6, <1>8, <1>9 DEF Captures, CaptureNext

(* The receiver.                                                            *)
LEMMA LinkReceiver ==
  ASSUME Typed, QueueInv, ReplayInv, Linking, Receives(ReceiverNext),
         NEW d \in Clients, Followed(d)
  PROVE  LinkInv(d)'
<1> USE DEF kernel, results, replayVars, captureVars
<1>1. /\ program = "operator" /\ UNCHANGED <<off, i>> /\ LinkInv(d)
      /\ \A e : Left(e) = buffers[e] /\ Left(e)' = buffers'[e]
  BY DEF Receives, Linking, Left
<1>2. ASSUME UNCHANGED <<at, torn, whole, got, buffers>>, sock'[d] = sock[d],
             link'[d] = link[d]
      PROVE  LinkInv(d)'
  <2>1. Lost(d)' = Lost(d) /\ Sent(d)' = Sent(d) /\ Now(d)' = Now(d)
    BY <1>1, <1>2, ListenersLeave
  <2>2. Left(d)' = Left(d) /\ From(d, got)' = From(d, got)
    BY <1>1, <1>2
  <2> QED BY <1>1, <1>2, <2>1, <2>2, LinkSame
<1>3. ASSUME NEW c \in Clients, ReceiverAccepts(c) PROVE LinkInv(d)'
  <2>1. /\ link' = [link EXCEPT ![c] = "open"]
        /\ UNCHANGED <<sock, at, torn, whole, got, buffers>>
    BY <1>3 DEF ReceiverAccepts, receiverVars
  <2>2. link[c] = "backlog"
    BY <1>3, AcceptedWaited DEF ReceiverAccepts
  <2>3. CASE d = c
    <3>1. Lost(d)' = Lost(d) /\ Sent(d)' = Sent(d) /\ Now(d)' = Now(d)
      BY <1>1, <2>1, ListenersLeave
    <3>2. Linked(d, "open", whole[d], Lost(d), Sent(d), Left(d), sock[d],
                 From(d, got), Now(d))
      <4>1. /\ Linked(d, "backlog", whole[d], Lost(d), Sent(d), Left(d), sock[d],
                      From(d, got), Now(d))
            /\ "backlog" \in Live
        BY <1>1, <2>2, <2>3 DEF LinkInv, Live
      <4> QED BY <4>1, LinkedOpens
    <3>3. link'[d] = "open"
      BY <2>1, <2>3 DEF Typed
    <3>4. Left(d)' = Left(d) /\ From(d, got)' = From(d, got)
      BY <1>1, <2>1
    <3> QED BY <2>1, <3>1, <3>2, <3>3, <3>4 DEF LinkInv
  <2>4. CASE d # c
    <3>1. link'[d] = link[d]
      BY <2>1, <2>4 DEF Typed
    <3> QED BY <1>2, <2>1, <3>1
  <2> QED BY <2>3, <2>4
<1>4. ASSUME NEW c \in Clients, ReadTcp(c) PROVE LinkInv(d)'
  BY <1>1, <1>4, ReceiverReads, LinkReads
<1>5. ASSUME NEW c \in Clients, ReadTcpEnd(c) PROVE LinkInv(d)'
  <2>1. /\ Closed(c, "eof") /\ link[c] = "open" /\ sock[c] = <<>>
        /\ UNCHANGED <<at, torn, whole, off, i, got, buffers>>
    BY <1>1, <1>5 DEF ReadTcpEnd, AtEnd, receiverVars
  <2>2. CASE d = c
    <3>1. "eof" \in {"eof", "cut"}
      OBVIOUS
    <3> QED BY <1>1, <2>1, <2>2, <3>1, LinkCloses
  <2>3. CASE d # c
    <3>1. link'[d] = link[d] /\ sock'[d] = sock[d]
      BY <2>1, <2>3 DEF Closed, Typed
    <3> QED BY <1>2, <2>1, <3>1
  <2> QED BY <2>2, <2>3
<1>6. ASSUME NEW c \in Clients, ReadTcpThrows(c) PROVE LinkInv(d)'
  BY <1>2, <1>6 DEF ReadTcpThrows
<1>7. CASE ReadUdp
  <2>1. /\ dgrams # <<>> /\ UNCHANGED <<link, sock, at, torn, whole, buffers>>
        /\ \/ got' = got
           \/ /\ Head(dgrams) # <<"garbled">>
              /\ got' = Append(got, Head(dgrams))
    BY <1>7 DEF ReadUdp, receiverVars
  <2>2. Left(d)' = Left(d)
    BY <1>1, <2>1
  <2> QED BY <1>1, <2>1, <2>2, LinkDatagram
<1>8. CASE OperatorExits
  <2>1. Gone /\ UNCHANGED buffers
    BY <1>8 DEF OperatorExits
  <2>2. Left(d)' = Left(d)
    BY <1>1, <2>1
  <2> QED BY <1>1, <2>1, <2>2, LinkGone
<1> QED BY <1>3, <1>4, <1>5, <1>6, <1>7, <1>8 DEF Receives, ReceiverNext

(* Nothing is skipped while no connection began in the middle of a frame.   *)
LEMMA SkipStep ==
  ASSUME Typed, ClientInv, ReplayInv, Linking, SkipInv, Next
  PROVE  SkipInv'
<1> USE DEF kernel, results, replayVars, captureVars, receiverVars
<1>1. CASE torn \subseteq torn' /\ UNCHANGED skipped
  BY <1>1 DEF SkipInv
<1>2. ASSUME NEW c \in Clients, NEW n, NEW result, LinkInv(c),
             Reads(c, n, result), skipped' = skipped + result.skipped,
             UNCHANGED torn
      PROVE  SkipInv'
  <2>1. torn = {} => Lost(c) = 0
    BY DEF Lost
  <2>2. Lost(c) = 0 => result.skipped = 0
    BY <1>2, LinkReads
  <2> QED BY <1>2, <2>1, <2>2 DEF SkipInv
<1>3. CASE ReplayStep
  <2>1. UNCHANGED <<torn, skipped>>
    BY <1>3 DEF ReplayStep, ReplayNext, ReplayRefused, ReplayStart, SkipBad,
       SendSome, SendBroken, SendDatagram, ReplayEnd
  <2> QED BY <1>1, <2>1
<1>4. CASE EdgeStep
  <2>1. PICK e \in Edges : EdgeConnects(e) \/ EdgeSends(e) \/ EdgeEnds(e)
    BY <1>4 DEF EdgeStep, EdgeNext
  <2>2. torn \subseteq torn' /\ UNCHANGED skipped
    BY <2>1 DEF EdgeConnects, EdgeSends, EdgeEnds
  <2> QED BY <1>1, <2>2
<1>5. CASE Captures(CaptureNext)
  <2>1. CASE CaptureReceives
    BY <1>2, <1>5, <2>1, CaptureReads
  <2>2. CASE ~CaptureReceives
    <3>1. UNCHANGED <<torn, skipped>>
      BY <1>5, <2>2 DEF Captures, CaptureNext, CaptureAccepts,
         CaptureLosesClient, CaptureReceivesDatagram, CaptureEnds,
         CaptureKilled, Gone
    <3> QED BY <1>1, <3>1
  <2> QED BY <2>1, <2>2
<1>6. CASE Receives(ReceiverNext)
  <2>1. ASSUME NEW c \in Clients, ReadTcp(c) PROVE SkipInv'
    BY <1>2, <1>6, <2>1, ReceiverReads
  <2>2. CASE \A c \in Clients : ~ReadTcp(c)
    <3>1. UNCHANGED <<torn, skipped>>
      BY <1>6, <2>2 DEF Receives, ReceiverNext, ReceiverAccepts, ReadTcpEnd,
         ReadTcpThrows, ReadUdp, OperatorExits, Gone
    <3> QED BY <1>1, <3>1
  <2> QED BY <2>1, <2>2
<1> QED BY <1>3, <1>4, <1>5, <1>6 DEF Next

(***************************************************************************)
(* The invariant                                                           *)
(***************************************************************************)

(* At the start no connection is there.                                     *)
LEMMA LinkInit ==
  ASSUME Init, NEW c \in Clients
  PROVE  LinkInv(c)
<1> DEFINE num == [k \in Nat |-> k]
<1>1. num \in Numbers /\ \A k \in Nat : num[k] = k
  BY DEF Numbers
<1> HIDE DEF num
<1>2. /\ link[c] = "idle" /\ whole[c] = <<>> /\ sock[c] = <<>> /\ got = <<>>
      /\ Lost(c) = 0 /\ off = 0
  BY DEF Init, ListenerInit, ReplayInit, Lost
<1>3. Left(c) = <<>>
  BY DEF Init, CaptureInit, ReceiverInit, Left
<1>4. From(c, got) = <<>>
  BY <1>2, FromNone
<1>5. Now(c) = 0
  BY <1>2 DEF Now
<1>6. Sent(c) = 0
  <2>1. CASE c = "replay"
    <3>1. Len(whole[c]) = 0
      BY <1>2, EmptySeq
    <3>2. 0 * Units + 0 = 0
      BY ListenerAssumption
    <3> QED BY <1>2, <2>1, <3>1, <3>2 DEF Sent
  <2>2. CASE c # "replay"
    BY <2>2 DEF Sent, Init, ListenerInit, Clients
  <2> QED BY <2>1, <2>2
<1>7. Conn(c, num, 0, 0, <<>>, <<>>, <<>>) /\ Own(c, num, 0, 0) = <<>>
  <2>1. 0 \in 0 .. Units - 1 /\ 0 = (IF 0 > 0 THEN 1 ELSE 0)
    BY ListenerAssumption
  <2> QED BY <1>1, <2>1, ConnBegins
<1>8. Numbered(c, num, <<>>, 0)
  BY <1>1 DEF Numbered
<1>9. Linked(c, "idle", <<>>, 0, 0, <<>>, <<>>, <<>>, 0)
  BY <1>1, <1>7, <1>8 DEF Linked, Live
<1> QED BY <1>2, <1>3, <1>4, <1>5, <1>6, <1>9 DEF LinkInv

LEMMA InvInit ==
  ASSUME Init
  PROVE  Inv
<1>1. Typed
  BY TypedInit
<1>2. QueueInv
  <2>1. backlog = <<>> /\ Len(<<>>) = 0
    BY EmptySeq DEF Init, ListenerInit
  <2> QED BY <2>1 DEF QueueInv, Queue
<1>3. ClientInv
  <2>1. "none" \notin Clients
    BY CaptureAssumption DEF Clients
  <2> QED BY <2>1 DEF ClientInv, Init, CaptureInit, ListenerInit
<1>4. ReplayInv
  BY DEF ReplayInv, Init, ListenerInit, ReplayInit, Clients
<1>5. SkipInv
  BY DEF SkipInv, Init, ListenerInit
<1>6. Linking
  BY LinkInit DEF Linking
<1> QED BY <1>1, <1>2, <1>3, <1>4, <1>5, <1>6 DEF Inv

LEMMA InvStep ==
  ASSUME Inv, [Next]_vars
  PROVE  Inv'
<1>1. CASE UNCHANGED vars
  <2> USE DEF vars, kernel, results, replayVars, captureVars, receiverVars
  <2>1. Typed' /\ QueueInv' /\ SkipInv'
    BY <1>1 DEF Inv, Typed, QueueInv, SkipInv
  <2>2. ClientInv' /\ ReplayInv'
    BY <1>1 DEF Inv, ClientInv, Running, ReplayInv
  <2>3. Linking'
    <3>1. \A c : /\ Lost(c)' = Lost(c) /\ Sent(c)' = Sent(c)
                 /\ Now(c)' = Now(c) /\ Left(c)' = Left(c)
                 /\ Followed(c)' = Followed(c) /\ From(c, got)' = From(c, got)
      BY <1>1 DEF Lost, Sent, Now, Left, Followed
    <3>2. \A c \in Clients : LinkInv(c) => LinkInv(c)'
      BY <1>1, <3>1, LinkSame
    <3> QED BY <3>1, <3>2 DEF Inv, Linking
  <2> QED BY <2>1, <2>2, <2>3 DEF Inv
<1>2. CASE Next
  <2>1. Typed'
    BY <1>2, TypedReplay, TypedEdges, TypedCapture, TypedReceiver DEF Inv, Next
  <2>2. QueueInv' /\ ClientInv' /\ ReplayInv' /\ SkipInv'
    BY <1>2, QueueStep, ClientStep, ReplayInvStep, SkipStep DEF Inv
  <2>3. Linking'
    <3>1. UNCHANGED transport
      BY <1>2 DEF Next, ReplayStep, ReplayNext, ReplayRefused, Exit, ReplayStart,
         SkipBad, SendSome, SendBroken, SendDatagram, ReplayEnd, EdgeStep,
         Captures, Receives, replayVars
    <3>2. ASSUME NEW d \in Clients, Followed(d) PROVE LinkInv(d)'
      BY <1>2, <3>2, LinkReplay, LinkEdges, LinkCapture, LinkReceiver
         DEF Inv, Linking, Next
    <3> QED BY <3>1, <3>2 DEF Linking, Followed
  <2> QED BY <2>1, <2>2, <2>3 DEF Inv
<1> QED BY <1>1, <1>2

LEMMA InvKeepsFrames ==
  ASSUME Inv
  PROVE  ConnectionsKeepTheirFrames
<1> SUFFICES ASSUME NEW c \in Clients, Followed(c)
             PROVE  /\ IsPrefix(From(c, got), whole[c])
                    /\ link[c] = "eof" => From(c, got) = whole[c]
  BY DEF ConnectionsKeepTheirFrames, Followed
<1>1. Linked(c, link[c], whole[c], Lost(c), Sent(c), Left(c), sock[c],
             From(c, got), Now(c))
      /\ Lost(c) \in {0, 1} /\ Sent(c) \in Nat
  BY ViewType DEF Inv, Linking, LinkInv
<1>2. CASE link[c] \in Live
  <2>1. Linked(c, "cut", whole[c], Lost(c), Sent(c), Left(c), sock[c],
               From(c, got), Now(c))
    BY <1>1, LinkedCut
  <2> QED BY <1>2, <2>1 DEF Linked, Live
<1>3. CASE link[c] \notin Live
  BY <1>1, <1>3 DEF Linked
<1> QED BY <1>2, <1>3

(***************************************************************************)
(* The recording                                                           *)
(***************************************************************************)

(* A frame lies behind the first p units of s.                              *)
FrameIn(s, p) ==
  \A u \in 1 .. Units : s[p + u] = <<s[p + 1][1], s[p + 1][2], u - 1>>

(* s begins with n frames.                                                  *)
Holds(s, n) ==
  /\ n * Units <= Len(s)
  /\ \A k \in 0 .. n - 1 : FrameIn(s, k * Units)

(* The frames that s begins with are these.                                 *)
Says(s, frames) ==
  \A k \in 0 .. Len(frames) - 1 :
    s[k * Units + 1] = <<frames[k + 1][1], frames[k + 1][2], 0>>

(* If s begins with as many frames as are counted, they are those, and      *)
(* there is no further one.                                                 *)
Sound(s, frames) ==
  Holds(s, Len(frames)) =>
    Says(s, frames) /\ ~Holds(s, Len(frames) + 1)

(* Frames in units.                                                         *)
LEMMA Multiples ==
  ASSUME NEW n \in Nat
  PROVE  /\ n * Units \in Nat
         /\ (n + 1) * Units = n * Units + Units
         /\ \A k \in 0 .. n - 1 :
              k * Units \in Nat /\ k * Units + Units <= n * Units
<1>1. Units \in Nat
  BY ListenerAssumption
<1>2. n * Units \in Nat /\ (n + 1) * Units = n * Units + Units
  BY <1>1
<1>3. ASSUME NEW k \in 0 .. n - 1
      PROVE  k * Units \in Nat /\ k * Units + Units <= n * Units
  <2>1. PICK d \in Nat : n = k + 1 + d
    <3>1. n - k - 1 \in Nat /\ n = k + 1 + (n - k - 1)
      OBVIOUS
    <3> QED BY <3>1
  <2>2. n * Units = k * Units + Units + d * Units
    BY <1>1, <2>1
  <2>3. d * Units \in Nat /\ k * Units \in Nat
    BY <1>1
  <2> QED BY <1>1, <2>2, <2>3
<1> QED BY <1>2, <1>3

(* The units of frames.                                                     *)
LEMMA BytesAre ==
  ASSUME NEW frames \in Seq(Frame)
  PROVE  /\ Bytes(frames) \in Seq(Unit)
         /\ Len(Bytes(frames)) = Len(frames) * Units
         /\ \A k \in 0 .. Len(frames) - 1, u \in 1 .. Units :
              Bytes(frames)[k * Units + u]
                = <<frames[k + 1][1], frames[k + 1][2], u - 1>>
<1> DEFINE n == Len(frames)
           one(k) == LET f == frames[(k - 1) \div Units + 1] IN
                    <<f[1], f[2], (k - 1) % Units>>
<1>1. /\ n \in Nat /\ Units \in Nat \ {0} /\ n * Units \in Nat
      /\ \A k \in 1 .. n : frames[k] \in Frame
  BY Multiples, ListenerAssumption, LenProperties, ElementOfSeq
<1>2. Bytes(frames) = [k \in 1 .. n * Units |-> one(k)]
  BY DEF Bytes
<1> HIDE DEF n
<1>3. \A f \in Frame, u \in Nat : <<f[1], f[2], u>> \in Unit
  BY DEF Frame, Unit
<1>4. ASSUME NEW k \in 1 .. n * Units PROVE one(k) \in Unit
  <2>1. PICK j \in Nat : j = k - 1
    BY <1>1
  <2>2. j \div Units \in Nat /\ j % Units \in Nat
    BY <1>1
  <2>3. PICK q \in Nat, r \in Nat : q = j \div Units /\ r = j % Units
    BY <2>2
  <2>4. j = q * Units + r
    BY <1>1, <2>3, DivMod
  <2>5. q < n
    <3>1. CASE q >= n
      <4>1. n * Units <= q * Units
        <5>1. CASE q = n
          BY <1>1, <5>1
        <5>2. CASE q > n
          <6>1. n \in 0 .. q - 1
            BY <1>1, <5>2
          <6> QED BY <1>1, <6>1, Multiples
        <5> QED BY <1>1, <3>1, <5>1, <5>2
      <4>2. q * Units \in Nat
        BY <1>1
      <4> QED BY <1>1, <2>1, <2>4, <4>1, <4>2
    <3> QED BY <1>1, <3>1
  <2>6. frames[q + 1] \in Frame
    BY <1>1, <2>5
  <2>7. one(k) = <<frames[q + 1][1], frames[q + 1][2], r>>
    BY <2>1, <2>3
  <2> HIDE DEF one
  <2> QED BY <1>3, <2>3, <2>6, <2>7
<1>5. ASSUME NEW k \in 0 .. n - 1, NEW u \in 1 .. Units
      PROVE  /\ k * Units + u \in 1 .. n * Units
             /\ one(k * Units + u) = <<frames[k + 1][1], frames[k + 1][2], u - 1>>
  <2>1. k \in Nat /\ k * Units \in Nat /\ k * Units + Units <= n * Units
    BY <1>1, Multiples
  <2>2. u - 1 \in 0 .. Units - 1 /\ (k * Units + u) - 1 = k * Units + (u - 1)
    BY <1>1, <2>1
  <2>3. /\ (k * Units + (u - 1)) \div Units = k
        /\ (k * Units + (u - 1)) % Units = u - 1
    BY <1>1, <2>1, <2>2, MulAdd
  <2>4. k * Units + u \in 1 .. n * Units
    BY <1>1, <2>1
  <2> QED BY <2>2, <2>3, <2>4
<1> HIDE DEF one
<1>6. Bytes(frames) \in [1 .. n * Units -> Unit]
  BY <1>2, <1>4
<1>7. Bytes(frames) \in Seq(Unit) /\ Len(Bytes(frames)) = n * Units
  BY <1>1, <1>6, FunctionIsSeq
<1>8. ASSUME NEW k \in 0 .. n - 1, NEW u \in 1 .. Units
      PROVE  Bytes(frames)[k * Units + u]
               = <<frames[k + 1][1], frames[k + 1][2], u - 1>>
  BY <1>2, <1>5
<1> QED BY <1>7, <1>8 DEF n

(* Inside a frame no unit is the first of one.                              *)
LEMMA NoneAcross ==
  ASSUME NEW s, NEW p \in Nat, FrameIn(s, p),
         NEW q \in Nat, p < q, q < p + Units,
         NEW a, NEW b, s[q + 1] = <<a, b, 0>>
  PROVE  FALSE
<1>1. Units \in Nat
  BY ListenerAssumption
<1>2. PICK u \in 1 .. Units : q + 1 = p + u /\ u # 1
  <2>1. q + 1 - p \in 1 .. Units /\ q + 1 = p + (q + 1 - p) /\ q + 1 - p # 1
    BY <1>1
  <2> QED BY <2>1
<1>3. s[q + 1] = <<s[p + 1][1], s[p + 1][2], u - 1>>
  BY <1>2 DEF FrameIn
<1>4. u - 1 # 0
  BY <1>1, <1>2
<1> QED BY <1>3, <1>4

(* Two sequences that agree on the first m units.                           *)
Alike(s, t, m) ==
  m <= Len(s) /\ m <= Len(t) /\ \A k \in 1 .. m : s[k] = t[k]

(* Then they begin with the same frames, as far as these are among them.    *)
LEMMA HoldsAlike ==
  ASSUME NEW s \in Seq(Unit), NEW t \in Seq(Unit), NEW m \in Nat,
         Alike(s, t, m), NEW n \in Nat, n * Units <= m, Holds(t, n)
  PROVE  /\ Holds(s, n)
         /\ \A k \in 0 .. n - 1 : s[k * Units + 1] = t[k * Units + 1]
<1>1. Units \in Nat /\ Units >= 2 /\ n * Units \in Nat
  BY ListenerAssumption, Multiples
<1>2. ASSUME NEW k \in 0 .. n - 1, NEW u \in 1 .. Units
      PROVE  s[k * Units + u] = t[k * Units + u]
  <2>1. k * Units \in Nat /\ k * Units + Units <= n * Units
    BY Multiples
  <2>2. PICK p \in Nat : p = k * Units
    BY <2>1
  <2>3. p + u \in 1 .. m
    BY <1>1, <2>1, <2>2
  <2> QED BY <2>2, <2>3 DEF Alike
<1>3. 1 \in 1 .. Units
  BY <1>1
<1>4. ASSUME NEW k \in 0 .. n - 1 PROVE FrameIn(s, k * Units)
  <2>1. FrameIn(t, k * Units)
    BY DEF Holds
  <2> QED BY <1>2, <1>3, <2>1 DEF FrameIn
<1>5. n * Units <= Len(s)
  BY <1>1, LenProperties DEF Alike
<1> QED BY <1>2, <1>3, <1>4, <1>5 DEF Holds

(* The beginning of s, and what is put behind it.                           *)
LEMMA AlikeFront ==
  ASSUME NEW s \in Seq(Unit), NEW t \in Seq(Unit), NEW n \in 0 .. Len(s)
  PROVE  /\ SubSeq(s, 1, n) \in Seq(Unit) /\ Len(SubSeq(s, 1, n)) = n
         /\ Alike(SubSeq(s, 1, n), s, n)
         /\ s \o t \in Seq(Unit) /\ Len(s \o t) = Len(s) + Len(t)
         /\ Alike(s, s \o t, Len(s))
<1>1. n \in Nat /\ Len(s) \in Nat /\ Len(t) \in Nat
  BY LenProperties
<1>2. SubSeq(s, 1, n) \in Seq(Unit) /\ IsFront(SubSeq(s, 1, n), n, s)
  BY SplitIn
<1>3. /\ s \o t \in Seq(Unit) /\ Len(s \o t) = Len(s) + Len(t)
      /\ \A k \in 1 .. Len(s) : (s \o t)[k] = s[k]
  BY ConcatElements
<1> QED BY <1>1, <1>2, <1>3 DEF Alike, IsFront

(* What begins with the first unit of a frame.                              *)
Begins(t) == t # <<>> => \E a, b : t[1] = <<a, b, 0>>

(* Put behind anything but whole frames, that completes no frame.           *)
LEMMA CompletesNone ==
  ASSUME NEW s \in Seq(Unit), NEW t \in Seq(Unit), Begins(t), t # <<>>,
         NEW n \in Nat, Holds(s \o t, n + 1),
         n * Units < Len(s), Len(s) < n * Units + Units
  PROVE  FALSE
<1>1. /\ Units \in Nat /\ n * Units \in Nat /\ Len(s) \in Nat
      /\ n \in 0 .. (n + 1) - 1
  BY ListenerAssumption, Multiples, LenProperties
<1>2. FrameIn(s \o t, n * Units)
  BY <1>1 DEF Holds
<1>3. (s \o t)[Len(s) + 1] = t[1]
  <2>1. Len(t) \in Nat /\ Len(t) # 0
    BY LenProperties, EmptySeq
  <2>2. 1 \in 1 .. Len(t)
    BY <2>1
  <2> QED BY <2>2, ConcatElements
<1>4. PICK a, b : (s \o t)[Len(s) + 1] = <<a, b, 0>>
  BY <1>3 DEF Begins
<1>5. PICK p \in Nat, q \in Nat : p = n * Units /\ q = Len(s)
  BY <1>1
<1> QED BY <1>2, <1>4, <1>5, NoneAcross

LEMMA BytesBegin ==
  ASSUME NEW frames \in Seq(Frame), NEW n \in 0 .. Len(Bytes(frames))
  PROVE  /\ Begins(Bytes(frames))
         /\ Begins(SubSeq(Bytes(frames), 1, n))
<1> DEFINE t == Bytes(frames)
<1>1. /\ t \in Seq(Unit) /\ Len(t) = Len(frames) * Units
      /\ Len(frames) \in Nat /\ Units \in Nat /\ Units >= 2
      /\ \A k \in 0 .. Len(frames) - 1, u \in 1 .. Units :
           t[k * Units + u] = <<frames[k + 1][1], frames[k + 1][2], u - 1>>
  BY BytesAre, LenProperties, ListenerAssumption
<1>2. ASSUME Len(t) # 0 PROVE \E a, b : t[1] = <<a, b, 0>>
  <2>1. 0 \in 0 .. Len(frames) - 1 /\ 1 \in 1 .. Units
    BY <1>1, <1>2
  <2>2. t[0 * Units + 1] = <<frames[0 + 1][1], frames[0 + 1][2], 1 - 1>>
    BY <1>1, <2>1
  <2>3. 0 * Units + 1 = 1 /\ 1 - 1 = 0
    BY <1>1
  <2> QED BY <2>2, <2>3
<1> HIDE DEF t
<1>3. Begins(t)
  BY <1>1, <1>2, EmptySeq DEF Begins
<1>4. Begins(SubSeq(t, 1, n))
  <2>1. n \in 0 .. Len(t)
    BY DEF t
  <2>2. /\ SubSeq(t, 1, n) \in Seq(Unit) /\ Len(SubSeq(t, 1, n)) = n
        /\ Alike(SubSeq(t, 1, n), t, n) /\ n \in Nat
    BY <1>1, <2>1, AlikeFront
  <2> SUFFICES ASSUME SubSeq(t, 1, n) # <<>>
               PROVE  \E a, b : SubSeq(t, 1, n)[1] = <<a, b, 0>>
    BY DEF Begins
  <2>3. n # 0
    BY <2>2, EmptySeq
  <2>4. SubSeq(t, 1, n)[1] = t[1] /\ Len(t) # 0
    <3>1. 1 \in 1 .. n
      BY <2>2, <2>3
    <3> QED BY <2>1, <2>2, <3>1 DEF Alike
  <2> QED BY <1>2, <2>4
<1> QED BY <1>3, <1>4 DEF t

(* Frames are put behind what was sound, and counted.                       *)
LEMMA SoundAppends ==
  ASSUME NEW s \in Seq(Unit), NEW old \in Seq(Frame), Sound(s, old),
         NEW frames \in Seq(Frame)
  PROVE  Sound(s \o Bytes(frames), old \o frames)
<1> DEFINE t == Bytes(frames)
           n == Len(old)
           m == Len(frames)
           all == old \o frames
<1>1. /\ n \in Nat /\ m \in Nat /\ Units \in Nat /\ Units >= 2
      /\ Len(s) \in Nat
  BY ListenerAssumption, LenProperties
<1>11. /\ all \in Seq(Frame) /\ Len(all) = n + m
       /\ \A k \in 1 .. n : all[k] = old[k]
       /\ \A k \in 1 .. m : all[n + k] = frames[k]
  BY ConcatElements
<1>2. /\ t \in Seq(Unit) /\ Len(t) = m * Units /\ Begins(t)
      /\ \A k \in 0 .. m - 1, u \in 1 .. Units :
           t[k * Units + u] = <<frames[k + 1][1], frames[k + 1][2], u - 1>>
  <2>1. 0 \in 0 .. Len(t)
    BY BytesAre, LenProperties
  <2> QED BY <2>1, BytesAre, BytesBegin
<1> HIDE DEF t
<1>3. s \o t \in Seq(Unit) /\ Len(s \o t) = Len(s) + Len(t)
      /\ Alike(s, s \o t, Len(s))
      /\ \A k \in 1 .. Len(t) : (s \o t)[Len(s) + k] = t[k]
  <2>1. 0 \in 0 .. Len(s)
    BY <1>1
  <2>2. t \in Seq(Unit)
    BY <1>2
  <2>3. /\ s \o t \in Seq(Unit) /\ Len(s \o t) = Len(s) + Len(t)
        /\ Alike(s, s \o t, Len(s))
    BY <2>1, <2>2, AlikeFront
  <2>4. \A k \in 1 .. Len(t) : (s \o t)[Len(s) + k] = t[k]
    BY <2>2, ConcatElements
  <2> QED BY <2>3, <2>4
<1> HIDE DEF all
<1> SUFFICES ASSUME Holds(s \o t, n + m)
             PROVE  Says(s \o t, all) /\ ~Holds(s \o t, n + m + 1)
  BY <1>11 DEF Sound, t, all
<1>0. Sound(s, old) /\ (Sound(s, old) /\ Holds(s, n) =>
                          Says(s, old) /\ ~Holds(s, n + 1))
      /\ \A k \in 0 .. n - 1 : Says(s, old) =>
           s[k * Units + 1] = <<old[k + 1][1], old[k + 1][2], 0>>
  BY DEF Sound, Says
<1> HIDE DEF n, m
<1>4. PICK a \in Nat, b \in Nat :
        /\ a = n * Units /\ b = m * Units
        /\ (n + m) * Units = a + b /\ (n + m + 1) * Units = a + b + Units
        /\ (n + 1) * Units = a + Units
  <2>1. n * Units \in Nat /\ m * Units \in Nat
    BY <1>1
  <2>2. (n + m) * Units = n * Units + m * Units
    BY <1>1
  <2>3. (n + m + 1) * Units = n * Units + m * Units + Units
    BY <1>1
  <2>4. (n + 1) * Units = n * Units + Units
    BY <1>1
  <2> QED BY <2>1, <2>2, <2>3, <2>4
<1>12. Len(t) = b /\ Len(s \o t) = Len(s) + b
  BY <1>2, <1>3, <1>4
<1>5. a <= Len(s)
  <2>1. a + b <= Len(s \o t)
    BY <1>4 DEF Holds
  <2> QED BY <1>1, <1>12, <2>1
<1>6. ASSUME NEW j \in Nat, j <= n + m, j * Units <= Len(s)
      PROVE  Holds(s, j)
  <2>1. Holds(s \o t, j)
    <3>1. j * Units <= Len(s \o t)
      <4>1. j * Units \in Nat /\ Len(t) \in Nat
        BY <1>2, <1>6, Multiples, LenProperties
      <4> QED BY <1>1, <1>3, <1>6, <4>1
    <3>2. \A k \in 0 .. j - 1 : k \in 0 .. (n + m) - 1
      BY <1>1, <1>6
    <3> QED BY <3>1, <3>2 DEF Holds
  <2> QED BY <1>1, <1>3, <1>6, <2>1, HoldsAlike
<1>7. Says(s, old) /\ ~Holds(s, n + 1)
  <2>1. Holds(s, n)
    <3>1. n <= n + m
      BY <1>1
    <3>2. n * Units <= Len(s)
      BY <1>4, <1>5
    <3> QED BY <1>1, <1>6, <3>1, <3>2
  <2> QED BY <1>0, <2>1
<1>8. ASSUME m > 0, Len(s) # a PROVE FALSE
  <2>1. Len(s) < a + Units
    <3>1. CASE Len(s) >= a + Units
      <4>1. n + 1 \in Nat /\ n + 1 <= n + m /\ (n + 1) * Units <= Len(s)
        BY <1>1, <1>4, <1>8, <3>1
      <4> QED BY <1>6, <1>7, <4>1
    <3> QED BY <1>1, <1>4, <3>1
  <2>2. Holds(s \o t, n + 1)
    <3>1. (n + 1) * Units <= Len(s \o t)
      <4>1. Units <= b
        <5>1. 0 \in 0 .. m - 1 /\ 0 * Units + Units = Units
          BY <1>1, <1>8
        <5> QED BY <1>1, <1>4, <5>1, Multiples
      <4>2. a + Units <= Len(s \o t)
        BY <1>1, <1>5, <1>12, <4>1
      <4> QED BY <1>4, <4>2
    <3>2. \A k \in 0 .. (n + 1) - 1 : k \in 0 .. (n + m) - 1
      BY <1>1, <1>8
    <3> QED BY <3>1, <3>2 DEF Holds
  <2>3. t # <<>>
    <3>1. Len(t) # 0
      <4>1. 0 \in 0 .. m - 1 /\ 0 * Units + Units = Units
        BY <1>1, <1>8
      <4>2. Units <= m * Units
        BY <1>1, <4>1, Multiples
      <4> QED BY <1>1, <1>2, <1>4, <4>2
    <3> QED BY <3>1, EmptySeq
  <2>4. n * Units < Len(s) /\ Len(s) < n * Units + Units
    BY <1>1, <1>4, <1>5, <1>8, <2>1
  <2> QED BY <1>1, <1>2, <2>2, <2>3, <2>4, CompletesNone
<1>9. Says(s \o t, all)
  <2>0. Len(all) - 1 = n + m - 1
    <3>1. Len(all) = n + m
      BY <1>11
    <3> QED BY <1>1, <3>1
  <2> SUFFICES ASSUME NEW k \in 0 .. n + m - 1
               PROVE  (s \o t)[k * Units + 1]
                        = <<all[k + 1][1], all[k + 1][2], 0>>
    BY <2>0 DEF Says
  <2>1. CASE k < n
    <3>1. k \in 0 .. n - 1 /\ k + 1 \in 1 .. n
      BY <1>1, <2>1
    <3>2. k * Units \in Nat /\ k * Units + Units <= n * Units
      BY <1>1, <3>1, Multiples
    <3>3. k * Units + 1 \in 1 .. Len(s)
      <4>1. PICK p \in Nat : p = k * Units /\ p + Units <= a
        BY <1>4, <3>2
      <4>2. p + 1 \in 1 .. Len(s)
        BY <1>1, <1>5, <4>1
      <4> QED BY <4>1, <4>2
    <3>4. (s \o t)[k * Units + 1] = s[k * Units + 1]
      BY <1>3, <3>3 DEF Alike
    <3>5. s[k * Units + 1] = <<old[k + 1][1], old[k + 1][2], 0>>
      BY <1>0, <1>7, <3>1
    <3> QED BY <1>11, <3>1, <3>4, <3>5
  <2>2. CASE k >= n
    <3>1. PICK j \in 0 .. m - 1 : k = n + j
      <4>1. k - n \in 0 .. m - 1 /\ k = n + (k - n)
        BY <1>1, <2>2
      <4> QED BY <4>1
    <3>2. Len(s) = a
      BY <1>1, <1>8, <3>1
    <3>3. PICK p \in Nat : p = j * Units /\ p + Units <= b
      BY <1>1, <1>4, Multiples
    <3>4. k * Units = a + p
      BY <1>1, <1>4, <3>1, <3>3
    <3>5. (s \o t)[a + (p + 1)] = t[p + 1]
      <4>1. p + 1 \in 1 .. Len(t)
        <5>1. p + Units <= b
          BY <3>3
        <5> QED BY <1>1, <1>12, <5>1
      <4> QED BY <1>3, <3>2, <4>1
    <3>6. t[p + 1] = <<frames[j + 1][1], frames[j + 1][2], 0>>
      <4>1. 1 \in 1 .. Units /\ 1 - 1 = 0
        BY <1>1
      <4> QED BY <1>2, <3>3, <4>1
    <3>7. all[k + 1] = frames[j + 1]
      <4>1. j + 1 \in 1 .. m /\ k + 1 = n + (j + 1)
        BY <1>1, <3>1
      <4>2. all[n + (j + 1)] = frames[j + 1]
        BY <1>11, <4>1
      <4> QED BY <4>1, <4>2
    <3>8. k * Units + 1 = a + (p + 1)
      BY <3>4
    <3> QED BY <3>5, <3>6, <3>7, <3>8
  <2>3. k < n \/ k >= n
    BY <1>1
  <2> QED BY <2>1, <2>2, <2>3
<1>10. ~Holds(s \o t, n + m + 1)
  <2>1. CASE m = 0
    <3>1. Len(s \o t) = Len(s) /\ n + m = n /\ n + m + 1 = n + 1
      <4>1. b = 0
        BY <1>1, <1>4, <2>1
      <4> QED BY <1>1, <1>12, <2>1, <4>1
    <3>2. ASSUME Holds(s \o t, n + 1) PROVE FALSE
      <4>1. (n + 1) * Units <= Len(s)
        BY <3>1, <3>2 DEF Holds
      <4>2. Holds(s, n + 1)
        <5>1. n + 1 \in Nat
          BY <1>1
        <5> QED BY <1>1, <1>3, <3>2, <4>1, <5>1, HoldsAlike
      <4> QED BY <1>7, <4>2
    <3> QED BY <3>1, <3>2
  <2>2. CASE m > 0
    <3>1. Len(s \o t) = a + b
      BY <1>8, <1>12, <2>2
    <3>2. ~(a + b + Units <= Len(s \o t))
      BY <1>1, <3>1
    <3> QED BY <1>4, <3>2 DEF Holds
  <2> QED BY <1>1, <2>1, <2>2
<1> QED BY <1>9, <1>10

(* Part of a frame is put behind a beginning of what was sound.             *)
LEMMA SoundCut ==
  ASSUME NEW s \in Seq(Unit), NEW old \in Seq(Frame), Sound(s, old),
         NEW n \in 0 .. Len(s),
         NEW t \in Seq(Unit), Len(t) < Units, Begins(t)
  PROVE  Sound(SubSeq(s, 1, n) \o t, old)
<1> DEFINE kept == SubSeq(s, 1, n)
           m == Len(old)
<1>1. /\ n \in Nat /\ m \in Nat /\ Units \in Nat /\ Units >= 2
      /\ Len(t) \in Nat /\ Len(s) \in Nat /\ n <= Len(s)
  BY ListenerAssumption, LenProperties
<1>2. kept \in Seq(Unit) /\ Len(kept) = n /\ Alike(kept, s, n)
  BY AlikeFront
<1> HIDE DEF kept
<1>3. /\ kept \o t \in Seq(Unit) /\ Len(kept \o t) = n + Len(t)
      /\ Alike(kept, kept \o t, n)
  <2>1. 0 \in 0 .. Len(kept)
    BY <1>1, <1>2
  <2> QED BY <1>2, <2>1, AlikeFront
<1>4. Holds(s, m) => Says(s, old) /\ ~Holds(s, m + 1)
  BY DEF Sound
(* The frames that it begins with are beginnings of s.                      *)
<1>5. ASSUME NEW j \in Nat, Holds(kept \o t, j)
      PROVE  j * Units <= n
  <2>1. CASE j = 0
    BY <1>1, <2>1
  <2>2. CASE j # 0
    <3>1. PICK k \in Nat : j = k + 1
      <4>1. j - 1 \in Nat /\ j = (j - 1) + 1
        BY <2>2
      <4> QED BY <4>1
    <3>2. PICK p \in Nat : p = k * Units /\ j * Units = p + Units
      BY <3>1, Multiples
    <3>3. ASSUME p + Units > n PROVE FALSE
      <4>1. p + Units <= n + Len(t)
        BY <1>3, <1>5, <3>2 DEF Holds
      <4>2. p < n /\ n < p + Units /\ Len(t) # 0
        BY <1>1, <3>3, <4>1
      <4>3. t # <<>>
        BY <4>2, EmptySeq
      <4>4. Holds(kept \o t, k + 1)
        BY <1>5, <3>1
      <4>5. k * Units < Len(kept) /\ Len(kept) < k * Units + Units
        BY <1>2, <3>2, <4>2
      <4> QED BY <1>2, <4>3, <4>4, <4>5, CompletesNone
    <3>4. PICK x \in Nat : x = Units
      BY <1>1
    <3>5. p + x <= n
      BY <1>1, <3>3, <3>4
    <3> QED BY <3>2, <3>4, <3>5
  <2> QED BY <2>1, <2>2
<1>6. ASSUME NEW j \in Nat, Holds(kept \o t, j)
      PROVE  /\ Holds(s, j)
             /\ \A k \in 0 .. j - 1 :
                  (kept \o t)[k * Units + 1] = s[k * Units + 1]
  <2>1. j * Units <= n
    BY <1>5, <1>6
  <2>2. /\ Holds(kept, j)
        /\ \A k \in 0 .. j - 1 :
             kept[k * Units + 1] = (kept \o t)[k * Units + 1]
    BY <1>1, <1>2, <1>3, <1>6, <2>1, HoldsAlike
  <2>3. Alike(s, kept, n)
    BY <1>2 DEF Alike
  <2>4. /\ Holds(s, j)
        /\ \A k \in 0 .. j - 1 : s[k * Units + 1] = kept[k * Units + 1]
    <3>1. n \in Nat /\ kept \in Seq(Unit)
      BY <1>1, <1>2
    <3>2. Holds(kept, j)
      BY <2>2
    <3> QED BY <2>1, <2>3, <3>1, <3>2, HoldsAlike
  <2> QED BY <2>2, <2>4
<1>7. ASSUME Holds(kept \o t, m)
      PROVE  Says(kept \o t, old) /\ ~Holds(kept \o t, m + 1)
  <2>1. Says(s, old) /\ ~Holds(s, m + 1)
    BY <1>1, <1>4, <1>6, <1>7
  <2>2. \A k \in 0 .. m - 1 : (kept \o t)[k * Units + 1] = s[k * Units + 1]
    BY <1>1, <1>6, <1>7
  <2>3. m + 1 \in Nat
    BY <1>1
  <2>4. ~Holds(kept \o t, m + 1)
    BY <1>6, <2>1, <2>3
  <2> QED BY <2>1, <2>2, <2>4 DEF Says
<1> QED BY <1>7 DEF Sound, kept

(* append_frame of some frames leaves the recording sound, whatever fails.  *)
LEMMA AppendKeepsSound ==
  ASSUME out \in Seq(Unit), counted \in Seq(Frame), Sound(out, counted),
         NEW frames \in Seq(Frame), AppendFrames(frames)
  PROVE  /\ out' \in Seq(Unit) /\ counted' \in Seq(Frame)
         /\ Sound(out', counted')
<1>1. ASSUME NEW fs \in Seq(Frame)
      PROVE  /\ out \o Bytes(fs) \in Seq(Unit)
             /\ counted \o fs \in Seq(Frame)
             /\ Sound(out \o Bytes(fs), counted \o fs)
  BY BytesAre, ConcatProperties, SoundAppends
<1>2. ASSUME NEW k \in DOMAIN frames, FailedAt(k, frames)
      PROVE  /\ out' \in Seq(Unit) /\ counted' \in Seq(Frame)
             /\ Sound(out', counted')
  <2> DEFINE before == SubSeq(frames, 1, k - 1)
             after == SubSeq(frames, k + 1, Len(frames))
             one == Bytes(<<frames[k]>>)
             all == out \o Bytes(before)
  <2>1. k \in 1 .. Len(frames) /\ Len(frames) \in Nat
    BY LenProperties
  <2>2. before \in Seq(Frame) /\ after \in Seq(Frame)
    <3>1. k - 1 \in 0 .. Len(frames) /\ k \in 0 .. Len(frames)
      BY <2>1
    <3> QED BY <3>1, SplitIn
  <2>3. /\ one \in Seq(Unit) /\ Len(one) = Units
        /\ \A u \in 0 .. Len(one) : Begins(SubSeq(one, 1, u))
    <3>1. <<frames[k]>> \in Seq(Frame) /\ Len(<<frames[k]>>) = 1
      BY <2>1, ElementOfSeq
    <3>2. 1 * Units = Units
      BY ListenerAssumption
    <3> QED BY <3>1, <3>2, BytesAre, BytesBegin
  <2>4. /\ all \in Seq(Unit) /\ counted \o before \in Seq(Frame)
        /\ Sound(all, counted \o before)
    BY <1>1, <2>2
  <2>5. PICK kept \in Prefixes(all), u \in 0 .. Units - 1 :
          out' = (kept \o SubSeq(one, 1, u)) \o Bytes(after)
    BY <1>2 DEF FailedAt
  <2>6. counted' = (counted \o before) \o after
    <3>1. counted' = counted \o (before \o after)
      BY <1>2 DEF FailedAt, RemoveAt
    <3> HIDE DEF before, after, one, all
    <3>2. counted \in Seq(Frame)
      OBVIOUS
    <3>3. (counted \o before) \o after = counted \o (before \o after)
      BY <2>2, <3>2, ConcatAssociative, SMTT(30)
    <3> QED BY <3>1, <3>3
  <2> HIDE DEF before, after, one, all
  <2>7. PICK n \in 0 .. Len(all) : kept = SubSeq(all, 1, n)
    BY <2>5 DEF Prefixes
  <2>8. /\ SubSeq(one, 1, u) \in Seq(Unit) /\ Len(SubSeq(one, 1, u)) < Units
        /\ Begins(SubSeq(one, 1, u))
    <3>1. u \in 0 .. Len(one) /\ u < Units
      BY <2>3, ListenerAssumption
    <3> QED BY <2>3, <3>1, AlikeFront
  <2>9. /\ kept \in Seq(Unit)
        /\ kept \o SubSeq(one, 1, u) \in Seq(Unit)
        /\ Sound(kept \o SubSeq(one, 1, u), counted \o before)
    <3>1. kept \in Seq(Unit)
      BY <2>4, <2>7, SplitIn
    <3>2. kept \o SubSeq(one, 1, u) \in Seq(Unit)
      BY <2>8, <3>1, ConcatProperties
    <3> QED BY <2>4, <2>7, <2>8, <3>1, <3>2, SoundCut
  <2>10. /\ (kept \o SubSeq(one, 1, u)) \o Bytes(after) \in Seq(Unit)
         /\ (counted \o before) \o after \in Seq(Frame)
    BY <2>2, <2>4, <2>9, BytesAre, ConcatProperties
  <2>11. Sound((kept \o SubSeq(one, 1, u)) \o Bytes(after),
               (counted \o before) \o after)
    BY <2>2, <2>4, <2>9, SoundAppends
  <2> QED BY <2>5, <2>6, <2>10, <2>11
<1> QED BY <1>1, <1>2 DEF AppendFrames

(* The bytes of frames begin with them.                                     *)
LEMMA BytesHold ==
  ASSUME NEW frames \in Seq(Frame)
  PROVE  /\ Holds(Bytes(frames), Len(frames))
         /\ Says(Bytes(frames), frames)
<1>1. /\ Units \in Nat /\ Units >= 2 /\ Len(frames) \in Nat
      /\ 1 \in 1 .. Units /\ 1 - 1 = 0
  BY ListenerAssumption, LenProperties
<1>2. /\ Len(Bytes(frames)) = Len(frames) * Units
      /\ \A k \in 0 .. Len(frames) - 1, u \in 1 .. Units :
           Bytes(frames)[k * Units + u]
             = <<frames[k + 1][1], frames[k + 1][2], u - 1>>
  BY BytesAre
<1>3. ASSUME NEW k \in 0 .. Len(frames) - 1
      PROVE  /\ Bytes(frames)[k * Units + 1]
                  = <<frames[k + 1][1], frames[k + 1][2], 0>>
             /\ FrameIn(Bytes(frames), k * Units)
  BY <1>1, <1>2 DEF FrameIn
<1>4. Len(frames) * Units <= Len(Bytes(frames))
  <2>1. Len(frames) * Units \in Nat
    BY <1>1, Multiples
  <2> QED BY <1>2, <2>1
<1> QED BY <1>3, <1>4 DEF Holds, Says

(* The smaller of two numbers, and as many frames as units suffice for.     *)
LEMMA MinIs ==
  ASSUME NEW a \in Nat, NEW b \in Nat, a <= b
  PROVE  Min({a, b}) = a
<1>1. a \in {a, b} /\ \A y \in {a, b} : a <= y
  OBVIOUS
<1>2. Min({a, b}) \in {a, b} /\ \A y \in {a, b} : Min({a, b}) <= y
  BY <1>1 DEF Min
<1> QED BY <1>1, <1>2

LEMMA FramesFit ==
  ASSUME NEW n \in Nat, NEW len \in Nat, n * Units <= len
  PROVE  len \div Units \in Nat /\ n <= len \div Units
<1>1. Units \in Nat \ {0}
  BY ListenerAssumption
<1>2. PICK q \in Nat, r \in 0 .. Units - 1 :
        q = len \div Units /\ len = q * Units + r
  BY <1>1, DivMod
<1>3. ASSUME q < n PROVE FALSE
  <2>1. q \in 0 .. n - 1
    BY <1>3
  <2>2. PICK a \in Nat, b \in Nat : a = q * Units /\ b = n * Units
                                   /\ a + Units <= b
    <3>1. q * Units \in Nat /\ n * Units \in Nat
      BY Multiples
    <3> QED BY <2>1, <3>1, Multiples
  <2>3. len = a + r /\ b <= len
    BY <1>2, <2>2
  <2> QED BY <1>1, <2>2, <2>3
<1> QED BY <1>2, <1>3

(* What inspect looks at, and when it accepts.                              *)
LEMMA AcceptedIs ==
  ASSUME file.units \in Seq(Unit), file.header \in Nat
  PROVE  /\ Accepted <=> Holds(file.units, file.header)
         /\ Accepted =>
              FramesRead = [n \in 1 .. file.header |->
                              SubSeq(file.units[(n - 1) * Units + 1], 1, 2)]
<1> DEFINE s == file.units
           h == file.header
<1>1. /\ Units \in Nat \ {0} /\ Units >= 2 /\ h \in Nat /\ s \in Seq(Unit)
      /\ Len(s) \in Nat /\ h * Units \in Nat
  BY ListenerAssumption, LenProperties, Multiples
<1>2. ASSUME NEW n \in 1 .. h, h * Units <= Len(s)
      PROVE  /\ \A u \in 1 .. Units : FrameAt(n)[u] = s[(n - 1) * Units + u]
             /\ Verified(FrameAt(n)) <=> FrameIn(s, (n - 1) * Units)
  <2>1. PICK p \in Nat : p = (n - 1) * Units /\ p + Units <= h * Units
                         /\ n * Units = p + Units
    <3>1. n - 1 \in 0 .. h - 1 /\ n - 1 \in Nat /\ (n - 1) + 1 = n
      BY <1>1
    <3> QED BY <1>1, <3>1, Multiples
  <2>2. FrameAt(n) = SubSeq(s, p + 1, p + Units)
    BY <2>1 DEF FrameAt
  <2>3. \A u \in 1 .. Units : FrameAt(n)[u] = s[p + u]
    <3>1. p + 1 \in 1 .. Len(s) + 1 /\ p + Units \in (p + 1) - 1 .. Len(s)
          /\ (p + Units) - (p + 1) + 1 = Units
      <4>1. p + Units <= Len(s)
        BY <1>1, <1>2, <2>1
      <4> QED BY <1>1, <4>1
    <3>2. \A u \in 1 .. Units :
            SubSeq(s, p + 1, p + Units)[u] = s[(p + 1) + u - 1]
      BY <1>1, <3>1, SubSeqElements
    <3>3. \A u \in 1 .. Units : (p + 1) + u - 1 = p + u
      BY <1>1
    <3> QED BY <2>2, <3>2, <3>3
  <2>4. 1 \in 1 .. Units
    BY <1>1
  <2> QED BY <2>1, <2>3, <2>4 DEF Verified, FrameIn
<1>3. Short <=> ~(h * Units <= Len(s))
  BY <1>1 DEF Short
<1>4. h # NoHeader
  BY <1>1 DEF NoHeader
<1>5. ASSUME h * Units <= Len(s)
      PROVE  (\A n \in 1 .. h : Verified(FrameAt(n)))
               <=> (\A k \in 0 .. h - 1 : FrameIn(s, k * Units))
  <2>1. ASSUME \A n \in 1 .. h : Verified(FrameAt(n)), NEW k \in 0 .. h - 1
        PROVE  FrameIn(s, k * Units)
    <3>1. k + 1 \in 1 .. h /\ (k + 1) - 1 = k
      BY <1>1
    <3> QED BY <1>2, <1>5, <2>1, <3>1
  <2>2. ASSUME \A k \in 0 .. h - 1 : FrameIn(s, k * Units), NEW n \in 1 .. h
        PROVE  Verified(FrameAt(n))
    <3>1. n - 1 \in 0 .. h - 1
      BY <1>1
    <3> QED BY <1>2, <1>5, <2>2, <3>1
  <2> QED BY <2>1, <2>2
<1>6. Accepted <=> Holds(s, h)
  BY <1>3, <1>4, <1>5 DEF Accepted, Holds
<1>7. ASSUME Accepted
      PROVE  FramesRead = [n \in 1 .. h |-> SubSeq(s[(n - 1) * Units + 1], 1, 2)]
  <2>1. h * Units <= Len(s)
    BY <1>3, <1>7 DEF Accepted
  <2>2. PICK q \in Nat : q = Len(s) \div Units /\ h <= q
    BY <1>1, <2>1, FramesFit
  <2>3. Min({h, q}) = h
    <3> HIDE DEF h
    <3> QED BY <1>1, <2>2, MinIs
  <2>4. FramesRead = [n \in 1 .. h |-> SubSeq(FrameAt(n)[1], 1, 2)]
    BY <2>2, <2>3 DEF FramesRead
  <2>5. \A n \in 1 .. h : FrameAt(n)[1] = s[(n - 1) * Units + 1]
    <3>1. 1 \in 1 .. Units
      BY <1>1
    <3> QED BY <1>2, <2>1, <3>1
  <2> QED BY <2>4, <2>5
<1> QED BY <1>6, <1>7

(* A file that says the frames counted is read as these.                    *)
LEMMA ReadIs ==
  ASSUME file.units \in Seq(Unit), NEW frames \in Seq(Frame),
         file.header = Len(frames), Accepted, Says(file.units, frames)
  PROVE  FramesRead = frames
<1>1. Len(frames) \in Nat /\ \A n \in 1 .. Len(frames) : frames[n] \in Frame
  BY LenProperties, ElementOfSeq
<1>2. FramesRead = [n \in 1 .. Len(frames) |->
                      SubSeq(file.units[(n - 1) * Units + 1], 1, 2)]
  BY <1>1, AcceptedIs
<1>3. ASSUME NEW n \in 1 .. Len(frames)
      PROVE  SubSeq(file.units[(n - 1) * Units + 1], 1, 2) = frames[n]
  <2>1. n - 1 \in 0 .. Len(frames) - 1 /\ (n - 1) + 1 = n
    BY <1>1
  <2>2. file.units[(n - 1) * Units + 1] = <<frames[n][1], frames[n][2], 0>>
    BY <2>1 DEF Says
  <2>3. PICK a \in Clients, b \in Nat : frames[n] = <<a, b>>
    <3>1. frames[n] \in Clients \X Nat
      BY <1>1 DEF Frame
    <3> QED BY <3>1
  <2>4. SubSeq(<<a, b, 0>>, 1, 2) = <<a, b>>
    BY <2>3, FrameOfUnit
  <2> QED BY <2>2, <2>3, <2>4
<1>4. frames = [n \in 1 .. Len(frames) |-> frames[n]]
  BY <1>1
<1> QED BY <1>2, <1>3, <1>4

(* The bytes of frames put behind others.                                   *)
LEMMA BytesConcat ==
  ASSUME NEW old \in Seq(Frame), NEW frames \in Seq(Frame)
  PROVE  Bytes(old \o frames) = Bytes(old) \o Bytes(frames)
<1> DEFINE s == Bytes(old)
           t == Bytes(frames)
           u == Bytes(old \o frames)
           n == Len(old)
           m == Len(frames)
<1>1. /\ n \in Nat /\ m \in Nat /\ Units \in Nat \ {0}
  BY ListenerAssumption, LenProperties
<1>2. /\ old \o frames \in Seq(Frame) /\ Len(old \o frames) = n + m
      /\ \A k \in 1 .. n : (old \o frames)[k] = old[k]
      /\ \A k \in 1 .. m : (old \o frames)[n + k] = frames[k]
  BY ConcatElements
<1>3. /\ s \in Seq(Unit) /\ Len(s) = n * Units
      /\ \A k \in 0 .. n - 1, v \in 1 .. Units :
           s[k * Units + v] = <<old[k + 1][1], old[k + 1][2], v - 1>>
  BY BytesAre
<1>4. /\ t \in Seq(Unit) /\ Len(t) = m * Units
      /\ \A k \in 0 .. m - 1, v \in 1 .. Units :
           t[k * Units + v] = <<frames[k + 1][1], frames[k + 1][2], v - 1>>
  BY BytesAre
<1> DEFINE all == old \o frames
<1>5. /\ u \in Seq(Unit) /\ Len(u) = Len(all) * Units
      /\ \A k \in 0 .. Len(all) - 1, v \in 1 .. Units :
           u[k * Units + v] = <<all[k + 1][1], all[k + 1][2], v - 1>>
  BY <1>2, BytesAre
<1> HIDE DEF s, t, u, all
<1>6. /\ s \o t \in Seq(Unit) /\ Len(s \o t) = Len(s) + Len(t)
      /\ \A k \in 1 .. Len(s) : (s \o t)[k] = s[k]
      /\ \A k \in 1 .. Len(t) : (s \o t)[Len(s) + k] = t[k]
  <2>1. s \in Seq(Unit) /\ t \in Seq(Unit)
    BY <1>3, <1>4
  <2> QED BY <2>1, ConcatElements
<1>7. /\ Len(all) = n + m
      /\ \A k \in 1 .. n : all[k] = old[k]
      /\ \A k \in 1 .. m : all[n + k] = frames[k]
  BY <1>2 DEF all
<1> HIDE DEF n, m
<1>8. PICK a \in Nat, b \in Nat :
        a = n * Units /\ b = m * Units /\ (n + m) * Units = a + b
  <2>1. n * Units \in Nat /\ m * Units \in Nat
        /\ (n + m) * Units = n * Units + m * Units
    BY <1>1
  <2> QED BY <2>1
<1>9. Len(s) = a /\ Len(t) = b /\ Len(u) = a + b /\ Len(s \o t) = a + b
  <2>1. Len(u) = (n + m) * Units
    BY <1>5, <1>7
  <2> QED BY <1>3, <1>4, <1>6, <1>8, <2>1
<1>10. ASSUME NEW j \in 1 .. a + b PROVE u[j] = (s \o t)[j]
  <2>1. PICK k \in Nat, v \in 1 .. Units : j = k * Units + v
    <3>1. j - 1 \in Nat
      OBVIOUS
    <3>2. PICK q \in Nat, r \in 0 .. Units - 1 : j - 1 = q * Units + r
      <4>1. PICK l \in Nat : l = j - 1
        BY <3>1
      <4>2. /\ l \div Units \in Nat /\ l % Units \in 0 .. Units - 1
            /\ l = (l \div Units) * Units + (l % Units)
        BY <1>1, DivMod
      <4> QED BY <4>1, <4>2
    <3>3. r + 1 \in 1 .. Units /\ j = q * Units + (r + 1)
      <4>1. q * Units \in Nat
        BY <1>1
      <4> QED BY <1>1, <3>2, <4>1
    <3> QED BY <3>2, <3>3
  <2>2. PICK p \in Nat : p = k * Units /\ j = p + v
    <3>1. k * Units \in Nat
      BY <1>1
    <3> QED BY <2>1, <3>1
  <2>3. CASE k < n
    <3>1. k \in 0 .. n - 1 /\ k + 1 \in 1 .. n /\ k \in 0 .. (n + m) - 1
      BY <1>1, <2>3
    <3>2. p + Units <= a
      BY <1>1, <1>8, <2>2, <3>1, Multiples
    <3>3. p + v \in 1 .. Len(s)
      BY <1>1, <1>9, <3>2
    <3>4. u[p + v] = <<all[k + 1][1], all[k + 1][2], v - 1>>
      BY <1>5, <1>7, <2>2, <3>1
    <3>5. s[p + v] = <<old[k + 1][1], old[k + 1][2], v - 1>>
      BY <1>3, <2>2, <3>1
    <3> QED BY <1>6, <1>7, <2>2, <3>1, <3>3, <3>4, <3>5
  <2>4. CASE k >= n /\ k < n + m
    <3>1. PICK i0 \in 0 .. m - 1 : k = n + i0
      <4>1. k - n \in 0 .. m - 1 /\ k = n + (k - n)
        BY <1>1, <2>4
      <4> QED BY <4>1
    <3>2. PICK p0 \in Nat : p0 = i0 * Units /\ p0 + Units <= b
      BY <1>1, <1>8, <3>1, Multiples
    <3>3. p = a + p0
      <4>1. k * Units = n * Units + i0 * Units
        BY <1>1, <3>1
      <4> QED BY <1>8, <2>2, <3>2, <4>1
    <3>4. p0 + v \in 1 .. Len(t) /\ j = a + (p0 + v)
      <4>1. p0 + Units <= b /\ Len(t) = b /\ j = (a + p0) + v
        BY <1>9, <2>2, <3>2, <3>3
      <4> QED BY <1>1, <4>1
    <3>5. (s \o t)[j] = t[p0 + v]
      BY <1>6, <1>9, <3>4
    <3>6. t[p0 + v] = <<frames[i0 + 1][1], frames[i0 + 1][2], v - 1>>
      BY <1>4, <3>2
    <3>7. u[j] = <<all[k + 1][1], all[k + 1][2], v - 1>>
      <4>1. k \in 0 .. Len(all) - 1
        <5>1. Len(all) = n + m
          BY <1>7
        <5> QED BY <1>1, <2>4, <5>1
      <4> QED BY <1>5, <2>1, <4>1
    <3>8. all[k + 1] = frames[i0 + 1]
      <4>1. i0 + 1 \in 1 .. m /\ k + 1 = n + (i0 + 1)
        BY <1>1, <3>1
      <4> QED BY <1>7, <4>1
    <3> QED BY <3>5, <3>6, <3>7, <3>8
  <2>5. k < n + m
    <3>1. ASSUME k >= n + m PROVE FALSE
      <4>1. PICK d \in Nat : k = n + m + d
        <5>1. k - (n + m) \in Nat /\ k = n + m + (k - (n + m))
          BY <1>1, <3>1
        <5> QED BY <5>1
      <4>2. k * Units = (n + m) * Units + d * Units /\ d * Units \in Nat
        BY <1>1, <4>1
      <4>3. PICK x, y \in Nat : y = a + b /\ p = y + x
        <5>1. PICK x \in Nat : x = d * Units
          BY <4>2
        <5>2. p = (a + b) + x
          BY <1>8, <2>2, <4>2, <5>1
        <5>3. a + b \in Nat
          OBVIOUS
        <5> QED BY <5>2, <5>3
      <4>4. p < a + b
        BY <2>2
      <4> QED BY <4>3, <4>4
    <3> QED BY <1>1, <3>1
  <2>6. k < n \/ k >= n
    BY <1>1
  <2> QED BY <2>3, <2>4, <2>5, <2>6
<1>11. u = s \o t
  BY <1>5, <1>6, <1>9, <1>10, SeqEqual
<1> QED BY <1>11 DEF s, t, u

(* What capture wrote, and its file once it is gone.                        *)
Recorded ==
  /\ out \in Seq(Unit) /\ counted \in Seq(Frame) /\ faults \in Nat
  /\ Sound(out, counted)
  /\ program = "capture" /\ faults = 0 => counted = got /\ out = Bytes(counted)
  /\ captureExit # "running" =>
       /\ program = "capture"
       /\ \/ file.header \in {NoHeader, 0}
          \/ file = [header |-> Len(counted), units |-> out]
  /\ captureExit = "ok" /\ faults = 0 =>
       file = [header |-> Len(counted), units |-> out]

LEMMA RecordedInit ==
  ASSUME Init
  PROVE  Recorded
<1>1. /\ out = <<>> /\ counted = <<>> /\ got = <<>> /\ faults = 0
      /\ captureExit = "running"
  BY DEF Init, CaptureInit, ListenerInit
<1>2. /\ <<>> \in Seq(Unit) /\ <<>> \in Seq(Frame) /\ Len(<<>>) = 0
  BY EmptySeq
<1>3. Bytes(<<>>) = <<>>
  <2>1. Bytes(<<>>) \in Seq(Unit) /\ Len(Bytes(<<>>)) = 0 * Units
    BY <1>2, BytesAre
  <2>2. 0 * Units = 0
    BY ListenerAssumption
  <2> QED BY <2>1, <2>2, EmptySeq
<1>4. Sound(<<>>, <<>>)
  <2>1. Says(<<>>, <<>>)
    BY <1>2 DEF Says
  <2>2. ~((0 + 1) * Units <= 0)
    BY ListenerAssumption
  <2> QED BY <1>2, <2>1, <2>2 DEF Sound, Holds
<1> QED BY <1>1, <1>2, <1>3, <1>4 DEF Recorded

(* append_frame of the frames that came in.                                 *)
LEMMA AppendRecords ==
  ASSUME Typed, Recorded, NEW frames \in Seq(Frame), AppendFrames(frames),
         Running, UNCHANGED <<program, captureExit, file>>
  PROVE  Recorded'
<1>1. /\ out \in Seq(Unit) /\ counted \in Seq(Frame) /\ faults \in Nat
      /\ Sound(out, counted)
      /\ program = "capture" /\ faults = 0
           => counted = got /\ out = Bytes(counted)
  BY DEF Recorded
<1>2. /\ out' \in Seq(Unit) /\ counted' \in Seq(Frame)
      /\ Sound(out', counted')
  BY <1>1, AppendKeepsSound
<1>3. /\ faults' \in Nat
      /\ program' = "capture" /\ faults' = 0
           => counted' = got' /\ out' = Bytes(counted')
  <2>1. CASE \E k \in DOMAIN frames : FailedAt(k, frames)
    <3>1. faults' = faults + 1
      BY <2>1 DEF FailedAt
    <3> QED BY <1>1, <3>1
  <2>2. CASE /\ out' = out \o Bytes(frames)
             /\ counted' = counted \o frames
             /\ UNCHANGED faults
    <3>1. got' = got \o frames
      BY DEF AppendFrames
    <3>2. Bytes(counted \o frames) = Bytes(counted) \o Bytes(frames)
      BY <1>1, BytesConcat
    <3> QED BY <1>1, <2>2, <3>1, <3>2
  <2> QED BY <2>1, <2>2 DEF AppendFrames
<1>4. captureExit' = "running"
  BY DEF Running
<1> QED BY <1>2, <1>3, <1>4 DEF Recorded

LEMMA RecordedStep ==
  ASSUME Typed, Recorded, Next
  PROVE  Recorded'
<1> USE DEF kernel, results, replayVars, captureVars, receiverVars, writing
<1>1. CASE UNCHANGED <<program, out, counted, faults, got, captureExit, file>>
  BY <1>1 DEF Recorded
<1>2. CASE ReplayStep
  BY <1>1, <1>2 DEF ReplayStep, ReplayNext, ReplayRefused, ReplayStart,
     SkipBad, SendSome, SendBroken, SendDatagram, ReplayEnd
<1>3. CASE EdgeStep
  BY <1>1, <1>3 DEF EdgeStep, EdgeNext, EdgeConnects, EdgeSends, EdgeEnds
<1>4. CASE Captures(CaptureNext)
  <2>1. program = "capture" /\ UNCHANGED program
    BY <1>4 DEF Captures
  <2>2. CASE \/ \E c \in Clients : CaptureAccepts(c)
             \/ CaptureLosesClient
    BY <1>1, <2>1, <2>2 DEF CaptureAccepts, CaptureLosesClient
  <2>3. CASE CaptureReceives
    <3>1. client \in Clients
      BY <2>3 DEF CaptureReceives, Typed
    <3>2. PICK n \in 1 .. Len(sock[client]) :
            AppendFrames(Decoded(stream, Received(client, n)).frames)
      BY <2>3 DEF CaptureReceives
    <3>3. Decoded(stream, Received(client, n)) \in Accs
      BY <3>1, ReceivedType, DecodedType DEF Typed
    <3>4. Decoded(stream, Received(client, n)).frames \in Seq(Frame)
      BY <3>3 DEF Accs
    <3> QED BY <2>1, <2>3, <3>2, <3>4, AppendRecords DEF CaptureReceives
  <2>4. CASE CaptureReceivesDatagram
    <3>1. PICK frames : frames = IF Head(dgrams) = <<"garbled">> THEN <<>>
                                                      ELSE <<Head(dgrams)>>
      OBVIOUS
    <3>2. frames \in Seq(Frame)
      BY <2>4, <3>1, DatagramType, EmptySeq DEF CaptureReceivesDatagram
    <3>3. AppendFrames(frames)
      BY <2>4, <3>1 DEF CaptureReceivesDatagram
    <3> QED BY <2>1, <2>4, <3>2, <3>3, AppendRecords DEF CaptureReceivesDatagram
  <2>5. CASE CaptureEnds \/ CaptureKilled
    <3>1. UNCHANGED <<out, counted, got>>
      BY <2>5 DEF CaptureEnds, CaptureKilled, Gone
    <3>2. faults' \in Nat /\ (faults' = 0 => faults = 0)
      BY <2>5 DEF CaptureEnds, CaptureKilled, Recorded
    <3>3. \/ file'.header \in {NoHeader, 0}
          \/ file' = [header |-> Len(counted), units |-> out]
      BY <2>5 DEF CaptureEnds, CaptureKilled, Recording
    <3>4. captureExit' = "ok" /\ faults' = 0 =>
            file' = [header |-> Len(counted), units |-> out]
      BY <2>5 DEF CaptureEnds, CaptureKilled, Recording, Recorded
    <3> QED BY <2>1, <3>1, <3>2, <3>3, <3>4 DEF Recorded
  <2> QED BY <1>4, <2>2, <2>3, <2>4, <2>5 DEF Captures, CaptureNext
<1>5. CASE Receives(ReceiverNext)
  <2>1. program = "operator" /\ UNCHANGED <<program, captureVars>>
    BY <1>5 DEF Receives
  <2> QED BY <2>1 DEF Recorded
<1> QED BY <1>2, <1>3, <1>4, <1>5 DEF Next

(***************************************************************************)
(* What replay sent                                                        *)
(***************************************************************************)

(* Unless its connection is cut, replay sent whole what it says it sent.    *)
Replayed ==
  /\ source.count \in Nat /\ fail \in Nat /\ i <= source.count + 1
  /\ link["replay"] = "eof" => ended["replay"] = "closed"
  /\ transport = "tcp" /\ link["replay"] # "cut" /\ fail = 0 =>
       whole["replay"] = [n \in 1 .. i - 1 |-> <<"replay", n>>]
  /\ replayExit = "ok" =>
       replayPc = "ended" /\ fail = 0 /\ i = source.count + 1

(* A connection that is cut stays so, and one at its end was closed.        *)
LEMMA LinkEnds ==
  ASSUME Typed, QueueInv, ClientInv,
         Captures(CaptureNext) \/ Receives(ReceiverNext), NEW c \in Clients
  PROVE  /\ link'[c] # "cut" => link[c] # "cut"
         /\ link'[c] = "eof" => link[c] = "eof" \/ ended[c] = "closed"
<1> USE DEF Typed, kernel, results, captureVars, receiverVars
<1>1. CASE UNCHANGED link
  BY <1>1
<1>2. CASE Gone
  BY <1>2 DEF Gone
<1>3. CASE Captures(CaptureNext)
  <2>1. ASSUME NEW d \in Clients, CaptureAccepts(d)
        PROVE  /\ link'[c] # "cut" => link[c] # "cut"
               /\ link'[c] = "eof" => link[c] = "eof"
    <3>1. link[d] = "backlog"
      BY <2>1, AcceptedWaited DEF CaptureAccepts
    <3>2. CASE client = "none"
      BY <2>1, <3>1, <3>2 DEF CaptureAccepts, Replace
    <3>3. CASE client # "none"
      BY <2>1, <3>1, <3>3 DEF CaptureAccepts, Replace
    <3> QED BY <3>2, <3>3
  <2>2. CASE CaptureLosesClient
    BY <2>2 DEF CaptureLosesClient, AtEnd, Broken, Closed
  <2>3. CASE CaptureReceives \/ CaptureReceivesDatagram
    BY <1>1, <2>3 DEF CaptureReceives, Take, CaptureReceivesDatagram
  <2>4. CASE CaptureEnds \/ CaptureKilled
    BY <1>2, <2>4 DEF CaptureEnds, CaptureKilled
  <2> QED BY <1>3, <2>1, <2>2, <2>3, <2>4 DEF Captures, CaptureNext
<1>4. CASE Receives(ReceiverNext)
  <2>1. ASSUME NEW d \in Clients, ReceiverAccepts(d)
        PROVE  /\ link'[c] # "cut" => link[c] # "cut"
               /\ link'[c] = "eof" => link[c] = "eof"
    <3>1. link[d] = "backlog"
      BY <2>1, AcceptedWaited DEF ReceiverAccepts
    <3> QED BY <2>1, <3>1 DEF ReceiverAccepts
  <2>2. ASSUME NEW d \in Clients, ReadTcp(d) \/ ReadTcpThrows(d)
        PROVE  UNCHANGED link
    BY <2>2 DEF ReadTcp, Take, ReadTcpThrows
  <2>3. ASSUME NEW d \in Clients, ReadTcpEnd(d)
        PROVE  /\ link'[c] # "cut" => link[c] # "cut"
               /\ link'[c] = "eof" => link[c] = "eof" \/ ended[c] = "closed"
    BY <2>3 DEF ReadTcpEnd, AtEnd, Closed
  <2>4. CASE ReadUdp
    BY <1>1, <2>4 DEF ReadUdp
  <2>5. CASE OperatorExits
    BY <1>2, <2>5 DEF OperatorExits
  <2> QED BY <1>1, <1>4, <2>1, <2>2, <2>3, <2>4, <2>5
          DEF Receives, ReceiverNext
<1> QED BY <1>3, <1>4

LEMMA ReplayedInit ==
  ASSUME Init
  PROVE  Replayed
<1>1. /\ source \in Sources /\ i = 1 /\ fail = 0 /\ replayExit = "none"
      /\ link["replay"] = "idle" /\ whole["replay"] = <<>>
  BY DEF Init, ReplayInit, ListenerInit, Clients
<1>2. source.count \in Nat
  <2>1. PICK n \in 0 .. MaxSource :
          source \in [count : {n, n + 1}, good : [1 .. n -> BOOLEAN]]
    BY <1>1 DEF Sources
  <2> QED BY <2>1, ReplayAssumption
<1>3. [n \in 1 .. 1 - 1 |-> <<"replay", n>>] = <<>>
  OBVIOUS
<1> QED BY <1>1, <1>2, <1>3 DEF Replayed

LEMMA ReplayedStep ==
  ASSUME Typed, QueueInv, ClientInv, ReplayInv, Replayed, Next
  PROVE  Replayed'
<1> USE DEF kernel, results, replayVars
<1>1. /\ "replay" \in Clients /\ "replay" \notin Edges /\ i \in Nat \ {0}
      /\ link \in [Clients -> Links] /\ whole \in [Clients -> Seq(Frame)]
      /\ ended \in [Clients -> {"no", "closed", "reset"}]
  BY ListenerAssumption DEF Clients, Typed
<1>5. ASSUME NEW ok \in BOOLEAN, Advance(ok), i <= source.count,
             UNCHANGED source
      PROVE  /\ i' = i + 1 /\ i' <= source'.count + 1
             /\ source'.count \in Nat /\ fail' \in Nat
             /\ fail' = 0 => ok /\ fail = 0
  <2>1. fail \in Nat /\ source.count \in Nat
    BY DEF Replayed
  <2> QED BY <1>1, <1>5, <2>1 DEF Advance
<1>2. CASE ReplayStep
  <2>1. CASE ReplayRefused
    BY <2>1 DEF ReplayRefused, Exit, Replayed
  <2>2. CASE ReplayStart
    <3>1. link["replay"] = "idle" => link'["replay"] # "eof"
      BY <1>1, <2>2 DEF ReplayStart, Connect
    <3>2. link'["replay"] # link["replay"] => link["replay"] = "idle"
      BY <1>1, <2>2 DEF ReplayStart, Connect
    <3>3. UNCHANGED <<source, transport, i, fail, replayExit, ended, whole>>
          /\ replayPc = "start"
      BY <2>2 DEF ReplayStart
    <3> QED BY <3>1, <3>2, <3>3 DEF Replayed
  <2>3. ASSUME InLoop, Advance(FALSE),
               UNCHANGED <<source, transport, replayPc, replayExit, kernel>>
        PROVE  Replayed'
    <3>1. i <= source.count /\ replayExit # "ok"
      BY <2>3 DEF InLoop, Replayed
    <3>2. /\ i' <= source'.count + 1 /\ source'.count \in Nat
          /\ fail' \in Nat /\ fail' # 0
      BY <1>5, <2>3, <3>1
    <3> QED BY <2>3, <3>1, <3>2 DEF Replayed
  <2>4. CASE SkipBad
    BY <2>3, <2>4 DEF SkipBad
  <2>5. CASE SendSome
    <3>1. /\ InLoop /\ UNCHANGED <<source, transport, replayPc, replayExit>>
          /\ UNCHANGED <<link, ended>> /\ replayPc = "sending"
      BY <2>5 DEF SendSome, Sending, InLoop
    <3>2. CASE UNCHANGED <<i, fail, whole>>
      BY <3>1, <3>2 DEF Replayed
    <3>3. CASE /\ Advance(TRUE)
               /\ whole' = [whole EXCEPT !["replay"] =
                              Append(@, <<"replay", i>>)]
      <4>1. i <= source.count /\ replayExit # "ok"
        BY <3>1 DEF InLoop, Replayed
      <4>4. /\ i' = i + 1 /\ i' <= source'.count + 1
            /\ source'.count \in Nat /\ fail' \in Nat
            /\ fail' = 0 => fail = 0
        BY <1>5, <3>1, <3>3, <4>1
      <4>2. whole'["replay"] = Append(whole["replay"], <<"replay", i>>)
        BY <1>1, <3>3
      <4>3. ASSUME whole["replay"] = [n \in 1 .. i - 1 |-> <<"replay", n>>]
            PROVE  whole'["replay"] = [n \in 1 .. i' - 1 |-> <<"replay", n>>]
        <5>1. PICK w \in Seq(Frame), n \in Nat :
                      w = whole["replay"] /\ n = i - 1
          BY <1>1
        <5>2. w = [k \in 1 .. n |-> <<"replay", k>>] /\ i = n + 1
              /\ i' - 1 = n + 1
          BY <1>1, <4>3, <4>4, <5>1
        <5>3. Append(w, <<"replay", n + 1>>)
                = [k \in 1 .. n + 1 |-> <<"replay", k>>]
          BY <5>2
        <5> QED BY <4>2, <5>1, <5>2, <5>3
      <4>5. link'["replay"] = link["replay"] /\ ended' = ended
        BY <3>1
      <4>6. fail' = 0 => fail = 0
        BY <4>4
      <4>7. transport' = "tcp" /\ link'["replay"] # "cut" /\ fail' = 0 =>
              whole'["replay"] = [n \in 1 .. i' - 1 |-> <<"replay", n>>]
        BY <3>1, <4>3, <4>6 DEF Replayed
      <4>8. link'["replay"] = "eof" => ended'["replay"] = "closed"
        BY <4>5 DEF Replayed
      <4>9. replayExit' # "ok"
        BY <3>1, <4>1
      <4> QED BY <4>4, <4>7, <4>8, <4>9 DEF Replayed
    <3> QED BY <2>5, <3>2, <3>3 DEF SendSome
  <2>6. CASE SendBroken
    <3>1. /\ Sending("tcp") /\ ~Connected("replay") /\ UNCHANGED kernel
          /\ UNCHANGED <<source, transport>>
      BY <2>6 DEF SendBroken
    <3>2. link["replay"] = "cut"
      BY <1>1, <3>1 DEF Sending, InLoop, Connected, ReplayInv, Replayed, Links
    <3>3. i <= source.count /\ replayPc = "sending"
      BY <3>1 DEF Sending, InLoop
    <3>4. \/ Advance(TRUE) /\ UNCHANGED replayExit
          \/ Advance(FALSE) /\ UNCHANGED replayExit
          \/ replayExit' = "killed" /\ UNCHANGED <<i, fail>>
      BY <2>6 DEF SendBroken, Exit
    <3>5. replayExit # "ok" /\ replayExit' # "ok"
      BY <3>3, <3>4 DEF Replayed
    <3>6. i' <= source.count + 1 /\ fail' \in Nat
      <4>1. CASE UNCHANGED <<i, fail>>
        BY <4>1 DEF Replayed
      <4> QED BY <1>5, <3>1, <3>3, <3>4, <4>1
    <3> QED BY <3>1, <3>2, <3>5, <3>6 DEF Replayed
  <2>7. CASE SendDatagram
    <3>1. /\ Sending("udp") /\ UNCHANGED <<source, transport, replayExit>>
          /\ UNCHANGED <<link, ended>>
          /\ Advance(TRUE) \/ Advance(FALSE)
      BY <2>7 DEF SendDatagram
    <3>2. transport = "udp" /\ i <= source.count /\ replayPc = "sending"
      BY <3>1 DEF Sending, InLoop
    <3>3. i' <= source.count + 1 /\ fail' \in Nat
      BY <1>5, <3>1, <3>2
    <3> QED BY <3>1, <3>2, <3>3 DEF Replayed
  <2>8. CASE ReplayEnd
    <3>1. /\ replayPc' = "ended"
          /\ replayExit' = "ok" => fail = 0
          /\ UNCHANGED <<source, transport, i, fail, link, whole>>
          /\ i > source.count /\ ended'["replay"] = "closed"
      BY <1>1, <2>8 DEF ReplayEnd, Exit
    <3>2. i = source.count + 1
      BY <1>1, <3>1 DEF Replayed
    <3> QED BY <3>1, <3>2 DEF Replayed
  <2> QED BY <1>2, <2>1, <2>2, <2>4, <2>5, <2>6, <2>7, <2>8
          DEF ReplayStep, ReplayNext
<1>3. CASE EdgeStep
  <2>1. PICK e \in Edges : EdgeConnects(e) \/ EdgeSends(e) \/ EdgeEnds(e)
    BY <1>3 DEF EdgeStep, EdgeNext
  <2>2. e # "replay"
    BY <1>1
  <2>3. UNCHANGED replayVars
    BY <1>3 DEF EdgeStep
  <2>4. /\ link'["replay"] = link["replay"] /\ ended'["replay"] = ended["replay"]
        /\ whole'["replay"] = whole["replay"]
    <3>1. CASE EdgeConnects(e)
      BY <1>1, <2>2, <3>1 DEF EdgeConnects, Connect
    <3>2. CASE EdgeSends(e)
      BY <1>1, <2>2, <3>2 DEF EdgeSends
    <3>3. CASE EdgeEnds(e)
      BY <1>1, <2>2, <3>3 DEF EdgeEnds
    <3> QED BY <2>1, <3>1, <3>2, <3>3
  <2> QED BY <2>3, <2>4 DEF Replayed
<1>4. CASE Captures(CaptureNext) \/ Receives(ReceiverNext)
  <2>1. UNCHANGED <<replayVars, ended, whole>>
    BY <1>4, ListenersStep
  <2>2. /\ link'["replay"] # "cut" => link["replay"] # "cut"
        /\ link'["replay"] = "eof"
             => link["replay"] = "eof" \/ ended["replay"] = "closed"
    BY <1>1, <1>4, LinkEnds
  <2> QED BY <2>1, <2>2 DEF Replayed
<1> QED BY <1>2, <1>3, <1>4 DEF Next

LEMMA RecordedIsCounted ==
  ASSUME Recorded
  PROVE  AcceptedIsCounted
<1> SUFFICES ASSUME captureExit # "running", Accepted, file.header # 0
             PROVE  FramesRead = counted
  BY DEF AcceptedIsCounted
<1>1. out \in Seq(Unit) /\ counted \in Seq(Frame) /\ Sound(out, counted)
  BY DEF Recorded
<1>2. file.header = Len(counted) /\ file.units = out
  BY DEF Recorded, Accepted
<1>3. Len(counted) \in Nat
  BY <1>1, LenProperties
<1>4. Holds(out, Len(counted))
  BY <1>1, <1>2, <1>3, AcceptedIs
<1>5. Says(out, counted)
  BY <1>1, <1>4 DEF Sound
<1> QED BY <1>1, <1>2, <1>5, ReadIs

LEMMA ReplayedIsRecorded ==
  ASSUME Inv, Recorded, Replayed
  PROVE  RecaptureExact
<1> SUFFICES ASSUME replayExit = "ok", captureExit = "ok", faults = 0,
                    transport = "tcp", link["replay"] = "eof"
             PROVE  /\ Accepted
                    /\ From("replay", FramesRead)
                         = [n \in 1 .. source.count |-> <<"replay", n>>]
  BY DEF RecaptureExact
<1>1. /\ counted \in Seq(Frame) /\ counted = got /\ out = Bytes(counted)
      /\ file.header = Len(counted) /\ file.units = out /\ out \in Seq(Unit)
  BY DEF Recorded
<1>2. Holds(out, Len(counted)) /\ Says(out, counted)
  BY <1>1, BytesHold
<1>3. Accepted
  <2>1. Len(counted) \in Nat
    BY <1>1, LenProperties
  <2> QED BY <1>1, <1>2, <2>1, AcceptedIs
<1>4. FramesRead = got
  BY <1>1, <1>2, <1>3, ReadIs
<1>5. From("replay", got) = whole["replay"]
  <2>1. "replay" \in Clients
    BY DEF Clients
  <2> QED BY <2>1, InvKeepsFrames DEF ConnectionsKeepTheirFrames
<1>6. whole["replay"] = [n \in 1 .. source.count |-> <<"replay", n>>]
  <2>1. i - 1 = source.count
    BY DEF Replayed
  <2> QED BY <2>1 DEF Replayed
<1> QED BY <1>3, <1>4, <1>5, <1>6

(***************************************************************************)
(* The theorems                                                            *)
(***************************************************************************)

(* For every frame size, number of edges and buffer: Inv always holds.      *)
THEOREM InvAlways == Spec => []Inv
BY InvInit, InvStep, PTL DEF Spec

(* Whatever connects, sends, ends, is replaced or read when, the frames of  *)
(* a connection that capture or the receiver pass on are, in order and once *)
(* each, those sent whole, and all of them once its end is read.            *)
THEOREM FramesOfConnectionsAreKept == Spec => []ConnectionsKeepTheirFrames
BY InvAlways, InvKeepsFrames, PTL

(* As long as every connection began with a frame's beginning, the decoders *)
(* of capture and the receiver skip no byte: the end of one connection and  *)
(* the beginning of the next never meet in a stream.                        *)
THEOREM NoResyncOfWholeStreams == Spec => []WholeStreamsNeedNoResync
<1>1. Inv => WholeStreamsNeedNoResync
  BY DEF Inv, SkipInv, WholeStreamsNeedNoResync
<1> QED BY <1>1, InvAlways, PTL

(* A recording that inspect accepts holds nothing or what capture counted,  *)
(* whichever writes failed, as often as they may, and wherever capture was  *)
(* killed.                                                                 *)
THEOREM AcceptedIsWhatWasCounted == Spec => []AcceptedIsCounted
<1>1. Init => Recorded
  BY RecordedInit
<1>2. Inv /\ Recorded /\ [Next]_vars => Recorded'
  <2>1. CASE UNCHANGED vars
    BY <2>1 DEF vars, kernel, results, captureVars, Recorded
  <2>2. CASE Next
    BY <2>2, RecordedStep DEF Inv
  <2> QED BY <2>1, <2>2
<1>3. Recorded => AcceptedIsCounted
  BY RecordedIsCounted
<1> QED BY <1>1, <1>2, <1>3, InvAlways, PTL DEF Spec

(* A replay over TCP that succeeds is recorded frame by frame, for          *)
(* recordings of any length and any number of edges beside it.              *)
THEOREM RecapturesAreExact == Spec => []RecaptureExact
<1>1. Init => Recorded /\ Replayed
  BY RecordedInit, ReplayedInit
<1>2. Inv /\ Recorded /\ Replayed /\ [Next]_vars => Recorded' /\ Replayed'
  <2>1. CASE UNCHANGED vars
    BY <2>1 DEF vars, kernel, results, captureVars, replayVars, Recorded,
       Replayed
  <2>2. CASE Next
    BY <2>2, RecordedStep, ReplayedStep DEF Inv
  <2> QED BY <2>1, <2>2
<1>3. Inv /\ Recorded /\ Replayed => RecaptureExact
  BY ReplayedIsRecorded
<1> QED BY <1>1, <1>2, <1>3, InvAlways, PTL DEF Spec
=============================================================================
