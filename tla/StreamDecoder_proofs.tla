-------------------------- MODULE StreamDecoder_proofs --------------------------
(***************************************************************************)
(* What the decoders keep and count, for streams, frames and reads of any   *)
(* size and payload of any look.                                            *)
(***************************************************************************)
EXTENDS StreamDecoder, SequenceTheorems, FiniteSetTheorems,
        WellFoundedInduction, TLAPS

(***************************************************************************)
(* Induction                                                               *)
(***************************************************************************)

(* A set of naturals that is not empty has a least element.                 *)
LEMMA LeastNatural ==
  ASSUME NEW T, T \subseteq Nat, T # {}
  PROVE  \E x \in T : \A y \in T : x <= y
<1> DEFINE R == StrictSubsetOrdering(Nat)
           S == FiniteSubsetsOf(Nat)
           U == {0 .. n : n \in T}
<1>1. IsWellFoundedOn(R, S)
  BY FS_StrictSubsetOrderingWellFounded
<1>2. U \subseteq S
  <2>1. SUFFICES ASSUME NEW n \in T PROVE 0 .. n \in S
    OBVIOUS
  <2>2. n \in Nat /\ n \in Int /\ 0 \in Int /\ 0 .. n \subseteq Nat
    OBVIOUS
  <2>3. IsFiniteSet(0 .. n)
    BY <2>2, FS_Interval
  <2> QED BY <2>2, <2>3 DEF FiniteSubsetsOf
<1>3. PICK u \in U : \A v \in U : ~(<<v, u>> \in R)
  <2>1. U # {}
    OBVIOUS
  <2> HIDE DEF U, R, S
  <2> QED BY <1>1, <1>2, <2>1, WFMin
<1>4. PICK x \in T : u = 0 .. x
  OBVIOUS
<1>5. ASSUME NEW y \in T, y < x PROVE FALSE
  <2>1. 0 .. y \in U
    OBVIOUS
  <2>2. /\ 0 .. y \subseteq 0 .. x /\ 0 .. y # 0 .. x
        /\ 0 .. y \subseteq Nat /\ 0 .. x \subseteq Nat
    BY <1>5
  <2>3. <<0 .. y, 0 .. x>> \in R
    BY <2>2 DEF StrictSubsetOrdering
  <2> QED BY <2>1, <2>3, <1>3, <1>4
<1> QED BY <1>5

(* What holds of 0, and of a number if of the one before, holds up to n.    *)
LEMMA InductionUpTo ==
  ASSUME NEW T, NEW n \in Nat, 0 \in T,
         \A k \in 0 .. n - 1 : k \in T => k + 1 \in T
  PROVE  n \in T
<1> DEFINE Others == {j \in Nat : j <= n /\ j \notin T}
<1>1. SUFFICES ASSUME n \notin T PROVE FALSE
  OBVIOUS
<1>2. PICK m \in Others : \A j \in Others : m <= j
  <2>1. Others \subseteq Nat /\ Others # {}
    BY <1>1
  <2> HIDE DEF Others
  <2> QED BY <2>1, LeastNatural
<1>3. m - 1 \in 0 .. n - 1
  BY <1>2
<1>4. m - 1 \in T
  BY <1>2, <1>3
<1> QED BY <1>2, <1>3, <1>4

(***************************************************************************)
(* Sequences                                                               *)
(***************************************************************************)

(* A function on the numbers up to n is a sequence of that length.          *)
LEMMA FunctionIsSeq ==
  ASSUME NEW S, NEW n \in Nat, NEW f \in [1 .. n -> S]
  PROVE  f \in Seq(S) /\ Len(f) = n
OBVIOUS

(* The elements from m to n.                                               *)
LEMMA SubSeqElements ==
  ASSUME NEW S, NEW s \in Seq(S), NEW m \in 1 .. Len(s) + 1,
         NEW n \in m - 1 .. Len(s)
  PROVE  /\ SubSeq(s, m, n) \in Seq(S)
         /\ Len(SubSeq(s, m, n)) = n - m + 1
         /\ \A k \in 1 .. n - m + 1 : SubSeq(s, m, n)[k] = s[m + k - 1]
<1>1. m \in Int /\ n \in Int /\ Len(s) \in Nat
  BY LenProperties
<1>2. \A i \in m .. n : s[i] \in S
  BY <1>1, ElementOfSeq
<1>3. IF m <= n THEN n - m + 1 = n - m + 1 ELSE 0 = n - m + 1
  BY <1>1
<1> QED BY <1>1, <1>2, <1>3, SubSeqProperties

(* The elements of one sequence behind another.                             *)
LEMMA ConcatElements ==
  ASSUME NEW S, NEW s \in Seq(S), NEW t \in Seq(S)
  PROVE  /\ s \o t \in Seq(S)
         /\ Len(s \o t) = Len(s) + Len(t)
         /\ \A k \in 1 .. Len(s) : (s \o t)[k] = s[k]
         /\ \A k \in 1 .. Len(t) : (s \o t)[Len(s) + k] = t[k]
BY ConcatProperties

(* A sequence is its first n elements and the rest.                         *)
IsFront(front, n, t) ==
  /\ Len(front) = n
  /\ \A k \in 1 .. n : front[k] = t[k]

IsRest(rest, n, t) ==
  /\ Len(rest) = Len(t) - n
  /\ \A k \in 1 .. Len(t) - n : rest[k] = t[n + k]

(* SubSeq gives the two.                                                    *)
LEMMA SplitIn ==
  ASSUME NEW S, NEW t \in Seq(S), NEW n \in 0 .. Len(t)
  PROVE  /\ SubSeq(t, 1, n) \in Seq(S)
         /\ IsFront(SubSeq(t, 1, n), n, t)
         /\ SubSeq(t, n + 1, Len(t)) \in Seq(S)
         /\ IsRest(SubSeq(t, n + 1, Len(t)), n, t)
<1>1. Len(t) \in Nat /\ n \in Nat /\ n - 1 + 1 = n
      /\ Len(t) - (n + 1) + 1 = Len(t) - n
  BY LenProperties
<1>2. SubSeq(t, 1, n) \in Seq(S) /\ IsFront(SubSeq(t, 1, n), n, t)
  <2>1. 1 \in 1 .. Len(t) + 1 /\ n \in 1 - 1 .. Len(t)
    BY <1>1
  <2>2. \A k \in 1 .. n : 1 + k - 1 = k
    OBVIOUS
  <2> QED BY <1>1, <2>1, <2>2, SubSeqElements DEF IsFront
<1>3. /\ SubSeq(t, n + 1, Len(t)) \in Seq(S)
      /\ IsRest(SubSeq(t, n + 1, Len(t)), n, t)
  <2>1. n + 1 \in 1 .. Len(t) + 1 /\ Len(t) \in (n + 1) - 1 .. Len(t)
    BY <1>1
  <2>2. /\ SubSeq(t, n + 1, Len(t)) \in Seq(S)
        /\ Len(SubSeq(t, n + 1, Len(t))) = Len(t) - (n + 1) + 1
        /\ \A k \in 1 .. Len(t) - (n + 1) + 1 :
             SubSeq(t, n + 1, Len(t))[k] = t[(n + 1) + k - 1]
    BY <2>1, SubSeqElements
  <2>3. \A k \in 1 .. Len(t) - n : (n + 1) + k - 1 = n + k
    BY <1>1
  <2> QED BY <1>1, <2>2, <2>3 DEF IsRest
<1> QED BY <1>2, <1>3

(* Put together, the two are the sequence.                                  *)
LEMMA SplitJoins ==
  ASSUME NEW S, NEW t \in Seq(S), NEW n \in 0 .. Len(t),
         NEW front \in Seq(S), IsFront(front, n, t),
         NEW rest \in Seq(S), IsRest(rest, n, t)
  PROVE  front \o rest = t
<1> DEFINE u == front \o rest
<1>1. /\ u \in Seq(S) /\ Len(u) = Len(front) + Len(rest)
      /\ \A k \in 1 .. Len(front) : u[k] = front[k]
      /\ \A k \in 1 .. Len(rest) : u[Len(front) + k] = rest[k]
  BY ConcatElements
<1> HIDE DEF u
<1>2. /\ u \in Seq(S) /\ Len(u) = Len(t) /\ Len(t) \in Nat
      /\ \A k \in 1 .. n : u[k] = t[k]
      /\ \A k \in 1 .. Len(t) - n : u[n + k] = t[n + k]
  <2>1. Len(t) \in Nat
    BY LenProperties
  <2>2. Len(front) = n /\ Len(rest) = Len(t) - n
    BY DEF IsFront, IsRest
  <2>3. Len(u) = Len(t)
    BY <1>1, <2>1, <2>2
  <2>4. \A k \in 1 .. n : u[k] = t[k]
    BY <1>1, <2>2 DEF IsFront
  <2>5. \A k \in 1 .. Len(t) - n : u[n + k] = t[n + k]
    BY <1>1, <2>2 DEF IsRest
  <2> QED BY <1>1, <2>1, <2>3, <2>4, <2>5
<1>3. \A k \in 1 .. Len(t) : u[k] = t[k]
  <2> SUFFICES ASSUME NEW k \in 1 .. Len(t) PROVE u[k] = t[k]
    OBVIOUS
  <2>1. CASE k <= n
    BY <1>2, <2>1
  <2>2. CASE k > n
    <3>1. k - n \in 1 .. Len(t) - n /\ n + (k - n) = k
      BY <1>2, <2>2
    <3> QED BY <1>2, <3>1
  <2> QED BY <1>2, <2>1, <2>2
<1>4. u = t
  BY <1>2, <1>3, SeqEqual
<1> QED BY <1>4 DEF u

(* The first n elements of t are put behind s.                              *)
LEMMA FrontMoves ==
  ASSUME NEW S, NEW s \in Seq(S), NEW t \in Seq(S), NEW n \in 0 .. Len(t)
  PROVE  /\ s \o SubSeq(t, 1, n) \in Seq(S)
         /\ Len(s \o SubSeq(t, 1, n)) = Len(s) + n
         /\ \A k \in 1 .. Len(s) : (s \o SubSeq(t, 1, n))[k] = s[k]
         /\ \A k \in 1 .. n : (s \o SubSeq(t, 1, n))[Len(s) + k] = t[k]
<1> DEFINE front == SubSeq(t, 1, n)
<1>1. front \in Seq(S) /\ IsFront(front, n, t)
  BY SplitIn
<1> HIDE DEF front
<1>2. /\ s \o front \in Seq(S) /\ Len(s \o front) = Len(s) + Len(front)
      /\ \A k \in 1 .. Len(s) : (s \o front)[k] = s[k]
      /\ \A k \in 1 .. Len(front) : (s \o front)[Len(s) + k] = front[k]
  BY <1>1, ConcatElements
<1>3. /\ Len(s \o front) = Len(s) + n
      /\ \A k \in 1 .. n : (s \o front)[Len(s) + k] = t[k]
  BY <1>1, <1>2 DEF IsFront
<1> QED BY <1>2, <1>3 DEF front

(* What is put behind s is taken from t.                                    *)
LEMMA FrontRegroups ==
  ASSUME NEW S, NEW s \in Seq(S), NEW t \in Seq(S), NEW n \in 0 .. Len(t)
  PROVE  (s \o SubSeq(t, 1, n)) \o SubSeq(t, n + 1, Len(t)) = s \o t
<1> DEFINE front == SubSeq(t, 1, n)
           rest == SubSeq(t, n + 1, Len(t))
<1>1. front \in Seq(S) /\ IsFront(front, n, t) /\ rest \in Seq(S)
      /\ IsRest(rest, n, t)
  BY SplitIn
<1> HIDE DEF front, rest
<1>2. front \o rest = t
  BY <1>1, SplitJoins
<1>3. (s \o front) \o rest = s \o (front \o rest)
  BY <1>1, ConcatAssociative, SMTT(30)
<1>4. (s \o front) \o rest = s \o t
  BY <1>2, <1>3
<1> QED BY <1>4 DEF front, rest

(***************************************************************************)
(* FlattenSeq                                                              *)
(***************************************************************************)

(* Its recursive function exists.                                           *)
LEMMA FlattenExists ==
  ASSUME NEW ss, NEW n \in Nat
  PROVE  \E f : f = [i \in 1 .. n |->
                       IF i = 1 THEN ss[i] ELSE f[i - 1] \o ss[i]]
<1> DEFINE Is(f, k) == f = [i \in 1 .. k |->
                              IF i = 1 THEN ss[i] ELSE f[i - 1] \o ss[i]]
           T == {k \in Nat : \E f : Is(f, k)}
<1>1. 0 \in T
  <2>1. Is(<<>>, 0)
    OBVIOUS
  <2> QED BY <2>1
<1>2. ASSUME NEW k \in 0 .. n - 1, k \in T PROVE k + 1 \in T
  <2>1. PICK f : Is(f, k)
    BY <1>2
  <2> DEFINE g == [i \in 1 .. k + 1 |->
                     IF i = k + 1 THEN IF i = 1 THEN ss[i]
                                                ELSE f[i - 1] \o ss[i]
                                  ELSE f[i]]
  <2>2. \A i \in 1 .. k + 1 :
          g[i] = IF i = 1 THEN ss[i] ELSE g[i - 1] \o ss[i]
    <3>1. SUFFICES ASSUME NEW i \in 1 .. k + 1
                   PROVE  g[i] = IF i = 1 THEN ss[i] ELSE g[i - 1] \o ss[i]
      OBVIOUS
    <3>2. CASE i = k + 1
      BY <3>2
    <3>3. CASE i # k + 1
      <4>1. i \in 1 .. k /\ (i # 1 => i - 1 \in 1 .. k)
        BY <3>3
      <4>2. g[i] = f[i] /\ (i # 1 => g[i - 1] = f[i - 1])
        BY <4>1
      <4>3. f[i] = IF i = 1 THEN ss[i] ELSE f[i - 1] \o ss[i]
        BY <2>1, <4>1
      <4> QED BY <4>2, <4>3
    <3> QED BY <3>2, <3>3
  <2>3. Is(g, k + 1)
    <3> HIDE DEF g
    <3>1. g = [i \in 1 .. k + 1 |-> g[i]]
      BY DEF g
    <3> QED BY <2>2, <3>1
  <2>4. k + 1 \in Nat
    OBVIOUS
  <2> HIDE DEF Is, g
  <2> QED BY <2>3, <2>4
<1>3. n \in T
  <2> HIDE DEF T
  <2> QED BY <1>1, <1>2, InductionUpTo
<1> QED BY <1>3

(* f is the prefixes of what FlattenSeq makes, one for each of n sequences. *)
Flattens(f, ss, n) ==
  /\ f[1] = ss[1]
  /\ \A i \in 2 .. n : f[i] = f[i - 1] \o ss[i]
  /\ FlattenSeq(ss) = f[n]

LEMMA FlattenPrefixes ==
  ASSUME NEW S, NEW n \in Nat \ {0}, NEW ss \in [1 .. n -> Seq(S)]
  PROVE  \E f \in [1 .. n -> Seq(S)] : Flattens(f, ss, n)
<1> DEFINE Is(f) == f = [i \in 1 .. n |->
                           IF i = 1 THEN ss[i] ELSE f[i - 1] \o ss[i]]
           g == CHOOSE f : Is(f)
<1>1. n \in Nat \ {0} /\ ss \in Seq(Seq(S)) /\ Len(ss) = n
  BY FunctionIsSeq
<1>2. Is(g)
  <2>1. \E f : Is(f)
    BY <1>1, FlattenExists
  <2> HIDE DEF Is
  <2> QED BY <2>1
<1>3. FlattenSeq(ss) = g[n]
  BY <1>1 DEF FlattenSeq
<1> HIDE DEF g
<1>4. g[1] = ss[1] /\ \A i \in 2 .. n : g[i] = g[i - 1] \o ss[i]
  <2>1. \A i \in 1 .. n : g[i] = IF i = 1 THEN ss[i] ELSE g[i - 1] \o ss[i]
    BY <1>2
  <2>2. 1 \in 1 .. n /\ \A i \in 2 .. n : i \in 1 .. n /\ i # 1
    BY <1>1
  <2> QED BY <2>1, <2>2
<1>5. \A i \in 1 .. n : ss[i] \in Seq(S)
  OBVIOUS
<1>6. \A i \in 1 .. n : g[i] \in Seq(S)
  <2> SUFFICES ASSUME NEW i \in 1 .. n PROVE g[i] \in Seq(S)
    OBVIOUS
  <2> DEFINE T == {k \in Nat : k < n => g[k + 1] \in Seq(S)}
  <2>1. 0 \in T
    BY <1>1, <1>4, <1>5
  <2>2. ASSUME NEW k \in 0 .. n - 2, k \in T PROVE k + 1 \in T
    <3>1. g[k + 1] \in Seq(S) /\ ss[k + 2] \in Seq(S)
      BY <1>1, <1>5, <2>2
    <3>2. g[k + 2] = g[k + 1] \o ss[k + 2]
      <4>1. k + 2 \in 2 .. n /\ (k + 2) - 1 = k + 1
        BY <1>1, <2>2
      <4> QED BY <1>4, <4>1
    <3>3. g[k + 2] \in Seq(S)
      BY <3>1, <3>2, ConcatProperties
    <3> QED BY <3>3
  <2>3. i - 1 \in T
    <3>1. i - 1 \in Nat /\ i - 1 < n
      BY <1>1
    <3>2. \A k \in 0 .. i - 1 - 1 : k \in T => k + 1 \in T
      <4>1. \A k \in 0 .. i - 1 - 1 : k \in 0 .. n - 2
        BY <1>1
      <4> HIDE DEF T
      <4> QED BY <2>2, <4>1
    <3> HIDE DEF T
    <3> QED BY <2>1, <3>1, <3>2, InductionUpTo
  <2> QED BY <1>1, <2>3
<1>7. g \in [1 .. n -> Seq(S)]
  <2>1. g = [i \in 1 .. n |-> g[i]]
    BY <1>2
  <2> QED BY <1>6, <2>1
<1> QED BY <1>1, <1>3, <1>4, <1>7 DEF Flattens

(* A unit that is read belongs to a frame.                                  *)
LEMMA UnitAt ==
  ASSUME NEW s \in Seq(StreamUnits), NEW i \in 1 .. Len(s)
  PROVE  s[i] \in StreamUnits /\ s[i][1] \in Frames
<1>1. s[i] \in StreamUnits
  OBVIOUS
<1>2. QED
  BY <1>1 DEF StreamUnits

(* What is left of a sequence behind its first n elements.                  *)
LEMMA RestOf ==
  ASSUME NEW S, NEW s \in Seq(S), NEW n \in 0 .. Len(s)
  PROVE  /\ SubSeq(s, n + 1, Len(s)) \in Seq(S)
         /\ Len(SubSeq(s, n + 1, Len(s))) = Len(s) - n
<1>1. Len(s) \in Nat /\ n + 1 \in Int /\ Len(s) \in Int /\ n \in Nat
  BY LenProperties
<1>2. \A i \in n + 1 .. Len(s) : s[i] \in S
  BY <1>1, ElementOfSeq
<1>3. QED
  BY <1>1, <1>2, SubSeqProperties

(***************************************************************************)
(* The stream                                                              *)
(***************************************************************************)

(* Units come in the order of the frames, and the units of a frame that     *)
(* come follow one another.                                                 *)
Ordered(s) ==
  \A i, j \in 1 .. Len(s) :
    i < j => \/ s[i][1] < s[j][1]
             \/ s[i][1] = s[j][1] /\ s[j][2] - s[i][2] = j - i

(* A part is units of its frame, one after the other.                       *)
LEMMA PartIsUnits ==
  ASSUME NEW f \in Frames, NEW p \in Parts(f)
  PROVE  /\ p \in Seq(StreamUnits)
         /\ \E a \in Nat : \A k \in 1 .. Len(p) : p[k] = <<f, a + k - 1>>
<1> USE DecoderAssumption
<1>1. PICK a \in 0 .. FrameUnits - 1, b \in 1 .. FrameUnits :
        a < b /\ p = Part(f, a, b)
  <2>1. CASE p = Part(f, 0, FrameUnits)
    <3>1. 0 \in 0 .. FrameUnits - 1 /\ FrameUnits \in 1 .. FrameUnits
          /\ 0 < FrameUnits
      OBVIOUS
    <3> QED BY <2>1, <3>1
  <2>2. CASE p \in {Part(f, a, FrameUnits) : a \in 1 .. FrameUnits - 1}
    <3>1. PICK a \in 1 .. FrameUnits - 1 : p = Part(f, a, FrameUnits)
      BY <2>2
    <3>2. a \in 0 .. FrameUnits - 1 /\ FrameUnits \in 1 .. FrameUnits
          /\ a < FrameUnits
      OBVIOUS
    <3> QED BY <3>1, <3>2
  <2>3. CASE p \in {Part(f, 0, b) : b \in 1 .. FrameUnits - 1}
    <3>1. PICK b \in 1 .. FrameUnits - 1 : p = Part(f, 0, b)
      BY <2>3
    <3>2. 0 \in 0 .. FrameUnits - 1 /\ b \in 1 .. FrameUnits /\ 0 < b
      OBVIOUS
    <3> QED BY <3>1, <3>2
  <2> QED BY <2>1, <2>2, <2>3 DEF Parts
<1>2. \A u \in 1 .. b - a : a + u - 1 \in 0 .. FrameUnits - 1
  OBVIOUS
<1>3. \A u \in 1 .. b - a : <<f, a + u - 1>> \in StreamUnits
  BY <1>2 DEF StreamUnits
<1>4. b - a \in Nat
  BY <1>1
<1>5. p = [u \in 1 .. b - a |-> <<f, a + u - 1>>]
  BY <1>1 DEF Part
<1>6. p \in Seq(StreamUnits) /\ Len(p) = b - a
  <2>1. p \in [1 .. b - a -> StreamUnits]
    BY <1>3, <1>5
  <2> QED BY <1>4, <2>1, FunctionIsSeq
<1>7. \A k \in 1 .. Len(p) : p[k] = <<f, a + k - 1>>
  BY <1>5, <1>6
<1>8. a \in Nat
  OBVIOUS
<1> QED BY <1>6, <1>7, <1>8

(* What is ordered stays so when the part of a later frame is put behind.   *)
LEMMA OrderedGrows ==
  ASSUME NEW s \in Seq(StreamUnits), Ordered(s),
         NEW f \in Frames, NEW p \in Parts(f),
         \A k \in 1 .. Len(s) : s[k][1] < f
  PROVE  /\ Ordered(s \o p)
         /\ \A k \in 1 .. Len(s \o p) : (s \o p)[k][1] <= f
<1>1. PICK a \in Nat : \A k \in 1 .. Len(p) : p[k] = <<f, a + k - 1>>
  BY PartIsUnits
<1>2. p \in Seq(StreamUnits)
  BY PartIsUnits
<1> DEFINE t == s \o p
<1>3. /\ Len(s) \in Nat /\ Len(p) \in Nat /\ Len(t) = Len(s) + Len(p)
      /\ \A k \in 1 .. Len(s) : t[k] = s[k]
      /\ \A k \in 1 .. Len(p) : t[Len(s) + k] = p[k]
  BY <1>2, ConcatProperties
<1> HIDE DEF t
<1>4. \A k \in Len(s) + 1 .. Len(t) : t[k] = <<f, a + k - Len(s) - 1>>
  <2> SUFFICES ASSUME NEW k \in Len(s) + 1 .. Len(t)
               PROVE  t[k] = <<f, a + k - Len(s) - 1>>
    OBVIOUS
  <2>1. k - Len(s) \in 1 .. Len(p) /\ Len(s) + (k - Len(s)) = k
    BY <1>3
  <2>2. t[k] = p[k - Len(s)]
    BY <1>3, <2>1
  <2>3. p[k - Len(s)] = <<f, a + (k - Len(s)) - 1>>
    BY <1>1, <2>1
  <2>4. a + (k - Len(s)) - 1 = a + k - Len(s) - 1
    BY <1>3
  <2> QED BY <2>2, <2>3, <2>4
<1>5. \A k \in 1 .. Len(s) : s[k][1] \in Int /\ s[k][2] \in Int
  <2>1. \A k \in 1 .. Len(s) : s[k] \in StreamUnits
    BY ElementOfSeq
  <2> QED BY <2>1, DecoderAssumption DEF StreamUnits, Frames
<1>6. f \in Int
  BY DecoderAssumption DEF Frames
<1>7. ASSUME NEW i \in 1 .. Len(t), NEW j \in 1 .. Len(t), i < j
      PROVE  \/ t[i][1] < t[j][1]
             \/ t[i][1] = t[j][1] /\ t[j][2] - t[i][2] = j - i
  <2>1. CASE j <= Len(s)
    <3>1. i \in 1 .. Len(s) /\ j \in 1 .. Len(s)
      BY <1>3, <1>7, <2>1
    <3> QED BY <1>3, <1>7, <3>1 DEF Ordered
  <2>2. CASE i <= Len(s) /\ j > Len(s)
    <3>1. i \in 1 .. Len(s) /\ j \in Len(s) + 1 .. Len(t)
      BY <1>3, <2>2
    <3>2. t[i][1] < f /\ t[j][1] = f
      BY <1>3, <1>4, <3>1
    <3> QED BY <3>2
  <2>3. CASE i > Len(s)
    <3>1. i \in Len(s) + 1 .. Len(t) /\ j \in Len(s) + 1 .. Len(t)
      BY <1>3, <1>7, <2>3
    <3>2. /\ t[i] = <<f, a + i - Len(s) - 1>>
          /\ t[j] = <<f, a + j - Len(s) - 1>>
      BY <1>4, <3>1
    <3> QED BY <1>3, <3>1, <3>2
  <2> QED BY <1>3, <2>1, <2>2, <2>3
<1>8. ASSUME NEW k \in 1 .. Len(t) PROVE t[k][1] <= f
  <2>1. CASE k \in 1 .. Len(s)
    BY <1>3, <1>5, <1>6, <2>1
  <2>2. CASE k \in Len(s) + 1 .. Len(t)
    BY <1>4, <1>6, <2>2
  <2> QED BY <1>3, <2>1, <2>2
<1>9. Ordered(t)
  BY <1>7 DEF Ordered
<1> QED BY <1>8, <1>9 DEF t

(* Parts of all the frames, in their order, make an ordered stream.         *)
LEMMA StreamIsOrdered ==
  ASSUME NEW parts \in [Frames -> AllParts],
         \A f \in Frames : parts[f] \in Parts(f)
  PROVE  FlattenSeq(parts) \in Seq(StreamUnits) /\ Ordered(FlattenSeq(parts))
<1> USE DecoderAssumption
<1>1. \A f \in 1 .. FrameCount : parts[f] \in Seq(StreamUnits)
  BY PartIsUnits DEF Frames
<1>2. parts \in [1 .. FrameCount -> Seq(StreamUnits)]
  BY <1>1 DEF Frames
<1>3. PICK g \in [1 .. FrameCount -> Seq(StreamUnits)] :
        Flattens(g, parts, FrameCount)
  BY <1>2, FlattenPrefixes
<1> DEFINE Good(f) == Ordered(g[f]) /\ \A k \in 1 .. Len(g[f]) : g[f][k][1] <= f
           T == {n \in Nat : n < FrameCount => Good(n + 1)}
<1>4. 0 \in T
  <2>1. 1 \in Frames /\ parts[1] \in Parts(1)
    BY DEF Frames
  <2>2. <<>> \in Seq(StreamUnits) /\ Len(<<>>) = 0
    OBVIOUS
  <2>3. Ordered(<<>>) /\ \A k \in 1 .. Len(<<>>) : (<<>>)[k][1] < 1
    BY <2>2 DEF Ordered
  <2>4. <<>> \o parts[1] = parts[1]
    BY <1>1, ConcatEmptySeq
  <2>5. Good(1)
    <3>1. /\ Ordered(<<>> \o parts[1])
          /\ \A k \in 1 .. Len(<<>> \o parts[1]) : (<<>> \o parts[1])[k][1] <= 1
      BY <2>1, <2>2, <2>3, OrderedGrows
    <3> QED BY <1>3, <2>4, <3>1 DEF Flattens
  <2> HIDE DEF Good
  <2> QED BY <2>5
<1>5. ASSUME NEW n \in 0 .. FrameCount - 2, n \in T PROVE n + 1 \in T
  <2>1. n + 1 < FrameCount /\ n + 2 \in Frames /\ n + 1 \in Nat
        /\ n + 2 \in 2 .. FrameCount /\ (n + 2) - 1 = n + 1
        /\ n + 1 \in 1 .. FrameCount
    BY DEF Frames
  <2>2. Good(n + 1)
    BY <1>5, <2>1
  <2>3. g[n + 2] = g[n + 1] \o parts[n + 2] /\ g[n + 1] \in Seq(StreamUnits)
    BY <1>3, <2>1 DEF Flattens
  <2>4. \A k \in 1 .. Len(g[n + 1]) : g[n + 1][k][1] < n + 2
    <3>1. \A k \in 1 .. Len(g[n + 1]) : g[n + 1][k] \in StreamUnits
      BY <2>3, ElementOfSeq
    <3>2. \A k \in 1 .. Len(g[n + 1]) : g[n + 1][k][1] \in Int
      BY <3>1, SMTT(30) DEF StreamUnits, Frames
    <3>3. \A k \in 1 .. Len(g[n + 1]) : g[n + 1][k][1] <= n + 1
      BY <2>2
    <3> HIDE DEF Good, T
    <3> QED BY <2>1, <3>2, <3>3
  <2>5. Good(n + 2)
    <3>1. /\ Ordered(g[n + 1] \o parts[n + 2])
          /\ \A k \in 1 .. Len(g[n + 1] \o parts[n + 2]) :
               (g[n + 1] \o parts[n + 2])[k][1] <= n + 2
      BY <2>1, <2>2, <2>3, <2>4, OrderedGrows
    <3> QED BY <2>3, <3>1
  <2> HIDE DEF Good
  <2>6. (n + 1) + 1 = n + 2
    OBVIOUS
  <2> QED BY <2>1, <2>5, <2>6
<1>6. FrameCount - 1 \in T
  <2>1. FrameCount - 1 \in Nat
        /\ \A n \in 0 .. (FrameCount - 1) - 1 : n \in 0 .. FrameCount - 2
    OBVIOUS
  <2> HIDE DEF T
  <2> QED BY <1>4, <1>5, <2>1, InductionUpTo
<1>7. Good(FrameCount)
  <2>1. FrameCount - 1 < FrameCount /\ (FrameCount - 1) + 1 = FrameCount
    OBVIOUS
  <2> HIDE DEF Good
  <2> QED BY <1>6, <2>1
<1> QED BY <1>3, <1>7 DEF Flattens

(***************************************************************************)
(* Types                                                                   *)
(***************************************************************************)

LEMMA InitTyped == Init => TypeOK
<1> SUFFICES ASSUME Init
             PROVE  TypeOK
  OBVIOUS
<1>1. lookalikes \subseteq Payload
  BY DEF Init, kSubset
<1>2. {stream, read, buf} \subseteq Seq(StreamUnits)
  BY StreamIsOrdered DEF Init
<1>3. pos \in 0 .. Len(buf)
  BY DEF Init
<1>4. QED
  BY <1>1, <1>2, <1>3 DEF Init, TypeOK

(* A read: so many units change over from the stream to the buffer.         *)
LEMMA ReadMoves ==
  ASSUME TypeOK, Read
  PROVE  \E n \in Nat \ {0} :
           /\ {stream', read', buf'} \subseteq Seq(StreamUnits)
           /\ Len(buf') = Len(buf) + n
           /\ Len(read') = Len(read) + n
<1>1. PICK n \in 1 .. Len(stream) :
        /\ buf' = buf \o SubSeq(stream, 1, n)
        /\ read' = read \o SubSeq(stream, 1, n)
        /\ stream' = SubSeq(stream, n + 1, Len(stream))
  BY DEF Read
<1>2. stream \in Seq(StreamUnits) /\ buf \in Seq(StreamUnits)
      /\ read \in Seq(StreamUnits) /\ Len(stream) \in Nat
  BY DEF TypeOK
<1>3. /\ SubSeq(stream, 1, n) \in Seq(StreamUnits)
      /\ Len(SubSeq(stream, 1, n)) = n
  <2>1. \A i \in 1 .. n : stream[i] \in StreamUnits
    BY <1>2, ElementOfSeq
  <2>2. 1 \in Int /\ n \in Int /\ 1 <= n /\ n - 1 + 1 = n
    BY <1>2
  <2>3. QED
    BY <2>1, <2>2, SubSeqProperties
<1>4. stream' \in Seq(StreamUnits)
  BY <1>1, <1>2, RestOf
<1>5. buf' \in Seq(StreamUnits) /\ Len(buf') = Len(buf) + n
  <2> DEFINE s == SubSeq(stream, 1, n)
  <2> HIDE DEF s
  <2>1. s \in Seq(StreamUnits) /\ Len(s) = n /\ buf' = buf \o s
    BY <1>1, <1>3 DEF s
  <2>2. QED
    BY <1>2, <2>1, ConcatProperties
<1>6. read' \in Seq(StreamUnits) /\ Len(read') = Len(read) + n
  <2> DEFINE s == SubSeq(stream, 1, n)
  <2> HIDE DEF s
  <2>1. s \in Seq(StreamUnits) /\ Len(s) = n /\ read' = read \o s
    BY <1>1, <1>3 DEF s
  <2>2. QED
    BY <1>2, <2>1, ConcatProperties
<1>7. n \in Nat \ {0}
  BY <1>2
<1>8. QED
  BY <1>4, <1>5, <1>6, <1>7

(* The end of the loop: what lies before the position is dropped.           *)
LEMMA CompactedKeeps ==
  ASSUME TypeOK, NEW from \in 0 .. Len(buf), Compacted(from)
  PROVE  /\ buf' \in Seq(StreamUnits)
         /\ Len(buf') = Len(buf) - from
         /\ pos' = 0
         /\ pc' = "idle"
BY RestOf DEF Compacted, TypeOK

LEMMA NextTyped == TypeOK /\ [Next]_vars => TypeOK'
<1> SUFFICES ASSUME TypeOK, [Next]_vars
             PROVE  TypeOK'
  OBVIOUS
<1> USE DecoderAssumption
<1>1. CASE Read
  <2>1. PICK n \in Nat \ {0} :
          /\ {stream', read', buf'} \subseteq Seq(StreamUnits)
          /\ Len(buf') = Len(buf) + n
    BY <1>1, ReadMoves
  <2>2. pos' \in 0 .. Len(buf')
    <3>1. Len(buf) \in Nat
      BY DEF TypeOK
    <3>2. QED
      BY <1>1, <2>1, <3>1 DEF Read, TypeOK
  <2>3. QED
    BY <1>1, <2>1, <2>2 DEF Read, TypeOK
<1>2. CASE SkipToMagic
  <2>1. PICK magic \in MagicAt :
          pos' = magic /\ resync' = resync + magic - pos
    BY <1>2 DEF SkipToMagic
  <2>2. pos \in Nat /\ resync \in Nat /\ Len(buf) \in Nat
    BY DEF TypeOK
  <2>3. magic \in pos .. Len(buf) - FrameUnits
    BY <2>1 DEF MagicAt
  <2>4. pos' \in 0 .. Len(buf) /\ resync' \in Nat
    BY <2>1, <2>2, <2>3
  <2>5. QED
    BY <1>2, <2>4 DEF SkipToMagic, TypeOK
<1>3. CASE DropNoise
  <2>1. Len(buf) - (FrameUnits - 1) \in 0 .. Len(buf)
    BY <1>3 DEF DropNoise, InLoop, Remaining, TypeOK
  <2>2. Compacted(Len(buf) - (FrameUnits - 1))
    BY <1>3 DEF DropNoise
  <2>3. buf' \in Seq(StreamUnits) /\ pos' = 0 /\ pc' = "idle"
    BY <2>1, <2>2, CompactedKeeps
  <2>4. resync' \in Nat
    BY <1>3 DEF DropNoise, InLoop, Remaining, TypeOK
  <2>5. Len(buf') \in Nat
    BY <2>3
  <2>6. QED
    BY <1>3, <2>3, <2>4, <2>5 DEF DropNoise, TypeOK
<1>4. CASE Reject
  BY <1>4 DEF Reject, InLoop, Remaining, TypeOK
<1>5. CASE PassOn
  <2>1. pos + 1 \in 1 .. Len(buf) /\ pos + FrameUnits \in 0 .. Len(buf)
    BY <1>5 DEF PassOn, InLoop, Remaining, TypeOK
  <2>2. buf[pos + 1][1] \in Frames
    BY <2>1, UnitAt DEF TypeOK
  <2>3. decoded' \in Seq(Frames)
    BY <1>5, <2>2, AppendProperties DEF PassOn, TypeOK
  <2>4. QED
    BY <1>5, <2>1, <2>3 DEF PassOn, TypeOK
<1>6. CASE EndLoop
  <2>1. pos \in 0 .. Len(buf)
    BY DEF TypeOK
  <2>2. buf' \in Seq(StreamUnits) /\ pos' = 0 /\ pc' = "idle"
    BY <1>6, <2>1, CompactedKeeps DEF EndLoop
  <2>3. Len(buf') \in Nat
    BY <2>2
  <2>4. QED
    BY <1>6, <2>2, <2>3 DEF EndLoop, TypeOK
<1>7. CASE UNCHANGED vars
  BY <1>7 DEF vars, TypeOK
<1>8. QED
  BY <1>1, <1>2, <1>3, <1>4, <1>5, <1>6, <1>7 DEF Next, Decode

(* The decoder's counters are numbers, its position is in the buffer, and   *)
(* the buffer holds units of the stream.                                    *)
THEOREM Typing == Spec => []TypeOK
<1>1. QED
  BY InitTyped, NextTyped, PTL DEF Spec

(***************************************************************************)
(* What is carried over, and what is counted                               *)
(***************************************************************************)

(* decodeStream and decode_tcp_stream carry less than a frame from one read *)
(* to the next, however much is read at once and whatever it looks like.    *)
THEOREM CarryIsBounded == Spec => []CarriesLessThanAFrame
<1> USE DecoderAssumption
<1>1. Init => CarriesLessThanAFrame
  BY DEF Init, CarriesLessThanAFrame
<1>2. TypeOK /\ CarriesLessThanAFrame /\ [Next]_vars => CarriesLessThanAFrame'
  <2> SUFFICES ASSUME TypeOK, CarriesLessThanAFrame, [Next]_vars
               PROVE  CarriesLessThanAFrame'
    OBVIOUS
  <2>1. CASE Read \/ SkipToMagic \/ Reject \/ PassOn
    BY <2>1 DEF Read, SkipToMagic, Reject, PassOn, InLoop,
                CarriesLessThanAFrame
  <2>2. CASE DropNoise
    <3>1. Len(buf) - (FrameUnits - 1) \in 0 .. Len(buf)
      BY <2>2 DEF DropNoise, InLoop, Remaining, TypeOK
    <3>2. Compacted(Len(buf) - (FrameUnits - 1))
      BY <2>2 DEF DropNoise
    <3>3. Len(buf') = Len(buf) - (Len(buf) - (FrameUnits - 1))
      BY <3>1, <3>2, CompactedKeeps
    <3>4. Len(buf) \in Nat
      BY DEF TypeOK
    <3>5. QED
      BY <3>3, <3>4 DEF CarriesLessThanAFrame
  <2>3. CASE EndLoop
    <3>1. pos \in 0 .. Len(buf)
      BY DEF TypeOK
    <3>2. Len(buf') = Len(buf) - pos
      BY <2>3, <3>1, CompactedKeeps DEF EndLoop
    <3>3. QED
      BY <2>3, <3>2 DEF EndLoop, Remaining, CarriesLessThanAFrame
  <2>4. CASE UNCHANGED vars
    BY <2>4 DEF vars, CarriesLessThanAFrame
  <2>5. QED
    BY <2>1, <2>2, <2>3, <2>4 DEF Next, Decode
<1>3. QED
  BY <1>1, <1>2, Typing, PTL DEF Spec

(* Every byte read is in a decoded frame, still buffered, or counted as     *)
(* skipped; the operator counts no byte too many.                           *)
THEOREM EveryByteAccounted == Spec => []BytesAccounted
<1> USE DecoderAssumption
<1> DEFINE Rest == Len(read) - FrameUnits * Len(decoded) - Remaining
<1>1. Init => BytesAccounted
  <2> SUFFICES ASSUME Init
               PROVE  BytesAccounted
    OBVIOUS
  <2>1. Len(read) = 0 /\ Len(buf) = 0 /\ Len(decoded) = 0
    BY DEF Init
  <2>2. QED
    BY <2>1 DEF Init, BytesAccounted, Remaining
<1>2. TypeOK /\ BytesAccounted /\ [Next]_vars => BytesAccounted'
  <2> SUFFICES ASSUME TypeOK, BytesAccounted, [Next]_vars
               PROVE  BytesAccounted'
    OBVIOUS
  <2>1. /\ Len(read) \in Nat /\ Len(buf) \in Nat /\ Len(decoded) \in Nat
        /\ pos \in Nat /\ resync \in Nat /\ pos <= Len(buf)
        /\ FrameUnits * Len(decoded) \in Nat
    BY DEF TypeOK
  <2>2. CASE Read
    <3>1. PICK n \in Nat \ {0} :
            Len(buf') = Len(buf) + n /\ Len(read') = Len(read) + n
      BY <2>2, ReadMoves
    <3>2. Rest' = Rest
      BY <2>1, <2>2, <3>1 DEF Read, Remaining
    <3>3. QED
      BY <2>2, <3>2 DEF Read, BytesAccounted
  <2>3. CASE SkipToMagic
    <3>1. PICK magic \in MagicAt :
            pos' = magic /\ resync' = resync + magic - pos
      BY <2>3 DEF SkipToMagic
    <3>2. magic \in Nat
      BY <2>1, <3>1 DEF MagicAt
    <3>3. Rest' = Rest + magic - pos
      BY <2>1, <2>3, <3>1, <3>2 DEF SkipToMagic, Remaining
    <3>4. Rest \in Int
      BY <2>1 DEF Remaining
    <3>5. QED
      BY <2>1, <2>3, <3>1, <3>2, <3>3, <3>4 DEF SkipToMagic, BytesAccounted
  <2>4. CASE DropNoise
    <3>1. Len(buf) - (FrameUnits - 1) \in 0 .. Len(buf)
      BY <2>4 DEF DropNoise, InLoop, Remaining, TypeOK
    <3>2. Compacted(Len(buf) - (FrameUnits - 1))
      BY <2>4 DEF DropNoise
    <3>3. Len(buf') = Len(buf) - (Len(buf) - (FrameUnits - 1)) /\ pos' = 0
      BY <3>1, <3>2, CompactedKeeps
    <3>4. Remaining' = FrameUnits - 1 /\ Remaining >= FrameUnits
      BY <2>1, <2>4, <3>3 DEF DropNoise, InLoop, Remaining
    <3>5. Rest' = Rest + Remaining - (FrameUnits - 1)
      BY <2>1, <2>4, <3>4 DEF DropNoise, Remaining
    <3>6. Rest \in Int /\ Remaining \in Int
      BY <2>1 DEF Remaining
    <3>7. CASE decoder = "capture"
      BY <2>1, <2>4, <3>5, <3>6, <3>7 DEF DropNoise, BytesAccounted
    <3>8. CASE decoder # "capture"
      BY <2>1, <2>4, <3>4, <3>5, <3>6, <3>8 DEF DropNoise, BytesAccounted
    <3>9. QED
      BY <3>7, <3>8
  <2>5. CASE Reject
    <3>1. Rest' = Rest + 1 /\ Rest \in Int
      BY <2>1, <2>5 DEF Reject, Remaining
    <3>2. QED
      BY <2>1, <2>5, <3>1 DEF Reject, BytesAccounted
  <2>6. CASE PassOn
    <3>1. pos + 1 \in 1 .. Len(buf)
      BY <2>6 DEF PassOn, InLoop, Remaining, TypeOK
    <3>2. buf[pos + 1][1] \in Frames
      BY <3>1, UnitAt DEF TypeOK
    <3>3. Len(decoded') = Len(decoded) + 1
      BY <2>6, <3>2, AppendProperties DEF PassOn, TypeOK
    <3>4. FrameUnits * Len(decoded') = FrameUnits * Len(decoded) + FrameUnits
      BY <2>1, <3>3
    <3>5. Rest' = Rest
      BY <2>1, <2>6, <3>4 DEF PassOn, Remaining
    <3>6. QED
      BY <2>6, <3>5 DEF PassOn, BytesAccounted
  <2>7. CASE EndLoop
    <3>1. Len(buf') = Len(buf) - pos /\ pos' = 0
      BY <2>1, <2>7, CompactedKeeps DEF EndLoop
    <3>2. Rest' = Rest
      BY <2>1, <2>7, <3>1 DEF EndLoop, Remaining
    <3>3. QED
      BY <2>7, <3>2 DEF EndLoop, BytesAccounted
  <2>8. CASE UNCHANGED vars
    BY <2>8 DEF vars, BytesAccounted, Remaining
  <2>9. QED
    BY <2>2, <2>3, <2>4, <2>5, <2>6, <2>7, <2>8 DEF Next, Decode
<1>3. QED
  BY <1>1, <1>2, Typing, PTL DEF Spec

(***************************************************************************)
(* The decoders lose no frame                                              *)
(***************************************************************************)

Cursor == Len(read) - Len(buf) + pos    \* the position, in what was read

(* All of frame f was read, from position p on.                             *)
Whole(f, p) ==
  /\ p + FrameUnits <= Len(read)
  /\ \A u \in 0 .. FrameUnits - 1 : read[p + 1 + u] = <<f, u>>

(* The buffer is the end of what was read, and the stream goes on from it.  *)
BufferInv ==
  /\ Ordered(read \o stream)
  /\ Len(buf) <= Len(read)
  /\ \A k \in 1 .. Len(buf) : buf[k] = read[Len(read) - Len(buf) + k]

(* A frame that begins before the position had all its room by then, so it  *)
(* does not become whole later.                                             *)
RoomInv ==
  \A p \in 0 .. Cursor - 1 : read[p + 1][2] = 0 => p + FrameUnits <= Len(read)

(* The frames decoded are those that are whole and begin before the         *)
(* position.                                                                *)
DecodedInv ==
  /\ \A p \in 0 .. Cursor - 1, f \in Frames :
       Whole(f, p) => \E k \in 1 .. Len(decoded) : decoded[k] = f
  /\ \A k \in 1 .. Len(decoded) :
       \E p \in 0 .. Cursor - FrameUnits : Whole(decoded[k], p)
  /\ \A k \in 1 .. Len(decoded) - 1 : decoded[k] < decoded[k + 1]

StreamInv == BufferInv /\ RoomInv /\ DecodedInv /\ (pc = "idle" => pos = 0)

(* A window of a sequence is frame f when its units are.                    *)
LEMMA WindowIsFrame ==
  ASSUME NEW s \in Seq(StreamUnits), NEW f \in Frames, NEW p \in Nat,
         p + FrameUnits <= Len(s)
  PROVE  SubSeq(s, p + 1, p + FrameUnits) = Part(f, 0, FrameUnits)
           <=> \A u \in 0 .. FrameUnits - 1 : s[p + 1 + u] = <<f, u>>
<1> USE DecoderAssumption
<1> DEFINE w == SubSeq(s, p + 1, p + FrameUnits)
           frame == Part(f, 0, FrameUnits)
<1>1. /\ w \in Seq(StreamUnits) /\ Len(w) = FrameUnits
      /\ \A k \in 1 .. FrameUnits : w[k] = s[p + k]
  <2>1. /\ p + 1 \in 1 .. Len(s) + 1
        /\ p + FrameUnits \in (p + 1) - 1 .. Len(s)
        /\ (p + FrameUnits) - (p + 1) + 1 = FrameUnits
        /\ \A k \in 1 .. FrameUnits : (p + 1) + k - 1 = p + k
    BY LenProperties
  <2> QED BY <2>1, SubSeqElements
<1>2. /\ frame \in Seq(StreamUnits) /\ Len(frame) = FrameUnits
      /\ \A k \in 1 .. FrameUnits : frame[k] = <<f, k - 1>>
  <2>1. frame = [u \in 1 .. FrameUnits - 0 |-> <<f, 0 + u - 1>>]
    BY DEF Part
  <2>2. /\ FrameUnits - 0 = FrameUnits
        /\ \A u \in 1 .. FrameUnits : 0 + u - 1 = u - 1
        /\ \A u \in 1 .. FrameUnits : u - 1 \in 0 .. FrameUnits - 1
    OBVIOUS
  <2> HIDE DEF frame
  <2>3. frame \in [1 .. FrameUnits -> StreamUnits]
        /\ \A k \in 1 .. FrameUnits : frame[k] = <<f, k - 1>>
    BY <2>1, <2>2 DEF StreamUnits
  <2> QED BY <2>3, FunctionIsSeq
<1> HIDE DEF w, frame
<1>3. w = frame <=> \A k \in 1 .. FrameUnits : w[k] = frame[k]
  BY <1>1, <1>2, SeqEqual
<1>4. (\A k \in 1 .. FrameUnits : w[k] = frame[k])
        <=> \A u \in 0 .. FrameUnits - 1 : s[p + 1 + u] = <<f, u>>
  <2>1. ASSUME \A k \in 1 .. FrameUnits : w[k] = frame[k],
               NEW u \in 0 .. FrameUnits - 1
        PROVE  s[p + 1 + u] = <<f, u>>
    <3>1. u + 1 \in 1 .. FrameUnits /\ p + (u + 1) = p + 1 + u /\ (u + 1) - 1 = u
      OBVIOUS
    <3> QED BY <1>1, <1>2, <2>1, <3>1
  <2>2. ASSUME \A u \in 0 .. FrameUnits - 1 : s[p + 1 + u] = <<f, u>>,
               NEW k \in 1 .. FrameUnits
        PROVE  w[k] = frame[k]
    <3>1. k - 1 \in 0 .. FrameUnits - 1 /\ p + 1 + (k - 1) = p + k
      OBVIOUS
    <3> QED BY <1>1, <1>2, <2>2, <3>1
  <2> QED BY <2>1, <2>2
<1> QED BY <1>3, <1>4 DEF w, frame

(* The numbers of the buffer and of what was read.                          *)
LEMMA Lengths ==
  ASSUME TypeOK, BufferInv
  PROVE  /\ Len(buf) \in Nat /\ Len(read) \in Nat /\ Len(decoded) \in Nat
         /\ pos \in Nat /\ pos <= Len(buf) /\ Len(buf) <= Len(read)
         /\ Cursor \in Nat /\ Cursor <= Len(read)
         /\ Len(read) - Cursor = Remaining
<1>1. /\ Len(buf) \in Nat /\ Len(read) \in Nat /\ Len(decoded) \in Nat
      /\ pos \in 0 .. Len(buf)
  BY LenProperties DEF TypeOK
<1>2. Len(buf) <= Len(read)
  BY DEF BufferInv
<1> QED BY <1>1, <1>2 DEF Cursor, Remaining

(* What is read at a place of the buffer.                                   *)
LEMMA InBuffer ==
  ASSUME TypeOK, BufferInv, NEW k \in Int, pos < k, k <= Len(buf)
  PROVE  buf[k] = read[Cursor + (k - pos)]
<1>1. Cursor + (k - pos) = Len(read) - Len(buf) + k /\ k \in 1 .. Len(buf)
  BY Lengths DEF Cursor
<1> QED BY <1>1 DEF BufferInv

(* verify_frame accepts what is a whole frame of the stream.                *)
LEMMA CrcOfWindow ==
  ASSUME TypeOK, BufferInv, FrameUnits <= Remaining, NEW f \in Frames
  PROVE  SubSeq(buf, pos + 1, pos + FrameUnits) = Part(f, 0, FrameUnits)
           <=> Whole(f, Cursor)
<1> USE DecoderAssumption
<1>1. pos + FrameUnits <= Len(buf) /\ Cursor + FrameUnits <= Len(read)
      /\ pos \in Nat /\ buf \in Seq(StreamUnits)
  BY Lengths DEF Remaining, TypeOK
<1>2. SubSeq(buf, pos + 1, pos + FrameUnits) = Part(f, 0, FrameUnits)
        <=> \A u \in 0 .. FrameUnits - 1 : buf[pos + 1 + u] = <<f, u>>
  BY <1>1, WindowIsFrame
<1>3. \A u \in 0 .. FrameUnits - 1 : buf[pos + 1 + u] = read[Cursor + 1 + u]
  <2> SUFFICES ASSUME NEW u \in 0 .. FrameUnits - 1
               PROVE  buf[pos + 1 + u] = read[Cursor + 1 + u]
    OBVIOUS
  <2>1. pos + 1 + u \in Int /\ pos < pos + 1 + u /\ pos + 1 + u <= Len(buf)
    BY <1>1
  <2>2. buf[pos + 1 + u] = read[Cursor + ((pos + 1 + u) - pos)]
    BY <2>1, InBuffer
  <2>3. Cursor + ((pos + 1 + u) - pos) = Cursor + 1 + u
    BY <1>1, Lengths
  <2> QED BY <2>2, <2>3
<1> QED BY <1>1, <1>2, <1>3 DEF Whole

(* Frames that are whole come in their order.                               *)
LEMMA WholeInOrder ==
  ASSUME TypeOK, BufferInv, NEW f \in Frames, NEW g \in Frames,
         NEW p \in Nat, NEW q \in Nat, Whole(f, p), Whole(g, q), p < q
  PROVE  f < g
<1> USE DecoderAssumption
<1> DEFINE s == read \o stream
<1>1. /\ Len(read) \in Nat /\ Len(stream) \in Nat
      /\ Len(s) = Len(read) + Len(stream)
      /\ \A k \in 1 .. Len(read) : s[k] = read[k]
  BY ConcatElements, LenProperties DEF TypeOK
<1>2. Ordered(s)
  BY DEF BufferInv
<1> HIDE DEF s
<1>3. /\ 0 \in 0 .. FrameUnits - 1
      /\ p + 1 + 0 = p + 1 /\ q + 1 + 0 = q + 1
      /\ p + 1 \in 1 .. Len(read) /\ q + 1 \in 1 .. Len(read)
      /\ p + 1 \in 1 .. Len(s) /\ q + 1 \in 1 .. Len(s) /\ p + 1 < q + 1
  BY <1>1 DEF Whole
<1>4. s[p + 1] = <<f, 0>> /\ s[q + 1] = <<g, 0>>
  BY <1>1, <1>3 DEF Whole
<1>5. \/ s[p + 1][1] < s[q + 1][1]
      \/ s[q + 1][2] - s[p + 1][2] = (q + 1) - (p + 1)
  BY <1>2, <1>3 DEF Ordered
<1>6. f < g \/ 0 - 0 = (q + 1) - (p + 1)
  BY <1>4, <1>5
<1> QED BY <1>6

(* No frame begins at p that is whole, or will be when more is read.        *)
NoFrame(p) ==
  /\ read[p + 1][2] = 0 => p + FrameUnits <= Len(read)
  /\ \A f \in Frames : ~Whole(f, p)

(* The position may go on over such places.                                 *)
LEMMA Skipping ==
  ASSUME TypeOK, StreamInv, UNCHANGED <<read, decoded>>,
         NEW next \in Cursor .. Len(read), Cursor' = next,
         \A p \in Cursor .. next - 1 : NoFrame(p)
  PROVE  RoomInv' /\ DecodedInv'
<1>1. Cursor \in Nat /\ next \in Nat /\ Cursor <= next
  BY Lengths DEF StreamInv
<1>2. \A p \in 0 .. next - 1 : p \in 0 .. Cursor - 1 \/ p \in Cursor .. next - 1
  BY <1>1
<1>3. \A f, p : Whole(f, p)' <=> Whole(f, p)
  BY DEF Whole
<1>4. RoomInv'
  <2>1. \A p \in 0 .. next - 1 : read[p + 1][2] = 0 => p + FrameUnits <= Len(read)
    BY <1>2 DEF StreamInv, RoomInv, NoFrame
  <2> QED BY <2>1 DEF RoomInv
<1>5. \A p \in 0 .. next - 1, f \in Frames :
        Whole(f, p) => \E k \in 1 .. Len(decoded) : decoded[k] = f
  <2>1. SUFFICES ASSUME NEW p \in 0 .. next - 1, NEW f \in Frames, Whole(f, p)
                 PROVE  \E k \in 1 .. Len(decoded) : decoded[k] = f
    OBVIOUS
  <2>2. p \in 0 .. Cursor - 1
    BY <1>2, <2>1 DEF NoFrame
  <2> QED BY <2>1, <2>2 DEF StreamInv, DecodedInv
<1>6. \A k \in 1 .. Len(decoded) :
        \E p \in 0 .. next - FrameUnits : Whole(decoded[k], p)
  <2> SUFFICES ASSUME NEW k \in 1 .. Len(decoded)
               PROVE  \E p \in 0 .. next - FrameUnits : Whole(decoded[k], p)
    OBVIOUS
  <2>1. PICK p \in 0 .. Cursor - FrameUnits : Whole(decoded[k], p)
    BY DEF StreamInv, DecodedInv
  <2>2. FrameUnits \in Nat
    BY DecoderAssumption
  <2>3. p \in 0 .. next - FrameUnits
    <3>1. Cursor - FrameUnits <= next - FrameUnits
          /\ Cursor - FrameUnits \in Int /\ next - FrameUnits \in Int
      BY <1>1, <2>2
    <3>2. p \in Int /\ 0 <= p /\ p <= Cursor - FrameUnits
      BY <2>1, <3>1
    <3> QED BY <3>1, <3>2
  <2> QED BY <2>1, <2>3
<1>7. \A k \in 1 .. Len(decoded) - 1 : decoded[k] < decoded[k + 1]
  BY DEF StreamInv, DecodedInv
<1>8. DecodedInv'
  <2>1. \A p \in 0 .. Cursor' - 1, f \in Frames :
          Whole(f, p)' => \E k \in 1 .. Len(decoded') : decoded'[k] = f
    BY <1>3, <1>5
  <2>2. \A k \in 1 .. Len(decoded') :
          \E p \in 0 .. Cursor' - FrameUnits : Whole(decoded[k], p)'
    BY <1>3, <1>6
  <2> QED BY <2>1, <2>2, <1>7 DEF DecodedInv
<1> QED BY <1>4, <1>8

(* Where no magic is found, no frame begins.                                *)
LEMMA NotMagic ==
  ASSUME TypeOK, BufferInv, NEW p \in Int, Cursor <= p,
         p <= Len(read) - FrameUnits, (p - Cursor) + pos \notin MagicAt
  PROVE  NoFrame(p)
<1> USE DecoderAssumption
<1> DEFINE i == (p - Cursor) + pos
<1>1. i \in pos .. Len(buf) - FrameUnits /\ pos < i + 1 /\ i + 1 <= Len(buf)
      /\ i + 1 \in Int
  <2>1. Cursor = Len(read) - Len(buf) + pos
    BY DEF Cursor
  <2>2. /\ Len(buf) \in Nat /\ Len(read) \in Nat /\ pos \in Nat
        /\ Cursor \in Nat
    BY Lengths
  <2>3. FrameUnits \in Nat /\ FrameUnits >= 2
    OBVIOUS
  <2>4. i = p - (Len(read) - Len(buf))
    BY <2>1, <2>2
  <2> HIDE DEF i
  <2>5. pos <= i /\ i <= Len(buf) - FrameUnits /\ i \in Int
    BY <2>1, <2>2, <2>3, <2>4
  <2> QED BY <2>2, <2>3, <2>5
<1>2. Cursor + ((i + 1) - pos) = p + 1 /\ 0 \in 0 .. FrameUnits - 1
      /\ p + 1 + 0 = p + 1
  BY Lengths
<1>3. ~IsMagic(buf[i + 1])
  BY <1>1 DEF MagicAt
<1> HIDE DEF i
<1>4. buf[i + 1] = read[p + 1]
  <2>1. buf[i + 1] = read[Cursor + ((i + 1) - pos)]
    BY <1>1, InBuffer
  <2> QED BY <1>2, <2>1
<1>5. read[p + 1][2] # 0
  BY <1>3, <1>4 DEF IsMagic
<1>6. ASSUME NEW f \in Frames, Whole(f, p) PROVE FALSE
  <2>1. read[p + 1] = <<f, 0>>
    BY <1>2, <1>6 DEF Whole
  <2> QED BY <1>5, <2>1
<1> QED BY <1>5, <1>6 DEF NoFrame

(* The loop moves on, in the buffer it has.                                 *)
LEMMA InPlace ==
  ASSUME TypeOK, StreamInv, pc = "decoding", NEW to \in pos .. Len(buf),
         pos' = to, UNCHANGED <<stream, read, buf, pc, decoded>>,
         NEW next, next = Cursor + (to - pos),
         \A p \in Cursor .. next - 1 : NoFrame(p)
  PROVE  StreamInv'
<1>1. /\ Cursor' = Cursor + (to - pos)
      /\ Cursor + (to - pos) \in Cursor .. Len(read)
  BY Lengths DEF Cursor, StreamInv
<1>2. RoomInv' /\ DecodedInv'
  <2>1. next \in Cursor .. Len(read) /\ Cursor' = next
    BY <1>1
  <2> QED BY <2>1, Skipping
<1>3. BufferInv'
  BY DEF StreamInv, BufferInv
<1> QED BY <1>2, <1>3 DEF StreamInv

(* The loop ends, with what lies behind from in the buffer.                 *)
LEMMA Compacting ==
  ASSUME TypeOK, StreamInv, NEW from \in pos .. Len(buf), Compacted(from),
         UNCHANGED <<stream, read, decoded>>,
         NEW next, next = Cursor + (from - pos),
         \A p \in Cursor .. next - 1 : NoFrame(p)
  PROVE  StreamInv'
<1>1. from \in 0 .. Len(buf) /\ buf \in Seq(StreamUnits)
  BY Lengths DEF StreamInv, TypeOK
<1>2. IsRest(buf', from, buf)
  BY <1>1, SplitIn DEF Compacted
<1>3. Len(buf') = Len(buf) - from
      /\ \A k \in 1 .. Len(buf) - from : buf'[k] = buf[from + k]
  BY <1>2 DEF IsRest
<1>4. /\ Cursor' = Cursor + (from - pos)
      /\ Cursor + (from - pos) \in Cursor .. Len(read)
  <2>1. /\ Len(buf) \in Nat /\ Len(read) \in Nat /\ pos \in Nat
        /\ pos <= Len(buf)
    BY Lengths DEF StreamInv
  <2>2. pos' = 0 /\ Len(buf') = Len(buf) - from /\ read' = read
    BY <1>3 DEF Compacted
  <2>3. Len(buf) <= Len(read)
    BY Lengths DEF StreamInv
  <2> QED BY <2>1, <2>2, <2>3 DEF Cursor
<1>5. RoomInv' /\ DecodedInv'
  <2>1. next \in Cursor .. Len(read) /\ Cursor' = next
    BY <1>4
  <2> QED BY <2>1, Skipping
<1>6. BufferInv'
  <2>1. Len(buf') <= Len(read')
    BY <1>1, <1>3, Lengths DEF StreamInv
  <2>2. ASSUME NEW k \in 1 .. Len(buf')
        PROVE  buf'[k] = read[Len(read) - Len(buf') + k]
    <3>1. k \in 1 .. Len(buf) - from /\ from + k \in 1 .. Len(buf)
          /\ Len(read) - Len(buf) + (from + k) = Len(read) - Len(buf') + k
      BY <1>1, <1>3, Lengths DEF StreamInv
    <3>2. buf'[k] = buf[from + k]
      BY <1>3, <3>1
    <3>3. buf[from + k] = read[Len(read) - Len(buf) + (from + k)]
      BY <3>1 DEF StreamInv, BufferInv
    <3> QED BY <3>1, <3>2, <3>3
  <2> QED BY <2>1, <2>2 DEF StreamInv, BufferInv
<1>7. pos' = 0
  BY DEF Compacted
<1> QED BY <1>5, <1>6, <1>7 DEF StreamInv

(* A read brings nothing before the position.                               *)
LEMMA Reading ==
  ASSUME TypeOK, StreamInv, Read
  PROVE  StreamInv'
<1> USE DecoderAssumption
<1>1. PICK n \in 1 .. Len(stream) :
        /\ buf' = buf \o SubSeq(stream, 1, n)
        /\ read' = read \o SubSeq(stream, 1, n)
        /\ stream' = SubSeq(stream, n + 1, Len(stream))
  BY DEF Read
<1>2. /\ {stream, read, buf} \subseteq Seq(StreamUnits)
      /\ Len(buf) \in Nat /\ Len(read) \in Nat /\ Len(stream) \in Nat
      /\ n \in 0 .. Len(stream) /\ n \in Nat
      /\ pos \in Nat /\ Cursor \in Nat
  BY Lengths, LenProperties DEF StreamInv, TypeOK
<1>3. /\ Len(read') = Len(read) + n
      /\ \A k \in 1 .. Len(read) : read'[k] = read[k]
      /\ \A k \in 1 .. n : read'[Len(read) + k] = stream[k]
      /\ read' \o stream' = read \o stream
  <2> DEFINE more == read \o SubSeq(stream, 1, n)
             rest == SubSeq(stream, n + 1, Len(stream))
  <2>1. /\ Len(more) = Len(read) + n
        /\ \A k \in 1 .. Len(read) : more[k] = read[k]
        /\ \A k \in 1 .. n : more[Len(read) + k] = stream[k]
        /\ more \o rest = read \o stream
    <3>1. read \in Seq(StreamUnits) /\ stream \in Seq(StreamUnits)
          /\ n \in 0 .. Len(stream)
      BY <1>2
    <3>2. Len(more) = Len(read) + n
      BY <3>1, FrontMoves
    <3>3. \A k \in 1 .. Len(read) : more[k] = read[k]
      BY <3>1, FrontMoves
    <3>4. \A k \in 1 .. n : more[Len(read) + k] = stream[k]
      BY <3>1, FrontMoves
    <3>5. more \o rest = read \o stream
      BY <3>1, FrontRegroups
    <3> QED BY <3>2, <3>3, <3>4, <3>5
  <2>2. read' = more /\ stream' = rest
    BY <1>1
  <2> HIDE DEF more, rest
  <2> QED BY <2>1, <2>2
<1>4. /\ Len(buf') = Len(buf) + n
      /\ \A k \in 1 .. Len(buf) : buf'[k] = buf[k]
      /\ \A k \in 1 .. n : buf'[Len(buf) + k] = stream[k]
  BY <1>1, <1>2, FrontMoves
<1>5. Cursor' = Cursor /\ UNCHANGED <<pos, decoded>> /\ pc' # "idle"
  BY <1>2, <1>3, <1>4 DEF Read, Cursor
<1>6. BufferInv'
  <2>1. Len(buf') <= Len(read')
    BY <1>2, <1>3, <1>4 DEF StreamInv, BufferInv
  <2>2. ASSUME NEW k \in 1 .. Len(buf')
        PROVE  buf'[k] = read'[Len(read') - Len(buf') + k]
    <3> DEFINE before == Len(read) - Len(buf)
    <3>1. Len(read') - Len(buf') = before /\ before \in Nat
      BY <1>2, <1>3, <1>4 DEF StreamInv, BufferInv
    <3>2. CASE k <= Len(buf)
      <4>1. k \in 1 .. Len(buf) /\ before + k \in 1 .. Len(read)
        BY <1>2, <3>1, <3>2
      <4>2. buf'[k] = buf[k] /\ read'[before + k] = read[before + k]
        BY <1>3, <1>4, <4>1
      <4>3. buf[k] = read[before + k]
        BY <4>1 DEF StreamInv, BufferInv
      <4> QED BY <3>1, <4>2, <4>3
    <3>3. CASE k > Len(buf)
      <4>1. /\ k - Len(buf) \in 1 .. n
            /\ Len(buf) + (k - Len(buf)) = k
            /\ Len(read) + (k - Len(buf)) = before + k
        BY <1>2, <1>4, <3>3
      <4>2. buf'[Len(buf) + (k - Len(buf))] = stream[k - Len(buf)]
        BY <1>4, <4>1
      <4>3. read'[Len(read) + (k - Len(buf))] = stream[k - Len(buf)]
        BY <1>3, <4>1
      <4>4. read'[before + k] = buf'[k]
        <5> HIDE DEF before
        <5> QED BY <4>1, <4>2, <4>3
      <4> QED BY <3>1, <4>4
    <3> QED BY <1>2, <1>4, <3>2, <3>3
  <2> QED BY <1>3, <2>1, <2>2 DEF StreamInv, BufferInv
<1>7. ASSUME NEW p \in 0 .. Cursor - 1
      PROVE  /\ read'[p + 1] = read[p + 1]
             /\ p + FrameUnits <= Len(read) => p + FrameUnits <= Len(read')
  <2>1. p + 1 \in 1 .. Len(read)
    BY Lengths, <1>7 DEF StreamInv
  <2> QED BY <1>2, <1>3, <2>1
<1>8. RoomInv'
  <2>1. \A p \in 0 .. Cursor - 1 :
          read'[p + 1][2] = 0 => p + FrameUnits <= Len(read')
    BY <1>7 DEF StreamInv, RoomInv
  <2> QED BY <1>5, <2>1 DEF RoomInv
<1>9. ASSUME NEW f, NEW p \in Nat, p + FrameUnits <= Len(read)
      PROVE  Whole(f, p)' <=> Whole(f, p)
  <2>1. \A u \in 0 .. FrameUnits - 1 : p + 1 + u \in 1 .. Len(read)
    BY <1>2, <1>9
  <2>2. \A u \in 0 .. FrameUnits - 1 : read'[p + 1 + u] = read[p + 1 + u]
    BY <1>3, <2>1
  <2>3. p + FrameUnits <= Len(read')
    BY <1>2, <1>3, <1>9
  <2> QED BY <1>9, <2>2, <2>3 DEF Whole
<1>10. ASSUME NEW p \in 0 .. Cursor - 1, NEW f \in Frames, Whole(f, p)'
       PROVE  \E k \in 1 .. Len(decoded) : decoded[k] = f
  <2>1. 0 \in 0 .. FrameUnits - 1 /\ p + 1 + 0 = p + 1 /\ p \in Nat
    BY <1>2
  <2>2. read'[p + 1] = <<f, 0>>
    BY <1>10, <2>1 DEF Whole
  <2>3. p + FrameUnits <= Len(read)
    BY <1>7, <2>2 DEF StreamInv, RoomInv
  <2>4. Whole(f, p)
    BY <1>9, <1>10, <2>1, <2>3
  <2> QED BY <2>4 DEF StreamInv, DecodedInv
<1>11. ASSUME NEW k \in 1 .. Len(decoded)
       PROVE  \E p \in 0 .. Cursor - FrameUnits : Whole(decoded[k], p)'
  <2>1. PICK p \in 0 .. Cursor - FrameUnits : Whole(decoded[k], p)
    BY DEF StreamInv, DecodedInv
  <2>2. p \in Nat /\ p + FrameUnits <= Len(read)
    BY <1>2, <2>1 DEF Whole
  <2>3. Whole(decoded[k], p)'
    <3>1. PICK f : f = decoded[k]
      OBVIOUS
    <3>2. Whole(f, p)'
      BY <1>9, <2>1, <2>2, <3>1
    <3>3. decoded'[k] = f
      BY <1>5, <3>1
    <3> QED BY <3>2, <3>3 DEF Whole
  <2> QED BY <2>3
<1>12. DecodedInv'
  <2>1. \A k \in 1 .. Len(decoded) - 1 : decoded[k] < decoded[k + 1]
    BY DEF StreamInv, DecodedInv
  <2>2. \A k \in 1 .. Len(decoded) :
          \E p \in 0 .. Cursor - FrameUnits : Whole(decoded[k], p)'
    BY <1>5, <1>11
  <2> QED BY <1>5, <1>10, <2>1, <2>2 DEF DecodedInv
<1> QED BY <1>5, <1>6, <1>8, <1>12 DEF StreamInv

(* A frame is passed on that is whole, behind those that were before it.    *)
LEMMA Passing ==
  ASSUME TypeOK, StreamInv, PassOn
  PROVE  StreamInv'
<1> USE DecoderAssumption
<1> DEFINE n == Len(decoded)
<1>1. /\ n \in Nat /\ Cursor \in Nat /\ pos \in Nat
      /\ FrameUnits <= Remaining /\ Cursor + FrameUnits <= Len(read)
      /\ Len(read) \in Nat /\ pos + 1 <= Len(buf) /\ pos + 1 \in Int
  BY Lengths DEF PassOn, InLoop, Remaining, StreamInv
<1>2. PICK f \in Frames : Whole(f, Cursor)
  BY <1>1, CrcOfWindow DEF PassOn, CrcOk, StreamInv
<1>3. \A u \in 0 .. FrameUnits - 1 : read[Cursor + 1 + u] = <<f, u>>
  BY <1>2 DEF Whole
<1>4. buf[pos + 1][1] = f
  <2>1. buf[pos + 1] = read[Cursor + ((pos + 1) - pos)]
    BY <1>1, InBuffer DEF StreamInv
  <2>2. Cursor + ((pos + 1) - pos) = Cursor + 1 + 0 /\ 0 \in 0 .. FrameUnits - 1
    BY <1>1
  <2>3. buf[pos + 1] = <<f, 0>>
    BY <1>3, <2>1, <2>2
  <2> QED BY <2>3
<1>5. /\ Len(decoded') = n + 1 /\ decoded'[n + 1] = f
      /\ \A k \in 1 .. n : decoded'[k] = decoded[k]
  <2>1. decoded \in Seq(Frames)
    BY DEF TypeOK
  <2>2. decoded' = Append(decoded, f)
    BY <1>4 DEF PassOn
  <2> QED BY <2>1, <2>2, AppendProperties
<1>6. Cursor' = Cursor + FrameUnits /\ UNCHANGED <<stream, read, buf, pc>>
  BY <1>1 DEF PassOn, Cursor
<1>7. \A g, p : Whole(g, p)' <=> Whole(g, p)
  BY <1>6 DEF Whole
<1>8. ASSUME NEW p \in Cursor + 1 .. Cursor + FrameUnits - 1
      PROVE  read[p + 1][2] # 0 /\ \A g \in Frames : ~Whole(g, p)
  <2>1. p - Cursor \in 0 .. FrameUnits - 1 /\ p - Cursor # 0
        /\ Cursor + 1 + (p - Cursor) = p + 1
        /\ 0 \in 0 .. FrameUnits - 1 /\ p + 1 + 0 = p + 1
    BY <1>1
  <2>2. read[p + 1] = <<f, p - Cursor>>
    BY <1>3, <2>1
  <2>3. read[p + 1][2] # 0
    BY <2>1, <2>2
  <2>4. ASSUME NEW g \in Frames, Whole(g, p) PROVE FALSE
    <3>1. read[p + 1] = <<g, 0>>
      BY <2>1, <2>4 DEF Whole
    <3> QED BY <2>3, <3>1
  <2> QED BY <2>3, <2>4
<1>9. \A p \in 0 .. Cursor + FrameUnits - 1 :
        \/ p \in 0 .. Cursor - 1
        \/ p = Cursor
        \/ p \in Cursor + 1 .. Cursor + FrameUnits - 1
  BY <1>1
<1>10. RoomInv'
  <2>1. \A p \in 0 .. Cursor + FrameUnits - 1 :
          read[p + 1][2] = 0 => p + FrameUnits <= Len(read)
    BY <1>1, <1>8, <1>9 DEF StreamInv, RoomInv
  <2>2. PICK next : next = Cursor + FrameUnits
    OBVIOUS
  <2>3. \A p \in 0 .. next - 1 :
          read[p + 1][2] = 0 => p + FrameUnits <= Len(read)
    <3>1. \A p \in 0 .. next - 1 : p \in 0 .. Cursor + FrameUnits - 1
      BY <1>1, <2>2
    <3> QED BY <2>1, <3>1
  <2>4. Cursor' = next /\ read' = read
    BY <1>6, <2>2
  <2> QED BY <2>3, <2>4 DEF RoomInv
<1>11. ASSUME NEW p \in 0 .. Cursor + FrameUnits - 1, NEW g \in Frames,
              Whole(g, p)
       PROVE  \E k \in 1 .. n + 1 : decoded'[k] = g
  <2>1. CASE p \in 0 .. Cursor - 1
    <3>1. PICK k \in 1 .. n : decoded[k] = g
      BY <1>11, <2>1 DEF StreamInv, DecodedInv
    <3>2. k \in 1 .. n + 1 /\ decoded'[k] = g
      BY <1>1, <1>5, <3>1
    <3> QED BY <3>2
  <2>2. CASE p = Cursor
    <3>1. 0 \in 0 .. FrameUnits - 1
      OBVIOUS
    <3>2. read[Cursor + 1 + 0] = <<f, 0>> /\ read[Cursor + 1 + 0] = <<g, 0>>
      BY <1>3, <1>11, <2>2, <3>1 DEF Whole
    <3>3. f = g /\ n + 1 \in 1 .. n + 1
      BY <1>1, <3>2
    <3> QED BY <1>5, <3>3
  <2> QED BY <1>8, <1>9, <1>11, <2>1, <2>2
<1>12. ASSUME NEW k \in 1 .. n + 1
       PROVE  \E p \in 0 .. Cursor' - FrameUnits : Whole(decoded[k], p)'
  <2>1. CASE k = n + 1
    <3>1. Cursor \in 0 .. Cursor' - FrameUnits
      BY <1>1, <1>6
    <3>2. Whole(f, Cursor) /\ decoded'[k] = f
      BY <1>2, <1>5, <2>1
    <3>3. PICK p : p = Cursor
      OBVIOUS
    <3>4. Whole(f, p)'
      BY <1>7, <3>2, <3>3
    <3>5. Whole(decoded[k], p)'
      BY <3>2, <3>4 DEF Whole
    <3> QED BY <3>1, <3>3, <3>5
  <2>2. CASE k # n + 1
    <3>1. k \in 1 .. n
      BY <1>1, <2>2
    <3>2. PICK p \in 0 .. Cursor - FrameUnits : Whole(decoded[k], p)
      BY <3>1 DEF StreamInv, DecodedInv
    <3>3. PICK g : g = decoded[k]
      OBVIOUS
    <3>4. Whole(g, p)' /\ decoded'[k] = g
      BY <1>5, <1>7, <3>1, <3>2, <3>3
    <3>5. Whole(decoded[k], p)'
      BY <3>4 DEF Whole
    <3>6. p \in 0 .. Cursor' - FrameUnits
      BY <1>1, <1>6, <3>2
    <3> QED BY <3>5, <3>6
  <2> QED BY <2>1, <2>2
<1>13. ASSUME NEW k \in 1 .. n PROVE decoded'[k] < decoded'[k + 1]
  <2>1. decoded'[k] = decoded[k]
    BY <1>5
  <2>2. CASE k = n
    <3>1. PICK p \in 0 .. Cursor - FrameUnits : Whole(decoded[k], p)
      BY <1>13 DEF StreamInv, DecodedInv
    <3>2. p \in Nat /\ p < Cursor
      BY <1>1, <3>1
    <3>3. decoded[k] \in Frames
      BY <1>13, ElementOfSeq DEF TypeOK
    <3>4. decoded[k] < f
      BY <1>1, <1>2, <3>1, <3>2, <3>3, WholeInOrder DEF StreamInv
    <3> QED BY <1>5, <2>1, <2>2, <3>4
  <2>3. CASE k # n
    <3>1. k \in 1 .. n - 1 /\ k + 1 \in 1 .. n
      BY <1>1, <2>3
    <3>2. decoded[k] < decoded[k + 1]
      BY <3>1 DEF StreamInv, DecodedInv
    <3> QED BY <1>5, <2>1, <3>1, <3>2
  <2> QED BY <2>2, <2>3
<1>14. DecodedInv'
  <2>1. \A p \in 0 .. Cursor' - 1, g \in Frames :
          Whole(g, p)' => \E k \in 1 .. Len(decoded') : decoded'[k] = g
    <3>1. PICK next : next = Cursor + FrameUnits
      OBVIOUS
    <3>2. PICK count : count = n + 1
      OBVIOUS
    <3>3. \A p \in 0 .. next - 1, g \in Frames :
            Whole(g, p) => \E k \in 1 .. count : decoded'[k] = g
      <4>1. \A p \in 0 .. next - 1 : p \in 0 .. Cursor + FrameUnits - 1
        BY <1>1, <3>1
      <4> QED BY <1>11, <3>2, <4>1
    <3>4. Cursor' = next /\ Len(decoded') = count
      BY <1>5, <1>6, <3>1, <3>2
    <3> QED BY <1>7, <3>3, <3>4
  <2>2. \A k \in 1 .. Len(decoded') :
          \E p \in 0 .. Cursor' - FrameUnits : Whole(decoded[k], p)'
    BY <1>5, <1>12
  <2>3. \A k \in 1 .. Len(decoded') - 1 : decoded'[k] < decoded'[k + 1]
    <3>1. Len(decoded') - 1 = n
      BY <1>1, <1>5
    <3> QED BY <1>13, <3>1
  <2> QED BY <2>1, <2>2, <2>3 DEF DecodedInv
<1>15. BufferInv'
  BY <1>6 DEF StreamInv, BufferInv
<1>16. pc' # "idle"
  BY <1>6 DEF PassOn, InLoop
<1> QED BY <1>10, <1>14, <1>15, <1>16 DEF StreamInv

(* The invariant holds at first: nothing was read, and the stream is in     *)
(* order.                                                                   *)
LEMMA StreamInvInit == Init => StreamInv
<1> SUFFICES ASSUME Init PROVE StreamInv
  OBVIOUS
<1> USE DecoderAssumption
<1>1. stream \in Seq(StreamUnits) /\ Ordered(stream)
  BY StreamIsOrdered DEF Init
<1>2. read = <<>> /\ buf = <<>> /\ pos = 0 /\ decoded = <<>>
  BY DEF Init
<1>3. Len(read) = 0 /\ Len(buf) = 0 /\ Len(decoded) = 0
  BY <1>2, EmptySeq
<1>4. read \o stream = stream
  BY <1>1, <1>2, ConcatEmptySeq
<1>5. BufferInv
  BY <1>1, <1>3, <1>4 DEF BufferInv
<1>6. Cursor = 0
  BY <1>2, <1>3 DEF Cursor
<1>7. RoomInv /\ DecodedInv
  BY <1>3, <1>6 DEF RoomInv, DecodedInv
<1> QED BY <1>2, <1>5, <1>7 DEF StreamInv

(* Every step keeps it.                                                     *)
LEMMA StreamInvNext ==
  TypeOK /\ StreamInv /\ [Next]_vars => StreamInv'
<1> SUFFICES ASSUME TypeOK, StreamInv, [Next]_vars PROVE StreamInv'
  OBVIOUS
<1> USE DecoderAssumption
<1>1. /\ Len(buf) \in Nat /\ Len(read) \in Nat
      /\ pos \in Nat /\ pos <= Len(buf) /\ Len(buf) <= Len(read)
      /\ Cursor \in Nat /\ Cursor <= Len(read)
      /\ Len(read) - Cursor = Remaining
      /\ Cursor - pos = Len(read) - Len(buf)
  <2>1. Cursor = Len(read) - Len(buf) + pos
    BY DEF Cursor
  <2> QED BY <2>1, Lengths DEF StreamInv
<1>2. CASE Read
  BY <1>2, Reading
<1>3. CASE SkipToMagic
  <2>1. PICK magic \in MagicAt : (\A i \in MagicAt : magic <= i) /\ pos' = magic
    BY <1>3 DEF SkipToMagic
  <2>2. magic \in pos .. Len(buf) - FrameUnits /\ magic \in pos .. Len(buf)
    BY <1>1, <2>1 DEF MagicAt
  <2>3. PICK next : next = Cursor + (magic - pos)
    OBVIOUS
  <2>4. ASSUME NEW p \in Cursor .. next - 1 PROVE NoFrame(p)
    <3>1. p \in Int /\ Cursor <= p /\ (p - Cursor) + pos < magic
          /\ p <= Len(read) - FrameUnits
      BY <1>1, <2>2, <2>3
    <3>2. (p - Cursor) + pos \notin MagicAt
      BY <1>1, <2>1, <2>2, <3>1
    <3> QED BY <3>1, <3>2, NotMagic DEF StreamInv
  <2>5. pc = "decoding" /\ UNCHANGED <<stream, read, buf, pc, decoded>>
    BY <1>3 DEF SkipToMagic, InLoop
  <2> QED BY <2>1, <2>2, <2>3, <2>4, <2>5, InPlace
<1>4. CASE DropNoise
  <2>1. PICK from : from = Len(buf) - (FrameUnits - 1)
    OBVIOUS
  <2>2. from \in pos .. Len(buf)
    BY <1>1, <1>4, <2>1 DEF DropNoise, InLoop, Remaining
  <2>3. PICK next : next = Cursor + (from - pos)
    OBVIOUS
  <2>4. ASSUME NEW p \in Cursor .. next - 1 PROVE NoFrame(p)
    <3>1. p \in Int /\ Cursor <= p /\ p <= Len(read) - FrameUnits
      BY <1>1, <2>1, <2>2, <2>3
    <3>2. (p - Cursor) + pos \notin MagicAt
      BY <1>4 DEF DropNoise
    <3> QED BY <3>1, <3>2, NotMagic DEF StreamInv
  <2>5. Compacted(from) /\ UNCHANGED <<stream, read, decoded>>
    BY <1>4, <2>1 DEF DropNoise
  <2> QED BY <2>2, <2>3, <2>4, <2>5, Compacting
<1>5. CASE Reject
  <2>1. PICK to : to = pos + 1
    OBVIOUS
  <2>2. to \in pos .. Len(buf) /\ FrameUnits <= Remaining /\ pos' = to
    BY <1>1, <1>5, <2>1 DEF Reject, InLoop, Remaining
  <2>3. PICK next : next = Cursor + (to - pos)
    OBVIOUS
  <2>4. \A f \in Frames : ~Whole(f, Cursor)
    BY <1>5, <2>2, CrcOfWindow DEF StreamInv, Reject, CrcOk
  <2>5. Cursor + FrameUnits <= Len(read)
    BY <1>1, <2>2
  <2>6. NoFrame(Cursor)
    BY <2>4, <2>5 DEF NoFrame
  <2>7. \A p \in Cursor .. next - 1 : p = Cursor
    BY <1>1, <2>1, <2>3
  <2>8. \A p \in Cursor .. next - 1 : NoFrame(p)
    BY <2>6, <2>7
  <2>9. pc = "decoding" /\ UNCHANGED <<stream, read, buf, pc, decoded>>
    BY <1>5 DEF Reject, InLoop
  <2> QED BY <2>2, <2>3, <2>8, <2>9, InPlace
<1>6. CASE PassOn
  BY <1>6, Passing
<1>7. CASE EndLoop
  <2>1. Compacted(pos) /\ UNCHANGED <<stream, read, decoded>>
    BY <1>7 DEF EndLoop
  <2>2. PICK from : from = pos
    OBVIOUS
  <2>3. PICK next : next = Cursor + (from - pos)
    OBVIOUS
  <2>4. from \in pos .. Len(buf) /\ Compacted(from)
    BY <1>1, <2>1, <2>2
  <2>5. \A p \in Cursor .. next - 1 : NoFrame(p)
    BY <1>1, <2>2, <2>3
  <2> QED BY <2>1, <2>3, <2>4, <2>5, Compacting
<1>8. CASE UNCHANGED vars
  <2>1. UNCHANGED <<stream, read, buf, pos, pc, decoded>>
    BY <1>8 DEF vars
  <2>2. Cursor' = Cursor /\ \A f, p : Whole(f, p)' <=> Whole(f, p)
    BY <2>1 DEF Cursor, Whole
  <2>3. BufferInv' /\ RoomInv'
    BY <2>1, <2>2 DEF StreamInv, BufferInv, RoomInv
  <2>4. DecodedInv'
    <3>1. PICK none : none = Cursor
      OBVIOUS
    <3>2. none \in Cursor .. Len(read) /\ Cursor' = none
          /\ \A p \in Cursor .. none - 1 : NoFrame(p)
      BY <1>1, <2>2, <3>1
    <3>3. UNCHANGED <<read, decoded>>
      BY <2>1
    <3> QED BY <3>2, <3>3, Skipping
  <2> QED BY <2>1, <2>3, <2>4 DEF StreamInv
<1> QED BY <1>2, <1>3, <1>4, <1>5, <1>6, <1>7, <1>8 DEF Next, Decode

(* When the loop has ended, the position is behind every frame that is      *)
(* whole, as less than a frame is left.                                     *)
LEMMA AllDecoded ==
  TypeOK /\ StreamInv /\ CarriesLessThanAFrame => WholeFramesDecoded
<1> SUFFICES ASSUME TypeOK, StreamInv, Len(buf) < FrameUnits, pos = 0
             PROVE  /\ Range(decoded) = WholeFrames
                    /\ \A i \in 1 .. Len(decoded) - 1 :
                         decoded[i] < decoded[i + 1]
  BY DEF WholeFramesDecoded, CarriesLessThanAFrame, StreamInv
<1> USE DecoderAssumption
<1>1. /\ Len(buf) \in Nat /\ Len(read) \in Nat /\ Cursor \in Nat
      /\ Cursor = Len(read) - Len(buf)
      /\ Len(decoded) \in Nat /\ decoded \in Seq(Frames)
      /\ read \in Seq(StreamUnits)
  <2>1. Cursor = Len(read) - Len(buf) + pos
    BY DEF Cursor
  <2> QED BY <2>1, Lengths DEF StreamInv, TypeOK
<1>2. ASSUME NEW f \in Frames
      PROVE  f \in WholeFrames
               <=> \E p \in 0 .. Len(read) - FrameUnits : Whole(f, p)
  <2>1. ASSUME NEW p \in 0 .. Len(read) - FrameUnits
        PROVE  SubSeq(read, p + 1, p + FrameUnits) = Part(f, 0, FrameUnits)
                 <=> Whole(f, p)
    <3>1. p \in Nat /\ p + FrameUnits <= Len(read)
      BY <1>1
    <3>2. SubSeq(read, p + 1, p + FrameUnits) = Part(f, 0, FrameUnits)
            <=> \A u \in 0 .. FrameUnits - 1 : read[p + 1 + u] = <<f, u>>
      BY <1>1, <3>1, WindowIsFrame
    <3> QED BY <3>1, <3>2 DEF Whole
  <2> QED BY <2>1 DEF WholeFrames
<1>3. ASSUME NEW f \in WholeFrames PROVE f \in Range(decoded)
  <2>1. f \in Frames
    BY DEF WholeFrames
  <2>2. PICK p \in 0 .. Len(read) - FrameUnits : Whole(f, p)
    BY <1>2, <2>1
  <2>3. p \in 0 .. Cursor - 1
    BY <1>1, <2>2
  <2>4. PICK k \in 1 .. Len(decoded) : decoded[k] = f
    BY <2>1, <2>2, <2>3 DEF StreamInv, DecodedInv
  <2>5. DOMAIN decoded = 1 .. Len(decoded)
    BY <1>1, LenProperties
  <2> QED BY <2>4, <2>5 DEF Range
<1>4. ASSUME NEW f \in Range(decoded) PROVE f \in WholeFrames
  <2>1. DOMAIN decoded = 1 .. Len(decoded)
    BY <1>1, LenProperties
  <2>2. PICK k \in 1 .. Len(decoded) : decoded[k] = f
    BY <2>1 DEF Range
  <2>3. PICK p \in 0 .. Cursor - FrameUnits : Whole(f, p)
    BY <2>2 DEF StreamInv, DecodedInv
  <2>4. p \in 0 .. Len(read) - FrameUnits
    BY <1>1, <2>3
  <2>5. f \in Frames
    BY <1>1, <2>2, ElementOfSeq
  <2> QED BY <1>2, <2>3, <2>4, <2>5
<1>5. \A i \in 1 .. Len(decoded) - 1 : decoded[i] < decoded[i + 1]
  BY DEF StreamInv, DecodedInv
<1> QED BY <1>3, <1>4, <1>5

(* No frame is lost by resynchronising: when the loop of decodeStream or    *)
(* decode_tcp_stream ends, exactly the frames that came whole have been     *)
(* passed on, once and in order, for any cuts, reads and lookalikes.        *)
THEOREM FramesAreDecoded == Spec => []WholeFramesDecoded
<1>1. Spec => []StreamInv
  BY Typing, StreamInvInit, StreamInvNext, PTL DEF Spec
<1> QED BY <1>1, Typing, CarryIsBounded, AllDecoded, PTL
=============================================================================
