--------------------------- MODULE SequenceFacts ---------------------------
(***************************************************************************)
(* What the proofs need of numbers and sequences and the library does not  *)
(* state.  Induction is by sets: a set of numbers that has 0 and every     *)
(* successor has them all.                                                 *)
(***************************************************************************)
EXTENDS Integers, SequencesExt, SequenceTheorems, WellFoundedInduction, TLAPS

LEMMA LeastNat ==
  ASSUME NEW S, S \subseteq Nat, S # {}
  PROVE  \E x \in S : \A y \in S : x =< y
  <1>1. IsWellFoundedOn(OpToRel(<, Nat), Nat)
    BY NatLessThanWellFounded
  <1>2. PICK x \in S : \A y \in S : ~ (<<y, x>> \in OpToRel(<, Nat))
    BY <1>1, WFMin
  <1>3. \A y \in S : ~ (y < x)
    BY <1>2 DEF OpToRel
  <1> QED BY <1>3

LEMMA MinOfNats ==
  ASSUME NEW S, S \subseteq Nat, S # {}
  PROVE  Min(S) \in S /\ \A y \in S : Min(S) =< y
  BY LeastNat DEF Min

LEMMA Induction ==
  ASSUME NEW S, 0 \in S, \A n \in Nat : n \in S => n + 1 \in S
  PROVE  Nat \subseteq S
  <1> DEFINE T == Nat \ S
  <1> SUFFICES ASSUME T # {} PROVE FALSE
    OBVIOUS
  <1>1. PICK x \in T : \A y \in T : x =< y
    BY LeastNat
  <1>2. x # 0 /\ x - 1 \in Nat /\ x - 1 \notin T
    BY <1>1
  <1> QED BY <1>2

-----------------------------------------------------------------------------
(***************************************************************************)
(* The first element that passes a test.                                   *)
(***************************************************************************)
LEMMA FirstOf ==
  ASSUME NEW n \in Nat, NEW T, T \subseteq 1 .. n
  PROVE  LET k == IF T # {} THEN Min(T) ELSE 0
         IN  /\ k \in 0 .. n
             /\ k = 0 <=> T = {}
             /\ k # 0 => k \in T /\ \A j \in T : k =< j
  <1>1. T \subseteq Nat
    OBVIOUS
  <1>2. CASE T # {}
    <2>1. Min(T) \in T /\ \A j \in T : Min(T) =< j
      BY <1>1, <1>2, MinOfNats
    <2>2. Min(T) \in 1 .. n
      BY <2>1
    <2> QED BY <1>2, <2>1, <2>2
  <1>3. CASE T = {}
    BY <1>3
  <1> QED BY <1>2, <1>3

-----------------------------------------------------------------------------
(***************************************************************************)
(* A function on 1 .. n is a sequence.                                     *)
(***************************************************************************)
LEMMA FunctionIsSeq ==
  ASSUME NEW S, NEW n \in Nat, NEW f, f = [k \in 1 .. n |-> f[k]], \A k \in 1 .. n : f[k] \in S
  PROVE  f \in Seq(S) /\ Len(f) = n
  <1>1. f \in [1 .. n -> S]
    OBVIOUS
  <1>2. f \in Seq(S)
    BY <1>1, SeqDef
  <1>3. DOMAIN f = 1 .. n /\ DOMAIN f = 1 .. Len(f) /\ Len(f) \in Nat
    BY <1>1, <1>2, LenProperties
  <1> QED BY <1>2, <1>3

-----------------------------------------------------------------------------
(***************************************************************************)
(* Front and Last.                                                         *)
(***************************************************************************)
\* All but the last element of a sequence.
LEMMA FrontProperties ==
  ASSUME NEW S, NEW s \in Seq(S), Len(s) # 0
  PROVE  /\ Front(s) \in Seq(S)
         /\ Len(Front(s)) = Len(s) - 1
         /\ DOMAIN Front(s) = 1 .. Len(s) - 1
         /\ \A k \in 1 .. Len(s) - 1 : Front(s)[k] = s[k]
  <1> DEFINE n == Len(s)
  <1>1. n \in Nat \ {0} /\ \A k \in 1 .. n - 1 : s[k] \in S
    BY LenProperties, ElementOfSeq
  <1>2. Front(s) = SubSeq(s, 1, n - 1)
    BY DEF Front
  <1> HIDE DEF n
  <1>3. /\ SubSeq(s, 1, n - 1) \in Seq(S)
        /\ Len(SubSeq(s, 1, n - 1)) = n - 1
        /\ \A k \in 1 .. n - 1 : SubSeq(s, 1, n - 1)[k] = s[k]
    <2>1. /\ SubSeq(s, 1, n - 1) \in Seq(S)
          /\ Len(SubSeq(s, 1, n - 1)) = IF 1 <= n - 1 THEN (n - 1) - 1 + 1 ELSE 0
          /\ \A k \in 1 .. (n - 1) - 1 + 1 : SubSeq(s, 1, n - 1)[k] = s[1 + k - 1]
      BY <1>1, SubSeqProperties
    <2> QED BY <1>1, <2>1
  <1>4. DOMAIN SubSeq(s, 1, n - 1) = 1 .. n - 1
    BY <1>3, LenProperties
  <1> QED BY <1>2, <1>3, <1>4 DEF n

LEMMA FrontAndLast ==
  ASSUME NEW S, NEW s \in Seq(S), s # <<>>
  PROVE  Front(s) \in Seq(S) /\ Last(s) \in S
  <1> DEFINE n == Len(s)
  <1>1. n \in Nat \ {0} /\ \A x \in 1 .. n : s[x] \in S
    BY LenProperties, ElementOfSeq, EmptySeq
  <1>2. Front(s) = SubSeq(s, 1, n - 1) /\ Last(s) = s[n]
    BY DEF Front, Last
  <1> HIDE DEF n
  <1>3. SubSeq(s, 1, n - 1) \in Seq(S)
    BY <1>1, SubSeqProperties
  <1> QED BY <1>1, <1>2, <1>3

-----------------------------------------------------------------------------
(***************************************************************************)
(* FlattenSeq: its recursive function exists, and taking the first of the  *)
(* sequences off takes it off the result.                                  *)
(***************************************************************************)
IsFlatten(f, ss, n) == f = [i \in 1 .. n |-> IF i = 1 THEN ss[i] ELSE f[i - 1] \o ss[i]]

LEMMA FlattenExists ==
  ASSUME NEW ss
  PROVE  \A n \in Nat : \E f : IsFlatten(f, ss, n)
  <1> DEFINE S == {n \in Nat : \E f : IsFlatten(f, ss, n)}
  <1>1. 0 \in S
    <2> DEFINE f == [i \in 1 .. 0 |-> 0]
    <2>1. f = [i \in 1 .. 0 |-> IF i = 1 THEN ss[i] ELSE f[i - 1] \o ss[i]]
      OBVIOUS
    <2> QED BY <2>1 DEF IsFlatten
  <1>2. \A n \in Nat : n \in S => n + 1 \in S
    <2> TAKE n \in Nat
    <2> HAVE n \in S
    <2>1. PICK f : f = [i \in 1 .. n |-> IF i = 1 THEN ss[i] ELSE f[i - 1] \o ss[i]]
      BY DEF IsFlatten
    <2> DEFINE last == IF n + 1 = 1 THEN ss[n + 1] ELSE f[n] \o ss[n + 1]
               g == [i \in 1 .. n + 1 |-> IF i = n + 1 THEN last ELSE f[i]]
               h == [i \in 1 .. n + 1 |-> IF i = 1 THEN ss[i] ELSE g[i - 1] \o ss[i]]
    <2>2. \A i \in 1 .. n + 1 : g[i] = h[i]
      <3> TAKE i \in 1 .. n + 1
      <3>1. CASE i = n + 1
        <4>1. n # 0 => g[n] = f[n]
          OBVIOUS
        <4> QED BY <3>1, <4>1
      <3>2. CASE i \in 1 .. n
        <4>1. f[i] = IF i = 1 THEN ss[i] ELSE f[i - 1] \o ss[i]
          BY <2>1, <3>2
        <4>2. i # 1 => g[i - 1] = f[i - 1]
          BY <3>2
        <4> QED BY <3>2, <4>1, <4>2
      <3> QED BY <3>1, <3>2
    <2>3. g = h
      <3>1. DOMAIN g = 1 .. n + 1 /\ DOMAIN h = 1 .. n + 1
        OBVIOUS
      <3> QED BY <2>2, <3>1
    <2> HIDE DEF g
    <2>4. IsFlatten(g, ss, n + 1)
      BY <2>3 DEF IsFlatten
    <2> QED BY <2>4
  <1> HIDE DEF S
  <1>3. Nat \subseteq S
    BY <1>1, <1>2, Induction
  <1> QED BY <1>3 DEF S

LEMMA FlattenIs ==
  ASSUME NEW ss, Len(ss) \in Nat \ {0}
  PROVE  \E f : IsFlatten(f, ss, Len(ss)) /\ FlattenSeq(ss) = f[Len(ss)]
  <1> DEFINE flatten ==
        CHOOSE f : f = [i \in 1 .. Len(ss) |-> IF i = 1 THEN ss[i] ELSE f[i - 1] \o ss[i]]
  <1>1. \E f : f = [i \in 1 .. Len(ss) |-> IF i = 1 THEN ss[i] ELSE f[i - 1] \o ss[i]]
    BY FlattenExists DEF IsFlatten
  <1>2. flatten = [i \in 1 .. Len(ss) |-> IF i = 1 THEN ss[i] ELSE flatten[i - 1] \o ss[i]]
    BY <1>1
  <1>3. FlattenSeq(ss) = flatten[Len(ss)]
    BY DEF FlattenSeq
  <1> QED BY <1>2, <1>3 DEF IsFlatten

LEMMA FlattenEmpty == FlattenSeq(<<>>) = <<>>
  BY DEF FlattenSeq

LEMMA FlattenSteps ==
  ASSUME NEW f, NEW ss, NEW n \in Nat \ {0}, IsFlatten(f, ss, n)
  PROVE  f[1] = ss[1] /\ \A j \in Nat : j + 2 =< n => f[j + 2] = f[j + 1] \o ss[j + 2]
  <1>1. \A i \in 1 .. n : f[i] = IF i = 1 THEN ss[i] ELSE f[i - 1] \o ss[i]
    BY DEF IsFlatten
  <1>2. f[1] = ss[1]
    BY <1>1
  <1>3. ASSUME NEW j \in Nat, j + 2 =< n
        PROVE  f[j + 2] = f[j + 1] \o ss[j + 2]
    <2>1. j + 2 \in 1 .. n /\ j + 2 # 1 /\ (j + 2) - 1 = j + 1
      BY <1>3
    <2> QED BY <1>1, <2>1
  <1> QED BY <1>2, <1>3

LEMMA FlattenShifted ==
  ASSUME NEW T, NEW ss, NEW t, NEW F, NEW G, NEW n \in Nat, n >= 2,
         \A i \in 1 .. n : ss[i] \in Seq(T),
         \A i \in 1 .. n - 1 : t[i] = ss[i + 1],
         IsFlatten(F, ss, n), IsFlatten(G, t, n - 1)
  PROVE  F[n] = ss[1] \o G[n - 1] /\ G[n - 1] \in Seq(T)
  <1>1. n \in Nat \ {0} /\ n - 1 \in Nat \ {0}
    OBVIOUS
  <1>2. F[1] = ss[1] /\ \A j \in Nat : j + 2 =< n => F[j + 2] = F[j + 1] \o ss[j + 2]
    <2>1. n \in Nat \ {0} /\ IsFlatten(F, ss, n)
      BY <1>1
    <2> QED BY ONLY <2>1, FlattenSteps
  <1>3. G[1] = t[1] /\ \A j \in Nat : j + 2 =< n - 1 => G[j + 2] = G[j + 1] \o t[j + 2]
    <2>1. PICK m \in Nat \ {0} : m = n - 1
      BY <1>1
    <2>2. IsFlatten(G, t, m)
      BY <2>1
    <2>3. G[1] = t[1] /\ \A j \in Nat : j + 2 =< m => G[j + 2] = G[j + 1] \o t[j + 2]
      BY <2>2, FlattenSteps
    <2> QED BY <2>1, <2>3
  <1> DEFINE P(j) == F[j + 2] = ss[1] \o G[j + 1] /\ G[j + 1] \in Seq(T)
             S == {j \in Nat : j + 2 =< n => P(j)}
  <1>4. 0 \in S
    <2>1. 0 + 2 = 2 /\ 0 + 1 = 1
      OBVIOUS
    <2>2. F[2] = F[1] \o ss[2]
      BY <1>2, <2>1
    <2>3. t[1] = ss[2] /\ ss[2] \in Seq(T)
      OBVIOUS
    <2>4. P(0)
      BY <1>2, <1>3, <2>1, <2>2, <2>3
    <2> QED BY <2>4
  <1>5. ASSUME NEW j \in Nat, j \in S PROVE j + 1 \in S
    <2> HIDE DEF P
    <2>1. CASE ~(j + 3 =< n)
      <3>1. ~((j + 1) + 2 =< n)
        BY <2>1
      <3> QED BY <3>1
    <2>2. CASE j + 3 =< n
      <3>1. P(j)
        <4>1. j + 2 =< n
          BY <2>2
        <4> QED BY <1>5, <4>1
      <3>0. F[j + 2] = ss[1] \o G[j + 1] /\ G[j + 1] \in Seq(T)
        BY <3>1 DEF P
      <3>2. t[j + 2] = ss[j + 3] /\ ss[j + 3] \in Seq(T) /\ ss[1] \in Seq(T)
        <4>1. j + 2 \in 1 .. n - 1 /\ (j + 2) + 1 = j + 3 /\ j + 3 \in 1 .. n /\ 1 \in 1 .. n
          BY <2>2
        <4> QED BY <4>1
      <3>3. /\ j + 1 \in Nat /\ (j + 1) + 2 = j + 3 /\ (j + 1) + 1 = j + 2
            /\ j + 3 =< n /\ j + 2 =< n - 1
        BY <2>2
      <3>4. F[j + 3] = F[j + 2] \o ss[j + 3]
        BY <1>2, <3>3
      <3>5. G[j + 2] = G[j + 1] \o t[j + 2]
        BY <1>3, <3>3
      <3>6. G[j + 2] \in Seq(T)
        BY <3>0, <3>2, <3>5, ConcatProperties
      <3>7. (ss[1] \o G[j + 1]) \o ss[j + 3] = ss[1] \o (G[j + 1] \o ss[j + 3])
        <4>1. ss[1] \in Seq(T) /\ G[j + 1] \in Seq(T) /\ ss[j + 3] \in Seq(T)
          BY <3>0, <3>2
        <4>2. PICK a \in Seq(T), b \in Seq(T), c \in Seq(T) :
                a = ss[1] /\ b = G[j + 1] /\ c = ss[j + 3]
          BY <4>1
        <4>3. (a \o b) \o c = a \o (b \o c)
          BY ConcatAssociative
        <4> QED BY <4>2, <4>3
      <3>8. F[j + 3] = ss[1] \o G[j + 2]
        BY <3>0, <3>2, <3>4, <3>5, <3>7
      <3>9. P(j + 1)
        BY <3>3, <3>6, <3>8 DEF P
      <3> QED BY <3>9
    <2> QED BY <2>1, <2>2
  <1> HIDE DEF S
  <1>6. Nat \subseteq S
    BY <1>4, <1>5, Induction
  <1>7. n - 2 \in S /\ (n - 2) + 2 =< n
    BY <1>6
  <1> HIDE DEF P
  <1>8. P(n - 2)
    BY <1>7 DEF S
  <1>9. (n - 2) + 2 = n /\ (n - 2) + 1 = n - 1
    OBVIOUS
  <1> QED BY <1>8, <1>9 DEF P

LEMMA FlattenHead ==
  ASSUME NEW T, NEW ss \in Seq(Seq(T)), ss # <<>>
  PROVE  /\ FlattenSeq(ss) = ss[1] \o FlattenSeq(Tail(ss))
         /\ FlattenSeq(ss) \in Seq(T) /\ FlattenSeq(Tail(ss)) \in Seq(T)
  <1>1. PICK n \in Nat \ {0} : n = Len(ss)
    BY EmptySeq
  <1>2. PICK t \in Seq(Seq(T)) : t = Tail(ss)
    BY HeadTailProperties
  <1>3. /\ \A i \in 1 .. n : ss[i] \in Seq(T)
        /\ Len(t) = n - 1 /\ \A i \in 1 .. n - 1 : t[i] = ss[i + 1]
    BY <1>1, <1>2, ElementOfSeq, HeadTailProperties
  <1>4. PICK F : IsFlatten(F, ss, n) /\ FlattenSeq(ss) = F[n]
    BY <1>1, FlattenIs
  <1>5. CASE n = 1
    <2>1. t = <<>>
      BY <1>3, <1>5, EmptySeq
    <2>2. ss[1] \o <<>> = ss[1] /\ ss[1] \in Seq(T) /\ <<>> \in Seq(T)
      BY <1>3, <1>5, ConcatEmptySeq, EmptySeq
    <2>3. F[1] = ss[1]
      BY <1>4, FlattenSteps
    <2> QED BY <1>2, <1>4, <1>5, <2>1, <2>2, <2>3, FlattenEmpty
  <1>6. CASE n >= 2
    <2>1. PICK G : IsFlatten(G, t, n - 1) /\ FlattenSeq(t) = G[n - 1]
      <3>1. Len(t) \in Nat \ {0}
        BY <1>3, <1>6
      <3> QED BY <1>3, <3>1, FlattenIs
    <2>2. F[n] = ss[1] \o G[n - 1] /\ G[n - 1] \in Seq(T)
      BY <1>3, <1>4, <1>6, <2>1, FlattenShifted
    <2>3. ss[1] \in Seq(T)
      BY <1>3
    <2>4. ss[1] \o G[n - 1] \in Seq(T)
      BY <2>2, <2>3, ConcatProperties
    <2> QED BY <1>2, <1>4, <2>1, <2>2, <2>4
  <1> QED BY <1>5, <1>6
LEMMA FlattenTyped ==
  ASSUME NEW T, NEW ss \in Seq(Seq(T))
  PROVE  FlattenSeq(ss) \in Seq(T)
  BY FlattenHead, FlattenEmpty, EmptySeq

-----------------------------------------------------------------------------
(***************************************************************************)
(* What is left of a sequence behind its first k elements.                 *)
(***************************************************************************)
Rest(s, k) == SubSeq(s, k + 1, Len(s))

LEMMA RestProperties ==
  ASSUME NEW S, NEW s \in Seq(S), NEW k \in 0 .. Len(s)
  PROVE  /\ Rest(s, k) \in Seq(S) /\ Len(Rest(s, k)) = Len(s) - k
         /\ \A j \in 1 .. Len(s) - k : Rest(s, k)[j] = s[k + j]
  <1>1. PICK n \in Nat : n = Len(s)
    BY LenProperties
  <1>2. \A j \in 1 .. n : s[j] \in S
    BY <1>1, ElementOfSeq
  <1>3. \A j \in k + 1 .. n : s[j] \in S
    BY <1>1, <1>2
  <1>4. /\ SubSeq(s, k + 1, n) \in Seq(S)
        /\ Len(SubSeq(s, k + 1, n)) = IF k + 1 =< n THEN n - (k + 1) + 1 ELSE 0
        /\ \A j \in 1 .. n - (k + 1) + 1 : SubSeq(s, k + 1, n)[j] = s[(k + 1) + j - 1]
    <2>1. k + 1 \in Int /\ n \in Int
      BY <1>1
    <2> QED BY <1>3, <2>1, SubSeqProperties
  <1>5. Len(SubSeq(s, k + 1, n)) = n - k
    BY <1>1, <1>4
  <1>6. ASSUME NEW j \in 1 .. n - k PROVE SubSeq(s, k + 1, n)[j] = s[k + j]
    <2>1. j \in 1 .. n - (k + 1) + 1 /\ (k + 1) + j - 1 = k + j
      BY <1>1
    <2> QED BY <1>4, <2>1
  <1> QED BY <1>1, <1>4, <1>5, <1>6 DEF Rest

LEMMA RestEnds ==
  ASSUME NEW S, NEW s \in Seq(S)
  PROVE  Rest(s, 0) = s /\ Rest(s, Len(s)) = <<>>
  <1>1. Len(s) \in Nat
    BY LenProperties
  <1>2. Rest(s, 0) = s
    BY SubSeqFull DEF Rest
  <1>3. SubSeq(s, Len(s) + 1, Len(s)) = <<>>
    BY <1>1, SubSeqEmpty
  <1> QED BY <1>2, <1>3 DEF Rest

LEMMA RestStep ==
  ASSUME NEW S, NEW s \in Seq(S), NEW k \in 0 .. Len(s) - 1
  PROVE  /\ Rest(s, k) # <<>> /\ Rest(s, k)[1] = s[k + 1]
         /\ Tail(Rest(s, k)) = Rest(s, k + 1)
  <1>1. Len(s) \in Nat
    BY LenProperties
  <1>2. k \in 0 .. Len(s) /\ k + 1 \in 1 .. Len(s) /\ Len(s) \in k + 1 .. Len(s)
    BY <1>1
  <1>3. Tail(SubSeq(s, k + 1, Len(s))) = SubSeq(s, (k + 1) + 1, Len(s))
    BY <1>2, HeadTailOfSubSeq
  <1>4. Len(Rest(s, k)) # 0 /\ Rest(s, k)[1] = s[k + 1]
    <2>1. Len(s) - k # 0 /\ 1 \in 1 .. Len(s) - k
      BY <1>1
    <2> QED BY <1>2, <2>1, RestProperties
  <1> QED BY <1>3, <1>4, EmptySeq DEF Rest

LEMMA FlattenRest ==
  ASSUME NEW T, NEW ss \in Seq(Seq(T)), NEW k \in 0 .. Len(ss) - 1
  PROVE  /\ FlattenSeq(Rest(ss, k)) = ss[k + 1] \o FlattenSeq(Rest(ss, k + 1))
         /\ FlattenSeq(Rest(ss, k + 1)) \in Seq(T)
  <1>1. Len(ss) \in Nat
    BY LenProperties
  <1>2. PICK t \in Seq(Seq(T)) : t = Rest(ss, k)
    BY <1>1, RestProperties
  <1>3. t # <<>> /\ t[1] = ss[k + 1] /\ Tail(t) = Rest(ss, k + 1)
    BY <1>2, RestStep
  <1>4. FlattenSeq(t) = t[1] \o FlattenSeq(Tail(t)) /\ FlattenSeq(Tail(t)) \in Seq(T)
    BY <1>3, FlattenHead
  <1> QED BY <1>2, <1>3, <1>4
-----------------------------------------------------------------------------
(***************************************************************************)
(* The sequences that F has for the elements of another, one behind the    *)
(* other.                                                                  *)
(***************************************************************************)
FlattenMap(F, s) == FlattenSeq([k \in DOMAIN s |-> F[s[k]]])

LEMMA FlattenMapRest ==
  ASSUME NEW A, NEW T, NEW F, \A a \in A : F[a] \in Seq(T), NEW as \in Seq(A)
  PROVE  /\ FlattenMap(F, as) \in Seq(T) /\ FlattenMap(F, <<>>) = <<>>
         /\ \A k \in 0 .. Len(as) - 1 :
              FlattenMap(F, Rest(as, k)) = F[as[k + 1]] \o FlattenMap(F, Rest(as, k + 1))
         /\ \A k \in 0 .. Len(as) : FlattenMap(F, Rest(as, k)) \in Seq(T)
  <1> DEFINE Written(s) == [k \in DOMAIN s |-> F[s[k]]]
             ss == Written(as)
  <1>1. PICK n \in Nat : n = Len(as) /\ DOMAIN as = 1 .. n
    BY LenProperties
  <1>2. \A k \in 1 .. n : as[k] \in A /\ F[as[k]] \in Seq(T)
    BY <1>1, ElementOfSeq
  <1>0. ss = [k \in 1 .. n |-> ss[k]] /\ \A k \in 1 .. n : ss[k] = F[as[k]]
    BY <1>1
  <1>3. ss \in Seq(Seq(T)) /\ Len(ss) = n
    <2> HIDE DEF ss
    <2>1. \A k \in 1 .. n : ss[k] \in Seq(T)
      BY <1>0, <1>2
    <2> QED BY ONLY <1>0, <1>1, <2>1, FunctionIsSeq
  <1>4. ASSUME NEW k \in 0 .. n
        PROVE  Written(Rest(as, k)) = Rest(ss, k) /\ Rest(ss, k) \in Seq(Seq(T))
    <2>1. /\ Rest(as, k) \in Seq(A) /\ Len(Rest(as, k)) = n - k
          /\ DOMAIN Rest(as, k) = 1 .. n - k
          /\ \A j \in 1 .. n - k : Rest(as, k)[j] = as[k + j]
      BY <1>1, RestProperties, LenProperties
    <2>2. /\ Rest(ss, k) \in Seq(Seq(T)) /\ Len(Rest(ss, k)) = n - k
          /\ DOMAIN Rest(ss, k) = 1 .. n - k
          /\ \A j \in 1 .. n - k : Rest(ss, k)[j] = ss[k + j]
      <3> HIDE DEF ss
      <3>1. k \in 0 .. Len(ss)
        BY <1>3
      <3>2. /\ Rest(ss, k) \in Seq(Seq(T)) /\ Len(Rest(ss, k)) = Len(ss) - k
            /\ \A j \in 1 .. Len(ss) - k : Rest(ss, k)[j] = ss[k + j]
        BY <1>3, <3>1, RestProperties
      <3> QED BY <1>3, <3>2, LenProperties
    <2>3. \A j \in 1 .. n - k : ss[k + j] = F[as[k + j]]
      <3> TAKE j \in 1 .. n - k
      <3>1. k + j \in 1 .. n
        OBVIOUS
      <3> HIDE DEF ss
      <3> QED BY <1>0, <3>1
    <2>4. Rest(ss, k) = [j \in 1 .. n - k |-> Rest(ss, k)[j]]
      <3> HIDE DEF ss
      <3> QED BY <2>2, LenProperties
    <2>5. Written(Rest(as, k)) = [j \in 1 .. n - k |-> F[Rest(as, k)[j]]]
      BY <2>1
    <2>6. \A j \in 1 .. n - k : F[Rest(as, k)[j]] = Rest(ss, k)[j]
      <3> HIDE DEF ss
      <3> QED BY <2>1, <2>2, <2>3
    <2> HIDE DEF ss, Written
    <2> QED BY <2>2, <2>4, <2>5, <2>6
  <1>5. FlattenMap(F, <<>>) = <<>>
    <2>1. Written(<<>>) = <<>>
      OBVIOUS
    <2> QED BY <2>1, FlattenEmpty DEF FlattenMap
  <1>6. \A s : FlattenMap(F, s) = FlattenSeq(Written(s))
    BY DEF FlattenMap
  <1>7. \A k \in 0 .. n - 1 : ss[k + 1] = F[as[k + 1]]
    <2> TAKE k \in 0 .. n - 1
    <2>1. k + 1 \in 1 .. n
      OBVIOUS
    <2> HIDE DEF ss
    <2> QED BY <1>0, <2>1
  <1> HIDE DEF ss, Written
  <1>8. \A k \in 0 .. n : FlattenMap(F, Rest(as, k)) \in Seq(T)
    BY <1>4, <1>6, FlattenTyped
  <1>9. ASSUME NEW k \in 0 .. n - 1
        PROVE  FlattenMap(F, Rest(as, k)) = F[as[k + 1]] \o FlattenMap(F, Rest(as, k + 1))
    <2>1. FlattenSeq(Rest(ss, k)) = ss[k + 1] \o FlattenSeq(Rest(ss, k + 1))
      BY <1>3, FlattenRest
    <2>2. k \in 0 .. n /\ k + 1 \in 0 .. n
      OBVIOUS
    <2> QED BY <1>4, <1>6, <1>7, <2>1, <2>2
  <1>10. FlattenMap(F, as) \in Seq(T)
    <2>1. Rest(as, 0) = as
      BY RestEnds
    <2>2. 0 \in 0 .. n
      OBVIOUS
    <2> QED BY <1>8, <2>1, <2>2
  <1> QED BY <1>1, <1>5, <1>8, <1>9, <1>10
-----------------------------------------------------------------------------
\* Reading a sequence from place p on: what comes behind the first t is s.
ReadsMiddle(f, p, t, s, v) ==
  /\ p + Len(t) + Len(s) =< Len(f)
  /\ SubSeq(f, p + Len(t) + 1, p + Len(t) + Len(s)) = s
  /\ Rest(f, p + Len(t) + Len(s)) = v

LEMMA ReadMiddle ==
  ASSUME NEW T, NEW f \in Seq(T), NEW p \in 0 .. Len(f),
         NEW t \in Seq(T), NEW s \in Seq(T), NEW v \in Seq(T), Rest(f, p) = t \o (s \o v)
  PROVE  ReadsMiddle(f, p, t, s, v)
  <1>1. PICK n \in Nat, a \in Nat, b \in Nat, c \in Nat :
          n = Len(f) /\ a = Len(t) /\ b = Len(s) /\ c = Len(v)
    BY LenProperties
  <1>0. p \in Nat /\ p =< n
    BY <1>1
  <1>2. PICK x : /\ x = Rest(f, p) /\ Len(x) = n - p
                 /\ \A j \in 1 .. n - p : x[j] = f[p + j]
    BY <1>1, RestProperties
  <1>3. PICK w : /\ w = s \o v /\ w \in Seq(T) /\ Len(w) = b + c
                 /\ \A j \in 1 .. b + c : w[j] = IF j =< b THEN s[j] ELSE v[j - b]
    <2>1. s \o v \in Seq(T) /\ Len(s \o v) = b + c
          /\ \A j \in 1 .. b + c : (s \o v)[j] = IF j =< b THEN s[j] ELSE v[j - b]
      BY <1>1, ConcatProperties
    <2> QED BY ONLY <2>1
  <1>4. x = t \o w /\ Len(t \o w) = a + (b + c)
        /\ \A j \in 1 .. a + (b + c) : (t \o w)[j] = IF j =< a THEN t[j] ELSE w[j - a]
    BY <1>1, <1>2, <1>3, ConcatProperties
  <1>5. n - p = a + (b + c)
    BY <1>2, <1>4
  <1>13. \A j \in 1 .. a + (b + c) : f[p + j] = IF j =< a THEN t[j] ELSE w[j - a]
    BY <1>2, <1>4, <1>5
  <1>14. ASSUME NEW i \in 1 .. b + c PROVE f[(p + a) + i] = IF i =< b THEN s[i] ELSE v[i - b]
    <2>1. a + i \in 1 .. a + (b + c) /\ ~(a + i =< a) /\ (a + i) - a = i /\ p + (a + i) = (p + a) + i
      BY ONLY <1>0, a \in Nat, b \in Nat, c \in Nat, i \in 1 .. b + c
    <2>2. f[p + (a + i)] = IF a + i =< a THEN t[a + i] ELSE w[(a + i) - a]
      BY ONLY <1>13, <2>1
    <2> QED BY ONLY <1>3, <2>1, <2>2, i \in 1 .. b + c
  <1>7. ASSUME NEW j \in 1 .. b PROVE f[(p + a) + j] = s[j]
    <2>1. j \in 1 .. b + c /\ j =< b
      OBVIOUS
    <2> QED BY ONLY <1>14, <2>1
  <1>8. ASSUME NEW j \in 1 .. c PROVE f[(p + a + b) + j] = v[j]
    <2>1. b + j \in 1 .. b + c /\ ~(b + j =< b) /\ (b + j) - b = j
          /\ (p + a) + (b + j) = (p + a + b) + j
      BY ONLY <1>0, a \in Nat, b \in Nat, c \in Nat, j \in 1 .. c
    <2>2. f[(p + a) + (b + j)] = IF b + j =< b THEN s[b + j] ELSE v[(b + j) - b]
      BY ONLY <1>14, <2>1
    <2> QED BY ONLY <2>1, <2>2
  <1>9. ASSUME NEW lo \in Nat, NEW m \in Nat, lo + m =< n, NEW r \in Seq(T), Len(r) = m,
               \A j \in 1 .. m : f[lo + j] = r[j]
        PROVE  SubSeq(f, lo + 1, lo + m) = r
    <2>1. lo + 1 \in Int /\ lo + m \in Int
      OBVIOUS
    <2>2. \A j \in lo + 1 .. lo + m : f[j] \in T
      <3> TAKE j \in lo + 1 .. lo + m
      <3>1. j \in 1 .. Len(f)
        BY <1>1, <1>9
      <3> QED BY <3>1, ElementOfSeq
    <2>3. /\ SubSeq(f, lo + 1, lo + m) \in Seq(T)
          /\ Len(SubSeq(f, lo + 1, lo + m)) =
               IF lo + 1 =< lo + m THEN (lo + m) - (lo + 1) + 1 ELSE 0
          /\ \A j \in 1 .. (lo + m) - (lo + 1) + 1 :
               SubSeq(f, lo + 1, lo + m)[j] = f[(lo + 1) + j - 1]
      BY <2>1, <2>2, SubSeqProperties
    <2>4. (lo + m) - (lo + 1) + 1 = m
      OBVIOUS
    <2>5. Len(SubSeq(f, lo + 1, lo + m)) = m
      BY <2>3, <2>4
    <2>6. ASSUME NEW j \in 1 .. m PROVE SubSeq(f, lo + 1, lo + m)[j] = r[j]
      <3>1. (lo + 1) + j - 1 = lo + j
        OBVIOUS
      <3> QED BY <1>9, <2>3, <2>4, <3>1
    <2> QED BY <1>9, <2>3, <2>5, <2>6, SeqEqual
  <1>10. p + a + b =< n /\ p + a + b \in Nat /\ (p + a + b) + c = n
    BY ONLY <1>0, <1>5, a \in Nat, b \in Nat, c \in Nat, n \in Nat
  <1>11. SubSeq(f, p + a + 1, p + a + b) = s
    <2>1. p + a \in Nat /\ (p + a) + b =< n
      BY <1>1, <1>10
    <2> QED BY <1>1, <1>7, <1>9, <2>1
  <1>12. Rest(f, p + a + b) = v
    <2>2. p + a + b \in Nat /\ (p + a + b) + c =< n
      BY <1>10
    <2>1. SubSeq(f, (p + a + b) + 1, (p + a + b) + c) = v
      BY <1>1, <1>8, <1>9, <2>2
    <2> QED BY <1>1, <1>10, <2>1 DEF Rest
  <1> QED BY <1>1, <1>10, <1>11, <1>12 DEF ReadsMiddle
-----------------------------------------------------------------------------
(***************************************************************************)
(* A recursive function on 0 .. n exists when its steps stay in a set.     *)
(***************************************************************************)
IsRecursion(f, a, n, G) == \A k \in 0 .. n : f[k] = IF k = 0 THEN a ELSE G[<<k, f[k - 1]>>]

LEMMA RecursionExists ==
  ASSUME NEW S, NEW a \in S, NEW n \in Nat, NEW G, \A k \in 1 .. n : \A s \in S : G[<<k, s>>] \in S
  PROVE  \E f \in [0 .. n -> S] : IsRecursion(f, a, n, G)
  <1> DEFINE Steps(f, m) == \A k \in 0 .. m : f[k] = IF k = 0 THEN a ELSE G[<<k, f[k - 1]>>]
             T == {m \in Nat : m =< n => \E f \in [0 .. m -> S] : Steps(f, m)}
  <1>1. 0 \in T
    <2> DEFINE f == [k \in 0 .. 0 |-> a]
    <2>1. f \in [0 .. 0 -> S] /\ Steps(f, 0)
      OBVIOUS
    <2> QED BY <2>1
  <1>2. ASSUME NEW m \in Nat, m \in T PROVE m + 1 \in T
    <2> SUFFICES ASSUME m + 1 =< n PROVE \E f \in [0 .. m + 1 -> S] : Steps(f, m + 1)
      OBVIOUS
    <2>1. PICK f \in [0 .. m -> S] : Steps(f, m)
      BY <1>2
    <2>2. f[m] \in S /\ G[<<m + 1, f[m]>>] \in S
      <3>1. m \in 0 .. m /\ m + 1 \in 1 .. n
        OBVIOUS
      <3> QED BY <3>1
    <2> DEFINE g == [k \in 0 .. m + 1 |-> IF k = m + 1 THEN G[<<m + 1, f[m]>>] ELSE f[k]]
    <2>3. g \in [0 .. m + 1 -> S]
      BY <2>2
    <2>4. ASSUME NEW k \in 0 .. m + 1 PROVE g[k] = IF k = 0 THEN a ELSE G[<<k, g[k - 1]>>]
      <3>1. CASE k = m + 1
        <4>1. k # 0 /\ k - 1 = m /\ g[k - 1] = f[m] /\ g[k] = G[<<m + 1, f[m]>>]
          BY <3>1
        <4> QED BY <3>1, <4>1
      <3>2. CASE k \in 0 .. m
        <4>1. g[k] = f[k] /\ (k # 0 => g[k - 1] = f[k - 1])
          BY <3>2
        <4>2. f[k] = IF k = 0 THEN a ELSE G[<<k, f[k - 1]>>]
          BY <2>1, <3>2
        <4> QED BY <4>1, <4>2
      <3> QED BY <3>1, <3>2
    <2> HIDE DEF g
    <2> QED BY <2>3, <2>4
  <1> HIDE DEF T
  <1>3. Nat \subseteq T
    BY <1>1, <1>2, Induction
  <1> HIDE DEF Steps
  <1>4. \E f \in [0 .. n -> S] : Steps(f, n)
    <2>1. n \in T
      BY <1>3
    <2> QED BY <2>1 DEF T
  <1> USE DEF Steps
  <1> QED BY ONLY <1>4 DEF IsRecursion

-----------------------------------------------------------------------------
(***************************************************************************)
(* How long the first k of a sequence of sequences are together.           *)
(***************************************************************************)
Upto(ss, k) == Len(FlattenSeq(SubSeq(ss, 1, k)))

LEMMA FlattenAgree ==
  ASSUME NEW f, NEW g, NEW ss, NEW t, NEW n \in Nat \ {0}, NEW m \in Nat \ {0}, m =< n,
         IsFlatten(f, ss, n), IsFlatten(g, t, m), \A i \in 1 .. m : t[i] = ss[i]
  PROVE  f[m] = g[m]
  <1>1. f[1] = ss[1] /\ \A j \in Nat : j + 2 =< n => f[j + 2] = f[j + 1] \o ss[j + 2]
    BY ONLY FlattenSteps, n \in Nat \ {0}, IsFlatten(f, ss, n)
  <1>2. g[1] = t[1] /\ \A j \in Nat : j + 2 =< m => g[j + 2] = g[j + 1] \o t[j + 2]
    BY ONLY FlattenSteps, m \in Nat \ {0}, IsFlatten(g, t, m)
  <1> DEFINE S == {j \in Nat : j + 1 =< m => f[j + 1] = g[j + 1]}
  <1>3. 0 \in S
    <2>1. 1 \in 1 .. m /\ 0 + 1 = 1
      OBVIOUS
    <2> QED BY <1>1, <1>2, <2>1
  <1>4. ASSUME NEW j \in Nat, j \in S PROVE j + 1 \in S
    <2> SUFFICES ASSUME (j + 1) + 1 =< m PROVE f[(j + 1) + 1] = g[(j + 1) + 1]
      OBVIOUS
    <2>1. (j + 1) + 1 = j + 2 /\ j + 2 =< m /\ j + 2 =< n /\ j + 1 =< m /\ j + 2 \in 1 .. m
      OBVIOUS
    <2>2. f[j + 2] = f[j + 1] \o ss[j + 2] /\ g[j + 2] = g[j + 1] \o t[j + 2]
      BY <1>1, <1>2, <2>1
    <2> QED BY <1>4, <2>1, <2>2
  <1> HIDE DEF S
  <1>5. Nat \subseteq S
    BY <1>3, <1>4, Induction
  <1>6. m - 1 \in S /\ (m - 1) + 1 = m
    BY <1>5
  <1> QED BY <1>6 DEF S

LEMMA FlattenPrefix ==
  ASSUME NEW T, NEW ss \in Seq(Seq(T))
  PROVE  /\ FlattenSeq(SubSeq(ss, 1, 0)) = <<>>
         /\ FlattenSeq(SubSeq(ss, 1, Len(ss))) = FlattenSeq(ss)
         /\ \A k \in 0 .. Len(ss) : FlattenSeq(SubSeq(ss, 1, k)) \in Seq(T)
         /\ \A k \in 1 .. Len(ss) :
              FlattenSeq(SubSeq(ss, 1, k)) = FlattenSeq(SubSeq(ss, 1, k - 1)) \o ss[k]
  <1>1. PICK n \in Nat : n = Len(ss)
    BY LenProperties
  <1>2. \A i \in 1 .. n : ss[i] \in Seq(T)
    BY <1>1, ElementOfSeq
  <1>3. ASSUME NEW k \in 0 .. n
        PROVE  /\ SubSeq(ss, 1, k) \in Seq(Seq(T)) /\ Len(SubSeq(ss, 1, k)) = k
               /\ \A i \in 1 .. k : SubSeq(ss, 1, k)[i] = ss[i]
    <2>1. \A i \in 1 .. k : ss[i] \in Seq(T)
      BY <1>2
    <2>2. /\ SubSeq(ss, 1, k) \in Seq(Seq(T))
          /\ Len(SubSeq(ss, 1, k)) = IF 1 =< k THEN k - 1 + 1 ELSE 0
          /\ \A i \in 1 .. k - 1 + 1 : SubSeq(ss, 1, k)[i] = ss[1 + i - 1]
      BY <2>1, SubSeqProperties
    <2> QED BY <2>2
  <1>4. SubSeq(ss, 1, 0) = <<>> /\ SubSeq(ss, 1, n) = ss
    BY <1>1, SubSeqEmpty, SubSeqFull
  <1>5. \A k \in 0 .. n : FlattenSeq(SubSeq(ss, 1, k)) \in Seq(T)
    BY <1>3, FlattenTyped
  <1>6. ASSUME NEW k \in 1 .. n
        PROVE  FlattenSeq(SubSeq(ss, 1, k)) = FlattenSeq(SubSeq(ss, 1, k - 1)) \o ss[k]
    <2>1. k \in 0 .. n /\ k - 1 \in 0 .. n /\ k \in Nat \ {0} /\ n \in Nat \ {0}
      OBVIOUS
    <2>2. PICK f : IsFlatten(f, ss, n) /\ FlattenSeq(ss) = f[n]
      BY <1>1, <2>1, FlattenIs
    <2>3. ASSUME NEW m \in Nat \ {0}, m =< n PROVE FlattenSeq(SubSeq(ss, 1, m)) = f[m]
      <3>0. m \in 0 .. n
        BY <2>3
      <3>1. PICK t : t = SubSeq(ss, 1, m) /\ Len(t) = m /\ \A i \in 1 .. m : t[i] = ss[i]
        <4>1. Len(SubSeq(ss, 1, m)) = m /\ \A i \in 1 .. m : SubSeq(ss, 1, m)[i] = ss[i]
          BY ONLY <1>3, <3>0
        <4> QED BY ONLY <4>1
      <3>2. PICK g : IsFlatten(g, t, m) /\ FlattenSeq(t) = g[m]
        BY <3>1, FlattenIs
      <3>3. f[m] = g[m]
        <4>1. n \in Nat \ {0} /\ m \in Nat \ {0} /\ m =< n
          BY <2>1, <2>3
        <4>2. IsFlatten(f, ss, n) /\ IsFlatten(g, t, m) /\ \A i \in 1 .. m : t[i] = ss[i]
          BY <2>2, <3>1, <3>2
        <4> QED BY ONLY <4>1, <4>2, FlattenAgree
      <3> QED BY <3>1, <3>2, <3>3
    <2>4. f[1] = ss[1] /\ \A j \in Nat : j + 2 =< n => f[j + 2] = f[j + 1] \o ss[j + 2]
      BY ONLY FlattenSteps, <2>1, <2>2
    <2>5. CASE k = 1
      <3>1. FlattenSeq(SubSeq(ss, 1, k)) = ss[k]
        BY <2>1, <2>3, <2>4, <2>5
      <3>2. FlattenSeq(SubSeq(ss, 1, k - 1)) = <<>>
        <4>1. k - 1 = 0
          BY <2>5
        <4> QED BY <1>4, <4>1, FlattenEmpty
      <3> QED BY <1>2, <3>1, <3>2, ConcatEmptySeq
    <2>6. CASE k # 1
      <3>1. k - 2 \in Nat /\ (k - 2) + 2 = k /\ (k - 2) + 1 = k - 1 /\ k - 1 \in Nat \ {0}
            /\ k =< n /\ k - 1 =< n
        BY <2>6
      <3>2. f[k] = f[k - 1] \o ss[k]
        BY <2>4, <3>1
      <3> QED BY <2>1, <2>3, <3>1, <3>2
    <2> QED BY <2>5, <2>6
  <1> QED BY <1>1, <1>4, <1>5, <1>6, FlattenEmpty

LEMMA UptoSteps ==
  ASSUME NEW T, NEW ss \in Seq(Seq(T))
  PROVE  /\ Upto(ss, 0) = 0 /\ Upto(ss, Len(ss)) = Len(FlattenSeq(ss))
         /\ \A k \in 0 .. Len(ss) : Upto(ss, k) \in Nat
         /\ \A k \in 1 .. Len(ss) : Len(ss[k]) \in Nat
         /\ \A k \in 1 .. Len(ss) : Upto(ss, k) = Upto(ss, k - 1) + Len(ss[k])
  <1>1. Len(ss) \in Nat
    BY LenProperties
  <1>2. Upto(ss, 0) = 0 /\ Upto(ss, Len(ss)) = Len(FlattenSeq(ss))
    BY FlattenPrefix, EmptySeq DEF Upto
  <1>3. \A k \in 0 .. Len(ss) : Upto(ss, k) \in Nat
    BY FlattenPrefix, LenProperties DEF Upto
  <1>4. ASSUME NEW k \in 1 .. Len(ss)
        PROVE  Len(ss[k]) \in Nat /\ Upto(ss, k) = Upto(ss, k - 1) + Len(ss[k])
    <2>1. ss[k] \in Seq(T)
      BY ElementOfSeq
    <2>2. k - 1 \in 0 .. Len(ss)
      BY <1>1
    <2>3. PICK x \in Seq(T) : x = FlattenSeq(SubSeq(ss, 1, k - 1))
      BY <2>2, FlattenPrefix
    <2>4. FlattenSeq(SubSeq(ss, 1, k)) = x \o ss[k]
      BY <2>3, FlattenPrefix
    <2>5. Len(x \o ss[k]) = Len(x) + Len(ss[k])
      BY <2>1, ConcatProperties
    <2> QED BY <2>1, <2>3, <2>4, <2>5, LenProperties DEF Upto
  <1> QED BY <1>2, <1>3, <1>4

\* At least one for each that is not empty.
LEMMA UptoRest ==
  ASSUME NEW T, NEW ss \in Seq(Seq(T)), NEW k \in 0 .. Len(ss)
  PROVE  /\ Upto(ss, k) =< Upto(ss, Len(ss))
         /\ (\A i \in 1 .. Len(ss) : ss[i] # <<>>) =>
               Upto(ss, k) + (Len(ss) - k) =< Upto(ss, Len(ss))
  <1>1. PICK n \in Nat : n = Len(ss)
    BY LenProperties
  <1> DEFINE S == {j \in Nat : j =< n =>
                     /\ Upto(ss, n - j) =< Upto(ss, n)
                     /\ (\A i \in 1 .. n : ss[i] # <<>>) => Upto(ss, n - j) + j =< Upto(ss, n)}
  <1>2. /\ \A i \in 0 .. n : Upto(ss, i) \in Nat
        /\ \A i \in 1 .. n : Len(ss[i]) \in Nat /\ Upto(ss, i) = Upto(ss, i - 1) + Len(ss[i])
    BY <1>1, UptoSteps
  <1>3. 0 \in S
    <2>1. n - 0 = n /\ Upto(ss, n) \in Nat
      BY <1>2
    <2> QED BY <2>1
  <1>4. ASSUME NEW j \in Nat, j \in S PROVE j + 1 \in S
    <2> SUFFICES ASSUME j + 1 =< n
                 PROVE  /\ Upto(ss, n - (j + 1)) =< Upto(ss, n)
                        /\ (\A i \in 1 .. n : ss[i] # <<>>) =>
                             Upto(ss, n - (j + 1)) + (j + 1) =< Upto(ss, n)
      OBVIOUS
    <2>1. PICK i \in 1 .. n : i = n - j /\ i - 1 = n - (j + 1) /\ i - 1 \in 0 .. n /\ i \in 0 .. n
      OBVIOUS
    <2>2. Upto(ss, i) = Upto(ss, i - 1) + Len(ss[i]) /\ Len(ss[i]) \in Nat
          /\ Upto(ss, i) \in Nat /\ Upto(ss, i - 1) \in Nat /\ Upto(ss, n) \in Nat
      BY <1>2, <2>1
    <2>3. /\ Upto(ss, i) =< Upto(ss, n)
          /\ (\A m \in 1 .. n : ss[m] # <<>>) => Upto(ss, i) + j =< Upto(ss, n)
      <3>1. j =< n
        OBVIOUS
      <3> QED BY <1>4, <2>1, <3>1
    <2>4. ss[i] # <<>> => Len(ss[i]) # 0
      BY <1>1, ElementOfSeq, EmptySeq
    <2>5. Upto(ss, i - 1) =< Upto(ss, n)
      BY ONLY <2>2, <2>3
    <2>6. ASSUME \A m \in 1 .. n : ss[m] # <<>> PROVE Upto(ss, i - 1) + (j + 1) =< Upto(ss, n)
      <3>1. Len(ss[i]) # 0 /\ Upto(ss, i) + j =< Upto(ss, n)
        BY <2>1, <2>3, <2>4, <2>6
      <3> QED BY ONLY <2>2, <3>1, j \in Nat
    <2> HIDE DEF S
    <2> QED BY <2>1, <2>5, <2>6
  <1> HIDE DEF S
  <1>5. Nat \subseteq S
    BY <1>3, <1>4, Induction
  <1>6. n - k \in S /\ n - k =< n /\ n - (n - k) = k
    BY <1>1, <1>5
  <1> QED BY <1>1, <1>6 DEF S

LEMMA UptoEqual ==
  ASSUME NEW T, NEW ss \in Seq(Seq(T)), NEW c \in Nat, \A k \in 1 .. Len(ss) : Len(ss[k]) = c
  PROVE  \A k \in 0 .. Len(ss) : Upto(ss, k) = c * k
  <1>1. PICK n \in Nat : n = Len(ss)
    BY LenProperties
  <1> DEFINE S == {k \in Nat : k =< n => Upto(ss, k) = c * k}
  <1>2. 0 \in S
    BY UptoSteps
  <1>3. ASSUME NEW k \in Nat, k \in S PROVE k + 1 \in S
    <2> SUFFICES ASSUME k + 1 =< n PROVE Upto(ss, k + 1) = c * (k + 1)
      OBVIOUS
    <2>1. k + 1 \in 1 .. Len(ss) /\ (k + 1) - 1 = k
      BY <1>1
    <2>2. Upto(ss, k + 1) = Upto(ss, k) + c
      BY <2>1, UptoSteps
    <2>3. Upto(ss, k) = c * k
      BY <1>3
    <2>4. c * (k + 1) = c * k + c
      OBVIOUS
    <2> QED BY <2>2, <2>3, <2>4
  <1> HIDE DEF S
  <1>4. Nat \subseteq S
    BY <1>2, <1>3, Induction
  <1> QED BY <1>1, <1>4 DEF S
-----------------------------------------------------------------------------
(***************************************************************************)
(* What lies in a sequence of bytes at an offset, which counts from 0.     *)
(***************************************************************************)
Lies(f, o, s) ==
  o \in Nat /\ o + Len(s) =< Len(f) /\ \A j \in 1 .. Len(s) : f[o + j] = s[j]

LEMMA LiesAll ==
  ASSUME NEW T, NEW f \in Seq(T)
  PROVE  Lies(f, 0, f)
  <1>1. Len(f) \in Nat
    BY LenProperties
  <1> QED BY <1>1 DEF Lies

LEMMA LiesConcat ==
  ASSUME NEW T, NEW f \in Seq(T), NEW o, NEW s \in Seq(T), NEW t \in Seq(T), Lies(f, o, s \o t)
  PROVE  Lies(f, o, s) /\ Lies(f, o + Len(s), t)
  <1>1. PICK a \in Nat, b \in Nat, c \in Nat : a = Len(s) /\ b = Len(t) /\ c = Len(f)
    BY LenProperties
  <1>2. Len(s \o t) = a + b
        /\ \A i \in 1 .. a + b : (s \o t)[i] = IF i =< a THEN s[i] ELSE t[i - a]
    BY <1>1, ConcatProperties
  <1>3. o \in Nat /\ o + (a + b) =< c /\ \A j \in 1 .. a + b : f[o + j] = (s \o t)[j]
    BY <1>1, <1>2 DEF Lies
  <1>4. Lies(f, o, s)
    <2>1. o + a =< c
      BY <1>3
    <2>2. ASSUME NEW j \in 1 .. a PROVE f[o + j] = s[j]
      <3>1. j \in 1 .. a + b /\ j =< a
        OBVIOUS
      <3> QED BY <1>2, <1>3, <3>1
    <2> QED BY <1>1, <1>3, <2>1, <2>2 DEF Lies
  <1>5. Lies(f, o + a, t)
    <2>1. o + a \in Nat /\ (o + a) + b =< c
      BY <1>3
    <2>2. ASSUME NEW j \in 1 .. b PROVE f[(o + a) + j] = t[j]
      <3>1. a + j \in 1 .. a + b /\ ~(a + j =< a) /\ (a + j) - a = j /\ o + (a + j) = (o + a) + j
        BY <1>3
      <3>2. f[o + (a + j)] = t[j]
        BY <1>2, <1>3, <3>1
      <3> QED BY <3>1, <3>2
    <2> QED BY <1>1, <2>1, <2>2 DEF Lies
  <1> QED BY <1>1, <1>4, <1>5

LEMMA LiesFlatten ==
  ASSUME NEW T, NEW f \in Seq(T), NEW o, NEW ss \in Seq(Seq(T)), Lies(f, o, FlattenSeq(ss))
  PROVE  /\ \A k \in 0 .. Len(ss) : Lies(f, o, FlattenSeq(SubSeq(ss, 1, k)))
         /\ \A k \in 1 .. Len(ss) : Lies(f, o + Upto(ss, k - 1), ss[k])
  <1>1. PICK n \in Nat : n = Len(ss)
    BY LenProperties
  <1> DEFINE S == {j \in Nat : j =< n => Lies(f, o, FlattenSeq(SubSeq(ss, 1, n - j)))}
  <1>2. ASSUME NEW k \in 1 .. n, Lies(f, o, FlattenSeq(SubSeq(ss, 1, k)))
        PROVE  Lies(f, o, FlattenSeq(SubSeq(ss, 1, k - 1))) /\ Lies(f, o + Upto(ss, k - 1), ss[k])
    <2>1. k - 1 \in 0 .. n
      OBVIOUS
    <2>2. PICK x \in Seq(T) : x = FlattenSeq(SubSeq(ss, 1, k - 1))
      BY <1>1, <2>1, FlattenPrefix
    <2>3. FlattenSeq(SubSeq(ss, 1, k)) = x \o ss[k] /\ ss[k] \in Seq(T)
      BY <1>1, <2>2, FlattenPrefix, ElementOfSeq
    <2>4. Lies(f, o, x) /\ Lies(f, o + Len(x), ss[k])
      BY <1>2, <2>3, LiesConcat
    <2> QED BY <2>2, <2>4 DEF Upto
  <1>3. 0 \in S
    <2>1. FlattenSeq(SubSeq(ss, 1, n)) = FlattenSeq(ss)
      BY <1>1, FlattenPrefix
    <2>2. n - 0 = n
      OBVIOUS
    <2>3. Lies(f, o, FlattenSeq(SubSeq(ss, 1, n - 0)))
      BY <2>1, <2>2
    <2> QED BY <2>3
  <1>4. ASSUME NEW j \in Nat, j \in S PROVE j + 1 \in S
    <2> SUFFICES ASSUME j + 1 =< n PROVE Lies(f, o, FlattenSeq(SubSeq(ss, 1, n - (j + 1))))
      OBVIOUS
    <2>1. n - j \in 1 .. n /\ (n - j) - 1 = n - (j + 1) /\ j =< n
      OBVIOUS
    <2>2. Lies(f, o, FlattenSeq(SubSeq(ss, 1, n - j)))
      BY <1>4, <2>1
    <2>3. Lies(f, o, FlattenSeq(SubSeq(ss, 1, (n - j) - 1)))
      BY <1>2, <2>1, <2>2
    <2> QED BY <2>1, <2>3
  <1> HIDE DEF S
  <1>5. Nat \subseteq S
    BY <1>3, <1>4, Induction
  <1>6. ASSUME NEW k \in 0 .. n PROVE Lies(f, o, FlattenSeq(SubSeq(ss, 1, k)))
    <2>1. n - k \in S /\ n - k =< n /\ n - (n - k) = k
      BY <1>5
    <2> QED BY <2>1 DEF S
  <1>7. \A k \in 1 .. n : Lies(f, o + Upto(ss, k - 1), ss[k])
    <2> TAKE k \in 1 .. n
    <2>1. k \in 0 .. n
      OBVIOUS
    <2> QED BY <1>2, <1>6, <2>1
  <1> QED BY <1>1, <1>6, <1>7
=============================================================================
