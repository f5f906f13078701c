--------------------------- MODULE JvmPoolsProofs ---------------------------
(***************************************************************************)
(* Proofs about JvmPools: the parser undoes what ClassFile writes, for     *)
(* every class.                                                            *)
(***************************************************************************)
EXTENDS JvmPools, SequenceFacts, FiniteSetTheorems

-----------------------------------------------------------------------------
(***************************************************************************)
(* Numbers of two and four bytes.                                          *)
(***************************************************************************)
LEMMA Division ==
  ASSUME NEW m \in Nat \ {0}, NEW n \in Nat
  PROVE  n \div m \in Nat /\ n % m \in Nat /\ (n \div m) * m + (n % m) = n
  OBVIOUS

LEMMA ByteIsNat ==
  /\ Byte \in Nat \ {0} /\ Byte * Byte \in Nat \ {0}
  /\ \A a, b \in Nat : a * Byte + b \in Nat
  BY DEF Byte

LEMMA Number2Is ==
  ASSUME NEW s \in Seq(Nat), Len(s) >= 2
  PROVE  Number2(s) \in Nat
  <1>1. s[1] \in Nat /\ s[2] \in Nat
    BY ElementOfSeq, LenProperties
  <1> QED BY <1>1, ByteIsNat DEF Number2

LEMMA Number4Is ==
  ASSUME NEW s \in Seq(Nat), Len(s) >= 4
  PROVE  Number4(s) \in Nat
  <1>1. s[1] \in Nat /\ s[2] \in Nat /\ s[3] \in Nat /\ s[4] \in Nat
    BY ElementOfSeq, LenProperties
  <1>2. s[1] * Byte + s[2] \in Nat
    BY <1>1, ByteIsNat
  <1>3. (s[1] * Byte + s[2]) * Byte + s[3] \in Nat
    BY <1>1, <1>2, ByteIsNat
  <1> QED BY <1>1, <1>3, ByteIsNat DEF Number4

LEMMA U2Is ==
  ASSUME NEW n \in Nat
  PROVE  U2(n) \in Seq(Nat) /\ Len(U2(n)) = 2 /\ Number2(U2(n)) = n
  <1>1. PICK h \in Nat, l \in Nat : h = n \div Byte /\ l = n % Byte /\ h * Byte + l = n
    BY Division, ByteIsNat
  <1>2. U2(n) = <<h, l>>
    BY <1>1 DEF U2
  <1> QED BY <1>1, <1>2 DEF Number2

LEMMA U4Is ==
  ASSUME NEW n \in Nat
  PROVE  U4(n) \in Seq(Nat) /\ Len(U4(n)) = 4 /\ Number4(U4(n)) = n
  <1>1. PICK h \in Nat, l \in Nat : /\ h = n \div (Byte * Byte) /\ l = n % (Byte * Byte)
                                    /\ h * (Byte * Byte) + l = n
    BY Division, ByteIsNat
  <1>2. PICK a \in Nat, b \in Nat : a = h \div Byte /\ b = h % Byte /\ a * Byte + b = h
    BY Division, ByteIsNat
  <1>3. PICK c \in Nat, d \in Nat : c = l \div Byte /\ d = l % Byte /\ c * Byte + d = l
    BY Division, ByteIsNat
  <1>4. U4(n) = <<a, b>> \o <<c, d>>
    BY <1>1, <1>2, <1>3 DEF U4, U2
  <1>5. /\ U4(n) \in Seq(Nat) /\ Len(U4(n)) = 4
        /\ U4(n)[1] = a /\ U4(n)[2] = b /\ U4(n)[3] = c /\ U4(n)[4] = d
    <2>1. <<a, b>> \in Seq(Nat) /\ Len(<<a, b>>) = 2 /\ <<a, b>>[1] = a /\ <<a, b>>[2] = b
      OBVIOUS
    <2>2. <<c, d>> \in Seq(Nat) /\ Len(<<c, d>>) = 2 /\ <<c, d>>[1] = c /\ <<c, d>>[2] = d
      OBVIOUS
    <2> QED BY <1>4, <2>1, <2>2, ConcatProperties
  <1>6. ((a * Byte + b) * Byte + c) * Byte + d = n
    BY <1>1, <1>2, <1>3 DEF Byte
  <1> QED BY <1>5, <1>6 DEF Number4

-----------------------------------------------------------------------------
(***************************************************************************)
(* The indices of constants grow by one or two.                            *)
(***************************************************************************)
IsIndex(f, cs, n) ==
  f = [m \in 1 .. n |-> IF m = 1 THEN 1 ELSE f[m - 1] + IndicesOf(cs[m - 1])]

LEMMA IndexExists ==
  ASSUME NEW cs
  PROVE  \A n \in Nat : \E f : IsIndex(f, cs, n)
  <1> DEFINE S == {n \in Nat : \E f : IsIndex(f, cs, n)}
  <1>1. 0 \in S
    <2> DEFINE f == [m \in 1 .. 0 |-> 0]
    <2>1. f = [m \in 1 .. 0 |-> IF m = 1 THEN 1 ELSE f[m - 1] + IndicesOf(cs[m - 1])]
      OBVIOUS
    <2> QED BY <2>1 DEF IsIndex
  <1>2. \A n \in Nat : n \in S => n + 1 \in S
    <2> TAKE n \in Nat
    <2> HAVE n \in S
    <2>1. PICK f : f = [m \in 1 .. n |-> IF m = 1 THEN 1 ELSE f[m - 1] + IndicesOf(cs[m - 1])]
      BY DEF IsIndex
    <2> DEFINE last == IF n + 1 = 1 THEN 1 ELSE f[n] + IndicesOf(cs[n])
               g == [m \in 1 .. n + 1 |-> IF m = n + 1 THEN last ELSE f[m]]
               h == [m \in 1 .. n + 1 |-> IF m = 1 THEN 1 ELSE g[m - 1] + IndicesOf(cs[m - 1])]
    <2>2. \A m \in 1 .. n + 1 : g[m] = h[m]
      <3> TAKE m \in 1 .. n + 1
      <3>1. CASE m = n + 1
        <4>1. n # 0 => g[n] = f[n]
          OBVIOUS
        <4> QED BY <3>1, <4>1
      <3>2. CASE m \in 1 .. n
        <4>1. f[m] = IF m = 1 THEN 1 ELSE f[m - 1] + IndicesOf(cs[m - 1])
          BY <2>1, <3>2
        <4>2. m # 1 => g[m - 1] = f[m - 1]
          BY <3>2
        <4> QED BY <3>2, <4>1, <4>2
      <3> QED BY <3>1, <3>2
    <2>3. g = h
      <3>1. DOMAIN g = 1 .. n + 1 /\ DOMAIN h = 1 .. n + 1
        OBVIOUS
      <3> QED BY <2>2, <3>1
    <2> HIDE DEF g
    <2>4. IsIndex(g, cs, n + 1)
      BY <2>3 DEF IsIndex
    <2> QED BY <2>4
  <1> HIDE DEF S
  <1>3. Nat \subseteq S
    BY <1>1, <1>2, Induction
  <1> QED BY <1>3 DEF S

LEMMA IndexSteps ==
  ASSUME NEW cs, Len(cs) \in Nat
  PROVE  /\ IndexIn(cs, 1) = 1
         /\ \A k \in 1 .. Len(cs) : IndexIn(cs, k + 1) = IndexIn(cs, k) + IndicesOf(cs[k])
  <1> DEFINE n == Len(cs) + 1
             f == CHOOSE f : f = [m \in 1 .. n |-> IF m = 1 THEN 1
                                                  ELSE f[m - 1] + IndicesOf(cs[m - 1])]
  <1>1. \E g : g = [m \in 1 .. n |-> IF m = 1 THEN 1 ELSE g[m - 1] + IndicesOf(cs[m - 1])]
    <2>1. n \in Nat
      OBVIOUS
    <2> HIDE DEF n
    <2> QED BY <2>1, IndexExists DEF IsIndex
  <1>2. f = [m \in 1 .. n |-> IF m = 1 THEN 1 ELSE f[m - 1] + IndicesOf(cs[m - 1])]
    BY <1>1
  <1>3. \A k : IndexIn(cs, k) = f[k]
    BY DEF IndexIn
  <1> HIDE DEF f
  <1>4. \A m \in 1 .. n : f[m] = IF m = 1 THEN 1 ELSE f[m - 1] + IndicesOf(cs[m - 1])
    BY <1>2
  <1>5. f[1] = 1
    BY <1>4
  <1>6. ASSUME NEW k \in 1 .. Len(cs) PROVE f[k + 1] = f[k] + IndicesOf(cs[k])
    <2>1. k + 1 \in 1 .. n /\ k + 1 # 1 /\ (k + 1) - 1 = k
      OBVIOUS
    <2> QED BY <1>4, <2>1
  <1> QED BY <1>3, <1>5, <1>6

LEMMA LessTrans ==
  ASSUME NEW a \in Nat, NEW b \in Nat, NEW c \in {1, 2}, a < b
  PROVE  a < b + c
  OBVIOUS

LEMMA IndicesOrdered ==
  ASSUME NEW cs, Len(cs) \in Nat
  PROVE  /\ \A k \in 1 .. Len(cs) + 1 : IndexIn(cs, k) \in Nat
         /\ \A k, l \in 1 .. Len(cs) + 1 : k < l => IndexIn(cs, k) < IndexIn(cs, l)
  <1>1. PICK n \in Nat : n = Len(cs)
    OBVIOUS
  <1>2. /\ IndexIn(cs, 1) = 1
        /\ \A k \in 1 .. n : IndexIn(cs, k + 1) = IndexIn(cs, k) + IndicesOf(cs[k])
    BY <1>1, IndexSteps
  <1>3. \A k : IndicesOf(cs[k]) \in {1, 2}
    BY DEF IndicesOf
  <1> DEFINE P(j) == /\ IndexIn(cs, j + 1) \in Nat
                     /\ \A k \in 1 .. j : IndexIn(cs, k) \in Nat /\ IndexIn(cs, k) < IndexIn(cs, j + 1)
             S == {j \in Nat : j =< n => P(j)}
  <1>4. P(0)
    <2>1. 0 + 1 = 1
      OBVIOUS
    <2> QED BY <1>2, <2>1
  <1>5. ASSUME NEW j \in Nat, j + 1 =< n, P(j) PROVE P(j + 1)
    <2>1. j + 1 \in 1 .. n /\ (j + 1) + 1 \in Nat
      BY <1>5
    <2>2. IndexIn(cs, (j + 1) + 1) = IndexIn(cs, j + 1) + IndicesOf(cs[j + 1])
      BY <1>2, <2>1
    <2>3. IndexIn(cs, (j + 1) + 1) \in Nat /\ IndexIn(cs, j + 1) < IndexIn(cs, (j + 1) + 1)
      <3>1. IndicesOf(cs[j + 1]) \in {1, 2} /\ IndexIn(cs, j + 1) \in Nat
        BY <1>3, <1>5
      <3> QED BY <2>2, <3>1
    <2>4. ASSUME NEW k \in 1 .. j + 1 
          PROVE  IndexIn(cs, k) \in Nat /\ IndexIn(cs, k) < IndexIn(cs, (j + 1) + 1)
      <3>1. CASE k = j + 1
        BY <1>5, <2>3, <3>1
      <3>2. CASE k \in 1 .. j
        <4>1. IndexIn(cs, k) \in Nat /\ IndexIn(cs, k) < IndexIn(cs, j + 1)
          BY <1>5, <3>2
        <4>2. IndicesOf(cs[j + 1]) \in {1, 2} /\ IndexIn(cs, j + 1) \in Nat
          BY <1>3, <1>5
        <4> QED BY <2>2, <4>1, <4>2, LessTrans
      <3> QED BY <3>1, <3>2
    <2> QED BY <2>3, <2>4
  <1> HIDE DEF P
  <1>6. 0 \in S
    BY <1>4
  <1>7. ASSUME NEW j \in Nat, j \in S PROVE j + 1 \in S
    BY <1>5, <1>7
  <1> HIDE DEF S
  <1>8. Nat \subseteq S
    BY <1>6, <1>7, Induction
  <1>9. \A j \in 0 .. n : P(j)
    BY <1>8 DEF S
  <1>10. ASSUME NEW k \in 1 .. n + 1 PROVE IndexIn(cs, k) \in Nat
    <2>1. k - 1 \in 0 .. n /\ (k - 1) + 1 = k
      OBVIOUS
    <2> QED BY <1>9, <2>1 DEF P
  <1>11. ASSUME NEW k \in 1 .. n + 1, NEW l \in 1 .. n + 1, k < l
         PROVE  IndexIn(cs, k) < IndexIn(cs, l)
    <2>1. l - 1 \in 0 .. n /\ (l - 1) + 1 = l /\ k \in 1 .. l - 1
      BY <1>11
    <2> QED BY <1>9, <2>1 DEF P
  <1> QED BY <1>1, <1>10, <1>11

-----------------------------------------------------------------------------
(***************************************************************************)
(* The file of a class is a sequence of bytes, and that of a list what its *)
(* first element writes and then what the others do.                       *)
(***************************************************************************)
LEMMA FileOfAttributeTyped ==
  ASSUME NEW a \in AnAttribute
  PROVE  FileOfAttribute(a) \in Seq(Nat)
  <1>1. a.name \in Nat /\ a.info \in Seq(Nat) /\ Len(a.info) \in Nat
    BY DEF AnAttribute
  <1>2. U2(a.name) \in Seq(Nat) /\ U4(Len(a.info)) \in Seq(Nat)
    BY <1>1, U2Is, U4Is
  <1> QED BY <1>1, <1>2, ConcatProperties DEF FileOfAttribute

LEMMA AttributesFile ==
  ASSUME NEW as \in Seq(AnAttribute)
  PROVE  /\ FileOfAttributes(as) \in Seq(Nat) /\ FileOfAttributes(<<>>) = <<>>
         /\ \A k \in 0 .. Len(as) - 1 :
              FileOfAttributes(Rest(as, k)) = FileOfAttribute(as[k + 1]) \o FileOfAttributes(Rest(as, k + 1))
         /\ \A k \in 0 .. Len(as) : FileOfAttributes(Rest(as, k)) \in Seq(Nat)
  <1> DEFINE F == [a \in AnAttribute |-> FileOfAttribute(a)]
  <1>1. \A a \in AnAttribute : F[a] = FileOfAttribute(a) /\ F[a] \in Seq(Nat)
    BY FileOfAttributeTyped
  <1>2. ASSUME NEW s \in Seq(AnAttribute) PROVE FileOfAttributes(s) = FlattenMap(F, s)
    <2>1. \A k \in DOMAIN s : s[k] \in AnAttribute
      BY LenProperties, ElementOfSeq
    <2> HIDE DEF F
    <2>2. [k \in DOMAIN s |-> FileOfAttribute(s[k])] = [k \in DOMAIN s |-> F[s[k]]]
      BY <1>1, <2>1
    <2> QED BY <2>2 DEF FileOfAttributes, FlattenMap
  <1> HIDE DEF F
  <1>3. PICK n \in Nat : n = Len(as)
    BY LenProperties
  <1>4. \A k \in 0 .. n : Rest(as, k) \in Seq(AnAttribute)
    BY <1>3, RestProperties
  <1>5. /\ FlattenMap(F, as) \in Seq(Nat) /\ FlattenMap(F, <<>>) = <<>>
        /\ \A k \in 0 .. n - 1 :
             FlattenMap(F, Rest(as, k)) = F[as[k + 1]] \o FlattenMap(F, Rest(as, k + 1))
        /\ \A k \in 0 .. n : FlattenMap(F, Rest(as, k)) \in Seq(Nat)
    <2>1. \A a \in AnAttribute : F[a] \in Seq(Nat)
      BY <1>1
    <2>2. /\ FlattenMap(F, as) \in Seq(Nat) /\ FlattenMap(F, <<>>) = <<>>
          /\ \A k \in 0 .. Len(as) - 1 :
               FlattenMap(F, Rest(as, k)) = F[as[k + 1]] \o FlattenMap(F, Rest(as, k + 1))
          /\ \A k \in 0 .. Len(as) : FlattenMap(F, Rest(as, k)) \in Seq(Nat)
      BY <2>1, FlattenMapRest
    <2> QED BY <1>3, <2>2
  <1>6. FileOfAttributes(as) \in Seq(Nat) /\ FileOfAttributes(<<>>) = <<>>
    BY <1>2, <1>5, EmptySeq
  <1>7. ASSUME NEW k \in 0 .. n - 1
        PROVE  FileOfAttributes(Rest(as, k)) = FileOfAttribute(as[k + 1]) \o FileOfAttributes(Rest(as, k + 1))
    <2>1. k \in 0 .. n /\ k + 1 \in 0 .. n /\ k + 1 \in 1 .. n
      OBVIOUS
    <2>2. F[as[k + 1]] = FileOfAttribute(as[k + 1])
      BY <1>1, <1>3, <2>1, ElementOfSeq
    <2> QED BY <1>2, <1>4, <1>5, <2>1, <2>2
  <1>8. \A k \in 0 .. n : FileOfAttributes(Rest(as, k)) \in Seq(Nat)
    BY <1>2, <1>4, <1>5
  <1> QED BY <1>3, <1>6, <1>7, <1>8

LEMMA FileOfMemberTyped ==
  ASSUME NEW m \in AMember
  PROVE  FileOfMember(m) \in Seq(Nat)
  <1>1. m.name \in Nat /\ m.type \in Nat /\ m.attributes \in Seq(AnAttribute)
    BY DEF AMember
  <1>2. Len(m.attributes) \in Nat /\ FileOfAttributes(m.attributes) \in Seq(Nat)
    BY <1>1, LenProperties, AttributesFile
  <1>3. /\ U2(0) \in Seq(Nat) /\ U2(m.name) \in Seq(Nat) /\ U2(m.type) \in Seq(Nat)
        /\ U2(Len(m.attributes)) \in Seq(Nat)
    BY <1>1, <1>2, U2Is
  <1> QED BY <1>2, <1>3, ConcatProperties DEF FileOfMember

LEMMA MembersFile ==
  ASSUME NEW as \in Seq(AMember)
  PROVE  /\ FileOfMembers(as) \in Seq(Nat) /\ FileOfMembers(<<>>) = <<>>
         /\ \A k \in 0 .. Len(as) - 1 :
              FileOfMembers(Rest(as, k)) = FileOfMember(as[k + 1]) \o FileOfMembers(Rest(as, k + 1))
         /\ \A k \in 0 .. Len(as) : FileOfMembers(Rest(as, k)) \in Seq(Nat)
  <1> DEFINE F == [a \in AMember |-> FileOfMember(a)]
  <1>1. \A a \in AMember : F[a] = FileOfMember(a) /\ F[a] \in Seq(Nat)
    BY FileOfMemberTyped
  <1>2. ASSUME NEW s \in Seq(AMember) PROVE FileOfMembers(s) = FlattenMap(F, s)
    <2>1. \A k \in DOMAIN s : s[k] \in AMember
      BY LenProperties, ElementOfSeq
    <2> HIDE DEF F
    <2>2. [k \in DOMAIN s |-> FileOfMember(s[k])] = [k \in DOMAIN s |-> F[s[k]]]
      BY <1>1, <2>1
    <2> QED BY <2>2 DEF FileOfMembers, FlattenMap
  <1> HIDE DEF F
  <1>3. PICK n \in Nat : n = Len(as)
    BY LenProperties
  <1>4. \A k \in 0 .. n : Rest(as, k) \in Seq(AMember)
    BY <1>3, RestProperties
  <1>5. /\ FlattenMap(F, as) \in Seq(Nat) /\ FlattenMap(F, <<>>) = <<>>
        /\ \A k \in 0 .. n - 1 :
             FlattenMap(F, Rest(as, k)) = F[as[k + 1]] \o FlattenMap(F, Rest(as, k + 1))
        /\ \A k \in 0 .. n : FlattenMap(F, Rest(as, k)) \in Seq(Nat)
    <2>1. \A a \in AMember : F[a] \in Seq(Nat)
      BY <1>1
    <2>2. /\ FlattenMap(F, as) \in Seq(Nat) /\ FlattenMap(F, <<>>) = <<>>
          /\ \A k \in 0 .. Len(as) - 1 :
               FlattenMap(F, Rest(as, k)) = F[as[k + 1]] \o FlattenMap(F, Rest(as, k + 1))
          /\ \A k \in 0 .. Len(as) : FlattenMap(F, Rest(as, k)) \in Seq(Nat)
      BY <2>1, FlattenMapRest
    <2> QED BY <1>3, <2>2
  <1>6. FileOfMembers(as) \in Seq(Nat) /\ FileOfMembers(<<>>) = <<>>
    BY <1>2, <1>5, EmptySeq
  <1>7. ASSUME NEW k \in 0 .. n - 1
        PROVE  FileOfMembers(Rest(as, k)) = FileOfMember(as[k + 1]) \o FileOfMembers(Rest(as, k + 1))
    <2>1. k \in 0 .. n /\ k + 1 \in 0 .. n /\ k + 1 \in 1 .. n
      OBVIOUS
    <2>2. F[as[k + 1]] = FileOfMember(as[k + 1])
      BY <1>1, <1>3, <2>1, ElementOfSeq
    <2> QED BY <1>2, <1>4, <1>5, <2>1, <2>2
  <1>8. \A k \in 0 .. n : FileOfMembers(Rest(as, k)) \in Seq(Nat)
    BY <1>2, <1>4, <1>5
  <1> QED BY <1>3, <1>6, <1>7, <1>8

LEMMA FileOfConstantTyped ==
  ASSUME NEW c \in AConstant
  PROVE  FileOfConstant(c) \in Seq(Nat)
  <1>1. c.tag \in Nat /\ c.bytes \in Seq(Nat) /\ Len(c.bytes) \in Nat
    BY DEF AConstant
  <1>2. U2(Len(c.bytes)) \in Seq(Nat) /\ <<c.tag>> \in Seq(Nat) /\ <<>> \in Seq(Nat)
    BY <1>1, U2Is
  <1>3. (IF c.tag = CONSTANT_UTF8 THEN U2(Len(c.bytes)) ELSE <<>>) \in Seq(Nat)
    BY <1>2
  <1> QED BY <1>1, <1>2, <1>3, ConcatProperties DEF FileOfConstant

LEMMA ConstantsFile ==
  ASSUME NEW as \in Seq(AConstant)
  PROVE  /\ FileOfConstants(as) \in Seq(Nat) /\ FileOfConstants(<<>>) = <<>>
         /\ \A k \in 0 .. Len(as) - 1 :
              FileOfConstants(Rest(as, k)) = FileOfConstant(as[k + 1]) \o FileOfConstants(Rest(as, k + 1))
         /\ \A k \in 0 .. Len(as) : FileOfConstants(Rest(as, k)) \in Seq(Nat)
  <1> DEFINE F == [a \in AConstant |-> FileOfConstant(a)]
  <1>1. \A a \in AConstant : F[a] = FileOfConstant(a) /\ F[a] \in Seq(Nat)
    BY FileOfConstantTyped
  <1>2. ASSUME NEW s \in Seq(AConstant) PROVE FileOfConstants(s) = FlattenMap(F, s)
    <2>1. \A k \in DOMAIN s : s[k] \in AConstant
      BY LenProperties, ElementOfSeq
    <2> HIDE DEF F
    <2>2. [k \in DOMAIN s |-> FileOfConstant(s[k])] = [k \in DOMAIN s |-> F[s[k]]]
      BY <1>1, <2>1
    <2> QED BY <2>2 DEF FileOfConstants, FlattenMap
  <1> HIDE DEF F
  <1>3. PICK n \in Nat : n = Len(as)
    BY LenProperties
  <1>4. \A k \in 0 .. n : Rest(as, k) \in Seq(AConstant)
    BY <1>3, RestProperties
  <1>5. /\ FlattenMap(F, as) \in Seq(Nat) /\ FlattenMap(F, <<>>) = <<>>
        /\ \A k \in 0 .. n - 1 :
             FlattenMap(F, Rest(as, k)) = F[as[k + 1]] \o FlattenMap(F, Rest(as, k + 1))
        /\ \A k \in 0 .. n : FlattenMap(F, Rest(as, k)) \in Seq(Nat)
    <2>1. \A a \in AConstant : F[a] \in Seq(Nat)
      BY <1>1
    <2>2. /\ FlattenMap(F, as) \in Seq(Nat) /\ FlattenMap(F, <<>>) = <<>>
          /\ \A k \in 0 .. Len(as) - 1 :
               FlattenMap(F, Rest(as, k)) = F[as[k + 1]] \o FlattenMap(F, Rest(as, k + 1))
          /\ \A k \in 0 .. Len(as) : FlattenMap(F, Rest(as, k)) \in Seq(Nat)
      BY <2>1, FlattenMapRest
    <2> QED BY <1>3, <2>2
  <1>6. FileOfConstants(as) \in Seq(Nat) /\ FileOfConstants(<<>>) = <<>>
    BY <1>2, <1>5, EmptySeq
  <1>7. ASSUME NEW k \in 0 .. n - 1
        PROVE  FileOfConstants(Rest(as, k)) = FileOfConstant(as[k + 1]) \o FileOfConstants(Rest(as, k + 1))
    <2>1. k \in 0 .. n /\ k + 1 \in 0 .. n /\ k + 1 \in 1 .. n
      OBVIOUS
    <2>2. F[as[k + 1]] = FileOfConstant(as[k + 1])
      BY <1>1, <1>3, <2>1, ElementOfSeq
    <2> QED BY <1>2, <1>4, <1>5, <2>1, <2>2
  <1>8. \A k \in 0 .. n : FileOfConstants(Rest(as, k)) \in Seq(Nat)
    BY <1>2, <1>4, <1>5
  <1> QED BY <1>3, <1>6, <1>7, <1>8

LEMMA ClassParts ==
  ASSUME NEW c \in Classes
  PROVE  /\ c.constants \in Seq(AConstant) /\ Len(c.constants) \in Nat
         /\ c.interfaces \in Seq(Nat) /\ Len(c.interfaces) \in Nat
         /\ c.fields \in Seq(AMember) /\ Len(c.fields) \in Nat
         /\ c.methods \in Seq(AMember) /\ Len(c.methods) \in Nat
  BY ClassAssumption, LenProperties DEF IsClass

LEMMA FileTyped ==
  ASSUME NEW c \in Classes
  PROVE  /\ Header(c) \in Seq(Nat) /\ FromMethods(c) \in Seq(Nat) /\ FromFields(c) \in Seq(Nat)
         /\ FromInterfaces(c) \in Seq(Nat) /\ FromAccess(c) \in Seq(Nat)
         /\ FileOf(c) \in Seq(Nat)
  <1>1. /\ FileOfConstants(c.constants) \in Seq(Nat) /\ FileOfMembers(c.fields) \in Seq(Nat)
        /\ FileOfMembers(c.methods) \in Seq(Nat)
    BY ClassParts, ConstantsFile, MembersFile
  <1>2. /\ U2(Len(c.methods)) \in Seq(Nat) /\ U2(Len(c.fields)) \in Seq(Nat)
        /\ U2(Len(c.interfaces)) \in Seq(Nat) /\ U2(0) \in Seq(Nat) /\ U4(0) \in Seq(Nat)
    BY ClassParts, U2Is, U4Is
  <1>3. FromMethods(c) \in Seq(Nat)
    BY <1>1, <1>2, ConcatProperties DEF FromMethods
  <1>4. FromFields(c) \in Seq(Nat)
    BY <1>1, <1>2, <1>3, ConcatProperties DEF FromFields
  <1> DEFINE is == [k \in DOMAIN c.interfaces |-> U2(c.interfaces[k])]
  <1>5. FlattenSeq(is) \in Seq(Nat)
    <2>1. PICK n \in Nat : n = Len(c.interfaces) /\ DOMAIN c.interfaces = 1 .. n
      BY ClassParts, LenProperties
    <2>2. \A k \in 1 .. n : U2(c.interfaces[k]) \in Seq(Nat)
      BY <2>1, ClassParts, ElementOfSeq, U2Is
    <2>3. is \in Seq(Seq(Nat))
      BY <2>1, <2>2
    <2> HIDE DEF is
    <2> QED BY <2>3, FlattenTyped
  <1>6. FromInterfaces(c) \in Seq(Nat)
    <2>1. FromInterfaces(c) = U2(Len(c.interfaces)) \o FlattenSeq(is) \o FromFields(c)
      BY DEF FromInterfaces
    <2> HIDE DEF is
    <2> QED BY <1>2, <1>4, <1>5, <2>1, ConcatProperties
  <1>7. FromAccess(c) \in Seq(Nat)
    BY <1>2, <1>6, ConcatProperties DEF FromAccess
  <1>8. IndexIn(c.constants, Len(c.constants) + 1) \in Nat
    BY ClassParts, IndicesOrdered
  <1>9. Header(c) \in Seq(Nat)
    <2>1. U2(IndexIn(c.constants, Len(c.constants) + 1)) \in Seq(Nat)
      BY <1>8, U2Is
    <2> QED BY <1>2, <2>1, ConcatProperties DEF Header
  <1>10. FileOf(c) \in Seq(Nat)
    BY <1>1, <1>7, <1>9, ConcatProperties DEF FileOf
  <1> QED BY <1>3, <1>4, <1>6, <1>7, <1>9, <1>10

-----------------------------------------------------------------------------
(***************************************************************************)
(* Types.  Reading stays within the file because every step asks for what  *)
(* it reads.                                                               *)
(***************************************************************************)
TheFile == class \in Classes /\ file = FileOf(class)
Typed   == TheFile /\ TypeOK

LEMMA TheFileTyped ==
  ASSUME Typed
  PROVE  file \in Seq(Nat) /\ Len(file) \in Nat /\ pos \in Nat /\ pos =< Len(file)
  <1>1. file \in Seq(Nat)
    BY FileTyped DEF Typed, TheFile
  <1> QED BY <1>1, LenProperties DEF Typed, TypeOK

LEMMA BytesTyped ==
  ASSUME Typed, NEW k \in Nat \ {0}, NEW n \in Nat, pos + k + n - 1 =< Len(file)
  PROVE  /\ Bytes(k, n) \in Seq(Nat) /\ Len(Bytes(k, n)) = n
         /\ \A j \in 1 .. n : Bytes(k, n)[j] = file[pos + k + j - 1]
         /\ n = 2 => Short(k) \in Nat
  <1>1. file \in Seq(Nat) /\ Len(file) \in Nat /\ pos \in Nat /\ pos =< Len(file)
    BY TheFileTyped
  <1>2. PICK lo \in Nat, hi \in Nat : lo = pos + k /\ hi + 1 = pos + k + n
    BY <1>1
  <1>3. \A j \in lo .. hi : file[j] \in Nat
    <2> TAKE j \in lo .. hi
    <2>1. j \in 1 .. Len(file)
      BY <1>1, <1>2
    <2> QED BY <1>1, <2>1, ElementOfSeq
  <1>4. Bytes(k, n) = SubSeq(file, lo, hi)
    <2>1. pos + k + n - 1 = hi
      BY <1>1, <1>2
    <2> QED BY <1>2, <2>1 DEF Bytes
  <1>5. /\ SubSeq(file, lo, hi) \in Seq(Nat)
        /\ Len(SubSeq(file, lo, hi)) = IF lo =< hi THEN hi - lo + 1 ELSE 0
        /\ \A j \in 1 .. hi - lo + 1 : SubSeq(file, lo, hi)[j] = file[lo + j - 1]
    <2>1. lo \in Int /\ hi \in Int
      OBVIOUS
    <2> QED BY <1>3, <2>1, SubSeqProperties
  <1>6. hi - lo + 1 = n
    BY <1>1, <1>2
  <1>7. Bytes(k, n) \in Seq(Nat) /\ Len(Bytes(k, n)) = n
    BY <1>4, <1>5, <1>6
  <1>8. \A j \in 1 .. n : Bytes(k, n)[j] = file[pos + k + j - 1]
    BY <1>2, <1>4, <1>5, <1>6
  <1>9. n = 2 => Short(k) \in Nat
    <2>1. PICK s \in Seq(Nat) : s = Bytes(k, n) /\ Len(s) = n
      BY <1>7
    <2>3. s \in Seq(Nat) /\ Len(s) = n
      BY <2>1
    <2>2. n = 2 => Number2(s) \in Nat
      BY ONLY <2>3, Number2Is
    <2> QED BY <2>1, <2>2 DEF Short
  <1> QED BY <1>7, <1>8, <1>9

LEMMA TagSizes ==
  \A tag \in Tags :
    /\ tag_additional_byte_size[tag] \in Nat
    /\ tag # CONSTANT_UTF8 => tag_additional_byte_size[tag] = BytesOf(tag)
  <1> SUFFICES ASSUME NEW tag \in Tags
               PROVE  /\ tag_additional_byte_size[tag] \in Nat
                      /\ tag # CONSTANT_UTF8 => tag_additional_byte_size[tag] = BytesOf(tag)
    OBVIOUS
  <1>1. tag \in {1, 3, 4, 5, 6, 7, 8, 9, 10, 11, 12}
    BY DEF Tags
  <1> QED BY <1>1 DEF tag_additional_byte_size, BytesOf, Wide, CONSTANT_UTF8, CONSTANT_LONG,
            CONSTANT_DOUBLE, CONSTANT_CLASS, CONSTANT_STRING_REF

\* What a step of each parser has asked for.
LEMMA ConstantAsked ==
  ASSUME Typed, stage = "constants", i < count, Reads, file[pos + 1] \in Tags
  PROVE  LET tag == file[pos + 1]
         IN  /\ Len(cp[tag]) < Cap[tag] /\ Has(Needs) /\ pos' = pos + Needs
             /\ IF tag = CONSTANT_UTF8 THEN Needs = 3 + Short(2) /\ Short(2) \in Nat
                                       ELSE Needs = 1 + tag_additional_byte_size[tag]
  <1>1. file \in Seq(Nat) /\ Len(file) \in Nat /\ pos \in Nat /\ i \in Nat /\ count \in Nat
    BY TheFileTyped DEF Typed, TypeOK
  <1>2. Has(Needs) /\ Room /\ pos' = pos + Needs
    BY DEF Reads
  <1>3. Len(cp[file[pos + 1]]) < Cap[file[pos + 1]]
    BY <1>1, <1>2 DEF Room
  <1>4. Needs = IF ~Has(1) THEN 1
                ELSE IF file[pos + 1] \notin Tags THEN 1
                ELSE IF file[pos + 1] = CONSTANT_UTF8 /\ Has(3) THEN 3 + Short(2)
                ELSE 1 + tag_additional_byte_size[file[pos + 1]]
    BY <1>1 DEF Needs
  <1>5. Has(1)
    BY <1>2, <1>4
  <1>6. CASE file[pos + 1] = CONSTANT_UTF8
    <2>1. tag_additional_byte_size[CONSTANT_UTF8] = 2
      BY DEF tag_additional_byte_size, CONSTANT_UTF8
    <2>2. Has(3)
      BY <1>2, <1>4, <1>5, <1>6, <2>1
    <2>3. Short(2) \in Nat
      BY <1>1, <2>2, BytesTyped DEF Has
    <2> QED BY <1>2, <1>3, <1>4, <1>5, <1>6, <2>2, <2>3
  <1>7. CASE file[pos + 1] # CONSTANT_UTF8
    BY <1>2, <1>3, <1>4, <1>5, <1>7
  <1> QED BY <1>6, <1>7

LEMMA AttributeAsked ==
  ASSUME Typed, todo > 0, Reads, stage \in {"fields", "methods"}
  PROVE  LET length == IF stage = "fields" THEN FieldAttrLength ELSE MethodAttrLength
         IN  Has(6) /\ length \in Nat /\ Needs = 6 + length /\ Has(Needs) /\ pos' = pos + Needs
  <1>1. file \in Seq(Nat) /\ Len(file) \in Nat /\ pos \in Nat /\ todo \in Nat
    BY TheFileTyped DEF Typed, TypeOK
  <1>2. Has(Needs) /\ pos' = pos + Needs
    BY DEF Reads
  <1>3. /\ stage = "fields" => Needs = IF Has(6) THEN 6 + FieldAttrLength ELSE 6
        /\ stage = "methods" => Needs = IF Has(6) THEN 6 + MethodAttrLength ELSE 6
    BY <1>1 DEF Needs, Looping
  <1>4. Has(6)
    BY <1>2, <1>3
  <1>5. FieldAttrLength \in Nat
    <2>1. \A k \in 3 .. 5 : file[pos + k] \in Nat
      <3> TAKE k \in 3 .. 5
      <3>1. pos + k \in 1 .. Len(file)
        BY <1>1, <1>4 DEF Has
      <3> QED BY <1>1, <3>1, ElementOfSeq
    <2> DEFINE bs == <<file[pos + 3], file[pos + 4], file[pos + 5], file[pos + 3]>>
    <2>2. bs \in Seq(Nat) /\ Len(bs) = 4
      BY <2>1
    <2> HIDE DEF bs
    <2>3. PICK s \in Seq(Nat) : s = bs /\ Len(s) = 4
      BY <2>2
    <2>4. s \in Seq(Nat) /\ Len(s) >= 4
      BY <2>3
    <2>5. Number4(s) \in Nat
      BY ONLY <2>4, Number4Is
    <2> QED BY <2>3, <2>5 DEF FieldAttrLength, bs
  <1>6. MethodAttrLength \in Nat
    <2>1. PICK k \in Nat \ {0}, n \in Nat : k = 3 /\ n = 4 /\ pos + k + n - 1 =< Len(file)
      BY <1>1, <1>4 DEF Has
    <2>2. PICK s \in Seq(Nat) : s = Bytes(k, n) /\ Len(s) = 4
      BY <2>1, BytesTyped
    <2>3. s \in Seq(Nat) /\ Len(s) >= 4
      BY <2>2
    <2>4. Number4(s) \in Nat
      BY ONLY <2>3, Number4Is
    <2> QED BY <2>1, <2>2, <2>4 DEF MethodAttrLength
  <1> QED BY <1>2, <1>3, <1>4, <1>5, <1>6

LEMMA MemberAsked ==
  ASSUME Typed, todo = 0, i < count, Reads, stage \in {"fields", "methods"}
  PROVE  /\ Needs = 8 /\ Has(8) /\ pos' = pos + 8
         /\ stage = "fields" => Len(fields) < MemberCap
         /\ stage = "methods" => Len(methods) < MemberCap
  <1>1. i \in Nat /\ count \in Nat /\ todo \in Nat
    BY DEF Typed, TypeOK
  <1>2. Needs = 8
    BY <1>1 DEF Needs, Looping
  <1> QED BY <1>1, <1>2 DEF Reads, Room

LEMMA CountAsked ==
  ASSUME Typed, ~Looping, Reads
  PROVE  /\ Needs = CASE stage = "header" -> 10 [] stage = "constants" -> 8
                      [] stage \in {"interfaces", "fields"} -> 2 [] stage = "methods" -> 0
         /\ Has(Needs) /\ pos' = pos + Needs /\ todo = 0
  <1>1. i \in Nat /\ count \in Nat /\ todo \in Nat /\ stage \in Parsing
    BY DEF Typed, TypeOK, Reads
  <1>2. i >= count /\ todo = 0
    BY <1>1 DEF Looping
  <1> QED BY <1>1, <1>2 DEF Needs, Looping, Reads, Parsing

LEMMA WithAttributeTyped ==
  ASSUME NEW pool \in Seq(AMember), pool # <<>>, NEW a \in AnAttribute
  PROVE  LET n == Len(pool)
             longer == [pool EXCEPT ![n].attributes = Append(@, a)]
         IN  /\ longer \in Seq(AMember) /\ Len(longer) = n /\ n \in Nat \ {0}
             /\ \A k \in 1 .. n - 1 : longer[k] = pool[k]
             /\ longer[n].name = pool[n].name /\ longer[n].type = pool[n].type
             /\ longer[n].attributes = Append(pool[n].attributes, a)
  <1>1. PICK n \in Nat \ {0} : n = Len(pool)
    BY EmptySeq
  <1>2. PICK r \in AMember : r = pool[n]
    BY <1>1, ElementOfSeq
  <1>3. PICK x \in Seq(AnAttribute) : x = Append(r.attributes, a)
    BY AppendProperties DEF AMember
  <1>4. PICK m \in AMember : /\ m = [r EXCEPT !.attributes = x]
                             /\ m.name = r.name /\ m.type = r.type /\ m.attributes = x
    <2>1. [r EXCEPT !.attributes = x] \in AMember
      BY DEF AMember
    <2> QED BY <2>1 DEF AMember
  <1>5. [pool EXCEPT ![n].attributes = Append(@, a)] = [pool EXCEPT ![n] = m]
    BY <1>2, <1>3, <1>4
  <1>6. /\ [pool EXCEPT ![n] = m] \in Seq(AMember) /\ Len([pool EXCEPT ![n] = m]) = n
        /\ \A k \in 1 .. n : [pool EXCEPT ![n] = m][k] = IF k = n THEN m ELSE pool[k]
    <2>1. n \in 1 .. Len(pool)
      BY <1>1
    <2> QED BY <1>1, <2>1, ExceptSeq
  <1>7. PICK longer : longer = [pool EXCEPT ![n] = m]
    OBVIOUS
  <1>8. longer[n] = m /\ \A k \in 1 .. n - 1 : longer[k] = pool[k]
    BY <1>6, <1>7
  <1> QED BY <1>1, <1>2, <1>3, <1>4, <1>5, <1>6, <1>7, <1>8

\* Attributes are read of the last member of a pool, and run from the first on.
LoopsStarted ==
  /\ todo > 0 /\ stage # "lost" => \/ stage = "fields" /\ fields # <<>>
                                   \/ stage = "methods" /\ methods # <<>>
  /\ stage = "execute" => i >= 1

Inv == Typed /\ LoopsStarted

LEMMA SectionTyped ==
  ASSUME Inv, ~Looping, Reads, stage' \in Parsing \cup {"main"},
         count' \in Nat, i' \in Nat, UNCHANGED <<input, todo, pools, init, ran>>
  PROVE  Inv'
  <1>1. Len(file) \in Nat /\ pos \in Nat
    BY TheFileTyped DEF Inv
  <1>2. Needs \in Nat /\ Has(Needs) /\ pos' = pos + Needs /\ todo = 0
    <2>1. stage \in {"header", "constants", "interfaces", "fields", "methods"}
      BY DEF Reads, Parsing
    <2> QED BY <2>1, CountAsked DEF Inv
  <1>3. pos' \in 0 .. Len(file')
    BY <1>1, <1>2 DEF Has, input
  <1>4. LoopsStarted'
    BY <1>2 DEF LoopsStarted, Parsing
  <1> QED BY <1>3, <1>4 DEF Inv, Typed, TheFile, TypeOK, input, pools

LEMMA SectionsKeep ==
  ASSUME Inv, ParseHeader \/ ParseClassInfo \/ ParseFieldsCount \/ ParseMethodsCount \/ EndOfFile
  PROVE  Inv'
  <1>1. Len(file) \in Nat /\ pos \in Nat
    BY TheFileTyped DEF Inv
  <1>2. CASE ParseHeader
    <2>1. Has(10)
      BY <1>2, CountAsked DEF ParseHeader, Section, Inv
    <2>2. PICK k \in Nat \ {0}, n \in Nat : k = 9 /\ n = 2 /\ pos + k + n - 1 =< Len(file)
      BY <1>1, <2>1 DEF Has
    <2>3. Short(9) \in Nat
      BY <2>2, BytesTyped DEF Inv
    <2> QED BY <1>2, <2>3, SectionTyped DEF ParseHeader, Section, Parsing
  <1>3. CASE ParseClassInfo
    <2>1. Has(8)
      BY <1>3, CountAsked DEF ParseClassInfo, Section, Inv
    <2>2. PICK k \in Nat \ {0}, n \in Nat : k = 7 /\ n = 2 /\ pos + k + n - 1 =< Len(file)
      BY <1>1, <2>1 DEF Has
    <2>3. Short(7) \in Nat
      BY <2>2, BytesTyped DEF Inv
    <2> QED BY <1>3, <2>3, SectionTyped DEF ParseClassInfo, Section, Parsing
  <1>4. CASE ParseFieldsCount \/ ParseMethodsCount
    <2>1. Has(2)
      BY <1>4, CountAsked DEF ParseFieldsCount, ParseMethodsCount, Section, Inv
    <2>2. PICK k \in Nat \ {0}, n \in Nat : k = 1 /\ n = 2 /\ pos + k + n - 1 =< Len(file)
      BY <1>1, <2>1 DEF Has
    <2>3. Short(1) \in Nat
      BY <2>2, BytesTyped DEF Inv
    <2> QED BY <1>4, <2>3, SectionTyped DEF ParseFieldsCount, ParseMethodsCount, Section, Parsing
  <1>5. CASE EndOfFile
    BY <1>5, SectionTyped DEF EndOfFile, Section
  <1> QED BY <1>2, <1>3, <1>4, <1>5

\* An entry is added to the pool of its tag.
LEMMA EntryTyped ==
  ASSUME Inv, NEW tag \in Tags, NEW v \in Values(tag), NEW d \in Nat,
         stage = "constants", i < count, Reads, file[pos + 1] = tag,
         cp' = [cp EXCEPT ![tag] = Append(@, [index |-> i, value |-> v])], i' = i + d,
         UNCHANGED <<input, stage, count, todo, interfaces, fields, methods, init, ran>>
  PROVE  Inv'
  <1> USE DEF Inv, Typed
  <1>1. /\ Len(file) \in Nat /\ pos \in Nat /\ i \in Nat
        /\ CapAssumption
    BY TheFileTyped, CapAssumption DEF TypeOK
  <1>2. /\ Len(cp[tag]) < Cap[tag] /\ Has(Needs) /\ pos' = pos + Needs /\ Needs \in Nat
    <2>1. IF tag = CONSTANT_UTF8 THEN Needs = 3 + Short(2) /\ Short(2) \in Nat
                                 ELSE Needs = 1 + tag_additional_byte_size[tag]
      BY ConstantAsked
    <2>2. Needs \in Nat
      BY <2>1, TagSizes
    <2> QED BY <2>2, ConstantAsked
  <1>3. pos' \in 0 .. Len(file')
    BY <1>1, <1>2 DEF Has, input
  <1> DEFINE E(t) == [index : Nat, value : Values(t)]
  <1>4. ASSUME NEW t \in Tags PROVE cp'[t] \in Seq(E(t)) /\ Len(cp'[t]) <= Cap[t]
    <2>1. cp[t] \in Seq(E(t)) /\ Len(cp[t]) <= Cap[t]
      BY DEF TypeOK
    <2>2. CASE t # tag
      BY <2>1, <2>2 DEF TypeOK
    <2>3. CASE t = tag
      <3>1. [index |-> i, value |-> v] \in E(tag)
        BY <1>1
      <3>2. cp'[t] = Append(cp[tag], [index |-> i, value |-> v])
        BY <2>3 DEF TypeOK
      <3>3. Append(cp[tag], [index |-> i, value |-> v]) \in Seq(E(tag))
            /\ Len(Append(cp[tag], [index |-> i, value |-> v])) = Len(cp[tag]) + 1
        BY <2>1, <2>3, <3>1, AppendProperties
      <3>4. Len(cp[tag]) + 1 <= Cap[tag]
        <4>1. Cap[tag] \in Nat /\ Len(cp[tag]) \in Nat
          BY <1>1, <2>1, <2>3, LenProperties DEF CapAssumption
        <4> QED BY <1>2, <4>1
      <3> QED BY <2>3, <3>2, <3>3, <3>4
    <2> QED BY <2>2, <2>3
  <1>5. DOMAIN cp' = Tags
    BY DEF TypeOK
  <1>6. LoopsStarted'
    BY DEF LoopsStarted
  <1>7. i' \in Nat
    BY <1>1
  <1> QED BY <1>3, <1>4, <1>5, <1>6, <1>7 DEF TheFile, TypeOK, input

\* The parsers of constants are one: the value that each takes out of the file.
Taken(tag) ==
  CASE tag = CONSTANT_UTF8 -> Bytes(4, Short(2))
    [] tag = CONSTANT_INTEGER -> Bytes(2, 4)
    [] tag = CONSTANT_FLOAT -> [float_of |-> Bytes(2, 4)]
    [] tag = CONSTANT_LONG -> Reverse(Bytes(2, 8))
    [] tag = CONSTANT_DOUBLE -> Reverse(Reverse(Bytes(2, 8)))
    [] tag \in Pair -> <<Short(2), Short(4)>>
    [] OTHER -> <<Short(2)>>

ParseConstant ==
  \/ parseCPString \/ parseCPInteger \/ parseCPFloat \/ parseCPLong \/ parseCPDouble
  \/ parseCPRef \/ parseCPPair

LEMMA TagsAre ==
  /\ CONSTANT_UTF8 = 1 /\ CONSTANT_INTEGER = 3 /\ CONSTANT_FLOAT = 4 /\ CONSTANT_LONG = 5
  /\ CONSTANT_DOUBLE = 6 /\ CONSTANT_CLASS = 7 /\ CONSTANT_STRING_REF = 8
  /\ Tags = {1, 3, 4, 5, 6, 7, 8, 9, 10, 11, 12} /\ Pair = {9, 10, 11, 12} /\ Wide = {5, 6}
  BY DEF Tags, Pair, Wide, CONSTANT_UTF8, CONSTANT_INTEGER, CONSTANT_FLOAT, CONSTANT_LONG,
         CONSTANT_DOUBLE, CONSTANT_CLASS, CONSTANT_STRING_REF, CONSTANT_FIELD_REF,
         CONSTANT_NAME_AND_TYPE

LEMMA ParsersAreOne ==
  ASSUME ParseConstant
  PROVE  \E tag \in Tags : ParseCP(tag, Taken(tag), IF tag \in Wide THEN 2 ELSE 1)
  <1>1. CASE parseCPString
    BY <1>1, TagsAre DEF parseCPString, Taken
  <1>2. CASE parseCPInteger
    BY <1>2, TagsAre DEF parseCPInteger, Taken
  <1>3. CASE parseCPFloat
    BY <1>3, TagsAre DEF parseCPFloat, Taken
  <1>4. CASE parseCPLong
    BY <1>4, TagsAre DEF parseCPLong, Taken
  <1>5. CASE parseCPDouble
    BY <1>5, TagsAre DEF parseCPDouble, Taken
  <1>6. CASE parseCPRef
    BY <1>6, TagsAre DEF parseCPRef, Taken
  <1>7. CASE parseCPPair
    BY <1>7, TagsAre DEF parseCPPair, Taken
  <1> QED BY <1>1, <1>2, <1>3, <1>4, <1>5, <1>6, <1>7 DEF ParseConstant

LEMMA ReverseTyped ==
  ASSUME NEW S, NEW s \in Seq(S)
  PROVE  Reverse(s) \in Seq(S) /\ Reverse(Reverse(s)) = s
  <1>1. PICK m \in Nat : m = Len(s) /\ s = [k \in 1 .. m |-> s[k]]
    BY LenProperties
  <1>2. \A t : Len(t) = m => Reverse(t) = [k \in 1 .. m |-> t[(m - k) + 1]]
    BY DEF Reverse
  <1>3. PICK r : r = [k \in 1 .. m |-> s[(m - k) + 1]] /\ r = [k \in 1 .. m |-> r[k]]
    OBVIOUS
  <1>4. \A k \in 1 .. m : (m - k) + 1 \in 1 .. m /\ (m - ((m - k) + 1)) + 1 = k
    OBVIOUS
  <1>5. \A k \in 1 .. m : r[k] \in S
    BY <1>1, <1>3, <1>4, ElementOfSeq
  <1>6. r \in Seq(S) /\ Len(r) = m
    <2>1. m \in Nat /\ r = [k \in 1 .. m |-> r[k]] /\ \A k \in 1 .. m : r[k] \in S
      BY <1>3, <1>5
    <2> QED BY ONLY <2>1, FunctionIsSeq
  <1>7. [k \in 1 .. m |-> r[(m - k) + 1]] = [k \in 1 .. m |-> s[k]]
    BY <1>3, <1>4
  <1>8. Reverse(s) = r
    BY <1>1, <1>2, <1>3
  <1>9. Reverse(r) = s
    BY <1>1, <1>2, <1>6, <1>7
  <1> QED BY <1>6, <1>8, <1>9

LEMMA TakenTyped ==
  ASSUME Inv, NEW tag \in Tags, stage = "constants", i < count, Reads, file[pos + 1] = tag
  PROVE  Taken(tag) \in Values(tag)
  <1>1. Len(file) \in Nat /\ pos \in Nat
    BY TheFileTyped DEF Inv
  <1>2. /\ tag = CONSTANT_UTF8 => Has(3 + Short(2)) /\ Short(2) \in Nat
        /\ tag # CONSTANT_UTF8 => Has(1 + BytesOf(tag))
    BY ConstantAsked, TagSizes DEF Inv
  <1>3. ASSUME NEW k \in Nat \ {0}, NEW n \in Nat, Has(k + n - 1)
        PROVE  Bytes(k, n) \in Seq(Nat) /\ (n = 2 => Short(k) \in Nat)
    <2>1. pos + k + n - 1 =< Len(file)
      BY <1>1, <1>3 DEF Has
    <2> QED BY <2>1, BytesTyped DEF Inv
  <1>4. CASE tag = CONSTANT_UTF8
    <2>1. PICK n \in Nat : n = Short(2) /\ Has(4 + n - 1)
      BY <1>1, <1>2, <1>4
    <2>2. Bytes(4, n) \in Seq(Nat)
      BY <1>3, <2>1
    <2> QED BY <1>4, <2>1, <2>2, TagsAre DEF Taken, Values
  <1>5. CASE tag \in {CONSTANT_INTEGER, CONSTANT_FLOAT}
    <2>1. Has(2 + 4 - 1)
      BY <1>2, <1>5, TagsAre DEF BytesOf
    <2>2. Bytes(2, 4) \in Seq(Nat)
      BY <1>3, <2>1
    <2>3. CASE tag = CONSTANT_INTEGER
      BY <2>2, <2>3, TagsAre DEF Taken, Values
    <2>4. CASE tag = CONSTANT_FLOAT
      <3>1. Taken(tag) = [float_of |-> Bytes(2, 4)] /\ Values(tag) = [float_of : Seq(Nat)]
        BY <2>4, TagsAre DEF Taken, Values
      <3> QED BY <2>2, <3>1
    <2> QED BY <1>5, <2>3, <2>4
  <1>6. CASE tag \in Wide
    <2>1. Has(2 + 8 - 1)
      BY <1>2, <1>6, TagsAre DEF BytesOf
    <2>2. Bytes(2, 8) \in Seq(Nat)
      BY <1>3, <2>1
    <2>3. Reverse(Bytes(2, 8)) \in Seq(Nat) /\ Reverse(Reverse(Bytes(2, 8))) \in Seq(Nat)
      BY <2>2, ReverseTyped
    <2> QED BY <1>6, <2>3, TagsAre DEF Taken, Values
  <1>7. CASE tag \in Pair
    <2>1. Has(2 + 2 - 1) /\ Has(4 + 2 - 1)
      BY <1>1, <1>2, <1>7, TagsAre DEF BytesOf, Has
    <2>2. PICK x \in Nat : x = Short(2)
      BY <1>3, <2>1
    <2>5. PICK k \in Nat \ {0}, n \in Nat : k = 4 /\ n = 2 /\ Has(k + n - 1)
      BY <2>1
    <2>4. PICK y \in Nat : y = Short(4)
      BY <1>3, <2>5
    <2>3. Taken(tag) = <<x, y>> /\ Values(tag) = Seq(Nat)
      BY <1>7, <2>2, <2>4, TagsAre DEF Taken, Values
    <2> QED BY <2>3
  <1>8. CASE tag \in {CONSTANT_CLASS, CONSTANT_STRING_REF}
    <2>1. Has(2 + 2 - 1)
      BY <1>1, <1>2, <1>8, TagsAre DEF BytesOf
    <2>4. PICK k \in Nat \ {0}, n \in Nat : k = 2 /\ n = 2 /\ Has(k + n - 1)
      BY <2>1
    <2>2. PICK x \in Nat : x = Short(2)
      BY <1>3, <2>4
    <2>3. Taken(tag) = <<x>> /\ Values(tag) = Seq(Nat)
      BY <1>8, <2>2, TagsAre DEF Taken, Values
    <2> QED BY <2>3
  <1> QED BY <1>4, <1>5, <1>6, <1>7, <1>8, TagsAre

LEMMA ConstantsKeep ==
  ASSUME Inv, ParseConstant
  PROVE  Inv'
  <1>1. PICK tag \in Tags : ParseCP(tag, Taken(tag), IF tag \in Wide THEN 2 ELSE 1)
    BY ParsersAreOne
  <1>2. PICK v \in Values(tag) : v = Taken(tag)
    BY <1>1, TakenTyped DEF ParseCP
  <1>3. PICK d \in Nat : d = IF tag \in Wide THEN 2 ELSE 1
    OBVIOUS
  <1> QED BY <1>1, <1>2, <1>3, EntryTyped DEF ParseCP

\* The constant pool apart from the rest.
ConstantsTyped ==
  /\ DOMAIN cp = Tags
  /\ \A tag \in Tags :
       cp[tag] \in Seq([index : Nat, value : Values(tag)]) /\ Len(cp[tag]) <= Cap[tag]

OthersTyped ==
  /\ stage \in Parsing \cup {"main", "execute", "end", "lost"}
  /\ pos \in 0 .. Len(file) /\ i \in Nat /\ count \in Nat /\ todo \in Nat
  /\ interfaces \in Seq([index : Nat, value : Seq(Nat)])
  /\ fields \in Seq(AMember) /\ methods \in Seq(AMember)
  /\ ran \in Seq(Seq(Nat))
  /\ Len(interfaces) <= MemberCap /\ Len(fields) <= MemberCap /\ Len(methods) <= MemberCap
  /\ init \in 0 .. Len(methods)

LEMMA TypeParts == TypeOK <=> ConstantsTyped /\ OthersTyped
  BY DEF TypeOK, ConstantsTyped, OthersTyped

LEMMA TypePartsNext == TypeOK' <=> ConstantsTyped' /\ OthersTyped'
  BY DEF TypeOK, ConstantsTyped, OthersTyped

LEMMA SameConstants == ASSUME ConstantsTyped, UNCHANGED cp PROVE ConstantsTyped'
  BY DEF ConstantsTyped

\* A step that leaves the constants alone.
LEMMA StepTyped ==
  ASSUME Inv, UNCHANGED <<input, cp>>, OthersTyped',
         todo' > 0 /\ stage' # "lost" => \/ stage' = "fields" /\ fields' # <<>>
                                         \/ stage' = "methods" /\ methods' # <<>>,
         stage' = "execute" => i' >= 1
  PROVE  Inv'
  <1>1. ConstantsTyped
    BY TypeParts DEF Inv, Typed
  <1>2. TypeOK'
    BY <1>1, SameConstants, TypePartsNext
  <1>3. TheFile' /\ LoopsStarted'
    BY DEF Inv, Typed, TheFile, input, LoopsStarted
  <1> QED BY <1>2, <1>3 DEF Inv, Typed

\* What a step of a loop over members reads.
LEMMA MemberRead ==
  ASSUME Inv, Reads, stage \in {"fields", "methods"}
  PROVE  /\ todo = 0 /\ i < count =>
              Short(3) \in Nat /\ Short(5) \in Nat /\ Short(7) \in Nat /\ Member \in AMember
         /\ todo > 0 =>
              LET length == IF stage = "fields" THEN FieldAttrLength ELSE MethodAttrLength
              IN  /\ Short(1) \in Nat /\ Bytes(7, length) \in Seq(Nat)
                  /\ [name |-> Short(1), info |-> Bytes(7, length)] \in AnAttribute
         /\ todo > 0 \/ i < count => pos' \in 0 .. Len(file)
  <1>1. Len(file) \in Nat /\ pos \in Nat /\ todo \in Nat /\ i \in Nat /\ count \in Nat
    BY TheFileTyped DEF Inv, Typed, TypeOK
  <1>2. ASSUME NEW k \in Nat \ {0}, NEW n \in Nat, Has(k + n - 1)
        PROVE  Bytes(k, n) \in Seq(Nat) /\ (n = 2 => Short(k) \in Nat)
    <2>1. pos + k + n - 1 =< Len(file)
      BY <1>1, <1>2 DEF Has
    <2> QED BY <2>1, BytesTyped DEF Inv
  <1>3. ASSUME NEW k \in Nat \ {0}, Has(k + 1) PROVE Short(k) \in Nat
    <2>1. PICK n \in Nat : n = 2 /\ Has(k + n - 1)
      BY <1>3
    <2> QED BY <1>2, <2>1
  <1>4. CASE todo = 0 /\ i < count
    <2>1. Has(8) /\ pos' = pos + 8
      BY <1>4, MemberAsked DEF Inv
    <2>2. Has(3 + 1) /\ Has(5 + 1) /\ Has(7 + 1)
      BY <1>1, <2>1 DEF Has
    <2>3. Short(3) \in Nat /\ Short(5) \in Nat /\ Short(7) \in Nat
      <3>1. PICK k \in Nat \ {0} : k = 3 /\ Has(k + 1)
        BY <2>2
      <3>2. PICK l \in Nat \ {0} : l = 5 /\ Has(l + 1)
        BY <2>2
      <3>3. PICK m \in Nat \ {0} : m = 7 /\ Has(m + 1)
        BY <2>2
      <3> QED BY <1>3, <3>1, <3>2, <3>3
    <2>4. Member \in AMember
      <3>1. PICK x \in Nat, y \in Nat : x = Short(3) /\ y = Short(5)
        BY <2>3
      <3>2. PICK e \in Seq(AnAttribute) : e = <<>>
        BY EmptySeq
      <3>3. [name |-> x, type |-> y, attributes |-> e] \in AMember
        BY DEF AMember
      <3> QED BY <3>1, <3>2, <3>3 DEF Member
    <2>5. pos' \in 0 .. Len(file)
      BY <1>1, <2>1 DEF Has
    <2> QED BY <1>4, <2>3, <2>4, <2>5
  <1>5. CASE todo > 0
    <2>1. PICK length \in Nat :
            /\ length = IF stage = "fields" THEN FieldAttrLength ELSE MethodAttrLength
            /\ Has(6) /\ Has(6 + length) /\ pos' = pos + (6 + length)
      BY <1>5, AttributeAsked DEF Inv
    <2>2. Short(1) \in Nat
      <3>1. PICK k \in Nat \ {0} : k = 1 /\ Has(k + 1)
        BY <1>1, <2>1 DEF Has
      <3> QED BY <1>3, <3>1
    <2>3. Bytes(7, length) \in Seq(Nat)
      <3>1. PICK k \in Nat \ {0} : k = 7 /\ Has(k + length - 1)
        BY <1>1, <2>1 DEF Has
      <3> QED BY <1>2, <3>1
    <2>4. [name |-> Short(1), info |-> Bytes(7, length)] \in AnAttribute
      <3>1. PICK x \in Nat : x = Short(1)
        BY <2>2
      <3>2. PICK s \in Seq(Nat) : s = Bytes(7, length)
        BY <2>3
      <3>3. [name |-> x, info |-> s] \in AnAttribute
        BY DEF AnAttribute
      <3> QED BY <3>1, <3>2, <3>3
    <2>5. pos' \in 0 .. Len(file)
      BY <1>1, <2>1 DEF Has
    <2> QED BY <1>5, <2>1, <2>2, <2>3, <2>4, <2>5
  <1> QED BY <1>1, <1>4, <1>5

LEMMA MembersKeep ==
  ASSUME Inv, parseFP \/ parseMP
  PROVE  Inv'
  <1>0. OthersTyped /\ TypeOK /\ Typed /\ LoopsStarted
    BY TypeParts DEF Inv, Typed
  <1>1. /\ Reads /\ stage \in {"fields", "methods"} /\ todo = 0 /\ i < count /\ i \in Nat
        /\ i' = i + 1 /\ todo' = Short(7)
        /\ UNCHANGED <<input, stage, count, cp, interfaces, init, ran>>
        /\ stage = "fields" => fields' = Append(fields, Member) /\ UNCHANGED methods
        /\ stage = "methods" => methods' = Append(methods, Member) /\ UNCHANGED fields
    BY <1>0 DEF parseFP, parseMP, OthersTyped
  <1>2. Member \in AMember /\ Short(7) \in Nat /\ pos' \in 0 .. Len(file)
    BY <1>1, MemberRead
  <1>3. /\ Len(fields) \in Nat /\ Len(methods) \in Nat /\ MemberCap \in Nat
        /\ stage = "fields" => Len(fields) < MemberCap
        /\ stage = "methods" => Len(methods) < MemberCap
    BY <1>0, <1>1, MemberAsked, LenProperties, CapAssumption DEF OthersTyped
  <1>4. ASSUME NEW pool \in Seq(AMember), Len(pool) \in Nat, Len(pool) < MemberCap
        PROVE  /\ Append(pool, Member) \in Seq(AMember) /\ Append(pool, Member) # <<>>
               /\ Len(Append(pool, Member)) =< MemberCap
               /\ Len(Append(pool, Member)) = Len(pool) + 1
    BY <1>2, <1>3, <1>4, AppendProperties
  <1>5. CASE stage = "fields"
    <2>1. /\ fields' \in Seq(AMember) /\ fields' # <<>> /\ Len(fields') =< MemberCap
          /\ methods' = methods
      BY <1>0, <1>1, <1>3, <1>4, <1>5 DEF OthersTyped
    <2>2. OthersTyped'
      BY <1>0, <1>1, <1>2, <1>5, <2>1 DEF OthersTyped, input
    <2>3. UNCHANGED <<input, cp>>
      BY <1>1
    <2>4. stage' = "fields" /\ fields' # <<>>
      BY <1>1, <1>5, <2>1
    <2> QED BY <2>2, <2>3, <2>4, StepTyped
  <1>6. CASE stage = "methods"
    <2>1. /\ methods' \in Seq(AMember) /\ methods' # <<>> /\ Len(methods') =< MemberCap
          /\ fields' = fields /\ Len(methods') = Len(methods) + 1
      BY <1>0, <1>1, <1>3, <1>4, <1>6 DEF OthersTyped
    <2>2. init' \in 0 .. Len(methods')
      BY <1>0, <1>1, <1>3, <2>1 DEF OthersTyped
    <2> QED BY <1>0, <1>1, <1>2, <1>6, <2>1, <2>2, StepTyped DEF OthersTyped, input
  <1> QED BY <1>1, <1>5, <1>6

LEMMA AttributesKeep ==
  ASSUME Inv, parseAttr \/ parseMethodAttr
  PROVE  Inv'
  <1>0. OthersTyped /\ TypeOK /\ Typed /\ LoopsStarted
    BY TypeParts DEF Inv, Typed
  <1> DEFINE length == IF stage = "fields" THEN FieldAttrLength ELSE MethodAttrLength
             attr   == [name |-> Short(1), info |-> Bytes(7, length)]
             Longer(pool) == [pool EXCEPT ![Len(pool)].attributes = Append(@, attr)]
  <1>1. /\ Reads /\ stage \in {"fields", "methods"} /\ todo > 0 /\ todo \in Nat /\ todo' = todo - 1
        /\ UNCHANGED <<input, stage, i, count, cp, interfaces, init, ran>>
        /\ stage = "fields" => fields' = Longer(fields) /\ UNCHANGED methods
        /\ stage = "methods" => methods' = Longer(methods) /\ UNCHANGED fields
    BY <1>0 DEF parseAttr, parseMethodAttr, OthersTyped, WithAttribute
  <1>2. attr \in AnAttribute /\ pos' \in 0 .. Len(file)
    BY <1>1, MemberRead
  <1> HIDE DEF attr
  <1>3. ASSUME NEW pool \in Seq(AMember), pool # <<>>
        PROVE  Longer(pool) \in Seq(AMember) /\ Len(Longer(pool)) = Len(pool) /\ Longer(pool) # <<>>
    <2>1. PICK a \in AnAttribute : a = attr
      BY <1>2
    <2>2. Longer(pool) \in Seq(AMember) /\ Len(Longer(pool)) = Len(pool) /\ Len(pool) # 0
      BY <1>3, <2>1, WithAttributeTyped
    <2> HIDE DEF Longer
    <2> QED BY <2>2, EmptySeq
  <1> HIDE DEF Longer
  <1>4. todo' \in Nat
    BY <1>1
  <1>5. CASE stage = "fields"
    <2>1. fields' \in Seq(AMember) /\ fields' # <<>> /\ Len(fields') = Len(fields) /\ methods' = methods
      BY <1>0, <1>1, <1>3, <1>5 DEF OthersTyped, LoopsStarted
    <2>2. OthersTyped'
      BY <1>0, <1>1, <1>2, <1>4, <1>5, <2>1 DEF OthersTyped, input
    <2>3. UNCHANGED <<input, cp>>
      BY <1>1
    <2>4. stage' = "fields" /\ fields' # <<>>
      BY <1>1, <1>5, <2>1
    <2> QED BY <2>2, <2>3, <2>4, StepTyped
  <1>6. CASE stage = "methods"
    <2>1. methods' \in Seq(AMember) /\ methods' # <<>> /\ Len(methods') = Len(methods) /\ fields' = fields
      BY <1>0, <1>1, <1>3, <1>6 DEF OthersTyped, LoopsStarted
    <2> QED BY <1>0, <1>1, <1>2, <1>4, <1>6, <2>1, StepTyped DEF OthersTyped, input
  <1> QED BY <1>1, <1>5, <1>6

LEMMA CodeTyped ==
  ASSUME NEW info \in Seq(Nat), IsCodeLike(info)
  PROVE  convertToCodeAttribute(info) \in Seq(Nat)
  <1>1. PICK n \in Nat : n = Len(info) /\ n >= 8
    BY LenProperties DEF IsCodeLike
  <1>2. \A k \in 1 .. n : info[k] \in Nat
    BY <1>1, ElementOfSeq
  <1>3. CodeLength(info) \in Nat
    <2>1. PICK s \in Seq(Nat) : s = SubSeq(info, 5, 8) /\ Len(s) = 4
      <3>1. \A k \in 5 .. 8 : info[k] \in Nat
        BY <1>1, <1>2
      <3>2. SubSeq(info, 5, 8) \in Seq(Nat) /\ Len(SubSeq(info, 5, 8)) = 4
        BY <3>1, SubSeqProperties
      <3> QED BY <3>2
    <2>2. s \in Seq(Nat) /\ Len(s) >= 4
      BY <2>1
    <2>3. Number4(s) \in Nat
      BY ONLY <2>2, Number4Is
    <2> QED BY <2>1, <2>3 DEF CodeLength
  <1>4. PICK hi \in Nat : hi = 8 + CodeLength(info) /\ hi =< n
    BY <1>1, <1>3 DEF IsCodeLike
  <1>5. \A k \in 9 .. hi : info[k] \in Nat
    BY <1>2, <1>4
  <1>6. 9 \in Int /\ hi \in Int
    OBVIOUS
  <1> QED BY <1>4, <1>5, <1>6, SubSeqProperties DEF convertToCodeAttribute

LEMMA OthersKeep ==
  ASSUME Inv, UnknownTag \/ parseIPClass \/ findMethodInPool \/ executeMethod \/ free_pools
              \/ ReadsAstray
  PROVE  Inv'
  <1>0. OthersTyped /\ TypeOK /\ Typed /\ LoopsStarted
    BY TypeParts DEF Inv, Typed
  <1>1. /\ Len(file) \in Nat /\ pos \in Nat /\ i \in Nat /\ MemberCap \in Nat
        /\ todo > 0 => stage \in {"fields", "methods", "lost"}
    BY <1>0, TheFileTyped, CapAssumption DEF OthersTyped, LoopsStarted, CapAssumption
  <1>2. ASSUME Lost PROVE Inv'
    BY <1>0, <1>2, StepTyped DEF Lost, OthersTyped, input, pools
  <1>3. CASE UnknownTag
    BY <1>0, <1>1, <1>3, StepTyped DEF UnknownTag, OthersTyped, input, pools, LoopsStarted
  <1>4. CASE parseIPClass
    <2>1. Needs = 2 /\ Has(2) /\ pos' = pos + 2 /\ Len(interfaces) < MemberCap
      BY <1>4 DEF parseIPClass, Reads, Room, Needs
    <2>2. PICK k \in Nat \ {0}, n \in Nat : k = 1 /\ n = 2 /\ pos + k + n - 1 =< Len(file)
      BY <1>1, <2>1 DEF Has
    <2>3. Short(1) \in Nat
      BY <1>0, <2>2, BytesTyped
    <2>4. PICK x \in Nat : x = Short(1)
      BY <2>3
    <2> DEFINE E == [index : Nat, value : Seq(Nat)]
    <2>5. PICK e \in E : e = [index |-> 1, value |-> <<x>>]
      <3>1. <<x>> \in Seq(Nat)
        OBVIOUS
      <3> QED BY <3>1
    <2>6. interfaces' = Append(interfaces, e) /\ interfaces \in Seq(E) /\ Len(interfaces) \in Nat
      BY <1>4, <2>4, <2>5, <1>0, LenProperties DEF parseIPClass, OthersTyped
    <2>7. interfaces' \in Seq(E) /\ Len(interfaces') = Len(interfaces) + 1
      BY <2>6, AppendProperties
    <2>8. Len(interfaces') =< MemberCap /\ pos' \in 0 .. Len(file)
      BY <1>1, <2>1, <2>6, <2>7 DEF Has
    <2> QED BY <1>0, <1>1, <1>4, <2>7, <2>8, StepTyped
          DEF parseIPClass, OthersTyped, input, LoopsStarted
  <1>5. CASE findMethodInPool
    <2>1. CASE ~Crashes /\ init' = FoundAt
      <3>1. PICK n \in Nat : n = Len(methods)
        BY <1>0, LenProperties DEF OthersTyped
      <3> DEFINE T == {k \in 1 .. n : findUTF8(methods[k].name) = InitName}
      <3>2. FoundAt = IF T # {} THEN Min(T) ELSE 0
        BY <3>1 DEF FoundAt, SelectInSeq
      <3>3. T \subseteq 1 .. n
        OBVIOUS
      <3> HIDE DEF T
      <3>4. FoundAt \in 0 .. n
        BY <3>2, <3>3, FirstOf
      <3> QED BY <1>0, <1>1, <1>5, <2>1, <3>1, <3>4, StepTyped
            DEF findMethodInPool, Lost, OthersTyped, input, pools
    <2>2. CASE Crashes /\ Lost
      BY <1>2, <2>2
    <2> QED BY <1>5, <2>1, <2>2 DEF findMethodInPool
  <1>6. CASE executeMethod
    <2>1. PICK attr : attr = Attributes[i]
      OBVIOUS
    <2>2. CASE ~IsCodeLike(attr.info) /\ Lost
      BY <1>2, <2>2
    <2>3. CASE /\ IsCodeLike(attr.info)
               /\ ran' = ran \/ ran' = Append(ran, convertToCodeAttribute(attr.info))
               /\ i' = i + 1
               /\ UNCHANGED <<input, pos, stage, count, todo, pools, init>>
      <3>1. attr \in AnAttribute
        <4>0. i >= 1 /\ i =< Len(Attributes)
          BY <1>0, <1>6 DEF executeMethod, LoopsStarted
        <4>1. init # 0 /\ i \in 1 .. Len(methods[init].attributes)
          <5>1. CASE init = 0
            <6>1. Len(Attributes) = 0
              BY <5>1, EmptySeq DEF Attributes
            <6> QED BY <1>1, <4>0, <6>1
          <5>2. CASE init # 0
            <6>1. Attributes = methods[init].attributes
              BY <5>2 DEF Attributes
            <6>2. Len(Attributes) \in Nat
              <7>1. init \in 1 .. Len(methods) /\ methods \in Seq(AMember)
                BY <5>2, <1>0, LenProperties DEF OthersTyped
              <7>2. methods[init] \in AMember
                BY <7>1, ElementOfSeq
              <7>3. methods[init].attributes \in Seq(AnAttribute)
                BY <7>2 DEF AMember
              <7> QED BY <6>1, <7>3, LenProperties
            <6> QED BY <1>1, <4>0, <5>2, <6>1, <6>2
          <5> QED BY <5>1, <5>2
        <4>2. init \in 1 .. Len(methods) /\ methods \in Seq(AMember)
          BY <4>1, <1>0, LenProperties DEF OthersTyped
        <4>4. methods[init] \in AMember
          BY <4>2, ElementOfSeq
        <4>3. methods[init].attributes \in Seq(AnAttribute)
          BY <4>4 DEF AMember
        <4> QED BY <2>1, <4>1, <4>3, ElementOfSeq DEF Attributes
      <3>2. PICK info \in Seq(Nat) : info = attr.info
        BY <3>1 DEF AnAttribute
      <3>3. convertToCodeAttribute(info) \in Seq(Nat)
        BY <2>3, <3>2, CodeTyped
      <3>4. ran' \in Seq(Seq(Nat))
        <4>1. ran \in Seq(Seq(Nat))
          BY <1>0 DEF OthersTyped
        <4>2. PICK code \in Seq(Nat) : code = convertToCodeAttribute(attr.info)
          BY <3>2, <3>3
        <4>3. Append(ran, code) \in Seq(Seq(Nat))
          BY <4>1, AppendProperties
        <4> QED BY <2>3, <4>1, <4>2, <4>3
      <3> QED BY <1>0, <1>1, <1>6, <2>3, <3>4, StepTyped DEF executeMethod, OthersTyped, input, pools
    <2> QED BY <1>6, <2>1, <2>2, <2>3 DEF executeMethod
  <1>7. CASE free_pools
    <2>1. PICK n \in Nat : n = Len(methods) /\ DOMAIN methods = 1 .. n
      BY <1>0, LenProperties DEF OthersTyped
    <2>2. PICK m \in AMember : m = [name |-> 0, type |-> 0, attributes |-> <<>>]
      BY EmptySeq DEF AMember
    <2>3. methods' = [k \in 1 .. n |-> m]
      BY <1>7, <2>1, <2>2 DEF free_pools
    <2>4. methods' = [k \in 1 .. n |-> methods'[k]] /\ \A k \in 1 .. n : methods'[k] \in AMember
      BY <2>3
    <2>5. methods' \in Seq(AMember) /\ Len(methods') = n
      BY <2>4, FunctionIsSeq
    <2> QED BY <1>0, <1>1, <1>7, <2>1, <2>5, StepTyped DEF free_pools, OthersTyped, input
  <1>8. CASE ReadsAstray
    BY <1>2, <1>8 DEF ReadsAstray
  <1> QED BY <1>3, <1>4, <1>5, <1>6, <1>7, <1>8

LEMMA InitInv == Init => Inv
  <1> SUFFICES ASSUME Init PROVE Inv
    OBVIOUS
  <1>1. file \in Seq(Nat) /\ Len(file) \in Nat
    BY FileTyped, LenProperties DEF Init
  <1>2. ASSUME NEW tag \in Tags
        PROVE  cp[tag] \in Seq([index : Nat, value : Values(tag)]) /\ Len(cp[tag]) <= Cap[tag]
    <2>1. cp[tag] = <<>> /\ Len(<<>>) = 0 /\ Cap[tag] \in Nat
      BY CapAssumption DEF Init, CapAssumption
    <2> QED BY <2>1, EmptySeq
  <1>3. /\ <<>> \in Seq(AMember) /\ <<>> \in Seq([index : Nat, value : Seq(Nat)])
        /\ <<>> \in Seq(Seq(Nat)) /\ Len(<<>>) = 0 /\ 0 =< MemberCap
    BY EmptySeq, CapAssumption DEF CapAssumption
  <1> QED BY <1>1, <1>2, <1>3 DEF Init, Inv, Typed, TheFile, TypeOK, Parsing, LoopsStarted

LEMMA NextInv == Inv /\ [Next \/ Stopped]_vars => Inv'
  <1> SUFFICES ASSUME Inv, [Next \/ Stopped]_vars PROVE Inv'
    OBVIOUS
  <1>1. CASE UNCHANGED vars
    BY <1>1 DEF Inv, Typed, TheFile, TypeOK, LoopsStarted, vars, input, pools
  <1>2. CASE Next
    BY <1>2, SectionsKeep, ConstantsKeep, MembersKeep, AttributesKeep, OthersKeep
       DEF Next, ParseConstant
  <1> QED BY <1>1, <1>2 DEF Stopped

-----------------------------------------------------------------------------
(* For every class: the pools stay within their arrays and what they hold  *)
(* is of its type, the parser stays within the file, and <init> is one of  *)
(* the methods (simple_jvm.h:149-193, class_parser.c:55-118).              *)
THEOREM PoolsTypeOK == Spec => []TypeOK
  <1>1. Inv => TypeOK
    BY DEF Inv, Typed
  <1> QED BY <1>1, InitInv, NextInv, PTL DEF Spec

-----------------------------------------------------------------------------
(***************************************************************************)
(* What a step reads where the class has written it.                       *)
(***************************************************************************)
LEMMA Joined ==
  ASSUME NEW s, NEW t, s \in Seq(Nat) /\ t \in Seq(Nat)
  PROVE  s \o t \in Seq(Nat) /\ Len(s \o t) = Len(s) + Len(t)
  BY ConcatProperties

LEMMA NoneJoined ==
  ASSUME NEW s, s \in Seq(Nat)
  PROVE  s \o <<>> = s /\ <<>> \o s = s
  BY ConcatEmptySeq

Groups(s, t, u) == (s \o t) \o u = s \o (t \o u)

LEMMA Grouped ==
  ASSUME NEW s, NEW t, NEW u, s \in Seq(Nat), t \in Seq(Nat), u \in Seq(Nat)
  PROVE  Groups(s, t, u)
  BY ConcatAssociative DEF Groups

\* s is what comes k bytes further on.
LEMMA BytesRead ==
  ASSUME Inv, NEW k \in Nat \ {0}, NEW t \in Seq(Nat), NEW s \in Seq(Nat), NEW v \in Seq(Nat),
         Len(t) = k - 1, Rest(file, pos) = t \o (s \o v)
  PROVE  /\ Has(k + Len(s) - 1) /\ Bytes(k, Len(s)) = s
         /\ Rest(file, pos + (k + Len(s) - 1)) = v
         /\ \A j \in 1 .. Len(s) : file[pos + (k + j - 1)] = s[j]
  <1>1. PICK f \in Seq(Nat), p \in Nat : f = file /\ p = pos
    BY TheFileTyped DEF Inv
  <1>2. PICK n \in Nat, b \in Nat : n = Len(f) /\ b = Len(s) /\ p \in 0 .. Len(f)
    BY <1>1, TheFileTyped, LenProperties DEF Inv
  <1>0. Rest(f, p) = t \o (s \o v)
    BY <1>1
  <1>3. /\ p + Len(t) + Len(s) =< Len(f)
        /\ SubSeq(f, p + Len(t) + 1, p + Len(t) + Len(s)) = s
        /\ Rest(f, p + Len(t) + Len(s)) = v
    <2>1. PICK q \in 0 .. Len(f) : q = p
      BY <1>2
    <2>2. Rest(f, q) = t \o (s \o v)
      BY <1>0, <2>1
    <2>3. ReadsMiddle(f, q, t, s, v)
      BY <2>2, ReadMiddle
    <2> QED BY <2>1, <2>3 DEF ReadsMiddle
  <1>4. /\ p + Len(t) + 1 = p + k /\ p + Len(t) + b = p + k + b - 1
        /\ p + Len(t) + b = p + (k + b - 1)
    BY <1>2
  <1>5. Has(k + b - 1) /\ Bytes(k, b) = s /\ Rest(file, pos + (k + b - 1)) = v
    BY <1>1, <1>2, <1>3, <1>4 DEF Has, Bytes
  <1>6. ASSUME NEW j \in 1 .. b PROVE file[pos + (k + j - 1)] = s[j]
    <2>1. pos + k + b - 1 =< Len(file)
      BY <1>1, <1>2, <1>5 DEF Has
    <2>2. Bytes(k, b)[j] = file[pos + k + j - 1]
      BY <1>2, <2>1, BytesTyped DEF Inv
    <2>3. pos + k + j - 1 = pos + (k + j - 1)
      BY <1>1, <1>2
    <2> QED BY <1>5, <2>2, <2>3
  <1> QED BY <1>2, <1>5, <1>6

LEMMA ShortRead ==
  ASSUME Inv, NEW k \in Nat \ {0}, NEW t \in Seq(Nat), NEW n \in Nat, NEW v \in Seq(Nat),
         Len(t) = k - 1, Rest(file, pos) = t \o (U2(n) \o v)
  PROVE  Has(k + 1) /\ Short(k) = n /\ Rest(file, pos + (k + 1)) = v
  <1>1. PICK s \in Seq(Nat) : s = U2(n) /\ Len(s) = 2 /\ Number2(s) = n
    BY U2Is
  <1>2. Rest(file, pos) = t \o (s \o v)
    BY <1>1
  <1>3. /\ Has(k + Len(s) - 1) /\ Bytes(k, Len(s)) = s
        /\ Rest(file, pos + (k + Len(s) - 1)) = v
    BY <1>2, BytesRead
  <1>4. k + 2 - 1 = k + 1
    OBVIOUS
  <1> QED BY <1>1, <1>3, <1>4 DEF Short

\* A number of two bytes is made of them.
LEMMA ShortIs ==
  ASSUME Inv, NEW k \in Nat \ {0}, Has(k + 1)
  PROVE  Short(k) = file[pos + k] * Byte + file[pos + (k + 1)]
  <1>1. PICK n \in Nat, one \in {1, 2}, two \in {1, 2} : n = 2 /\ one = 1 /\ two = 2
    OBVIOUS
  <1>2. Len(file) \in Nat /\ pos \in Nat
    BY TheFileTyped DEF Inv
  <1>3. pos + k + n - 1 =< Len(file)
    BY <1>1, <1>2 DEF Has
  <1>4. \A j \in 1 .. n : Bytes(k, n)[j] = file[pos + k + j - 1]
    BY <1>3, BytesTyped DEF Inv
  <1>5. Bytes(k, n)[one] = file[pos + k + one - 1] /\ Bytes(k, n)[two] = file[pos + k + two - 1]
    BY ONLY <1>4, <1>1
  <1>6. pos + k + one - 1 = pos + k /\ pos + k + two - 1 = pos + (k + 1)
    BY <1>1, <1>2
  <1> QED BY <1>1, <1>5, <1>6 DEF Short, Number2

\* The values of each tag.
LEMMA TakenIs ==
  /\ Taken(CONSTANT_INTEGER) = Bytes(2, 4)
  /\ Taken(CONSTANT_FLOAT) = [float_of |-> Bytes(2, 4)]
  /\ Taken(CONSTANT_LONG) = Reverse(Bytes(2, 8))
  /\ Taken(CONSTANT_DOUBLE) = Reverse(Reverse(Bytes(2, 8)))
  /\ \A tag \in Pair : Taken(tag) = <<Short(2), Short(4)>>
  /\ \A tag \in {CONSTANT_CLASS, CONSTANT_STRING_REF} : Taken(tag) = <<Short(2)>>
  <1>1. /\ Taken(CONSTANT_INTEGER) = Bytes(2, 4)
        /\ Taken(CONSTANT_FLOAT) = [float_of |-> Bytes(2, 4)]
        /\ Taken(CONSTANT_LONG) = Reverse(Bytes(2, 8))
        /\ Taken(CONSTANT_DOUBLE) = Reverse(Reverse(Bytes(2, 8)))
    BY TagsAre DEF Taken
  <1>2. \A tag \in Pair : Taken(tag) = <<Short(2), Short(4)>>
    BY TagsAre DEF Taken
  <1>3. \A tag \in {CONSTANT_CLASS, CONSTANT_STRING_REF} : Taken(tag) = <<Short(2)>>
    BY TagsAre DEF Taken
  <1> QED BY <1>1, <1>2, <1>3

LEMMA ValueIs ==
  ASSUME NEW c
  PROVE  /\ c.tag \in {CONSTANT_UTF8, CONSTANT_INTEGER, CONSTANT_DOUBLE} => Value(c) = c.bytes
         /\ c.tag = CONSTANT_FLOAT => Value(c) = [float_of |-> c.bytes]
         /\ c.tag = CONSTANT_LONG => Value(c) = Reverse(c.bytes)
         /\ c.tag \in Pair =>
              Value(c) = <<Number2(SubSeq(c.bytes, 1, 2)), Number2(SubSeq(c.bytes, 3, 4))>>
         /\ c.tag \in {CONSTANT_CLASS, CONSTANT_STRING_REF} => Value(c) = <<Number2(c.bytes)>>
  BY TagsAre DEF Value

LEMMA BytesOfTags ==
  /\ CONSTANT_INTEGER # CONSTANT_UTF8 /\ BytesOf(CONSTANT_INTEGER) = 4
  /\ CONSTANT_FLOAT # CONSTANT_UTF8 /\ BytesOf(CONSTANT_FLOAT) = 4
  /\ CONSTANT_LONG # CONSTANT_UTF8 /\ BytesOf(CONSTANT_LONG) = 8
  /\ CONSTANT_DOUBLE # CONSTANT_UTF8 /\ BytesOf(CONSTANT_DOUBLE) = 8
  /\ \A tag \in Pair : tag # CONSTANT_UTF8 /\ BytesOf(tag) = 4
  /\ \A tag \in {CONSTANT_CLASS, CONSTANT_STRING_REF} : tag # CONSTANT_UTF8 /\ BytesOf(tag) = 2
  <1>1. /\ CONSTANT_INTEGER # CONSTANT_UTF8 /\ BytesOf(CONSTANT_INTEGER) = 4
        /\ CONSTANT_FLOAT # CONSTANT_UTF8 /\ BytesOf(CONSTANT_FLOAT) = 4
    BY TagsAre DEF BytesOf
  <1>2. /\ CONSTANT_LONG # CONSTANT_UTF8 /\ BytesOf(CONSTANT_LONG) = 8
        /\ CONSTANT_DOUBLE # CONSTANT_UTF8 /\ BytesOf(CONSTANT_DOUBLE) = 8
    BY TagsAre DEF BytesOf
  <1>3. \A tag \in Pair : tag # CONSTANT_UTF8 /\ BytesOf(tag) = 4
    BY TagsAre DEF BytesOf
  <1>4. \A tag \in {CONSTANT_CLASS, CONSTANT_STRING_REF} : tag # CONSTANT_UTF8 /\ BytesOf(tag) = 2
    BY TagsAre DEF BytesOf
  <1> QED BY <1>1, <1>2, <1>3, <1>4

\* A constant is taken with its value, whatever its tag.
LEMMA ConstantIsRead ==
  ASSUME Inv, NEW c \in AConstant, c.tag \in Tags, NEW v \in Seq(Nat),
         stage = "constants", i < count, Rest(file, pos) = FileOfConstant(c) \o v
  PROVE  /\ Has(1) /\ file[pos + 1] = c.tag /\ Has(Needs) /\ Taken(c.tag) = Value(c)
         /\ Rest(file, pos + Needs) = v
  <1>1. PICK tag \in Tags, bs \in Seq(Nat), m \in Nat :
          /\ tag = c.tag /\ bs = c.bytes /\ m = Len(bs)
          /\ tag # CONSTANT_UTF8 => m = BytesOf(tag)
    BY LenProperties DEF AConstant
  <1>2. Len(file) \in Nat /\ pos \in Nat /\ i \in Nat /\ count \in Nat
    BY TheFileTyped DEF Inv, Typed, TypeOK
  <1>3. PICK t \in Seq(Nat), e \in Seq(Nat) : t = <<tag>> /\ Len(t) = 1 /\ e = <<>> /\ t[1] = tag
    <2>1. tag \in Nat
      BY DEF Tags
    <2>2. <<tag>> \in Seq(Nat) /\ Len(<<tag>>) = 1 /\ <<tag>>[1] = tag
      BY <2>1
    <2> QED BY <2>2, EmptySeq
  <1>4. ASSUME NEW w \in Seq(Nat), Rest(file, pos) = t \o w
        PROVE  Has(1) /\ file[pos + 1] = tag
    <2>1. PICK one \in Nat \ {0} : one = 1
      OBVIOUS
    <2>2. Len(e) = one - 1 /\ Rest(file, pos) = e \o (t \o w)
      BY <1>3, <1>4, <2>1, Joined
    <2>3. Has(one + Len(t) - 1) /\ \A j \in 1 .. Len(t) : file[pos + (one + j - 1)] = t[j]
      BY <2>2, BytesRead
    <2> QED BY <1>3, <2>1, <2>3
  <1>5. Needs = IF ~Has(1) THEN 1
                ELSE IF file[pos + 1] \notin Tags THEN 1
                ELSE IF file[pos + 1] = CONSTANT_UTF8 /\ Has(3) THEN 3 + Short(2)
                ELSE 1 + tag_additional_byte_size[file[pos + 1]]
    BY <1>2 DEF Needs
  <1>6. CASE tag = CONSTANT_UTF8
    <2>1. PICK u \in Seq(Nat) : u = U2(m) /\ Len(u) = 2
      BY U2Is
    <2>2. FileOfConstant(c) = (t \o u) \o bs
      BY <1>1, <1>3, <1>6, <2>1 DEF FileOfConstant
    <2>3. /\ bs \o v \in Seq(Nat) /\ u \o (bs \o v) \in Seq(Nat) /\ t \o u \in Seq(Nat)
          /\ Len(t \o u) = Len(t) + Len(u)
      BY Joined
    <2>13. Len(t \o u) = 3
      BY ONLY <1>3, <2>1, <2>3
    <2>4. /\ Rest(file, pos) = t \o (u \o (bs \o v))
          /\ Rest(file, pos) = (t \o u) \o (bs \o v)
      <3>1. PICK r \in Seq(Nat), y \in Seq(Nat) : r = t \o u /\ y = bs \o v
        BY <2>3
      <3>2. Groups(r, bs, v) /\ Groups(t, u, y)
        BY Grouped
      <3> QED BY <2>2, <3>1, <3>2 DEF Groups
    <2>5. Has(1) /\ file[pos + 1] = tag
      BY <1>4, <2>3, <2>4
    <2>6. PICK two \in Nat \ {0}, four \in Nat \ {0} : two = 2 /\ four = 4
      OBVIOUS
    <2>7. Has(3) /\ Short(2) = m
      <3>1. Len(t) = two - 1 /\ Rest(file, pos) = t \o (U2(m) \o (bs \o v))
        BY <1>3, <2>1, <2>4, <2>6
      <3>2. Has(two + 1) /\ Short(two) = m
        BY <2>3, <3>1, ShortRead
      <3> QED BY <2>6, <3>2
    <2>8. Has(3 + m) /\ Bytes(4, m) = bs /\ Rest(file, pos + (3 + m)) = v
      <3>0. PICK r \in Seq(Nat), y \in Nat : r = t \o u /\ y = Len(bs)
        BY <2>3, LenProperties
      <3>1. Len(r) = four - 1 /\ Rest(file, pos) = r \o (bs \o v)
        BY <2>4, <2>6, <2>13, <3>0
      <3>2. /\ Has(four + Len(bs) - 1) /\ Bytes(four, Len(bs)) = bs
            /\ Rest(file, pos + (four + Len(bs) - 1)) = v
        BY <3>1, BytesRead
      <3>3. four + Len(bs) - 1 = 3 + m
        BY <1>1, <2>6
      <3> QED BY <1>1, <2>6, <3>2, <3>3
    <2>9. Needs = 3 + m
      BY <1>5, <1>6, <2>5, <2>7
    <2>10. Taken(tag) = bs /\ Value(c) = bs
      BY <1>1, <1>6, <2>7, <2>8, TagsAre DEF Taken, Value
    <2> QED BY <1>1, <2>5, <2>8, <2>9, <2>10
  <1>7. CASE tag # CONSTANT_UTF8
    <2>1. FileOfConstant(c) = t \o bs
      BY <1>1, <1>3, <1>7, Joined DEF FileOfConstant
    <2>2. Rest(file, pos) = t \o (bs \o v) /\ bs \o v \in Seq(Nat)
      <3>1. Groups(t, bs, v) /\ bs \o v \in Seq(Nat)
        BY Grouped, Joined
      <3> QED BY <2>1, <3>1 DEF Groups
    <2>3. Has(1) /\ file[pos + 1] = tag
      BY <1>4, <2>2
    <2>4. PICK two \in Nat \ {0}, four \in Nat \ {0} : two = 2 /\ four = 4
      OBVIOUS
    <2>5. /\ Has(1 + m) /\ Bytes(2, m) = bs /\ Rest(file, pos + (1 + m)) = v
          /\ \A j \in 1 .. m : file[pos + (1 + j)] = bs[j]
      <3>1. Len(t) = two - 1
        BY <1>3, <2>4
      <3>2. /\ Has(two + Len(bs) - 1) /\ Bytes(two, Len(bs)) = bs
            /\ Rest(file, pos + (two + Len(bs) - 1)) = v
            /\ \A j \in 1 .. Len(bs) : file[pos + (two + j - 1)] = bs[j]
        BY <2>2, <3>1, BytesRead
      <3>3. two + Len(bs) - 1 = 1 + m /\ \A j \in 1 .. m : two + j - 1 = 1 + j
        BY <1>1, <2>4
      <3> QED BY <1>1, <2>4, <3>2, <3>3
    <2>6. Needs = 1 + m
      BY <1>1, <1>5, <1>7, <2>3, TagSizes
    <2>7. Taken(tag) = Value(c)
      <3>1. CASE tag \in {CONSTANT_INTEGER, CONSTANT_FLOAT, CONSTANT_LONG, CONSTANT_DOUBLE}
        <4>2. Reverse(Reverse(bs)) = bs
          BY ReverseTyped
        <4>3. CASE tag = CONSTANT_INTEGER
          <5>1. m = 4 /\ Bytes(2, 4) = bs
            BY <1>1, <2>5, <4>3, BytesOfTags
          <5> QED BY <1>1, <4>3, <5>1, TakenIs, ValueIs
        <4>4. CASE tag = CONSTANT_FLOAT
          <5>1. m = 4 /\ Bytes(2, 4) = bs
            BY <1>1, <2>5, <4>4, BytesOfTags
          <5> QED BY <1>1, <4>4, <5>1, TakenIs, ValueIs
        <4>5. CASE tag = CONSTANT_LONG
          <5>1. m = 8 /\ Bytes(2, 8) = bs
            BY <1>1, <2>5, <4>5, BytesOfTags
          <5> QED BY <1>1, <4>5, <5>1, TakenIs, ValueIs
        <4>6. CASE tag = CONSTANT_DOUBLE
          <5>1. m = 8 /\ Bytes(2, 8) = bs
            BY <1>1, <2>5, <4>6, BytesOfTags
          <5> QED BY <1>1, <4>2, <4>6, <5>1, TakenIs, ValueIs
        <4> QED BY <3>1, <4>3, <4>4, <4>5, <4>6
      <3>2. CASE tag \in Pair
        <4>1. m = 4
          BY <1>1, <3>2, BytesOfTags
        <4>2. /\ Short(2) = bs[1] * Byte + bs[2] /\ Short(4) = bs[3] * Byte + bs[4]
          <5>1. Has(two + 1) /\ Has(four + 1)
            BY <1>2, <2>4, <2>5, <4>1 DEF Has
          <5>2. /\ Short(two) = file[pos + two] * Byte + file[pos + (two + 1)]
                /\ Short(four) = file[pos + four] * Byte + file[pos + (four + 1)]
            BY <5>1, ShortIs
          <5>3. /\ file[pos + (1 + 1)] = bs[1] /\ file[pos + (1 + 2)] = bs[2]
                /\ file[pos + (1 + 3)] = bs[3] /\ file[pos + (1 + 4)] = bs[4]
            BY <2>5, <4>1
          <5> QED BY <2>4, <5>2, <5>3
        <4>3. /\ SubSeq(bs, 1, 2)[1] = bs[1] /\ SubSeq(bs, 1, 2)[2] = bs[2]
              /\ SubSeq(bs, 3, 4)[1] = bs[3] /\ SubSeq(bs, 3, 4)[2] = bs[4]
          <5>1. \A j \in 1 .. 4 : bs[j] \in Nat
            BY <1>1, <4>1, ElementOfSeq
          <5>2. (\A j \in 1 .. 2 : bs[j] \in Nat) /\ \A j \in 3 .. 4 : bs[j] \in Nat
            BY <5>1
          <5>3. \A j \in 1 .. (2 - 1) + 1 : SubSeq(bs, 1, 2)[j] = bs[1 + j - 1]
            BY <5>2, SubSeqProperties
          <5>4. \A j \in 1 .. (4 - 3) + 1 : SubSeq(bs, 3, 4)[j] = bs[3 + j - 1]
            BY <5>2, SubSeqProperties
          <5> QED BY <5>3, <5>4
        <4>4. Value(c) = <<Number2(SubSeq(bs, 1, 2)), Number2(SubSeq(bs, 3, 4))>>
          BY <1>1, <3>2, ValueIs
        <4>5. Taken(tag) = <<Short(2), Short(4)>>
          BY <3>2, TakenIs
        <4> QED BY <4>2, <4>3, <4>4, <4>5 DEF Number2
      <3>3. CASE tag \in {CONSTANT_CLASS, CONSTANT_STRING_REF}
        <4>1. m = 2
          BY <1>1, <3>3, BytesOfTags
        <4>2. Short(2) = Number2(bs)
          BY <2>5, <4>1 DEF Short
        <4>3. Value(c) = <<Number2(bs)>> /\ Taken(tag) = <<Short(2)>>
          BY <1>1, <3>3, ValueIs, TakenIs
        <4> QED BY <4>2, <4>3
      <3> QED BY <1>7, <3>1, <3>2, <3>3, TagsAre
    <2> QED BY <1>1, <2>3, <2>5, <2>6, <2>7
  <1> QED BY <1>6, <1>7

-----------------------------------------------------------------------------
(***************************************************************************)
(* The parser is where it believes to be, within the pools too: what it    *)
(* has still to read is what the class has still to write.                 *)
(***************************************************************************)
Slots == UNION {{tag} \X DOMAIN cp[tag] : tag \in Tags}

AtConstants ==
  LET cs == class.constants
  IN  \E k \in 0 .. Len(cs) :
        /\ IsFiniteSet(Slots) /\ Cardinality(Slots) = k
        /\ i = IndexIn(cs, k + 1) /\ count = IndexIn(cs, Len(cs) + 1)
        /\ Rest(file, pos) = FileOfConstants(Rest(cs, k)) \o FromAccess(class)

\* The member that is read, and how many of its attributes have been.
AtMembers(ms, pool, rest) ==
  /\ i = Len(pool) /\ i =< Len(ms) /\ count = Len(ms)
  /\ todo = 0 => Rest(file, pos) = FileOfMembers(Rest(ms, i)) \o rest
  /\ todo > 0 =>
       LET as == ms[i].attributes
       IN  /\ i > 0 /\ todo =< Len(as)
           /\ Rest(file, pos) =
                FileOfAttributes(Rest(as, Len(as) - todo)) \o (FileOfMembers(Rest(ms, i)) \o rest)

Tracks ==
  /\ stage \in {"header", "constants", "interfaces"} =>
       todo = 0 /\ fields = <<>> /\ methods = <<>>
  /\ stage = "header" => pos = 0 /\ i = 0 /\ count = 0 /\ Slots = {}
  /\ stage = "constants" => AtConstants
  /\ stage = "interfaces" => i = 1 /\ count = 0 /\ Rest(file, pos) = FromFields(class)
  /\ stage = "fields" => AtMembers(class.fields, fields, FromMethods(class)) /\ methods = <<>>
  /\ stage = "methods" => AtMembers(class.methods, methods, <<>>)
  /\ stage \in {"main", "execute", "end"} => Rest(file, pos) = <<>>

Tracked == Readable /\ stage # "lost" => Tracks

LEMMA SlotsGrow ==
  ASSUME Inv, NEW tag \in Tags, NEW e \in [index : Nat, value : Values(tag)],
         cp' = [cp EXCEPT ![tag] = Append(@, e)], IsFiniteSet(Slots)
  PROVE  IsFiniteSet(Slots') /\ Cardinality(Slots') = Cardinality(Slots) + 1
  <1>1. PICK n \in Nat : n = Len(cp[tag]) /\ DOMAIN cp[tag] = 1 .. n
    BY LenProperties DEF Inv, Typed, TypeOK
  <1>2. DOMAIN cp = Tags /\ cp[tag] \in Seq([index : Nat, value : Values(tag)])
    BY DEF Inv, Typed, TypeOK
  <1>3. cp'[tag] = Append(cp[tag], e) /\ \A t \in Tags \ {tag} : cp'[t] = cp[t]
    BY <1>2
  <1>4. DOMAIN cp'[tag] = 1 .. n + 1
    BY <1>1, <1>2, <1>3, AppendProperties, LenProperties
  <1>5. DOMAIN cp'[tag] = DOMAIN cp[tag] \cup {n + 1} /\ n + 1 \notin DOMAIN cp[tag]
    BY <1>1, <1>4
  <1>6. \A x : x \in Slots <=> \E t \in Tags : \E m \in DOMAIN cp[t] : x = <<t, m>>
    BY DEF Slots
  <1>7. \A x : x \in Slots' <=> \E t \in Tags : \E m \in DOMAIN cp'[t] : x = <<t, m>>
    BY DEF Slots
  <1>8. Slots' = Slots \cup {<<tag, n + 1>>}
    <2>1. ASSUME NEW x, x \in Slots' PROVE x \in Slots \cup {<<tag, n + 1>>}
      <3>1. PICK t \in Tags : \E m \in DOMAIN cp'[t] : x = <<t, m>>
        BY <1>7, <2>1
      <3>2. PICK m \in DOMAIN cp'[t] : x = <<t, m>>
        BY <3>1
      <3> QED BY <1>3, <1>5, <1>6, <3>2
    <2>2. ASSUME NEW x, x \in Slots PROVE x \in Slots'
      <3>1. PICK t \in Tags : \E m \in DOMAIN cp[t] : x = <<t, m>>
        BY <1>6, <2>2
      <3>2. PICK m \in DOMAIN cp[t] : x = <<t, m>>
        BY <3>1
      <3>3. m \in DOMAIN cp'[t]
        BY <1>3, <1>5, <3>2
      <3> QED BY <1>7, <3>2, <3>3
    <2>3. <<tag, n + 1>> \in Slots'
      BY <1>5, <1>7
    <2> QED BY <2>1, <2>2, <2>3
  <1>9. <<tag, n + 1>> \notin Slots
    BY <1>5, <1>6
  <1>10. PICK S, x : S = Slots /\ x = <<tag, n + 1>>
    OBVIOUS
  <1>11. IsFiniteSet(S) /\ x \notin S
    BY <1>9, <1>10
  <1>12. IsFiniteSet(S \cup {x}) /\ Cardinality(S \cup {x}) = Cardinality(S) + 1
    BY ONLY <1>11, FS_AddElement
  <1> QED BY <1>8, <1>10, <1>12

\* What is left, at the places where InStep compares it.
LEMMA TracksInStep == ASSUME Inv, Tracked PROVE InStep
  <1> SUFFICES ASSUME Readable, stage # "lost", todo = 0 PROVE Rest(file, pos) = Left
    BY DEF InStep, Rest
  <1>1. Tracks
    BY DEF Tracked
  <1>2. /\ Len(file) \in Nat /\ file \in Seq(Nat)
        /\ stage \in {"header", "constants", "interfaces", "fields", "methods", "main", "execute", "end"}
    BY TheFileTyped DEF Inv, Typed, TypeOK, Parsing
  <1>3. CASE stage = "header"
    <2>1. Rest(file, 0) = file
      BY <1>2, RestEnds
    <2> QED BY <1>1, <1>3, <2>1 DEF Tracks, Left
  <1>4. CASE stage = "constants"
    BY <1>1, <1>4 DEF Tracks, AtConstants, Left, Slots, Rest
  <1>5. CASE stage = "interfaces"
    BY <1>1, <1>5 DEF Tracks, Left
  <1>6. CASE stage = "fields"
    BY <1>1, <1>6 DEF Tracks, AtMembers, Left, Rest
  <1>7. CASE stage = "methods"
    <2>1. FileOfMembers(Rest(class.methods, i)) \in Seq(Nat)
      <3>1. PICK ms \in Seq(AMember), k \in Nat : ms = class.methods /\ k = i /\ k =< Len(ms)
        BY <1>1, <1>7, ClassParts DEF Tracks, AtMembers, Inv, Typed, TypeOK, TheFile
      <3>2. k \in 0 .. Len(ms)
        BY <3>1, LenProperties
      <3>3. FileOfMembers(Rest(ms, k)) \in Seq(Nat)
        BY <3>2, MembersFile
      <3> QED BY <3>1, <3>3
    <2>2. FileOfMembers(Rest(class.methods, i)) \o <<>> = FileOfMembers(Rest(class.methods, i))
      BY <2>1, Joined
    <2> QED BY <1>1, <1>7, <2>2 DEF Tracks, AtMembers, Left, Rest
  <1>8. CASE stage \in {"main", "execute", "end"}
    BY <1>1, <1>8 DEF Tracks, Left
  <1> QED BY <1>2, <1>3, <1>4, <1>5, <1>6, <1>7, <1>8

\* The constant that is read next.
LEMMA NextConstant ==
  ASSUME Inv, Tracks, Readable, stage = "constants", i < count
  PROVE  \E k \in 0 .. Len(class.constants) - 1 :
           /\ IsFiniteSet(Slots) /\ Cardinality(Slots) = k
           /\ i = IndexIn(class.constants, k + 1)
           /\ count = IndexIn(class.constants, Len(class.constants) + 1)
           /\ class.constants[k + 1] \in AConstant /\ class.constants[k + 1].tag \in Tags
           /\ Has(1) /\ file[pos + 1] = class.constants[k + 1].tag
           /\ Has(Needs) /\ Taken(file[pos + 1]) = Value(class.constants[k + 1])
           /\ Rest(file, pos + Needs) =
                FileOfConstants(Rest(class.constants, k + 1)) \o FromAccess(class)
  <1>1. PICK x \in Classes : x = class
    BY DEF Inv, Typed, TheFile
  <1>2. PICK cs \in Seq(AConstant), n \in Nat, b \in Seq(Nat) :
          cs = x.constants /\ n = Len(cs) /\ b = FromAccess(x)
    BY ClassParts, FileTyped
  <1>3. PICK k \in 0 .. n :
          /\ IsFiniteSet(Slots) /\ Cardinality(Slots) = k
          /\ i = IndexIn(cs, k + 1) /\ count = IndexIn(cs, n + 1)
          /\ Rest(file, pos) = FileOfConstants(Rest(cs, k)) \o b
    BY <1>1, <1>2 DEF Tracks, AtConstants
  <1>4. k # n
    BY <1>3 DEF Inv, Typed, TypeOK
  <1>5. k \in 0 .. n - 1 /\ k + 1 \in 1 .. n /\ k + 1 \in 0 .. n
    BY <1>4
  <1>6. PICK c \in AConstant : c = cs[k + 1] /\ c.tag \in Tags
    <2>1. cs[k + 1] \in AConstant /\ k + 1 \in DOMAIN cs
      BY <1>2, <1>5, ElementOfSeq, LenProperties
    <2> QED BY <1>1, <1>2, <2>1 DEF Readable
  <1>7. PICK w \in Seq(Nat), d \in Seq(Nat) :
          w = FileOfConstants(Rest(cs, k + 1)) /\ d = FileOfConstant(c)
    BY <1>2, <1>5, ConstantsFile, FileOfConstantTyped
  <1>8. FileOfConstants(Rest(cs, k)) = d \o w
    BY <1>2, <1>5, <1>6, <1>7, ConstantsFile
  <1>9. PICK v \in Seq(Nat) : v = w \o b
    BY Joined
  <1>10. Rest(file, pos) = FileOfConstant(c) \o v
    <2>1. Groups(d, w, b)
      BY Grouped
    <2> QED BY <1>3, <1>7, <1>8, <1>9, <2>1 DEF Groups
  <1>11. /\ Has(1) /\ file[pos + 1] = c.tag /\ Has(Needs) /\ Taken(c.tag) = Value(c)
         /\ Rest(file, pos + Needs) = v
    BY <1>6, <1>10, ConstantIsRead
  <1> QED BY <1>1, <1>2, <1>3, <1>5, <1>6, <1>7, <1>9, <1>11

\* The member that is read next.
LEMMA NextMember ==
  ASSUME Inv, NEW ms \in Seq(AMember), NEW pool \in Seq(AMember), NEW rest \in Seq(Nat),
         AtMembers(ms, pool, rest), stage \in {"fields", "methods"}, todo = 0, i < count
  PROVE  /\ i \in 0 .. Len(ms) - 1 /\ Has(Needs) /\ Needs = 8
         /\ Short(3) = ms[i + 1].name /\ Short(5) = ms[i + 1].type
         /\ Short(7) = Len(ms[i + 1].attributes)
         /\ Rest(file, pos + 8) =
              FileOfAttributes(ms[i + 1].attributes) \o (FileOfMembers(Rest(ms, i + 1)) \o rest)
  <1>1. PICK k \in Nat, n \in Nat : k = i /\ n = Len(ms) /\ k < n
    BY LenProperties DEF AtMembers, Inv, Typed, TypeOK
  <1>2. k \in 0 .. n - 1 /\ k + 1 \in 1 .. n /\ k + 1 \in 0 .. n
    BY <1>1
  <1>3. PICK m \in AMember : m = ms[k + 1]
    BY <1>1, <1>2, ElementOfSeq
  <1>4. PICK na \in Nat, ty \in Nat, as \in Seq(AnAttribute), l \in Nat :
          na = m.name /\ ty = m.type /\ as = m.attributes /\ l = Len(as)
    BY LenProperties DEF AMember
  <1>5. PICK u0 \in Seq(Nat), un \in Seq(Nat), ut \in Seq(Nat), ul \in Seq(Nat) :
          /\ u0 = U2(0) /\ un = U2(na) /\ ut = U2(ty) /\ ul = U2(l)
          /\ Len(u0) = 2 /\ Len(un) = 2 /\ Len(ut) = 2
    BY U2Is
  <1>6. PICK fa \in Seq(Nat), w \in Seq(Nat) :
          fa = FileOfAttributes(as) /\ w = FileOfMembers(Rest(ms, k + 1))
    BY <1>1, <1>2, AttributesFile, MembersFile
  <1>7. PICK x \in Seq(Nat), y3 \in Seq(Nat), y2 \in Seq(Nat), y1 \in Seq(Nat) :
          x = w \o rest /\ y3 = fa \o x /\ y2 = ul \o y3 /\ y1 = ut \o y2
    <2>1. PICK x \in Seq(Nat) : x = w \o rest
      BY Joined
    <2>2. PICK y3 \in Seq(Nat) : y3 = fa \o x
      BY Joined
    <2>3. PICK y2 \in Seq(Nat) : y2 = ul \o y3
      BY Joined
    <2>4. PICK y1 \in Seq(Nat) : y1 = ut \o y2
      BY Joined
    <2> QED BY <2>1, <2>2, <2>3, <2>4
  <1>8. FileOfMembers(Rest(ms, k)) = ((((u0 \o un) \o ut) \o ul) \o fa) \o w
    <2>1. FileOfMember(m) = (((u0 \o un) \o ut) \o ul) \o fa
      BY <1>4, <1>5, <1>6 DEF FileOfMember
    <2> QED BY <1>1, <1>2, <1>3, <1>6, <2>1, MembersFile
  <1>9. PICK t2 \in Seq(Nat), t3 \in Seq(Nat), t4 \in Seq(Nat) :
          /\ t2 = u0 \o un /\ t3 = t2 \o ut /\ t4 = t3 \o ul /\ Len(t2) = 4 /\ Len(t3) = 6
    <2>1. PICK t2 \in Seq(Nat) : t2 = u0 \o un /\ Len(t2) = Len(u0) + Len(un)
      BY Joined
    <2>2. PICK t3 \in Seq(Nat) : t3 = t2 \o ut /\ Len(t3) = Len(t2) + Len(ut)
      BY Joined
    <2>3. PICK t4 \in Seq(Nat) : t4 = t3 \o ul
      BY Joined
    <2>4. Len(t2) = 4
      BY ONLY <1>5, <2>1
    <2>5. Len(t3) = 6
      BY ONLY <1>5, <2>2, <2>4
    <2> QED BY <2>1, <2>2, <2>3, <2>4, <2>5
  <1>10. ((t4 \o fa) \o w) \o rest = t3 \o (ul \o y3)
    <2>1. PICK g \in Seq(Nat) : g = t4 \o fa
      BY Joined
    <2>2. Groups(g, w, rest) /\ Groups(t4, fa, x) /\ Groups(t3, ul, y3)
      BY Grouped
    <2> QED BY <1>7, <1>9, <2>1, <2>2 DEF Groups
  <1>11. Rest(file, pos) = t3 \o (ul \o y3)
    BY <1>1, <1>8, <1>9, <1>10 DEF AtMembers
  <1>0. Groups(t2, ut, y2) /\ Groups(u0, un, y1)
    BY Grouped
  <1>12. Rest(file, pos) = t2 \o (ut \o y2)
    BY <1>0, <1>7, <1>9, <1>11 DEF Groups
  <1>13. Rest(file, pos) = u0 \o (un \o y1)
    BY <1>0, <1>7, <1>9, <1>12 DEF Groups
  <1>14. PICK three \in Nat \ {0}, five \in Nat \ {0}, seven \in Nat \ {0} :
           three = 3 /\ five = 5 /\ seven = 7
    OBVIOUS
  <1>15. Short(three) = na
    <2>1. Len(u0) = three - 1 /\ Rest(file, pos) = u0 \o (U2(na) \o y1)
      BY <1>5, <1>13, <1>14
    <2> QED BY <2>1, ShortRead
  <1>16. Short(five) = ty
    <2>1. Len(t2) = five - 1 /\ Rest(file, pos) = t2 \o (U2(ty) \o y2)
      BY <1>5, <1>9, <1>12, <1>14
    <2> QED BY <2>1, ShortRead
  <1>17. Has(seven + 1) /\ Short(seven) = l /\ Rest(file, pos + (seven + 1)) = y3
    <2>1. Len(t3) = seven - 1 /\ Rest(file, pos) = t3 \o (U2(l) \o y3)
      BY <1>5, <1>9, <1>11, <1>14
    <2> QED BY <2>1, ShortRead
  <1>18. Needs = 8
    BY <1>1 DEF Needs, Looping, AtMembers
  <1>19. Has(Needs) /\ Rest(file, pos + 8) = y3
    BY <1>14, <1>17, <1>18
  <1>20. Short(3) = na /\ Short(5) = ty /\ Short(7) = l
    BY <1>14, <1>15, <1>16, <1>17
  <1> QED BY <1>1, <1>2, <1>3, <1>4, <1>6, <1>7, <1>18, <1>19, <1>20

LEMMA NeedsOfAttribute ==
  ASSUME todo \in Nat, todo > 0, stage \in {"fields", "methods"}
  PROVE  /\ stage = "fields" => Needs = IF Has(6) THEN 6 + FieldAttrLength ELSE 6
         /\ stage = "methods" => Needs = IF Has(6) THEN 6 + MethodAttrLength ELSE 6
  BY DEF Needs, Looping

\* The attribute that is read next.
AttrLength == IF stage = "fields" THEN FieldAttrLength ELSE MethodAttrLength

LEMMA NextAttribute ==
  ASSUME Inv, NEW ms \in Seq(AMember), NEW pool \in Seq(AMember), NEW rest \in Seq(Nat),
         AtMembers(ms, pool, rest), stage \in {"fields", "methods"}, todo > 0,
         stage = "fields" =>
           \A k \in DOMAIN ms : \A j \in DOMAIN ms[k].attributes :
             LET length == U4(Len(ms[k].attributes[j].info)) IN length[4] = length[1]
  PROVE  LET as == ms[i].attributes
             k  == Len(as) - todo
             a  == as[k + 1]
         IN  /\ i \in 1 .. Len(ms) /\ as \in Seq(AnAttribute) /\ k \in 0 .. Len(as) - 1
             /\ Has(Needs) /\ Needs = 6 + Len(a.info) /\ AttrLength = Len(a.info)
             /\ Short(1) = a.name /\ Bytes(7, Len(a.info)) = a.info
             /\ Rest(file, pos + Needs) =
                  FileOfAttributes(Rest(as, k + 1)) \o (FileOfMembers(Rest(ms, i)) \o rest)
  <1>1. PICK h \in Nat, n \in Nat, t \in Nat :
          h = i /\ n = Len(ms) /\ t = todo /\ h > 0 /\ h =< n /\ t > 0
    BY LenProperties DEF AtMembers, Inv, Typed, TypeOK
  <1>2. PICK m \in AMember : m = ms[h]
    <2>1. h \in 1 .. n
      BY <1>1
    <2> QED BY <1>1, <2>1, ElementOfSeq
  <1>3. PICK as \in Seq(AnAttribute), l \in Nat :
          as = m.attributes /\ l = Len(as) /\ DOMAIN as = 1 .. l
    BY LenProperties DEF AMember
  <1>4. t =< l
    BY <1>1, <1>2, <1>3 DEF AtMembers
  <1>5. PICK k \in 0 .. l - 1 : k = l - t
    BY <1>1, <1>4
  <1>6. PICK a \in AnAttribute : a = as[k + 1]
    <2>1. k + 1 \in 1 .. l
      OBVIOUS
    <2> QED BY <1>3, <2>1, ElementOfSeq
  <1>7. PICK na \in Nat, info \in Seq(Nat), q \in Nat : na = a.name /\ info = a.info /\ q = Len(info)
    BY LenProperties DEF AnAttribute
  <1>8. PICK un \in Seq(Nat), uq \in Seq(Nat) :
          un = U2(na) /\ uq = U4(q) /\ Len(un) = 2 /\ Len(uq) = 4 /\ Number4(uq) = q
    BY U2Is, U4Is
  <1>9. PICK fr \in Seq(Nat), w \in Seq(Nat) :
          fr = FileOfAttributes(Rest(as, k + 1)) /\ w = FileOfMembers(Rest(ms, h))
    <2>1. k + 1 \in 0 .. Len(as) /\ h \in 0 .. Len(ms)
      BY <1>1, <1>3
    <2> QED BY <2>1, AttributesFile, MembersFile
  <1>10. PICK x \in Seq(Nat), v \in Seq(Nat), y \in Seq(Nat), z \in Seq(Nat), t2 \in Seq(Nat), d \in Seq(Nat) :
           /\ x = w \o rest /\ v = fr \o x /\ y = info \o v /\ z = uq \o y
           /\ t2 = un \o uq /\ d = t2 \o info /\ Len(t2) = 6
    <2>1. PICK x \in Seq(Nat) : x = w \o rest
      BY Joined
    <2>2. PICK v \in Seq(Nat) : v = fr \o x
      BY Joined
    <2>3. PICK y \in Seq(Nat) : y = info \o v
      BY Joined
    <2>4. PICK z \in Seq(Nat) : z = uq \o y
      BY Joined
    <2>5. PICK t2 \in Seq(Nat) : t2 = un \o uq /\ Len(t2) = Len(un) + Len(uq)
      BY Joined
    <2>6. PICK d \in Seq(Nat) : d = t2 \o info
      BY Joined
    <2>7. Len(t2) = 6
      BY ONLY <1>8, <2>5
    <2> QED BY <2>1, <2>2, <2>3, <2>4, <2>5, <2>6, <2>7
  <1>11. FileOfAttributes(Rest(as, k)) = d \o fr
    <2>1. FileOfAttribute(a) = d
      BY <1>7, <1>8, <1>10 DEF FileOfAttribute
    <2> QED BY <1>3, <1>6, <1>9, <2>1, AttributesFile
  <1>12. Rest(file, pos) = (d \o fr) \o x
    BY <1>1, <1>2, <1>3, <1>5, <1>9, <1>10, <1>11 DEF AtMembers
  <1>13. Rest(file, pos) = t2 \o (info \o v)
    <2>1. Groups(d, fr, x) /\ Groups(t2, info, v)
      BY Grouped
    <2> QED BY <1>10, <1>12, <2>1 DEF Groups
  <1>14. Rest(file, pos) = un \o (uq \o y)
    <2>1. Groups(un, uq, y)
      BY Grouped
    <2> QED BY <1>10, <1>13, <2>1 DEF Groups
  <1>15. PICK e \in Seq(Nat) : e = <<>> /\ Len(e) = 0
    BY EmptySeq
  <1>16. Rest(file, pos) = e \o (un \o z)
    <2>1. un \o z \in Seq(Nat)
      BY Joined
    <2> QED BY <1>10, <1>14, <1>15, <2>1, Joined
  <1>17. PICK one \in Nat \ {0}, three \in Nat \ {0}, seven \in Nat \ {0} :
           one = 1 /\ three = 3 /\ seven = 7
    OBVIOUS
  <1>18. Short(one) = na
    <2>1. Len(e) = one - 1 /\ Rest(file, pos) = e \o (U2(na) \o z)
      BY <1>8, <1>15, <1>16, <1>17
    <2> QED BY <2>1, ShortRead
  <1>19. /\ Has(three + 4 - 1) /\ Bytes(three, 4) = uq
         /\ \A j \in 1 .. 4 : file[pos + (three + j - 1)] = uq[j]
    <2>1. Len(un) = three - 1
      BY <1>8, <1>17
    <2>2. /\ Has(three + Len(uq) - 1) /\ Bytes(three, Len(uq)) = uq
          /\ \A j \in 1 .. Len(uq) : file[pos + (three + j - 1)] = uq[j]
      <3>1. Rest(file, pos) = un \o (uq \o y)
        BY <1>14
      <3>2. Inv
        OBVIOUS
      <3>3. Has(three + Len(uq) - 1) /\ Bytes(three, Len(uq)) = uq
        BY ONLY <2>1, <3>1, <3>2, BytesRead
      <3>4. PICK four \in Nat : four = Len(uq)
        BY <1>8
      <3>5. Len(file) \in Nat /\ pos \in Nat
        BY TheFileTyped DEF Inv
      <3>6. pos + three + four - 1 =< Len(file)
        BY <3>3, <3>4, <3>5 DEF Has
      <3>7. \A j \in 1 .. four : Bytes(three, four)[j] = file[pos + three + j - 1]
        BY ONLY <3>2, <3>6, BytesTyped DEF Inv
      <3>8. \A j \in 1 .. four : pos + three + j - 1 = pos + (three + j - 1)
        BY <3>5
      <3> QED BY <3>3, <3>4, <3>7, <3>8
    <2> QED BY <1>8, <2>2
  <1>20. /\ Has(seven + q - 1) /\ Bytes(seven, q) = info /\ Rest(file, pos + (seven + q - 1)) = v
    <2>1. Len(t2) = seven - 1
      BY <1>10, <1>17
    <2>2. /\ Has(seven + Len(info) - 1) /\ Bytes(seven, Len(info)) = info
          /\ Rest(file, pos + (seven + Len(info) - 1)) = v
      BY <1>13, <2>1, BytesRead
    <2> QED BY <1>7, <2>2
  <1>21. Has(6) /\ MethodAttrLength = q
    BY <1>8, <1>17, <1>19 DEF MethodAttrLength
  <1>22. stage = "fields" => FieldAttrLength = q
    <2> HAVE stage = "fields"
    <2>1. uq[4] = uq[1]
      <3>1. h \in DOMAIN ms /\ k + 1 \in DOMAIN ms[h].attributes
        BY <1>1, <1>2, <1>3, LenProperties
      <3> QED BY <1>2, <1>3, <1>6, <1>7, <1>8, <3>1
    <2>2. /\ file[pos + 3] = uq[1] /\ file[pos + 4] = uq[2] /\ file[pos + 5] = uq[3]
      BY <1>17, <1>19
    <2> QED BY <1>8, <2>1, <2>2 DEF FieldAttrLength, Number4
  <1>23. Needs = 6 + q /\ AttrLength = q
    <2>1. /\ stage = "fields" => Needs = IF Has(6) THEN 6 + FieldAttrLength ELSE 6
          /\ stage = "methods" => Needs = IF Has(6) THEN 6 + MethodAttrLength ELSE 6
      BY <1>1, NeedsOfAttribute
    <2> QED BY <1>21, <1>22, <2>1 DEF AttrLength
  <1>24. seven + q - 1 = 6 + q
    BY <1>17
  <1>25. /\ Has(Needs) /\ Short(1) = na /\ Bytes(7, q) = info /\ Rest(file, pos + Needs) = v
    BY <1>17, <1>18, <1>20, <1>23, <1>24
  <1>26. i \in 1 .. Len(ms)
    BY <1>1
  <1> QED BY <1>1, <1>2, <1>3, <1>5, <1>6, <1>7, <1>9, <1>10, <1>23, <1>25, <1>26

\* The steps between the pools.
LEMMA HeaderRead ==
  ASSUME Inv, Tracks, stage = "header"
  PROVE  /\ Has(10) /\ Short(9) = IndexIn(class.constants, Len(class.constants) + 1)
         /\ Rest(file, pos + 10) = FileOfConstants(class.constants) \o FromAccess(class)
  <1>1. PICK x \in Classes : x = class /\ file = FileOf(x)
    BY DEF Inv, Typed, TheFile
  <1>2. PICK cs \in Seq(AConstant), l \in Nat, n \in Nat :
          cs = x.constants /\ l = Len(cs) /\ n = IndexIn(cs, l + 1)
    <2>1. PICK cs \in Seq(AConstant), l \in Nat : cs = x.constants /\ l = Len(cs)
      BY ClassParts
    <2>2. l + 1 \in 1 .. Len(cs) + 1
      BY <2>1
    <2>3. IndexIn(cs, l + 1) \in Nat
      BY <2>1, <2>2, IndicesOrdered
    <2> QED BY <2>1, <2>3
  <1>3. PICK a \in Seq(Nat), b \in Seq(Nat), u2 \in Seq(Nat), un \in Seq(Nat), u4 \in Seq(Nat) :
          /\ a = FileOfConstants(cs) /\ b = FromAccess(x)
          /\ u2 = U2(0) /\ un = U2(n) /\ u4 = U4(0) /\ Len(u2) = 2 /\ Len(u4) = 4
    BY <1>2, ConstantsFile, FileTyped, U2Is, U4Is
  <1>4. PICK h \in Seq(Nat), d \in Seq(Nat), v \in Seq(Nat) :
          h = (u4 \o u2) \o u2 /\ d = h \o un /\ Len(h) = 8 /\ v = a \o b
    <2>1. PICK g \in Seq(Nat) : g = u4 \o u2 /\ Len(g) = Len(u4) + Len(u2)
      BY Joined
    <2>2. PICK h \in Seq(Nat) : h = g \o u2 /\ Len(h) = Len(g) + Len(u2)
      BY Joined
    <2>3. PICK d \in Seq(Nat) : d = h \o un
      BY Joined
    <2>4. PICK v \in Seq(Nat) : v = a \o b
      BY Joined
    <2>0. Len(u4) = 4 /\ Len(u2) = 2
      BY <1>3
    <2>6. Len(g) = 6
      BY ONLY <2>0, <2>1
    <2>5. Len(h) = 8
      BY ONLY <2>0, <2>2, <2>6
    <2> QED BY <2>1, <2>2, <2>3, <2>4, <2>5
  <1>5. file = (d \o a) \o b
    BY <1>1, <1>2, <1>3, <1>4 DEF FileOf, Header
  <1>6. Rest(file, pos) = h \o (un \o v)
    <2>1. Groups(d, a, b) /\ Groups(h, un, v)
      BY Grouped
    <2>2. Rest(file, 0) = file
      BY TheFileTyped, RestEnds DEF Inv
    <2>3. pos = 0
      BY DEF Tracks
    <2> QED BY <1>4, <1>5, <2>1, <2>2, <2>3 DEF Groups
  <1>7. Has(10) /\ Short(9) = n /\ Rest(file, pos + 10) = v
    <2>1. PICK nine \in Nat \ {0} : nine = 9
      OBVIOUS
    <2>2. Len(h) = nine - 1 /\ Rest(file, pos) = h \o (U2(n) \o v)
      BY <1>3, <1>4, <1>6, <2>1
    <2>3. Has(nine + 1) /\ Short(nine) = n /\ Rest(file, pos + (nine + 1)) = v
      BY <2>2, ShortRead
    <2> QED BY <2>1, <2>3
  <1> QED BY <1>1, <1>2, <1>3, <1>4, <1>7

LEMMA HeaderTracks ==
  ASSUME Inv, Tracks, Readable, ParseHeader
  PROVE  Tracks'
  <1>1. PICK cs \in Seq(AConstant), l \in Nat, b \in Seq(Nat) :
          cs = class.constants /\ l = Len(cs) /\ b = FromAccess(class)
    BY ClassParts, FileTyped DEF Inv, Typed, TheFile
  <1>2. Short(9) = IndexIn(cs, l + 1) /\ Rest(file, pos + 10) = FileOfConstants(cs) \o b
    BY <1>1, HeaderRead DEF ParseHeader, Section
  <1>3. pos' = pos + 10
    BY CountAsked DEF ParseHeader, Section, Inv
  <1>4. /\ stage' = "constants" /\ i' = 1 /\ count' = Short(9)
        /\ UNCHANGED <<class, file, todo, cp, fields, methods>>
    BY DEF ParseHeader, Section, input, pools
  <1>5. todo = 0 /\ fields = <<>> /\ methods = <<>> /\ Slots = {}
    BY DEF Tracks, ParseHeader, Section
  <1>6. AtConstants'
    <2>1. PICK k \in 0 .. l : k = 0 /\ k + 1 = 1
      OBVIOUS
    <2>2. IsFiniteSet(Slots') /\ Cardinality(Slots') = k
      BY <1>4, <1>5, <2>1, FS_EmptySet DEF Slots
    <2>3. i' = IndexIn(cs, k + 1)
      BY <1>1, <1>4, <2>1, IndexSteps
    <2>4. Rest(cs, k) = cs
      BY <2>1, RestEnds
    <2>5. Rest(file', pos') = FileOfConstants(Rest(cs, k)) \o b
      BY <1>2, <1>3, <1>4, <2>4
    <2> QED BY <1>1, <1>2, <1>4, <2>2, <2>3, <2>5 DEF AtConstants
  <1> QED BY <1>4, <1>5, <1>6 DEF Tracks

LEMMA ConstantTracks ==
  ASSUME Inv, Tracks, Readable, ParseConstant
  PROVE  Tracks'
  <1>1. PICK tag \in Tags : ParseCP(tag, Taken(tag), IF tag \in Wide THEN 2 ELSE 1)
    BY ParsersAreOne
  <1>2. /\ stage = "constants" /\ i < count /\ file[pos + 1] = tag /\ pos' = pos + Needs
        /\ cp' = [cp EXCEPT ![tag] = Append(@, [index |-> i, value |-> Taken(tag)])]
        /\ i' = i + (IF tag \in Wide THEN 2 ELSE 1)
        /\ UNCHANGED <<class, file, stage, count, todo, fields, methods>>
    BY <1>1 DEF ParseCP, Reads, input
  <1>3. PICK x \in Classes : x = class
    BY DEF Inv, Typed, TheFile
  <1>4. PICK cs \in Seq(AConstant), n \in Nat : cs = x.constants /\ n = Len(cs)
    BY ClassParts
  <1>5. PICK k \in 0 .. n - 1 :
           /\ IsFiniteSet(Slots) /\ Cardinality(Slots) = k
           /\ i = IndexIn(cs, k + 1) /\ count = IndexIn(cs, n + 1)
           /\ file[pos + 1] = cs[k + 1].tag
           /\ Rest(file, pos + Needs) = FileOfConstants(Rest(cs, k + 1)) \o FromAccess(x)
    BY <1>2, <1>3, <1>4, NextConstant
  <1>6. PICK e \in [index : Nat, value : Values(tag)] : e = [index |-> i, value |-> Taken(tag)]
    <2>1. Taken(tag) \in Values(tag) /\ i \in Nat
      BY <1>1, TakenTyped DEF ParseCP, Inv, Typed, TypeOK
    <2> QED BY <2>1
  <1>7. IsFiniteSet(Slots') /\ Cardinality(Slots') = k + 1
    BY <1>2, <1>5, <1>6, SlotsGrow
  <1>8. k + 1 \in 0 .. n /\ k + 1 \in 1 .. n
    BY <1>4
  <1>9. i' = IndexIn(cs, (k + 1) + 1)
    <2>1. IndicesOf(cs[k + 1]) = IF tag \in Wide THEN 2 ELSE 1
      BY <1>2, <1>5 DEF IndicesOf
    <2> QED BY <1>2, <1>4, <1>5, <1>8, <2>1, IndexSteps
  <1>10. AtConstants'
    BY <1>2, <1>3, <1>4, <1>5, <1>7, <1>8, <1>9 DEF AtConstants
  <1> QED BY <1>2, <1>10 DEF Tracks

\* At the end of the loop all constants have been parsed.
LEMMA AllParsed ==
  ASSUME Inv, Tracks, stage = "constants", ~Looping
  PROVE  Cardinality(Slots) = Len(class.constants)
  <1>1. PICK cs \in Seq(AConstant), n \in Nat : cs = class.constants /\ n = Len(cs)
    BY ClassParts DEF Inv, Typed, TheFile
  <1>2. PICK k \in 0 .. n :
          Cardinality(Slots) = k /\ i = IndexIn(cs, k + 1) /\ count = IndexIn(cs, n + 1)
    BY <1>1 DEF Tracks, AtConstants
  <1>3. ~(i < count)
    BY DEF Looping
  <1>4. k < n => IndexIn(cs, k + 1) < IndexIn(cs, n + 1)
    <2> HAVE k < n
    <2>1. PICK a \in 1 .. Len(cs) + 1, b \in 1 .. Len(cs) + 1 : a = k + 1 /\ b = n + 1 /\ a < b
      <3>1. k + 1 \in 1 .. n + 1 /\ n + 1 \in 1 .. n + 1 /\ k + 1 < n + 1 /\ n = Len(cs)
        BY <1>1
      <3> QED BY ONLY <3>1
    <2>2. IndexIn(cs, a) < IndexIn(cs, b)
      BY <1>1, <2>1, IndicesOrdered
    <2> QED BY <2>1, <2>2
  <1> QED BY <1>1, <1>2, <1>3, <1>4

LEMMA ClassInfoRead ==
  ASSUME Inv, Tracks, Readable, stage = "constants", ~Looping
  PROVE  Has(8) /\ Short(7) = 0 /\ Rest(file, pos + 8) = FromFields(class)
  <1>1. PICK x \in Classes : x = class
    BY DEF Inv, Typed, TheFile
  <1>2. PICK cs \in Seq(AConstant), n \in Nat, b \in Seq(Nat), w \in Seq(Nat), u \in Seq(Nat) :
          /\ cs = x.constants /\ n = Len(cs) /\ b = FromAccess(x) /\ w = FromFields(x)
          /\ u = U2(0) /\ Len(u) = 2
    BY ClassParts, FileTyped, U2Is
  <1>3. PICK k \in 0 .. n :
          Cardinality(Slots) = k /\ Rest(file, pos) = FileOfConstants(Rest(cs, k)) \o b
    BY <1>1, <1>2 DEF Tracks, AtConstants
  <1>4. k = n
    BY <1>1, <1>2, <1>3, AllParsed
  <1>5. Rest(file, pos) = b
    <2>1. Rest(cs, n) = <<>>
      BY <1>2, RestEnds
    <2>2. FileOfConstants(<<>>) = <<>>
      BY ConstantsFile
    <2> QED BY <1>3, <1>4, <2>1, <2>2, Joined
  <1>6. PICK h \in Seq(Nat), d \in Seq(Nat) : h = (u \o u) \o u /\ d = u \o w /\ Len(h) = 6
    <2>1. PICK g \in Seq(Nat) : g = u \o u /\ Len(g) = Len(u) + Len(u)
      BY Joined
    <2>2. PICK h \in Seq(Nat) : h = g \o u /\ Len(h) = Len(g) + Len(u)
      BY Joined
    <2>3. PICK d \in Seq(Nat) : d = u \o w
      BY Joined
    <2>0. Len(u) = 2
      BY <1>2
    <2>6. Len(g) = 4
      BY ONLY <2>0, <2>1
    <2>5. Len(h) = 6
      BY ONLY <2>0, <2>2, <2>6
    <2> QED BY <2>1, <2>2, <2>3, <2>5
  <1>7. b = h \o (u \o w)
    <2>1. class.interfaces = <<>>
      BY DEF Readable
    <2>2. FromInterfaces(x) = (u \o <<>>) \o w
      <3>1. [j \in DOMAIN x.interfaces |-> U2(x.interfaces[j])] = <<>>
        BY <1>1, <2>1
      <3>2. Len(x.interfaces) = 0
        BY <1>1, <2>1, EmptySeq
      <3> QED BY <1>2, <3>1, <3>2, FlattenEmpty DEF FromInterfaces
    <2>3. u \o <<>> = u
      BY Joined
    <2> QED BY <1>2, <1>6, <2>2, <2>3 DEF FromAccess
  <1>8. Has(8) /\ Short(7) = 0 /\ Rest(file, pos + 8) = w
    <2>1. PICK seven \in Nat \ {0}, zero \in Nat : seven = 7 /\ zero = 0
      OBVIOUS
    <2>2. Len(h) = seven - 1 /\ Rest(file, pos) = h \o (U2(zero) \o w)
      BY <1>2, <1>5, <1>6, <1>7, <2>1
    <2>3. Has(seven + 1) /\ Short(seven) = zero /\ Rest(file, pos + (seven + 1)) = w
      BY <2>2, ShortRead
    <2> QED BY <2>1, <2>3
  <1> QED BY <1>1, <1>2, <1>8

LEMMA ClassInfoTracks ==
  ASSUME Inv, Tracks, Readable, ParseClassInfo
  PROVE  Tracks'
  <1>1. Short(7) = 0 /\ Rest(file, pos + 8) = FromFields(class)
    BY ClassInfoRead DEF ParseClassInfo, Section
  <1>2. pos' = pos + 8
    BY CountAsked DEF ParseClassInfo, Section, Inv
  <1>3. /\ stage = "constants" /\ stage' = "interfaces" /\ i' = 1 /\ count' = 0
        /\ UNCHANGED <<class, file, todo, fields, methods>>
    BY <1>1 DEF ParseClassInfo, Section, input, pools
  <1> QED BY <1>1, <1>2, <1>3 DEF Tracks

\* The number of fields, and that of methods, is read where the class has it.
LEMMA CountRead ==
  ASSUME Inv, NEW n \in Nat, NEW v \in Seq(Nat), Rest(file, pos) = U2(n) \o v
  PROVE  Has(2) /\ Short(1) = n /\ Rest(file, pos + 2) = v
  <1>1. PICK e \in Seq(Nat), one \in Nat \ {0}, u \in Seq(Nat) :
          e = <<>> /\ Len(e) = 0 /\ one = 1 /\ u = U2(n)
    <2>1. U2(n) \in Seq(Nat) /\ <<>> \in Seq(Nat) /\ Len(<<>>) = 0 /\ 1 \in Nat \ {0}
      BY EmptySeq, U2Is
    <2> QED BY <2>1
  <1>2. u \o v \in Seq(Nat)
    BY Joined
  <1>3. Len(e) = one - 1 /\ Rest(file, pos) = e \o (U2(n) \o v)
    BY <1>1, <1>2, Joined
  <1>4. Has(one + 1) /\ Short(one) = n /\ Rest(file, pos + (one + 1)) = v
    BY <1>3, ShortRead
  <1> QED BY <1>1, <1>4

LEMMA MembersOfNone ==
  ASSUME NEW ms \in Seq(AMember)
  PROVE  /\ Len(ms) \in Nat /\ Rest(ms, 0) = ms /\ FileOfMembers(ms) \in Seq(Nat)
         /\ Rest(ms, Len(ms)) = <<>> /\ FileOfMembers(<<>>) = <<>>
  BY LenProperties, RestEnds, MembersFile

LEMMA FieldsCountRead ==
  ASSUME Inv, Tracks, stage = "interfaces"
  PROVE  /\ Has(2) /\ Short(1) = Len(class.fields)
         /\ Rest(file, pos + 2) = FileOfMembers(class.fields) \o FromMethods(class)
  <1>1. PICK fs \in Seq(AMember), fm \in Seq(Nat) : fs = class.fields /\ fm = FromMethods(class)
    BY ClassParts, FileTyped DEF Inv, Typed, TheFile
  <1>2. PICK n \in Nat, a \in Seq(Nat), u \in Seq(Nat), v \in Seq(Nat) :
          /\ n = Len(fs) /\ a = FileOfMembers(fs) /\ u = U2(n) /\ v = a \o fm
    BY MembersOfNone, U2Is, Joined
  <1>3. Rest(file, pos) = U2(n) \o v
    <2>1. Rest(file, pos) = (u \o a) \o fm
      BY <1>1, <1>2 DEF Tracks, FromFields
    <2>2. Groups(u, a, fm)
      BY Grouped
    <2> QED BY <1>2, <2>1, <2>2 DEF Groups
  <1> QED BY <1>1, <1>2, <1>3, CountRead

LEMMA MethodsCountRead ==
  ASSUME Inv, Tracks, stage = "fields", ~Looping
  PROVE  /\ Has(2) /\ Short(1) = Len(class.methods)
         /\ Rest(file, pos + 2) = FileOfMembers(class.methods)
  <1>1. PICK fs \in Seq(AMember), ms \in Seq(AMember), fm \in Seq(Nat) :
          fs = class.fields /\ ms = class.methods /\ fm = FromMethods(class)
    BY ClassParts, FileTyped DEF Inv, Typed, TheFile
  <1>2. PICK n \in Nat, v \in Seq(Nat) : n = Len(ms) /\ v = FileOfMembers(ms)
    BY MembersOfNone
  <1>3. i =< Len(fs) /\ count = Len(fs) /\ ~(i < count) /\ i \in Nat /\ Len(fs) \in Nat /\ todo = 0
    BY <1>1, MembersOfNone DEF Tracks, AtMembers, Looping, Inv, Typed, TypeOK
  <1>4. i = Len(fs)
    BY <1>3
  <1>5. Rest(file, pos) = FileOfMembers(Rest(fs, i)) \o fm
    BY <1>1, <1>3 DEF Tracks, AtMembers
  <1>6. Rest(file, pos) = <<>> \o fm
    BY <1>4, <1>5, MembersOfNone
  <1>7. fm = U2(n) \o v
    BY <1>1, <1>2 DEF FromMethods
  <1>8. Rest(file, pos) = U2(n) \o v
    BY <1>6, <1>7, NoneJoined
  <1> QED BY <1>1, <1>2, <1>8, CountRead

LEMMA MembersCountTracks ==
  ASSUME Inv, Tracks, Readable, ParseFieldsCount \/ ParseMethodsCount
  PROVE  Tracks'
  <1>1. PICK fs \in Seq(AMember), ms \in Seq(AMember), fm \in Seq(Nat) :
          fs = class.fields /\ ms = class.methods /\ fm = FromMethods(class)
    BY ClassParts, FileTyped DEF Inv, Typed, TheFile
  <1>2. pos' = pos + 2 /\ todo = 0 /\ i' = 0 /\ count' = Short(1) /\ ~Looping
        /\ UNCHANGED <<class, file, todo, fields, methods>>
    BY CountAsked DEF ParseFieldsCount, ParseMethodsCount, Section, Inv, input, pools
  <1>3. Len(<<>>) = 0
    BY EmptySeq
  <1>4. CASE ParseFieldsCount
    <2>1. stage = "interfaces" /\ stage' = "fields"
      BY <1>4 DEF ParseFieldsCount, Section
    <2>2. count' = Len(fs) /\ Rest(file', pos') = FileOfMembers(Rest(fs, 0)) \o fm /\ Len(fs) \in Nat
      BY <1>1, <1>2, <2>1, FieldsCountRead, MembersOfNone
    <2>3. fields = <<>> /\ methods = <<>>
      BY <2>1 DEF Tracks
    <2>4. AtMembers(fs, fields, fm)'
      BY <1>2, <1>3, <2>2, <2>3 DEF AtMembers
    <2> QED BY <1>1, <1>2, <2>1, <2>3, <2>4 DEF Tracks, AtMembers
  <1>5. CASE ParseMethodsCount
    <2>1. stage = "fields" /\ stage' = "methods"
      BY <1>5 DEF ParseMethodsCount, Section
    <2>2. count' = Len(ms) /\ Rest(file', pos') = FileOfMembers(Rest(ms, 0)) \o <<>> /\ Len(ms) \in Nat
      <3>1. PICK v \in Seq(Nat) : v = FileOfMembers(ms)
        BY MembersOfNone
      <3>2. v \o <<>> = v
        BY NoneJoined
      <3> QED BY <1>1, <1>2, <2>1, <3>1, <3>2, MethodsCountRead, MembersOfNone
    <2>3. methods = <<>>
      BY <2>1 DEF Tracks
    <2>4. AtMembers(ms, methods, <<>>)'
      BY <1>2, <1>3, <2>2, <2>3 DEF AtMembers
    <2> QED BY <1>1, <1>2, <2>1, <2>4 DEF Tracks, AtMembers
  <1> QED BY <1>4, <1>5

LEMMA EndOfFileTracks ==
  ASSUME Inv, Tracks, Readable, EndOfFile
  PROVE  Tracks'
  <1>1. PICK x \in Classes : x = class
    BY DEF Inv, Typed, TheFile
  <1>2. PICK ms \in Seq(AMember) : ms = x.methods
    BY ClassParts
  <1>3. /\ stage = "methods" /\ stage' = "main" /\ ~Looping /\ pos' = pos + 0 /\ todo = 0
        /\ UNCHANGED file
    BY CountAsked DEF EndOfFile, Section, Inv, input
  <1>4. i = Len(ms) /\ Rest(file, pos) = FileOfMembers(Rest(ms, i)) \o <<>>
    <2>1. i =< Len(ms) /\ count = Len(ms) /\ ~(i < count) /\ i \in Nat /\ Len(ms) \in Nat
      BY <1>1, <1>2, <1>3, LenProperties DEF Tracks, AtMembers, Looping, Inv, Typed, TypeOK
    <2>2. i = Len(ms)
      BY <2>1
    <2> QED BY <1>1, <1>2, <1>3, <2>2 DEF Tracks, AtMembers
  <1>5. FileOfMembers(Rest(ms, Len(ms))) = <<>>
    BY RestEnds, MembersFile
  <1>6. Rest(file, pos) = <<>>
    <2>1. <<>> \in Seq(Nat)
      BY EmptySeq
    <2> QED BY <1>4, <1>5, <2>1, NoneJoined
  <1>7. pos' = pos
    BY <1>3, TheFileTyped DEF Inv
  <1> QED BY <1>3, <1>6, <1>7 DEF Tracks

\* The steps of the loops over members.
LEMMA AtNextMember ==
  ASSUME Inv, NEW ms \in Seq(AMember), NEW pool \in Seq(AMember), NEW rest \in Seq(Nat),
         AtMembers(ms, pool, rest), stage \in {"fields", "methods"}, todo = 0, i < count,
         NEW longer, Len(longer) = Len(pool) + 1,
         pos' = pos + 8, i' = i + 1, todo' = Short(7), UNCHANGED <<file, count>>
  PROVE  AtMembers(ms, longer, rest)'
  <1>1. PICK k \in Nat, n \in Nat : k = i /\ n = Len(ms) /\ k = Len(pool) /\ k < n
    BY LenProperties DEF AtMembers, Inv, Typed, TypeOK
  <1>2. PICK m \in AMember : m = ms[k + 1]
    <2>1. k + 1 \in 1 .. n
      BY <1>1
    <2> QED BY <1>1, <2>1, ElementOfSeq
  <1>3. PICK as \in Seq(AnAttribute), l \in Nat : as = m.attributes /\ l = Len(as)
    BY LenProperties DEF AMember
  <1>4. /\ Short(7) = l
        /\ Rest(file, pos + 8) = FileOfAttributes(as) \o (FileOfMembers(Rest(ms, k + 1)) \o rest)
    BY <1>1, <1>2, <1>3, NextMember
  <1>5. PICK w \in Seq(Nat), x \in Seq(Nat) : w = FileOfMembers(Rest(ms, k + 1)) /\ x = w \o rest
    <2>1. k + 1 \in 0 .. Len(ms)
      BY <1>1
    <2>2. FileOfMembers(Rest(ms, k + 1)) \in Seq(Nat)
      BY <2>1, MembersFile
    <2> QED BY <2>2, Joined
  <1>6. i' = k + 1 /\ count' = n /\ todo' = l /\ k + 1 =< n /\ Len(longer) = k + 1 /\ k + 1 > 0
    BY <1>1, <1>4 DEF AtMembers
  <1>7. Rest(file', pos') = FileOfAttributes(as) \o x
    BY <1>4, <1>5
  <1>8. l = 0 => Rest(file', pos') = x
    <2> HAVE l = 0
    <2>1. as = <<>>
      BY <1>3, EmptySeq
    <2>2. FileOfAttributes(as) = <<>>
      BY <2>1, AttributesFile
    <2> QED BY <1>7, <2>2, NoneJoined
  <1>9. l > 0 => Rest(file', pos') = FileOfAttributes(Rest(as, l - l)) \o x
    <2>1. l - l = 0
      BY <1>3
    <2>2. Rest(as, 0) = as
      BY <1>3, RestEnds
    <2> QED BY <1>7, <2>1, <2>2
  <1>10. i' = Len(longer) /\ i' =< Len(ms) /\ count' = Len(ms)
    BY <1>1, <1>6
  <1>11. todo' = 0 => Rest(file', pos') = FileOfMembers(Rest(ms, i')) \o rest
    BY <1>5, <1>6, <1>8
  <1>12. ms[i'].attributes = as
    BY <1>2, <1>3, <1>6
  <1>13. todo' > 0 =>
           /\ i' > 0 /\ todo' =< Len(as)
           /\ Rest(file', pos') =
                FileOfAttributes(Rest(as, Len(as) - todo')) \o (FileOfMembers(Rest(ms, i')) \o rest)
    <2>1. Len(as) = l /\ todo' = l /\ i' = k + 1
      BY <1>3, <1>6
    <2>2. i' > 0 /\ l =< Len(as)
      BY <1>3, <1>6, <2>1
    <2>3. todo' > 0 => Rest(file', pos') = FileOfAttributes(Rest(as, Len(as) - todo')) \o (FileOfMembers(Rest(ms, i')) \o rest)
      BY <1>5, <1>9, <2>1
    <2> QED BY <2>1, <2>2, <2>3
  <1> QED BY <1>10, <1>11, <1>12, <1>13 DEF AtMembers

LEMMA AtNextAttribute ==
  ASSUME Inv, NEW ms \in Seq(AMember), NEW pool \in Seq(AMember), NEW rest \in Seq(Nat),
         AtMembers(ms, pool, rest), stage \in {"fields", "methods"}, todo > 0,
         stage = "fields" =>
           \A k \in DOMAIN ms : \A j \in DOMAIN ms[k].attributes :
             LET length == U4(Len(ms[k].attributes[j].info)) IN length[4] = length[1],
         NEW longer, Len(longer) = Len(pool),
         pos' = pos + Needs, todo' = todo - 1, UNCHANGED <<file, i, count>>
  PROVE  AtMembers(ms, longer, rest)'
  <1>1. PICK h \in Nat, n \in Nat, t \in Nat :
          h = i /\ n = Len(ms) /\ t = todo /\ h > 0 /\ h =< n /\ t > 0 /\ h = Len(pool)
    BY LenProperties DEF AtMembers, Inv, Typed, TypeOK
  <1>2. PICK as \in Seq(AnAttribute), l \in Nat : as = ms[h].attributes /\ l = Len(as)
    BY <1>1, NextAttribute, LenProperties
  <1>3. /\ l - t \in 0 .. l - 1
        /\ Rest(file, pos + Needs) =
             FileOfAttributes(Rest(as, (l - t) + 1)) \o (FileOfMembers(Rest(ms, h)) \o rest)
    BY <1>1, <1>2, NextAttribute
  <1>4. PICK w \in Seq(Nat), x \in Seq(Nat) : w = FileOfMembers(Rest(ms, h)) /\ x = w \o rest
    <2>1. h \in 0 .. Len(ms)
      BY <1>1
    <2>2. FileOfMembers(Rest(ms, h)) \in Seq(Nat)
      BY <2>1, MembersFile
    <2> QED BY <2>2, Joined
  <1>5. (l - t) + 1 = l - (t - 1) /\ t - 1 =< l /\ todo' = t - 1
    BY <1>1, <1>3
  <1>6. Rest(file', pos') = FileOfAttributes(Rest(as, l - (t - 1))) \o x
    BY <1>3, <1>4, <1>5
  <1>7. t - 1 = 0 => Rest(file', pos') = x
    <2> HAVE t - 1 = 0
    <2>1. Rest(as, l) = <<>> /\ l - (t - 1) = l
      BY <1>2, RestEnds
    <2>2. FileOfAttributes(<<>>) = <<>>
      BY AttributesFile
    <2> QED BY <1>6, <2>1, <2>2, NoneJoined
  <1>8. i' = h /\ count' = n /\ Len(longer) = h
    BY <1>1 DEF AtMembers
  <1> QED BY <1>1, <1>2, <1>4, <1>5, <1>6, <1>7, <1>8 DEF AtMembers

LEMMA MemberTracks ==
  ASSUME Inv, Tracks, Readable, parseFP \/ parseMP
  PROVE  Tracks'
  <1>1. PICK x \in Classes : x = class
    BY DEF Inv, Typed, TheFile
  <1>2. PICK fs \in Seq(AMember), ms \in Seq(AMember), fm \in Seq(Nat), e \in Seq(Nat) :
          fs = x.fields /\ ms = x.methods /\ fm = FromMethods(x) /\ e = <<>>
    BY ClassParts, FileTyped, EmptySeq
  <1>3. /\ Reads /\ stage \in {"fields", "methods"} /\ todo = 0 /\ i < count
        /\ i' = i + 1 /\ todo' = Short(7) /\ UNCHANGED <<class, file, stage, count>>
        /\ stage = "fields" => fields' = Append(fields, Member) /\ UNCHANGED methods
        /\ stage = "methods" => methods' = Append(methods, Member)
    BY DEF parseFP, parseMP, input
  <1>4. pos' = pos + 8
    BY <1>3, MemberAsked DEF Inv
  <1>5. PICK m \in AMember : m = Member
    BY <1>3, MemberRead
  <1>6. CASE stage = "fields"
    <2>0. PICK pool \in Seq(AMember) : pool = fields
      BY DEF Inv, Typed, TypeOK
    <2>1. PICK longer : pool = fields /\ longer = fields' /\ longer = Append(pool, m)
      BY <1>3, <1>5, <1>6, <2>0
    <2>2. Len(longer) = Len(pool) + 1
      BY <2>1, AppendProperties
    <2>3. AtMembers(fs, pool, fm)
      BY <1>1, <1>2, <1>6, <2>1 DEF Tracks
    <2>4. AtMembers(fs, longer, fm)'
      BY <1>3, <1>4, <2>2, <2>3, AtNextMember
    <2>5. AtMembers(fs, fields, fm)'
      BY <2>1, <2>4 DEF AtMembers
    <2>6. methods' = <<>>
      BY <1>3, <1>6 DEF Tracks
    <2> QED BY <1>1, <1>2, <1>3, <1>6, <2>5, <2>6 DEF Tracks, AtMembers
  <1>7. CASE stage = "methods"
    <2>0. PICK pool \in Seq(AMember) : pool = methods
      BY DEF Inv, Typed, TypeOK
    <2>1. PICK longer : pool = methods /\ longer = methods' /\ longer = Append(pool, m)
      BY <1>3, <1>5, <1>7, <2>0
    <2>2. Len(longer) = Len(pool) + 1
      BY <2>1, AppendProperties
    <2>3. AtMembers(ms, pool, e)
      BY <1>1, <1>2, <1>7, <2>1 DEF Tracks
    <2>4. AtMembers(ms, longer, e)'
      BY <1>3, <1>4, <2>2, <2>3, AtNextMember
    <2>5. AtMembers(ms, methods, e)'
      BY <2>1, <2>4 DEF AtMembers
    <2> QED BY <1>1, <1>2, <1>3, <1>7, <2>5 DEF Tracks, AtMembers
  <1> QED BY <1>3, <1>6, <1>7

LEMMA AttributeTracks ==
  ASSUME Inv, Tracks, Readable, parseAttr \/ parseMethodAttr
  PROVE  Tracks'
  <1>1. PICK x \in Classes : x = class
    BY DEF Inv, Typed, TheFile
  <1>2. PICK fs \in Seq(AMember), ms \in Seq(AMember), fm \in Seq(Nat), e \in Seq(Nat) :
          fs = x.fields /\ ms = x.methods /\ fm = FromMethods(x) /\ e = <<>>
    BY ClassParts, FileTyped, EmptySeq
  <1>3. /\ Reads /\ stage \in {"fields", "methods"} /\ todo > 0 /\ todo' = todo - 1
        /\ pos' = pos + Needs /\ UNCHANGED <<class, file, stage, i, count>>
        /\ stage = "fields" => fields' = WithAttribute(fields, FieldAttrLength) /\ UNCHANGED methods
        /\ stage = "methods" => methods' = WithAttribute(methods, MethodAttrLength)
    BY DEF parseAttr, parseMethodAttr, Reads, input
  <1>4. PICK a \in AnAttribute : a = [name |-> Short(1), info |-> Bytes(7, AttrLength)]
    BY <1>3, MemberRead DEF AttrLength
  <1>5. ASSUME NEW pool \in Seq(AMember), pool # <<>>
        PROVE  Len([pool EXCEPT ![Len(pool)].attributes = Append(@, a)]) = Len(pool)
    BY <1>5, WithAttributeTyped
  <1>6. CASE stage = "fields"
    <2>8. PICK pool \in Seq(AMember) : pool = fields
      BY DEF Inv, Typed, TypeOK
    <2>1. PICK longer : pool = fields /\ longer = fields'
      BY <2>8
    <2>0. longer = [pool EXCEPT ![Len(pool)].attributes = Append(@, a)] /\ pool # <<>>
      BY <1>3, <1>4, <1>6, <2>1 DEF WithAttribute, AttrLength, Inv, LoopsStarted
    <2>2. Len(longer) = Len(pool)
      BY <1>5, <2>0
    <2>3. AtMembers(fs, pool, fm)
      BY <1>1, <1>2, <1>6, <2>1 DEF Tracks
    <2>7. \A k \in DOMAIN fs : \A j \in DOMAIN fs[k].attributes :
            LET length == U4(Len(fs[k].attributes[j].info)) IN length[4] = length[1]
      BY <1>1, <1>2 DEF Readable
    <2>4. AtMembers(fs, longer, fm)'
      BY <1>3, <2>2, <2>3, <2>7, AtNextAttribute
    <2>5. AtMembers(fs, fields, fm)'
      BY <2>1, <2>4 DEF AtMembers
    <2>6. methods' = <<>>
      BY <1>3, <1>6 DEF Tracks
    <2> QED BY <1>1, <1>2, <1>3, <1>6, <2>5, <2>6 DEF Tracks, AtMembers
  <1>7. CASE stage = "methods"
    <2>8. PICK pool \in Seq(AMember) : pool = methods
      BY DEF Inv, Typed, TypeOK
    <2>1. PICK longer : pool = methods /\ longer = methods'
      BY <2>8
    <2>0. longer = [pool EXCEPT ![Len(pool)].attributes = Append(@, a)] /\ pool # <<>>
      BY <1>3, <1>4, <1>7, <2>1 DEF WithAttribute, AttrLength, Inv, LoopsStarted
    <2>2. Len(longer) = Len(pool)
      BY <1>5, <2>0
    <2>3. AtMembers(ms, pool, e)
      BY <1>1, <1>2, <1>7, <2>1 DEF Tracks
    <2>4. AtMembers(ms, longer, e)'
      BY <1>3, <1>7, <2>2, <2>3, AtNextAttribute
    <2>5. AtMembers(ms, methods, e)'
      BY <2>1, <2>4 DEF AtMembers
    <2> QED BY <1>1, <1>2, <1>3, <1>7, <2>5 DEF Tracks, AtMembers
  <1> QED BY <1>3, <1>6, <1>7

LEMMA OthersTrack ==
  ASSUME Inv, Tracks, Readable,
         UnknownTag \/ parseIPClass \/ findMethodInPool \/ executeMethod \/ free_pools \/ ReadsAstray,
         stage' # "lost"
  PROVE  Tracks'
  <1>1. ~UnknownTag
    <2> SUFFICES ASSUME UnknownTag PROVE FALSE
      OBVIOUS
    <2> QED BY NextConstant DEF UnknownTag
  <1>2. ~parseIPClass
    BY DEF parseIPClass, Tracks
  <1>3. ~ReadsAstray
    BY DEF ReadsAstray, Lost
  <1>4. /\ stage \in {"main", "execute"} /\ stage' \in {"main", "execute", "end"}
        /\ UNCHANGED <<file, pos>>
    BY <1>1, <1>2, <1>3 DEF findMethodInPool, executeMethod, free_pools, Lost, input
  <1> QED BY <1>4 DEF Tracks

LEMMA ClassStays ==
  ASSUME Next PROVE class' = class /\ stage \notin {"lost", "end"}
  <1>1. CASE ParseHeader \/ ParseClassInfo \/ ParseFieldsCount \/ ParseMethodsCount \/ EndOfFile
    BY <1>1 DEF ParseHeader, ParseClassInfo, ParseFieldsCount, ParseMethodsCount, EndOfFile,
                Section, input
  <1>2. CASE ParseConstant
    BY <1>2 DEF ParseConstant, parseCPString, parseCPInteger, parseCPFloat, parseCPLong,
                parseCPDouble, parseCPRef, parseCPPair, ParseCP, input
  <1>3. CASE parseFP \/ parseAttr \/ parseMP \/ parseMethodAttr
    BY <1>3 DEF parseFP, parseAttr, parseMP, parseMethodAttr, input
  <1>4. CASE UnknownTag \/ parseIPClass \/ findMethodInPool \/ executeMethod \/ free_pools \/ ReadsAstray
    BY <1>4 DEF UnknownTag, parseIPClass, findMethodInPool, executeMethod, free_pools, ReadsAstray,
                Parsing, Lost, input
  <1> QED BY <1>1, <1>2, <1>3, <1>4 DEF Next, ParseConstant

LEMMA InitTracked == Init => Tracked
  <1> SUFFICES ASSUME Init PROVE Tracks
    BY DEF Tracked
  <1>1. ASSUME NEW tag \in Tags PROVE {tag} \X DOMAIN cp[tag] = {}
    <2>1. cp[tag] = <<>>
      BY DEF Init
    <2>2. DOMAIN cp[tag] = {}
      BY <2>1, LenProperties, EmptySeq
    <2> QED BY <2>2
  <1>2. Slots = {}
    BY <1>1 DEF Slots
  <1> QED BY <1>2 DEF Init, Tracks

LEMMA NextTracked == Inv /\ Tracked /\ [Next \/ Stopped]_vars => Tracked'
  <1> SUFFICES ASSUME Inv, Tracked, [Next \/ Stopped]_vars, Readable', stage' # "lost"
               PROVE  Tracks'
    BY DEF Tracked
  <1>1. CASE UNCHANGED vars
    <2>1. Readable /\ stage # "lost"
      BY <1>1 DEF vars, input, pools, Readable, TagCount
    <2>2. Tracks
      BY <2>1 DEF Tracked
    <2> QED BY <1>1, <2>2 DEF Tracks, AtConstants, AtMembers, Slots, vars, input, pools
  <1>2. CASE Next
    <2>1. Readable /\ stage # "lost"
      BY <1>2, ClassStays DEF Readable, TagCount
    <2>2. Tracks
      BY <2>1 DEF Tracked
    <2> QED BY <1>2, <2>1, <2>2, HeaderTracks, ConstantTracks, ClassInfoTracks, MembersCountTracks,
               EndOfFileTracks, MemberTracks, AttributeTracks, OthersTrack DEF Next, ParseConstant
  <1> QED BY <1>1, <1>2 DEF Stopped

-----------------------------------------------------------------------------
(* For every readable class: when the parser has no attribute left to read *)
(* it is at the very byte of the file where the class has what its pools   *)
(* say comes next, after each constant, field and method and at the end of *)
(* the file (class_parser.c:55-118, constant_pool_parser.c:207-268).       *)
THEOREM PoolsInStep == Spec => []InStep
  <1> QED BY InitInv, NextInv, InitTracked, NextTracked, TracksInStep, PTL DEF Spec

-----------------------------------------------------------------------------
(***************************************************************************)
(* The pools hold the constants that have been parsed, each under its      *)
(* index and with its value, and nothing else.                             *)
(***************************************************************************)
EntryOf(cs, j) == [index |-> IndexIn(cs, j), value |-> Value(cs[j])]
OfTag(cs, k, tag) == {j \in 1 .. k : cs[j].tag = tag}

Holds(cs, k, tag) ==
  /\ \A m \in DOMAIN cp[tag] : \E j \in OfTag(cs, k, tag) : cp[tag][m] = EntryOf(cs, j)
  /\ \A j \in OfTag(cs, k, tag) : \E m \in DOMAIN cp[tag] : cp[tag][m] = EntryOf(cs, j)
  /\ Len(cp[tag]) = Cardinality(OfTag(cs, k, tag))

Held(cs, k) == \A tag \in Tags : Holds(cs, k, tag)

Parsed ==
  IF stage = "header" THEN 0
  ELSE IF stage = "constants" THEN Cardinality(Slots) ELSE Len(class.constants)

Contents == Readable /\ stage # "lost" => Held(class.constants, Parsed)

LEMMA OfTagFinite ==
  ASSUME NEW cs, NEW k \in Nat, NEW tag
  PROVE  IsFiniteSet(OfTag(cs, k, tag)) /\ Cardinality(OfTag(cs, k, tag)) \in Nat
  <1>1. IsFiniteSet(1 .. k)
    BY FS_Interval
  <1>2. OfTag(cs, k, tag) \in SUBSET (1 .. k)
    BY DEF OfTag
  <1> QED BY <1>1, <1>2, FS_Subset, FS_CardinalityType

LEMMA HeldGrows ==
  ASSUME Inv, NEW cs, NEW k \in Nat, NEW tag \in Tags, cs[k + 1].tag = tag, Held(cs, k),
         NEW e \in [index : Nat, value : Values(tag)], e = EntryOf(cs, k + 1),
         cp' = [cp EXCEPT ![tag] = Append(@, e)]
  PROVE  Held(cs, k + 1)'
  <1>1. PICK s \in Seq([index : Nat, value : Values(tag)]), n \in Nat :
          s = cp[tag] /\ n = Len(s) /\ DOMAIN s = 1 .. n
    BY LenProperties DEF Inv, Typed, TypeOK
  <1>2. cp'[tag] = Append(s, e) /\ \A t \in Tags \ {tag} : cp'[t] = cp[t]
    BY <1>1 DEF Inv, Typed, TypeOK
  <1>3. PICK l \in Seq([index : Nat, value : Values(tag)]) : l = Append(s, e)
    BY AppendProperties
  <1>4. /\ Len(l) = n + 1 /\ DOMAIN l = 1 .. n + 1 /\ l[n + 1] = e
        /\ \A m \in 1 .. n : l[m] = s[m]
    BY <1>1, <1>3, AppendProperties, LenProperties
  <1>5. OfTag(cs, k + 1, tag) = OfTag(cs, k, tag) \cup {k + 1} /\ k + 1 \notin OfTag(cs, k, tag)
    BY DEF OfTag
  <1>6. Holds(cs, k, tag)
    BY DEF Held
  <1>7. ASSUME NEW m \in 1 .. n + 1
        PROVE  \E j \in OfTag(cs, k + 1, tag) : l[m] = EntryOf(cs, j)
    <2>1. CASE m = n + 1
      BY <1>4, <1>5, <2>1
    <2>2. CASE m \in 1 .. n
      <3>1. \E j \in OfTag(cs, k, tag) : s[m] = EntryOf(cs, j)
        BY <1>1, <1>6, <2>2 DEF Holds
      <3> QED BY <1>4, <1>5, <2>2, <3>1
    <2> QED BY <2>1, <2>2
  <1>8. ASSUME NEW j \in OfTag(cs, k + 1, tag)
        PROVE  \E m \in 1 .. n + 1 : l[m] = EntryOf(cs, j)
    <2>1. CASE j = k + 1
      BY <1>4, <2>1
    <2>2. CASE j \in OfTag(cs, k, tag)
      <3>1. PICK m \in 1 .. n : s[m] = EntryOf(cs, j)
        BY <1>1, <1>6, <2>2 DEF Holds
      <3>2. m \in 1 .. n + 1
        OBVIOUS
      <3> QED BY <1>4, <3>1, <3>2
    <2> QED BY <1>5, <2>1, <2>2
  <1>9. Cardinality(OfTag(cs, k + 1, tag)) = Cardinality(OfTag(cs, k, tag)) + 1
    BY <1>5, OfTagFinite, FS_AddElement
  <1>10. n = Cardinality(OfTag(cs, k, tag))
    BY <1>1, <1>6 DEF Holds
  <1>11. Holds(cs, k + 1, tag)'
    <2>1. cp'[tag] = l
      BY <1>2, <1>3
    <2>2. Len(l) = Cardinality(OfTag(cs, k + 1, tag))
      BY <1>4, <1>9, <1>10
    <2>3. DOMAIN l = 1 .. n + 1
      BY <1>4
    <2> QED BY <1>7, <1>8, <2>1, <2>2, <2>3 DEF Holds
  <1>12. ASSUME NEW t \in Tags \ {tag} PROVE Holds(cs, k + 1, t)'
    <2>1. OfTag(cs, k + 1, t) = OfTag(cs, k, t)
      BY DEF OfTag
    <2>2. Holds(cs, k, t)
      BY DEF Held
    <2> QED BY <1>2, <2>1, <2>2 DEF Holds
  <1> QED BY <1>11, <1>12 DEF Held

LEMMA NothingHeld ==
  ASSUME NEW cs, \A tag \in Tags : cp[tag] = <<>>
  PROVE  Held(cs, 0)
  <1> SUFFICES ASSUME NEW tag \in Tags PROVE Holds(cs, 0, tag)
    BY DEF Held
  <1>1. OfTag(cs, 0, tag) = {}
    BY DEF OfTag
  <1>2. DOMAIN cp[tag] = {} /\ Len(cp[tag]) = 0
    OBVIOUS
  <1> QED BY <1>1, <1>2, FS_EmptySet DEF Holds

\* A look-up finds the constant with the index, if it is of its kind.
LEMMA HeldIsFound ==
  ASSUME Inv, NEW cs \in Seq(AConstant), cs = class.constants, Held(cs, Len(cs)),
         NEW tag \in Tags, NEW index
  PROVE  LET c == ConstantAt(class, index)
         IN  Find(tag, index) = IF c.tag = tag THEN Value(c) ELSE NotFound(tag)
  <1>1. PICK s \in Seq([index : Nat, value : Values(tag)]), n \in Nat, l \in Nat :
          s = cp[tag] /\ n = Len(s) /\ DOMAIN s = 1 .. n /\ l = Len(cs) /\ DOMAIN cs = 1 .. l
    BY LenProperties DEF Inv, Typed, TypeOK
  <1> DEFINE T == {m \in 1 .. n : s[m].index = index}
             f == SelectInSeq(cp[tag], LAMBDA c : c.index = index)
             at == {j \in 1 .. l : IndexIn(cs, j) = index}
  <1>2. f = IF T # {} THEN Min(T) ELSE 0
    BY <1>1 DEF SelectInSeq
  <1>3. T \subseteq 1 .. n
    OBVIOUS
  <1>4. f \in 0 .. n /\ (f = 0 <=> T = {}) /\ (f # 0 => f \in T)
    <2> HIDE DEF T, f
    <2> QED BY <1>2, <1>3, FirstOf
  <1>5. Find(tag, index) = IF f = 0 THEN NotFound(tag) ELSE s[f].value
    BY <1>1 DEF Find
  <1>6. at = {j \in DOMAIN class.constants : IndexIn(class.constants, j) = index}
    BY <1>1
  <1>7. ASSUME NEW j \in at, NEW h \in at PROVE j = h
    <2>1. j \in 1 .. l + 1 /\ h \in 1 .. l + 1
      OBVIOUS
    <2>2. j < h => IndexIn(cs, j) < IndexIn(cs, h)
      BY <1>1, <2>1, IndicesOrdered
    <2>3. h < j => IndexIn(cs, h) < IndexIn(cs, j)
      BY <1>1, <2>1, IndicesOrdered
    <2>4. IndexIn(cs, j) \in Nat /\ IndexIn(cs, j) = IndexIn(cs, h)
      BY <1>1, <2>1, IndicesOrdered
    <2> QED BY <2>2, <2>3, <2>4
  <1>8. Holds(cs, l, tag)
    BY <1>1 DEF Held
  <1>9. CASE at = {}
    <2>1. ConstantAt(class, index).tag # tag
      BY <1>6, <1>9, TagsAre DEF ConstantAt, Unused
    <2>2. T = {}
      <3> SUFFICES ASSUME NEW m \in T PROVE FALSE
        OBVIOUS
      <3>1. PICK j \in OfTag(cs, l, tag) : s[m] = EntryOf(cs, j)
        BY <1>1, <1>8 DEF Holds
      <3>2. j \in at
        BY <3>1 DEF EntryOf, OfTag
      <3> QED BY <1>9, <3>2
    <2> HIDE DEF T, f
    <2> QED BY <1>4, <1>5, <2>1, <2>2
  <1>10. ASSUME NEW h \in at
         PROVE  Find(tag, index) = IF ConstantAt(class, index).tag = tag
                                   THEN Value(ConstantAt(class, index)) ELSE NotFound(tag)
    <2>1. (CHOOSE j \in at : TRUE) = h
      BY <1>7
    <2>2. ConstantAt(class, index) = cs[h]
      BY <1>6, <2>1 DEF ConstantAt
    <2>3. ASSUME NEW m \in T PROVE cs[h].tag = tag /\ s[m].value = Value(cs[h])
      <3>1. PICK j \in OfTag(cs, l, tag) : s[m] = EntryOf(cs, j)
        BY <1>1, <1>8 DEF Holds
      <3>2. j \in at /\ s[m].value = Value(cs[j]) /\ cs[j].tag = tag
        BY <3>1 DEF EntryOf, OfTag
      <3>3. j = h
        BY <1>7, <3>2
      <3> QED BY <3>2, <3>3
    <2>4. ASSUME cs[h].tag = tag PROVE T # {}
      <3>1. h \in OfTag(cs, l, tag)
        BY <2>4 DEF OfTag
      <3>2. PICK m \in 1 .. n : s[m] = EntryOf(cs, h)
        BY <1>1, <1>8, <3>1 DEF Holds
      <3>3. s[m].index = index
        BY <3>2 DEF EntryOf
      <3> QED BY <3>3
    <2> HIDE DEF T, f
    <2> QED BY <1>4, <1>5, <2>2, <2>3, <2>4
  <1> HIDE DEF T, f, at
  <1> QED BY <1>9, <1>10

\* In a readable class the pool of a constant has room for it.
LEMMA HeldRoom ==
  ASSUME Inv, Readable, NEW cs \in Seq(AConstant), cs = class.constants,
         NEW k \in 0 .. Len(cs) - 1, NEW tag \in Tags, cs[k + 1].tag = tag, Holds(cs, k, tag)
  PROVE  Len(cp[tag]) < Cap[tag]
  <1>1. PICK l \in Nat : l = Len(cs) /\ DOMAIN cs = 1 .. l
    BY LenProperties
  <1>2. k \in Nat /\ k + 1 \in 1 .. l /\ k + 1 \in Nat
    BY <1>1
  <1>3. OfTag(cs, k, tag) \cup {k + 1} \in SUBSET OfTag(cs, l, tag) /\ k + 1 \notin OfTag(cs, k, tag)
    BY <1>1, <1>2 DEF OfTag
  <1>4. Cardinality(OfTag(cs, k, tag) \cup {k + 1}) = Cardinality(OfTag(cs, k, tag)) + 1
    BY <1>2, <1>3, OfTagFinite, FS_AddElement
  <1>5. Cardinality(OfTag(cs, k, tag) \cup {k + 1}) =< Cardinality(OfTag(cs, l, tag))
    BY <1>3, OfTagFinite, FS_Subset
  <1>6. Cardinality(OfTag(cs, l, tag)) =< Cap[tag]
    BY <1>1 DEF Readable, TagCount, OfTag
  <1>7. Cap[tag] \in Nat /\ Cardinality(OfTag(cs, k, tag)) \in Nat /\ Cardinality(OfTag(cs, l, tag)) \in Nat
    BY <1>1, <1>2, OfTagFinite, CapAssumption DEF CapAssumption
  <1> QED BY <1>4, <1>5, <1>6, <1>7 DEF Holds

LEMMA ContentsFound ==
  ASSUME Inv, Readable, Contents, stage \notin {"header", "constants", "lost"},
         NEW tag \in Tags, NEW index
  PROVE  LET c == ConstantAt(class, index)
         IN  Find(tag, index) = IF c.tag = tag THEN Value(c) ELSE NotFound(tag)
  <1>1. PICK cs \in Seq(AConstant) : cs = class.constants
    BY ClassParts DEF Inv, Typed, TheFile
  <1>2. Held(cs, Len(cs))
    BY <1>1 DEF Contents, Parsed
  <1> QED BY <1>1, <1>2, HeldIsFound

LEMMA ContentsRight == Inv /\ Contents => FoundAsWritten
  <1> SUFFICES ASSUME Inv, Contents, Readable, stage \notin {"header", "constants", "lost"},
                      NEW index \in 0 .. IndexIn(class.constants, Len(class.constants) + 1),
                      NEW tag \in Tags
               PROVE  LET c == ConstantAt(class, index)
                      IN  Find(tag, index) = IF c.tag = tag THEN Value(c) ELSE NotFound(tag)
    BY DEF FoundAsWritten
  <1> QED BY ContentsFound

LEMMA InitContents == Init => Contents
  <1> SUFFICES ASSUME Init PROVE Held(class.constants, Parsed)
    BY DEF Contents
  <1>1. PICK cs : cs = class.constants
    OBVIOUS
  <1>2. \A tag \in Tags : cp[tag] = <<>>
    BY DEF Init
  <1>3. Parsed = 0
    BY DEF Parsed, Init
  <1> QED BY <1>1, <1>2, <1>3, NothingHeld

LEMMA ConstantContents ==
  ASSUME Inv, Tracks, Readable, Contents, ParseConstant
  PROVE  Contents'
  <1>1. PICK tag \in Tags : ParseCP(tag, Taken(tag), IF tag \in Wide THEN 2 ELSE 1)
    BY ParsersAreOne
  <1>2. /\ stage = "constants" /\ i < count /\ file[pos + 1] = tag
        /\ cp' = [cp EXCEPT ![tag] = Append(@, [index |-> i, value |-> Taken(tag)])]
        /\ UNCHANGED <<class, file, stage>>
    BY <1>1 DEF ParseCP, input
  <1>3. PICK cs \in Seq(AConstant), n \in Nat : cs = class.constants /\ n = Len(cs)
    BY ClassParts DEF Inv, Typed, TheFile
  <1>4. PICK k \in 0 .. n - 1 :
          /\ IsFiniteSet(Slots) /\ Cardinality(Slots) = k
          /\ i = IndexIn(cs, k + 1) /\ cs[k + 1].tag = tag /\ Taken(tag) = Value(cs[k + 1])
    BY <1>2, <1>3, NextConstant
  <1>5. PICK e \in [index : Nat, value : Values(tag)] :
          e = [index |-> i, value |-> Taken(tag)] /\ e = EntryOf(cs, k + 1)
    <2>1. Taken(tag) \in Values(tag) /\ i \in Nat
      BY <1>1, TakenTyped DEF ParseCP, Inv, Typed, TypeOK
    <2> QED BY <1>4, <2>1 DEF EntryOf
  <1>6. Cardinality(Slots') = k + 1
    BY <1>2, <1>4, <1>5, SlotsGrow
  <1>7. Held(cs, k)
    BY <1>2, <1>3, <1>4 DEF Contents, Parsed
  <1>8. Held(cs, k + 1)'
    <2>1. k \in Nat
      BY <1>3
    <2> QED BY <1>2, <1>4, <1>5, <1>7, <2>1, HeldGrows
  <1>9. Parsed' = k + 1 /\ class'.constants = cs
    BY <1>2, <1>3, <1>6 DEF Parsed
  <1> QED BY <1>8, <1>9 DEF Contents, Held, Holds

LEMMA OtherContents ==
  ASSUME Inv, Tracks, Readable, Contents, Next, ~ParseConstant, stage' # "lost"
  PROVE  Contents'
  <1>1. PICK cs : cs = class.constants
    OBVIOUS
  <1>2. class' = class /\ stage \notin {"lost", "end"} /\ ~UnknownTag
    <2>1. ~UnknownTag
      BY NextConstant DEF UnknownTag
    <2> QED BY <2>1, ClassStays
  <1>3. UNCHANGED cp
    BY <1>2 DEF Next, ParseConstant, ParseHeader, ParseClassInfo, ParseFieldsCount,
                ParseMethodsCount, EndOfFile, Section, parseIPClass, parseFP, parseAttr, parseMP,
                parseMethodAttr, findMethodInPool, executeMethod, free_pools, ReadsAstray, Lost, pools
  <1>4. Parsed' = Parsed
    <2>1. CASE ParseHeader
      <3>1. stage = "header" /\ stage' = "constants" /\ Slots = {}
        BY <2>1 DEF ParseHeader, Section, Tracks
      <3>2. Slots' = {}
        BY <1>3, <3>1 DEF Slots
      <3> QED BY <3>1, <3>2, FS_EmptySet DEF Parsed
    <2>2. CASE ParseClassInfo
      <3>1. stage = "constants" /\ stage' = "interfaces" /\ ~Looping
        BY <2>2 DEF ParseClassInfo, Section
      <3> QED BY <1>2, <3>1, AllParsed DEF Parsed
    <2>3. CASE ~ParseHeader /\ ~ParseClassInfo
      <3>1. stage \notin {"header", "constants"} /\ stage' \notin {"header", "constants"}
        BY <1>2, <2>3 DEF Next, ParseConstant, ParseFieldsCount,
                ParseMethodsCount, EndOfFile, Section, parseIPClass, parseFP, parseAttr, parseMP,
                parseMethodAttr, findMethodInPool, executeMethod, free_pools, ReadsAstray, Lost
      <3> QED BY <1>2, <3>1 DEF Parsed
    <2> QED BY <2>1, <2>2, <2>3
  <1>5. Held(cs, Parsed)
    BY <1>1, <1>2 DEF Contents
  <1>6. PICK k : k = Parsed
    OBVIOUS
  <1>7. Held(cs, k)'
    BY <1>3, <1>5, <1>6 DEF Held, Holds
  <1> QED BY <1>1, <1>2, <1>4, <1>6, <1>7 DEF Contents, Held, Holds

LEMMA NextContents == Inv /\ Tracked /\ Contents /\ [Next \/ Stopped]_vars => Contents'
  <1> SUFFICES ASSUME Inv, Tracked, Contents, [Next \/ Stopped]_vars, Readable', stage' # "lost"
               PROVE  Contents'
    BY DEF Contents
  <1>1. CASE UNCHANGED vars
    <2>1. class' = class /\ stage' = stage /\ cp' = cp
      BY <1>1 DEF vars, input, pools
    <2>2. Parsed' = Parsed /\ (Readable' <=> Readable)
      BY <2>1 DEF Parsed, Slots, Readable, TagCount
    <2> QED BY <2>1, <2>2 DEF Contents, Held, Holds
  <1>2. CASE Next
    <2>1. Readable /\ stage # "lost"
      BY <1>2, ClassStays DEF Readable, TagCount
    <2>2. Tracks
      BY <2>1 DEF Tracked
    <2> QED BY <1>2, <2>1, <2>2, ConstantContents, OtherContents
  <1> QED BY <1>1, <1>2 DEF Stopped

-----------------------------------------------------------------------------
(* For every readable class: behind the constant pool each index finds the *)
(* constant that the class has there, with the value that its bytes mean,  *)
(* and a look-up for another tag finds none                                *)
(* (constant_pool_parser.c:270-372).                                       *)
THEOREM PoolsFoundAsWritten == Spec => []FoundAsWritten
  <1> QED BY InitInv, NextInv, InitTracked, NextTracked, InitContents, NextContents, ContentsRight,
             PTL DEF Spec

-----------------------------------------------------------------------------
(***************************************************************************)
(* The methods are read as the class has them: of the last one as many     *)
(* attributes as have been read.                                           *)
(***************************************************************************)
Begun(m, k) == [m EXCEPT !.attributes = SubSeq(@, 1, k)]

AsWritten(ms, pool, t) ==
  \A k \in 1 .. Len(pool) :
    pool[k] = IF k < Len(pool) \/ t = 0 THEN ms[k] ELSE Begun(ms[k], Len(ms[k].attributes) - t)

MethodsWritten ==
  Readable /\ stage # "lost" =>
    /\ stage = "methods" => AsWritten(class.methods, methods, todo)
    /\ stage \in {"main", "execute"} => methods = class.methods

\* Members are equal when their parts are.
LEMMA SameMember ==
  ASSUME NEW m \in AMember, NEW r \in AMember,
         m.name = r.name, m.type = r.type, m.attributes = r.attributes
  PROVE  m = r
  BY DEF AMember

LEMMA BegunIs ==
  ASSUME NEW m \in AMember, NEW k \in 0 .. Len(m.attributes)
  PROVE  /\ Begun(m, k) \in AMember /\ Begun(m, k).name = m.name /\ Begun(m, k).type = m.type
         /\ Begun(m, k).attributes = SubSeq(m.attributes, 1, k)
         /\ k = Len(m.attributes) => Begun(m, k) = m
  <1>1. PICK as \in Seq(AnAttribute), n \in Nat : as = m.attributes /\ n = Len(as)
    BY LenProperties DEF AMember
  <1>2. PICK s \in Seq(AnAttribute) : s = SubSeq(as, 1, k)
    <2>1. \A j \in 1 .. k : as[j] \in AnAttribute
      BY <1>1, ElementOfSeq
    <2>2. 1 \in Int /\ k \in Int
      BY <1>1
    <2>3. SubSeq(as, 1, k) \in Seq(AnAttribute)
      BY <2>1, <2>2, SubSeqProperties
    <2> QED BY <2>3
  <1>3. Begun(m, k) = [m EXCEPT !.attributes = s]
    BY <1>1, <1>2 DEF Begun
  <1>4. /\ Begun(m, k) \in AMember /\ Begun(m, k).name = m.name /\ Begun(m, k).type = m.type
        /\ Begun(m, k).attributes = s
    BY <1>3 DEF AMember
  <1>5. k = n => s = as
    BY <1>1, <1>2, SubSeqFull
  <1> QED BY <1>1, <1>2, <1>4, <1>5, SameMember

LEMMA MemberWritten ==
  ASSUME NEW ms \in Seq(AMember), NEW pool \in Seq(AMember), Len(pool) < Len(ms),
         AsWritten(ms, pool, 0), NEW m \in AMember,
         m.name = ms[Len(pool) + 1].name, m.type = ms[Len(pool) + 1].type, m.attributes = <<>>
  PROVE  AsWritten(ms, Append(pool, m), Len(ms[Len(pool) + 1].attributes))
  <1>1. PICK n \in Nat, h \in Nat : n = Len(pool) /\ h = Len(ms) /\ n + 1 \in 1 .. h
    BY LenProperties
  <1>2. PICK w \in AMember, l \in Nat : w = ms[n + 1] /\ l = Len(w.attributes) /\ w.attributes \in Seq(AnAttribute)
    <2>1. ms[n + 1] \in AMember
      BY <1>1, ElementOfSeq
    <2> QED BY <2>1, LenProperties DEF AMember
  <1>3. PICK longer \in Seq(AMember) :
          /\ longer = Append(pool, m) /\ Len(longer) = n + 1 /\ longer[n + 1] = m
          /\ \A k \in 1 .. n : longer[k] = pool[k]
    <2>1. PICK longer \in Seq(AMember) : longer = Append(pool, m)
      BY AppendProperties
    <2>2. /\ Len(longer) = Len(pool) + 1 /\ longer[Len(pool) + 1] = m
          /\ \A k \in 1 .. Len(pool) : longer[k] = pool[k]
      BY <2>1, AppendProperties
    <2> QED BY <1>1, <2>1, <2>2
  <1>4. ASSUME NEW k \in 1 .. n PROVE longer[k] = ms[k]
    BY <1>1, <1>3 DEF AsWritten
  <1>5. m = IF l = 0 THEN w ELSE Begun(w, l - l)
    <2>1. l - l = 0 /\ 0 \in 0 .. l
      OBVIOUS
    <2>2. Begun(w, 0) \in AMember /\ Begun(w, 0).name = w.name /\ Begun(w, 0).type = w.type
          /\ Begun(w, 0).attributes = SubSeq(w.attributes, 1, 0) /\ (0 = l => Begun(w, 0) = w)
      BY <1>2, <2>1, BegunIs
    <2>3. SubSeq(w.attributes, 1, 0) = <<>>
      BY SubSeqEmpty
    <2>4. m = Begun(w, 0)
      BY <1>1, <1>2, <2>2, <2>3, SameMember
    <2> QED BY <2>1, <2>2, <2>4
  <1>6. ASSUME NEW k \in 1 .. n + 1
        PROVE  longer[k] = IF k < n + 1 \/ l = 0 THEN ms[k] ELSE Begun(ms[k], Len(ms[k].attributes) - l)
    <2>1. CASE k \in 1 .. n
      BY <1>4, <2>1
    <2>2. CASE k = n + 1
      BY <1>2, <1>3, <1>5, <2>2
    <2> QED BY <2>1, <2>2
  <1> QED BY <1>1, <1>2, <1>3, <1>6 DEF AsWritten

LEMMA AttributeWritten ==
  ASSUME NEW ms \in Seq(AMember), NEW pool \in Seq(AMember), pool # <<>>, Len(pool) =< Len(ms),
         NEW t \in Nat, t > 0, t =< Len(ms[Len(pool)].attributes), AsWritten(ms, pool, t),
         NEW a \in AnAttribute,
         a = ms[Len(pool)].attributes[Len(ms[Len(pool)].attributes) - t + 1]
  PROVE  AsWritten(ms, [pool EXCEPT ![Len(pool)].attributes = Append(@, a)], t - 1)
  <1>1. PICK n \in Nat, h \in Nat : n = Len(pool) /\ h = Len(ms) /\ n \in 1 .. h /\ n \in 1 .. n
    <2>1. Len(pool) \in Nat \ {0} /\ Len(ms) \in Nat
      BY EmptySeq, LenProperties
    <2> QED BY <2>1
  <1>2. PICK w \in AMember, l \in Nat, as \in Seq(AnAttribute) :
          w = ms[n] /\ as = w.attributes /\ l = Len(as)
    <2>1. ms[n] \in AMember
      BY <1>1, ElementOfSeq
    <2> QED BY <2>1, LenProperties DEF AMember
  <1>3. PICK longer \in Seq(AMember) :
          /\ longer = [pool EXCEPT ![Len(pool)].attributes = Append(@, a)] /\ Len(longer) = n
          /\ \A k \in 1 .. n - 1 : longer[k] = pool[k]
          /\ longer[n].name = pool[n].name /\ longer[n].type = pool[n].type
          /\ longer[n].attributes = Append(pool[n].attributes, a)
    <2>1. PICK longer : longer = [pool EXCEPT ![Len(pool)].attributes = Append(@, a)]
      OBVIOUS
    <2>2. /\ longer \in Seq(AMember) /\ Len(longer) = Len(pool)
          /\ \A k \in 1 .. Len(pool) - 1 : longer[k] = pool[k]
          /\ longer[Len(pool)].name = pool[Len(pool)].name
          /\ longer[Len(pool)].type = pool[Len(pool)].type
          /\ longer[Len(pool)].attributes = Append(pool[Len(pool)].attributes, a)
      BY <2>1, WithAttributeTyped
    <2> QED BY <1>1, <2>1, <2>2
  <1>4. PICK k \in 0 .. l : k = l - t /\ k + 1 \in 1 .. l /\ k + 1 \in 0 .. l /\ k + 1 = l - (t - 1)
    <2>1. t =< l
      BY <1>1, <1>2
    <2> QED BY <2>1
  <1>5. pool[n] = Begun(w, k)
    BY <1>1, <1>2, <1>4 DEF AsWritten
  <1>6. Begun(w, k).name = w.name /\ Begun(w, k).type = w.type /\ Begun(w, k).attributes = SubSeq(as, 1, k)
    BY <1>2, <1>4, BegunIs
  <1>7. /\ Begun(w, k + 1) \in AMember /\ Begun(w, k + 1).name = w.name /\ Begun(w, k + 1).type = w.type
        /\ Begun(w, k + 1).attributes = SubSeq(as, 1, k + 1) /\ (k + 1 = l => Begun(w, k + 1) = w)
    BY <1>2, <1>4, BegunIs
  <1>8. Append(SubSeq(as, 1, k), a) = SubSeq(as, 1, k + 1)
    <2>1. a = as[k + 1]
      BY <1>1, <1>2, <1>4
    <2>2. 1 \in 1 .. Len(as) /\ k + 1 \in 1 .. Len(as) /\ (k + 1) - 1 = k
      BY <1>2, <1>4
    <2>3. SubSeq(as, 1, k + 1) = SubSeq(as, 1, (k + 1) - 1) \o <<as[k + 1]>>
      BY <2>2, SubSeqRecursiveSecond
    <2>4. PICK s \in Seq(AnAttribute) : s = SubSeq(as, 1, k)
      <3>1. \A j \in 1 .. k : as[j] \in AnAttribute
        BY <1>2, <1>4, ElementOfSeq
      <3>2. 1 \in Int /\ k \in Int
        BY <1>4
      <3>3. SubSeq(as, 1, k) \in Seq(AnAttribute)
        BY <3>1, <3>2, SubSeqProperties
      <3> QED BY <3>3
    <2>5. Append(s, a) = s \o <<a>>
      BY AppendIsConcat
    <2> QED BY <2>1, <2>2, <2>3, <2>4, <2>5
  <1>9. longer[n] = Begun(w, k + 1)
    <2>1. longer[n] \in AMember
      BY <1>1, <1>3, ElementOfSeq
    <2>2. /\ longer[n].name = w.name /\ longer[n].type = w.type
          /\ longer[n].attributes = SubSeq(as, 1, k + 1)
      BY <1>3, <1>5, <1>6, <1>8
    <2> QED BY <1>7, <2>1, <2>2, SameMember
  <1>10. ASSUME NEW j \in 1 .. n
         PROVE  longer[j] = IF j < n \/ t - 1 = 0 THEN ms[j]
                            ELSE Begun(ms[j], Len(ms[j].attributes) - (t - 1))
    <2>1. CASE j \in 1 .. n - 1
      BY <1>1, <1>3, <2>1 DEF AsWritten
    <2>2. CASE j = n
      <3>1. t - 1 = 0 => k + 1 = l
        BY <1>4
      <3> QED BY <1>2, <1>4, <1>7, <1>9, <2>2, <3>1
    <2> QED BY <2>1, <2>2
  <1>11. AsWritten(ms, longer, t - 1)
    BY <1>3, <1>10 DEF AsWritten
  <1> QED BY <1>3, <1>11

LEMMA NextMethodsWritten ==
  Inv /\ Tracked /\ MethodsWritten /\ [Next \/ Stopped]_vars => MethodsWritten'
  <1> SUFFICES ASSUME Inv, Tracked, MethodsWritten, [Next \/ Stopped]_vars, Readable', stage' # "lost"
               PROVE  MethodsWritten'
    BY DEF MethodsWritten
  <1>1. CASE UNCHANGED vars
    <2>1. class' = class /\ stage' = stage /\ methods' = methods /\ todo' = todo
      BY <1>1 DEF vars, input, pools
    <2> QED BY <2>1 DEF MethodsWritten, AsWritten, Readable, TagCount
  <1>2. CASE Next
    <2>1. Readable /\ stage # "lost" /\ class' = class
      BY <1>2, ClassStays DEF Readable, TagCount
    <2>2. Tracks
      BY <2>1 DEF Tracked
    <2>3. PICK ms \in Seq(AMember), pool \in Seq(AMember), e \in Seq(Nat), t \in Nat :
            ms = class.methods /\ pool = methods /\ e = <<>> /\ t = todo
      BY ClassParts, EmptySeq DEF Inv, Typed, TypeOK, TheFile
    <2>4. CASE ParseMethodsCount
      <3>1. stage' = "methods" /\ methods' = <<>>
        BY <2>2, <2>4 DEF ParseMethodsCount, Section, pools, Tracks
      <3>2. Len(<<>>) = 0
        BY EmptySeq
      <3> QED BY <3>1, <3>2 DEF MethodsWritten, AsWritten
    <2>5. CASE EndOfFile
      <3>1. stage = "methods" /\ stage' = "main" /\ methods' = methods /\ ~Looping
        BY <2>5 DEF EndOfFile, Section, pools
      <3>2. i = Len(pool) /\ i =< Len(ms) /\ count = Len(ms) /\ ~(i < count) /\ todo = 0
            /\ Len(ms) \in Nat /\ Len(pool) \in Nat
        BY <2>2, <2>3, <3>1, LenProperties DEF Tracks, AtMembers, Looping, Inv, Typed, TypeOK
      <3>3. Len(pool) = Len(ms)
        BY <3>2
      <3>4. \A k \in 1 .. Len(pool) : pool[k] = ms[k]
        BY <2>1, <2>3, <3>1, <3>2 DEF MethodsWritten, AsWritten
      <3>5. pool = ms
        BY <3>3, <3>4, SeqEqual
      <3> QED BY <2>1, <2>3, <3>1, <3>5 DEF MethodsWritten
    <2>6. CASE parseMP
      <3>1. /\ stage = "methods" /\ stage' = "methods" /\ todo = 0 /\ i < count /\ Reads
            /\ methods' = Append(methods, Member) /\ todo' = Short(7)
        BY <2>6 DEF parseMP
      <3>2. AtMembers(ms, pool, e)
        BY <2>2, <2>3, <3>1 DEF Tracks
      <3>3. /\ i \in 0 .. Len(ms) - 1 /\ Short(3) = ms[i + 1].name /\ Short(5) = ms[i + 1].type
            /\ Short(7) = Len(ms[i + 1].attributes)
        BY <3>1, <3>2, NextMember
      <3>4. i = Len(pool) /\ Len(pool) < Len(ms)
        <4>1. i = Len(pool) /\ Len(ms) \in Nat
          BY <3>2, LenProperties DEF AtMembers
        <4> QED BY <3>3, <4>1
      <3>5. PICK m \in AMember : m = Member
        BY <3>1, MemberRead
      <3>6. m.name = Short(3) /\ m.type = Short(5) /\ m.attributes = <<>>
        BY <3>5 DEF Member
      <3>7. AsWritten(ms, pool, 0)
        BY <2>1, <2>3, <3>1 DEF MethodsWritten
      <3>8. AsWritten(ms, Append(pool, m), Len(ms[Len(pool) + 1].attributes))
        BY <3>3, <3>4, <3>6, <3>7, MemberWritten
      <3>9. PICK longer, l : longer = methods' /\ l = todo' /\ AsWritten(ms, longer, l)
        BY <2>3, <3>1, <3>3, <3>4, <3>5, <3>8
      <3> QED BY <2>1, <2>3, <3>1, <3>9 DEF MethodsWritten, AsWritten
    <2>7. CASE parseMethodAttr
      <3>1. /\ stage = "methods" /\ stage' = "methods" /\ todo > 0 /\ Reads
            /\ methods' = WithAttribute(methods, MethodAttrLength) /\ todo' = todo - 1
        BY <2>7 DEF parseMethodAttr
      <3>2. AtMembers(ms, pool, e) /\ pool # <<>>
        BY <2>2, <2>3, <3>1 DEF Tracks, Inv, LoopsStarted
      <3>3. PICK h \in Nat : h = i /\ h = Len(pool) /\ h =< Len(ms)
        BY <3>2 DEF AtMembers, Inv, Typed, TypeOK
      <3>4. LET as == ms[i].attributes
                k  == Len(as) - todo
                a  == as[k + 1]
            IN  /\ as \in Seq(AnAttribute) /\ k \in 0 .. Len(as) - 1 /\ AttrLength = Len(a.info)
                /\ Short(1) = a.name /\ Bytes(7, Len(a.info)) = a.info
        BY <3>1, <3>2, NextAttribute
      <3>5. PICK as \in Seq(AnAttribute), l \in Nat : as = ms[h].attributes /\ l = Len(as)
        BY <3>3, <3>4, LenProperties
      <3>6. t > 0 /\ t =< l /\ l - t + 1 \in 1 .. l
        BY <2>3, <3>1, <3>3, <3>4, <3>5
      <3>7. PICK a \in AnAttribute : a = as[l - t + 1]
        BY <3>5, <3>6, ElementOfSeq
      <3>8. AttrLength = Len(a.info) /\ Short(1) = a.name /\ Bytes(7, Len(a.info)) = a.info
        BY <2>3, <3>3, <3>4, <3>5, <3>7
      <3>9. [name |-> Short(1), info |-> Bytes(7, MethodAttrLength)] = a
        <4>1. MethodAttrLength = Len(a.info)
          BY <3>1, <3>8 DEF AttrLength
        <4> QED BY <3>8, <4>1 DEF AnAttribute
      <3>10. methods' = [pool EXCEPT ![Len(pool)].attributes = Append(@, a)]
        BY <2>3, <3>1, <3>9 DEF WithAttribute
      <3>11. AsWritten(ms, pool, t)
        BY <2>1, <2>3, <3>1 DEF MethodsWritten
      <3>12. AsWritten(ms, [pool EXCEPT ![Len(pool)].attributes = Append(@, a)], t - 1)
        BY <3>2, <3>3, <3>5, <3>6, <3>7, <3>11, AttributeWritten
      <3>13. PICK longer, u : longer = methods' /\ u = todo' /\ AsWritten(ms, longer, u)
        BY <2>3, <3>1, <3>10, <3>12
      <3> QED BY <2>1, <2>3, <3>1, <3>13 DEF MethodsWritten, AsWritten
    <2>8. CASE ~ParseMethodsCount /\ ~EndOfFile /\ ~parseMP /\ ~parseMethodAttr
      <3>1. \/ stage' \notin {"methods", "main", "execute"}
            \/ /\ stage \in {"main", "execute"} /\ stage' \in {"main", "execute"}
               /\ methods' = methods
        BY <1>2, <2>8 DEF Next, ParseHeader, ParseClassInfo, ParseFieldsCount, Section,
             parseCPString, parseCPInteger, parseCPFloat, parseCPLong, parseCPDouble, parseCPRef,
             parseCPPair, ParseCP, UnknownTag, parseIPClass, parseFP, parseAttr, findMethodInPool,
             executeMethod, free_pools, ReadsAstray, Lost, pools
      <3> QED BY <2>1, <3>1 DEF MethodsWritten
    <2> QED BY <2>4, <2>5, <2>6, <2>7, <2>8
  <1> QED BY <1>1, <1>2 DEF Stopped

-----------------------------------------------------------------------------
(***************************************************************************)
(* A readable class is read to its end: each read is within the file, and  *)
(* each entry within its pool.                                             *)
(***************************************************************************)
LEMMA NeverAstray ==
  ASSUME Inv, Readable, Tracks, Contents, stage \in Parsing
  PROVE  Has(Needs) /\ Room
  <1>1. /\ i \in Nat /\ count \in Nat /\ todo \in Nat /\ Len(file) \in Nat /\ pos \in 0 .. Len(file)
        /\ MemberCap \in Nat
    BY TheFileTyped, CapAssumption DEF Inv, Typed, TypeOK, CapAssumption
  <1>2. PICK fs \in Seq(AMember), ms \in Seq(AMember), fm \in Seq(Nat), e \in Seq(Nat) :
          fs = class.fields /\ ms = class.methods /\ fm = FromMethods(class) /\ e = <<>>
    BY ClassParts, FileTyped, EmptySeq DEF Inv, Typed, TheFile
  <1>3. CASE stage = "header"
    BY <1>3, HeaderRead DEF Needs, Room
  <1>4. CASE stage = "constants" /\ i < count
    <2>1. PICK cs \in Seq(AConstant), n \in Nat : cs = class.constants /\ n = Len(cs)
      BY ClassParts DEF Inv, Typed, TheFile
    <2>2. PICK k \in 0 .. n - 1 :
            /\ Cardinality(Slots) = k /\ cs[k + 1].tag \in Tags
            /\ file[pos + 1] = cs[k + 1].tag /\ Has(Needs)
      BY <1>4, <2>1, NextConstant
    <2>3. PICK tag \in Tags : tag = cs[k + 1].tag
      BY <2>2
    <2>4. Holds(cs, k, tag)
      BY <1>4, <2>1, <2>2 DEF Contents, Parsed, Held
    <2>5. Len(cp[tag]) < Cap[tag]
      BY <2>1, <2>3, <2>4, HeldRoom
    <2> QED BY <1>4, <2>2, <2>3, <2>5 DEF Room
  <1>5. CASE stage = "constants" /\ ~(i < count)
    <2>1. todo = 0 /\ ~Looping
      BY <1>1, <1>5 DEF Tracks, Looping
    <2>2. Has(8)
      BY <1>5, <2>1, ClassInfoRead
    <2> QED BY <1>1, <1>5, <2>2 DEF Needs, Room
  <1>6. CASE stage = "interfaces"
    <2>1. Has(2) /\ ~(i < count)
      BY <1>6, FieldsCountRead DEF Tracks
    <2> QED BY <1>6, <2>1 DEF Needs, Room
  <1>7. CASE stage \in {"fields", "methods"} /\ todo > 0
    <2>1. CASE stage = "fields"
      <3>1. AtMembers(fs, fields, fm) /\ fields \in Seq(AMember)
        BY <1>2, <2>1 DEF Tracks, Inv, Typed, TypeOK
      <3>2. \A k \in DOMAIN fs : \A j \in DOMAIN fs[k].attributes :
              LET length == U4(Len(fs[k].attributes[j].info)) IN length[4] = length[1]
        BY <1>2 DEF Readable
      <3>3. Has(Needs)
        BY <1>7, <3>1, <3>2, NextAttribute
      <3> QED BY <1>7, <2>1, <3>3 DEF Room
    <2>2. CASE stage = "methods"
      <3>1. AtMembers(ms, methods, e) /\ methods \in Seq(AMember)
        BY <1>2, <2>2 DEF Tracks, Inv, Typed, TypeOK
      <3>2. Has(Needs)
        BY <1>7, <2>2, <3>1, NextAttribute
      <3> QED BY <1>7, <2>2, <3>2 DEF Room
    <2> QED BY <1>7, <2>1, <2>2
  <1>8. CASE stage = "fields" /\ todo = 0 /\ i < count
    <2>1. AtMembers(fs, fields, fm) /\ fields \in Seq(AMember)
      BY <1>2, <1>8 DEF Tracks, Inv, Typed, TypeOK
    <2>2. i \in 0 .. Len(fs) - 1 /\ Has(Needs)
      BY <1>8, <2>1, NextMember
    <2>3. Len(fields) = i /\ Len(fs) =< MemberCap /\ Len(fs) \in Nat
      BY <1>2, <2>1, LenProperties DEF AtMembers, Readable
    <2>4. Len(fields) < MemberCap
      BY <1>1, <2>2, <2>3
    <2> QED BY <1>8, <2>2, <2>4 DEF Room
  <1>9. CASE stage = "methods" /\ todo = 0 /\ i < count
    <2>1. AtMembers(ms, methods, e) /\ methods \in Seq(AMember)
      BY <1>2, <1>9 DEF Tracks, Inv, Typed, TypeOK
    <2>2. i \in 0 .. Len(ms) - 1 /\ Has(Needs)
      BY <1>9, <2>1, NextMember
    <2>3. Len(methods) = i /\ Len(ms) =< MemberCap /\ Len(ms) \in Nat
      BY <1>2, <2>1, LenProperties DEF AtMembers, Readable
    <2>4. Len(methods) < MemberCap
      BY <1>1, <2>2, <2>3
    <2> QED BY <1>9, <2>2, <2>4 DEF Room
  <1>10. CASE stage \in {"fields", "methods"} /\ todo = 0 /\ ~(i < count)
    <2>1. ~Looping
      BY <1>10 DEF Looping
    <2>2. stage = "fields" => Has(2) /\ Needs = 2
      BY <1>10, <2>1, MethodsCountRead DEF Needs
    <2>3. stage = "methods" => Has(0) /\ Needs = 0
      BY <1>1, <1>10, <2>1 DEF Needs, Has
    <2>4. Room
      BY <1>10 DEF Room
    <2> QED BY <1>10, <2>2, <2>3, <2>4
  <1> QED BY <1>1, <1>3, <1>4, <1>5, <1>6, <1>7, <1>8, <1>9, <1>10 DEF Parsing

LEMMA NoReadAstray ==
  ASSUME Inv, Readable, Tracks, Contents
  PROVE  ~ReadsAstray
  BY NeverAstray DEF ReadsAstray

-----------------------------------------------------------------------------
(***************************************************************************)
(* What main and executeMethod find is what the class has.                 *)
(***************************************************************************)
LEMMA Utf8IsFound ==
  ASSUME Inv, Readable, Contents, stage \in {"main", "execute"}, NEW index
  PROVE  findUTF8(index) = Utf8At(class, index)
  <1>1. CONSTANT_UTF8 \in Tags
    BY TagsAre
  <1>2. LET c == ConstantAt(class, index)
        IN  Find(CONSTANT_UTF8, index) = IF c.tag = CONSTANT_UTF8 THEN Value(c) ELSE NotFound(CONSTANT_UTF8)
    BY <1>1, ContentsFound
  <1>3. NotFound(CONSTANT_UTF8) = Null
    BY TagsAre DEF NotFound
  <1> QED BY <1>2, <1>3, ValueIs DEF findUTF8, Utf8At

\* The text of an index is one of the strings of the class, or null.
LEMMA Utf8Typed ==
  ASSUME Inv, NEW index, Utf8At(class, index) # Null
  PROVE  /\ Utf8At(class, index) \in Seq(Nat)
         /\ \E k \in DOMAIN class.constants :
              class.constants[k].tag = CONSTANT_UTF8 /\ class.constants[k].bytes = Utf8At(class, index)
  <1>1. PICK cs \in Seq(AConstant) : cs = class.constants
    BY ClassParts DEF Inv, Typed, TheFile
  <1>2. PICK c : c = ConstantAt(class, index) /\ c.tag = CONSTANT_UTF8 /\ Utf8At(class, index) = c.bytes
    BY DEF Utf8At
  <1> DEFINE at == {k \in DOMAIN class.constants : IndexIn(class.constants, k) = index}
  <1>3. at # {}
    BY <1>2, TagsAre DEF ConstantAt, Unused
  <1>4. PICK k \in at : c = cs[k]
    BY <1>1, <1>2, <1>3 DEF ConstantAt
  <1>5. cs[k] \in AConstant
    BY <1>1, LenProperties, ElementOfSeq
  <1>6. c.bytes \in Seq(Nat)
    BY <1>4, <1>5 DEF AConstant
  <1> QED BY <1>1, <1>2, <1>4, <1>6

Codes == {convertToCodeAttribute(a.info) : a \in AnAttribute}
StartupAttributes == IF Startup = 0 THEN <<>> ELSE class.methods[Startup].attributes

LEMMA CodesAre ==
  ASSUME NEW as \in Seq(AnAttribute)
  PROVE  /\ CodesOf(as) \in Seq(Codes) /\ CodesOf(<<>>) = <<>>
         /\ \A k \in 0 .. Len(as) - 1 :
              /\ CodesOf(Rest(as, k)) = CodeOf(as[k + 1]) \o CodesOf(Rest(as, k + 1))
              /\ CodeOf(as[k + 1]) \in Seq(Codes)
         /\ \A k \in 0 .. Len(as) : CodesOf(Rest(as, k)) \in Seq(Codes)
  <1>1. PICK F : F = [a \in AnAttribute |-> CodeOf(a)]
    OBVIOUS
  <1>2. ASSUME NEW a \in AnAttribute PROVE F[a] = CodeOf(a) /\ F[a] \in Seq(Codes)
    <2>1. PICK code \in Codes : code = convertToCodeAttribute(a.info)
      BY DEF Codes
    <2>2. <<code>> \in Seq(Codes) /\ <<>> \in Seq(Codes)
      BY EmptySeq
    <2> QED BY <1>1, <2>1, <2>2 DEF CodeOf
  <1>3. ASSUME NEW s \in Seq(AnAttribute) PROVE CodesOf(s) = FlattenMap(F, s)
    <2>1. \A k \in DOMAIN s : s[k] \in AnAttribute
      BY LenProperties, ElementOfSeq
    <2>2. [k \in DOMAIN s |-> CodeOf(s[k])] = [k \in DOMAIN s |-> F[s[k]]]
      BY <1>2, <2>1
    <2> QED BY <2>2 DEF CodesOf, FlattenMap
  <1>4. PICK n \in Nat : n = Len(as)
    BY LenProperties
  <1>5. \A k \in 0 .. n : Rest(as, k) \in Seq(AnAttribute)
    BY <1>4, RestProperties
  <1>6. /\ FlattenMap(F, as) \in Seq(Codes) /\ FlattenMap(F, <<>>) = <<>>
        /\ \A k \in 0 .. n - 1 :
             FlattenMap(F, Rest(as, k)) = F[as[k + 1]] \o FlattenMap(F, Rest(as, k + 1))
        /\ \A k \in 0 .. n : FlattenMap(F, Rest(as, k)) \in Seq(Codes)
    <2>1. PICK T : T = Codes
      OBVIOUS
    <2>2. \A a \in AnAttribute : F[a] \in Seq(T)
      BY <1>2, <2>1
    <2>3. /\ FlattenMap(F, as) \in Seq(T) /\ FlattenMap(F, <<>>) = <<>>
          /\ \A k \in 0 .. Len(as) - 1 :
               FlattenMap(F, Rest(as, k)) = F[as[k + 1]] \o FlattenMap(F, Rest(as, k + 1))
          /\ \A k \in 0 .. Len(as) : FlattenMap(F, Rest(as, k)) \in Seq(T)
      BY <2>2, FlattenMapRest
    <2> QED BY <1>4, <2>1, <2>3
  <1>7. CodesOf(as) \in Seq(Codes) /\ CodesOf(<<>>) = <<>>
    BY <1>3, <1>6, EmptySeq
  <1>8. ASSUME NEW k \in 0 .. n - 1
        PROVE  /\ CodesOf(Rest(as, k)) = CodeOf(as[k + 1]) \o CodesOf(Rest(as, k + 1))
               /\ CodeOf(as[k + 1]) \in Seq(Codes)
    <2>1. k \in 0 .. n /\ k + 1 \in 0 .. n /\ k + 1 \in 1 .. n
      OBVIOUS
    <2>2. F[as[k + 1]] = CodeOf(as[k + 1]) /\ F[as[k + 1]] \in Seq(Codes)
      BY <1>2, <1>4, <2>1, ElementOfSeq
    <2> QED BY <1>3, <1>5, <1>6, <2>1, <2>2
  <1>9. \A k \in 0 .. n : CodesOf(Rest(as, k)) \in Seq(Codes)
    BY <1>3, <1>5, <1>6
  <1> QED BY <1>4, <1>7, <1>8, <1>9

LEMMA StartupTyped ==
  ASSUME Inv
  PROVE  StartupAttributes \in Seq(AnAttribute) /\ Startup \in 0 .. Len(class.methods)
  <1>1. PICK ms \in Seq(AMember), n \in Nat : ms = class.methods /\ n = Len(ms)
    BY ClassParts, LenProperties DEF Inv, Typed, TheFile
  <1>2. PICK T : T = {k \in 1 .. n : Utf8At(class, ms[k].name) = InitName}
    OBVIOUS
  <1>3. Startup = IF T # {} THEN Min(T) ELSE 0
    BY <1>1, <1>2 DEF Startup, MethodNamed, SelectInSeq
  <1>4. Startup \in 0 .. n
    BY <1>2, <1>3, FirstOf
  <1>5. Startup # 0 => ms[Startup] \in AMember
    BY <1>1, <1>4, ElementOfSeq
  <1> QED BY <1>1, <1>4, <1>5, EmptySeq DEF StartupAttributes, AMember

LEMMA StartupStays ==
  ASSUME class' = class
  PROVE  /\ Startup' = Startup /\ StartupAttributes' = StartupAttributes
         /\ Readable' <=> Readable
         /\ OneCodeName' <=> OneCodeName
         /\ \A as : CodesOf(as)' = CodesOf(as)
  BY DEF Startup, StartupAttributes, Readable, TagCount, OneCodeName, CodesOf, CodeOf

LEMMA InitMethodsWritten == Init => MethodsWritten
  BY DEF Init, MethodsWritten

\* main finds what the class calls its first <init>.
LEMMA FoundAtIs ==
  ASSUME Inv, Readable, Contents, MethodsWritten, stage \in {"main", "execute"}
  PROVE  FoundAt = Startup
  <1>1. methods = class.methods
    BY DEF MethodsWritten
  <1>2. \A index : findUTF8(index) = Utf8At(class, index)
    BY Utf8IsFound
  <1>3. PICK ms \in Seq(AMember) : ms = methods /\ ms = class.methods
    BY <1>1 DEF Inv, Typed, TypeOK
  <1>4. {k \in 1 .. Len(ms) : findUTF8(ms[k].name) = InitName}
          = {k \in 1 .. Len(ms) : Utf8At(class, ms[k].name) = InitName}
    BY <1>2
  <1> QED BY <1>3, <1>4 DEF FoundAt, Startup, MethodNamed, SelectInSeq

\* A method without a name is one of the class.
LEMMA UnnamedIs ==
  ASSUME Inv, Readable, Contents, MethodsWritten, stage = "main", Unnamed # 0
  PROVE  \E k \in DOMAIN class.methods : Utf8At(class, class.methods[k].name) = Null
  <1>1. PICK ms \in Seq(AMember), n \in Nat :
          ms = methods /\ ms = class.methods /\ n = Len(ms) /\ DOMAIN ms = 1 .. n
    BY LenProperties DEF MethodsWritten, Inv, Typed, TypeOK
  <1>2. PICK T : T = {k \in 1 .. n : findUTF8(ms[k].name) = Null}
    OBVIOUS
  <1>3. Unnamed = IF T # {} THEN Min(T) ELSE 0
    BY <1>1, <1>2 DEF Unnamed, SelectInSeq
  <1>4. Unnamed \in T
    BY <1>2, <1>3, FirstOf
  <1>5. PICK k \in 1 .. n : findUTF8(ms[k].name) = Null
    BY <1>2, <1>4
  <1> QED BY <1>1, <1>5, Utf8IsFound

\* Where no other name begins with "Code", comparing four bytes is enough.
LEMMA CodeNameOnly ==
  ASSUME Inv, Readable, Contents, OneCodeName, stage = "execute", NEW index
  PROVE  findUTF8(index) # Null /\ IsPrefix(CodeName, findUTF8(index))
           <=> Utf8At(class, index) = CodeName
  <1>1. findUTF8(index) = Utf8At(class, index)
    BY Utf8IsFound
  <1>2. CASE Utf8At(class, index) = CodeName
    <2>1. CodeName \in Seq(Nat) /\ CodeName # Null
      BY NameAssumption, NullAssumption DEF NameAssumption, NullAssumption
    <2>2. IsPrefix(CodeName, CodeName)
      BY <2>1, LenProperties, SubSeqFull DEF IsPrefix
    <2> QED BY <1>1, <1>2, <2>1, <2>2
  <1>3. ASSUME findUTF8(index) # Null, IsPrefix(CodeName, findUTF8(index))
        PROVE  Utf8At(class, index) = CodeName
    BY <1>1, <1>3, Utf8Typed DEF OneCodeName
  <1> QED BY <1>2, <1>3

-----------------------------------------------------------------------------
(***************************************************************************)
(* What has run and what is left to run are the code of the first <init>.  *)
(***************************************************************************)
LeftToRun == Rest(StartupAttributes, i - 1)

Executed ==
  Readable /\ stage # "lost" =>
    /\ stage \in Parsing \cup {"main"} => ran = <<>>
    /\ stage = "execute" => init = Startup /\ i - 1 =< Len(StartupAttributes)
    /\ stage = "execute" /\ OneCodeName =>
         ran \in Seq(Codes) /\ ran \o CodesOf(LeftToRun) = CodesOf(StartupAttributes)
    /\ stage = "end" /\ OneCodeName => ran = CodesOf(StartupAttributes)

LEMMA InitExecuted == Init => Executed
  BY DEF Init, Executed, Parsing

LEMMA FindMethodExecutes ==
  ASSUME Inv, Readable, Contents, MethodsWritten, Executed, findMethodInPool, stage' # "lost"
  PROVE  Executed'
  <1>1. stage = "main" /\ stage' = "execute" /\ class' = class /\ init' = FoundAt /\ i' = 1 /\ ran' = ran
    BY DEF findMethodInPool, Lost, input
  <1>2. init' = Startup'
    BY <1>1, FoundAtIs, StartupStays
  <1>3. PICK as \in Seq(AnAttribute) : as = StartupAttributes
    BY StartupTyped
  <1>4. as = StartupAttributes' /\ LeftToRun' = as
    <2>1. i' - 1 = 0
      BY <1>1
    <2>2. as = StartupAttributes'
      BY <1>1, <1>3, StartupStays
    <2>3. LeftToRun' = Rest(as, 0)
      BY <2>1, <2>2 DEF LeftToRun
    <2> QED BY <2>2, <2>3, RestEnds
  <1>5. i' - 1 =< Len(StartupAttributes')
    BY <1>1, <1>4, LenProperties
  <1>6. ran' = <<>>
    BY <1>1 DEF Executed
  <1>7. ran' \in Seq(Codes)
    BY <1>6, EmptySeq
  <1>8. PICK codes \in Seq(Codes) : codes = CodesOf(as)
    BY CodesAre
  <1>9. CodesOf(LeftToRun)' = codes /\ CodesOf(StartupAttributes)' = codes
    BY <1>1, <1>4, <1>8, StartupStays DEF CodesOf, CodeOf
  <1>10. <<>> \o codes = codes
    BY ConcatEmptySeq
  <1> QED BY <1>1, <1>2, <1>5, <1>6, <1>7, <1>9, <1>10 DEF Executed, Parsing

\* In the loop of executeMethod the attributes are those of the class.
LEMMA AttributesAre ==
  ASSUME Inv, Readable, MethodsWritten, Executed, stage = "execute"
  PROVE  Attributes = StartupAttributes
  BY DEF Attributes, StartupAttributes, MethodsWritten, Executed

LEMMA ExecuteMethodExecutes ==
  ASSUME Inv, Readable, Contents, MethodsWritten, Executed, executeMethod, stage' # "lost"
  PROVE  Executed'
  <1>1. PICK as \in Seq(AnAttribute), n \in Nat :
          as = StartupAttributes /\ as = Attributes /\ n = Len(as)
    BY AttributesAre, StartupTyped, LenProperties DEF executeMethod
  <1>2. /\ stage = "execute" /\ stage' = "execute" /\ class' = class /\ init' = init /\ i' = i + 1
        /\ i =< n /\ i \in Nat /\ i >= 1
    BY <1>1 DEF executeMethod, Lost, input, Inv, Typed, TypeOK, LoopsStarted
  <1>3. PICK k \in 0 .. n - 1 : k = i - 1 /\ i = k + 1 /\ i' - 1 = k + 1
    BY <1>2
  <1>4. PICK attr \in AnAttribute : attr = as[k + 1] /\ attr = as[i]
    BY <1>1, <1>3, ElementOfSeq
  <1>5. ran' = IF findUTF8(attr.name) # Null /\ IsPrefix(CodeName, findUTF8(attr.name))
               THEN Append(ran, convertToCodeAttribute(attr.info)) ELSE ran
    BY <1>1, <1>2, <1>4 DEF executeMethod, Lost
  <1>6. init' = Startup' /\ StartupAttributes' = as /\ i' - 1 =< Len(StartupAttributes')
    BY <1>1, <1>2, <1>3, StartupStays DEF Executed
  <1>7. ASSUME OneCodeName
        PROVE  ran' \in Seq(Codes) /\ ran' \o CodesOf(Rest(as, k + 1)) = CodesOf(as)
    <2>1. PICK r \in Seq(Codes) : r = ran /\ r \o CodesOf(Rest(as, k)) = CodesOf(as)
      BY <1>1, <1>2, <1>3, <1>7 DEF Executed, LeftToRun
    <2>2. PICK one \in Seq(Codes), left \in Seq(Codes) :
            /\ one = CodeOf(attr) /\ left = CodesOf(Rest(as, k + 1))
            /\ CodesOf(Rest(as, k)) = one \o left
      <3>1. /\ CodesOf(Rest(as, k)) = CodeOf(as[k + 1]) \o CodesOf(Rest(as, k + 1))
            /\ CodeOf(as[k + 1]) \in Seq(Codes)
        BY <1>1, CodesAre
      <3>2. k + 1 \in 0 .. n
        OBVIOUS
      <3>3. CodesOf(Rest(as, k + 1)) \in Seq(Codes)
        BY <1>1, <3>2, CodesAre
      <3> QED BY <1>4, <3>1, <3>3
    <2>3. ran' = r \o one
      <3>1. findUTF8(attr.name) # Null /\ IsPrefix(CodeName, findUTF8(attr.name))
              <=> Utf8At(class, attr.name) = CodeName
        BY <1>2, <1>7, CodeNameOnly
      <3>2. CASE Utf8At(class, attr.name) = CodeName
        <4>1. PICK c \in Codes : c = convertToCodeAttribute(attr.info)
          BY DEF Codes
        <4>2. Append(r, c) = r \o <<c>>
          BY AppendIsConcat
        <4>3. one = <<c>> /\ ran' = Append(r, c)
          BY <1>5, <2>1, <2>2, <3>1, <3>2, <4>1 DEF CodeOf
        <4> QED BY <4>2, <4>3
      <3>3. CASE Utf8At(class, attr.name) # CodeName
        <4>1. one = <<>> /\ ran' = r
          BY <1>5, <2>1, <2>2, <3>1, <3>3 DEF CodeOf
        <4> QED BY <4>1, ConcatEmptySeq
      <3> QED BY <3>2, <3>3
    <2>4. r \o one \in Seq(Codes)
      BY ConcatProperties
    <2>5. (r \o one) \o left = r \o (one \o left)
      BY ConcatAssociative
    <2> QED BY <2>1, <2>2, <2>3, <2>4, <2>5
  <1>8. /\ LeftToRun' = Rest(as, k + 1) /\ (OneCodeName' <=> OneCodeName)
        /\ CodesOf(Rest(as, k + 1))' = CodesOf(Rest(as, k + 1)) /\ CodesOf(as)' = CodesOf(as)
    BY <1>2, <1>3, <1>6, StartupStays DEF LeftToRun, CodesOf, CodeOf
  <1>9. /\ CodesOf(LeftToRun)' = CodesOf(Rest(as, k + 1))
        /\ CodesOf(StartupAttributes)' = CodesOf(as)
    BY <1>2, <1>6, <1>8 DEF CodesOf, CodeOf
  <1> QED BY <1>2, <1>6, <1>7, <1>8, <1>9 DEF Executed, Parsing

LEMMA FreePoolsExecutes ==
  ASSUME Inv, Readable, MethodsWritten, Executed, free_pools
  PROVE  Executed'
  <1>1. PICK as \in Seq(AnAttribute), n \in Nat :
          as = StartupAttributes /\ as = Attributes /\ n = Len(as)
    BY AttributesAre, StartupTyped, LenProperties DEF free_pools
  <1>2. stage = "execute" /\ stage' = "end" /\ class' = class /\ ran' = ran /\ i > n /\ i \in Nat
    BY <1>1 DEF free_pools, input, Inv, Typed, TypeOK
  <1>3. i - 1 = n
    BY <1>1, <1>2 DEF Executed
  <1>4. CodesOf(LeftToRun) = <<>>
    <2>1. LeftToRun = <<>>
      BY <1>1, <1>3, RestEnds DEF LeftToRun
    <2> QED BY <1>1, <2>1, CodesAre
  <1>5. OneCodeName => ran = CodesOf(as)
    <2> SUFFICES ASSUME OneCodeName PROVE ran = CodesOf(as)
      OBVIOUS
    <2>1. PICK r \in Seq(Codes) : r = ran /\ r \o <<>> = CodesOf(as)
      BY <1>1, <1>2, <1>4 DEF Executed
    <2> QED BY <2>1, ConcatEmptySeq
  <1>6. StartupAttributes' = as /\ (OneCodeName' <=> OneCodeName) /\ CodesOf(as)' = CodesOf(as)
    BY <1>1, <1>2, StartupStays
  <1>7. CodesOf(StartupAttributes)' = CodesOf(as)
    BY <1>2, <1>6 DEF CodesOf, CodeOf
  <1> QED BY <1>2, <1>5, <1>6, <1>7 DEF Executed, Parsing

LEMMA NextExecuted ==
  Inv /\ Tracked /\ Contents /\ MethodsWritten /\ Executed /\ [Next \/ Stopped]_vars => Executed'
  <1> SUFFICES ASSUME Inv, Contents, MethodsWritten, Executed, [Next \/ Stopped]_vars,
                      Readable', stage' # "lost"
               PROVE  Executed'
    BY DEF Executed
  <1>1. CASE UNCHANGED vars
    <2>1. class' = class /\ stage' = stage /\ init' = init /\ i' = i /\ ran' = ran
      BY <1>1 DEF vars, input, pools
    <2>2. /\ LeftToRun' = LeftToRun /\ CodesOf(LeftToRun)' = CodesOf(LeftToRun)
          /\ CodesOf(StartupAttributes)' = CodesOf(StartupAttributes)
      BY <2>1, StartupStays DEF LeftToRun, CodesOf, CodeOf
    <2> QED BY <2>1, <2>2, StartupStays DEF Executed
  <1>2. CASE Next
    <2>1. Readable /\ stage # "lost" /\ class' = class
      BY <1>2, ClassStays DEF Readable, TagCount
    <2>2. CASE findMethodInPool \/ executeMethod \/ free_pools
      BY <2>1, <2>2, FindMethodExecutes, ExecuteMethodExecutes, FreePoolsExecutes
    <2>3. CASE ~findMethodInPool /\ ~executeMethod /\ ~free_pools
      <3>1. stage \in Parsing /\ stage' \in Parsing \cup {"main"} /\ ran' = ran
        BY <1>2, <2>3 DEF Next, ParseHeader, ParseClassInfo, ParseFieldsCount, ParseMethodsCount,
             EndOfFile, Section, parseCPString, parseCPInteger, parseCPFloat, parseCPLong,
             parseCPDouble, parseCPRef, parseCPPair, ParseCP, UnknownTag, parseIPClass, parseFP,
             parseAttr, parseMP, parseMethodAttr, ReadsAstray, Lost, Parsing
      <3> QED BY <2>1, <3>1 DEF Executed, Parsing
    <2> QED BY <2>2, <2>3
  <1> QED BY <1>1, <1>2 DEF Stopped

-----------------------------------------------------------------------------
(* For every readable class in which no other name begins with "Code":     *)
(* when the program ends, what has run is the code of each attribute       *)
(* "Code" of the first method <init>, in their order, and nothing else;    *)
(* nothing has run when there is no <init> (main.c:48-61,                  *)
(* bytecodes.c:843-913).                                                   *)
THEOREM PoolsRunWrittenCode == Spec => []RunsWrittenCode
  <1>1. Inv /\ Executed => RunsWrittenCode
    <2> SUFFICES ASSUME Inv, Executed, Readable, OneCodeName, stage = "end"
                 PROVE  ran = IF Startup = 0 THEN <<>> ELSE CodesOf(class.methods[Startup].attributes)
      BY DEF RunsWrittenCode
    <2>1. ran = CodesOf(StartupAttributes)
      BY DEF Executed
    <2>2. CodesOf(<<>>) = <<>>
      BY StartupTyped, CodesAre
    <2> QED BY <2>1, <2>2 DEF StartupAttributes
  <1> QED BY <1>1, InitInv, NextInv, InitTracked, NextTracked, InitContents, NextContents,
             InitMethodsWritten, NextMethodsWritten, InitExecuted, NextExecuted, PTL DEF Spec

-----------------------------------------------------------------------------
(***************************************************************************)
(* The steps that lose the program.                                        *)
(***************************************************************************)
Unfit ==
  \/ \E k \in DOMAIN class.methods : Utf8At(class, class.methods[k].name) = Null
  \/ /\ Startup # 0
     /\ \E k \in DOMAIN class.methods[Startup].attributes :
          ~IsCodeLike(class.methods[Startup].attributes[k].info)

LostIsUnfit == Readable /\ stage = "lost" => Unfit

LEMMA LosingIsUnfit ==
  ASSUME Inv, Tracked, Contents, MethodsWritten, Executed, Readable, Next, stage' = "lost"
  PROVE  Unfit
  <1>1. stage # "lost" /\ Tracks
    BY ClassStays DEF Tracked
  <1>2. ~ReadsAstray
    BY <1>1, NoReadAstray
  <1>3. \/ findMethodInPool /\ Crashes
        \/ /\ stage = "execute" /\ i =< Len(Attributes)
           /\ ~IsCodeLike(Attributes[i].info)
    <2>1. CASE findMethodInPool
      BY <2>1 DEF findMethodInPool
    <2>2. CASE executeMethod
      BY <2>2 DEF executeMethod
    <2>3. CASE free_pools
      BY <2>3 DEF free_pools
    <2>4. CASE ~findMethodInPool /\ ~executeMethod /\ ~free_pools
      BY <1>1, <1>2, <2>4 DEF Next, ParseHeader, ParseClassInfo, ParseFieldsCount, ParseMethodsCount,
           EndOfFile, Section, parseCPString, parseCPInteger, parseCPFloat, parseCPLong,
           parseCPDouble, parseCPRef, parseCPPair, ParseCP, UnknownTag, parseIPClass, parseFP,
           parseAttr, parseMP, parseMethodAttr
    <2> QED BY <2>1, <2>2, <2>3, <2>4
  <1>4. CASE findMethodInPool /\ Crashes
    <2>1. \E k \in DOMAIN class.methods : Utf8At(class, class.methods[k].name) = Null
      BY <1>4, UnnamedIs DEF findMethodInPool, Crashes
    <2> QED BY <2>1 DEF Unfit
  <1>5. CASE stage = "execute" /\ i =< Len(Attributes) /\ ~IsCodeLike(Attributes[i].info)
    <2>1. PICK as \in Seq(AnAttribute), n \in Nat :
            as = StartupAttributes /\ as = Attributes /\ n = Len(as) /\ DOMAIN as = 1 .. n
      BY <1>5, AttributesAre, StartupTyped, LenProperties
    <2>2. i \in 1 .. n /\ ~IsCodeLike(as[i].info)
      BY <1>5, <2>1 DEF Inv, Typed, TypeOK, LoopsStarted
    <2>3. Startup # 0
      BY <2>1, <2>2, EmptySeq DEF StartupAttributes
    <2>4. as = class.methods[Startup].attributes
      BY <2>1, <2>3 DEF StartupAttributes
    <2> QED BY <2>1, <2>2, <2>3, <2>4 DEF Unfit
  <1> QED BY <1>3, <1>4, <1>5

LEMMA NextLost ==
  Inv /\ Tracked /\ Contents /\ MethodsWritten /\ Executed /\ LostIsUnfit /\ [Next \/ Stopped]_vars
    => LostIsUnfit'
  <1> SUFFICES ASSUME Inv, Tracked, Contents, MethodsWritten, Executed, LostIsUnfit,
                      [Next \/ Stopped]_vars, Readable', stage' = "lost"
               PROVE  Unfit'
    BY DEF LostIsUnfit
  <1>1. class' = class /\ (stage = "lost" \/ Next)
    BY ClassStays DEF Stopped, vars, input
  <1>2. Readable
    BY <1>1, StartupStays
  <1>3. Unfit
    BY <1>1, <1>2, LosingIsUnfit DEF LostIsUnfit
  <1>4. \A index : Utf8At(class, index)' = Utf8At(class, index)
    BY <1>1
  <1> QED BY <1>1, <1>3, <1>4, StartupStays DEF Unfit

-----------------------------------------------------------------------------
(* For every readable class: the parser never reads past its file or past  *)
(* a pool, and the program is lost only when a method has no name or the   *)
(* first <init> an attribute from which no code attribute can be read      *)
(* (bytecodes.c:859-879).                                                  *)
THEOREM PoolsLostByLimitsOnly == Spec => []LostByLimitsOnly
  <1>1. Init => LostIsUnfit
    BY DEF Init, LostIsUnfit
  <1>2. LostIsUnfit => LostByLimitsOnly
    BY DEF LostIsUnfit, LostByLimitsOnly, Unfit
  <1> QED BY <1>1, <1>2, InitInv, NextInv, InitTracked, NextTracked, InitContents, NextContents,
             InitMethodsWritten, NextMethodsWritten, InitExecuted, NextExecuted, NextLost, PTL DEF Spec
=============================================================================
