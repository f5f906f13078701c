-------------------------- MODULE DexParserProofs ---------------------------
(***************************************************************************)
(* Theorems about DexParser, for every set of dex files that the Dalvik    *)
(* tools write: whatever their strings, tables, classes and code are, the  *)
(* parsers stay in their bytes and fill the tables with what they say.     *)
(*                                                                         *)
(* A file is a row of items, and an item lies in it at the offset that     *)
(* another item names (Lies); what the parsers read at the offset is the   *)
(* item.  The position in the class data is the place of the member behind *)
(* the ones that were read.                                                *)
(***************************************************************************)
EXTENDS DexParser, SequenceFacts

-----------------------------------------------------------------------------
(***************************************************************************)
(* Reading numbers where they lie.                                         *)
(***************************************************************************)
LEMMA U2Is ==
  ASSUME NEW n \in Nat
  PROVE  /\ U2(n) \in Seq(Nat) /\ Len(U2(n)) = 2
         /\ U2(n)[1] = n % 256 /\ U2(n)[2] = n \div 256
         /\ n = U2(n)[1] + 256 * U2(n)[2]
  <1>1. n % 256 \in Nat /\ n \div 256 \in Nat /\ n = (n % 256) + 256 * (n \div 256)
    OBVIOUS
  <1> QED BY <1>1 DEF U2


LEMMA U4Is ==
  ASSUME NEW n \in Nat
  PROVE  /\ U4(n) \in Seq(Nat) /\ Len(U4(n)) = 4
         /\ n % 65536 \in Nat /\ n \div 65536 \in Nat
         /\ n = (n % 65536) + 65536 * (n \div 65536)
  <1>1. n % 65536 \in Nat /\ n \div 65536 \in Nat /\ n = (n % 65536) + 65536 * (n \div 65536)
    OBVIOUS
  <1>2. /\ U2(n % 65536) \in Seq(Nat) /\ Len(U2(n % 65536)) = 2
        /\ U2(n \div 65536) \in Seq(Nat) /\ Len(U2(n \div 65536)) = 2
    BY <1>1, U2Is
  <1>3. PICK s \in Seq(Nat), t \in Seq(Nat) :
          s = U2(n % 65536) /\ t = U2(n \div 65536) /\ Len(s) = 2 /\ Len(t) = 2
    BY ONLY <1>2
  <1>4. s \o t \in Seq(Nat) /\ Len(s \o t) = 4
    <2>1. Len(s) = 2 /\ Len(t) = 2
      BY ONLY <1>3
    <2>2. s \o t \in Seq(Nat) /\ Len(s \o t) = Len(s) + Len(t)
      BY ONLY ConcatProperties, s \in Seq(Nat), t \in Seq(Nat)
    <2> QED BY ONLY <2>1, <2>2
  <1>5. U4(n) = s \o t
    BY <1>3 DEF U4
  <1> QED BY <1>1, <1>4, <1>5

LEMMA ReadU2 ==
  ASSUME NEW o, NEW n \in Nat, Lies(buf, o, U2(n))
  PROVE  u2(o) = n
  <1>1. buf[o + 1] = U2(n)[1] /\ buf[o + 2] = U2(n)[2]
    <2>1. 1 \in 1 .. Len(U2(n)) /\ 2 \in 1 .. Len(U2(n))
      <3>1. Len(U2(n)) = 2
        BY U2Is
      <3> QED BY ONLY <3>1
    <2> QED BY <2>1 DEF Lies
  <1> QED BY <1>1, U2Is DEF u2

LEMMA ReadU4 ==
  ASSUME buf \in Seq(Nat), NEW o, NEW n \in Nat, Lies(buf, o, U4(n))
  PROVE  u4(o) = n
  <1>1. PICK a \in Nat, b \in Nat : a = n % 65536 /\ b = n \div 65536 /\ n = a + 65536 * b
    BY U4Is
  <1>2. U2(a) \in Seq(Nat) /\ U2(b) \in Seq(Nat) /\ Len(U2(a)) = 2
    BY U2Is
  <1>3. Lies(buf, o, U2(a)) /\ Lies(buf, o + 2, U2(b))
    <2>1. U4(n) = U2(a) \o U2(b)
      BY <1>1 DEF U4
    <2> QED BY <1>2, <2>1, LiesConcat
  <1>4. u2(o) = a /\ u2(o + 2) = b
    BY <1>3, ReadU2
  <1> QED BY <1>1, <1>4 DEF u4

\* Entries of one length: where each lies.
LEMMA EqualEntries ==
  ASSUME NEW ss \in Seq(Seq(Nat)), NEW c \in Nat, \A k \in 1 .. Len(ss) : Len(ss[k]) = c
  PROVE  /\ FlattenSeq(ss) \in Seq(Nat) /\ Len(FlattenSeq(ss)) = c * Len(ss)
         /\ \A f \in Seq(Nat) : \A o : Lies(f, o, FlattenSeq(ss)) =>
              \A k \in 1 .. Len(ss) : Lies(f, o + c * (k - 1), ss[k])
  <1>1. Len(ss) \in Nat
    BY LenProperties
  <1>2. Upto(ss, Len(ss)) = c * Len(ss)
    <2>1. \A k \in 0 .. Len(ss) : Upto(ss, k) = c * k
      BY UptoEqual
    <2> QED BY <1>1, <2>1
  <1>3. ASSUME NEW f \in Seq(Nat), NEW o, Lies(f, o, FlattenSeq(ss)), NEW k \in 1 .. Len(ss)
        PROVE  Lies(f, o + c * (k - 1), ss[k])
    <2>1. Upto(ss, k - 1) = c * (k - 1)
      <3>1. k - 1 \in 0 .. Len(ss)
        BY <1>1
      <3> QED BY <3>1, UptoEqual
    <2> QED BY <1>3, <2>1, LiesFlatten
  <1> QED BY <1>2, <1>3, UptoSteps, FlattenTyped

LEMMA U2sAre ==
  ASSUME NEW s \in Seq(Nat)
  PROVE  /\ U2s(s) \in Seq(Nat) /\ Len(U2s(s)) = 2 * Len(s)
         /\ \A f \in Seq(Nat) : \A o : Lies(f, o, U2s(s)) =>
              \A k \in 1 .. Len(s) : Lies(f, o + 2 * (k - 1), U2(s[k]))
  <1>1. PICK n \in Nat : n = Len(s) /\ DOMAIN s = 1 .. n
    BY LenProperties
  <1>2. PICK ss : ss = [k \in 1 .. n |-> U2(s[k])]
    OBVIOUS
  <1>3. \A k \in 1 .. n : ss[k] = U2(s[k]) /\ ss[k] \in Seq(Nat) /\ Len(ss[k]) = 2
    <2> TAKE k \in 1 .. n
    <2>1. PICK x \in Nat : x = s[k]
      BY <1>1, ElementOfSeq
    <2>2. ss[k] = U2(x)
      BY <1>2, <2>1
    <2>3. U2(x) \in Seq(Nat) /\ Len(U2(x)) = 2
      BY U2Is
    <2> QED BY ONLY <2>1, <2>2, <2>3
  <1>4. ss \in Seq(Seq(Nat)) /\ Len(ss) = n
    <2>1. ss = [k \in 1 .. n |-> ss[k]]
      BY <1>2
    <2> QED BY ONLY <1>3, <2>1, n \in Nat, FunctionIsSeq
  <1>5. U2s(s) = FlattenSeq(ss)
    BY <1>1, <1>2 DEF U2s
  <1>6. \A k \in 1 .. Len(ss) : Len(ss[k]) = 2
    BY <1>3, <1>4
  <1>7. /\ FlattenSeq(ss) \in Seq(Nat) /\ Len(FlattenSeq(ss)) = 2 * Len(ss)
        /\ \A f \in Seq(Nat) : \A o : Lies(f, o, FlattenSeq(ss)) =>
             \A k \in 1 .. Len(ss) : Lies(f, o + 2 * (k - 1), ss[k])
    BY ONLY <1>4, <1>6, EqualEntries, 2 \in Nat
  <1>8. \A k \in 1 .. n : ss[k] = U2(s[k])
    BY <1>3
  <1> QED BY ONLY <1>1, <1>4, <1>5, <1>7, <1>8

LEMMA ReadU2s ==
  ASSUME buf \in Seq(Nat), NEW o, NEW s \in Seq(Nat), Lies(buf, o, U2s(s))
  PROVE  [k \in 1 .. Len(s) |-> u2(o + 2 * (k - 1))] = s
  <1>1. Len(s) \in Nat /\ s = [k \in 1 .. Len(s) |-> s[k]]
    BY LenProperties
  <1>2. ASSUME NEW k \in 1 .. Len(s) PROVE u2(o + 2 * (k - 1)) = s[k]
    <2>1. s[k] \in Nat
      BY ElementOfSeq
    <2>2. Lies(buf, o + 2 * (k - 1), U2(s[k]))
      BY U2sAre
    <2> QED BY <2>1, <2>2, ReadU2
  <1> QED BY <1>1, <1>2

-----------------------------------------------------------------------------
(***************************************************************************)
(* Numbers of seven bits to a byte.                                        *)
(***************************************************************************)
LEMMA Digit ==
  ASSUME NEW n \in Nat
  PROVE  \E a \in 0 .. 127, p \in Nat : a = n % 128 /\ p = n \div 128 /\ n = a + 128 * p
  <1>1. n % 128 \in 0 .. 127 /\ n \div 128 \in Nat /\ n = (n % 128) + 128 * (n \div 128)
    OBVIOUS
  <1> QED BY ONLY <1>1

LEMMA CountIs ==
  ASSUME NEW n \in Count
  PROVE  n \in Nat /\ n < 2147483648
  <1>1. n \in Nat /\ n =< MaxCount
    BY DEF Count
  <1> QED BY <1>1, SMT DEF MaxCount

LEMMA CountNat ==
  ASSUME NEW n \in Count
  PROVE  n \in Nat /\ \A m \in Nat : m =< n => m \in Count
  <1>1. MaxCount \in Nat
    BY SMT DEF MaxCount
  <1>2. n \in Nat /\ n =< MaxCount
    BY DEF Count
  <1>3. ASSUME NEW m \in Nat, m =< n PROVE m \in 0 .. MaxCount
    BY <1>1, <1>2, <1>3
  <1> QED BY <1>2, <1>3 DEF Count

LEMMA Digits ==
  ASSUME NEW n \in Count
  PROVE  /\ n % 128 \in 0 .. 127 /\ (n \div 128) % 128 \in 0 .. 127
         /\ (n \div 16384) % 128 \in 0 .. 127 /\ (n \div 2097152) % 128 \in 0 .. 127
         /\ n \div 268435456 \in 0 .. 127
         /\ n = (n % 128) + 128 * (((n \div 128) % 128) + 128 * (((n \div 16384) % 128)
                + 128 * (((n \div 2097152) % 128) + 128 * (n \div 268435456))))
  <1>1. n \in Nat /\ n < 2147483648
    BY CountIs
  <1>2. PICK a \in 0 .. 127, p \in Nat : a = n % 128 /\ p = n \div 128 /\ n = a + 128 * p
    BY <1>1, Digit
  <1>3. PICK b \in 0 .. 127, q \in Nat : b = p % 128 /\ q = p \div 128 /\ p = b + 128 * q
    BY Digit
  <1>4. PICK c \in 0 .. 127, r \in Nat : c = q % 128 /\ r = q \div 128 /\ q = c + 128 * r
    BY Digit
  <1>5. PICK d \in 0 .. 127, e \in Nat : d = r % 128 /\ e = r \div 128 /\ r = d + 128 * e
    BY Digit
  <1>6. n \div 16384 = q
    BY ONLY <1>1, <1>2, <1>3, q \in Nat, p \in Nat, a \in 0 .. 127, b \in 0 .. 127, SMT
  <1>7. n \div 2097152 = r
    BY ONLY <1>1, <1>2, <1>3, <1>4, q \in Nat, p \in Nat, r \in Nat,
            a \in 0 .. 127, b \in 0 .. 127, c \in 0 .. 127, SMT
  <1>8. n \div 268435456 = e
    BY ONLY <1>1, <1>2, <1>3, <1>4, <1>5, q \in Nat, p \in Nat, r \in Nat, e \in Nat,
            a \in 0 .. 127, b \in 0 .. 127, c \in 0 .. 127, d \in 0 .. 127, SMT
  <1>9. n = a + 128 * (b + 128 * (c + 128 * (d + 128 * e)))
    BY ONLY <1>2, <1>3, <1>4, <1>5
  <1>10. e \in 0 .. 127
    BY ONLY <1>1, <1>9, e \in Nat, SMT,
            a \in 0 .. 127, b \in 0 .. 127, c \in 0 .. 127, d \in 0 .. 127
  <1> QED BY ONLY <1>2, <1>3, <1>4, <1>5, <1>6, <1>7, <1>8, <1>9, <1>10, SMT

\* The bytes of a number: the last one is below 128, the others are not.
IsUleb(n, s, k, b) ==
  /\ s \in Seq(Nat) /\ Len(s) = k
  /\ \A j \in 1 .. k - 1 : s[j] = 128 + b[j]
  /\ s[k] = b[k]
  /\ \A j \in k + 1 .. 5 : b[j] = 0
  /\ n = b[1] + 128 * (b[2] + 128 * (b[3] + 128 * (b[4] + 128 * b[5])))

LEMMA UlebIs ==
  ASSUME NEW n \in Count
  PROVE  \E k \in 1 .. 5, b \in [1 .. 5 -> 0 .. 127] : IsUleb(n, Uleb(n), k, b)
  <1>0. n \in Nat
    BY CountNat
  <1>a. PICK a : n % 128 = a
    OBVIOUS
  <1>b. PICK b : (n \div 128) % 128 = b
    OBVIOUS
  <1>c. PICK c : (n \div 16384) % 128 = c
    BY SMT
  <1>d. PICK d : (n \div 2097152) % 128 = d
    BY SMT
  <1>e. PICK e : n \div 268435456 = e
    BY SMT
  <1>1. /\ a \in 0 .. 127 /\ b \in 0 .. 127 /\ c \in 0 .. 127 /\ d \in 0 .. 127 /\ e \in 0 .. 127
        /\ n = a + 128 * (b + 128 * (c + 128 * (d + 128 * e)))
    BY ONLY <1>a, <1>b, <1>c, <1>d, <1>e, Digits, n \in Count, SMT
  <1>2. PICK ds \in [1 .. 5 -> 0 .. 127] :
          ds[1] = a /\ ds[2] = b /\ ds[3] = c /\ ds[4] = d /\ ds[5] = e
    <2>1. <<a, b, c, d, e>> \in [1 .. 5 -> 0 .. 127]
      BY <1>1
    <2> QED BY <2>1
  <1>3. n = ds[1] + 128 * (ds[2] + 128 * (ds[3] + 128 * (ds[4] + 128 * ds[5])))
    BY <1>1, <1>2, SMT
  <1>4. Low(n) = 128 + a /\ Low(n \div 128) = 128 + b /\ Low(n \div 16384) = 128 + c
        /\ Low(n \div 2097152) = 128 + d
    BY <1>a, <1>b, <1>c, <1>d, SMT DEF Low
  <1>5. ASSUME n < 128 PROVE \E k \in 1 .. 5 : IsUleb(n, Uleb(n), k, ds)
    <2>1. n = a /\ b = 0 /\ c = 0 /\ d = 0 /\ e = 0
      BY <1>0, <1>1, <1>5, SMT
    <2>2. Uleb(n) = <<a>>
      BY <1>5, <2>1, SMT DEF Uleb
    <2>3. IsUleb(n, Uleb(n), 1, ds)
      <3>1. Uleb(n) \in Seq(Nat) /\ Len(Uleb(n)) = 1
        <4>1. a \in Nat /\ b \in Nat /\ c \in Nat /\ d \in Nat /\ e \in Nat
          BY <1>1
        <4> QED BY ONLY <2>2, <4>1
      <3>2. \A j \in 1 .. 1 - 1 : FALSE
        OBVIOUS
      <3>3. \A j \in 1 + 1 .. 5 : j = 2 \/ j = 3 \/ j = 4 \/ j = 5
        OBVIOUS
      <3>4. \A j \in 1 .. 1 - 1 : Uleb(n)[j] = 128 + ds[j]
        BY ONLY <1>2, <2>1, <2>2, <3>2
      <3>5. Uleb(n)[1] = ds[1]
        BY ONLY <1>2, <2>1, <2>2
      <3>6. \A j \in 1 + 1 .. 5 : ds[j] = 0
        BY ONLY <1>2, <2>1, <2>2, <3>3
      <3> QED BY ONLY <1>3, <3>1, <3>4, <3>5, <3>6 DEF IsUleb
    <2> QED BY ONLY <2>3, 1 \in 1 .. 5
  <1>6. ASSUME n < 16384 /\ ~(n < 128) PROVE \E k \in 1 .. 5 : IsUleb(n, Uleb(n), k, ds)
    <2>1. n \div 128 = b /\ c = 0 /\ d = 0 /\ e = 0
      BY <1>0, <1>1, <1>b, <1>6, SMT
    <2>2. Uleb(n) = <<128 + a, b>>
      BY <1>4, <1>6, <2>1, SMT DEF Uleb
    <2>3. IsUleb(n, Uleb(n), 2, ds)
      <3>1. Uleb(n) \in Seq(Nat) /\ Len(Uleb(n)) = 2
        <4>1. a \in Nat /\ b \in Nat /\ c \in Nat /\ d \in Nat /\ e \in Nat
          BY <1>1
        <4> QED BY ONLY <2>2, <4>1
      <3>2. \A j \in 1 .. 2 - 1 : j = 1
        OBVIOUS
      <3>3. \A j \in 2 + 1 .. 5 : j = 3 \/ j = 4 \/ j = 5
        OBVIOUS
      <3>4. \A j \in 1 .. 2 - 1 : Uleb(n)[j] = 128 + ds[j]
        BY ONLY <1>2, <2>1, <2>2, <3>2
      <3>5. Uleb(n)[2] = ds[2]
        BY ONLY <1>2, <2>1, <2>2
      <3>6. \A j \in 2 + 1 .. 5 : ds[j] = 0
        BY ONLY <1>2, <2>1, <2>2, <3>3
      <3> QED BY ONLY <1>3, <3>1, <3>4, <3>5, <3>6 DEF IsUleb
    <2> QED BY ONLY <2>3, 2 \in 1 .. 5
  <1>7. ASSUME n < 2097152 /\ ~(n < 16384) PROVE \E k \in 1 .. 5 : IsUleb(n, Uleb(n), k, ds)
    <2>1. n \div 16384 = c /\ d = 0 /\ e = 0
      BY <1>0, <1>1, <1>c, <1>7, SMT
    <2>2. Uleb(n) = <<128 + a, 128 + b, c>>
      BY <1>0, <1>4, <1>7, <2>1, SMT DEF Uleb
    <2>3. IsUleb(n, Uleb(n), 3, ds)
      <3>1. Uleb(n) \in Seq(Nat) /\ Len(Uleb(n)) = 3
        <4>1. a \in Nat /\ b \in Nat /\ c \in Nat /\ d \in Nat /\ e \in Nat
          BY <1>1
        <4> QED BY ONLY <2>2, <4>1
      <3>2. \A j \in 1 .. 3 - 1 : j = 1 \/ j = 2
        OBVIOUS
      <3>3. \A j \in 3 + 1 .. 5 : j = 4 \/ j = 5
        OBVIOUS
      <3>4. \A j \in 1 .. 3 - 1 : Uleb(n)[j] = 128 + ds[j]
        BY ONLY <1>2, <2>1, <2>2, <3>2
      <3>5. Uleb(n)[3] = ds[3]
        BY ONLY <1>2, <2>1, <2>2
      <3>6. \A j \in 3 + 1 .. 5 : ds[j] = 0
        BY ONLY <1>2, <2>1, <2>2, <3>3
      <3> QED BY ONLY <1>3, <3>1, <3>4, <3>5, <3>6 DEF IsUleb
    <2> QED BY ONLY <2>3, 3 \in 1 .. 5
  <1>8. ASSUME n < 268435456 /\ ~(n < 2097152) PROVE \E k \in 1 .. 5 : IsUleb(n, Uleb(n), k, ds)
    <2>1. n \div 2097152 = d /\ e = 0
      BY <1>0, <1>1, <1>d, <1>8, SMT
    <2>2. Uleb(n) = <<128 + a, 128 + b, 128 + c, d>>
      BY <1>0, <1>4, <1>8, <2>1, SMT DEF Uleb
    <2>3. IsUleb(n, Uleb(n), 4, ds)
      <3>1. Uleb(n) \in Seq(Nat) /\ Len(Uleb(n)) = 4
        <4>1. a \in Nat /\ b \in Nat /\ c \in Nat /\ d \in Nat /\ e \in Nat
          BY <1>1
        <4> QED BY ONLY <2>2, <4>1
      <3>2. \A j \in 1 .. 4 - 1 : j = 1 \/ j = 2 \/ j = 3
        OBVIOUS
      <3>3. \A j \in 4 + 1 .. 5 : j = 5
        OBVIOUS
      <3>4. \A j \in 1 .. 4 - 1 : Uleb(n)[j] = 128 + ds[j]
        BY ONLY <1>2, <2>1, <2>2, <3>2
      <3>5. Uleb(n)[4] = ds[4]
        BY ONLY <1>2, <2>1, <2>2
      <3>6. \A j \in 4 + 1 .. 5 : ds[j] = 0
        BY ONLY <1>2, <2>1, <2>2, <3>3
      <3> QED BY ONLY <1>3, <3>1, <3>4, <3>5, <3>6 DEF IsUleb
    <2> QED BY ONLY <2>3, 4 \in 1 .. 5
  <1>9. ASSUME ~(n < 268435456) PROVE \E k \in 1 .. 5 : IsUleb(n, Uleb(n), k, ds)
    <2>2. Uleb(n) = <<128 + a, 128 + b, 128 + c, 128 + d, e>>
      BY <1>0, <1>e, <1>4, <1>9, SMT DEF Uleb
    <2>3. IsUleb(n, Uleb(n), 5, ds)
      <3>1. Uleb(n) \in Seq(Nat) /\ Len(Uleb(n)) = 5
        <4>1. a \in Nat /\ b \in Nat /\ c \in Nat /\ d \in Nat /\ e \in Nat
          BY <1>1
        <4> QED BY ONLY <2>2, <4>1
      <3>2. \A j \in 1 .. 5 - 1 : j = 1 \/ j = 2 \/ j = 3 \/ j = 4
        OBVIOUS
      <3>3. \A j \in 5 + 1 .. 5 : FALSE
        OBVIOUS
      <3>4. \A j \in 1 .. 5 - 1 : Uleb(n)[j] = 128 + ds[j]
        BY ONLY <1>2, <2>2, <3>2
      <3>5. Uleb(n)[5] = ds[5]
        BY ONLY <1>2, <2>2
      <3>6. \A j \in 5 + 1 .. 5 : ds[j] = 0
        BY ONLY <1>2, <2>2, <3>3
      <3> QED BY ONLY <1>3, <3>1, <3>4, <3>5, <3>6 DEF IsUleb
    <2> QED BY ONLY <2>3, 5 \in 1 .. 5
  <1>10. \E k \in 1 .. 5 : IsUleb(n, Uleb(n), k, ds)
    BY ONLY <1>5, <1>6, <1>7, <1>8, <1>9, SMT
  <1> QED BY ONLY <1>10, ds \in [1 .. 5 -> 0 .. 127]

LEMMA ReadUleb ==
  ASSUME buf \in Seq(Nat), NEW o, NEW n \in Count, Lies(buf, o, Uleb(n))
  PROVE  /\ Len(Uleb(n)) \in 1 .. 5 /\ Uleb(n) \in Seq(Nat)
         /\ UlebSize(o) = Len(Uleb(n)) /\ get_uleb128_len(o) = n
         /\ PastUleb(o) = o + Len(Uleb(n))
  <1>0. PICK k \in 1 .. 5, b \in [1 .. 5 -> 0 .. 127] : IsUleb(n, Uleb(n), k, b)
    BY UlebIs
  <1>1. Uleb(n) \in Seq(Nat) /\ Len(Uleb(n)) = k
    BY <1>0 DEF IsUleb
  <1>2. o \in Nat /\ o + k =< Len(buf) /\ Len(buf) \in Nat /\ \A j \in 1 .. k : buf[o + j] = Uleb(n)[j]
    BY <1>1, LenProperties DEF Lies
  <1>b. \A j \in 1 .. 5 : b[j] \in 0 .. 127
    OBVIOUS
  <1>3. ASSUME NEW j \in 1 .. k - 1 PROVE buf[o + j] = 128 + b[j] /\ b[j] \in 0 .. 127
    <2>1. j \in 1 .. k /\ j \in 1 .. 5
      OBVIOUS
    <2>2. Uleb(n)[j] = 128 + b[j]
      BY <1>0 DEF IsUleb
    <2> QED BY ONLY <1>2, <1>b, <2>1, <2>2
  <1>4. buf[o + k] = b[k] /\ b[k] \in 0 .. 127
    <2>1. k \in 1 .. k
      OBVIOUS
    <2>2. Uleb(n)[k] = b[k]
      BY <1>0 DEF IsUleb
    <2> QED BY ONLY <1>2, <1>b, <2>1, <2>2, k \in 1 .. 5
  <1>5. k \in UlebEnds(o) /\ \A j \in UlebEnds(o) : k =< j
    <2>1. k \in UlebEnds(o)
      <3>1. buf[o + k] < 128 /\ In(o, k)
        <4>1. In(o, k)
          BY ONLY <1>2 DEF In
        <4> QED BY ONLY <1>4, <4>1
      <3> QED BY ONLY <3>1, k \in 1 .. 5 DEF UlebEnds
    <2>2. ASSUME NEW j \in UlebEnds(o), ~(k =< j) PROVE FALSE
      <3>1. j \in 1 .. k - 1 /\ buf[o + j] < 128
        BY ONLY <2>2, k \in 1 .. 5 DEF UlebEnds
      <3>2. buf[o + j] = 128 + b[j] /\ b[j] \in 0 .. 127
        BY ONLY <1>3, <3>1
      <3> QED BY ONLY <3>1, <3>2
    <2> QED BY <2>1, <2>2
  <1>6. UlebSize(o) = k
    <2>1. UlebEnds(o) \subseteq Nat
      BY DEF UlebEnds
    <2>2. PICK m : m = Min(UlebEnds(o)) /\ m \in UlebEnds(o) /\ k =< m /\ m =< k
      <3>1. Min(UlebEnds(o)) \in UlebEnds(o) /\ \A y \in UlebEnds(o) : Min(UlebEnds(o)) =< y
        BY <1>5, <2>1, MinOfNats
      <3> QED BY <1>5, <3>1
    <2> QED BY <2>1, <2>2 DEF UlebSize
  <1>7. PastUleb(o) = o + k
    BY <1>5, <1>6 DEF PastUleb
  <1>8. ASSUME NEW j \in 1 .. 5 PROVE (IF j =< k THEN buf[o + j] % 128 ELSE 0) = b[j]
    <2>1. CASE j < k
      <3>1. buf[o + j] = 128 + b[j] /\ b[j] \in 0 .. 127
        BY <1>3, <2>1
      <3> QED BY ONLY <2>1, <3>1, k \in 1 .. 5, j \in 1 .. 5
    <2>2. CASE j = k
      BY ONLY <1>4, <2>2, k \in 1 .. 5
    <2>3. CASE j > k
      BY <1>0, <2>3 DEF IsUleb
    <2> QED BY <2>1, <2>2, <2>3
  <1>9. get_uleb128_len(o) = b[1] + 128 * (b[2] + 128 * (b[3] + 128 * (b[4] + 128 * b[5])))
    BY <1>6, <1>8 DEF get_uleb128_len
  <1>10. get_uleb128_len(o) = n
    BY <1>0, <1>9 DEF IsUleb
  <1> QED BY <1>1, <1>6, <1>7, <1>10

-----------------------------------------------------------------------------
(***************************************************************************)
(* Reading items where they lie.                                           *)
(***************************************************************************)
LEMMA BytesAre ==
  ASSUME buf \in Seq(Nat), NEW o, NEW s \in Seq(Nat), Lies(buf, o, s)
  PROVE  Bytes(o, Len(s)) = s /\ In(o, Len(s))
  <1>1. o \in Nat /\ o + Len(s) =< Len(buf) /\ Len(s) \in Nat /\ Len(buf) \in Nat
        /\ \A j \in 1 .. Len(s) : buf[o + j] = s[j]
    BY LenProperties DEF Lies
  <1>2. \A j \in o + 1 .. o + Len(s) : buf[j] \in Nat
    <2> TAKE j \in o + 1 .. o + Len(s)
    <2>1. j \in 1 .. Len(buf)
      BY <1>1
    <2> QED BY <2>1, ElementOfSeq
  <1>3. PICK x : x = SubSeq(buf, o + 1, o + Len(s))
    OBVIOUS
  <1>4. /\ x \in Seq(Nat)
        /\ Len(x) = IF o + 1 =< o + Len(s) THEN (o + Len(s)) - (o + 1) + 1 ELSE 0
        /\ \A i \in 1 .. (o + Len(s)) - (o + 1) + 1 : x[i] = buf[(o + 1) + i - 1]
    <2>1. o + 1 \in Int /\ o + Len(s) \in Int
      BY <1>1
    <2> QED BY <1>2, <1>3, <2>1, SubSeqProperties
  <1>5. Len(x) = Len(s)
    BY ONLY <1>1, <1>4
  <1>6. \A i \in 1 .. Len(x) : x[i] = s[i]
    <2> TAKE i \in 1 .. Len(x)
    <2>1. (o + Len(s)) - (o + 1) + 1 = Len(s) /\ (o + 1) + i - 1 = o + i /\ i \in 1 .. Len(s)
      BY ONLY <1>1, <1>5, i \in 1 .. Len(x)
    <2> QED BY <1>1, <1>4, <2>1
  <1>7. x = s
    BY <1>4, <1>5, <1>6, SeqEqual
  <1> QED BY <1>1, <1>3, <1>7 DEF Bytes, In

\* The first of what lies at an offset.
LEMMA LiesPrefix ==
  ASSUME NEW f \in Seq(Nat), NEW o, NEW s \in Seq(Nat), NEW n \in 0 .. Len(s), Lies(f, o, s)
  PROVE  Lies(f, o, SubSeq(s, 1, n)) /\ SubSeq(s, 1, n) \in Seq(Nat) /\ Len(SubSeq(s, 1, n)) = n
  <1>1. Len(s) \in Nat /\ Len(f) \in Nat /\ n \in Nat
    BY LenProperties
  <1>2. \A i \in 1 .. n : s[i] \in Nat
    BY <1>1, ElementOfSeq
  <1>3. PICK x : x = SubSeq(s, 1, n)
    OBVIOUS
  <1>4. x \in Seq(Nat) /\ Len(x) = n /\ \A i \in 1 .. n : x[i] = s[i]
    <2>1. /\ x \in Seq(Nat) /\ Len(x) = IF 1 =< n THEN n - 1 + 1 ELSE 0
          /\ \A i \in 1 .. n - 1 + 1 : x[i] = s[1 + i - 1]
      BY <1>1, <1>2, <1>3, SubSeqProperties
    <2> QED BY <1>1, <2>1
  <1>5. \A j \in 1 .. n : f[o + j] = s[j]
    BY <1>1 DEF Lies
  <1>6. o \in Nat /\ o + n =< Len(f)
    BY <1>1 DEF Lies
  <1> QED BY <1>3, <1>4, <1>5, <1>6 DEF Lies

LEMMA AStringIs ==
  ASSUME NEW s \in AString
  PROVE  /\ s.chars \in Count /\ s.chars \in 0 .. Len(s.bytes) /\ s.bytes \in Seq(Nat)
         /\ StringItem(s) \in Seq(Nat) /\ StringItem(s) # <<>>
         /\ Kept(s) \in Seq(Nat) /\ Len(Kept(s)) = s.chars
  <1>1. s.chars \in Count /\ s.bytes \in Seq(1 .. 255) /\ s.chars =< Len(s.bytes)
    BY DEF AString
  <1>2. s.bytes \in Seq(Nat)
    <2>1. 1 .. 255 \subseteq Nat
      OBVIOUS
    <2> QED BY <1>1, <2>1, SeqMonotonic
  <1>3. s.chars \in 0 .. Len(s.bytes)
    BY <1>1, <1>2, CountNat, LenProperties
  <1>4. Uleb(s.chars) \in Seq(Nat)
    <2>1. PICK k \in 1 .. 5, b \in [1 .. 5 -> 0 .. 127] : IsUleb(s.chars, Uleb(s.chars), k, b)
      BY <1>1, UlebIs
    <2> QED BY <2>1 DEF IsUleb
  <1>5. PICK u \in Seq(Nat), v \in Seq(Nat), w \in Seq(Nat) :
          u = Uleb(s.chars) /\ v = s.bytes /\ w = <<0>> /\ Len(w) = 1
    <2>1. <<0>> \in Seq(Nat) /\ Len(<<0>>) = 1
      OBVIOUS
    <2> QED BY <1>2, <1>4, <2>1
  <1>6. (u \o v) \o w \in Seq(Nat) /\ (u \o v) \o w # <<>>
    <2>1. PICK x \in Seq(Nat) : x = u \o v
      BY ConcatProperties
    <2>2. x \o w \in Seq(Nat) /\ Len(x \o w) = Len(x) + Len(w) /\ Len(x) \in Nat
      BY ConcatProperties, LenProperties
    <2>3. Len(x \o w) # 0
      BY ONLY <1>5, <2>2
    <2> QED BY <2>1, <2>2, <2>3, EmptySeq
  <1>7. StringItem(s) = (u \o v) \o w
    BY <1>5 DEF StringItem
  <1>8. Kept(s) \in Seq(Nat) /\ Len(Kept(s)) = s.chars
    <2>1. Lies(s.bytes, 0, s.bytes)
      BY <1>2, LiesAll
    <2> QED BY <1>2, <1>3, <2>1, LiesPrefix DEF Kept
  <1> QED BY <1>1, <1>2, <1>3, <1>6, <1>7, <1>8

LEMMA ReadString ==
  ASSUME buf \in Seq(Nat), NEW o, NEW s \in AString, Lies(buf, o, StringItem(s))
  PROVE  get_uleb128_len(o) = s.chars /\ Bytes(o + UlebSize(o), s.chars) = Kept(s)
  <1>1. /\ s.chars \in Count /\ s.chars \in 0 .. Len(s.bytes) /\ s.bytes \in Seq(Nat)
        /\ Kept(s) \in Seq(Nat) /\ Len(Kept(s)) = s.chars
    BY AStringIs
  <1>2. PICK k \in 1 .. 5, b \in [1 .. 5 -> 0 .. 127] : IsUleb(s.chars, Uleb(s.chars), k, b)
    BY <1>1, UlebIs
  <1>3. PICK u \in Seq(Nat), w \in Seq(Nat) : u = Uleb(s.chars) /\ w = <<0>>
    <2>1. <<0>> \in Seq(Nat) /\ Uleb(s.chars) \in Seq(Nat)
      BY <1>2 DEF IsUleb
    <2> QED BY <2>1
  <1>4. StringItem(s) = (u \o s.bytes) \o w
    BY <1>3 DEF StringItem
  <1>5. u \o s.bytes \in Seq(Nat)
    BY <1>1, ConcatProperties
  <1>6. Lies(buf, o, u \o s.bytes)
    BY <1>4, <1>5, LiesConcat
  <1>7. Lies(buf, o, u) /\ Lies(buf, o + Len(u), s.bytes)
    BY <1>1, <1>6, LiesConcat
  <1>8. get_uleb128_len(o) = s.chars /\ UlebSize(o) = Len(u)
    BY <1>1, <1>3, <1>7, ReadUleb
  <1>9. Lies(buf, o + Len(u), Kept(s))
    BY <1>1, <1>7, LiesPrefix DEF Kept
  <1>10. Bytes(o + Len(u), s.chars) = Kept(s)
    BY <1>1, <1>9, BytesAre
  <1> QED BY <1>8, <1>10

LEMMA Concat2 ==
  ASSUME NEW a \in Seq(Nat), NEW b \in Seq(Nat)
  PROVE  /\ a \o b \in Seq(Nat) /\ Len(a \o b) = Len(a) + Len(b)
         /\ Len(a) \in Nat /\ Len(b) \in Nat
         /\ \A f \in Seq(Nat) : \A o : Lies(f, o, a \o b) => Lies(f, o, a) /\ Lies(f, o + Len(a), b)
  BY ConcatProperties, LenProperties, LiesConcat

LEMMA Concat3 ==
  ASSUME NEW a \in Seq(Nat), NEW b \in Seq(Nat), NEW c \in Seq(Nat)
  PROVE  /\ a \o b \o c \in Seq(Nat) /\ Len(a \o b \o c) = Len(a) + Len(b) + Len(c)
         /\ Len(a) \in Nat /\ Len(b) \in Nat /\ Len(c) \in Nat
         /\ \A f \in Seq(Nat) : \A o : Lies(f, o, a \o b \o c) =>
              /\ Lies(f, o, a) /\ Lies(f, o + Len(a), b)
              /\ Lies(f, o + (Len(a) + Len(b)), c)
  <1>1. PICK x \in Seq(Nat) : x = a \o b /\ Len(x) = Len(a) + Len(b)
    BY Concat2
  <1>2. /\ x \o c \in Seq(Nat) /\ Len(x \o c) = Len(x) + Len(c)
        /\ \A f \in Seq(Nat) : \A o : Lies(f, o, x \o c) => Lies(f, o, x) /\ Lies(f, o + Len(x), c)
    BY Concat2
  <1> QED BY <1>1, <1>2, Concat2

LEMMA Concat4 ==
  ASSUME NEW a \in Seq(Nat), NEW b \in Seq(Nat), NEW c \in Seq(Nat), NEW d \in Seq(Nat)
  PROVE  /\ a \o b \o c \o d \in Seq(Nat)
         /\ Len(a \o b \o c \o d) = Len(a) + Len(b) + Len(c) + Len(d)
         /\ Len(a) \in Nat /\ Len(b) \in Nat /\ Len(c) \in Nat /\ Len(d) \in Nat
         /\ \A f \in Seq(Nat) : \A o : Lies(f, o, a \o b \o c \o d) =>
              /\ Lies(f, o, a) /\ Lies(f, o + Len(a), b)
              /\ Lies(f, o + (Len(a) + Len(b)), c) /\ Lies(f, o + (Len(a) + Len(b) + Len(c)), d)
  <1>1. PICK x \in Seq(Nat) : x = a \o b \o c /\ Len(x) = Len(a) + Len(b) + Len(c)
    <2>1. a \o b \o c \in Seq(Nat) /\ Len(a \o b \o c) = Len(a) + Len(b) + Len(c)
      BY Concat3
    <2> QED BY ONLY <2>1
  <1>2. /\ x \o d \in Seq(Nat) /\ Len(x \o d) = Len(x) + Len(d)
        /\ \A f \in Seq(Nat) : \A o : Lies(f, o, x \o d) => Lies(f, o, x) /\ Lies(f, o + Len(x), d)
    BY Concat2
  <1> QED BY <1>1, <1>2, Concat3, LenProperties

-----------------------------------------------------------------------------
(***************************************************************************)
(* The entries of the tables and the lists of types.                       *)
(***************************************************************************)
\* A table of entries of one length.
LEMMA Entries ==
  ASSUME NEW n \in Nat, NEW c \in Nat, NEW ss, ss = [k \in 1 .. n |-> ss[k]],
         \A k \in 1 .. n : ss[k] \in Seq(Nat) /\ Len(ss[k]) = c
  PROVE  /\ FlattenSeq(ss) \in Seq(Nat) /\ Len(FlattenSeq(ss)) = c * n
         /\ \A f \in Seq(Nat) : \A o : Lies(f, o, FlattenSeq(ss)) =>
              \A k \in 1 .. n : Lies(f, o + c * (k - 1), ss[k])
  <1>1. ss \in Seq(Seq(Nat)) /\ Len(ss) = n
    BY FunctionIsSeq
  <1>2. \A k \in 1 .. Len(ss) : Len(ss[k]) = c
    BY <1>1
  <1>3. /\ FlattenSeq(ss) \in Seq(Nat) /\ Len(FlattenSeq(ss)) = c * Len(ss)
        /\ \A f \in Seq(Nat) : \A o : Lies(f, o, FlattenSeq(ss)) =>
             \A k \in 1 .. Len(ss) : Lies(f, o + c * (k - 1), ss[k])
    BY ONLY <1>1, <1>2, EqualEntries, c \in Nat
  <1> QED BY ONLY <1>1, <1>3

LEMMA IdEntryIs ==
  ASSUME NEW m \in AnId
  PROVE  /\ m.class \in Nat /\ m.type \in Nat /\ m.name \in Nat
         /\ IdEntry(m) \in Seq(Nat) /\ Len(IdEntry(m)) = 8
  <1>1. m.class \in Nat /\ m.type \in Nat /\ m.name \in Nat
    BY CountNat DEF AnId, Short
  <1>2. PICK a \in Seq(Nat), b \in Seq(Nat), c \in Seq(Nat) :
          /\ a = U2(m.class) /\ b = U2(m.type) /\ c = U4(m.name)
          /\ Len(a) = 2 /\ Len(b) = 2 /\ Len(c) = 4
    <2>1. U2(m.class) \in Seq(Nat) /\ Len(U2(m.class)) = 2
      BY <1>1, U2Is
    <2>2. U2(m.type) \in Seq(Nat) /\ Len(U2(m.type)) = 2
      BY <1>1, U2Is
    <2>3. U4(m.name) \in Seq(Nat) /\ Len(U4(m.name)) = 4
      BY <1>1, U4Is
    <2> QED BY ONLY <2>1, <2>2, <2>3
  <1>3. Len(a) = 2 /\ Len(b) = 2 /\ Len(c) = 4
    BY ONLY <1>2
  <1>4. a \o b \o c \in Seq(Nat) /\ Len(a \o b \o c) = Len(a) + Len(b) + Len(c)
    BY Concat3
  <1>5. Len(a \o b \o c) = 8
    BY ONLY <1>3, <1>4
  <1> QED BY <1>1, <1>2, <1>4, <1>5 DEF IdEntry

LEMMA ReadId ==
  ASSUME buf \in Seq(Nat), NEW o, NEW m \in AnId, Lies(buf, o, IdEntry(m))
  PROVE  MemberId(o) = m
  <1>1. m.class \in Nat /\ m.type \in Nat /\ m.name \in Nat
    BY IdEntryIs
  <1>2. PICK a \in Seq(Nat), b \in Seq(Nat), c \in Seq(Nat) :
          /\ a = U2(m.class) /\ b = U2(m.type) /\ c = U4(m.name)
          /\ Len(a) = 2 /\ Len(b) = 2 /\ Len(c) = 4
    <2>1. U2(m.class) \in Seq(Nat) /\ Len(U2(m.class)) = 2
      BY <1>1, U2Is
    <2>2. U2(m.type) \in Seq(Nat) /\ Len(U2(m.type)) = 2
      BY <1>1, U2Is
    <2>3. U4(m.name) \in Seq(Nat) /\ Len(U4(m.name)) = 4
      BY <1>1, U4Is
    <2> QED BY ONLY <2>1, <2>2, <2>3
  <1>3. Len(a) = 2 /\ Len(b) = 2
    BY ONLY <1>2
  <1>4. Lies(buf, o, a \o b \o c)
    BY <1>2 DEF IdEntry
  <1>5. Lies(buf, o, a) /\ Lies(buf, o + Len(a), b) /\ Lies(buf, o + (Len(a) + Len(b)), c)
    BY <1>4, Concat3
  <1>6. Lies(buf, o + 2, b) /\ Lies(buf, o + 4, c)
    BY <1>3, <1>5
  <1>7. u2(o) = m.class /\ u2(o + 2) = m.type /\ u4(o + 4) = m.name
    BY <1>1, <1>2, <1>5, <1>6, ReadU2, ReadU4
  <1>8. m = [class |-> m.class, type |-> m.type, name |-> m.name]
    BY DEF AnId
  <1> QED BY <1>7, <1>8 DEF MemberId

LEMMA TypeListIs ==
  ASSUME NEW ts \in Seq(Short)
  PROVE  /\ TypeList(ts) \in Seq(Nat) /\ (TypeList(ts) = <<>> <=> ts = <<>>)
         /\ ts \in Seq(Nat)
         /\ ts # <<>> => TypeList(ts) = U4(Len(ts)) \o U2s(ts)
  <1>1. ts \in Seq(Nat) /\ Len(ts) \in Nat
    <2>1. Short \subseteq Nat
      BY DEF Short
    <2> QED BY <2>1, SeqMonotonic, LenProperties
  <1>2. U4(Len(ts)) \in Seq(Nat) /\ Len(U4(Len(ts))) = 4 /\ U2s(ts) \in Seq(Nat)
    BY <1>1, U4Is, U2sAre
  <1>3. PICK a \in Seq(Nat), b \in Seq(Nat) : a = U4(Len(ts)) /\ b = U2s(ts) /\ Len(a) = 4
    BY <1>2
  <1>4. a \o b \in Seq(Nat) /\ Len(a \o b) = Len(a) + Len(b) /\ Len(b) \in Nat
    BY Concat2
  <1>5. Len(a \o b) # 0
    BY ONLY <1>3, <1>4
  <1>6. a \o b # <<>> /\ <<>> \in Seq(Nat)
    BY <1>5, EmptySeq
  <1> QED BY <1>1, <1>3, <1>4, <1>6 DEF TypeList

LEMMA ReadTypeList ==
  ASSUME buf \in Seq(Nat), NEW o, NEW ts \in Seq(Short), ts # <<>>, Lies(buf, o, TypeList(ts))
  PROVE  TypeListAt(o) = ts
  <1>1. ts \in Seq(Nat) /\ Len(ts) \in Nat /\ TypeList(ts) = U4(Len(ts)) \o U2s(ts)
    BY TypeListIs, LenProperties
  <1>2. U4(Len(ts)) \in Seq(Nat) /\ Len(U4(Len(ts))) = 4 /\ U2s(ts) \in Seq(Nat)
    BY <1>1, U4Is, U2sAre
  <1>3. Lies(buf, o, U4(Len(ts))) /\ Lies(buf, o + 4, U2s(ts))
    BY <1>1, <1>2, LiesConcat
  <1>4. u4(o) = Len(ts)
    BY <1>1, <1>3, ReadU4
  <1>5. [k \in 1 .. Len(ts) |-> u2((o + 4) + 2 * (k - 1))] = ts
    BY <1>1, <1>3, ReadU2s
  <1> QED BY <1>4, <1>5 DEF TypeListAt

\* Twelve bytes of three numbers.
LEMMA ThreeU4 ==
  ASSUME NEW x \in Nat, NEW y \in Nat, NEW z \in Nat
  PROVE  /\ U4(x) \o U4(y) \o U4(z) \in Seq(Nat) /\ Len(U4(x) \o U4(y) \o U4(z)) = 12
         /\ \A f \in Seq(Nat) : \A o : Lies(f, o, U4(x) \o U4(y) \o U4(z)) =>
              Lies(f, o, U4(x)) /\ Lies(f, o + 4, U4(y)) /\ Lies(f, o + 8, U4(z))
  <1>1. PICK a \in Seq(Nat), b \in Seq(Nat), c \in Seq(Nat) :
          /\ a = U4(x) /\ b = U4(y) /\ c = U4(z) /\ Len(a) = 4 /\ Len(b) = 4 /\ Len(c) = 4
    <2>1. U4(x) \in Seq(Nat) /\ Len(U4(x)) = 4
      BY U4Is
    <2>2. U4(y) \in Seq(Nat) /\ Len(U4(y)) = 4
      BY U4Is
    <2>3. U4(z) \in Seq(Nat) /\ Len(U4(z)) = 4
      BY U4Is
    <2> QED BY ONLY <2>1, <2>2, <2>3
  <1>2. /\ a \o b \o c \in Seq(Nat) /\ Len(a \o b \o c) = Len(a) + Len(b) + Len(c)
        /\ \A f \in Seq(Nat) : \A o : Lies(f, o, a \o b \o c) =>
              /\ Lies(f, o, a) /\ Lies(f, o + Len(a), b)
              /\ Lies(f, o + (Len(a) + Len(b)), c)
    BY Concat3
  <1>3. Len(a) = 4 /\ Len(a) + Len(b) = 8 /\ Len(a) + Len(b) + Len(c) = 12
    BY ONLY <1>1
  <1>4. a = U4(x) /\ b = U4(y) /\ c = U4(z)
    BY ONLY <1>1
  <1> QED BY ONLY <1>2, <1>3, <1>4

LEMMA MapItemIs ==
  ASSUME NEW x \in Nat, NEW y \in Nat, NEW z \in Nat
  PROVE  /\ MapItem(x, y, z) \in Seq(Nat) /\ Len(MapItem(x, y, z)) = 12
         /\ \A f \in Seq(Nat) : \A o : Lies(f, o, MapItem(x, y, z)) =>
              Lies(f, o, U2(x)) /\ Lies(f, o + 8, U4(z))
  <1>1. PICK a \in Seq(Nat), b \in Seq(Nat), c \in Seq(Nat), d \in Seq(Nat) :
          /\ a = U2(x) /\ b = U2(0) /\ c = U4(y) /\ d = U4(z)
          /\ Len(a) = 2 /\ Len(b) = 2 /\ Len(c) = 4 /\ Len(d) = 4
    <2>1. U2(x) \in Seq(Nat) /\ Len(U2(x)) = 2
      BY U2Is
    <2>2. U2(0) \in Seq(Nat) /\ Len(U2(0)) = 2
      BY U2Is
    <2>3. U4(y) \in Seq(Nat) /\ Len(U4(y)) = 4
      BY U4Is
    <2>4. U4(z) \in Seq(Nat) /\ Len(U4(z)) = 4
      BY U4Is
    <2> QED BY ONLY <2>1, <2>2, <2>3, <2>4
  <1>2. /\ a \o b \o c \o d \in Seq(Nat)
        /\ Len(a \o b \o c \o d) = Len(a) + Len(b) + Len(c) + Len(d)
        /\ \A f \in Seq(Nat) : \A o : Lies(f, o, a \o b \o c \o d) =>
              Lies(f, o, a) /\ Lies(f, o + (Len(a) + Len(b) + Len(c)), d)
    BY Concat4
  <1>3. Len(a) + Len(b) + Len(c) = 8 /\ Len(a) + Len(b) + Len(c) + Len(d) = 12
    <2>1. Len(a) = 2 /\ Len(b) = 2 /\ Len(c) = 4 /\ Len(d) = 4
      BY ONLY <1>1
    <2> QED BY ONLY <2>1
  <1>4. a = U2(x) /\ d = U4(z) /\ MapItem(x, y, z) = a \o b \o c \o d
    BY <1>1 DEF MapItem
  <1> QED BY ONLY <1>2, <1>3, <1>4

LEMMA ClassNumbers ==
  ASSUME NEW x \in Nat, NEW y \in Nat, NEW z \in Nat
  PROVE  LET s == U4(x) \o U4(1) \o U4(y) \o U4(0) \o U4(0) \o U4(0) \o U4(z) \o U4(0)
         IN  /\ s \in Seq(Nat) /\ Len(s) = 32
             /\ \A f \in Seq(Nat) : \A o : Lies(f, o, s) =>
                  Lies(f, o, U4(x)) /\ Lies(f, o + 8, U4(y)) /\ Lies(f, o + 24, U4(z))
  <1>1. PICK a \in Seq(Nat), b \in Seq(Nat), c \in Seq(Nat), d \in Seq(Nat), e \in Seq(Nat) :
          /\ a = U4(x) /\ b = U4(1) /\ c = U4(y) /\ d = U4(0) /\ e = U4(z)
          /\ Len(a) = 4 /\ Len(b) = 4 /\ Len(c) = 4 /\ Len(d) = 4 /\ Len(e) = 4
    <2>1. U4(x) \in Seq(Nat) /\ Len(U4(x)) = 4
      BY U4Is
    <2>2. U4(1) \in Seq(Nat) /\ Len(U4(1)) = 4
      BY U4Is
    <2>3. U4(y) \in Seq(Nat) /\ Len(U4(y)) = 4
      BY U4Is
    <2>4. U4(0) \in Seq(Nat) /\ Len(U4(0)) = 4
      BY U4Is
    <2>5. U4(z) \in Seq(Nat) /\ Len(U4(z)) = 4
      BY U4Is
    <2> QED BY ONLY <2>1, <2>2, <2>3, <2>4, <2>5
  <1>2. PICK p \in Seq(Nat) :
          /\ p = a \o b \o c \o d /\ Len(p) = 16
          /\ \A f \in Seq(Nat) : \A o : Lies(f, o, p) => Lies(f, o, a) /\ Lies(f, o + 8, c)
    <2>1. /\ a \o b \o c \o d \in Seq(Nat)
          /\ Len(a \o b \o c \o d) = Len(a) + Len(b) + Len(c) + Len(d)
          /\ \A f \in Seq(Nat) : \A o : Lies(f, o, a \o b \o c \o d) =>
                Lies(f, o, a) /\ Lies(f, o + (Len(a) + Len(b)), c)
      BY Concat4
    <2>2. Len(a) + Len(b) = 8 /\ Len(a) + Len(b) + Len(c) + Len(d) = 16
      <3>1. Len(a) = 4 /\ Len(b) = 4 /\ Len(c) = 4 /\ Len(d) = 4
        BY ONLY <1>1
      <3> QED BY ONLY <3>1
    <2> QED BY ONLY <2>1, <2>2
  <1>3. PICK q \in Seq(Nat) :
          /\ q = p \o d \o d \o e /\ Len(q) = 28
          /\ \A f \in Seq(Nat) : \A o : Lies(f, o, q) => Lies(f, o, p) /\ Lies(f, o + 24, e)
    <2>1. /\ p \o d \o d \o e \in Seq(Nat)
          /\ Len(p \o d \o d \o e) = Len(p) + Len(d) + Len(d) + Len(e)
          /\ \A f \in Seq(Nat) : \A o : Lies(f, o, p \o d \o d \o e) =>
                Lies(f, o, p) /\ Lies(f, o + (Len(p) + Len(d) + Len(d)), e)
      BY Concat4
    <2>2. Len(p) + Len(d) + Len(d) = 24 /\ Len(p) + Len(d) + Len(d) + Len(e) = 28
      <3>1. Len(p) = 16 /\ Len(d) = 4 /\ Len(e) = 4
        BY ONLY <1>1, <1>2
      <3> QED BY ONLY <3>1
    <2> QED BY ONLY <2>1, <2>2
  <1>4. /\ q \o d \in Seq(Nat) /\ Len(q \o d) = 32
        /\ \A f \in Seq(Nat) : \A o : Lies(f, o, q \o d) => Lies(f, o, q)
    <2>1. /\ q \o d \in Seq(Nat) /\ Len(q \o d) = Len(q) + Len(d)
          /\ \A f \in Seq(Nat) : \A o : Lies(f, o, q \o d) => Lies(f, o, q)
      BY Concat2
    <2>2. Len(q) + Len(d) = 32
      <3>1. Len(q) = 28 /\ Len(d) = 4
        BY ONLY <1>1, <1>3
      <3> QED BY ONLY <3>1
    <2> QED BY ONLY <2>1, <2>2
  <1>5. q \o d = U4(x) \o U4(1) \o U4(y) \o U4(0) \o U4(0) \o U4(0) \o U4(z) \o U4(0)
    BY <1>1, <1>2, <1>3
  <1>6. \A f \in Seq(Nat) : \A o : Lies(f, o, q \o d) =>
          Lies(f, o, a) /\ Lies(f, o + 8, c) /\ Lies(f, o + 24, e)
    BY ONLY <1>2, <1>3, <1>4
  <1>7. a = U4(x) /\ c = U4(y) /\ e = U4(z)
    BY ONLY <1>1
  <1> QED BY ONLY <1>4, <1>5, <1>6, <1>7

LEMMA CodeItemIs ==
  ASSUME NEW m, m.code # Null, m.code \in ACode
  PROVE  /\ CodeItem(m) \in Seq(Nat) /\ CodeItem(m) # <<>>
         /\ m.code.registers \in Nat /\ m.code.ins \in Nat /\ m.code.insns \in Seq(Nat)
         /\ Len(m.code.insns) \in Nat /\ Len(CodeItem(m)) = 16 + 2 * Len(m.code.insns)
         /\ \A f \in Seq(Nat) : \A o : Lies(f, o, CodeItem(m)) =>
              /\ Lies(f, o, U2(m.code.registers)) /\ Lies(f, o + 2, U2(m.code.ins))
              /\ Lies(f, o + 12, U4(Len(m.code.insns))) /\ Lies(f, o + 16, U2s(m.code.insns))
  <1>1. m.code.registers \in Nat /\ m.code.ins \in Nat /\ m.code.insns \in Seq(Nat)
    <2>1. Short \subseteq Nat
      BY DEF Short
    <2>2. m.code.registers \in Short /\ m.code.ins \in Short /\ m.code.insns \in Seq(Short)
      BY DEF ACode
    <2> QED BY <2>1, <2>2, SeqMonotonic
  <1>2. PICK n \in Nat : n = Len(m.code.insns)
    BY <1>1, LenProperties
  <1>3. PICK a \in Seq(Nat), b \in Seq(Nat), c \in Seq(Nat), d \in Seq(Nat),
             e \in Seq(Nat), g \in Seq(Nat) :
          /\ a = U2(m.code.registers) /\ b = U2(m.code.ins) /\ c = U2(0) /\ d = U4(0)
          /\ e = U4(n) /\ g = U2s(m.code.insns)
          /\ Len(a) = 2 /\ Len(b) = 2 /\ Len(c) = 2 /\ Len(d) = 4 /\ Len(e) = 4 /\ Len(g) = 2 * n
    <2>1. U2(m.code.registers) \in Seq(Nat) /\ Len(U2(m.code.registers)) = 2
      BY <1>1, U2Is
    <2>2. U2(m.code.ins) \in Seq(Nat) /\ Len(U2(m.code.ins)) = 2
      BY <1>1, U2Is
    <2>3. U2(0) \in Seq(Nat) /\ Len(U2(0)) = 2
      BY U2Is
    <2>4. U4(0) \in Seq(Nat) /\ Len(U4(0)) = 4
      BY U4Is
    <2>5. U4(n) \in Seq(Nat) /\ Len(U4(n)) = 4
      BY U4Is
    <2>6. U2s(m.code.insns) \in Seq(Nat) /\ Len(U2s(m.code.insns)) = 2 * n
      BY <1>1, <1>2, U2sAre
    <2> QED BY ONLY <2>1, <2>2, <2>3, <2>4, <2>5, <2>6
  <1>4. PICK p \in Seq(Nat) :
          /\ p = a \o b \o c \o c /\ Len(p) = 8
          /\ \A f \in Seq(Nat) : \A o : Lies(f, o, p) => Lies(f, o, a) /\ Lies(f, o + 2, b)
    <2>1. /\ a \o b \o c \o c \in Seq(Nat)
          /\ Len(a \o b \o c \o c) = Len(a) + Len(b) + Len(c) + Len(c)
          /\ \A f \in Seq(Nat) : \A o : Lies(f, o, a \o b \o c \o c) =>
                Lies(f, o, a) /\ Lies(f, o + Len(a), b)
      BY Concat4
    <2>2. Len(a) = 2 /\ Len(a) + Len(b) + Len(c) + Len(c) = 8
      <3>1. Len(a) = 2 /\ Len(b) = 2 /\ Len(c) = 2
        BY ONLY <1>3
      <3> QED BY ONLY <3>1
    <2> QED BY ONLY <2>1, <2>2
  <1>5. PICK q \in Seq(Nat) :
          /\ q = p \o d \o e \o g /\ Len(q) = 16 + 2 * n
          /\ \A f \in Seq(Nat) : \A o : Lies(f, o, q) =>
               Lies(f, o, p) /\ Lies(f, o + 12, e) /\ Lies(f, o + 16, g)
    <2>1. /\ p \o d \o e \o g \in Seq(Nat)
          /\ Len(p \o d \o e \o g) = Len(p) + Len(d) + Len(e) + Len(g)
          /\ \A f \in Seq(Nat) : \A o : Lies(f, o, p \o d \o e \o g) =>
                /\ Lies(f, o, p) /\ Lies(f, o + (Len(p) + Len(d)), e)
                /\ Lies(f, o + (Len(p) + Len(d) + Len(e)), g)
      BY Concat4
    <2>2. Len(p) + Len(d) = 12 /\ Len(p) + Len(d) + Len(e) = 16
          /\ Len(p) + Len(d) + Len(e) + Len(g) = 16 + 2 * n
      <3>1. Len(p) = 8 /\ Len(d) = 4 /\ Len(e) = 4 /\ Len(g) = 2 * n
        BY ONLY <1>3, <1>4
      <3> QED BY ONLY <3>1, n \in Nat
    <2> QED BY ONLY <2>1, <2>2
  <1>6. CodeItem(m) = q
    BY <1>2, <1>3, <1>4, <1>5 DEF CodeItem
  <1>7. q # <<>>
    <2>1. Len(q) # 0
      BY ONLY <1>5, n \in Nat
    <2> QED BY <2>1, EmptySeq
  <1>8. \A f \in Seq(Nat) : \A o : Lies(f, o, q) =>
          Lies(f, o, a) /\ Lies(f, o + 2, b) /\ Lies(f, o + 12, e) /\ Lies(f, o + 16, g)
    BY ONLY <1>4, <1>5
  <1>9. /\ a = U2(m.code.registers) /\ b = U2(m.code.ins)
        /\ e = U4(Len(m.code.insns)) /\ g = U2s(m.code.insns) /\ Len(q) = 16 + 2 * n
    BY ONLY <1>2, <1>3, <1>5
  <1> QED BY ONLY <1>1, <1>2, <1>6, <1>7, <1>8, <1>9, n \in Nat, q \in Seq(Nat)

LEMMA ReadCode ==
  ASSUME buf \in Seq(Nat), NEW o, NEW m, m.code # Null, m.code \in ACode, Lies(buf, o, CodeItem(m))
  PROVE  CodeIn(o) /\ CodeAt(o) = m.code
  <1>1. /\ m.code.registers \in Nat /\ m.code.ins \in Nat /\ m.code.insns \in Seq(Nat)
        /\ Len(m.code.insns) \in Nat /\ Len(CodeItem(m)) = 16 + 2 * Len(m.code.insns)
        /\ Lies(buf, o, U2(m.code.registers)) /\ Lies(buf, o + 2, U2(m.code.ins))
        /\ Lies(buf, o + 12, U4(Len(m.code.insns))) /\ Lies(buf, o + 16, U2s(m.code.insns))
    BY CodeItemIs
  <1>2. u2(o) = m.code.registers /\ u2(o + 2) = m.code.ins /\ u4(o + 12) = Len(m.code.insns)
    BY <1>1, ReadU2, ReadU4
  <1>3. [k \in 1 .. Len(m.code.insns) |-> u2((o + 16) + 2 * (k - 1))] = m.code.insns
    BY <1>1, ReadU2s
  <1>4. CodeAt(o) = [registers |-> m.code.registers, ins |-> m.code.ins, insns |-> m.code.insns]
    BY <1>2, <1>3 DEF CodeAt
  <1>5. m.code = [registers |-> m.code.registers, ins |-> m.code.ins, insns |-> m.code.insns]
    BY DEF ACode
  <1>6. o \in Nat /\ o + (16 + 2 * Len(m.code.insns)) =< Len(buf) /\ Len(buf) \in Nat
    BY <1>1, LenProperties DEF Lies
  <1>7. CodeIn(o)
    <2>1. PICK n \in Nat : n = Len(m.code.insns)
      BY <1>1
    <2>2. o \in Nat /\ o + (16 + 2 * n) =< Len(buf) /\ Len(buf) \in Nat /\ u4(o + 12) = n
      BY <1>2, <1>6, <2>1
    <2>3. o >= 0 /\ o + 16 =< Len(buf) /\ o + 16 >= 0 /\ (o + 16) + 2 * n =< Len(buf)
      BY ONLY <2>2, n \in Nat
    <2> QED BY ONLY <2>2, <2>3 DEF CodeIn, In
  <1> QED BY <1>4, <1>5, <1>7

-----------------------------------------------------------------------------
(***************************************************************************)
(* The items of a class.                                                   *)
(***************************************************************************)
LEMMA UlebTyped ==
  ASSUME NEW n \in Nat
  PROVE  Uleb(n) \in Seq(Nat) /\ Uleb(n) # <<>>
  <1>1. \A m \in Nat : Low(m) \in Nat
    BY DEF Low
  <1>2. PICK a \in Nat : a = Low(n)
    BY <1>1
  <1>3. PICK b \in Nat : b = Low(n \div 128)
    BY <1>1
  <1>4. PICK c \in Nat : c = Low(n \div 16384)
    BY <1>1
  <1>5. PICK d \in Nat : d = Low(n \div 2097152)
    <2>1. n \div 2097152 \in Nat
      BY SMT
    <2> QED BY <1>1, <2>1, SMT
  <1>6. PICK b0 \in Nat : b0 = n \div 128
    OBVIOUS
  <1>7. PICK c0 \in Nat : c0 = n \div 16384
    OBVIOUS
  <1>8. PICK d0 \in Nat : d0 = n \div 2097152
    BY SMT
  <1>9. PICK e0 \in Nat : e0 = n \div 268435456
    BY SMT
  <1>10. Uleb(n) \in {<<n>>, <<a, b0>>, <<a, b, c0>>, <<a, b, c, d0>>, <<a, b, c, d, e0>>}
    BY ONLY <1>2, <1>3, <1>4, <1>5, <1>6, <1>7, <1>8, <1>9, SMT DEF Uleb
  <1>11. /\ <<n>> \in Seq(Nat) /\ <<a, b0>> \in Seq(Nat) /\ <<a, b, c0>> \in Seq(Nat)
         /\ <<a, b, c, d0>> \in Seq(Nat) /\ <<a, b, c, d, e0>> \in Seq(Nat)
    BY ONLY n \in Nat, a \in Nat, b \in Nat, c \in Nat, d \in Nat,
            b0 \in Nat, c0 \in Nat, d0 \in Nat, e0 \in Nat
  <1>12. <<n>> # <<>> /\ <<a, b0>> # <<>> /\ <<a, b, c0>> # <<>> /\ <<a, b, c, d0>> # <<>>
         /\ <<a, b, c, d, e0>> # <<>>
    OBVIOUS
  <1> QED BY ONLY <1>10, <1>11, <1>12

HasData(c) == IsClass(c) /\ c.lists # Null

LEMMA ClassIs ==
  ASSUME NEW c, HasData(c)
  PROVE  /\ c.class \in Nat /\ c.super \in Nat
         /\ \A l \in 1 .. 4 : /\ Len(c.lists[l]) \in Count /\ Len(c.lists[l]) \in Nat
                              /\ DOMAIN c.lists[l] = 1 .. Len(c.lists[l])
         /\ \A l \in 1 .. 4 : \A k \in 1 .. Len(c.lists[l]) :
              /\ c.lists[l][k].id \in Count /\ c.lists[l][k].flags \in Count
              /\ l > 2 => c.lists[l][k].code \in {Null} \cup ACode
  <1>1. /\ c.lists[1] \in Seq(AField) /\ c.lists[2] \in Seq(AField)
        /\ c.lists[3] \in Seq(AMethod) /\ c.lists[4] \in Seq(AMethod)
        /\ \A l \in 1 .. 4 : Len(c.lists[l]) \in Count
        /\ c.class \in Count /\ c.super \in Count
    BY DEF HasData, IsClass
  <1>2. ASSUME NEW l \in 1 .. 2, NEW k \in 1 .. Len(c.lists[l])
        PROVE  c.lists[l][k].id \in Count /\ c.lists[l][k].flags \in Count
    <2>1. c.lists[l] \in Seq(AField)
      BY <1>1
    <2>2. c.lists[l][k] \in AField
      BY <2>1, ElementOfSeq
    <2> QED BY <2>2 DEF AField
  <1>3. ASSUME NEW l \in 3 .. 4, NEW k \in 1 .. Len(c.lists[l])
        PROVE  /\ c.lists[l][k].id \in Count /\ c.lists[l][k].flags \in Count
               /\ c.lists[l][k].code \in {Null} \cup ACode
    <2>1. c.lists[l] \in Seq(AMethod)
      BY <1>1
    <2>2. c.lists[l][k] \in AMethod
      BY <2>1, ElementOfSeq
    <2> QED BY <2>2 DEF AMethod
  <1>4. \A l \in 1 .. 4 : DOMAIN c.lists[l] = 1 .. Len(c.lists[l])
    BY <1>1, LenProperties
  <1>5. \A l \in 1 .. 4 : (l \in 1 .. 2 /\ ~(l > 2)) \/ l \in 3 .. 4
    OBVIOUS
  <1>6. \A l \in 1 .. 4 : Len(c.lists[l]) \in Nat /\ c.class \in Nat /\ c.super \in Nat
    BY <1>1, CountNat
  <1>7. ASSUME NEW l \in 1 .. 4, NEW k \in 1 .. Len(c.lists[l])
        PROVE  /\ c.lists[l][k].id \in Count /\ c.lists[l][k].flags \in Count
               /\ l > 2 => c.lists[l][k].code \in {Null} \cup ACode
    BY ONLY <1>2, <1>3, <1>5, l \in 1 .. 4, k \in 1 .. Len(c.lists[l])
  <1> QED BY ONLY <1>1, <1>4, <1>6, <1>7

LEMMA CodesAre ==
  ASSUME NEW c, HasData(c)
  PROVE  /\ CodesOf(c) \in Seq(Seq(Nat))
         /\ \A l \in 3 .. 4 : \A k \in 1 .. Len(c.lists[l]) :
              /\ NumberOf(c, l, k) \in 1 .. Len(CodesOf(c))
              /\ CodesOf(c)[NumberOf(c, l, k)] = CodeItem(c.lists[l][k])
  <1>1. PICK a \in Seq(AMethod), b \in Seq(AMethod) : a = c.lists[3] /\ b = c.lists[4]
    BY DEF HasData, IsClass
  <1>2. PICK m \in Nat, n \in Nat : m = Len(a) /\ n = Len(b)
    BY LenProperties
  <1>3. /\ a \o b \in Seq(AMethod) /\ Len(a \o b) = m + n
        /\ \A i \in 1 .. m + n : (a \o b)[i] = IF i =< m THEN a[i] ELSE b[i - m]
    BY <1>2, ConcatProperties
  <1>4. PICK ms \in Seq(AMethod) : ms = a \o b /\ MethodsOf(c) = ms /\ DOMAIN ms = 1 .. m + n
    BY <1>1, <1>3, LenProperties DEF MethodsOf
  <1>5. ASSUME NEW x \in AMethod PROVE CodeItem(x) \in Seq(Nat)
    <2>1. CASE x.code = Null
      BY <2>1, EmptySeq DEF CodeItem
    <2>2. CASE x.code # Null
      <3>1. x.code \in ACode
        BY <2>2 DEF AMethod
      <3> QED BY <2>2, <3>1, CodeItemIs
    <2> QED BY <2>1, <2>2
  <1>6. PICK ss : ss = CodesOf(c)
    OBVIOUS
  <1>7. ss = [k \in 1 .. m + n |-> CodeItem(ms[k])]
    BY <1>4, <1>6 DEF CodesOf
  <1>8. \A k \in 1 .. m + n : ss[k] = CodeItem(ms[k]) /\ ss[k] \in Seq(Nat)
    <2> TAKE k \in 1 .. m + n
    <2>1. ms[k] \in AMethod
      BY <1>3, <1>4, ElementOfSeq
    <2> QED BY <1>5, <1>7, <2>1
  <1>9. ss \in Seq(Seq(Nat)) /\ Len(ss) = m + n
    <2>1. ss = [k \in 1 .. m + n |-> ss[k]] /\ m + n \in Nat
      BY <1>7
    <2> QED BY ONLY <1>8, <2>1, FunctionIsSeq
  <1>10. ASSUME NEW k \in 1 .. m PROVE k \in 1 .. m + n /\ ss[k] = CodeItem(a[k])
    <2>1. k \in 1 .. m + n /\ k =< m
      OBVIOUS
    <2> QED BY <1>3, <1>4, <1>8, <2>1
  <1>11. ASSUME NEW k \in 1 .. n PROVE m + k \in 1 .. m + n /\ ss[m + k] = CodeItem(b[k])
    <2>1. m + k \in 1 .. m + n /\ ~(m + k =< m) /\ (m + k) - m = k
      OBVIOUS
    <2> QED BY <1>3, <1>4, <1>8, <2>1
  <1>12. ASSUME NEW l \in 3 .. 4, NEW k \in 1 .. Len(c.lists[l])
         PROVE  /\ NumberOf(c, l, k) \in 1 .. Len(ss)
                /\ ss[NumberOf(c, l, k)] = CodeItem(c.lists[l][k])
    <2>1. CASE l = 3
      <3>1. c.lists[l] = a /\ k \in 1 .. m /\ ~(l = 4)
        BY <1>1, <1>2, <2>1
      <3>2. NumberOf(c, l, k) = k
        BY <3>1 DEF NumberOf
      <3> QED BY <1>9, <1>10, <3>1, <3>2
    <2>2. CASE l = 4
      BY <1>1, <1>2, <1>9, <1>11, <2>2 DEF NumberOf
    <2> QED BY <2>1, <2>2
  <1> QED BY <1>6, <1>9, <1>12

LEMMA OffsetIs ==
  ASSUME NEW ss \in Seq(Seq(Nat)), NEW start \in Nat, NEW k \in 1 .. Len(ss)
  PROVE  /\ OffsetOf(start, ss, k) \in Nat
         /\ ss[k] = <<>> => OffsetOf(start, ss, k) = 0
         /\ ss[k] # <<>> => OffsetOf(start, ss, k) = start + Upto(ss, k - 1)
         /\ OffsetOf(start, ss, k) =< start + Len(FlattenSeq(ss))
  <1>1. Len(ss) \in Nat
    BY LenProperties
  <1>2. k - 1 \in 0 .. Len(ss)
    BY <1>1
  <1>3. Upto(ss, k - 1) \in Nat /\ Upto(ss, k - 1) =< Upto(ss, Len(ss))
        /\ Upto(ss, Len(ss)) = Len(FlattenSeq(ss))
    BY <1>2, UptoSteps, UptoRest
  <1>4. OffsetOf(start, ss, k) = IF ss[k] = <<>> THEN 0 ELSE start + Upto(ss, k - 1)
    BY DEF OffsetOf, Upto
  <1> QED BY <1>3, <1>4

LEMMA DiffIs ==
  ASSUME NEW c, HasData(c), NEW l \in 1 .. 4, NEW k \in 1 .. Len(c.lists[l])
  PROVE  /\ Diff(c.lists[l], k) \in Count
         /\ c.lists[l][k].id = IF k = 1 THEN Diff(c.lists[l], k)
                               ELSE c.lists[l][k - 1].id + Diff(c.lists[l], k)
  <1>1. Len(c.lists[l]) \in Nat
    BY ClassIs
  <1>2. c.lists[l][k].id \in Count /\ c.lists[l][k].id \in Nat
    BY ClassIs, CountNat
  <1>3. CASE k = 1
    BY <1>2, <1>3 DEF Diff
  <1>4. CASE k # 1
    <2>1. k - 1 \in 1 .. Len(c.lists[l]) /\ k \in 2 .. Len(c.lists[l])
      BY <1>1, <1>4
    <2>2. c.lists[l][k - 1].id \in Count /\ c.lists[l][k - 1].id \in Nat
      BY <2>1, ClassIs, CountNat
    <2>3. c.lists[l][k - 1].id < c.lists[l][k].id
      BY <2>1 DEF HasData, IsClass, Ascending
    <2>4. PICK x \in Nat, y \in Nat : x = c.lists[l][k].id /\ y = c.lists[l][k - 1].id /\ y < x /\ x \in Count
      BY <1>2, <2>2, <2>3
    <2>5. x - y \in Count
      <3>0. y < x
        BY ONLY <2>4
      <3>1. x - y \in Nat /\ x - y =< x
        BY ONLY <3>0, x \in Nat, y \in Nat
      <3> QED BY <2>4, <3>1, CountNat
    <2> QED BY <1>4, <2>4, <2>5 DEF Diff
  <1> QED BY <1>3, <1>4


LEMMA MemberItemIs ==
  ASSUME NEW start \in Nat, NEW c, HasData(c), NEW l \in 1 .. 4, NEW k \in 1 .. Len(c.lists[l])
  PROVE  \E u \in Seq(Nat), v \in Seq(Nat), w \in Seq(Nat) :
           /\ u = Uleb(Diff(c.lists[l], k)) /\ v = Uleb(c.lists[l][k].flags)
           /\ l > 2 => w = Uleb(OffsetOf(start, CodesOf(c), NumberOf(c, l, k)))
           /\ ~(l > 2) => w = <<>>
           /\ MemberItem(start, c, l, k) = u \o v \o w
           /\ MemberItem(start, c, l, k) \in Seq(Nat) /\ MemberItem(start, c, l, k) # <<>>
  <1>1. Diff(c.lists[l], k) \in Nat /\ c.lists[l][k].flags \in Nat
    BY DiffIs, ClassIs, CountNat
  <1>2. PICK u \in Seq(Nat) : u = Uleb(Diff(c.lists[l], k)) /\ u # <<>>
    BY <1>1, UlebTyped
  <1>3. PICK v \in Seq(Nat) : v = Uleb(c.lists[l][k].flags)
    BY <1>1, UlebTyped
  <1>4. PICK w \in Seq(Nat) :
          w = IF l <= 2 THEN <<>> ELSE Uleb(OffsetOf(start, CodesOf(c), NumberOf(c, l, k)))
    <2>1. CASE l <= 2
      BY <2>1, EmptySeq
    <2>2. CASE ~(l <= 2)
      <3>1. l \in 3 .. 4
        BY <2>2
      <3>2. OffsetOf(start, CodesOf(c), NumberOf(c, l, k)) \in Nat
        BY <3>1, CodesAre, OffsetIs
      <3> QED BY <2>2, <3>2, UlebTyped
    <2> QED BY <2>1, <2>2
  <1>5. MemberItem(start, c, l, k) = u \o v \o w
    BY <1>2, <1>3, <1>4 DEF MemberItem
  <1>6. u \o v \o w \in Seq(Nat) /\ Len(u \o v \o w) = Len(u) + Len(v) + Len(w)
        /\ Len(u) \in Nat /\ Len(v) \in Nat /\ Len(w) \in Nat
    BY Concat3
  <1>7. Len(u) # 0
    BY <1>2, EmptySeq
  <1>8. Len(u \o v \o w) # 0
    BY ONLY <1>6, <1>7
  <1>9. u \o v \o w # <<>>
    BY ONLY <1>8, EmptySeq
  <1>10. /\ l > 2 => w = Uleb(OffsetOf(start, CodesOf(c), NumberOf(c, l, k)))
         /\ ~(l > 2) => w = <<>>
    BY <1>4
  <1> QED BY <1>2, <1>3, <1>5, <1>6, <1>9, <1>10

LEMMA MemberItemsAre ==
  ASSUME NEW start \in Nat, NEW c, HasData(c), NEW l \in 1 .. 4
  PROVE  LET ss == MemberItems(start, c, l)
         IN  /\ ss \in Seq(Seq(Nat)) /\ Len(ss) = Len(c.lists[l])
             /\ \A k \in 1 .. Len(c.lists[l]) : ss[k] = MemberItem(start, c, l, k) /\ ss[k] # <<>>
             /\ FlattenSeq(ss) \in Seq(Nat)
  <1>1. PICK n \in Nat : n = Len(c.lists[l]) /\ DOMAIN c.lists[l] = 1 .. n
    BY ClassIs
  <1>2. PICK ss : ss = MemberItems(start, c, l)
    OBVIOUS
  <1>3. ss = [k \in 1 .. n |-> MemberItem(start, c, l, k)]
    BY <1>1, <1>2 DEF MemberItems
  <1>4. \A k \in 1 .. n : ss[k] = MemberItem(start, c, l, k) /\ ss[k] \in Seq(Nat) /\ ss[k] # <<>>
    BY <1>1, <1>3, MemberItemIs
  <1>5. ss \in Seq(Seq(Nat)) /\ Len(ss) = n
    <2>1. ss = [k \in 1 .. n |-> ss[k]]
      BY <1>3
    <2> QED BY ONLY <1>4, <2>1, n \in Nat, FunctionIsSeq
  <1> QED BY <1>1, <1>2, <1>4, <1>5, FlattenTyped

LEMMA SizesAre ==
  ASSUME NEW c, HasData(c)
  PROVE  \E a \in Seq(Nat), b \in Seq(Nat), d \in Seq(Nat), e \in Seq(Nat) :
           /\ a = Uleb(Len(c.lists[1])) /\ b = Uleb(Len(c.lists[2]))
           /\ d = Uleb(Len(c.lists[3])) /\ e = Uleb(Len(c.lists[4]))
           /\ SizesOf(c) = a \o b \o d \o e /\ SizesOf(c) \in Seq(Nat)
  <1>0. \A l \in 1 .. 4 : Uleb(Len(c.lists[l])) \in Seq(Nat)
    BY ClassIs, UlebTyped
  <1>n. 1 \in 1 .. 4 /\ 2 \in 1 .. 4 /\ 3 \in 1 .. 4 /\ 4 \in 1 .. 4
    OBVIOUS
  <1>1. PICK a \in Seq(Nat) : a = Uleb(Len(c.lists[1]))
    BY ONLY <1>0, <1>n
  <1>2. PICK b \in Seq(Nat) : b = Uleb(Len(c.lists[2]))
    BY ONLY <1>0, <1>n
  <1>3. PICK d \in Seq(Nat) : d = Uleb(Len(c.lists[3]))
    BY ONLY <1>0, <1>n
  <1>4. PICK e \in Seq(Nat) : e = Uleb(Len(c.lists[4]))
    BY ONLY <1>0, <1>n
  <1>5. SizesOf(c) = a \o b \o d \o e
    BY <1>1, <1>2, <1>3, <1>4 DEF SizesOf
  <1>6. a \o b \o d \o e \in Seq(Nat)
    BY Concat4
  <1> QED BY <1>1, <1>2, <1>3, <1>4, <1>5, <1>6

-----------------------------------------------------------------------------
(***************************************************************************)
(* Where the parser of class data is when so many members are read, from   *)
(* the start of the items of the class.                                    *)
(***************************************************************************)
DataFrom(c) == Len(FlattenSeq(CodesOf(c)))
ReadTo(start, c, read) ==
  DataFrom(c) + Len(SizesOf(c))
  + Upto(MemberItems(start, c, 1), read[1]) + Upto(MemberItems(start, c, 2), read[2])
  + Upto(MemberItems(start, c, 3), read[3]) + Upto(MemberItems(start, c, 4), read[4])

ListLen(start, c, l) == Len(FlattenSeq(MemberItems(start, c, l)))

LEMMA ClassItemIs ==
  ASSUME NEW start \in Nat, NEW c, HasData(c)
  PROVE  /\ ClassItem(start, c) \in Seq(Nat)
         /\ DataFrom(c) \in Nat /\ Len(SizesOf(c)) \in Nat
         /\ \A l \in 1 .. 4 : ListLen(start, c, l) \in Nat
         /\ Len(ClassItem(start, c)) =
              DataFrom(c) + Len(SizesOf(c)) + ListLen(start, c, 1) + ListLen(start, c, 2)
              + ListLen(start, c, 3) + ListLen(start, c, 4)
         /\ \A f \in Seq(Nat) : \A o : Lies(f, o, ClassItem(start, c)) =>
              /\ Lies(f, o, FlattenSeq(CodesOf(c)))
              /\ Lies(f, o + DataFrom(c), SizesOf(c))
              /\ LET p == o + (DataFrom(c) + Len(SizesOf(c)))
                 IN  /\ Lies(f, p, FlattenSeq(MemberItems(start, c, 1)))
                     /\ Lies(f, p + ListLen(start, c, 1), FlattenSeq(MemberItems(start, c, 2)))
                     /\ Lies(f, p + (ListLen(start, c, 1) + ListLen(start, c, 2)),
                             FlattenSeq(MemberItems(start, c, 3)))
                     /\ Lies(f, p + (ListLen(start, c, 1) + ListLen(start, c, 2)
                                     + ListLen(start, c, 3)),
                             FlattenSeq(MemberItems(start, c, 4)))
  <1>0. \A l \in 1 .. 4 : /\ FlattenSeq(MemberItems(start, c, l)) \in Seq(Nat)
                          /\ ListLen(start, c, l) = Len(FlattenSeq(MemberItems(start, c, l)))
    BY MemberItemsAre DEF ListLen
  <1>n. 1 \in 1 .. 4 /\ 2 \in 1 .. 4 /\ 3 \in 1 .. 4 /\ 4 \in 1 .. 4
    OBVIOUS
  <1>1. PICK a \in Seq(Nat) : a = FlattenSeq(CodesOf(c)) /\ DataFrom(c) = Len(a)
    BY CodesAre, FlattenTyped DEF DataFrom
  <1>2. PICK b \in Seq(Nat) : b = SizesOf(c)
    BY SizesAre
  <1>3. PICK f1 \in Seq(Nat) : f1 = FlattenSeq(MemberItems(start, c, 1)) /\ ListLen(start, c, 1) = Len(f1)
    BY ONLY <1>0, <1>n
  <1>4. PICK f2 \in Seq(Nat) : f2 = FlattenSeq(MemberItems(start, c, 2)) /\ ListLen(start, c, 2) = Len(f2)
    BY ONLY <1>0, <1>n
  <1>5. PICK f3 \in Seq(Nat) : f3 = FlattenSeq(MemberItems(start, c, 3)) /\ ListLen(start, c, 3) = Len(f3)
    BY ONLY <1>0, <1>n
  <1>6. PICK f4 \in Seq(Nat) : f4 = FlattenSeq(MemberItems(start, c, 4)) /\ ListLen(start, c, 4) = Len(f4)
    BY ONLY <1>0, <1>n
  <1>7. PICK p \in Seq(Nat) :
          /\ p = a \o b \o f1 \o f2 /\ Len(p) = Len(a) + Len(b) + Len(f1) + Len(f2)
          /\ \A f \in Seq(Nat) : \A o : Lies(f, o, p) =>
              /\ Lies(f, o, a) /\ Lies(f, o + Len(a), b)
              /\ Lies(f, o + (Len(a) + Len(b)), f1) /\ Lies(f, o + (Len(a) + Len(b) + Len(f1)), f2)
    <2>1. /\ a \o b \o f1 \o f2 \in Seq(Nat)
          /\ Len(a \o b \o f1 \o f2) = Len(a) + Len(b) + Len(f1) + Len(f2)
          /\ \A f \in Seq(Nat) : \A o : Lies(f, o, a \o b \o f1 \o f2) =>
              /\ Lies(f, o, a) /\ Lies(f, o + Len(a), b)
              /\ Lies(f, o + (Len(a) + Len(b)), f1) /\ Lies(f, o + (Len(a) + Len(b) + Len(f1)), f2)
      BY Concat4
    <2> QED BY ONLY <2>1
  <1>8. /\ p \o f3 \o f4 \in Seq(Nat) /\ Len(p \o f3 \o f4) = Len(p) + Len(f3) + Len(f4)
        /\ \A f \in Seq(Nat) : \A o : Lies(f, o, p \o f3 \o f4) =>
              /\ Lies(f, o, p) /\ Lies(f, o + Len(p), f3)
              /\ Lies(f, o + (Len(p) + Len(f3)), f4)
    BY Concat3
  <1>9. ClassItem(start, c) = p \o f3 \o f4
    BY <1>1, <1>2, <1>3, <1>4, <1>5, <1>6, <1>7 DEF ClassItem, HasData
  <1>10. /\ Len(a) \in Nat /\ Len(b) \in Nat /\ Len(f1) \in Nat /\ Len(f2) \in Nat
         /\ Len(f3) \in Nat /\ Len(f4) \in Nat
    BY LenProperties
  <1>11. ASSUME NEW f \in Seq(Nat), NEW o, Lies(f, o, p \o f3 \o f4)
         PROVE  /\ Lies(f, o, a) /\ Lies(f, o + Len(a), b)
                /\ LET q == o + (Len(a) + Len(b))
                   IN  /\ Lies(f, q, f1) /\ Lies(f, q + Len(f1), f2)
                       /\ Lies(f, q + (Len(f1) + Len(f2)), f3)
                       /\ Lies(f, q + (Len(f1) + Len(f2) + Len(f3)), f4)
    <2>1. /\ Lies(f, o, p) /\ Lies(f, o + Len(p), f3)
          /\ Lies(f, o + (Len(p) + Len(f3)), f4)
      BY <1>8, <1>11
    <2>2. /\ Lies(f, o, a) /\ Lies(f, o + Len(a), b)
          /\ Lies(f, o + (Len(a) + Len(b)), f1) /\ Lies(f, o + (Len(a) + Len(b) + Len(f1)), f2)
      BY <1>7, <2>1
    <2>3. o \in Nat
      BY <2>1 DEF Lies
    <2>4. /\ o + (Len(a) + Len(b) + Len(f1)) = (o + (Len(a) + Len(b))) + Len(f1)
          /\ o + Len(p) = (o + (Len(a) + Len(b))) + (Len(f1) + Len(f2))
          /\ o + (Len(p) + Len(f3)) = (o + (Len(a) + Len(b))) + (Len(f1) + Len(f2) + Len(f3))
      <3>1. Len(p) = Len(a) + Len(b) + Len(f1) + Len(f2)
        BY ONLY <1>7
      <3> QED BY ONLY <1>10, <2>3, <3>1
    <2> QED BY ONLY <2>1, <2>2, <2>4
  <1>12. Len(p \o f3 \o f4) = Len(a) + Len(b) + Len(f1) + Len(f2) + Len(f3) + Len(f4)
    <2>1. Len(p) = Len(a) + Len(b) + Len(f1) + Len(f2)
      BY ONLY <1>7
    <2> QED BY ONLY <1>8, <2>1
  <1>13. /\ a = FlattenSeq(CodesOf(c)) /\ b = SizesOf(c) /\ f1 = FlattenSeq(MemberItems(start, c, 1))
         /\ f2 = FlattenSeq(MemberItems(start, c, 2)) /\ f3 = FlattenSeq(MemberItems(start, c, 3))
         /\ f4 = FlattenSeq(MemberItems(start, c, 4)) /\ DataFrom(c) = Len(a)
    BY ONLY <1>1, <1>2, <1>3, <1>4, <1>5, <1>6
  <1>14. \A l \in 1 .. 4 : l = 1 \/ l = 2 \/ l = 3 \/ l = 4
    OBVIOUS
  <1>15. /\ ListLen(start, c, 1) = Len(f1) /\ ListLen(start, c, 2) = Len(f2)
         /\ ListLen(start, c, 3) = Len(f3) /\ ListLen(start, c, 4) = Len(f4)
    BY ONLY <1>3, <1>4, <1>5, <1>6
  <1>16. \A l \in 1 .. 4 : ListLen(start, c, l) \in Nat
    BY ONLY <1>10, <1>14, <1>15
  <1> QED BY ONLY <1>8, <1>9, <1>10, <1>11, <1>12, <1>13, <1>15, <1>16

NoneRead == [l \in 1 .. 4 |-> 0]
OneMore(read, l) == [read EXCEPT ![l] = @ + 1]
IsRead(c, read) == read \in [1 .. 4 -> Nat] /\ \A l \in 1 .. 4 : read[l] =< Len(c.lists[l])

\* What the lists take, and the parts of them that were read.
LEMMA ReadParts ==
  ASSUME NEW start \in Nat, NEW c, HasData(c), NEW read, IsRead(c, read), NEW l \in 1 .. 4
  PROVE  LET ss == MemberItems(start, c, l)
         IN  /\ Upto(ss, read[l]) \in Nat
             /\ Upto(ss, read[l]) + (Len(c.lists[l]) - read[l]) =< ListLen(start, c, l)
             /\ Len(c.lists[l]) \in Nat /\ read[l] \in 0 .. Len(c.lists[l])
             /\ read[l] = Len(c.lists[l]) => Upto(ss, read[l]) = ListLen(start, c, l)
             /\ read[l] = 0 => Upto(ss, read[l]) = 0
             /\ read[l] < Len(c.lists[l]) =>
                  Upto(ss, read[l] + 1) = Upto(ss, read[l]) + Len(MemberItem(start, c, l, read[l] + 1))
  <1>1. PICK ss \in Seq(Seq(Nat)), n \in Nat :
          /\ ss = MemberItems(start, c, l) /\ n = Len(ss) /\ n = Len(c.lists[l])
          /\ \A k \in 1 .. n : ss[k] = MemberItem(start, c, l, k) /\ ss[k] # <<>>
    <2>0. /\ MemberItems(start, c, l) \in Seq(Seq(Nat))
          /\ Len(MemberItems(start, c, l)) = Len(c.lists[l])
          /\ \A k \in 1 .. Len(c.lists[l]) :
               /\ MemberItems(start, c, l)[k] = MemberItem(start, c, l, k)
               /\ MemberItems(start, c, l)[k] # <<>>
      BY MemberItemsAre
    <2>1. PICK ss : /\ ss = MemberItems(start, c, l)
                    /\ ss \in Seq(Seq(Nat)) /\ Len(ss) = Len(c.lists[l])
                    /\ \A k \in 1 .. Len(c.lists[l]) :
                         ss[k] = MemberItem(start, c, l, k) /\ ss[k] # <<>>
      BY ONLY <2>0
    <2>2. Len(ss) \in Nat
      BY <2>1, LenProperties
    <2> QED BY ONLY <2>1, <2>2
  <1>2. PICK k \in 0 .. n : k = read[l]
    BY <1>1 DEF IsRead
  <1>3. /\ Upto(ss, 0) = 0 /\ Upto(ss, n) = ListLen(start, c, l) /\ Upto(ss, k) \in Nat
        /\ \A j \in 1 .. n : Upto(ss, j) = Upto(ss, j - 1) + Len(ss[j])
    BY <1>1, UptoSteps DEF ListLen
  <1>4. Upto(ss, k) + (n - k) =< Upto(ss, n)
    BY <1>1, UptoRest
  <1>5. k < n => Upto(ss, k + 1) = Upto(ss, k) + Len(MemberItem(start, c, l, k + 1))
    <2> HAVE k < n
    <2>1. k + 1 \in 1 .. n /\ (k + 1) - 1 = k
      OBVIOUS
    <2> QED BY <1>1, <1>3, <2>1
  <1>6. k = n => Upto(ss, k) = ListLen(start, c, l)
    BY <1>3
  <1>7. k = 0 => Upto(ss, k) = 0
    BY <1>3
  <1>8. ss = MemberItems(start, c, l) /\ n = Len(c.lists[l])
    BY <1>1
  <1> QED BY ONLY <1>2, <1>3, <1>4, <1>5, <1>6, <1>7, <1>8, n \in Nat, k \in 0 .. n

LEMMA ReadToIs ==
  ASSUME NEW start \in Nat, NEW c, HasData(c), NEW read, IsRead(c, read),
         NEW f \in Seq(Nat), NEW o, Lies(f, o, ClassItem(start, c))
  PROVE  /\ o + ReadTo(start, c, read) \in Nat /\ o + ReadTo(start, c, read) =< Len(f)
         /\ \A l \in 1 .. 4 : o + ReadTo(start, c, read) + (Len(c.lists[l]) - read[l]) =< Len(f)
         /\ ReadTo(start, c, NoneRead) = DataFrom(c) + Len(SizesOf(c))
  <1> DEFINE U(l) == Upto(MemberItems(start, c, l), read[l])
             L(l) == ListLen(start, c, l)
             R(l) == Len(c.lists[l]) - read[l]
  <1>1. \A l \in 1 .. 4 : U(l) \in Nat /\ U(l) + R(l) =< L(l) /\ R(l) \in Nat /\ L(l) \in Nat
    <2> TAKE l \in 1 .. 4
    <2>1. U(l) \in Nat /\ U(l) + R(l) =< L(l) /\ Len(c.lists[l]) \in Nat /\ read[l] \in 0 .. Len(c.lists[l])
      BY ReadParts
    <2>2. L(l) \in Nat
      BY ClassItemIs
    <2> QED BY <2>1, <2>2
  <1>2. PICK p \in Nat : p = DataFrom(c) + Len(SizesOf(c))
    BY ClassItemIs
  <1>3. ReadTo(start, c, read) = p + U(1) + U(2) + U(3) + U(4)
    BY <1>2 DEF ReadTo
  <1>4. o \in Nat /\ o + (p + L(1) + L(2) + L(3) + L(4)) =< Len(f) /\ Len(f) \in Nat
    <2>1. Len(ClassItem(start, c)) = p + L(1) + L(2) + L(3) + L(4)
      BY <1>2, ClassItemIs
    <2> QED BY <2>1, LenProperties DEF Lies
  <1> HIDE DEF U, L, R
  <1>5. /\ U(1) \in Nat /\ U(2) \in Nat /\ U(3) \in Nat /\ U(4) \in Nat
        /\ R(1) \in Nat /\ R(2) \in Nat /\ R(3) \in Nat /\ R(4) \in Nat
        /\ L(1) \in Nat /\ L(2) \in Nat /\ L(3) \in Nat /\ L(4) \in Nat
        /\ U(1) + R(1) =< L(1) /\ U(2) + R(2) =< L(2) /\ U(3) + R(3) =< L(3) /\ U(4) + R(4) =< L(4)
    BY <1>1
  <1>0. p + U(1) + U(2) + U(3) + U(4) \in Nat
    <2>1. U(1) \in Nat /\ U(2) \in Nat /\ U(3) \in Nat /\ U(4) \in Nat
      BY ONLY <1>5
    <2> QED BY ONLY <2>1, p \in Nat
  <1>6. PICK x \in Nat : x = ReadTo(start, c, read) /\ x = p + U(1) + U(2) + U(3) + U(4)
    BY ONLY <1>0, <1>3
  <1>7. /\ o + x \in Nat /\ o + x =< Len(f)
        /\ o + x + R(1) =< Len(f) /\ o + x + R(2) =< Len(f)
        /\ o + x + R(3) =< Len(f) /\ o + x + R(4) =< Len(f)
    <2>1. x = p + U(1) + U(2) + U(3) + U(4)
      BY ONLY <1>6
    <2>2. /\ o \in Nat /\ Len(f) \in Nat /\ o + (p + L(1) + L(2) + L(3) + L(4)) =< Len(f)
          /\ U(1) \in Nat /\ U(2) \in Nat /\ U(3) \in Nat /\ U(4) \in Nat
          /\ R(1) \in Nat /\ R(2) \in Nat /\ R(3) \in Nat /\ R(4) \in Nat
          /\ L(1) \in Nat /\ L(2) \in Nat /\ L(3) \in Nat /\ L(4) \in Nat
      BY ONLY <1>4, <1>5
    <2>3. U(1) + R(1) =< L(1) /\ U(2) + R(2) =< L(2) /\ U(3) + R(3) =< L(3) /\ U(4) + R(4) =< L(4)
      BY ONLY <1>5
    <2>4. PICK u1 \in Nat, u2n \in Nat, u3 \in Nat, u4n \in Nat :
            u1 = U(1) /\ u2n = U(2) /\ u3 = U(3) /\ u4n = U(4)
      BY ONLY <2>2
    <2>5. PICK r1 \in Nat, r2 \in Nat, r3 \in Nat, r4 \in Nat :
            r1 = R(1) /\ r2 = R(2) /\ r3 = R(3) /\ r4 = R(4)
      BY ONLY <2>2
    <2>6. PICK l1 \in Nat, l2 \in Nat, l3 \in Nat, l4 \in Nat :
            l1 = L(1) /\ l2 = L(2) /\ l3 = L(3) /\ l4 = L(4)
      BY ONLY <2>2
    <2>7. PICK e \in Nat : e = Len(f)
      BY ONLY <2>2
    <2>8. /\ x = p + u1 + u2n + u3 + u4n /\ o + (p + l1 + l2 + l3 + l4) =< e
          /\ u1 + r1 =< l1 /\ u2n + r2 =< l2 /\ u3 + r3 =< l3 /\ u4n + r4 =< l4
      BY ONLY <2>1, <2>2, <2>3, <2>4, <2>5, <2>6, <2>7
    <2>9. o \in Nat
      BY ONLY <2>2
    <2>10. PICK y \in Nat : y = o + x
      BY ONLY <2>9, x \in Nat
    <2>11. /\ y = o + (p + u1 + u2n + u3 + u4n) /\ y =< e /\ y + r1 =< e /\ y + r2 =< e
           /\ y + r3 =< e /\ y + r4 =< e
      BY ONLY <2>8, <2>9, <2>10, p \in Nat, u1 \in Nat, u2n \in Nat, u3 \in Nat, u4n \in Nat,
              r1 \in Nat, r2 \in Nat, r3 \in Nat, r4 \in Nat,
              l1 \in Nat, l2 \in Nat, l3 \in Nat, l4 \in Nat, e \in Nat
    <2> QED BY ONLY <2>5, <2>7, <2>10, <2>11
  <1>8. \A l \in 1 .. 4 : o + x + R(l) =< Len(f)
    <2>1. \A l \in 1 .. 4 : l = 1 \/ l = 2 \/ l = 3 \/ l = 4
      OBVIOUS
    <2> QED BY ONLY <1>7, <2>1
  <1>9. ReadTo(start, c, NoneRead) = p
    <2>1. \A l \in 1 .. 4 : Upto(MemberItems(start, c, l), 0) = 0
      BY MemberItemsAre, UptoSteps
    <2>2. PICK z : z = NoneRead /\ z[1] = 0 /\ z[2] = 0 /\ z[3] = 0 /\ z[4] = 0
      <3>1. PICK z : z = NoneRead
        OBVIOUS
      <3>2. \A l \in 1 .. 4 : z[l] = 0
        BY ONLY <3>1 DEF NoneRead
      <3> QED BY ONLY <3>1, <3>2
    <2>3. /\ Upto(MemberItems(start, c, 1), 0) = 0 /\ Upto(MemberItems(start, c, 2), 0) = 0
          /\ Upto(MemberItems(start, c, 3), 0) = 0 /\ Upto(MemberItems(start, c, 4), 0) = 0
      BY <2>1
    <2>4. ReadTo(start, c, z) = p + 0 + 0 + 0 + 0
      BY <1>2, <2>2, <2>3 DEF ReadTo
    <2> QED BY <2>2, <2>4
  <1> QED BY <1>2, <1>6, <1>7, <1>8, <1>9 DEF R

\* The next member lies where the parser is, and behind it is the place after it.
LEMMA NextMember ==
  ASSUME NEW start \in Nat, NEW c, HasData(c), NEW read, IsRead(c, read),
         NEW f \in Seq(Nat), NEW o, Lies(f, o, ClassItem(start, c)),
         NEW l \in 1 .. 4, read[l] < Len(c.lists[l]),
         \A k \in 1 .. l - 1 : read[k] = Len(c.lists[k]),
         \A k \in l + 1 .. 4 : read[k] = 0
  PROVE  /\ read[l] + 1 \in 1 .. Len(c.lists[l])
         /\ Lies(f, o + ReadTo(start, c, read), MemberItem(start, c, l, read[l] + 1))
         /\ ReadTo(start, c, OneMore(read, l)) =
              ReadTo(start, c, read) + Len(MemberItem(start, c, l, read[l] + 1))
  <1> DEFINE U(m) == Upto(MemberItems(start, c, m), read[m])
             L(m) == ListLen(start, c, m)
  <1>n. 1 \in 1 .. 4 /\ 2 \in 1 .. 4 /\ 3 \in 1 .. 4 /\ 4 \in 1 .. 4
        /\ (l = 1 \/ l = 2 \/ l = 3 \/ l = 4)
    OBVIOUS
  <1>1. /\ \A m \in 1 .. 4 : U(m) \in Nat
        /\ \A m \in 1 .. l - 1 : U(m) = L(m)
        /\ \A m \in l + 1 .. 4 : U(m) = 0
    <2>1. \A m \in 1 .. 4 : U(m) \in Nat /\ (read[m] = Len(c.lists[m]) => U(m) = L(m))
                            /\ (read[m] = 0 => U(m) = 0)
      <3> TAKE m \in 1 .. 4
      <3>1. Upto(MemberItems(start, c, m), read[m]) \in Nat
        BY ReadParts
      <3>2. read[m] = Len(c.lists[m]) =>
              Upto(MemberItems(start, c, m), read[m]) = ListLen(start, c, m)
        BY ReadParts
      <3>3. read[m] = 0 => Upto(MemberItems(start, c, m), read[m]) = 0
        <4>1. Upto(MemberItems(start, c, m), 0) = 0
          BY MemberItemsAre, UptoSteps
        <4>2. PICK u : u = read[m]
          OBVIOUS
        <4>3. u = 0 => Upto(MemberItems(start, c, m), u) = 0
          BY ONLY <4>1
        <4> QED BY ONLY <4>2, <4>3
      <3> QED BY ONLY <3>1, <3>2, <3>3
    <2>2. \A m \in 1 .. l - 1 : m \in 1 .. 4
      OBVIOUS
    <2>3. \A m \in l + 1 .. 4 : m \in 1 .. 4
      OBVIOUS
    <2> HIDE DEF U, L
    <2> QED BY <2>1, <2>2, <2>3
  <1>2. /\ Len(c.lists[l]) \in Nat /\ read[l] \in 0 .. Len(c.lists[l])
        /\ Upto(MemberItems(start, c, l), read[l] + 1)
             = U(l) + Len(MemberItem(start, c, l, read[l] + 1))
    BY ReadParts
  <1>3. PICK n : n = read[l] + 1 /\ n \in 1 .. Len(c.lists[l]) /\ n - 1 = read[l] /\ n \in Nat
    BY <1>2
  <1>4. PICK p \in Nat : p = DataFrom(c) + Len(SizesOf(c))
    BY ClassItemIs
  <1>5. ReadTo(start, c, read) = p + U(1) + U(2) + U(3) + U(4)
    BY <1>4 DEF ReadTo
  <1>6. /\ Lies(f, o + p, FlattenSeq(MemberItems(start, c, 1)))
        /\ Lies(f, o + p + L(1), FlattenSeq(MemberItems(start, c, 2)))
        /\ Lies(f, o + p + (L(1) + L(2)), FlattenSeq(MemberItems(start, c, 3)))
        /\ Lies(f, o + p + (L(1) + L(2) + L(3)), FlattenSeq(MemberItems(start, c, 4)))
    BY <1>4, ClassItemIs
  <1>7. o \in Nat
    BY DEF Lies
  <1>8. \A m \in 1 .. 4 : L(m) \in Nat
    BY ClassItemIs
  <1>9. \E q \in Nat : /\ Lies(f, q, FlattenSeq(MemberItems(start, c, l)))
                       /\ o + ReadTo(start, c, read) = q + U(l)
    <2> HIDE DEF U, L
    <2>1. CASE l = 1
      <3>1. U(2) = 0 /\ U(3) = 0 /\ U(4) = 0 /\ U(1) \in Nat
        BY <1>1, <2>1
      <3>a. PICK a \in Nat : a = U(1)
        BY <3>1
      <3>b. o + p \in Nat /\ o + (p + a + 0 + 0 + 0) = (o + p) + a
        BY ONLY <1>7, p \in Nat, a \in Nat
      <3>2. o + p \in Nat /\ o + (p + U(1) + U(2) + U(3) + U(4)) = (o + p) + U(1)
        BY ONLY <3>1, <3>a, <3>b
      <3> QED BY <1>5, <1>6, <2>1, <3>2
    <2>2. CASE l = 2
      <3>1. U(1) = L(1) /\ U(3) = 0 /\ U(4) = 0 /\ U(2) \in Nat /\ U(1) \in Nat
        BY <1>1, <2>2
      <3>a. PICK a \in Nat, b \in Nat : a = U(1) /\ b = U(2)
        BY <3>1
      <3>b. o + p + a \in Nat /\ o + (p + a + b + 0 + 0) = (o + p + a) + b
        BY ONLY <1>7, p \in Nat, a \in Nat, b \in Nat
      <3>2. o + p + L(1) \in Nat /\ o + (p + U(1) + U(2) + U(3) + U(4)) = (o + p + L(1)) + U(2)
        BY ONLY <3>1, <3>a, <3>b
      <3> QED BY <1>5, <1>6, <2>2, <3>2
    <2>3. CASE l = 3
      <3>1. U(1) = L(1) /\ U(2) = L(2) /\ U(4) = 0 /\ U(2) \in Nat /\ U(1) \in Nat /\ U(3) \in Nat
        BY <1>1, <2>3
      <3>a. PICK a \in Nat, b \in Nat, d \in Nat : a = U(1) /\ b = U(2) /\ d = U(3)
        BY <3>1
      <3>b. o + p + (a + b) \in Nat /\ o + (p + a + b + d + 0) = (o + p + (a + b)) + d
        BY ONLY <1>7, p \in Nat, a \in Nat, b \in Nat, d \in Nat
      <3>2. /\ o + p + (L(1) + L(2)) \in Nat
            /\ o + (p + U(1) + U(2) + U(3) + U(4)) = (o + p + (L(1) + L(2))) + U(3)
        BY ONLY <3>1, <3>a, <3>b
      <3> QED BY <1>5, <1>6, <2>3, <3>2
    <2>4. CASE l = 4
      <3>1. /\ U(1) = L(1) /\ U(2) = L(2) /\ U(3) = L(3)
            /\ U(2) \in Nat /\ U(1) \in Nat /\ U(3) \in Nat /\ U(4) \in Nat
        BY <1>1, <2>4
      <3>a. PICK a \in Nat, b \in Nat, d \in Nat, e \in Nat :
              a = U(1) /\ b = U(2) /\ d = U(3) /\ e = U(4)
        BY <3>1
      <3>b. o + p + (a + b + d) \in Nat /\ o + (p + a + b + d + e) = (o + p + (a + b + d)) + e
        BY ONLY <1>7, p \in Nat, a \in Nat, b \in Nat, d \in Nat, e \in Nat
      <3>2. /\ o + p + (L(1) + L(2) + L(3)) \in Nat
            /\ o + (p + U(1) + U(2) + U(3) + U(4)) = (o + p + (L(1) + L(2) + L(3))) + U(4)
        BY ONLY <3>1, <3>a, <3>b
      <3> QED BY <1>5, <1>6, <2>4, <3>2
    <2> QED BY <1>n, <2>1, <2>2, <2>3, <2>4
  <1>10. PICK q \in Nat : /\ Lies(f, q, FlattenSeq(MemberItems(start, c, l)))
                          /\ o + ReadTo(start, c, read) = q + U(l)
    BY <1>9
  <1>11. Lies(f, q + Upto(MemberItems(start, c, l), n - 1), MemberItem(start, c, l, n))
    <2>1. PICK ss \in Seq(Seq(Nat)) :
            /\ ss = MemberItems(start, c, l) /\ Len(ss) = Len(c.lists[l])
            /\ ss[n] = MemberItem(start, c, l, n)
      BY <1>3, MemberItemsAre
    <2>2. n \in 1 .. Len(ss) /\ Lies(f, q, FlattenSeq(ss))
      BY <1>3, <1>10, <2>1
    <2>3. Lies(f, q + Upto(ss, n - 1), ss[n])
      BY ONLY <2>2, LiesFlatten, f \in Seq(Nat), ss \in Seq(Seq(Nat))
    <2> QED BY <2>1, <2>3
  <1>12. Lies(f, o + ReadTo(start, c, read), MemberItem(start, c, l, n))
    BY <1>3, <1>10, <1>11
  <1>13. PICK next : /\ next = [read EXCEPT ![l] = @ + 1] /\ next[l] = read[l] + 1
                     /\ \A m \in 1 .. 4 : m # l => next[m] = read[m]
    <2>1. PICK next : next = [read EXCEPT ![l] = @ + 1]
      OBVIOUS
    <2>2. DOMAIN read = 1 .. 4
      BY DEF IsRead
    <2>3. next[l] = read[l] + 1
      BY ONLY <2>1, <2>2, l \in 1 .. 4
    <2>4. \A m \in 1 .. 4 : m # l => next[m] = read[m]
      BY ONLY <2>1, <2>2, l \in 1 .. 4
    <2> QED BY ONLY <2>1, <2>3, <2>4
  <1> DEFINE V(m) == Upto(MemberItems(start, c, m), next[m])
  <1>14. PICK x \in Nat : x = Len(MemberItem(start, c, l, n))
    BY <1>3, MemberItemIs, LenProperties
  <1>15. V(l) = U(l) + x /\ \A m \in 1 .. 4 : m # l => V(m) = U(m)
    BY <1>2, <1>3, <1>13, <1>14
  <1>16. ReadTo(start, c, next) = p + V(1) + V(2) + V(3) + V(4)
    BY <1>4 DEF ReadTo
  <1>17. p + V(1) + V(2) + V(3) + V(4) = (p + U(1) + U(2) + U(3) + U(4)) + x
    <2> HIDE DEF U, V
    <2>1. U(1) \in Nat /\ U(2) \in Nat /\ U(3) \in Nat /\ U(4) \in Nat
      BY <1>1
    <2>2. CASE l = 1
      <3>1. V(1) = U(1) + x /\ V(2) = U(2) /\ V(3) = U(3) /\ V(4) = U(4)
        BY <1>15, <2>2
      <3> QED BY ONLY <2>1, <3>1, p \in Nat, x \in Nat
    <2>3. CASE l = 2
      <3>1. V(1) = U(1) /\ V(2) = U(2) + x /\ V(3) = U(3) /\ V(4) = U(4)
        BY <1>15, <2>3
      <3> QED BY ONLY <2>1, <3>1, p \in Nat, x \in Nat
    <2>4. CASE l = 3
      <3>1. V(1) = U(1) /\ V(2) = U(2) /\ V(3) = U(3) + x /\ V(4) = U(4)
        BY <1>15, <2>4
      <3> QED BY ONLY <2>1, <3>1, p \in Nat, x \in Nat
    <2>5. CASE l = 4
      <3>1. V(1) = U(1) /\ V(2) = U(2) /\ V(3) = U(3) /\ V(4) = U(4) + x
        BY <1>15, <2>5
      <3> QED BY ONLY <2>1, <3>1, p \in Nat, x \in Nat
    <2> QED BY <1>n, <2>2, <2>3, <2>4, <2>5
  <1> HIDE DEF U, V
  <1> QED BY <1>3, <1>5, <1>12, <1>13, <1>14, <1>16, <1>17 DEF OneMore
-----------------------------------------------------------------------------
(***************************************************************************)
(* The items of a whole file.                                              *)
(***************************************************************************)
LEMMA ClassItemTyped ==
  ASSUME NEW start \in Nat, NEW c, IsClass(c)
  PROVE  /\ ClassItem(start, c) \in Seq(Nat) /\ Len(ClassItem(start, c)) \in Nat
         /\ ClassDataOff(start, c) \in Nat
         /\ c.lists = Null => ClassDataOff(start, c) = 0
         /\ c.lists # Null => HasData(c) /\ ClassDataOff(start, c) = start + DataFrom(c)
  <1>1. ClassItem(start, c) \in Seq(Nat)
    <2>1. CASE c.lists = Null
      BY <2>1, EmptySeq DEF ClassItem
    <2>2. CASE c.lists # Null
      BY <2>2, ClassItemIs DEF HasData
    <2> QED BY <2>1, <2>2
  <1>2. c.lists # Null => HasData(c) /\ DataFrom(c) \in Nat
    BY ClassItemIs DEF HasData
  <1>3. c.lists # Null => ClassDataOff(start, c) = start + DataFrom(c)
    BY DEF ClassDataOff, DataFrom
  <1>4. c.lists = Null => ClassDataOff(start, c) = 0
    BY DEF ClassDataOff
  <1>5. ClassDataOff(start, c) \in Nat
    BY <1>2, <1>3, <1>4
  <1> QED BY <1>1, <1>2, <1>3, <1>4, <1>5, LenProperties

LEMMA ClassesTyped ==
  ASSUME NEW d, IsDex(d)
  PROVE  /\ Len(d.classes) \in Nat /\ DOMAIN d.classes = 1 .. Len(d.classes)
         /\ \A c \in 1 .. Len(d.classes) : IsClass(d.classes[c])
  BY DEF IsDex

LEMMA StringItemsAre ==
  ASSUME NEW d, IsDex(d)
  PROVE  /\ Len(d.strings) \in Nat /\ DOMAIN d.strings = 1 .. Len(d.strings)
         /\ \A k \in 1 .. Len(d.strings) : d.strings[k] \in AString
         /\ StringItems(d) \in Seq(Seq(Nat)) /\ Len(StringItems(d)) = Len(d.strings)
         /\ \A k \in 1 .. Len(d.strings) :
              StringItems(d)[k] = StringItem(d.strings[k]) /\ StringItems(d)[k] # <<>>
  <1>1. d.strings \in Seq(AString)
    BY DEF IsDex
  <1>2. PICK n \in Nat : n = Len(d.strings) /\ DOMAIN d.strings = 1 .. n
    BY <1>1, LenProperties
  <1>3. \A k \in 1 .. n : d.strings[k] \in AString
    BY <1>1, <1>2, ElementOfSeq
  <1>4. PICK ss : ss = StringItems(d)
    OBVIOUS
  <1>5. ss = [k \in 1 .. n |-> StringItem(d.strings[k])]
    BY <1>2, <1>4 DEF StringItems
  <1>6. \A k \in 1 .. n : ss[k] = StringItem(d.strings[k]) /\ ss[k] \in Seq(Nat) /\ ss[k] # <<>>
    BY <1>3, <1>5, AStringIs
  <1>7. ss \in Seq(Seq(Nat)) /\ Len(ss) = n
    <2>1. ss = [k \in 1 .. n |-> ss[k]]
      BY <1>5
    <2> QED BY ONLY <1>6, <2>1, FunctionIsSeq, n \in Nat
  <1> QED BY <1>2, <1>3, <1>4, <1>6, <1>7

LEMMA TypeListsAre ==
  ASSUME NEW d, IsDex(d)
  PROVE  /\ Len(d.protos) \in Nat /\ DOMAIN d.protos = 1 .. Len(d.protos)
         /\ d.protos \in Seq(AProto)
         /\ \A k \in 1 .. Len(d.protos) : /\ d.protos[k] \in AProto
                                          /\ d.protos[k].types \in Seq(Short)
                                          /\ d.protos[k].shorty \in Nat /\ d.protos[k].return \in Nat
         /\ TypeLists(d) \in Seq(Seq(Nat)) /\ Len(TypeLists(d)) = Len(d.protos)
         /\ \A k \in 1 .. Len(d.protos) : TypeLists(d)[k] = TypeList(d.protos[k].types)
  <1>1. d.protos \in Seq(AProto)
    BY DEF IsDex
  <1>2. PICK n \in Nat : n = Len(d.protos) /\ DOMAIN d.protos = 1 .. n
    BY <1>1, LenProperties
  <1>3. \A k \in 1 .. n : d.protos[k] \in AProto
    BY <1>1, <1>2, ElementOfSeq
  <1>8. \A p \in AProto : p.types \in Seq(Short) /\ p.shorty \in Nat /\ p.return \in Nat
    BY CountNat DEF AProto
  <1>4. PICK ss : ss = TypeLists(d)
    OBVIOUS
  <1>5. ss = [k \in 1 .. n |-> TypeList(d.protos[k].types)]
    BY <1>2, <1>4 DEF TypeLists
  <1>6. \A k \in 1 .. n : ss[k] = TypeList(d.protos[k].types) /\ ss[k] \in Seq(Nat)
    BY <1>3, <1>5, <1>8, TypeListIs
  <1>7. ss \in Seq(Seq(Nat)) /\ Len(ss) = n
    <2>1. ss = [k \in 1 .. n |-> ss[k]]
      BY <1>5
    <2> QED BY ONLY <1>6, <2>1, FunctionIsSeq, n \in Nat
  <1> QED BY <1>1, <1>2, <1>3, <1>4, <1>6, <1>7, <1>8

\* Where the tables start, and the items behind them.
LEMMA OffsAre ==
  ASSUME NEW d, IsDex(d)
  PROVE  /\ Len(d.types) \in Nat /\ Len(d.fields) \in Nat /\ Len(d.methods) \in Nat
         /\ DOMAIN d.types = 1 .. Len(d.types) /\ DOMAIN d.fields = 1 .. Len(d.fields)
         /\ DOMAIN d.methods = 1 .. Len(d.methods)
         /\ \A k \in 1 .. Len(d.types) : d.types[k] \in Nat
         /\ \A k \in 1 .. Len(d.fields) : d.fields[k] \in AnId
         /\ \A k \in 1 .. Len(d.methods) : d.methods[k] \in AnId
         /\ TypesOff(d) \in Nat /\ ProtosOff(d) \in Nat /\ FieldsOff(d) \in Nat
         /\ MethodsOff(d) \in Nat /\ ClassesOff(d) \in Nat /\ DataOff(d) \in Nat
         /\ ListsOff(d) \in Nat /\ ItemsOff(d) \in Nat
         /\ HeaderSize =< DataOff(d) /\ DataOff(d) =< ListsOff(d) /\ ListsOff(d) =< ItemsOff(d)
  <1>1. d.types \in Seq(Count) /\ d.fields \in Seq(AnId) /\ d.methods \in Seq(AnId)
    BY DEF IsDex
  <1>2. /\ Len(d.types) \in Nat /\ Len(d.fields) \in Nat /\ Len(d.methods) \in Nat
        /\ DOMAIN d.types = 1 .. Len(d.types) /\ DOMAIN d.fields = 1 .. Len(d.fields)
        /\ DOMAIN d.methods = 1 .. Len(d.methods)
    BY <1>1, LenProperties
  <1>3. /\ \A k \in 1 .. Len(d.types) : d.types[k] \in Nat
        /\ \A k \in 1 .. Len(d.fields) : d.fields[k] \in AnId
        /\ \A k \in 1 .. Len(d.methods) : d.methods[k] \in AnId
    BY <1>1, ElementOfSeq, CountNat
  <1>4. Len(d.strings) \in Nat /\ Len(d.protos) \in Nat /\ Len(d.classes) \in Nat
    BY StringItemsAre, TypeListsAre, ClassesTyped
  <1>5. Len(FlattenSeq(StringItems(d))) \in Nat /\ Len(FlattenSeq(TypeLists(d))) \in Nat
    BY StringItemsAre, TypeListsAre, FlattenTyped, LenProperties
  <1>6. TypesOff(d) \in Nat /\ HeaderSize =< TypesOff(d)
    BY <1>4 DEF TypesOff, HeaderSize
  <1>7. ProtosOff(d) \in Nat /\ HeaderSize =< ProtosOff(d)
    BY <1>2, <1>6 DEF ProtosOff, HeaderSize
  <1>8. FieldsOff(d) \in Nat /\ HeaderSize =< FieldsOff(d)
    BY <1>4, <1>7 DEF FieldsOff, HeaderSize
  <1>9. MethodsOff(d) \in Nat /\ HeaderSize =< MethodsOff(d)
    BY <1>2, <1>8 DEF MethodsOff, HeaderSize
  <1>10. ClassesOff(d) \in Nat /\ HeaderSize =< ClassesOff(d)
    BY <1>2, <1>9 DEF ClassesOff, HeaderSize
  <1>11. DataOff(d) \in Nat /\ HeaderSize =< DataOff(d)
    BY <1>4, <1>10 DEF DataOff, HeaderSize
  <1>12. ListsOff(d) \in Nat /\ DataOff(d) =< ListsOff(d)
    BY <1>5, <1>11 DEF ListsOff
  <1>13. ItemsOff(d) \in Nat /\ ListsOff(d) =< ItemsOff(d)
    BY <1>5, <1>12 DEF ItemsOff
  <1> QED BY <1>2, <1>3, <1>6, <1>7, <1>8, <1>9, <1>10, <1>11, <1>12, <1>13

\* The items of the classes lie one behind the other.
LEMMA StartsAre ==
  ASSUME NEW d, IsDex(d)
  PROVE  /\ Starts(d)[1] = ItemsOff(d)
         /\ \A c \in 1 .. Len(d.classes) + 1 : Starts(d)[c] \in Nat
         /\ \A c \in 1 .. Len(d.classes) :
              Starts(d)[c + 1] = Starts(d)[c] + Len(ClassItem(Starts(d)[c], d.classes[c]))
  <1>1. PICK n \in Nat : n = Len(d.classes)
    BY ClassesTyped
  <1>2. PICK a \in Nat : a = ItemsOff(d)
    BY OffsAre
  <1>3. \A c \in 1 .. n : \A s \in Nat : Len(ClassItem(s, d.classes[c])) \in Nat
    BY <1>1, ClassesTyped, ClassItemTyped
  <1> DEFINE L(c, s) == Len(ClassItem(s, d.classes[c]))
             Is(start) == start = [c \in 1 .. n + 1 |-> IF c = 1 THEN a
                                     ELSE start[c - 1] + L(c - 1, start[c - 1])]
  <1>4. \A c \in 1 .. n : \A s \in Nat : L(c, s) \in Nat
    BY <1>3
  <1> HIDE DEF L
  <1>5. \E start : Is(start)
    <2>1. PICK G : G = [p \in (1 .. n) \X Nat |-> p[2] + L(p[1], p[2])]
      OBVIOUS
    <2>2. G \in [(1 .. n) \X Nat -> Nat] /\ \A c \in 1 .. n : \A s \in Nat : G[<<c, s>>] = s + L(c, s)
      BY <1>4, <2>1
    <2>3. PICK g \in [0 .. n -> Nat] : \A k \in 0 .. n : g[k] = IF k = 0 THEN a ELSE G[<<k, g[k - 1]>>]
      <3>1. \A k \in 1 .. n : \A s \in Nat : G[<<k, s>>] \in Nat
        BY <1>4, <2>2
      <3>2. \E g \in [0 .. n -> Nat] : IsRecursion(g, a, n, G)
        BY ONLY <3>1, RecursionExists, n \in Nat, a \in Nat
      <3> QED BY ONLY <3>2 DEF IsRecursion
    <2>4. PICK start : start = [c \in 1 .. n + 1 |-> g[c - 1]]
      OBVIOUS
    <2>5. ASSUME NEW c \in 1 .. n + 1
          PROVE  start[c] = IF c = 1 THEN a ELSE start[c - 1] + L(c - 1, start[c - 1])
      <3>1. start[c] = g[c - 1] /\ c - 1 \in 0 .. n
        BY <2>4
      <3>2. CASE c = 1
        <4>1. 0 \in 0 .. n /\ c - 1 = 0
          BY <3>2
        <4>2. g[0] = a
          BY <2>3, <4>1
        <4> QED BY ONLY <3>1, <3>2, <4>1, <4>2
      <3>3. CASE c # 1
        <4>1. c - 1 \in 1 .. n /\ c - 1 \in 1 .. n + 1 /\ (c - 1) - 1 \in 0 .. n /\ c - 1 # 0
          BY <3>3
        <4>2. start[c - 1] = g[(c - 1) - 1] /\ g[(c - 1) - 1] \in Nat
          BY <2>4, <4>1
        <4>3. g[c - 1] = G[<<c - 1, g[(c - 1) - 1]>>]
          BY <2>3, <4>1
        <4>4. g[c - 1] = g[(c - 1) - 1] + L(c - 1, g[(c - 1) - 1])
          BY <2>2, <4>1, <4>2, <4>3
        <4> QED BY <3>1, <3>3, <4>2, <4>4
      <3> QED BY <3>2, <3>3
    <2>6. start = [c \in 1 .. n + 1 |-> start[c]]
      BY <2>4
    <2>7. Is(start)
      BY ONLY <2>5, <2>6
    <2> QED BY ONLY <2>7
  <1>6. Is(Starts(d))
    <2>1. Starts(d) = CHOOSE start : Is(start)
      BY <1>1, <1>2 DEF Starts, L
    <2> QED BY ONLY <1>5, <2>1
  <1>7. PICK start : start = Starts(d) /\ Is(start)
    BY <1>6
  <1>8. start[1] = a /\ \A c \in 1 .. n : start[c + 1] = start[c] + L(c, start[c])
    <2>1. \A c \in 1 .. n + 1 : start[c] = IF c = 1 THEN a ELSE start[c - 1] + L(c - 1, start[c - 1])
      BY <1>7
    <2>2. ASSUME NEW c \in 1 .. n PROVE start[c + 1] = start[c] + L(c, start[c])
      <3>1. c + 1 \in 1 .. n + 1 /\ c + 1 # 1 /\ (c + 1) - 1 = c
        OBVIOUS
      <3> QED BY <2>1, <3>1
    <2>3. 1 \in 1 .. n + 1
      OBVIOUS
    <2> QED BY <2>1, <2>2, <2>3
  <1>9. \A c \in 1 .. n + 1 : start[c] \in Nat
    <2> DEFINE S == {j \in Nat : j =< n => start[j + 1] \in Nat}
    <2>1. 0 \in S
      BY <1>8
    <2>2. ASSUME NEW j \in Nat, j \in S PROVE j + 1 \in S
      <3> SUFFICES ASSUME j + 1 =< n PROVE start[(j + 1) + 1] \in Nat
        OBVIOUS
      <3>1. j + 1 \in 1 .. n /\ start[j + 1] \in Nat
        BY <2>2
      <3>2. start[(j + 1) + 1] = start[j + 1] + L(j + 1, start[j + 1])
        BY <1>8, <3>1
      <3>3. L(j + 1, start[j + 1]) \in Nat
        BY <1>4, <3>1
      <3> QED BY <3>1, <3>2, <3>3
    <2> HIDE DEF S
    <2>3. Nat \subseteq S
      BY <2>1, <2>2, Induction
    <2>4. ASSUME NEW c \in 1 .. n + 1 PROVE start[c] \in Nat
      <3>1. c - 1 \in Nat /\ c - 1 =< n /\ (c - 1) + 1 = c
        OBVIOUS
      <3>2. c - 1 \in S
        BY <2>3, <3>1
      <3> QED BY <3>1, <3>2 DEF S
    <2> QED BY <2>4
  <1> QED BY <1>1, <1>2, <1>7, <1>8, <1>9 DEF L

LEMMA ClassItemsAre ==
  ASSUME NEW d, IsDex(d)
  PROVE  /\ ClassItems(d) \in Seq(Seq(Nat)) /\ Len(ClassItems(d)) = Len(d.classes)
         /\ \A c \in 1 .. Len(d.classes) :
              /\ ClassItems(d)[c] = ClassItem(Starts(d)[c], d.classes[c])
              /\ Starts(d)[c] = ItemsOff(d) + Upto(ClassItems(d), c - 1)
         /\ MapOff(d) = ItemsOff(d) + Len(FlattenSeq(ClassItems(d)))
         /\ FlattenSeq(ClassItems(d)) \in Seq(Nat) /\ MapOff(d) \in Nat
  <1>1. PICK n \in Nat : n = Len(d.classes) /\ DOMAIN d.classes = 1 .. n
    BY ClassesTyped
  <1>2. PICK a \in Nat : a = ItemsOff(d)
    BY OffsAre
  <1>3. PICK start : start = Starts(d)
    OBVIOUS
  <1>4. /\ start[1] = a /\ \A c \in 1 .. n + 1 : start[c] \in Nat
        /\ \A c \in 1 .. n : start[c + 1] = start[c] + Len(ClassItem(start[c], d.classes[c]))
    BY <1>1, <1>2, <1>3, StartsAre
  <1>5. PICK ss : ss = ClassItems(d)
    OBVIOUS
  <1>6. ss = [c \in 1 .. n |-> ClassItem(start[c], d.classes[c])]
    BY <1>1, <1>3, <1>5 DEF ClassItems
  <1>7. \A c \in 1 .. n : ss[c] = ClassItem(start[c], d.classes[c]) /\ ss[c] \in Seq(Nat)
    <2> TAKE c \in 1 .. n
    <2>1. start[c] \in Nat /\ IsClass(d.classes[c])
      BY <1>1, <1>4, ClassesTyped
    <2>2. ClassItem(start[c], d.classes[c]) \in Seq(Nat)
      BY <2>1, ClassItemTyped
    <2> QED BY <1>6, <2>2
  <1>8. ss \in Seq(Seq(Nat)) /\ Len(ss) = n
    <2>1. ss = [k \in 1 .. n |-> ss[k]]
      BY <1>6
    <2> QED BY ONLY <1>7, <2>1, FunctionIsSeq, n \in Nat
  <1>9. /\ Upto(ss, 0) = 0 /\ Upto(ss, n) = Len(FlattenSeq(ss))
        /\ \A k \in 1 .. n : Upto(ss, k) = Upto(ss, k - 1) + Len(ss[k])
        /\ \A k \in 0 .. n : Upto(ss, k) \in Nat
        /\ \A k \in 1 .. n : Len(ss[k]) \in Nat
    BY ONLY <1>8, UptoSteps
  <1> DEFINE S == {j \in Nat : j =< n => start[j + 1] = a + Upto(ss, j)}
  <1>10. 0 \in S
    BY <1>4, <1>9
  <1>11. ASSUME NEW j \in Nat, j \in S PROVE j + 1 \in S
    <2> SUFFICES ASSUME j + 1 =< n PROVE start[(j + 1) + 1] = a + Upto(ss, j + 1)
      OBVIOUS
    <2>1. j + 1 \in 1 .. n /\ start[j + 1] = a + Upto(ss, j) /\ (j + 1) - 1 = j /\ j \in 0 .. n
      BY <1>11
    <2>2. start[(j + 1) + 1] = start[j + 1] + Len(ss[j + 1])
      BY <1>4, <1>7, <2>1
    <2>3. Upto(ss, j + 1) = Upto(ss, j) + Len(ss[j + 1])
      BY <1>9, <2>1
    <2>4. Upto(ss, j) \in Nat /\ Len(ss[j + 1]) \in Nat
      BY <1>9, <2>1
    <2> QED BY <2>1, <2>2, <2>3, <2>4
  <1> HIDE DEF S
  <1>12. Nat \subseteq S
    BY <1>10, <1>11, Induction
  <1>13. \A c \in 1 .. n : start[c] = a + Upto(ss, c - 1)
    <2> TAKE c \in 1 .. n
    <2>1. c - 1 \in Nat /\ c - 1 =< n /\ (c - 1) + 1 = c
      OBVIOUS
    <2> QED BY <1>12, <2>1 DEF S
  <1>14. start[n + 1] = a + Upto(ss, n)
    BY <1>12 DEF S
  <1>15. MapOff(d) = a + Len(FlattenSeq(ss)) /\ Upto(ss, n) \in Nat
    BY <1>1, <1>3, <1>9, <1>14 DEF MapOff
  <1>16. FlattenSeq(ss) \in Seq(Nat) /\ MapOff(d) \in Nat
    BY <1>8, <1>9, <1>15, FlattenTyped
  <1> QED BY <1>1, <1>2, <1>3, <1>5, <1>7, <1>8, <1>13, <1>15, <1>16
-----------------------------------------------------------------------------
(***************************************************************************)
(* The tables of ids, entry by entry.                                      *)
(***************************************************************************)
LEMMA ProtoEntryIs ==
  ASSUME NEW d, IsDex(d), NEW k \in 1 .. Len(d.protos)
  PROVE  /\ OffsetOf(ListsOff(d), TypeLists(d), k) \in Nat
         /\ ProtoEntry(d, k) \in Seq(Nat) /\ Len(ProtoEntry(d, k)) = 12
         /\ \A f \in Seq(Nat) : \A o : Lies(f, o, ProtoEntry(d, k)) =>
              /\ Lies(f, o, U4(d.protos[k].shorty)) /\ Lies(f, o + 4, U4(d.protos[k].return))
              /\ Lies(f, o + 8, U4(OffsetOf(ListsOff(d), TypeLists(d), k)))
  <1>1. PICK x \in Nat, y \in Nat : x = d.protos[k].shorty /\ y = d.protos[k].return
    BY TypeListsAre
  <1>2. PICK z \in Nat : z = OffsetOf(ListsOff(d), TypeLists(d), k)
    <2>1. TypeLists(d) \in Seq(Seq(Nat)) /\ k \in 1 .. Len(TypeLists(d)) /\ ListsOff(d) \in Nat
      BY TypeListsAre, OffsAre
    <2> QED BY ONLY <2>1, OffsetIs
  <1>3. PICK s : s = U4(x) \o U4(y) \o U4(z)
    OBVIOUS
  <1>4. ProtoEntry(d, k) = s
    BY <1>1, <1>2, <1>3 DEF ProtoEntry
  <1>5. /\ s \in Seq(Nat) /\ Len(s) = 12
        /\ \A f \in Seq(Nat) : \A o : Lies(f, o, s) =>
             Lies(f, o, U4(x)) /\ Lies(f, o + 4, U4(y)) /\ Lies(f, o + 8, U4(z))
    BY ONLY <1>3, ThreeU4, x \in Nat, y \in Nat, z \in Nat
  <1> QED BY <1>1, <1>2, <1>4, <1>5

LEMMA ClassEntryIs ==
  ASSUME NEW d, IsDex(d), NEW c \in 1 .. Len(d.classes)
  PROVE  /\ ClassEntry(d, c) \in Seq(Nat) /\ Len(ClassEntry(d, c)) = 32
         /\ \A f \in Seq(Nat) : \A o : Lies(f, o, ClassEntry(d, c)) =>
              /\ Lies(f, o, U4(d.classes[c].class)) /\ Lies(f, o + 8, U4(d.classes[c].super))
              /\ Lies(f, o + 24, U4(ClassDataOff(Starts(d)[c], d.classes[c])))
  <1>1. PICK x \in Nat, y \in Nat : x = d.classes[c].class /\ y = d.classes[c].super
    <2>1. IsClass(d.classes[c])
      BY ClassesTyped
    <2> QED BY <2>1, CountNat DEF IsClass
  <1>2. PICK z \in Nat : z = ClassDataOff(Starts(d)[c], d.classes[c])
    <2>1. IsClass(d.classes[c]) /\ Starts(d)[c] \in Nat
      BY ClassesTyped, StartsAre
    <2> QED BY <2>1, ClassItemTyped
  <1>3. PICK s : s = U4(x) \o U4(1) \o U4(y) \o U4(0) \o U4(0) \o U4(0) \o U4(z) \o U4(0)
    OBVIOUS
  <1>4. ClassEntry(d, c) = s
    BY <1>1, <1>2, <1>3 DEF ClassEntry
  <1>5. /\ s \in Seq(Nat) /\ Len(s) = 32
        /\ \A f \in Seq(Nat) : \A o : Lies(f, o, s) =>
             Lies(f, o, U4(x)) /\ Lies(f, o + 8, U4(y)) /\ Lies(f, o + 24, U4(z))
    BY ONLY <1>3, ClassNumbers, x \in Nat, y \in Nat, z \in Nat
  <1> QED BY <1>1, <1>2, <1>4, <1>5

LEMMA StringIdsAre ==
  ASSUME NEW d, IsDex(d)
  PROVE  /\ FlattenSeq(StringIds(d)) \in Seq(Nat) /\ Len(FlattenSeq(StringIds(d))) = 4 * Len(d.strings)
         /\ \A f \in Seq(Nat) : \A o : Lies(f, o, FlattenSeq(StringIds(d))) =>
              \A k \in 1 .. Len(d.strings) : Lies(f, o + 4 * (k - 1), U4(OffsetOf(DataOff(d), StringItems(d), k)))
  <1>1. PICK n \in Nat : n = Len(d.strings) /\ DOMAIN d.strings = 1 .. n
    BY StringItemsAre
  <1>2. PICK ss : ss = StringIds(d)
    OBVIOUS
  <1>3. ss = [k \in 1 .. n |-> U4(OffsetOf(DataOff(d), StringItems(d), k))]
    BY <1>1, <1>2 DEF StringIds
  <1>4. \A k \in 1 .. n : U4(OffsetOf(DataOff(d), StringItems(d), k)) \in Seq(Nat) /\ Len(U4(OffsetOf(DataOff(d), StringItems(d), k))) = 4
    <2>1. StringItems(d) \in Seq(Seq(Nat)) /\ Len(StringItems(d)) = n /\ DataOff(d) \in Nat
      BY <1>1, StringItemsAre, OffsAre
    <2> TAKE k \in 1 .. n
    <2>2. OffsetOf(DataOff(d), StringItems(d), k) \in Nat
      BY ONLY <2>1, OffsetIs, k \in 1 .. n
    <2> QED BY ONLY <2>2, U4Is
  <1>5. \A k \in 1 .. n : ss[k] = U4(OffsetOf(DataOff(d), StringItems(d), k)) /\ ss[k] \in Seq(Nat) /\ Len(ss[k]) = 4
    BY <1>3, <1>4
  <1>6. ss = [k \in 1 .. n |-> ss[k]]
    BY <1>3
  <1>7. /\ FlattenSeq(ss) \in Seq(Nat) /\ Len(FlattenSeq(ss)) = 4 * n
        /\ \A f \in Seq(Nat) : \A o : Lies(f, o, FlattenSeq(ss)) =>
             \A k \in 1 .. n : Lies(f, o + 4 * (k - 1), ss[k])
    BY ONLY <1>5, <1>6, Entries, n \in Nat, 4 \in Nat
  <1> QED BY <1>1, <1>2, <1>5, <1>7

LEMMA TypeIdsAre ==
  ASSUME NEW d, IsDex(d)
  PROVE  /\ FlattenSeq(TypeIds(d)) \in Seq(Nat) /\ Len(FlattenSeq(TypeIds(d))) = 4 * Len(d.types)
         /\ \A f \in Seq(Nat) : \A o : Lies(f, o, FlattenSeq(TypeIds(d))) =>
              \A k \in 1 .. Len(d.types) : Lies(f, o + 4 * (k - 1), U4(d.types[k]))
  <1>1. PICK n \in Nat : n = Len(d.types) /\ DOMAIN d.types = 1 .. n
    BY OffsAre
  <1>2. PICK ss : ss = TypeIds(d)
    OBVIOUS
  <1>3. ss = [k \in 1 .. n |-> U4(d.types[k])]
    BY <1>1, <1>2 DEF TypeIds
  <1>4. \A k \in 1 .. n : U4(d.types[k]) \in Seq(Nat) /\ Len(U4(d.types[k])) = 4
    BY <1>1, OffsAre, U4Is
  <1>5. \A k \in 1 .. n : ss[k] = U4(d.types[k]) /\ ss[k] \in Seq(Nat) /\ Len(ss[k]) = 4
    BY <1>3, <1>4
  <1>6. ss = [k \in 1 .. n |-> ss[k]]
    BY <1>3
  <1>7. /\ FlattenSeq(ss) \in Seq(Nat) /\ Len(FlattenSeq(ss)) = 4 * n
        /\ \A f \in Seq(Nat) : \A o : Lies(f, o, FlattenSeq(ss)) =>
             \A k \in 1 .. n : Lies(f, o + 4 * (k - 1), ss[k])
    BY ONLY <1>5, <1>6, Entries, n \in Nat, 4 \in Nat
  <1> QED BY <1>1, <1>2, <1>5, <1>7

LEMMA ProtoIdsAre ==
  ASSUME NEW d, IsDex(d)
  PROVE  /\ FlattenSeq(ProtoIds(d)) \in Seq(Nat) /\ Len(FlattenSeq(ProtoIds(d))) = 12 * Len(d.protos)
         /\ \A f \in Seq(Nat) : \A o : Lies(f, o, FlattenSeq(ProtoIds(d))) =>
              \A k \in 1 .. Len(d.protos) : Lies(f, o + 12 * (k - 1), ProtoEntry(d, k))
  <1>1. PICK n \in Nat : n = Len(d.protos) /\ DOMAIN d.protos = 1 .. n
    BY TypeListsAre
  <1>2. PICK ss : ss = ProtoIds(d)
    OBVIOUS
  <1>3. ss = [k \in 1 .. n |-> ProtoEntry(d, k)]
    BY <1>1, <1>2 DEF ProtoIds
  <1>4. \A k \in 1 .. n : ProtoEntry(d, k) \in Seq(Nat) /\ Len(ProtoEntry(d, k)) = 12
    BY <1>1, ProtoEntryIs
  <1>5. \A k \in 1 .. n : ss[k] = ProtoEntry(d, k) /\ ss[k] \in Seq(Nat) /\ Len(ss[k]) = 12
    BY <1>3, <1>4
  <1>6. ss = [k \in 1 .. n |-> ss[k]]
    BY <1>3
  <1>7. /\ FlattenSeq(ss) \in Seq(Nat) /\ Len(FlattenSeq(ss)) = 12 * n
        /\ \A f \in Seq(Nat) : \A o : Lies(f, o, FlattenSeq(ss)) =>
             \A k \in 1 .. n : Lies(f, o + 12 * (k - 1), ss[k])
    BY ONLY <1>5, <1>6, Entries, n \in Nat, 12 \in Nat
  <1> QED BY <1>1, <1>2, <1>5, <1>7

LEMMA FieldIdsAre ==
  ASSUME NEW d, IsDex(d)
  PROVE  /\ FlattenSeq(FieldIds(d)) \in Seq(Nat) /\ Len(FlattenSeq(FieldIds(d))) = 8 * Len(d.fields)
         /\ \A f \in Seq(Nat) : \A o : Lies(f, o, FlattenSeq(FieldIds(d))) =>
              \A k \in 1 .. Len(d.fields) : Lies(f, o + 8 * (k - 1), IdEntry(d.fields[k]))
  <1>1. PICK n \in Nat : n = Len(d.fields) /\ DOMAIN d.fields = 1 .. n
    BY OffsAre
  <1>2. PICK ss : ss = FieldIds(d)
    OBVIOUS
  <1>3. ss = [k \in 1 .. n |-> IdEntry(d.fields[k])]
    BY <1>1, <1>2 DEF FieldIds
  <1>4. \A k \in 1 .. n : IdEntry(d.fields[k]) \in Seq(Nat) /\ Len(IdEntry(d.fields[k])) = 8
    BY <1>1, OffsAre, IdEntryIs
  <1>5. \A k \in 1 .. n : ss[k] = IdEntry(d.fields[k]) /\ ss[k] \in Seq(Nat) /\ Len(ss[k]) = 8
    BY <1>3, <1>4
  <1>6. ss = [k \in 1 .. n |-> ss[k]]
    BY <1>3
  <1>7. /\ FlattenSeq(ss) \in Seq(Nat) /\ Len(FlattenSeq(ss)) = 8 * n
        /\ \A f \in Seq(Nat) : \A o : Lies(f, o, FlattenSeq(ss)) =>
             \A k \in 1 .. n : Lies(f, o + 8 * (k - 1), ss[k])
    BY ONLY <1>5, <1>6, Entries, n \in Nat, 8 \in Nat
  <1> QED BY <1>1, <1>2, <1>5, <1>7

LEMMA MethodIdsAre ==
  ASSUME NEW d, IsDex(d)
  PROVE  /\ FlattenSeq(MethodIds(d)) \in Seq(Nat) /\ Len(FlattenSeq(MethodIds(d))) = 8 * Len(d.methods)
         /\ \A f \in Seq(Nat) : \A o : Lies(f, o, FlattenSeq(MethodIds(d))) =>
              \A k \in 1 .. Len(d.methods) : Lies(f, o + 8 * (k - 1), IdEntry(d.methods[k]))
  <1>1. PICK n \in Nat : n = Len(d.methods) /\ DOMAIN d.methods = 1 .. n
    BY OffsAre
  <1>2. PICK ss : ss = MethodIds(d)
    OBVIOUS
  <1>3. ss = [k \in 1 .. n |-> IdEntry(d.methods[k])]
    BY <1>1, <1>2 DEF MethodIds
  <1>4. \A k \in 1 .. n : IdEntry(d.methods[k]) \in Seq(Nat) /\ Len(IdEntry(d.methods[k])) = 8
    BY <1>1, OffsAre, IdEntryIs
  <1>5. \A k \in 1 .. n : ss[k] = IdEntry(d.methods[k]) /\ ss[k] \in Seq(Nat) /\ Len(ss[k]) = 8
    BY <1>3, <1>4
  <1>6. ss = [k \in 1 .. n |-> ss[k]]
    BY <1>3
  <1>7. /\ FlattenSeq(ss) \in Seq(Nat) /\ Len(FlattenSeq(ss)) = 8 * n
        /\ \A f \in Seq(Nat) : \A o : Lies(f, o, FlattenSeq(ss)) =>
             \A k \in 1 .. n : Lies(f, o + 8 * (k - 1), ss[k])
    BY ONLY <1>5, <1>6, Entries, n \in Nat, 8 \in Nat
  <1> QED BY <1>1, <1>2, <1>5, <1>7

LEMMA ClassDefsAre ==
  ASSUME NEW d, IsDex(d)
  PROVE  /\ FlattenSeq(ClassDefs(d)) \in Seq(Nat) /\ Len(FlattenSeq(ClassDefs(d))) = 32 * Len(d.classes)
         /\ \A f \in Seq(Nat) : \A o : Lies(f, o, FlattenSeq(ClassDefs(d))) =>
              \A k \in 1 .. Len(d.classes) : Lies(f, o + 32 * (k - 1), ClassEntry(d, k))
  <1>1. PICK n \in Nat : n = Len(d.classes) /\ DOMAIN d.classes = 1 .. n
    BY ClassesTyped
  <1>2. PICK ss : ss = ClassDefs(d)
    OBVIOUS
  <1>3. ss = [k \in 1 .. n |-> ClassEntry(d, k)]
    BY <1>1, <1>2 DEF ClassDefs
  <1>4. \A k \in 1 .. n : ClassEntry(d, k) \in Seq(Nat) /\ Len(ClassEntry(d, k)) = 32
    BY <1>1, ClassEntryIs
  <1>5. \A k \in 1 .. n : ss[k] = ClassEntry(d, k) /\ ss[k] \in Seq(Nat) /\ Len(ss[k]) = 32
    BY <1>3, <1>4
  <1>6. ss = [k \in 1 .. n |-> ss[k]]
    BY <1>3
  <1>7. /\ FlattenSeq(ss) \in Seq(Nat) /\ Len(FlattenSeq(ss)) = 32 * n
        /\ \A f \in Seq(Nat) : \A o : Lies(f, o, FlattenSeq(ss)) =>
             \A k \in 1 .. n : Lies(f, o + 32 * (k - 1), ss[k])
    BY ONLY <1>5, <1>6, Entries, n \in Nat, 32 \in Nat
  <1> QED BY <1>1, <1>2, <1>5, <1>7

LEMMA MapListIs ==
  ASSUME NEW d, IsDex(d)
  PROVE  MapList(d) \in Seq(Nat)
  <1>1. PICK s \in Seq(Nat), l \in Seq(Nat) :
          /\ s = MapItem(TYPE_STRING_DATA_ITEM, Len(d.strings), DataOff(d))
          /\ l = MapItem(TYPE_TYPE_LIST, Len(d.protos), ListsOff(d))
    <2>1. TYPE_STRING_DATA_ITEM \in Nat /\ TYPE_TYPE_LIST \in Nat
      BY DEF TYPE_STRING_DATA_ITEM, TYPE_TYPE_LIST
    <2>2. Len(d.strings) \in Nat /\ DataOff(d) \in Nat /\ Len(d.protos) \in Nat /\ ListsOff(d) \in Nat
      BY StringItemsAre, TypeListsAre, OffsAre
    <2> QED BY <2>1, <2>2, MapItemIs
  <1>2. U4(1) \in Seq(Nat) /\ U4(2) \in Seq(Nat)
    BY U4Is
  <1>3. U4(1) \o s \in Seq(Nat) /\ U4(2) \o l \o s \in Seq(Nat)
    BY <1>2, Concat2, Concat3
  <1> QED BY <1>1, <1>3 DEF MapList

InRow(a, b, c, e) ==
  \A f \in Seq(Nat) : \A o : Lies(f, o, a \o b \o c \o e) =>
    /\ Lies(f, o, a) /\ Lies(f, o + Len(a), b)
    /\ Lies(f, o + (Len(a) + Len(b)), c) /\ Lies(f, o + (Len(a) + Len(b) + Len(c)), e)

LEMMA RowOfFour ==
  ASSUME NEW a \in Seq(Nat), NEW b \in Seq(Nat), NEW c \in Seq(Nat), NEW e \in Seq(Nat)
  PROVE  InRow(a, b, c, e)
  BY Concat4 DEF InRow

\* Ten items lie one behind the other.
AreInRow(f, s1, s2, s3, s4, s5, s6, s7, s8, s9, s10, p2, p3, p4, p5, p6, p7, p8, p9, p10) ==
  /\ p2 = Len(s1) /\ p3 = p2 + Len(s2) /\ p4 = p3 + Len(s3) /\ p5 = p4 + Len(s4)
  /\ p6 = p5 + Len(s5) /\ p7 = p6 + Len(s6) /\ p8 = p7 + Len(s7)
  /\ p9 = p8 + Len(s8) /\ p10 = p9 + Len(s9)
  /\ Lies(f, 0, s1) /\ Lies(f, p2, s2) /\ Lies(f, p3, s3) /\ Lies(f, p4, s4)
  /\ Lies(f, p5, s5) /\ Lies(f, p6, s6) /\ Lies(f, p7, s7) /\ Lies(f, p8, s8)
  /\ Lies(f, p9, s9) /\ Lies(f, p10, s10) /\ p10 =< Len(f)

LEMMA Concat10 ==
  ASSUME NEW s1 \in Seq(Nat), NEW s2 \in Seq(Nat), NEW s3 \in Seq(Nat), NEW s4 \in Seq(Nat),
         NEW s5 \in Seq(Nat), NEW s6 \in Seq(Nat), NEW s7 \in Seq(Nat), NEW s8 \in Seq(Nat),
         NEW s9 \in Seq(Nat), NEW s10 \in Seq(Nat), NEW f,
         f = s1 \o s2 \o s3 \o s4 \o s5 \o s6 \o s7 \o s8 \o s9 \o s10
  PROVE  /\ f \in Seq(Nat)
         /\ \E p2, p3, p4, p5, p6, p7, p8, p9, p10 \in Nat :
              AreInRow(f, s1, s2, s3, s4, s5, s6, s7, s8, s9, s10, p2, p3, p4, p5, p6, p7, p8, p9, p10)
  <1>1. PICK x \in Seq(Nat) : x = s1 \o s2 \o s3 \o s4
    BY Concat4
  <1>2. PICK y \in Seq(Nat) : y = x \o s5 \o s6 \o s7
    BY Concat4
  <1>3. f = y \o s8 \o s9 \o s10
    BY <1>1, <1>2
  <1>4. f \in Seq(Nat)
    BY ONLY <1>3, Concat4, y \in Seq(Nat), s8 \in Seq(Nat), s9 \in Seq(Nat), s10 \in Seq(Nat)
  <1>5. Lies(f, 0, f)
    BY <1>4, LiesAll
  <1>6. /\ Lies(f, 0, y) /\ Lies(f, 0 + Len(y), s8)
        /\ Lies(f, 0 + (Len(y) + Len(s8)), s9) /\ Lies(f, 0 + (Len(y) + Len(s8) + Len(s9)), s10)
    <2>1. Lies(f, 0, y \o s8 \o s9 \o s10)
      BY <1>3, <1>5
    <2>2. InRow(y, s8, s9, s10)
      BY ONLY RowOfFour, y \in Seq(Nat), s8 \in Seq(Nat), s9 \in Seq(Nat), s10 \in Seq(Nat)
    <2> QED BY ONLY <1>4, <2>1, <2>2 DEF InRow
  <1>7. /\ Lies(f, 0, x) /\ Lies(f, 0 + Len(x), s5)
        /\ Lies(f, 0 + (Len(x) + Len(s5)), s6) /\ Lies(f, 0 + (Len(x) + Len(s5) + Len(s6)), s7)
    <2>1. Lies(f, 0, x \o s5 \o s6 \o s7)
      BY <1>2, <1>6
    <2>2. InRow(x, s5, s6, s7)
      BY ONLY RowOfFour, x \in Seq(Nat), s5 \in Seq(Nat), s6 \in Seq(Nat), s7 \in Seq(Nat)
    <2> QED BY ONLY <1>4, <2>1, <2>2 DEF InRow
  <1>8. /\ Lies(f, 0, s1) /\ Lies(f, 0 + Len(s1), s2)
        /\ Lies(f, 0 + (Len(s1) + Len(s2)), s3) /\ Lies(f, 0 + (Len(s1) + Len(s2) + Len(s3)), s4)
    <2>1. Lies(f, 0, s1 \o s2 \o s3 \o s4)
      BY <1>1, <1>7
    <2>2. InRow(s1, s2, s3, s4)
      BY ONLY RowOfFour, s1 \in Seq(Nat), s2 \in Seq(Nat), s3 \in Seq(Nat), s4 \in Seq(Nat)
    <2> QED BY ONLY <1>4, <2>1, <2>2 DEF InRow
  <1>9. /\ Len(x) = Len(s1) + Len(s2) + Len(s3) + Len(s4)
        /\ Len(y) = Len(x) + Len(s5) + Len(s6) + Len(s7)
    <2>1. Len(x) = Len(s1) + Len(s2) + Len(s3) + Len(s4)
      BY ONLY <1>1, Concat4, s1 \in Seq(Nat), s2 \in Seq(Nat), s3 \in Seq(Nat), s4 \in Seq(Nat)
    <2>2. Len(y) = Len(x) + Len(s5) + Len(s6) + Len(s7)
      BY ONLY <1>2, Concat4, x \in Seq(Nat), s5 \in Seq(Nat), s6 \in Seq(Nat), s7 \in Seq(Nat)
    <2> QED BY <2>1, <2>2
  <1>10. PICK p2 \in Nat : p2 = Len(s1)
    BY LenProperties
  <1>11. PICK p3 \in Nat : p3 = p2 + Len(s2)
    BY LenProperties
  <1>12. PICK p4 \in Nat : p4 = p3 + Len(s3)
    BY LenProperties
  <1>13. PICK p5 \in Nat : p5 = p4 + Len(s4)
    BY LenProperties
  <1>14. PICK p6 \in Nat : p6 = p5 + Len(s5)
    BY LenProperties
  <1>15. PICK p7 \in Nat : p7 = p6 + Len(s6)
    BY LenProperties
  <1>16. PICK p8 \in Nat : p8 = p7 + Len(s7)
    BY LenProperties
  <1>17. PICK p9 \in Nat : p9 = p8 + Len(s8)
    BY LenProperties
  <1>18. PICK p10 \in Nat : p10 = p9 + Len(s9)
    BY LenProperties
  <1>19. /\ Len(s2) \in Nat /\ Len(s3) \in Nat /\ Len(s4) \in Nat /\ Len(s5) \in Nat
         /\ Len(s6) \in Nat /\ Len(s7) \in Nat /\ Len(s8) \in Nat /\ Len(s9) \in Nat
         /\ Len(s10) \in Nat /\ Len(f) \in Nat
    BY <1>4, LenProperties
  <1>20. /\ 0 + Len(s1) = p2 /\ 0 + (Len(s1) + Len(s2)) = p3 /\ 0 + (Len(s1) + Len(s2) + Len(s3)) = p4
         /\ Len(x) = p5
    BY ONLY <1>9, <1>10, <1>11, <1>12, <1>13, <1>19, p2 \in Nat, p3 \in Nat, p4 \in Nat
  <1>21. /\ 0 + Len(x) = p5 /\ 0 + (Len(x) + Len(s5)) = p6
         /\ 0 + (Len(x) + Len(s5) + Len(s6)) = p7 /\ Len(y) = p8
    <2>1. Len(x) = p5 /\ Len(y) = Len(x) + Len(s5) + Len(s6) + Len(s7)
      BY ONLY <1>9, <1>20
    <2>2. Len(s5) \in Nat /\ Len(s6) \in Nat /\ Len(s7) \in Nat
      BY ONLY <1>19
    <2> QED BY ONLY <2>1, <2>2, <1>14, <1>15, <1>16, p5 \in Nat, p6 \in Nat, p7 \in Nat
  <1>22. /\ 0 + Len(y) = p8 /\ 0 + (Len(y) + Len(s8)) = p9
         /\ 0 + (Len(y) + Len(s8) + Len(s9)) = p10
    BY ONLY <1>21, <1>17, <1>18, <1>19, p8 \in Nat, p9 \in Nat
  <1>23. /\ Lies(f, 0, s1) /\ Lies(f, p2, s2) /\ Lies(f, p3, s3) /\ Lies(f, p4, s4)
         /\ Lies(f, p5, s5) /\ Lies(f, p6, s6) /\ Lies(f, p7, s7) /\ Lies(f, p8, s8)
         /\ Lies(f, p9, s9) /\ Lies(f, p10, s10)
    BY ONLY <1>6, <1>7, <1>8, <1>20, <1>21, <1>22
  <1>24. p10 =< Len(f)
    <2>1. p10 + Len(s10) =< Len(f)
      BY ONLY <1>23 DEF Lies
    <2> QED BY ONLY <2>1, <1>19, p10 \in Nat
  <1>25. /\ p2 = Len(s1) /\ p3 = p2 + Len(s2) /\ p4 = p3 + Len(s3) /\ p5 = p4 + Len(s4)
         /\ p6 = p5 + Len(s5) /\ p7 = p6 + Len(s6) /\ p8 = p7 + Len(s7)
         /\ p9 = p8 + Len(s8) /\ p10 = p9 + Len(s9)
    BY ONLY <1>10, <1>11, <1>12, <1>13, <1>14, <1>15, <1>16, <1>17, <1>18
  <1>26. AreInRow(f, s1, s2, s3, s4, s5, s6, s7, s8, s9, s10, p2, p3, p4, p5, p6, p7, p8, p9, p10)
    BY ONLY <1>23, <1>24, <1>25 DEF AreInRow
  <1> QED BY ONLY <1>4, <1>26, p2 \in Nat, p3 \in Nat, p4 \in Nat, p5 \in Nat,
                  p6 \in Nat, p7 \in Nat, p8 \in Nat, p9 \in Nat, p10 \in Nat
LEMMA Layout ==
  ASSUME NEW d, IsDex(d), NEW f, f = FileOf(d).buf
  PROVE  /\ f \in Seq(Nat) /\ HeaderSize \in Nat /\ HeaderSize + Len(f) \in Count
         /\ MapOff(d) \in Nat /\ MapOff(d) =< HeaderSize + Len(f)
         /\ Lies(f, 0, FlattenSeq(StringIds(d)))
         /\ Lies(f, TypesOff(d) - HeaderSize, FlattenSeq(TypeIds(d)))
         /\ Lies(f, ProtosOff(d) - HeaderSize, FlattenSeq(ProtoIds(d)))
         /\ Lies(f, FieldsOff(d) - HeaderSize, FlattenSeq(FieldIds(d)))
         /\ Lies(f, MethodsOff(d) - HeaderSize, FlattenSeq(MethodIds(d)))
         /\ Lies(f, ClassesOff(d) - HeaderSize, FlattenSeq(ClassDefs(d)))
         /\ Lies(f, DataOff(d) - HeaderSize, FlattenSeq(StringItems(d)))
         /\ Lies(f, ListsOff(d) - HeaderSize, FlattenSeq(TypeLists(d)))
         /\ Lies(f, ItemsOff(d) - HeaderSize, FlattenSeq(ClassItems(d)))
         /\ Lies(f, MapOff(d) - HeaderSize, MapList(d))
  <1>1. PICK s1 \in Seq(Nat) : s1 = FlattenSeq(StringIds(d)) /\ Len(s1) = 4 * Len(d.strings)
    BY StringIdsAre
  <1>2. PICK s2 \in Seq(Nat) : s2 = FlattenSeq(TypeIds(d)) /\ Len(s2) = 4 * Len(d.types)
    BY TypeIdsAre
  <1>3. PICK s3 \in Seq(Nat) : s3 = FlattenSeq(ProtoIds(d)) /\ Len(s3) = 12 * Len(d.protos)
    BY ProtoIdsAre
  <1>4. PICK s4 \in Seq(Nat) : s4 = FlattenSeq(FieldIds(d)) /\ Len(s4) = 8 * Len(d.fields)
    BY FieldIdsAre
  <1>5. PICK s5 \in Seq(Nat) : s5 = FlattenSeq(MethodIds(d)) /\ Len(s5) = 8 * Len(d.methods)
    BY MethodIdsAre
  <1>6. PICK s6 \in Seq(Nat) : s6 = FlattenSeq(ClassDefs(d)) /\ Len(s6) = 32 * Len(d.classes)
    BY ClassDefsAre
  <1>7. PICK s7 \in Seq(Nat) : s7 = FlattenSeq(StringItems(d))
    BY StringItemsAre, FlattenTyped
  <1>8. PICK s8 \in Seq(Nat) : s8 = FlattenSeq(TypeLists(d))
    BY TypeListsAre, FlattenTyped
  <1>9. PICK s9 \in Seq(Nat) : s9 = FlattenSeq(ClassItems(d))
    BY ClassItemsAre
  <1>10. PICK s10 \in Seq(Nat) : s10 = MapList(d)
    BY MapListIs
  <1>11. f = s1 \o s2 \o s3 \o s4 \o s5 \o s6 \o s7 \o s8 \o s9 \o s10
    BY <1>1, <1>2, <1>3, <1>4, <1>5, <1>6, <1>7, <1>8, <1>9, <1>10 DEF FileOf
  <1>12. f \in Seq(Nat)
    BY ONLY <1>11, Concat10, s1 \in Seq(Nat), s2 \in Seq(Nat), s3 \in Seq(Nat), s4 \in Seq(Nat),
            s5 \in Seq(Nat), s6 \in Seq(Nat), s7 \in Seq(Nat), s8 \in Seq(Nat), s9 \in Seq(Nat),
            s10 \in Seq(Nat)
  <1>p. PICK p2, p3, p4, p5, p6, p7, p8, p9, p10 \in Nat :
           AreInRow(f, s1, s2, s3, s4, s5, s6, s7, s8, s9, s10, p2, p3, p4, p5, p6, p7, p8, p9, p10)
    BY ONLY <1>11, Concat10, s1 \in Seq(Nat), s2 \in Seq(Nat), s3 \in Seq(Nat), s4 \in Seq(Nat),
            s5 \in Seq(Nat), s6 \in Seq(Nat), s7 \in Seq(Nat), s8 \in Seq(Nat), s9 \in Seq(Nat),
            s10 \in Seq(Nat)
  <1>13. /\ p2 = Len(s1) /\ p3 = p2 + Len(s2) /\ p4 = p3 + Len(s3) /\ p5 = p4 + Len(s4)
         /\ p6 = p5 + Len(s5) /\ p7 = p6 + Len(s6) /\ p8 = p7 + Len(s7)
         /\ p9 = p8 + Len(s8) /\ p10 = p9 + Len(s9)
         /\ Lies(f, 0, s1) /\ Lies(f, p2, s2) /\ Lies(f, p3, s3) /\ Lies(f, p4, s4)
         /\ Lies(f, p5, s5) /\ Lies(f, p6, s6) /\ Lies(f, p7, s7) /\ Lies(f, p8, s8)
         /\ Lies(f, p9, s9) /\ Lies(f, p10, s10) /\ p10 =< Len(f)
    BY ONLY <1>p DEF AreInRow
  <1>14. PICK h \in Nat : h = HeaderSize
    BY DEF HeaderSize
  <1>15. /\ p3 = p2 + 4 * Len(d.types) /\ p4 = p3 + 12 * Len(d.protos)
         /\ p5 = p4 + 8 * Len(d.fields) /\ p6 = p5 + 8 * Len(d.methods)
         /\ p7 = p6 + 32 * Len(d.classes) /\ p8 = p7 + Len(FlattenSeq(StringItems(d)))
         /\ p9 = p8 + Len(FlattenSeq(TypeLists(d))) /\ p10 = p9 + Len(FlattenSeq(ClassItems(d)))
         /\ p2 = 4 * Len(d.strings)
    BY ONLY <1>1, <1>2, <1>3, <1>4, <1>5, <1>6, <1>7, <1>8, <1>9, <1>13
  <1>16. /\ Len(d.strings) \in Nat /\ Len(d.types) \in Nat /\ Len(d.protos) \in Nat
         /\ Len(d.fields) \in Nat /\ Len(d.methods) \in Nat /\ Len(d.classes) \in Nat
         /\ Len(FlattenSeq(StringItems(d))) \in Nat /\ Len(FlattenSeq(TypeLists(d))) \in Nat
         /\ Len(FlattenSeq(ClassItems(d))) \in Nat
    BY <1>7, <1>8, <1>9, StringItemsAre, TypeListsAre, OffsAre, ClassesTyped, LenProperties
  <1>17. TypesOff(d) = h + p2
    BY <1>14, <1>15 DEF TypesOff
  <1>18. ProtosOff(d) = h + p3
    <2>1. PICK m \in Nat : m = 4 * Len(d.types)
      BY ONLY <1>16
    <2>2. ProtosOff(d) = (h + p2) + m /\ p3 = p2 + m
      BY ONLY <2>1, <1>15, <1>17 DEF ProtosOff
    <2> QED BY ONLY <2>2, h \in Nat, p2 \in Nat, m \in Nat
  <1>19. FieldsOff(d) = h + p4
    <2>1. PICK m \in Nat : m = 12 * Len(d.protos)
      BY ONLY <1>16
    <2>2. FieldsOff(d) = (h + p3) + m /\ p4 = p3 + m
      BY ONLY <2>1, <1>15, <1>18 DEF FieldsOff
    <2> QED BY ONLY <2>2, h \in Nat, p3 \in Nat, m \in Nat
  <1>20. MethodsOff(d) = h + p5
    <2>1. PICK m \in Nat : m = 8 * Len(d.fields)
      BY ONLY <1>16
    <2>2. MethodsOff(d) = (h + p4) + m /\ p5 = p4 + m
      BY ONLY <2>1, <1>15, <1>19 DEF MethodsOff
    <2> QED BY ONLY <2>2, h \in Nat, p4 \in Nat, m \in Nat
  <1>21. ClassesOff(d) = h + p6
    <2>1. PICK m \in Nat : m = 8 * Len(d.methods)
      BY ONLY <1>16
    <2>2. ClassesOff(d) = (h + p5) + m /\ p6 = p5 + m
      BY ONLY <2>1, <1>15, <1>20 DEF ClassesOff
    <2> QED BY ONLY <2>2, h \in Nat, p5 \in Nat, m \in Nat
  <1>22. DataOff(d) = h + p7
    <2>1. PICK m \in Nat : m = 32 * Len(d.classes)
      BY ONLY <1>16
    <2>2. DataOff(d) = (h + p6) + m /\ p7 = p6 + m
      BY ONLY <2>1, <1>15, <1>21 DEF DataOff
    <2> QED BY ONLY <2>2, h \in Nat, p6 \in Nat, m \in Nat
  <1>23. ListsOff(d) = h + p8
    <2>1. PICK m \in Nat : m = Len(FlattenSeq(StringItems(d)))
      BY ONLY <1>16
    <2>2. ListsOff(d) = (h + p7) + m /\ p8 = p7 + m
      BY ONLY <2>1, <1>15, <1>22 DEF ListsOff
    <2> QED BY ONLY <2>2, h \in Nat, p7 \in Nat, m \in Nat
  <1>24. ItemsOff(d) = h + p9
    <2>1. PICK m \in Nat : m = Len(FlattenSeq(TypeLists(d)))
      BY ONLY <1>16
    <2>2. ItemsOff(d) = (h + p8) + m /\ p9 = p8 + m
      BY ONLY <2>1, <1>15, <1>23 DEF ItemsOff
    <2> QED BY ONLY <2>2, h \in Nat, p8 \in Nat, m \in Nat
  <1>25. MapOff(d) = h + p10
    <2>1. MapOff(d) = ItemsOff(d) + Len(FlattenSeq(ClassItems(d)))
      BY ClassItemsAre
    <2>2. PICK m \in Nat : m = Len(FlattenSeq(ClassItems(d)))
      BY ONLY <1>16
    <2>3. MapOff(d) = (h + p9) + m /\ p10 = p9 + m
      BY ONLY <2>1, <2>2, <1>15, <1>24
    <2> QED BY ONLY <2>3, h \in Nat, p9 \in Nat, m \in Nat
  <1>26. /\ h + p2 - h = p2 /\ h + p3 - h = p3 /\ h + p4 - h = p4 /\ h + p5 - h = p5
         /\ h + p6 - h = p6 /\ h + p7 - h = p7 /\ h + p8 - h = p8 /\ h + p9 - h = p9
         /\ h + p10 - h = p10 /\ h + p10 \in Nat
    BY ONLY h \in Nat, p2 \in Nat, p3 \in Nat, p4 \in Nat, p5 \in Nat, p6 \in Nat, p7 \in Nat,
            p8 \in Nat, p9 \in Nat, p10 \in Nat
  <1>27. h + p10 =< h + Len(f)
    <2>1. p10 =< Len(f) /\ Len(f) \in Nat
      BY <1>12, <1>13, LenProperties
    <2> QED BY ONLY <2>1, h \in Nat, p10 \in Nat
  <1>28. HeaderSize + Len(f) \in Count
    BY DEF IsDex
  <1>29. /\ Lies(f, 0, s1) /\ Lies(f, h + p2 - h, s2) /\ Lies(f, h + p3 - h, s3)
         /\ Lies(f, h + p4 - h, s4) /\ Lies(f, h + p5 - h, s5) /\ Lies(f, h + p6 - h, s6)
         /\ Lies(f, h + p7 - h, s7) /\ Lies(f, h + p8 - h, s8) /\ Lies(f, h + p9 - h, s9)
         /\ Lies(f, h + p10 - h, s10)
    BY ONLY <1>13, <1>26
  <1>30. /\ s1 = FlattenSeq(StringIds(d)) /\ s2 = FlattenSeq(TypeIds(d))
         /\ s3 = FlattenSeq(ProtoIds(d)) /\ s4 = FlattenSeq(FieldIds(d))
         /\ s5 = FlattenSeq(MethodIds(d)) /\ s6 = FlattenSeq(ClassDefs(d))
         /\ s7 = FlattenSeq(StringItems(d)) /\ s8 = FlattenSeq(TypeLists(d))
         /\ s9 = FlattenSeq(ClassItems(d)) /\ s10 = MapList(d)
    BY ONLY <1>1, <1>2, <1>3, <1>4, <1>5, <1>6, <1>7, <1>8, <1>9, <1>10
  <1> QED BY ONLY <1>12, <1>14, <1>17, <1>18, <1>19, <1>20, <1>21, <1>22, <1>23, <1>24, <1>25,
                  <1>26, <1>27, <1>28, <1>29, <1>30, h \in Nat
-----------------------------------------------------------------------------
(***************************************************************************)
(* What the parsers read of a file that was read.                          *)
(***************************************************************************)
Loaded == IsDex(dex) /\ buf = FileOf(dex).buf /\ header = FileOf(dex).header

LEMMA HeaderIs ==
  ASSUME Loaded
  PROVE  /\ header.mapOff = MapOff(dex)
         /\ header.stringIdsSize = Len(dex.strings) /\ header.stringIdsOff = HeaderSize
         /\ header.typeIdsSize = Len(dex.types)     /\ header.typeIdsOff = TypesOff(dex)
         /\ header.protoIdsSize = Len(dex.protos)   /\ header.protoIdsOff = ProtosOff(dex)
         /\ header.fieldIdsSize = Len(dex.fields)   /\ header.fieldIdsOff = FieldsOff(dex)
         /\ header.methodIdsSize = Len(dex.methods) /\ header.methodIdsOff = MethodsOff(dex)
         /\ header.classDefsSize = Len(dex.classes) /\ header.classDefsOff = ClassesOff(dex)
  BY DEF Loaded, FileOf

\* An item lies where its offset says, less the header.
LEMMA ItemLies ==
  ASSUME NEW f \in Seq(Nat), NEW ss \in Seq(Seq(Nat)), NEW start \in Nat, NEW h \in Nat,
         Lies(f, start - h, FlattenSeq(ss)), NEW k \in 1 .. Len(ss), ss[k] # <<>>
  PROVE  /\ OffsetOf(start, ss, k) \in Nat /\ start =< OffsetOf(start, ss, k)
         /\ Lies(f, OffsetOf(start, ss, k) - h, ss[k])
  <1>1. PICK u \in Nat : u = Upto(ss, k - 1)
    <2>1. k - 1 \in 0 .. Len(ss)
      BY LenProperties
    <2> QED BY <2>1, UptoSteps
  <1>2. OffsetOf(start, ss, k) = start + u
    BY <1>1, OffsetIs
  <1>3. Lies(f, (start - h) + u, ss[k])
    BY <1>1, LiesFlatten
  <1>4. (start - h) + u = (start + u) - h
    OBVIOUS
  <1> QED BY <1>2, <1>3, <1>4

LEMMA StringsRead ==
  ASSUME Loaded, NEW k \in 1 .. Len(dex.strings)
  PROVE  /\ StringLength(k) = dex.strings[k].chars
         /\ Bytes(StringAt(k) + UlebSize(StringAt(k)), StringLength(k)) = Kept(dex.strings[k])
  <1>1. buf \in Seq(Nat) /\ Lies(buf, 0, FlattenSeq(StringIds(dex)))
        /\ Lies(buf, DataOff(dex) - HeaderSize, FlattenSeq(StringItems(dex)))
        /\ HeaderSize \in Nat
    BY Layout DEF Loaded
  <1>2. Lies(buf, 0 + 4 * (k - 1), U4(OffsetOf(DataOff(dex), StringItems(dex), k)))
    BY <1>1, StringIdsAre DEF Loaded
  <1>3. PICK ss \in Seq(Seq(Nat)) :
          /\ ss = StringItems(dex) /\ k \in 1 .. Len(ss) /\ ss[k] # <<>>
          /\ ss[k] = StringItem(dex.strings[k])
    BY StringItemsAre DEF Loaded
  <1>4. PICK start \in Nat : start = DataOff(dex)
    BY OffsAre DEF Loaded
  <1>5. OffsetOf(start, ss, k) \in Nat /\ Lies(buf, OffsetOf(start, ss, k) - HeaderSize, ss[k])
    BY ONLY <1>1, <1>3, <1>4, ItemLies, ss \in Seq(Seq(Nat)), start \in Nat
  <1>6. PICK o \in Nat : o = OffsetOf(start, ss, k)
    BY <1>5
  <1>7. u4(0 + 4 * (k - 1)) = o
    BY <1>1, <1>2, <1>3, <1>4, <1>6, ReadU4
  <1>8. StringAt(k) = o - HeaderSize
    <2>1. header.stringIdsOff - HeaderSize + 4 * (k - 1) = 0 + 4 * (k - 1)
      BY <1>1, HeaderIs
    <2> QED BY <1>7, <2>1 DEF StringAt
  <1>9. Lies(buf, StringAt(k), StringItem(dex.strings[k])) /\ dex.strings[k] \in AString
    BY <1>3, <1>5, <1>6, <1>8, StringItemsAre DEF Loaded
  <1>10. /\ get_uleb128_len(StringAt(k)) = dex.strings[k].chars
         /\ Bytes(StringAt(k) + UlebSize(StringAt(k)), dex.strings[k].chars) = Kept(dex.strings[k])
    BY <1>1, <1>9, ReadString
  <1> QED BY <1>10 DEF StringLength

LEMMA TypesRead ==
  ASSUME Loaded
  PROVE  Table(header.typeIdsSize, header.typeIdsOff, 4, u4) = dex.types
  <1>1. /\ buf \in Seq(Nat) /\ Lies(buf, TypesOff(dex) - HeaderSize, FlattenSeq(TypeIds(dex)))
        /\ dex.types \in Seq(Count)
    BY Layout DEF Loaded, IsDex
  <1>2. PICK n \in Nat : n = Len(dex.types) /\ dex.types = [k \in 1 .. n |-> dex.types[k]]
    BY <1>1, LenProperties
  <1>3. \A k \in 1 .. n : u4(TypesOff(dex) - HeaderSize + 4 * (k - 1)) = dex.types[k]
    <2> TAKE k \in 1 .. n
    <2>1. Lies(buf, (TypesOff(dex) - HeaderSize) + 4 * (k - 1), U4(dex.types[k]))
      BY <1>1, <1>2, TypeIdsAre DEF Loaded
    <2>2. dex.types[k] \in Nat
      BY <1>2, OffsAre DEF Loaded
    <2> QED BY <1>1, <2>1, <2>2, ReadU4
  <1>4. Table(header.typeIdsSize, header.typeIdsOff, 4, u4)
          = [k \in 1 .. n |-> u4(TypesOff(dex) - HeaderSize + 4 * (k - 1))]
    BY <1>2, HeaderIs DEF Table
  <1> QED BY <1>2, <1>3, <1>4

LEMMA FieldsRead ==
  ASSUME Loaded
  PROVE  Table(header.fieldIdsSize, header.fieldIdsOff, 8, MemberId) = dex.fields
  <1>1. /\ buf \in Seq(Nat) /\ Lies(buf, FieldsOff(dex) - HeaderSize, FlattenSeq(FieldIds(dex)))
        /\ dex.fields \in Seq(AnId)
    BY Layout DEF Loaded, IsDex
  <1>2. PICK n \in Nat : n = Len(dex.fields) /\ dex.fields = [k \in 1 .. n |-> dex.fields[k]]
    BY <1>1, LenProperties
  <1>3. \A k \in 1 .. n : MemberId(FieldsOff(dex) - HeaderSize + 8 * (k - 1)) = dex.fields[k]
    <2> TAKE k \in 1 .. n
    <2>1. Lies(buf, (FieldsOff(dex) - HeaderSize) + 8 * (k - 1), IdEntry(dex.fields[k]))
      BY <1>1, <1>2, FieldIdsAre DEF Loaded
    <2>2. dex.fields[k] \in AnId
      BY <1>2, OffsAre DEF Loaded
    <2> QED BY <1>1, <2>1, <2>2, ReadId
  <1>4. Table(header.fieldIdsSize, header.fieldIdsOff, 8, MemberId)
          = [k \in 1 .. n |-> MemberId(FieldsOff(dex) - HeaderSize + 8 * (k - 1))]
    BY <1>2, HeaderIs DEF Table
  <1> QED BY <1>2, <1>3, <1>4

LEMMA MethodsRead ==
  ASSUME Loaded
  PROVE  Table(header.methodIdsSize, header.methodIdsOff, 8, MemberId) = dex.methods
  <1>1. /\ buf \in Seq(Nat) /\ Lies(buf, MethodsOff(dex) - HeaderSize, FlattenSeq(MethodIds(dex)))
        /\ dex.methods \in Seq(AnId)
    BY Layout DEF Loaded, IsDex
  <1>2. PICK n \in Nat : n = Len(dex.methods) /\ dex.methods = [k \in 1 .. n |-> dex.methods[k]]
    BY <1>1, LenProperties
  <1>3. \A k \in 1 .. n : MemberId(MethodsOff(dex) - HeaderSize + 8 * (k - 1)) = dex.methods[k]
    <2> TAKE k \in 1 .. n
    <2>1. Lies(buf, (MethodsOff(dex) - HeaderSize) + 8 * (k - 1), IdEntry(dex.methods[k]))
      BY <1>1, <1>2, MethodIdsAre DEF Loaded
    <2>2. dex.methods[k] \in AnId
      BY <1>2, OffsAre DEF Loaded
    <2> QED BY <1>1, <2>1, <2>2, ReadId
  <1>4. Table(header.methodIdsSize, header.methodIdsOff, 8, MemberId)
          = [k \in 1 .. n |-> MemberId(MethodsOff(dex) - HeaderSize + 8 * (k - 1))]
    BY <1>2, HeaderIs DEF Table
  <1> QED BY <1>2, <1>3, <1>4

\* The entry of a prototype, as parse_proto_ids reads it.
ProtoAt(o) ==
  [shorty |-> u4(o), return |-> u4(o + 4),
   types |-> IF u4(o + 8) = 0 THEN <<>> ELSE TypeListAt(u4(o + 8) - HeaderSize)]

LEMMA ProtosRead ==
  ASSUME Loaded
  PROVE  Table(header.protoIdsSize, header.protoIdsOff, 12, ProtoAt) = dex.protos
  <1>1. /\ buf \in Seq(Nat) /\ Lies(buf, ProtosOff(dex) - HeaderSize, FlattenSeq(ProtoIds(dex)))
        /\ Lies(buf, ListsOff(dex) - HeaderSize, FlattenSeq(TypeLists(dex)))
        /\ HeaderSize \in Nat /\ dex.protos \in Seq(AProto)
    BY Layout DEF Loaded, IsDex
  <1>2. PICK n \in Nat : n = Len(dex.protos) /\ dex.protos = [k \in 1 .. n |-> dex.protos[k]]
    BY <1>1, LenProperties
  <1>3. PICK start \in Nat : start = ListsOff(dex) /\ start > 0
    BY OffsAre, HeaderSize > 0 DEF Loaded, HeaderSize
  <1>4. ASSUME NEW k \in 1 .. n
        PROVE  ProtoAt(ProtosOff(dex) - HeaderSize + 12 * (k - 1)) = dex.protos[k]
    <2>1. PICK o : o = (ProtosOff(dex) - HeaderSize) + 12 * (k - 1)
      OBVIOUS
    <2>2. Lies(buf, o, ProtoEntry(dex, k)) /\ k \in 1 .. Len(dex.protos)
      BY <1>1, <1>2, <2>1, ProtoIdsAre DEF Loaded
    <2>3. /\ Lies(buf, o, U4(dex.protos[k].shorty)) /\ Lies(buf, o + 4, U4(dex.protos[k].return))
          /\ Lies(buf, o + 8, U4(OffsetOf(ListsOff(dex), TypeLists(dex), k)))
      BY <1>1, <2>2, ProtoEntryIs DEF Loaded
    <2>4. /\ dex.protos[k] \in AProto /\ dex.protos[k].types \in Seq(Short)
          /\ dex.protos[k].shorty \in Nat /\ dex.protos[k].return \in Nat
      BY <2>2, TypeListsAre DEF Loaded
    <2>5. u4(o) = dex.protos[k].shorty /\ u4(o + 4) = dex.protos[k].return
      BY <1>1, <2>3, <2>4, ReadU4
    <2>6. PICK ss \in Seq(Seq(Nat)) :
            /\ ss = TypeLists(dex) /\ k \in 1 .. Len(ss) /\ ss[k] = TypeList(dex.protos[k].types)
      BY <2>2, TypeListsAre DEF Loaded
    <2>7. PICK off \in Nat : off = OffsetOf(start, ss, k)
      BY <2>6, OffsetIs
    <2>8. u4(o + 8) = off
      BY <1>1, <1>3, <2>3, <2>6, <2>7, ReadU4
    <2>9. (IF off = 0 THEN <<>> ELSE TypeListAt(off - HeaderSize)) = dex.protos[k].types
      <3>1. CASE dex.protos[k].types = <<>>
        <4>1. ss[k] = <<>>
          BY <2>4, <2>6, <3>1, TypeListIs
        <4>2. off = 0
          BY <2>6, <2>7, <4>1, OffsetIs
        <4> QED BY <3>1, <4>2
      <3>2. CASE dex.protos[k].types # <<>>
        <4>1. ss[k] # <<>>
          BY <2>4, <2>6, <3>2, TypeListIs
        <4>2. start =< off /\ Lies(buf, off - HeaderSize, ss[k])
          <5>1. Lies(buf, start - HeaderSize, FlattenSeq(ss))
            BY <1>1, <1>3, <2>6
          <5> QED BY ONLY <1>1, <2>6, <2>7, <4>1, <5>1, ItemLies, ss \in Seq(Seq(Nat)), start \in Nat
        <4>3. TypeListAt(off - HeaderSize) = dex.protos[k].types
          BY <1>1, <2>4, <2>6, <3>2, <4>2, ReadTypeList
        <4>4. off # 0
          BY <1>3, <4>2
        <4> QED BY <4>3, <4>4
      <3> QED BY <3>1, <3>2
    <2>10. ProtoAt(o) = [shorty |-> dex.protos[k].shorty, return |-> dex.protos[k].return,
                         types |-> dex.protos[k].types]
      BY <2>5, <2>8, <2>9 DEF ProtoAt
    <2>11. \A p \in AProto : p = [shorty |-> p.shorty, return |-> p.return, types |-> p.types]
      BY DEF AProto
    <2> QED BY <2>1, <2>4, <2>10, <2>11
  <1>5. Table(header.protoIdsSize, header.protoIdsOff, 12, ProtoAt)
          = [k \in 1 .. n |-> ProtoAt(ProtosOff(dex) - HeaderSize + 12 * (k - 1))]
    BY <1>2, HeaderIs DEF Table
  <1> QED BY <1>2, <1>4, <1>5
\* The first item that is not empty lies where its row starts.
LEMMA FirstItem ==
  ASSUME NEW ss \in Seq(Seq(Nat)), FlattenSeq(ss) # <<>>
  PROVE  \E k \in 1 .. Len(ss) : ss[k] # <<>> /\ Upto(ss, k - 1) = 0
  <1>1. PICK n \in Nat : n = Len(ss)
    BY LenProperties
  <1>2. /\ Upto(ss, 0) = 0 /\ Upto(ss, n) = Len(FlattenSeq(ss))
        /\ \A k \in 1 .. n : Upto(ss, k) = Upto(ss, k - 1) + Len(ss[k])
        /\ \A k \in 0 .. n : Upto(ss, k) \in Nat
    BY ONLY <1>1, UptoSteps, ss \in Seq(Seq(Nat))
  <1>3. FlattenSeq(ss) \in Seq(Nat) /\ Len(FlattenSeq(ss)) # 0
    BY FlattenTyped, EmptySeq
  <1>4. \A k \in 1 .. n : ss[k] \in Seq(Nat) /\ (ss[k] = <<>> => Len(ss[k]) = 0)
    BY <1>1, ElementOfSeq, EmptySeq
  <1> DEFINE S == {k \in Nat : k =< n => Upto(ss, k) = 0}
  <1>5. SUFFICES ASSUME \A k \in 1 .. n : Upto(ss, k - 1) = 0 => ss[k] = <<>> PROVE FALSE
    BY <1>1
  <1>6. 0 \in S
    BY <1>2
  <1>7. ASSUME NEW k \in Nat, k \in S PROVE k + 1 \in S
    <2> SUFFICES ASSUME k + 1 =< n PROVE Upto(ss, k + 1) = 0
      OBVIOUS
    <2>1. k + 1 \in 1 .. n /\ (k + 1) - 1 = k /\ Upto(ss, k) = 0
      BY <1>7
    <2>2. Len(ss[k + 1]) = 0
      BY <1>4, <1>5, <2>1
    <2> QED BY <1>2, <2>1, <2>2
  <1> HIDE DEF S
  <1>8. n \in S
    BY <1>6, <1>7, Induction
  <1> QED BY <1>2, <1>3, <1>8 DEF S

\* The map has the type lists if there are any, and they start with the first.
MapItemAt(k) == header.mapOff - HeaderSize + 4 + 12 * (k - 1)
TypeListItems == {k \in 1 .. u4(header.mapOff - HeaderSize) : u2(MapItemAt(k)) = TYPE_TYPE_LIST}

LEMMA MapRead ==
  ASSUME Loaded, TypeListItems # {}
  PROVE  \E k \in DOMAIN dex.protos :
           TypeListAt(u4(MapItemAt(Max(TypeListItems)) + 8) - HeaderSize) = dex.protos[k].types
  <1>1. /\ buf \in Seq(Nat) /\ Lies(buf, MapOff(dex) - HeaderSize, MapList(dex))
        /\ Lies(buf, ListsOff(dex) - HeaderSize, FlattenSeq(TypeLists(dex)))
        /\ HeaderSize \in Nat /\ MapOff(dex) \in Nat
    BY Layout DEF Loaded
  <1>2. PICK o \in Int : o = MapOff(dex) - HeaderSize
    BY <1>1
  <1>3. header.mapOff - HeaderSize = o
    BY <1>2, HeaderIs
  <1>4. PICK x \in Nat, y \in Nat : x = ListsOff(dex) /\ y = DataOff(dex)
    BY OffsAre DEF Loaded
  <1>5. PICK m \in Nat, n \in Nat : m = Len(dex.strings) /\ n = Len(dex.protos)
    BY StringItemsAre, TypeListsAre DEF Loaded
  <1>6. TYPE_TYPE_LIST \in Nat /\ TYPE_STRING_DATA_ITEM \in Nat
        /\ TYPE_TYPE_LIST # TYPE_STRING_DATA_ITEM
    BY DEF TYPE_TYPE_LIST, TYPE_STRING_DATA_ITEM
  <1>7. PICK s \in Seq(Nat), t \in Seq(Nat) :
          /\ s = MapItem(TYPE_STRING_DATA_ITEM, m, y) /\ Len(s) = 12
          /\ t = MapItem(TYPE_TYPE_LIST, n, x) /\ Len(t) = 12
    <2>1. MapItem(TYPE_STRING_DATA_ITEM, m, y) \in Seq(Nat) /\ Len(MapItem(TYPE_STRING_DATA_ITEM, m, y)) = 12
      BY <1>6, MapItemIs
    <2>2. MapItem(TYPE_TYPE_LIST, n, x) \in Seq(Nat) /\ Len(MapItem(TYPE_TYPE_LIST, n, x)) = 12
      BY <1>6, MapItemIs
    <2> QED BY ONLY <2>1, <2>2
  <1>8. PICK one \in Seq(Nat), two \in Seq(Nat) :
          one = U4(1) /\ two = U4(2) /\ Len(one) = 4 /\ Len(two) = 4
    BY U4Is
  <1>9. MapList(dex) = IF FlattenSeq(TypeLists(dex)) = <<>> THEN one \o s ELSE two \o t \o s
    BY <1>4, <1>5, <1>7, <1>8 DEF MapList
  <1>10. \A f \in Seq(Nat) : \A p : Lies(f, p, s) => Lies(f, p, U2(TYPE_STRING_DATA_ITEM))
    BY <1>6, <1>7, MapItemIs
  <1>11. \A f \in Seq(Nat) : \A p : Lies(f, p, t) => Lies(f, p, U2(TYPE_TYPE_LIST)) /\ Lies(f, p + 8, U4(x))
    BY <1>6, <1>7, MapItemIs
  <1>12. FlattenSeq(TypeLists(dex)) # <<>>
    <2> SUFFICES ASSUME FlattenSeq(TypeLists(dex)) = <<>> PROVE FALSE
      OBVIOUS
    <2>1. Lies(buf, o, one \o s)
      BY <1>1, <1>2, <1>9
    <2>2. Lies(buf, o, one) /\ Lies(buf, o + 4, s)
      BY <1>1, <1>8, <2>1, LiesConcat
    <2>3. u4(o) = 1
      BY <1>1, <1>8, <2>2, ReadU4
    <2>4. u2(o + 4) = TYPE_STRING_DATA_ITEM
      BY <1>1, <1>6, <1>10, <2>2, ReadU2
    <2>5. PICK k \in 1 .. 1 : u2(MapItemAt(k)) = TYPE_TYPE_LIST
      BY <1>3, <2>3 DEF TypeListItems
    <2>6. MapItemAt(k) = o + 4
      <3>1. k = 1
        OBVIOUS
      <3> QED BY <1>3, <3>1 DEF MapItemAt
    <2> QED BY <1>6, <2>4, <2>5, <2>6
  <1>13. Lies(buf, o, two) /\ Lies(buf, o + 4, t) /\ Lies(buf, o + 16, s)
    <2>1. Lies(buf, o, two \o t \o s)
      BY <1>1, <1>2, <1>9, <1>12
    <2>2. PICK v \in Seq(Nat) : v = two \o t /\ Len(v) = 16
      <3>1. two \o t \in Seq(Nat) /\ Len(two \o t) = Len(two) + Len(t)
        BY ONLY Concat2, two \in Seq(Nat), t \in Seq(Nat)
      <3>2. Len(two) = 4 /\ Len(t) = 12
        BY ONLY <1>7, <1>8
      <3>3. Len(two \o t) = 16
        BY ONLY <3>1, <3>2
      <3> QED BY ONLY <3>1, <3>3
    <2>3. Lies(buf, o, v) /\ Lies(buf, o + 16, s)
      BY <1>1, <2>1, <2>2, LiesConcat
    <2> QED BY <1>1, <1>8, <2>2, <2>3, LiesConcat
  <1>14. u4(o) = 2 /\ u2(o + 4) = TYPE_TYPE_LIST /\ u2(o + 16) = TYPE_STRING_DATA_ITEM
         /\ u4(o + 4 + 8) = x
    <2>1. u4(o) = 2
      BY <1>1, <1>8, <1>13, ReadU4
    <2>2. u2(o + 4) = TYPE_TYPE_LIST
      BY <1>1, <1>6, <1>11, <1>13, ReadU2
    <2>3. u2(o + 16) = TYPE_STRING_DATA_ITEM
      BY <1>1, <1>6, <1>10, <1>13, ReadU2
    <2>4. u4((o + 4) + 8) = x
      BY <1>1, <1>11, <1>13, ReadU4
    <2> QED BY <2>1, <2>2, <2>3, <2>4
  <1>15. MapItemAt(1) = o + 4 /\ MapItemAt(2) = o + 16
    BY <1>3 DEF MapItemAt
  <1>16. TypeListItems = {1}
    <2>1. TypeListItems = {k \in 1 .. 2 : u2(MapItemAt(k)) = TYPE_TYPE_LIST}
      BY <1>3, <1>14 DEF TypeListItems
    <2>2. u2(MapItemAt(1)) = TYPE_TYPE_LIST /\ u2(MapItemAt(2)) # TYPE_TYPE_LIST
      BY <1>6, <1>14, <1>15
    <2>3. \A k \in 1 .. 2 : k = 1 \/ k = 2
      OBVIOUS
    <2>4. 1 \in 1 .. 2
      OBVIOUS
    <2> QED BY ONLY <2>1, <2>2, <2>3, <2>4
  <1>17. Max(TypeListItems) = 1
    <2>1. Max({1}) = CHOOSE i \in {1} : \A j \in {1} : i >= j
      BY DEF Max
    <2>2. Max({1}) = 1
      BY <2>1
    <2> QED BY <1>16, <2>2
  <1>18. u4(MapItemAt(Max(TypeListItems)) + 8) = x
    BY <1>14, <1>15, <1>17
  <1>19. PICK ss \in Seq(Seq(Nat)) :
           /\ ss = TypeLists(dex) /\ Len(ss) = n /\ DOMAIN dex.protos = 1 .. n
           /\ \A k \in 1 .. n : ss[k] = TypeList(dex.protos[k].types) /\ dex.protos[k].types \in Seq(Short)
    BY <1>5, TypeListsAre DEF Loaded
  <1>20. PICK k \in 1 .. Len(ss) : ss[k] # <<>> /\ Upto(ss, k - 1) = 0
    BY <1>12, <1>19, FirstItem
  <1>21. Lies(buf, x - HeaderSize, ss[k])
    <2>1. Lies(buf, x - HeaderSize, FlattenSeq(ss))
      BY <1>1, <1>4, <1>19
    <2>2. Lies(buf, (x - HeaderSize) + Upto(ss, k - 1), ss[k])
      BY <1>1, <2>1, LiesFlatten
    <2> QED BY <1>1, <1>20, <2>2
  <1>22. dex.protos[k].types \in Seq(Short) /\ dex.protos[k].types # <<>>
         /\ ss[k] = TypeList(dex.protos[k].types) /\ k \in DOMAIN dex.protos
    <2>1. k \in 1 .. n
      BY <1>19
    <2>2. dex.protos[k].types \in Seq(Short) /\ ss[k] = TypeList(dex.protos[k].types)
      BY <1>19, <2>1
    <2> QED BY <1>19, <1>20, <2>1, <2>2, TypeListIs
  <1>23. TypeListAt(x - HeaderSize) = dex.protos[k].types
    BY <1>1, <1>21, <1>22, ReadTypeList
  <1> QED BY <1>18, <1>22, <1>23

-----------------------------------------------------------------------------
(***************************************************************************)
(* Numbers in a row.                                                       *)
(***************************************************************************)
LEMMA PastUlebIs ==
  ASSUME buf \in Seq(Nat), NEW o \in Int
  PROVE  /\ PastUleb(o) \in Int
         /\ o < 0 \/ o > Len(buf) => PastUleb(o) = Len(buf) + 1
  <1>1. Len(buf) \in Nat
    BY LenProperties
  <1>2. UlebEnds(o) # {} => UlebSize(o) \in UlebEnds(o)
    <2>1. UlebEnds(o) \subseteq Nat
      BY DEF UlebEnds
    <2> QED BY <2>1, MinOfNats DEF UlebSize
  <1>3. UlebEnds(o) \subseteq 1 .. 5
    BY DEF UlebEnds
  <1>4. PastUleb(o) \in Int
    BY <1>1, <1>2, <1>3 DEF PastUleb
  <1>5. o < 0 \/ o > Len(buf) => UlebEnds(o) = {}
    BY <1>1 DEF UlebEnds, In
  <1> QED BY <1>4, <1>5 DEF PastUleb

LEMMA UlebAtIs ==
  ASSUME buf \in Seq(Nat), NEW o \in Int, NEW n \in Nat
  PROVE  /\ UlebAt(o, n)[0] = o
         /\ \A k \in 1 .. n : UlebAt(o, n)[k] = PastUleb(UlebAt(o, n)[k - 1])
  <1> DEFINE Is(start) == start = [k \in 0 .. n |-> IF k = 0 THEN o ELSE PastUleb(start[k - 1])]
  <1>1. \A p \in Int : PastUleb(p) \in Int
    BY PastUlebIs
  <1>2. \E start : Is(start)
    <2>1. PICK G : G = [p \in (1 .. n) \X Int |-> PastUleb(p[2])]
      OBVIOUS
    <2>2. \A k \in 1 .. n : \A p \in Int : G[<<k, p>>] = PastUleb(p)
      BY <2>1
    <2>3. \A k \in 1 .. n : \A p \in Int : G[<<k, p>>] \in Int
      BY <1>1, <2>2
    <2>4. \E g \in [0 .. n -> Int] : IsRecursion(g, o, n, G)
      BY ONLY <2>3, RecursionExists, n \in Nat, o \in Int
    <2>5. PICK g \in [0 .. n -> Int] : \A k \in 0 .. n : g[k] = IF k = 0 THEN o ELSE G[<<k, g[k - 1]>>]
      BY ONLY <2>4 DEF IsRecursion
    <2>6. ASSUME NEW k \in 0 .. n PROVE g[k] = IF k = 0 THEN o ELSE PastUleb(g[k - 1])
      <3>1. CASE k = 0
        BY <2>5, <3>1
      <3>2. CASE k # 0
        <4>1. k \in 1 .. n /\ g[k - 1] \in Int
          BY <3>2
        <4>2. G[<<k, g[k - 1]>>] = PastUleb(g[k - 1])
          BY <2>2, <4>1
        <4> QED BY <2>5, <3>2, <4>2
      <3> QED BY <3>1, <3>2
    <2>7. g = [k \in 0 .. n |-> g[k]]
      OBVIOUS
    <2>8. Is(g)
      BY ONLY <2>6, <2>7
    <2> QED BY ONLY <2>8
  <1>3. UlebAt(o, n) = CHOOSE start : Is(start)
    BY DEF UlebAt
  <1>4. Is(UlebAt(o, n))
    BY ONLY <1>2, <1>3
  <1>5. \A k \in 0 .. n : UlebAt(o, n)[k] = IF k = 0 THEN o ELSE PastUleb(UlebAt(o, n)[k - 1])
    BY ONLY <1>4
  <1>6. 0 \in 0 .. n /\ \A k \in 1 .. n : k \in 0 .. n /\ k # 0
    OBVIOUS
  <1> QED BY ONLY <1>5, <1>6

\* A place outside the file has no numbers, which is so for a class without data.
LEMMA NoUlebs ==
  ASSUME buf \in Seq(Nat), NEW o \in Int, o < 0
  PROVE  ~UlebsIn(o, 4)
  <1>1. PICK f : f = UlebAt(o, 4)
    OBVIOUS
  <1>2. f[0] = o /\ \A k \in 1 .. 4 : f[k] = PastUleb(f[k - 1])
    BY <1>1, UlebAtIs
  <1>3. f[1] = PastUleb(f[0]) /\ f[2] = PastUleb(f[1]) /\ f[3] = PastUleb(f[2]) /\ f[4] = PastUleb(f[3])
    <2>1. 1 \in 1 .. 4 /\ 2 \in 1 .. 4 /\ 3 \in 1 .. 4 /\ 4 \in 1 .. 4
          /\ 1 - 1 = 0 /\ 2 - 1 = 1 /\ 3 - 1 = 2 /\ 4 - 1 = 3
      OBVIOUS
    <2> QED BY <1>2, <2>1
  <1>4. PICK e \in Int : e = Len(buf) + 1 /\ e > Len(buf)
    BY LenProperties
  <1>5. PastUleb(o) = e /\ PastUleb(e) = e
    BY <1>4, PastUlebIs
  <1>6. f[4] = e
    BY ONLY <1>2, <1>3, <1>5
  <1>7. ~(e =< Len(buf))
    BY <1>4, LenProperties
  <1> QED BY <1>1, <1>6, <1>7 DEF UlebsIn
LEMMA TwoNumbers ==
  ASSUME buf \in Seq(Nat), NEW o, NEW a \in Count, NEW b \in Count,
         Lies(buf, o, Uleb(a) \o Uleb(b))
  PROVE  /\ Ulebs(o, 2)[1] = a /\ Ulebs(o, 2)[2] = b
         /\ UlebAt(o, 2)[2] = o + Len(Uleb(a) \o Uleb(b))
  <1>1. PICK s \in Seq(Nat), t \in Seq(Nat) : s = Uleb(a) /\ t = Uleb(b)
    BY CountNat, UlebTyped
  <1>2. PICK m \in Nat, n \in Nat : m = Len(s) /\ n = Len(t) /\ Len(s \o t) = m + n
    BY Concat2
  <1>3. Lies(buf, o, s) /\ Lies(buf, o + m, t) /\ o \in Nat
    <2>1. Lies(buf, o, s \o t)
      BY <1>1
    <2>2. Lies(buf, o, s) /\ Lies(buf, o + m, t)
      BY <1>2, <2>1, LiesConcat
    <2> QED BY <2>2 DEF Lies
  <1>4. /\ get_uleb128_len(o) = a /\ PastUleb(o) = o + m
        /\ get_uleb128_len(o + m) = b /\ PastUleb(o + m) = (o + m) + n
    BY <1>1, <1>2, <1>3, ReadUleb
  <1>5. PICK f : f = UlebAt(o, 2)
    OBVIOUS
  <1>6. f[0] = o /\ f[1] = PastUleb(f[0]) /\ f[2] = PastUleb(f[1])
    <2>1. f[0] = o /\ \A k \in 1 .. 2 : f[k] = PastUleb(f[k - 1])
      BY <1>3, <1>5, UlebAtIs
    <2>2. 1 \in 1 .. 2 /\ 2 \in 1 .. 2 /\ 1 - 1 = 0 /\ 2 - 1 = 1
      OBVIOUS
    <2> QED BY <2>1, <2>2
  <1>7. f[1] = o + m /\ f[2] = (o + m) + n
    BY ONLY <1>4, <1>6
  <1>8. Ulebs(o, 2)[1] = get_uleb128_len(f[0]) /\ Ulebs(o, 2)[2] = get_uleb128_len(f[1])
    <2>1. \A k \in 1 .. 2 : Ulebs(o, 2)[k] = get_uleb128_len(f[k - 1])
      BY <1>5 DEF Ulebs
    <2>2. 1 \in 1 .. 2 /\ 2 \in 1 .. 2 /\ 1 - 1 = 0 /\ 2 - 1 = 1
      OBVIOUS
    <2> QED BY <2>1, <2>2
  <1>9. Ulebs(o, 2)[1] = a /\ Ulebs(o, 2)[2] = b
    BY ONLY <1>4, <1>6, <1>7, <1>8
  <1>10. (o + m) + n = o + (m + n)
    BY <1>3
  <1> QED BY <1>1, <1>2, <1>5, <1>7, <1>9, <1>10

LEMMA ThreeNumbers ==
  ASSUME buf \in Seq(Nat), NEW o, NEW a \in Count, NEW b \in Count, NEW c \in Count,
         Lies(buf, o, Uleb(a) \o Uleb(b) \o Uleb(c))
  PROVE  /\ Ulebs(o, 3)[1] = a /\ Ulebs(o, 3)[2] = b /\ Ulebs(o, 3)[3] = c
         /\ UlebAt(o, 3)[3] = o + Len(Uleb(a) \o Uleb(b) \o Uleb(c))
  <1>1. PICK s \in Seq(Nat), t \in Seq(Nat), u \in Seq(Nat) :
          s = Uleb(a) /\ t = Uleb(b) /\ u = Uleb(c)
    BY CountNat, UlebTyped
  <1>2. /\ Len(s \o t \o u) = Len(s) + Len(t) + Len(u)
        /\ Len(s) \in Nat /\ Len(t) \in Nat /\ Len(u) \in Nat
        /\ \A f \in Seq(Nat) : \A p : Lies(f, p, s \o t \o u) =>
             Lies(f, p, s) /\ Lies(f, p + Len(s), t) /\ Lies(f, p + (Len(s) + Len(t)), u)
    BY ONLY Concat3, s \in Seq(Nat), t \in Seq(Nat), u \in Seq(Nat)
  <1>a. PICK m \in Nat, n \in Nat, l \in Nat : m = Len(s) /\ n = Len(t) /\ l = Len(u)
    BY ONLY <1>2
  <1>3. Lies(buf, o, s) /\ Lies(buf, o + m, t) /\ Lies(buf, o + (m + n), u) /\ o \in Nat
    <2>1. Lies(buf, o, s \o t \o u)
      BY <1>1
    <2>2. Lies(buf, o, s) /\ Lies(buf, o + m, t) /\ Lies(buf, o + (m + n), u)
      BY ONLY <1>2, <1>a, <2>1, buf \in Seq(Nat)
    <2> QED BY <2>2 DEF Lies
  <1>4. /\ get_uleb128_len(o) = a /\ PastUleb(o) = o + m
        /\ get_uleb128_len(o + m) = b /\ PastUleb(o + m) = (o + m) + n
        /\ get_uleb128_len(o + (m + n)) = c /\ PastUleb(o + (m + n)) = (o + (m + n)) + l
    BY <1>1, <1>a, <1>3, ReadUleb
  <1>5. PICK f : f = UlebAt(o, 3)
    OBVIOUS
  <1>n. 1 \in 1 .. 3 /\ 2 \in 1 .. 3 /\ 3 \in 1 .. 3 /\ 1 - 1 = 0 /\ 2 - 1 = 1 /\ 3 - 1 = 2
    OBVIOUS
  <1>6. f[0] = o /\ f[1] = PastUleb(f[0]) /\ f[2] = PastUleb(f[1]) /\ f[3] = PastUleb(f[2])
    <2>1. f[0] = o /\ \A k \in 1 .. 3 : f[k] = PastUleb(f[k - 1])
      BY <1>3, <1>5, UlebAtIs
    <2> QED BY <1>n, <2>1
  <1>b. (o + m) + n = o + (m + n) /\ (o + (m + n)) + l = o + (m + n + l)
    BY <1>3
  <1>7. f[1] = o + m /\ f[2] = o + (m + n) /\ f[3] = o + (m + n + l)
    BY ONLY <1>4, <1>6, <1>b
  <1>8. /\ Ulebs(o, 3)[1] = get_uleb128_len(f[0]) /\ Ulebs(o, 3)[2] = get_uleb128_len(f[1])
        /\ Ulebs(o, 3)[3] = get_uleb128_len(f[2])
    <2>1. \A k \in 1 .. 3 : Ulebs(o, 3)[k] = get_uleb128_len(f[k - 1])
      BY <1>5 DEF Ulebs
    <2> QED BY <1>n, <2>1
  <1>9. Ulebs(o, 3)[1] = a /\ Ulebs(o, 3)[2] = b /\ Ulebs(o, 3)[3] = c
    BY ONLY <1>4, <1>6, <1>7, <1>8
  <1> QED BY <1>1, <1>2, <1>a, <1>5, <1>7, <1>9

LEMMA FourNumbers ==
  ASSUME buf \in Seq(Nat), NEW o, NEW a \in Count, NEW b \in Count, NEW c \in Count, NEW e \in Count,
         Lies(buf, o, Uleb(a) \o Uleb(b) \o Uleb(c) \o Uleb(e))
  PROVE  /\ Ulebs(o, 4)[1] = a /\ Ulebs(o, 4)[2] = b /\ Ulebs(o, 4)[3] = c /\ Ulebs(o, 4)[4] = e
         /\ UlebAt(o, 4)[4] = o + Len(Uleb(a) \o Uleb(b) \o Uleb(c) \o Uleb(e))
  <1>1. PICK s \in Seq(Nat), t \in Seq(Nat), u \in Seq(Nat), v \in Seq(Nat) :
          s = Uleb(a) /\ t = Uleb(b) /\ u = Uleb(c) /\ v = Uleb(e)
    BY CountNat, UlebTyped
  <1>2. /\ Len(s \o t \o u \o v) = Len(s) + Len(t) + Len(u) + Len(v)
        /\ Len(s) \in Nat /\ Len(t) \in Nat /\ Len(u) \in Nat /\ Len(v) \in Nat
    BY ONLY Concat4, s \in Seq(Nat), t \in Seq(Nat), u \in Seq(Nat), v \in Seq(Nat)
  <1>c. InRow(s, t, u, v)
    BY ONLY RowOfFour, s \in Seq(Nat), t \in Seq(Nat), u \in Seq(Nat), v \in Seq(Nat)
  <1>a. PICK m \in Nat, n \in Nat, l \in Nat, k \in Nat :
          m = Len(s) /\ n = Len(t) /\ l = Len(u) /\ k = Len(v)
    BY ONLY <1>2
  <1>3. /\ Lies(buf, o, s) /\ Lies(buf, o + m, t) /\ Lies(buf, o + (m + n), u)
        /\ Lies(buf, o + (m + n + l), v) /\ o \in Nat
    <2>1. Lies(buf, o, s \o t \o u \o v)
      BY <1>1
    <2>2. /\ Lies(buf, o, s) /\ Lies(buf, o + Len(s), t) /\ Lies(buf, o + (Len(s) + Len(t)), u)
          /\ Lies(buf, o + (Len(s) + Len(t) + Len(u)), v)
      BY ONLY <1>c, <2>1, buf \in Seq(Nat) DEF InRow
    <2> QED BY ONLY <1>a, <2>2 DEF Lies
  <1>4. /\ get_uleb128_len(o) = a /\ PastUleb(o) = o + m
        /\ get_uleb128_len(o + m) = b /\ PastUleb(o + m) = (o + m) + n
        /\ get_uleb128_len(o + (m + n)) = c /\ PastUleb(o + (m + n)) = (o + (m + n)) + l
        /\ get_uleb128_len(o + (m + n + l)) = e
        /\ PastUleb(o + (m + n + l)) = (o + (m + n + l)) + k
    BY <1>1, <1>a, <1>3, ReadUleb
  <1>5. PICK f : f = UlebAt(o, 4)
    OBVIOUS
  <1>n. 1 \in 1 .. 4 /\ 2 \in 1 .. 4 /\ 3 \in 1 .. 4 /\ 4 \in 1 .. 4
        /\ 1 - 1 = 0 /\ 2 - 1 = 1 /\ 3 - 1 = 2 /\ 4 - 1 = 3
    OBVIOUS
  <1>6. f[0] = o /\ f[1] = PastUleb(f[0]) /\ f[2] = PastUleb(f[1]) /\ f[3] = PastUleb(f[2])
        /\ f[4] = PastUleb(f[3])
    <2>1. f[0] = o /\ \A j \in 1 .. 4 : f[j] = PastUleb(f[j - 1])
      BY <1>3, <1>5, UlebAtIs
    <2> QED BY <1>n, <2>1
  <1>b. /\ (o + m) + n = o + (m + n) /\ (o + (m + n)) + l = o + (m + n + l)
        /\ (o + (m + n + l)) + k = o + (m + n + l + k)
    BY <1>3
  <1>7. f[1] = o + m /\ f[2] = o + (m + n) /\ f[3] = o + (m + n + l) /\ f[4] = o + (m + n + l + k)
    BY ONLY <1>4, <1>6, <1>b
  <1>8. /\ Ulebs(o, 4)[1] = get_uleb128_len(f[0]) /\ Ulebs(o, 4)[2] = get_uleb128_len(f[1])
        /\ Ulebs(o, 4)[3] = get_uleb128_len(f[2]) /\ Ulebs(o, 4)[4] = get_uleb128_len(f[3])
    <2>1. \A j \in 1 .. 4 : Ulebs(o, 4)[j] = get_uleb128_len(f[j - 1])
      BY <1>5 DEF Ulebs
    <2> QED BY <1>n, <2>1
  <1>9. Ulebs(o, 4)[1] = a /\ Ulebs(o, 4)[2] = b /\ Ulebs(o, 4)[3] = c /\ Ulebs(o, 4)[4] = e
    BY ONLY <1>4, <1>6, <1>7, <1>8
  <1> QED BY <1>1, <1>2, <1>a, <1>5, <1>7, <1>9

\* The sizes of the lists of a class.
LEMMA SizesRead ==
  ASSUME buf \in Seq(Nat), NEW start \in Nat, NEW c, HasData(c), NEW o,
         Lies(buf, o, ClassItem(start, c))
  PROVE  /\ UlebsIn(o + DataFrom(c), 4)
         /\ Ulebs(o + DataFrom(c), 4) = [l \in 1 .. 4 |-> Len(c.lists[l])]
         /\ UlebAt(o + DataFrom(c), 4)[4] = o + (DataFrom(c) + Len(SizesOf(c)))
  <1>1. Lies(buf, o + DataFrom(c), SizesOf(c)) /\ DataFrom(c) \in Nat /\ Len(SizesOf(c)) \in Nat
    BY ClassItemIs
  <1>2. PICK p : p = o + DataFrom(c)
    OBVIOUS
  <1>3. \A l \in 1 .. 4 : Len(c.lists[l]) \in Count
    BY ClassIs
  <1>n. 1 \in 1 .. 4 /\ 2 \in 1 .. 4 /\ 3 \in 1 .. 4 /\ 4 \in 1 .. 4
        /\ \A l \in 1 .. 4 : l = 1 \/ l = 2 \/ l = 3 \/ l = 4
    OBVIOUS
  <1>4. PICK a1 \in Count, a2 \in Count, a3 \in Count, a4 \in Count :
          /\ a1 = Len(c.lists[1]) /\ a2 = Len(c.lists[2])
          /\ a3 = Len(c.lists[3]) /\ a4 = Len(c.lists[4])
    BY ONLY <1>3, <1>n
  <1>5. SizesOf(c) = Uleb(a1) \o Uleb(a2) \o Uleb(a3) \o Uleb(a4)
    BY ONLY <1>4 DEF SizesOf
  <1>6. /\ Ulebs(p, 4)[1] = a1 /\ Ulebs(p, 4)[2] = a2 /\ Ulebs(p, 4)[3] = a3 /\ Ulebs(p, 4)[4] = a4
        /\ UlebAt(p, 4)[4] = p + Len(SizesOf(c))
    BY <1>1, <1>2, <1>5, FourNumbers
  <1>7. \A l \in 1 .. 4 : Ulebs(p, 4)[l] = Len(c.lists[l])
    BY ONLY <1>n, <1>4, <1>6
  <1>8. Ulebs(p, 4) = [l \in 1 .. 4 |-> Len(c.lists[l])]
    <2>1. Ulebs(p, 4) = [l \in 1 .. 4 |-> Ulebs(p, 4)[l]]
      BY DEF Ulebs
    <2> QED BY ONLY <1>7, <2>1
  <1>9. UlebsIn(p, 4)
    <2>1. p + Len(SizesOf(c)) =< Len(buf)
      BY <1>1, <1>2 DEF Lies
    <2> QED BY <1>6, <2>1 DEF UlebsIn
  <1>10. p + Len(SizesOf(c)) = o + (DataFrom(c) + Len(SizesOf(c)))
    <2>1. o \in Nat
      BY DEF Lies
    <2> QED BY <1>1, <1>2, <2>1
  <1> QED BY <1>2, <1>6, <1>8, <1>9, <1>10

\* The numbers of a member: its id's difference, its flags, where its code is.
CodeOff(start, c, l, k) == OffsetOf(start, CodesOf(c), NumberOf(c, l, k))

MemberFound(o, start, c, l, k) ==
  /\ l =< 2 => /\ Ulebs(o, 2)[1] = Diff(c.lists[l], k)
               /\ Ulebs(o, 2)[2] = c.lists[l][k].flags
               /\ UlebAt(o, 2)[2] = o + Len(MemberItem(start, c, l, k))
  /\ l > 2 => /\ Ulebs(o, 3)[1] = Diff(c.lists[l], k)
              /\ Ulebs(o, 3)[2] = c.lists[l][k].flags
              /\ Ulebs(o, 3)[3] = CodeOff(start, c, l, k)
              /\ UlebAt(o, 3)[3] = o + Len(MemberItem(start, c, l, k))

LEMMA MemberRead ==
  ASSUME buf \in Seq(Nat), NEW start \in Nat, NEW c, HasData(c),
         start + DataFrom(c) \in Count,
         NEW l \in 1 .. 4, NEW k \in 1 .. Len(c.lists[l]),
         NEW o, Lies(buf, o, MemberItem(start, c, l, k))
  PROVE  MemberFound(o, start, c, l, k)
  <1>1. PICK a \in Count, b \in Count : a = Diff(c.lists[l], k) /\ b = c.lists[l][k].flags
    BY DiffIs, ClassIs
  <1>2. PICK u \in Seq(Nat), v \in Seq(Nat), w \in Seq(Nat) :
          /\ u = Uleb(a) /\ v = Uleb(b)
          /\ l > 2 => w = Uleb(CodeOff(start, c, l, k))
          /\ ~(l > 2) => w = <<>>
          /\ MemberItem(start, c, l, k) = u \o v \o w
    <2>1. PICK u \in Seq(Nat), v \in Seq(Nat), w \in Seq(Nat) :
            /\ u = Uleb(Diff(c.lists[l], k)) /\ v = Uleb(c.lists[l][k].flags)
            /\ l > 2 => w = Uleb(OffsetOf(start, CodesOf(c), NumberOf(c, l, k)))
            /\ ~(l > 2) => w = <<>>
            /\ MemberItem(start, c, l, k) = u \o v \o w
            /\ MemberItem(start, c, l, k) \in Seq(Nat) /\ MemberItem(start, c, l, k) # <<>>
      BY MemberItemIs
    <2> QED BY ONLY <1>1, <2>1 DEF CodeOff
  <1>3. CASE l =< 2
    <2>1. ~(l > 2)
      BY <1>3
    <2>2. u \o v \in Seq(Nat)
      BY ONLY Concat2, u \in Seq(Nat), v \in Seq(Nat)
    <2>3. MemberItem(start, c, l, k) = Uleb(a) \o Uleb(b)
      BY ONLY <1>2, <2>1, <2>2, ConcatEmptySeq
    <2>4. /\ Ulebs(o, 2)[1] = a /\ Ulebs(o, 2)[2] = b
          /\ UlebAt(o, 2)[2] = o + Len(Uleb(a) \o Uleb(b))
      BY <2>3, TwoNumbers
    <2> QED BY ONLY <1>1, <2>1, <2>3, <2>4 DEF MemberFound
  <1>4. CASE l > 2
    <2>1. PICK off \in Count : off = CodeOff(start, c, l, k)
      <3>1. l \in 3 .. 4
        BY <1>4
      <3>2. PICK ss \in Seq(Seq(Nat)), n \in Nat : /\ ss = CodesOf(c) /\ n = NumberOf(c, l, k)
                                           /\ n \in 1 .. Len(ss)
        <4>1. CodesOf(c) \in Seq(Seq(Nat)) /\ NumberOf(c, l, k) \in 1 .. Len(CodesOf(c))
          BY <3>1, CodesAre
        <4>2. NumberOf(c, l, k) \in Nat
          BY <4>1
        <4> QED BY ONLY <4>1, <4>2
      <3>3. OffsetOf(start, ss, n) \in Nat /\ OffsetOf(start, ss, n) =< start + Len(FlattenSeq(ss))
        BY ONLY <3>2, OffsetIs, ss \in Seq(Seq(Nat)), start \in Nat
      <3>4. OffsetOf(start, ss, n) \in Count
        BY <3>2, <3>3, CountNat DEF DataFrom
      <3> QED BY <3>2, <3>4 DEF CodeOff
    <2>2. MemberItem(start, c, l, k) = Uleb(a) \o Uleb(b) \o Uleb(off)
      BY ONLY <1>2, <1>4, <2>1
    <2>3. /\ Ulebs(o, 3)[1] = a /\ Ulebs(o, 3)[2] = b /\ Ulebs(o, 3)[3] = off
          /\ UlebAt(o, 3)[3] = o + Len(Uleb(a) \o Uleb(b) \o Uleb(off))
      BY <2>2, ThreeNumbers
    <2>4. ~(l =< 2)
      BY <1>4
    <2> QED BY ONLY <1>1, <2>1, <2>2, <2>3, <2>4 DEF MemberFound
  <1>5. l =< 2 \/ l > 2
    OBVIOUS
  <1> QED BY ONLY <1>3, <1>4, <1>5

\* The code of a method; of one without, its offset is 0, before the tables.
CodeFound(start, c, l, k) ==
  LET o == CodeOff(start, c, l, k) - HeaderSize
  IN  /\ c.lists[l][k].code # Null => CodeIn(o) /\ CodeAt(o) = c.lists[l][k].code
      /\ c.lists[l][k].code = Null => ~CodeIn(o)

LEMMA CodeRead ==
  ASSUME buf \in Seq(Nat), NEW start \in Nat, NEW c, HasData(c),
         Lies(buf, start - HeaderSize, ClassItem(start, c)),
         NEW l \in 3 .. 4, NEW k \in 1 .. Len(c.lists[l])
  PROVE  CodeFound(start, c, l, k)
  <1>1. PICK ss \in Seq(Seq(Nat)), n \in Nat : /\ ss = CodesOf(c) /\ n = NumberOf(c, l, k)
                                       /\ n \in 1 .. Len(ss) /\ ss[n] = CodeItem(c.lists[l][k])
    <2>1. /\ CodesOf(c) \in Seq(Seq(Nat)) /\ NumberOf(c, l, k) \in 1 .. Len(CodesOf(c))
          /\ CodesOf(c)[NumberOf(c, l, k)] = CodeItem(c.lists[l][k])
      BY CodesAre
    <2>2. NumberOf(c, l, k) \in Nat
      BY <2>1
    <2> QED BY ONLY <2>1, <2>2
  <1>2. CodeOff(start, c, l, k) = OffsetOf(start, ss, n)
    BY <1>1 DEF CodeOff
  <1>3. PICK m : m = c.lists[l][k]
    OBVIOUS
  <1>4. m.code \in {Null} \cup ACode
    <2>1. l \in 1 .. 4 /\ l > 2
      OBVIOUS
    <2> QED BY <1>3, <2>1, ClassIs
  <1>5. HeaderSize \in Nat /\ HeaderSize > 0
    BY DEF HeaderSize
  <1>6. CASE m.code # Null
    <2>1. m.code \in ACode
      BY <1>4, <1>6
    <2>2. CodeItem(m) # <<>>
      BY <1>6, <2>1, CodeItemIs
    <2>3. Lies(buf, start - HeaderSize, FlattenSeq(ss))
      BY <1>1, ClassItemIs
    <2>4. Lies(buf, OffsetOf(start, ss, n) - HeaderSize, ss[n])
      BY ONLY <1>1, <1>3, <1>5, <2>2, <2>3, ItemLies, buf \in Seq(Nat), ss \in Seq(Seq(Nat)), start \in Nat
    <2>5. CodeIn(OffsetOf(start, ss, n) - HeaderSize)
          /\ CodeAt(OffsetOf(start, ss, n) - HeaderSize) = m.code
      BY <1>1, <1>3, <1>6, <2>1, <2>4, ReadCode
    <2> QED BY <1>2, <1>3, <1>6, <2>5 DEF CodeFound
  <1>7. CASE m.code = Null
    <2>1. ss[n] = <<>>
      BY <1>1, <1>3, <1>7 DEF CodeItem
    <2>2. OffsetOf(start, ss, n) = 0
      BY ONLY <1>1, <2>1, OffsetIs, ss \in Seq(Seq(Nat)), start \in Nat
    <2>3. ~CodeIn(0 - HeaderSize)
      BY <1>5 DEF CodeIn, In
    <2> QED BY <1>2, <1>3, <1>7, <2>2, <2>3 DEF CodeFound
  <1> QED BY <1>6, <1>7
-----------------------------------------------------------------------------
(***************************************************************************)
(* The inductive invariant.                                                *)
(*                                                                         *)
(* The header is that of the file once it was read, and counts no strings  *)
(* and no methods that the file does not have if only its first bytes      *)
(* were.  Each table is empty or what the file says, and filled at the     *)
(* stages behind its own.                                                  *)
(* Of the classes, the first n are parsed: all members of those before the *)
(* last, and of the last one so many of each list as read says; a list is  *)
(* begun when the lists before it are done, and the parser is where the    *)
(* next member lies.                                                       *)
(***************************************************************************)
Stages == {"file", "map", "strings", "types", "protos", "fields", "methods", "defs", "classes",
           "startup", "run", "lost"}

InvFile ==
  /\ dex \in Dexes /\ damage \in Damages /\ buf = FileOf(dex).buf /\ stage \in Stages
  /\ stage # "file" /\ damage \in {"none", "body"} => header = FileOf(dex).header
  /\ stage = "file" \/ damage = "absent" => header = [size \in Sizes |-> 0]
  /\ header.stringIdsSize > 0 => dex.strings # <<>>
  /\ header.methodIdsSize > 0 => dex.methods # <<>>
  /\ stage \in {"map", "strings", "types", "protos", "fields", "methods", "defs", "classes"} =>
       damage = "none"

Strings == [k \in DOMAIN dex.strings |-> Kept(dex.strings[k])]

InvTables ==
  /\ string_data \in {Null, Strings} /\ type_ids \in {Null, dex.types}
  /\ proto_ids \in {Null, dex.protos} /\ field_ids \in {Null, dex.fields}
  /\ method_ids \in {Null, dex.methods}
  /\ type_list = Null \/ \E k \in DOMAIN dex.protos : type_list = dex.protos[k].types

Filled ==
  damage = "none" =>
    /\ stage \in {"types", "protos", "fields", "methods", "defs", "classes", "startup", "run"} =>
         string_data = Strings
    /\ stage \in {"protos", "fields", "methods", "defs", "classes", "startup", "run"} =>
         type_ids = dex.types
    /\ stage \in {"fields", "methods", "defs", "classes", "startup", "run"} => proto_ids = dex.protos
    /\ stage \in {"methods", "defs", "classes", "startup", "run"} => field_ids = dex.fields
    /\ stage \in {"defs", "classes", "startup", "run"} => method_ids = dex.methods

\* What the parser keeps of a member, of the lists of a class, of the classes.
MemberOf(c, l, k) ==
  IF l <= 2 THEN [diff |-> Diff(c.lists[l], k), flags |-> c.lists[l][k].flags]
  ELSE [diff |-> Diff(c.lists[l], k), flags |-> c.lists[l][k].flags, code |-> c.lists[l][k].code]
ListsOf(c, read) == [l \in 1 .. 4 |-> [k \in 1 .. read[l] |-> MemberOf(c, l, k)]]
Whole(c) == [l \in 1 .. 4 |-> Len(c.lists[l])]
DataOf(n, read) ==
  [c \in 1 .. n |-> ListsOf(dex.classes[c], IF c = n THEN read ELSE Whole(dex.classes[c]))]
DefsOf(n) ==
  [c \in 1 .. n |-> [class |-> dex.classes[c].class, super |-> dex.classes[c].super]]

\* The class n, of whose lists so much was read.
InClass(n, read) ==
  LET c == dex.classes[n]
  IN  /\ IsRead(c, read)
      /\ \A l \in 3 .. 4 : \A k \in 1 .. read[l] : c.lists[l][k].code # Null
      /\ left = [l \in 1 .. 4 |-> Len(c.lists[l]) - read[l]]
      /\ \A l \in 1 .. 4 : left[l] > 0 => \A k \in l + 1 .. 4 : read[k] = 0
      /\ at = (Starts(dex)[n] - HeaderSize) + ReadTo(Starts(dex)[n], c, read)

Parsed(n, read) ==
  /\ n \in 0 .. Len(dex.classes)
  /\ \A c \in 1 .. n : HasData(dex.classes[c])
  /\ \A c \in 1 .. n - 1 : \A l \in 3 .. 4 : \A k \in 1 .. Len(dex.classes[c].lists[l]) :
       dex.classes[c].lists[l][k].code # Null
  /\ IF n = 0 THEN left = None /\ at = 0 ELSE InClass(n, read)
  /\ class_defs = DefsOf(n) /\ class_data = DataOf(n, read)

NoClasses == class_defs = Null /\ class_data = Null /\ left = None /\ at = 0

InvClasses ==
  /\ \/ NoClasses
     \/ damage = "none" /\ \E n \in Nat, read \in [1 .. 4 -> Nat] : Parsed(n, read)
  /\ stage \in {"file", "map", "strings", "types", "protos", "fields", "methods", "defs"} => NoClasses
  /\ stage = "classes" => \E n \in Nat, read \in [1 .. 4 -> Nat] : Parsed(n, read)
  /\ damage = "none" /\ stage \in {"startup", "run"} =>
       /\ left = None
       /\ \E read \in [1 .. 4 -> Nat] : Parsed(Len(dex.classes), read)

Inv == InvFile /\ InvTables /\ Filled /\ InvClasses /\ LostByLimitsOnly
-----------------------------------------------------------------------------
(***************************************************************************)
(* The lists of a class grow by what the parser keeps.                     *)
(***************************************************************************)
Grown(lists, l, member) == [lists EXCEPT ![l] = Append(@, member)]

LEMMA EmptyLists ==
  ASSUME NEW c
  PROVE  << <<>>, <<>>, <<>>, <<>> >> = ListsOf(c, NoneRead)
  <1>1. ASSUME NEW l \in 1 .. 4 PROVE <<>> = [k \in 1 .. NoneRead[l] |-> MemberOf(c, l, k)]
    <2>1. PICK s : s = [k \in 1 .. 0 |-> MemberOf(c, l, k)]
      OBVIOUS
    <2>2. s = [k \in 1 .. 0 |-> s[k]]
      BY <2>1
    <2>3. s \in Seq(Nat) /\ Len(s) = 0
      BY ONLY <2>2, FunctionIsSeq, 0 \in Nat
    <2>4. NoneRead[l] = 0
      BY DEF NoneRead
    <2> QED BY <2>1, <2>3, <2>4, EmptySeq
  <1>2. PICK t : t = << <<>>, <<>>, <<>>, <<>> >>
    OBVIOUS
  <1>3. t = [l \in 1 .. 4 |-> <<>>]
    BY <1>2
  <1>4. ListsOf(c, NoneRead) = [l \in 1 .. 4 |-> <<>>]
    BY <1>1 DEF ListsOf
  <1> QED BY <1>2, <1>3, <1>4

LEMMA ListOfIs ==
  ASSUME NEW c, NEW l, NEW n \in Nat
  PROVE  LET s == [k \in 1 .. n |-> MemberOf(c, l, k)]
         IN  s \in Seq({MemberOf(c, l, k) : k \in Nat}) /\ Len(s) = n
             /\ Append(s, MemberOf(c, l, n + 1)) = [k \in 1 .. n + 1 |-> MemberOf(c, l, k)]
  <1>1. PICK s : s = [k \in 1 .. n |-> MemberOf(c, l, k)]
    OBVIOUS
  <1>2. PICK S : S = {MemberOf(c, l, k) : k \in Nat}
    OBVIOUS
  <1>3. s = [k \in 1 .. n |-> s[k]] /\ \A k \in 1 .. n : s[k] \in S /\ s[k] = MemberOf(c, l, k)
    BY <1>1, <1>2
  <1>4. s \in Seq(S) /\ Len(s) = n
    BY ONLY <1>3, FunctionIsSeq, n \in Nat
  <1>5. PICK e : e = MemberOf(c, l, n + 1)
    OBVIOUS
  <1>6. e \in S
    BY <1>2, <1>5
  <1>7. PICK t : t = Append(s, e)
    OBVIOUS
  <1>8. t \in Seq(S) /\ Len(t) = n + 1 /\ (\A k \in 1 .. n : t[k] = s[k]) /\ t[n + 1] = e
    BY <1>4, <1>6, <1>7, AppendProperties
  <1>9. t = [k \in 1 .. n + 1 |-> t[k]]
    BY <1>8, LenProperties
  <1>10. \A k \in 1 .. n + 1 : k \in 1 .. n \/ k = n + 1
    OBVIOUS
  <1>11. \A k \in 1 .. n + 1 : t[k] = MemberOf(c, l, k)
    BY ONLY <1>3, <1>5, <1>8, <1>10
  <1>12. t = [k \in 1 .. n + 1 |-> MemberOf(c, l, k)]
    BY ONLY <1>9, <1>11
  <1> QED BY <1>1, <1>2, <1>4, <1>5, <1>7, <1>12

LEMMA NextLists ==
  ASSUME NEW c, NEW read \in [1 .. 4 -> Nat], NEW l \in 1 .. 4
  PROVE  Grown(ListsOf(c, read), l, MemberOf(c, l, read[l] + 1)) = ListsOf(c, OneMore(read, l))
  <1>1. PICK f : f = ListsOf(c, read)
    OBVIOUS
  <1>2. PICK next \in [1 .. 4 -> Nat] : /\ next = [read EXCEPT ![l] = @ + 1] /\ next[l] = read[l] + 1
                                        /\ \A m \in 1 .. 4 : m # l => next[m] = read[m]
    <2>1. PICK next : next = [read EXCEPT ![l] = @ + 1]
      OBVIOUS
    <2>2. next[l] = read[l] + 1 /\ \A m \in 1 .. 4 : m # l => next[m] = read[m]
      BY <2>1
    <2>3. next \in [1 .. 4 -> Nat]
      BY <2>1
    <2> QED BY ONLY <2>1, <2>2, <2>3
  <1>3. PICK g : g = ListsOf(c, next)
    OBVIOUS
  <1>4. f = [m \in 1 .. 4 |-> [k \in 1 .. read[m] |-> MemberOf(c, m, k)]]
    BY <1>1 DEF ListsOf
  <1>5. g = [m \in 1 .. 4 |-> [k \in 1 .. next[m] |-> MemberOf(c, m, k)]]
    BY <1>3 DEF ListsOf
  <1>6. g[l] = Append(f[l], MemberOf(c, l, read[l] + 1))
    <2>1. read[l] \in Nat
      OBVIOUS
    <2>2. Append([k \in 1 .. read[l] |-> MemberOf(c, l, k)], MemberOf(c, l, read[l] + 1))
            = [k \in 1 .. read[l] + 1 |-> MemberOf(c, l, k)]
      BY <2>1, ListOfIs
    <2>3. f[l] = [k \in 1 .. read[l] |-> MemberOf(c, l, k)]
      BY <1>4
    <2>4. g[l] = [k \in 1 .. read[l] + 1 |-> MemberOf(c, l, k)]
      BY <1>2, <1>5
    <2> QED BY <2>2, <2>3, <2>4
  <1>7. \A m \in 1 .. 4 : m # l => g[m] = f[m]
    BY <1>2, <1>4, <1>5
  <1>8. DOMAIN f = 1 .. 4 /\ g = [m \in 1 .. 4 |-> g[m]]
    BY <1>4, <1>5
  <1>9. [f EXCEPT ![l] = Append(@, MemberOf(c, l, read[l] + 1))]
          = [m \in 1 .. 4 |-> IF m = l THEN Append(f[l], MemberOf(c, l, read[l] + 1)) ELSE f[m]]
    BY <1>8
  <1>10. g = [m \in 1 .. 4 |-> IF m = l THEN Append(f[l], MemberOf(c, l, read[l] + 1)) ELSE f[m]]
    BY ONLY <1>6, <1>7, <1>8
  <1> QED BY <1>1, <1>2, <1>3, <1>9, <1>10 DEF Grown, OneMore

\* A sequence by its elements, and one more.
LEMMA MoreOf ==
  ASSUME NEW n \in Nat, NEW f, f = [c \in 1 .. n |-> f[c]], NEW e
  PROVE  /\ Len(f) = n /\ f \in Seq({f[c] : c \in 1 .. n} \cup {e})
         /\ Append(f, e) = [c \in 1 .. n + 1 |-> IF c = n + 1 THEN e ELSE f[c]]
  <1>1. PICK S : S = {f[c] : c \in 1 .. n} \cup {e}
    OBVIOUS
  <1>2. f \in Seq(S) /\ Len(f) = n
    <2>1. \A c \in 1 .. n : f[c] \in S
      BY <1>1
    <2> QED BY <2>1, FunctionIsSeq
  <1>3. PICK t : t = Append(f, e)
    OBVIOUS
  <1>4. t \in Seq(S) /\ Len(t) = n + 1 /\ (\A k \in 1 .. n : t[k] = f[k]) /\ t[n + 1] = e
    BY <1>1, <1>2, <1>3, AppendProperties
  <1>5. t = [k \in 1 .. n + 1 |-> t[k]]
    BY <1>4, LenProperties
  <1>6. \A c \in 1 .. n + 1 : (c \in 1 .. n /\ c # n + 1) \/ c = n + 1
    OBVIOUS
  <1>7. \A c \in 1 .. n + 1 : t[c] = IF c = n + 1 THEN e ELSE f[c]
    BY ONLY <1>4, <1>6
  <1>8. t = [c \in 1 .. n + 1 |-> IF c = n + 1 THEN e ELSE f[c]]
    BY ONLY <1>5, <1>7
  <1> QED BY <1>1, <1>2, <1>3, <1>8

LEMMA NextDefs ==
  ASSUME NEW n \in Nat
  PROVE  /\ Len(DefsOf(n)) = n
         /\ Append(DefsOf(n), [class |-> dex.classes[n + 1].class, super |-> dex.classes[n + 1].super])
              = DefsOf(n + 1)
  <1>1. PICK f : f = DefsOf(n)
    OBVIOUS
  <1>2. PICK e : e = [class |-> dex.classes[n + 1].class, super |-> dex.classes[n + 1].super]
    OBVIOUS
  <1>3. /\ f = [c \in 1 .. n |-> f[c]]
        /\ \A c \in 1 .. n : f[c] = [class |-> dex.classes[c].class, super |-> dex.classes[c].super]
    BY <1>1 DEF DefsOf
  <1>4. Len(f) = n /\ Append(f, e) = [c \in 1 .. n + 1 |-> IF c = n + 1 THEN e ELSE f[c]]
    BY ONLY <1>3, MoreOf, n \in Nat
  <1>5. \A c \in 1 .. n + 1 : c \in 1 .. n \/ c = n + 1
    OBVIOUS
  <1>6. \A c \in 1 .. n + 1 : (IF c = n + 1 THEN e ELSE f[c])
                                = [class |-> dex.classes[c].class, super |-> dex.classes[c].super]
    BY ONLY <1>2, <1>3, <1>5
  <1>7. Append(f, e) = DefsOf(n + 1)
    BY ONLY <1>4, <1>6 DEF DefsOf
  <1> QED BY <1>1, <1>2, <1>4, <1>7

LEMMA NextClass ==
  ASSUME NEW n \in Nat, NEW read, n > 0 => read = Whole(dex.classes[n])
  PROVE  Len(DataOf(n, read)) = n
         /\ Append(DataOf(n, read), << <<>>, <<>>, <<>>, <<>> >>) = DataOf(n + 1, NoneRead)
  <1>1. PICK f : f = DataOf(n, read)
    OBVIOUS
  <1>2. PICK e : e = << <<>>, <<>>, <<>>, <<>> >>
    OBVIOUS
  <1>3. f = [c \in 1 .. n |-> f[c]] /\ \A c \in 1 .. n : f[c] = ListsOf(dex.classes[c], Whole(dex.classes[c]))
    BY <1>1 DEF DataOf
  <1>4. Len(f) = n /\ Append(f, e) = [c \in 1 .. n + 1 |-> IF c = n + 1 THEN e ELSE f[c]]
    BY ONLY <1>3, MoreOf, n \in Nat
  <1>5. \A c \in 1 .. n + 1 : (c \in 1 .. n /\ c # n + 1) \/ c = n + 1
    OBVIOUS
  <1>6. e = ListsOf(dex.classes[n + 1], NoneRead)
    BY <1>2, EmptyLists
  <1>7. \A c \in 1 .. n + 1 : (IF c = n + 1 THEN e ELSE f[c])
          = ListsOf(dex.classes[c], IF c = n + 1 THEN NoneRead ELSE Whole(dex.classes[c]))
    BY ONLY <1>3, <1>5, <1>6
  <1>8. Append(f, e) = DataOf(n + 1, NoneRead)
    BY ONLY <1>4, <1>7 DEF DataOf
  <1> QED BY <1>1, <1>2, <1>4, <1>8

MoreInClass(kept, n, l, member) == [kept EXCEPT ![n][l] = Append(@, member)]

LEMMA NextInClass ==
  ASSUME NEW n \in Nat, n > 0, NEW read \in [1 .. 4 -> Nat], NEW l \in 1 .. 4
  PROVE  /\ Len(DataOf(n, read)) = n
         /\ MoreInClass(DataOf(n, read), n, l, MemberOf(dex.classes[n], l, read[l] + 1))
              = DataOf(n, OneMore(read, l))
  <1>1. PICK f : f = DataOf(n, read)
    OBVIOUS
  <1>2. PICK next : next = [read EXCEPT ![l] = @ + 1]
    OBVIOUS
  <1>3. PICK e : e = MemberOf(dex.classes[n], l, read[l] + 1)
    OBVIOUS
  <1>4. /\ f = [c \in 1 .. n |-> f[c]]
        /\ \A c \in 1 .. n : f[c] = ListsOf(dex.classes[c], IF c = n THEN read ELSE Whole(dex.classes[c]))
    BY <1>1 DEF DataOf
  <1>5. n \in 1 .. n /\ f[n] = ListsOf(dex.classes[n], read)
    BY <1>4
  <1>6. [f[n] EXCEPT ![l] = Append(@, e)] = ListsOf(dex.classes[n], next)
    <2>1. PICK d : d = dex.classes[n]
      OBVIOUS
    <2>2. Grown(ListsOf(d, read), l, MemberOf(d, l, read[l] + 1)) = ListsOf(d, OneMore(read, l))
      BY ONLY NextLists, read \in [1 .. 4 -> Nat], l \in 1 .. 4
    <2> QED BY ONLY <1>2, <1>3, <1>5, <2>1, <2>2 DEF Grown, OneMore
  <1>7. [f EXCEPT ![n][l] = Append(@, e)]
          = [c \in 1 .. n |-> IF c = n THEN [f[n] EXCEPT ![l] = Append(@, e)] ELSE f[c]]
    BY <1>4, <1>5
  <1>8. \A c \in 1 .. n : (IF c = n THEN [f[n] EXCEPT ![l] = Append(@, e)] ELSE f[c])
                            = ListsOf(dex.classes[c], IF c = n THEN next ELSE Whole(dex.classes[c]))
    BY ONLY <1>4, <1>6
  <1>9. [f EXCEPT ![n][l] = Append(@, e)] = DataOf(n, next)
    BY ONLY <1>7, <1>8 DEF DataOf
  <1>10. Len(f) = n
    BY ONLY <1>4, MoreOf, n \in Nat
  <1> QED BY <1>1, <1>2, <1>3, <1>9, <1>10 DEF OneMore, MoreInClass

LEMMA DataIs ==
  ASSUME NEW n \in Nat, NEW read
  PROVE  Len(DataOf(n, read)) = n /\ DOMAIN DataOf(n, read) = 1 .. n
         /\ Len(DefsOf(n)) = n /\ DOMAIN DefsOf(n) = 1 .. n
  <1>1. PICK f : f = DataOf(n, read)
    OBVIOUS
  <1>2. f = [c \in 1 .. n |-> f[c]]
    BY <1>1 DEF DataOf
  <1>3. Len(f) = n
    BY ONLY <1>2, MoreOf, n \in Nat
  <1>4. DOMAIN f = 1 .. n /\ DOMAIN DefsOf(n) = 1 .. n
    BY <1>2 DEF DefsOf
  <1> QED BY <1>1, <1>3, <1>4, NextDefs

-----------------------------------------------------------------------------
(***************************************************************************)
(* What the parser of a class finds.                                       *)
(***************************************************************************)
ClassAt(n) == Starts(dex)[n] - HeaderSize

LEMMA BufIs ==
  ASSUME Loaded
  PROVE  /\ buf \in Seq(Nat) /\ HeaderSize \in Nat /\ HeaderSize > 0
         /\ Len(dex.classes) \in Nat
         /\ \A n \in 1 .. Len(dex.classes) : Starts(dex)[n] \in Nat /\ IsClass(dex.classes[n])
  <1>1. IsDex(dex)
    BY DEF Loaded
  <1>2. buf \in Seq(Nat) /\ HeaderSize \in Nat
    BY Layout DEF Loaded
  <1>3. Len(dex.classes) \in Nat /\ \A n \in 1 .. Len(dex.classes) : IsClass(dex.classes[n])
    BY <1>1, ClassesTyped
  <1>4. \A n \in 1 .. Len(dex.classes) + 1 : Starts(dex)[n] \in Nat
    BY <1>1, StartsAre
  <1>5. \A n \in 1 .. Len(dex.classes) : n \in 1 .. Len(dex.classes) + 1
    BY <1>3
  <1> QED BY <1>2, <1>3, <1>4, <1>5 DEF HeaderSize

LEMMA DefRead ==
  ASSUME Loaded, NEW n \in 1 .. Len(dex.classes), Len(class_defs) = n - 1
  PROVE  /\ u4(DefAt) = dex.classes[n].class /\ u4(DefAt + 8) = dex.classes[n].super
         /\ u4(DefAt + 24) = ClassDataOff(Starts(dex)[n], dex.classes[n])
  <1>1. /\ buf \in Seq(Nat) /\ HeaderSize \in Nat
        /\ Lies(buf, ClassesOff(dex) - HeaderSize, FlattenSeq(ClassDefs(dex)))
    BY Layout DEF Loaded
  <1>2. DefAt = (ClassesOff(dex) - HeaderSize) + 32 * (n - 1)
    BY HeaderIs DEF DefAt
  <1>3. PICK o : o = DefAt
    OBVIOUS
  <1>4. Lies(buf, o, ClassEntry(dex, n))
    BY <1>1, <1>2, <1>3, ClassDefsAre DEF Loaded
  <1>5. /\ Lies(buf, o, U4(dex.classes[n].class)) /\ Lies(buf, o + 8, U4(dex.classes[n].super))
        /\ Lies(buf, o + 24, U4(ClassDataOff(Starts(dex)[n], dex.classes[n])))
    BY <1>1, <1>4, ClassEntryIs DEF Loaded
  <1>6. /\ dex.classes[n].class \in Nat /\ dex.classes[n].super \in Nat
        /\ ClassDataOff(Starts(dex)[n], dex.classes[n]) \in Nat
    <2>1. IsClass(dex.classes[n]) /\ Starts(dex)[n] \in Nat
      BY BufIs
    <2>2. dex.classes[n].class \in Count /\ dex.classes[n].super \in Count
      BY <2>1 DEF IsClass
    <2> QED BY <2>1, <2>2, CountNat, ClassItemTyped
  <1> QED BY <1>1, <1>3, <1>5, <1>6, ReadU4

\* The item of a class lies where its start says.
LEMMA ClassLies ==
  ASSUME Loaded, NEW n \in 1 .. Len(dex.classes)
  PROVE  /\ ClassItem(Starts(dex)[n], dex.classes[n]) # <<>> =>
              Lies(buf, ClassAt(n), ClassItem(Starts(dex)[n], dex.classes[n]))
         /\ HasData(dex.classes[n]) =>
              /\ Lies(buf, ClassAt(n), ClassItem(Starts(dex)[n], dex.classes[n]))
              /\ Starts(dex)[n] + DataFrom(dex.classes[n]) \in Count
  <1>1. /\ buf \in Seq(Nat) /\ HeaderSize \in Nat /\ HeaderSize + Len(buf) \in Count
        /\ Lies(buf, ItemsOff(dex) - HeaderSize, FlattenSeq(ClassItems(dex)))
    BY Layout DEF Loaded
  <1>2. PICK ss \in Seq(Seq(Nat)) :
          /\ ss = ClassItems(dex) /\ Len(ss) = Len(dex.classes)
          /\ ss[n] = ClassItem(Starts(dex)[n], dex.classes[n])
          /\ Starts(dex)[n] = ItemsOff(dex) + Upto(ss, n - 1)
    BY ClassItemsAre DEF Loaded
  <1>3. PICK u : u = Upto(ss, n - 1)
    OBVIOUS
  <1>4. Lies(buf, (ItemsOff(dex) - HeaderSize) + u, ss[n])
    BY <1>1, <1>2, <1>3, LiesFlatten
  <1>5. u \in Nat
    <2>1. n - 1 \in 0 .. Len(ss)
      BY <1>2, LenProperties
    <2> QED BY <1>3, <2>1, UptoSteps
  <1>6. PICK i \in Nat : i = ItemsOff(dex)
    BY OffsAre DEF Loaded
  <1>7. PICK s \in Nat : s = Starts(dex)[n] /\ s - HeaderSize = (ItemsOff(dex) - HeaderSize) + u
    BY <1>1, <1>2, <1>3, <1>5, <1>6
  <1>8. Lies(buf, ClassAt(n), ClassItem(Starts(dex)[n], dex.classes[n]))
    BY <1>2, <1>4, <1>7 DEF ClassAt
  <1>9. ASSUME HasData(dex.classes[n]) PROVE s + DataFrom(dex.classes[n]) \in Count
    <2>1. PICK c : c = dex.classes[n]
      OBVIOUS
    <2>2. Lies(buf, s - HeaderSize, ClassItem(s, c))
      BY <1>7, <1>8, <2>1 DEF ClassAt
    <2>3. DataFrom(c) \in Nat /\ Lies(buf, (s - HeaderSize) + DataFrom(c), SizesOf(c))
          /\ Len(SizesOf(c)) \in Nat
      BY <1>1, <1>9, <2>1, <2>2, ClassItemIs
    <2>4. PICK x \in Nat, y \in Nat, m \in Nat : x = DataFrom(c) /\ y = Len(SizesOf(c)) /\ m = Len(buf)
      BY <1>1, <2>3, LenProperties
    <2>5. ((s - HeaderSize) + x) + y =< m
      BY <2>3, <2>4 DEF Lies
    <2>6. s + x =< HeaderSize + m /\ s + x \in Nat
      BY <1>1, <2>5
    <2> QED BY <1>1, <2>1, <2>4, <2>6, CountNat
  <1> QED BY <1>7, <1>8, <1>9

\* The data of a class without any is said to be before the tables.
LEMMA NoClassData ==
  ASSUME Loaded, NEW n \in 1 .. Len(dex.classes), Len(class_defs) = n - 1,
         dex.classes[n].lists = Null
  PROVE  ~UlebsIn(DataAt, 4)
  <1>1. IsClass(dex.classes[n]) /\ Starts(dex)[n] \in Nat /\ buf \in Seq(Nat)
        /\ HeaderSize \in Nat /\ HeaderSize > 0
    BY BufIs
  <1>2. ClassDataOff(Starts(dex)[n], dex.classes[n]) = 0
    BY <1>1, ClassItemTyped
  <1>3. DataAt = 0 - HeaderSize
    BY <1>2, DefRead DEF DataAt
  <1> QED BY <1>1, <1>3, NoUlebs

LEMMA ClassData ==
  ASSUME Loaded, NEW n \in 1 .. Len(dex.classes), Len(class_defs) = n - 1,
         dex.classes[n].lists # Null
  PROVE  /\ HasData(dex.classes[n]) /\ UlebsIn(DataAt, 4)
         /\ Ulebs(DataAt, 4) = Whole(dex.classes[n])
         /\ UlebAt(DataAt, 4)[4] = ClassAt(n) + ReadTo(Starts(dex)[n], dex.classes[n], NoneRead)
  <1>1. IsClass(dex.classes[n]) /\ Starts(dex)[n] \in Nat /\ buf \in Seq(Nat) /\ HeaderSize \in Nat
    BY BufIs
  <1>2. PICK c : c = dex.classes[n]
    OBVIOUS
  <1>3. PICK s \in Nat : s = Starts(dex)[n]
    BY <1>1
  <1>4. HasData(c) /\ ClassDataOff(s, c) = s + DataFrom(c)
    BY <1>1, <1>2, <1>3, ClassItemTyped
  <1>5. PICK o : o = ClassAt(n) /\ Lies(buf, o, ClassItem(s, c))
    BY <1>2, <1>3, <1>4, ClassLies
  <1>6. DataFrom(c) \in Nat
    BY <1>3, <1>4, ClassItemIs
  <1>7. DataAt = o + DataFrom(c)
    <2>1. DataAt = (s + DataFrom(c)) - HeaderSize
      BY <1>2, <1>3, <1>4, DefRead DEF DataAt
    <2>2. o = s - HeaderSize
      BY <1>3, <1>5 DEF ClassAt
    <2> QED BY <1>1, <1>6, <2>1, <2>2
  <1>8. /\ UlebsIn(DataAt, 4) /\ Ulebs(DataAt, 4) = [l \in 1 .. 4 |-> Len(c.lists[l])]
        /\ UlebAt(DataAt, 4)[4] = o + (DataFrom(c) + Len(SizesOf(c)))
    BY ONLY <1>1, <1>4, <1>5, <1>7, SizesRead, s \in Nat
  <1>9. ReadTo(s, c, NoneRead) = DataFrom(c) + Len(SizesOf(c))
    <2>1. IsRead(c, NoneRead)
      <3>1. \A l \in 1 .. 4 : Len(c.lists[l]) \in Nat
        BY <1>4, ClassIs
      <3> QED BY <3>1 DEF IsRead, NoneRead
    <2> QED BY <1>1, <1>4, <1>5, <2>1, ReadToIs
  <1> QED BY <1>2, <1>3, <1>4, <1>5, <1>8, <1>9 DEF Whole

\* Where the parser is in a class.
LEMMA InClassIs ==
  ASSUME Loaded, NEW n \in 1 .. Len(dex.classes), HasData(dex.classes[n]),
         NEW read, InClass(n, read)
  PROVE  /\ at \in 0 .. Len(buf) /\ \A l \in 1 .. 4 : left[l] \in 0 .. Len(buf) - at
         /\ left = None => read = Whole(dex.classes[n])
         /\ \A l \in 1 .. 4 : /\ read[l] \in Nat /\ Len(dex.classes[n].lists[l]) \in Nat
                              /\ read[l] =< Len(dex.classes[n].lists[l])
                              /\ left[l] = Len(dex.classes[n].lists[l]) - read[l]
  <1>1. PICK c : c = dex.classes[n]
    OBVIOUS
  <1>2. PICK s \in Nat : s = Starts(dex)[n]
    BY BufIs
  <1>3. PICK o : o = ClassAt(n) /\ Lies(buf, o, ClassItem(s, c)) /\ o = s - HeaderSize
    BY <1>1, <1>2, ClassLies DEF ClassAt
  <1>4. buf \in Seq(Nat) /\ HasData(c)
    BY <1>1, BufIs
  <1>5. /\ IsRead(c, read) /\ left = [l \in 1 .. 4 |-> Len(c.lists[l]) - read[l]]
        /\ at = o + ReadTo(s, c, read)
    BY <1>1, <1>2, <1>3 DEF InClass
  <1>6. /\ at \in Nat /\ at =< Len(buf)
        /\ \A l \in 1 .. 4 : at + (Len(c.lists[l]) - read[l]) =< Len(buf)
    BY ONLY <1>3, <1>4, <1>5, ReadToIs, s \in Nat
  <1>7. \A l \in 1 .. 4 : Len(c.lists[l]) \in Nat /\ read[l] \in Nat /\ read[l] =< Len(c.lists[l])
    BY <1>4, <1>5, ClassIs DEF IsRead
  <1>8. PICK m \in Nat : m = Len(buf)
    BY <1>4, LenProperties
  <1>9. ASSUME NEW l \in 1 .. 4 PROVE left[l] = Len(c.lists[l]) - read[l] /\ left[l] \in 0 .. Len(buf) - at
    <2>1. PICK a \in Nat, b \in Nat : a = Len(c.lists[l]) /\ b = read[l] /\ b =< a
      BY <1>7
    <2>2. left[l] = a - b
      BY <1>5, <2>1
    <2>3. at + (a - b) =< m
      BY <1>6, <1>8, <2>1
    <2>4. PICK p \in Nat : p = at
      BY <1>6
    <2>5. a - b \in 0 .. m - p
      BY ONLY <2>1, <2>3, <2>4, p \in Nat, m \in Nat, a \in Nat, b \in Nat
    <2> QED BY ONLY <1>8, <2>1, <2>2, <2>4, <2>5
  <1>10. ASSUME left = None PROVE read = Whole(c)
    <2>1. \A l \in 1 .. 4 : left[l] = 0
      BY <1>10 DEF None
    <2>2. ASSUME NEW l \in 1 .. 4 PROVE read[l] = Len(c.lists[l])
      <3>1. PICK a \in Nat, b \in Nat : a = Len(c.lists[l]) /\ b = read[l]
        BY <1>7
      <3>2. a - b = 0
        BY ONLY <1>9, <2>1, <3>1, l \in 1 .. 4
      <3> QED BY <3>1, <3>2
    <2>3. read \in [1 .. 4 -> Nat]
      BY <1>5 DEF IsRead
    <2> QED BY <2>2, <2>3 DEF Whole
  <1> QED BY <1>1, <1>6, <1>7, <1>8, <1>9, <1>10

\* What the parser finds of the next member, and where it is behind it.
LEMMA TurnIs ==
  ASSUME Loaded, NEW n \in 1 .. Len(dex.classes), HasData(dex.classes[n]),
         NEW read, InClass(n, read), NEW l \in 1 .. 4, Turn(l)
  PROVE  /\ read[l] + 1 \in 1 .. Len(dex.classes[n].lists[l])
         /\ Lies(buf, at, MemberItem(Starts(dex)[n], dex.classes[n], l, read[l] + 1))
         /\ at + Len(MemberItem(Starts(dex)[n], dex.classes[n], l, read[l] + 1))
              = ClassAt(n) + ReadTo(Starts(dex)[n], dex.classes[n], OneMore(read, l))
         /\ \A k \in 1 .. l - 1 : read[k] = Len(dex.classes[n].lists[k])
         /\ \A k \in l + 1 .. 4 : read[k] = 0
  <1>1. PICK c : c = dex.classes[n]
    OBVIOUS
  <1>2. PICK s \in Nat : s = Starts(dex)[n]
    BY BufIs
  <1>3. PICK o : o = ClassAt(n) /\ Lies(buf, o, ClassItem(s, c)) /\ o = s - HeaderSize
    BY <1>1, <1>2, ClassLies DEF ClassAt
  <1>4. buf \in Seq(Nat) /\ HasData(c) /\ HeaderSize \in Nat
    BY <1>1, BufIs
  <1>5. /\ IsRead(c, read) /\ at = o + ReadTo(s, c, read)
        /\ left[l] > 0 => \A k \in l + 1 .. 4 : read[k] = 0
    BY <1>1, <1>2, <1>3 DEF InClass
  <1>6. \A k \in 1 .. 4 : /\ read[k] \in Nat /\ Len(c.lists[k]) \in Nat /\ read[k] =< Len(c.lists[k])
                          /\ left[k] = Len(c.lists[k]) - read[k]
    BY <1>1, InClassIs
  <1>7. left[l] > 0 /\ \A k \in 1 .. l - 1 : left[k] = 0
    BY DEF Turn
  <1>8. read[l] < Len(c.lists[l])
    <2>1. PICK a \in Nat, b \in Nat : a = Len(c.lists[l]) /\ b = read[l] /\ left[l] = a - b
      BY <1>6
    <2> QED BY <1>7, <2>1
  <1>9. ASSUME NEW k \in 1 .. l - 1 PROVE read[k] = Len(c.lists[k])
    <2>1. k \in 1 .. 4
      OBVIOUS
    <2>2. PICK a \in Nat, b \in Nat : a = Len(c.lists[k]) /\ b = read[k] /\ left[k] = a - b
      BY <1>6, <2>1
    <2> QED BY <1>7, <2>2
  <1>10. \A k \in l + 1 .. 4 : read[k] = 0
    BY <1>5, <1>7
  <1>11. /\ read[l] + 1 \in 1 .. Len(c.lists[l])
         /\ Lies(buf, o + ReadTo(s, c, read), MemberItem(s, c, l, read[l] + 1))
         /\ ReadTo(s, c, OneMore(read, l)) = ReadTo(s, c, read) + Len(MemberItem(s, c, l, read[l] + 1))
    <2>1. Lies(buf, o, ClassItem(s, c)) /\ IsRead(c, read) /\ HasData(c) /\ buf \in Seq(Nat)
      BY <1>3, <1>4, <1>5
    <2>2. \A k \in 1 .. l - 1 : read[k] = Len(c.lists[k])
      BY ONLY <1>9
    <2> QED BY ONLY <1>8, <1>10, <2>1, <2>2, NextMember, s \in Nat, l \in 1 .. 4
  <1>12. PICK x : x = ReadTo(s, c, read)
    OBVIOUS
  <1>13. o + x \in Nat /\ o \in Int
    BY <1>3, <1>4, <1>5, <1>12, ReadToIs
  <1>14. PICK m \in Seq(Nat) : m = MemberItem(s, c, l, read[l] + 1)
    BY <1>4, <1>11, MemberItemIs
  <1>15. Len(m) \in Nat
    BY LenProperties
  <1>16. x \in Int
    <2>1. \A k \in 1 .. 4 : Upto(MemberItems(s, c, k), read[k]) \in Nat
      BY <1>4, <1>5, ReadParts
    <2>2. DataFrom(c) \in Nat /\ Len(SizesOf(c)) \in Nat
      BY <1>4, ClassItemIs
    <2>3. 1 \in 1 .. 4 /\ 2 \in 1 .. 4 /\ 3 \in 1 .. 4 /\ 4 \in 1 .. 4
      OBVIOUS
    <2>4. PICK a \in Nat, b \in Nat, u1 \in Nat, u2n \in Nat, u3 \in Nat, u4n \in Nat :
            /\ a = DataFrom(c) /\ b = Len(SizesOf(c))
            /\ u1 = Upto(MemberItems(s, c, 1), read[1]) /\ u2n = Upto(MemberItems(s, c, 2), read[2])
            /\ u3 = Upto(MemberItems(s, c, 3), read[3]) /\ u4n = Upto(MemberItems(s, c, 4), read[4])
      BY ONLY <2>1, <2>2, <2>3
    <2>5. x = a + b + u1 + u2n + u3 + u4n
      BY ONLY <1>12, <2>4 DEF ReadTo
    <2> QED BY <2>5
  <1>17. (o + x) + Len(m) = o + (x + Len(m))
    BY <1>13, <1>15, <1>16
  <1> QED BY <1>1, <1>2, <1>3, <1>5, <1>9, <1>10, <1>11, <1>12, <1>14, <1>17

-----------------------------------------------------------------------------
(***************************************************************************)
(* The invariant holds at first and after every step.                      *)
(***************************************************************************)
LEMMA LoadedIs ==
  ASSUME InvFile
  PROVE  /\ IsDex(dex)
         /\ damage = "none" /\ stage # "file" => Loaded
  <1>1. dex \in Dexes /\ buf = FileOf(dex).buf
    BY DEF InvFile
  <1>2. IsDex(dex)
    BY <1>1, DexAssumption
  <1>3. damage = "none" /\ stage # "file" => header = FileOf(dex).header
    BY DEF InvFile
  <1> QED BY <1>1, <1>2, <1>3 DEF Loaded

LEMMA ClassesSame ==
  ASSUME dex' = dex, UNCHANGED classes
  PROVE  /\ NoClasses => NoClasses'
         /\ \A n \in Nat, read \in [1 .. 4 -> Nat] : Parsed(n, read) => Parsed(n, read)'
  <1>1. class_defs' = class_defs /\ class_data' = class_data /\ at' = at /\ left' = left
    BY DEF classes
  <1>2. NoClasses => NoClasses'
    BY <1>1 DEF NoClasses
  <1>3. ASSUME NEW n \in Nat, NEW read \in [1 .. 4 -> Nat], Parsed(n, read)
        PROVE  Parsed(n, read)'
    <2>1. InClass(n, read) => InClass(n, read)'
      BY <1>1 DEF InClass
    <2>2. DefsOf(n)' = DefsOf(n) /\ DataOf(n, read)' = DataOf(n, read)
      BY DEF DefsOf, DataOf
    <2> QED BY <1>1, <1>3, <2>1, <2>2 DEF Parsed
  <1> QED BY <1>2, <1>3

\* A step that leaves the classes alone.
LEMMA InvClassesSame ==
  ASSUME InvClasses, dex' = dex, damage' = damage, UNCHANGED classes,
         stage' = "classes" => stage = "classes",
         stage' \in {"map", "strings", "types", "protos", "fields", "methods", "defs"} =>
           stage \in {"file", "map", "strings", "types", "protos", "fields", "methods", "defs"},
         stage' # "file",
         damage' = "none" /\ stage' \in {"startup", "run"} =>
           /\ left = None
           /\ \E read \in [1 .. 4 -> Nat] : Parsed(Len(dex.classes), read)
  PROVE  InvClasses'
  <1>1. \/ NoClasses'
        \/ damage' = "none" /\ \E n \in Nat, read \in [1 .. 4 -> Nat] : Parsed(n, read)'
    BY ClassesSame DEF InvClasses
  <1>2. stage' = "classes" => \E n \in Nat, read \in [1 .. 4 -> Nat] : Parsed(n, read)'
    BY ClassesSame DEF InvClasses
  <1>3. ASSUME damage' = "none", stage' \in {"startup", "run"}
        PROVE  /\ left' = None
               /\ \E read \in [1 .. 4 -> Nat] : Parsed(Len(dex.classes), read)'
    <2>1. PICK read \in [1 .. 4 -> Nat] : Parsed(Len(dex.classes), read)
      BY <1>3
    <2>2. Len(dex.classes) \in Nat
      BY <2>1 DEF Parsed
    <2>3. Parsed(Len(dex.classes), read)'
      BY <2>1, <2>2, ClassesSame
    <2>4. left' = None
      BY <1>3 DEF classes
    <2> QED BY <2>3, <2>4
  <1>4. None' = None
    BY DEF None
  <1>5. stage' \in {"file", "map", "strings", "types", "protos", "fields", "methods", "defs"} => NoClasses'
    BY ClassesSame DEF InvClasses
  <1> QED BY <1>1, <1>2, <1>3, <1>4, <1>5 DEF InvClasses

LEMMA KeptTyped ==
  ASSUME IsDex(dex)
  PROVE  Strings \in Seq(Seq(Nat)) /\ DOMAIN Strings = 1 .. Len(dex.strings)
         /\ Len(dex.strings) \in Nat /\ DOMAIN dex.strings = 1 .. Len(dex.strings)
  <1>1. dex.strings \in Seq(AString)
    BY DEF IsDex
  <1>2. PICK n \in Nat : n = Len(dex.strings) /\ DOMAIN dex.strings = 1 .. n
                         /\ \A k \in 1 .. n : dex.strings[k] \in AString
    BY <1>1, LenProperties, ElementOfSeq
  <1>3. PICK s : s = Strings
    OBVIOUS
  <1>4. s = [k \in 1 .. n |-> s[k]] /\ \A k \in 1 .. n : s[k] = Kept(dex.strings[k])
    BY <1>2, <1>3 DEF Strings
  <1>5. ASSUME NEW k \in 1 .. n PROVE s[k] \in Seq(Nat)
    <2>1. PICK x : x = dex.strings[k]
      OBVIOUS
    <2>2. x \in AString
      BY <1>2, <2>1
    <2>3. Kept(x) \in Seq(Nat)
      BY <2>2, AStringIs
    <2> QED BY <1>4, <2>1, <2>3
  <1>6. s \in Seq(Seq(Nat))
    BY ONLY <1>4, <1>5, FunctionIsSeq, n \in Nat
  <1> QED BY <1>2, <1>3, <1>4, <1>6

LEMMA InitInv ==
  ASSUME Init
  PROVE  Inv
  <1>1. InvFile
    <2>1. header.stringIdsSize = 0 /\ header.methodIdsSize = 0
      BY DEF Init, Sizes, SizeAt
    <2> QED BY <2>1 DEF Init, InvFile, Stages
  <1>2. InvTables
    BY DEF Init, InvTables
  <1>3. Filled
    BY DEF Init, Filled
  <1>4. InvClasses
    <2>1. NoClasses
      BY DEF Init, NoClasses, None
    <2>2. stage = "file"
      BY DEF Init
    <2> QED BY <2>1, <2>2 DEF InvClasses
  <1>5. LostByLimitsOnly
    BY DEF Init, LostByLimitsOnly
  <1> QED BY <1>1, <1>2, <1>3, <1>4, <1>5 DEF Inv

\* What does not change.
LEMMA TablesSame ==
  ASSUME InvTables, dex' = dex, UNCHANGED <<ids, type_list>>
  PROVE  InvTables'
  <1>1. Strings' = Strings
    BY DEF Strings
  <1> QED BY <1>1 DEF InvTables, ids

\* The reasons for which the program is lost.
Limits ==
  \/ /\ damage \in {"header", "body"}
     /\ \/ header.stringIdsSize > 0 /\ dex.strings # <<>>
        \/ header.methodIdsSize > 0 /\ dex.methods # <<>>
  \/ \E k \in DOMAIN dex.strings : dex.strings[k].chars > DataMax
  \/ \E c \in DOMAIN dex.classes : dex.classes[c].lists = Null
  \/ \E c \in DOMAIN dex.classes, l \in 3 .. 4 :
       \E k \in DOMAIN dex.classes[c].lists[l] : dex.classes[c].lists[l][k].code = Null
  \/ LET h == FileOf(dex).header IN h.dataOff - HeaderSize > h.dataSize

LEMMA LostInv ==
  ASSUME Inv, Lost, Limits, stage # "file"
  PROVE  Inv'
  <1>1. /\ stage' = "lost" /\ dex' = dex /\ damage' = damage /\ buf' = buf /\ header' = header
        /\ UNCHANGED <<ids, classes, type_list>>
    BY DEF Lost, input
  <1>2. InvFile'
    BY <1>1 DEF Inv, InvFile, Stages
  <1>3. InvTables'
    BY <1>1, TablesSame DEF Inv
  <1>4. Filled'
    BY <1>1 DEF Filled
  <1>5. InvClasses'
    BY <1>1, InvClassesSame DEF Inv
  <1>6. Limits'
    BY <1>1 DEF Limits
  <1>7. LostByLimitsOnly'
    BY <1>6 DEF LostByLimitsOnly, Limits
  <1> QED BY <1>2, <1>3, <1>4, <1>5, <1>7 DEF Inv

\* Whatever part of a count is read, a count of none is one of none.
LEMMA CutHeader ==
  ASSUME NEW whole, NEW n \in Nat, NEW size \in Sizes, whole[size] = 0
  PROVE  UpTo(whole, n)[size] = 0
  <1>1. SizeAt[size] \in Nat
    BY DEF Sizes, SizeAt
  <1>2. ASSUME NEW m \in Int PROVE FirstBytes(0, m) = 0
    <2>1. CASE m <= 0 \/ ~(m < 4)
      BY <2>1 DEF FirstBytes
    <2>2. CASE m = 1
      BY <2>2 DEF FirstBytes
    <2>3. CASE m = 2
      BY <2>3 DEF FirstBytes
    <2>4. CASE m = 3
      BY <2>4 DEF FirstBytes
    <2> QED BY <2>1, <2>2, <2>3, <2>4
  <1>3. n - SizeAt[size] \in Int
    BY <1>1
  <1>4. UpTo(whole, n)[size] = FirstBytes(0, n - SizeAt[size])
    BY DEF UpTo
  <1> QED BY <1>2, <1>3, <1>4

LEMMA CountsRead ==
  ASSUME IsDex(dex), NEW h,
         h = FileOf(dex).header \/ \E n \in Nat : h = UpTo(FileOf(dex).header, n)
  PROVE  /\ h.stringIdsSize > 0 => dex.strings # <<>>
         /\ h.methodIdsSize > 0 => dex.methods # <<>>
  <1>1. PICK whole : whole = FileOf(dex).header
    OBVIOUS
  <1>2. whole.stringIdsSize = Len(dex.strings) /\ whole.methodIdsSize = Len(dex.methods)
    BY <1>1 DEF FileOf
  <1>3. ASSUME dex.strings = <<>> PROVE h.stringIdsSize = 0
    <2>1. whole.stringIdsSize = 0
      BY <1>2, <1>3
    <2>2. "stringIdsSize" \in Sizes
      BY DEF Sizes, SizeAt
    <2> QED BY <1>1, <2>1, <2>2, CutHeader
  <1>4. ASSUME dex.methods = <<>> PROVE h.methodIdsSize = 0
    <2>1. whole.methodIdsSize = 0
      BY <1>2, <1>4
    <2>2. "methodIdsSize" \in Sizes
      BY DEF Sizes, SizeAt
    <2> QED BY <1>1, <2>1, <2>2, CutHeader
  <1> QED BY <1>3, <1>4

LEMMA ReadFileInv ==
  ASSUME Inv, ReadFile
  PROVE  Inv'
  <1>1. /\ stage = "file" /\ stage' = IF damage = "none" THEN "map" ELSE "startup"
        /\ \/ damage \in {"none", "body"} /\ header' = FileOf(dex).header
           \/ damage = "header" /\ \E n \in 0 .. HeaderSize - 1 : header' = UpTo(FileOf(dex).header, n)
           \/ damage = "absent" /\ header' = header
        /\ dex' = dex /\ damage' = damage /\ buf' = buf
        /\ UNCHANGED <<ids, classes, type_list>>
    BY DEF ReadFile, input
  <1>2. InvFile'
    <2>1. IsDex(dex)
      BY LoadedIs DEF Inv
    <2>2. /\ header'.stringIdsSize > 0 => dex.strings # <<>>
          /\ header'.methodIdsSize > 0 => dex.methods # <<>>
      <3>1. CASE damage = "absent"
        BY <1>1, <3>1 DEF Inv, InvFile
      <3>2. CASE damage # "absent"
        <4>1. header' = FileOf(dex).header \/ \E n \in Nat : header' = UpTo(FileOf(dex).header, n)
          BY <1>1, <3>2 DEF HeaderSize
        <4> QED BY <2>1, <4>1, CountsRead
      <3> QED BY <3>1, <3>2
    <2> QED BY <1>1, <2>2 DEF Inv, InvFile, Stages
  <1>3. InvTables'
    BY <1>1, TablesSame DEF Inv
  <1>4. Filled'
    BY <1>1 DEF Filled
  <1>5. InvClasses'
    BY <1>1, InvClassesSame DEF Inv
  <1>6. LostByLimitsOnly'
    BY <1>1 DEF LostByLimitsOnly
  <1> QED BY <1>2, <1>3, <1>4, <1>5, <1>6 DEF Inv

LEMMA MapInv ==
  ASSUME Inv, parse_map_list
  PROVE  Inv'
  <1>1. /\ stage = "map" /\ stage' = "strings"
        /\ dex' = dex /\ damage' = damage /\ buf' = buf /\ header' = header
        /\ UNCHANGED <<ids, classes>>
        /\ type_list' = IF TypeListItems = {} THEN Null
                        ELSE TypeListAt(u4(MapItemAt(Max(TypeListItems)) + 8) - HeaderSize)
    BY DEF parse_map_list, input, TypeListItems, MapItemAt
  <1>2. Loaded /\ damage = "none"
    <2>1. damage = "none"
      BY <1>1 DEF Inv, InvFile
    <2> QED BY <1>1, <2>1, LoadedIs DEF Inv
  <1>3. InvFile'
    BY <1>1, <1>2 DEF Inv, InvFile, Stages
  <1>4. InvTables'
    <2>1. type_list' = Null \/ \E k \in DOMAIN dex.protos : type_list' = dex.protos[k].types
      BY <1>1, <1>2, MapRead
    <2>2. Strings' = Strings
      BY <1>1 DEF Strings
    <2>3. dex' = dex /\ UNCHANGED ids
      BY <1>1
    <2> QED BY <2>1, <2>2, <2>3 DEF Inv, InvTables, ids
  <1>5. Filled'
    BY <1>1 DEF Filled
  <1>6. InvClasses'
    BY <1>1, InvClassesSame DEF Inv
  <1>7. LostByLimitsOnly'
    BY <1>1 DEF LostByLimitsOnly
  <1> QED BY <1>3, <1>4, <1>5, <1>6, <1>7 DEF Inv

LEMMA StringsInv ==
  ASSUME Inv, parse_string_ids
  PROVE  Inv'
  <1>1. stage = "strings"
    BY DEF parse_string_ids
  <1>2. Loaded /\ damage = "none"
    <2>1. damage = "none"
      BY <1>1 DEF Inv, InvFile
    <2> QED BY <1>1, <2>1, LoadedIs DEF Inv
  <1>3. PICK n \in Nat : n = Len(dex.strings) /\ DOMAIN dex.strings = 1 .. n /\ header.stringIdsSize = n
    <2>1. dex.strings \in Seq(AString)
      BY <1>2 DEF Loaded, IsDex
    <2> QED BY <1>2, <2>1, HeaderIs, LenProperties
  <1>4. \A k \in 1 .. n :
          /\ StringLength(k) = dex.strings[k].chars
          /\ Bytes(StringAt(k) + UlebSize(StringAt(k)), StringLength(k)) = Kept(dex.strings[k])
    BY <1>2, <1>3, StringsRead
  <1>5. CASE (\E k \in 1 .. header.stringIdsSize : StringLength(k) > DataMax) /\ Lost
    <2>1. Limits
      BY <1>3, <1>4, <1>5 DEF Limits
    <2> QED BY <1>1, <1>5, <2>1, LostInv
  <1>6. CASE /\ string_data' = [k \in 1 .. header.stringIdsSize |->
                             Bytes(StringAt(k) + UlebSize(StringAt(k)), StringLength(k))]
             /\ stage' = "types"
             /\ UNCHANGED <<input, header, type_ids, proto_ids, field_ids, method_ids,
                            classes, type_list, data>>
    <2>1. /\ dex' = dex /\ damage' = damage /\ buf' = buf /\ header' = header /\ stage' = "types"
          /\ UNCHANGED <<type_ids, proto_ids, field_ids, method_ids, type_list>>
          /\ UNCHANGED classes
      BY <1>6 DEF input
    <2>2. string_data' = Strings
      BY <1>3, <1>4, <1>6 DEF Strings
    <2>3. Strings' = Strings
      BY <2>1 DEF Strings
    <2>4. InvFile'
      BY <1>1, <1>2, <2>1 DEF Inv, InvFile, Stages
    <2>5. InvTables'
      BY <2>1, <2>2, <2>3 DEF Inv, InvTables
    <2>6. Filled'
      BY <2>1, <2>2, <2>3 DEF Filled
    <2>7. InvClasses'
      BY <1>1, <2>1, InvClassesSame DEF Inv
    <2>8. LostByLimitsOnly'
      BY <2>1 DEF LostByLimitsOnly
    <2> QED BY <2>4, <2>5, <2>6, <2>7, <2>8 DEF Inv
  <1> QED BY <1>5, <1>6 DEF parse_string_ids

LEMMA TypesInv ==
  ASSUME Inv, parse_type_ids
  PROVE  Inv'
  <1>1. /\ stage = "types" /\ stage' = "protos"
        /\ dex' = dex /\ damage' = damage /\ buf' = buf /\ header' = header
        /\ UNCHANGED <<string_data, proto_ids, field_ids, method_ids, type_list>> /\ UNCHANGED classes
        /\ type_ids' = Table(header.typeIdsSize, header.typeIdsOff, 4, u4)
    BY DEF parse_type_ids, input
  <1>2. Loaded /\ damage = "none"
    <2>1. damage = "none"
      BY <1>1 DEF Inv, InvFile
    <2> QED BY <1>1, <2>1, LoadedIs DEF Inv
  <1>3. type_ids' = dex.types
    BY <1>1, <1>2, TypesRead
  <1>4. Strings' = Strings
    BY <1>1 DEF Strings
  <1>5. InvFile'
    BY <1>1, <1>2 DEF Inv, InvFile, Stages
  <1>6. InvTables'
    BY <1>1, <1>3, <1>4 DEF Inv, InvTables
  <1>7. Filled'
    BY <1>1, <1>3, <1>4 DEF Inv, Filled
  <1>8. InvClasses'
    BY <1>1, InvClassesSame DEF Inv
  <1>9. LostByLimitsOnly'
    BY <1>1 DEF LostByLimitsOnly
  <1> QED BY <1>5, <1>6, <1>7, <1>8, <1>9 DEF Inv

LEMMA ProtosInv ==
  ASSUME Inv, parse_proto_ids
  PROVE  Inv'
  <1>1. /\ stage = "protos" /\ stage' = "fields"
        /\ dex' = dex /\ damage' = damage /\ buf' = buf /\ header' = header
        /\ UNCHANGED <<string_data, type_ids, field_ids, method_ids, type_list>> /\ UNCHANGED classes
        /\ proto_ids' = Table(header.protoIdsSize, header.protoIdsOff, 12, ProtoAt)
    BY DEF parse_proto_ids, input, Table, ProtoAt
  <1>2. Loaded /\ damage = "none"
    <2>1. damage = "none"
      BY <1>1 DEF Inv, InvFile
    <2> QED BY <1>1, <2>1, LoadedIs DEF Inv
  <1>3. proto_ids' = dex.protos
    BY <1>1, <1>2, ProtosRead
  <1>4. Strings' = Strings
    BY <1>1 DEF Strings
  <1>5. InvFile'
    BY <1>1, <1>2 DEF Inv, InvFile, Stages
  <1>6. InvTables'
    BY <1>1, <1>3, <1>4 DEF Inv, InvTables
  <1>7. Filled'
    BY <1>1, <1>3, <1>4 DEF Inv, Filled
  <1>8. InvClasses'
    BY <1>1, InvClassesSame DEF Inv
  <1>9. LostByLimitsOnly'
    BY <1>1 DEF LostByLimitsOnly
  <1> QED BY <1>5, <1>6, <1>7, <1>8, <1>9 DEF Inv

LEMMA FieldsInv ==
  ASSUME Inv, parse_field_ids
  PROVE  Inv'
  <1>1. /\ stage = "fields" /\ stage' = "methods"
        /\ dex' = dex /\ damage' = damage /\ buf' = buf /\ header' = header
        /\ UNCHANGED <<string_data, type_ids, proto_ids, method_ids, type_list>> /\ UNCHANGED classes
        /\ field_ids' = Table(header.fieldIdsSize, header.fieldIdsOff, 8, MemberId)
    BY DEF parse_field_ids, input
  <1>2. Loaded /\ damage = "none"
    <2>1. damage = "none"
      BY <1>1 DEF Inv, InvFile
    <2> QED BY <1>1, <2>1, LoadedIs DEF Inv
  <1>3. field_ids' = dex.fields
    BY <1>1, <1>2, FieldsRead
  <1>4. Strings' = Strings
    BY <1>1 DEF Strings
  <1>5. InvFile'
    BY <1>1, <1>2 DEF Inv, InvFile, Stages
  <1>6. InvTables'
    BY <1>1, <1>3, <1>4 DEF Inv, InvTables
  <1>7. Filled'
    BY <1>1, <1>3, <1>4 DEF Inv, Filled
  <1>8. InvClasses'
    BY <1>1, InvClassesSame DEF Inv
  <1>9. LostByLimitsOnly'
    BY <1>1 DEF LostByLimitsOnly
  <1> QED BY <1>5, <1>6, <1>7, <1>8, <1>9 DEF Inv

LEMMA MethodsInv ==
  ASSUME Inv, parse_method_ids
  PROVE  Inv'
  <1>1. /\ stage = "methods" /\ stage' = "defs"
        /\ dex' = dex /\ damage' = damage /\ buf' = buf /\ header' = header
        /\ UNCHANGED <<string_data, type_ids, proto_ids, field_ids, type_list>> /\ UNCHANGED classes
        /\ method_ids' = Table(header.methodIdsSize, header.methodIdsOff, 8, MemberId)
    BY DEF parse_method_ids, input
  <1>2. Loaded /\ damage = "none"
    <2>1. damage = "none"
      BY <1>1 DEF Inv, InvFile
    <2> QED BY <1>1, <2>1, LoadedIs DEF Inv
  <1>3. method_ids' = dex.methods
    BY <1>1, <1>2, MethodsRead
  <1>4. Strings' = Strings
    BY <1>1 DEF Strings
  <1>5. InvFile'
    BY <1>1, <1>2 DEF Inv, InvFile, Stages
  <1>6. InvTables'
    BY <1>1, <1>3, <1>4 DEF Inv, InvTables
  <1>7. Filled'
    BY <1>1, <1>3, <1>4 DEF Inv, Filled
  <1>8. InvClasses'
    BY <1>1, InvClassesSame DEF Inv
  <1>9. LostByLimitsOnly'
    BY <1>1 DEF LostByLimitsOnly
  <1> QED BY <1>5, <1>6, <1>7, <1>8, <1>9 DEF Inv

LEMMA ClassDefsInv ==
  ASSUME Inv, parse_class_defs
  PROVE  Inv'
  <1>1. /\ stage = "defs" /\ stage' = "classes" /\ class_defs' = <<>> /\ class_data' = <<>>
        /\ dex' = dex /\ damage' = damage /\ buf' = buf /\ header' = header
        /\ UNCHANGED <<ids, type_list>> /\ at' = at /\ left' = left
    BY DEF parse_class_defs, input
  <1>2. Loaded /\ damage = "none"
    <2>1. damage = "none"
      BY <1>1 DEF Inv, InvFile
    <2> QED BY <1>1, <2>1, LoadedIs DEF Inv
  <1>3. InvFile'
    BY <1>1, <1>2 DEF Inv, InvFile, Stages
  <1>4. InvTables'
    BY <1>1, TablesSame DEF Inv
  <1>5. Filled'
    <2>1. Strings' = Strings
      BY <1>1 DEF Strings
    <2> QED BY <1>1, <2>1 DEF Inv, Filled, ids
  <1>6. NoneRead \in [1 .. 4 -> Nat]
    BY DEF NoneRead
  <1>7. Parsed(0, NoneRead)'
    <2>1. left' = None /\ at' = 0 /\ None' = None
      BY <1>1 DEF Inv, InvClasses, NoClasses, None
    <2>2. <<>> = DefsOf(0)'
      <3>1. PICK f : f = DefsOf(0)'
        OBVIOUS
      <3>2. f = [c \in 1 .. 0 |-> f[c]]
        BY <3>1 DEF DefsOf
      <3>3. f \in Seq(Nat) /\ Len(f) = 0
        BY ONLY <3>2, FunctionIsSeq, 0 \in Nat
      <3> QED BY <3>1, <3>3, EmptySeq
    <2>3. <<>> = DataOf(0, NoneRead)'
      <3>1. PICK f : f = DataOf(0, NoneRead)'
        OBVIOUS
      <3>2. f = [c \in 1 .. 0 |-> f[c]]
        BY <3>1 DEF DataOf
      <3>3. f \in Seq(Nat) /\ Len(f) = 0
        BY ONLY <3>2, FunctionIsSeq, 0 \in Nat
      <3> QED BY <3>1, <3>3, EmptySeq
    <2>4. 0 \in 0 .. Len(dex.classes)
      BY <1>2, BufIs
    <2>5. 0 \in 0 .. Len(dex'.classes)
      BY <1>1, <2>4
    <2> QED BY <1>1, <2>1, <2>2, <2>3, <2>5 DEF Parsed
  <1>8. InvClasses'
    <2>1. 0 \in Nat
      OBVIOUS
    <2>2. \E n \in Nat, read \in [1 .. 4 -> Nat] : Parsed(n, read)'
      BY <1>6, <1>7, <2>1
    <2> QED BY <1>1, <1>2, <2>2 DEF InvClasses
  <1>9. LostByLimitsOnly'
    BY <1>1 DEF LostByLimitsOnly
  <1> QED BY <1>3, <1>4, <1>5, <1>8, <1>9 DEF Inv

\* A step from class to class and within one.
LEMMA InClasses ==
  ASSUME Inv, stage = "classes",
         dex' = dex, damage' = damage, buf' = buf, header' = header, stage' = stage,
         UNCHANGED <<ids, type_list>>,
         NEW n \in Nat, NEW read \in [1 .. 4 -> Nat], Parsed(n, read)'
  PROVE  Inv'
  <1>1. InvFile'
    BY DEF Inv, InvFile
  <1>2. InvTables'
    BY TablesSame DEF Inv
  <1>3. Filled'
    <2>1. Strings' = Strings
      BY DEF Strings
    <2> QED BY <2>1 DEF Inv, Filled, ids
  <1>4. InvClasses'
    <2>1. \E m \in Nat, r \in [1 .. 4 -> Nat] : Parsed(m, r)'
      OBVIOUS
    <2>2. damage = "none"
      BY DEF Inv, InvFile
    <2> QED BY <2>1, <2>2 DEF InvClasses
  <1>5. LostByLimitsOnly'
    BY DEF LostByLimitsOnly
  <1> QED BY <1>1, <1>2, <1>3, <1>4, <1>5 DEF Inv

\* What is parsed at a step of the classes.
LEMMA ClassesAre ==
  ASSUME Inv, stage = "classes"
  PROVE  Loaded /\ \E n \in Nat, read \in [1 .. 4 -> Nat] : Parsed(n, read)
  <1>1. damage = "none"
    BY DEF Inv, InvFile
  <1>2. Loaded
    BY <1>1, LoadedIs DEF Inv
  <1> QED BY <1>2 DEF Inv, InvClasses

LEMMA ParsedIs ==
  ASSUME Loaded, NEW n \in Nat, NEW read \in [1 .. 4 -> Nat], Parsed(n, read)
  PROVE  /\ Len(class_defs) = n /\ Len(class_data) = n /\ n =< Len(dex.classes)
         /\ DOMAIN class_data = 1 .. n
         /\ n = 0 => left = None /\ at = 0
         /\ n > 0 => n \in 1 .. Len(dex.classes) /\ HasData(dex.classes[n]) /\ InClass(n, read)
         /\ left = None /\ n > 0 => read = Whole(dex.classes[n])
  <1>1. /\ class_defs = DefsOf(n) /\ class_data = DataOf(n, read) /\ n \in 0 .. Len(dex.classes)
        /\ n = 0 => left = None /\ at = 0
    BY DEF Parsed
  <1>2. Len(class_defs) = n /\ Len(class_data) = n /\ DOMAIN class_data = 1 .. n
    <2>1. /\ Len(DataOf(n, read)) = n /\ DOMAIN DataOf(n, read) = 1 .. n
          /\ Len(DefsOf(n)) = n
      BY ONLY DataIs, n \in Nat
    <2> QED BY ONLY <1>1, <2>1
  <1>3. PICK m \in Nat : m = Len(dex.classes)
    BY BufIs
  <1>a. n \in 0 .. m
    BY ONLY <1>1, <1>3
  <1>4. n > 0 => n \in 1 .. Len(dex.classes) /\ n \in 1 .. n
    BY ONLY <1>a, <1>3, n \in Nat, m \in Nat
  <1>5. n > 0 => HasData(dex.classes[n]) /\ InClass(n, read)
    BY <1>4 DEF Parsed
  <1>6. left = None /\ n > 0 => read = Whole(dex.classes[n])
    BY <1>4, <1>5, InClassIs
  <1>7. n =< Len(dex.classes)
    BY ONLY <1>a, <1>3, n \in Nat, m \in Nat
  <1> QED BY ONLY <1>1, <1>2, <1>4, <1>5, <1>6, <1>7

LEMMA ParseClassInv ==
  ASSUME Inv, ParseClass
  PROVE  Inv'
  <1>1. stage = "classes" /\ left = None /\ Len(class_defs) < header.classDefsSize
    BY DEF ParseClass
  <1>2. Loaded
    BY <1>1, ClassesAre
  <1>3. PICK m \in Nat, read \in [1 .. 4 -> Nat] : Parsed(m, read)
    BY <1>1, ClassesAre
  <1>4. m > 0 => read = Whole(dex.classes[m])
    BY <1>1, <1>2, <1>3, ParsedIs
  <1>5. Len(class_defs) = m
    BY <1>2, <1>3, ParsedIs
  <1>6. PICK n \in Nat : n = m + 1
    OBVIOUS
  <1>7. n \in 1 .. Len(dex.classes) /\ Len(class_defs) = n - 1
    BY <1>1, <1>2, <1>5, <1>6, HeaderIs, BufIs
  <1>8. CASE dex.classes[n].lists = Null
    <2>1. ~UlebsIn(DataAt, 4)
      BY <1>2, <1>7, <1>8, NoClassData
    <2>2. Limits
      <3>1. n \in DOMAIN dex.classes
        BY <1>2, <1>7, ClassesTyped DEF Loaded
      <3> QED BY <1>8, <3>1 DEF Limits
    <2>3. Lost
      BY <2>1 DEF ParseClass
    <2> QED BY <1>1, <2>2, <2>3, LostInv
  <1>9. CASE dex.classes[n].lists # Null
    <2>1. /\ HasData(dex.classes[n]) /\ UlebsIn(DataAt, 4) /\ Ulebs(DataAt, 4) = Whole(dex.classes[n])
          /\ UlebAt(DataAt, 4)[4] = ClassAt(n) + ReadTo(Starts(dex)[n], dex.classes[n], NoneRead)
      BY <1>2, <1>7, <1>9, ClassData
    <2>2. /\ class_defs' = Append(class_defs, [class |-> u4(DefAt), super |-> u4(DefAt + 8)])
          /\ class_data' = Append(class_data, << <<>>, <<>>, <<>>, <<>> >>)
          /\ left' = Ulebs(DataAt, 4) /\ at' = UlebAt(DataAt, 4)[4]
          /\ UNCHANGED <<input, stage, header, ids, type_list, data>>
      BY <2>1 DEF ParseClass
    <2>3. /\ dex' = dex /\ damage' = damage /\ buf' = buf /\ header' = header /\ stage' = stage
          /\ UNCHANGED <<ids, type_list>>
      BY <2>2 DEF input
    <2>4. class_defs' = DefsOf(n)
      <3>1. class_defs = DefsOf(m)
        BY <1>3 DEF Parsed
      <3>2. u4(DefAt) = dex.classes[m + 1].class /\ u4(DefAt + 8) = dex.classes[m + 1].super
        BY <1>2, <1>6, <1>7, DefRead
      <3> QED BY <1>6, <2>2, <3>1, <3>2, NextDefs
    <2>5. class_data' = DataOf(n, NoneRead)
      <3>1. class_data = DataOf(m, read)
        BY <1>3 DEF Parsed
      <3> QED BY <1>4, <1>5, <1>6, <2>2, <3>1, NextClass
    <2>6. DefsOf(n)' = DefsOf(n) /\ DataOf(n, NoneRead)' = DataOf(n, NoneRead)
      BY <2>3 DEF DefsOf, DataOf
    <2>7. InClass(n, NoneRead)'
      <3>1. PICK c : c = dex.classes[n]
        OBVIOUS
      <3>2. \A l \in 1 .. 4 : Len(c.lists[l]) \in Nat
        BY <2>1, <3>1, ClassIs
      <3>3. IsRead(c, NoneRead)
        BY <3>2 DEF IsRead, NoneRead
      <3>4. \A l \in 1 .. 4 : NoneRead[l] = 0
        BY DEF NoneRead
      <3>5. left' = [l \in 1 .. 4 |-> Len(c.lists[l]) - NoneRead[l]]
        <4>1. left' = [l \in 1 .. 4 |-> Len(c.lists[l])]
          BY ONLY <2>1, <2>2, <3>1 DEF Whole
        <4>2. ASSUME NEW l \in 1 .. 4 PROVE Len(c.lists[l]) - NoneRead[l] = Len(c.lists[l])
          BY <3>2, <3>4
        <4> QED BY ONLY <4>1, <4>2
      <3>6. \A l \in 3 .. 4 : \A k \in 1 .. NoneRead[l] : c.lists[l][k].code # Null
        <4>1. \A l \in 3 .. 4 : NoneRead[l] = 0
          BY <3>4
        <4> QED BY <4>1
      <3>7. \A l \in 1 .. 4 : left'[l] > 0 => \A k \in l + 1 .. 4 : NoneRead[k] = 0
        BY <3>4
      <3>8. at' = (Starts(dex)[n] - HeaderSize) + ReadTo(Starts(dex)[n], c, NoneRead)
        BY <2>1, <2>2, <3>1 DEF ClassAt
      <3> QED BY <2>3, <3>1, <3>3, <3>5, <3>6, <3>7, <3>8 DEF InClass
    <2>8. \A c \in 1 .. n - 1 : \A l \in 3 .. 4 : \A k \in 1 .. Len(dex.classes[c].lists[l]) :
            dex.classes[c].lists[l][k].code # Null
      <3>1. ASSUME NEW c \in 1 .. n - 1, NEW l \in 3 .. 4, NEW k \in 1 .. Len(dex.classes[c].lists[l])
            PROVE  dex.classes[c].lists[l][k].code # Null
        <4>1. CASE c \in 1 .. m - 1
          BY <1>3, <4>1 DEF Parsed
        <4>2. CASE c = m
          <5>1. m > 0
            BY <4>2
          <5>2. InClass(m, read) /\ read = Whole(dex.classes[m])
            BY <1>2, <1>3, <1>4, <1>5, <5>1, ParsedIs
          <5>3. read[l] = Len(dex.classes[m].lists[l])
            BY <5>2 DEF Whole
          <5> QED BY <4>2, <5>2, <5>3 DEF InClass
        <4>3. c \in 1 .. m - 1 \/ c = m
          BY <1>6
        <4> QED BY <4>1, <4>2, <4>3
      <3> QED BY <3>1
    <2>9. \A c \in 1 .. n : HasData(dex.classes[c])
      <3>1. \A c \in 1 .. n : c \in 1 .. m \/ c = n
        BY <1>6
      <3>2. \A c \in 1 .. m : HasData(dex.classes[c])
        BY <1>3 DEF Parsed
      <3> QED BY <2>1, <3>1, <3>2
    <2>10. Parsed(n, NoneRead)'
      <3>1. n \in 0 .. Len(dex.classes) /\ n # 0
        BY <1>7
      <3>2. DefsOf(n)' = class_defs' /\ DataOf(n, NoneRead)' = class_data'
        BY <2>4, <2>5, <2>6
      <3> QED BY <2>3, <2>7, <2>8, <2>9, <3>1, <3>2 DEF Parsed
    <2>11. NoneRead \in [1 .. 4 -> Nat]
      BY DEF NoneRead
    <2> QED BY <1>1, <2>3, <2>10, <2>11, InClasses
  <1> QED BY <1>8, <1>9

\* The member that the parser keeps is the one that is written next.
LEMMA MemberInv ==
  ASSUME Inv, NEW l \in 1 .. 4, Turn(l),
         NEW n \in Nat, NEW read \in [1 .. 4 -> Nat], Parsed(n, read), n > 0,
         l > 2 => dex.classes[n].lists[l][read[l] + 1].code # Null,
         NEW k \in Nat, NEW member, member = MemberOf(dex.classes[n], l, read[l] + 1),
         Member(l, k, member),
         UlebAt(at, k)[k] = at + Len(MemberItem(Starts(dex)[n], dex.classes[n], l, read[l] + 1))
  PROVE  Inv'
  <1>1. stage = "classes"
    BY DEF Turn
  <1>2. Loaded
    BY <1>1, ClassesAre
  <1>3. PICK c : c = dex.classes[n]
    OBVIOUS
  <1>4. n \in 1 .. Len(dex.classes) /\ HasData(c) /\ InClass(n, read) /\ Len(class_data) = n
    BY <1>2, <1>3, ParsedIs
  <1>5. /\ read[l] + 1 \in 1 .. Len(c.lists[l])
        /\ at + Len(MemberItem(Starts(dex)[n], c, l, read[l] + 1))
             = ClassAt(n) + ReadTo(Starts(dex)[n], c, OneMore(read, l))
        /\ \A m \in 1 .. l - 1 : read[m] = Len(c.lists[m])
        /\ \A m \in l + 1 .. 4 : read[m] = 0
    BY <1>2, <1>3, <1>4, TurnIs
  <1>6. /\ class_data' = [class_data EXCEPT ![Len(class_data)][l] = Append(@, member)]
        /\ left' = [left EXCEPT ![l] = @ - 1]
        /\ at' = ClassAt(n) + ReadTo(Starts(dex)[n], c, OneMore(read, l))
        /\ dex' = dex /\ damage' = damage /\ buf' = buf /\ header' = header /\ stage' = stage
        /\ UNCHANGED <<ids, type_list>> /\ class_defs' = class_defs
    BY <1>3, <1>5 DEF Member, input
  <1>7. \A m \in 1 .. 4 : /\ read[m] \in Nat /\ Len(c.lists[m]) \in Nat /\ read[m] =< Len(c.lists[m])
                          /\ left[m] = Len(c.lists[m]) - read[m]
    BY <1>2, <1>3, <1>4, InClassIs
  <1>8. PICK next \in [1 .. 4 -> Nat] : /\ next = OneMore(read, l) /\ next[l] = read[l] + 1
                                        /\ \A m \in 1 .. 4 : m # l => next[m] = read[m]
    <2>1. PICK next : next = [read EXCEPT ![l] = @ + 1]
      OBVIOUS
    <2>2. next[l] = read[l] + 1 /\ \A m \in 1 .. 4 : m # l => next[m] = read[m]
      BY <2>1
    <2>3. next \in [1 .. 4 -> Nat]
      BY <2>1
    <2> QED BY ONLY <2>1, <2>2, <2>3 DEF OneMore
  <1>9. class_data' = DataOf(n, next)
    <2>1. class_data = DataOf(n, read)
      BY DEF Parsed
    <2>2. MoreInClass(DataOf(n, read), n, l, MemberOf(dex.classes[n], l, read[l] + 1))
              = DataOf(n, OneMore(read, l))
      BY ONLY NextInClass, n \in Nat, n > 0, read \in [1 .. 4 -> Nat], l \in 1 .. 4
    <2> QED BY ONLY <1>4, <1>6, <1>8, <2>1, <2>2, member = MemberOf(dex.classes[n], l, read[l] + 1)
               DEF MoreInClass
  <1>10. IsRead(c, next)
    <2>1. ASSUME NEW m \in 1 .. 4 PROVE next[m] =< Len(c.lists[m])
      <3>1. CASE m = l
        BY <1>5, <1>7, <1>8, <3>1
      <3>2. CASE m # l
        BY <1>7, <1>8, <3>2
      <3> QED BY <3>1, <3>2
    <2> QED BY <2>1 DEF IsRead
  <1>11. left = [m \in 1 .. 4 |-> Len(c.lists[m]) - read[m]]
    BY <1>3, <1>4 DEF InClass
  <1>12. ASSUME NEW m \in 1 .. 4 PROVE left'[m] = Len(c.lists[m]) - next[m]
    <2>1. PICK a \in Nat, b \in Nat : a = Len(c.lists[m]) /\ b = read[m] /\ left[m] = a - b
      BY <1>7
    <2>2. CASE m = l
      <3>1. left'[l] = left[l] - 1
        BY <1>6, <1>11
      <3>2. (a - b) - 1 = a - (b + 1)
        OBVIOUS
      <3> QED BY ONLY <1>8, <2>1, <2>2, <3>1, <3>2
    <2>3. CASE m # l
      <3>1. left'[m] = left[m]
        BY <1>6, <1>11, <2>3
      <3> QED BY <1>8, <2>1, <2>3, <3>1
    <2> QED BY <2>2, <2>3
  <1>13. left' = [m \in 1 .. 4 |-> Len(c.lists[m]) - next[m]]
    <2>1. left' = [m \in 1 .. 4 |-> left'[m]]
      BY <1>6, <1>11
    <2> QED BY ONLY <1>12, <2>1
  <1>14. ASSUME NEW m \in 1 .. 4, left'[m] > 0, NEW j \in m + 1 .. 4 PROVE next[j] = 0
    <2>1. PICK a \in Nat, b \in Nat : a = Len(c.lists[m]) /\ b = next[m] /\ left'[m] = a - b
      BY <1>7, <1>12
    <2>2. b < a
      BY ONLY left'[m] > 0, <2>1, a \in Nat, b \in Nat
    <2>3. ~(m \in 1 .. l - 1)
      <3>1. ASSUME m \in 1 .. l - 1 PROVE FALSE
        <4>0. m # l
          BY <3>1
        <4>1. next[m] = read[m] /\ read[m] = Len(c.lists[m])
          BY ONLY <1>5, <1>8, <3>1, <4>0, m \in 1 .. 4
        <4>2. b = a
          BY ONLY <2>1, <4>1

        <4> QED BY <2>2, <4>2
      <3> QED BY <3>1
    <2>4. j \in l + 1 .. 4 /\ j # l /\ j \in 1 .. 4
      BY <2>3
    <2> QED BY <1>5, <1>8, <2>4
  <1>15. ASSUME NEW m \in 3 .. 4, NEW j \in 1 .. next[m] PROVE c.lists[m][j].code # Null
    <2>0. m \in 1 .. 4
      OBVIOUS
    <2>1. CASE j \in 1 .. read[m]
      BY <1>3, <1>4, <2>1 DEF InClass
    <2>2. CASE ~(j \in 1 .. read[m])
      <3>1. m = l /\ j = read[l] + 1
        <4>1. CASE m = l
          BY <1>7, <1>8, <2>2, <4>1
        <4>2. CASE m # l
          BY <1>8, <2>0, <2>2, <4>2
        <4> QED BY <4>1, <4>2
      <3> QED BY <1>3, <3>1
    <2> QED BY <2>1, <2>2
  <1>16. InClass(n, next)'
    <2>1. at' = (Starts(dex)[n] - HeaderSize) + ReadTo(Starts(dex)[n], c, next)
      BY <1>6, <1>8 DEF ClassAt
    <2>2. \A m \in 1 .. 4 : left'[m] > 0 => \A j \in m + 1 .. 4 : next[j] = 0
      BY ONLY <1>14
    <2>3. \A m \in 3 .. 4 : \A j \in 1 .. next[m] : c.lists[m][j].code # Null
      BY ONLY <1>15
    <2> QED BY <1>3, <1>6, <1>10, <1>13, <2>1, <2>2, <2>3 DEF InClass
  <1>17. Parsed(n, next)'
    <2>1. DefsOf(n)' = DefsOf(n) /\ DataOf(n, next)' = DataOf(n, next)
      BY <1>6 DEF DefsOf, DataOf
    <2>2. class_defs' = DefsOf(n)' /\ class_data' = DataOf(n, next)'
      BY <1>6, <1>9, <2>1 DEF Parsed
    <2>3. n # 0
      OBVIOUS
    <2>4. /\ n \in 0 .. Len(dex.classes)
          /\ \A m \in 1 .. n : HasData(dex.classes[m])
          /\ \A m \in 1 .. n - 1 : \A i \in 3 .. 4 : \A j \in 1 .. Len(dex.classes[m].lists[i]) :
               dex.classes[m].lists[i][j].code # Null
      BY DEF Parsed
    <2> QED BY ONLY <1>6, <1>16, <2>2, <2>3, <2>4 DEF Parsed
  <1> QED BY <1>1, <1>6, <1>17, InClasses

LEMMA ParseFieldInv ==
  ASSUME Inv, NEW l \in 1 .. 2, ParseField(l)
  PROVE  Inv'
  <1>1. Turn(l) /\ stage = "classes" /\ left[l] > 0 /\ l \in 1 .. 4 /\ l =< 2 /\ ~(l > 2)
    BY DEF ParseField, Turn
  <1>2. Loaded
    BY <1>1, ClassesAre
  <1>3. PICK n \in Nat, read \in [1 .. 4 -> Nat] : Parsed(n, read)
    BY <1>1, ClassesAre
  <1>4. n > 0
    <2>1. left # None
      BY <1>1 DEF None
    <2> QED BY <1>2, <1>3, <2>1, ParsedIs
  <1>5. n \in 1 .. Len(dex.classes) /\ HasData(dex.classes[n]) /\ InClass(n, read)
    BY <1>2, <1>3, <1>4, ParsedIs
  <1>6. PICK c : c = dex.classes[n]
    OBVIOUS
  <1>7. PICK s \in Nat : s = Starts(dex)[n]
    BY <1>2, <1>5, BufIs
  <1>8. PICK k \in Nat : k = read[l] + 1
    BY <1>1
  <1>9. k \in 1 .. Len(c.lists[l]) /\ Lies(buf, at, MemberItem(s, c, l, k))
    BY <1>1, <1>2, <1>5, <1>6, <1>7, <1>8, TurnIs
  <1>10. buf \in Seq(Nat) /\ HasData(c) /\ s + DataFrom(c) \in Count
    BY <1>2, <1>5, <1>6, <1>7, BufIs, ClassLies
  <1>11. /\ Ulebs(at, 2)[1] = Diff(c.lists[l], k) /\ Ulebs(at, 2)[2] = c.lists[l][k].flags
         /\ UlebAt(at, 2)[2] = at + Len(MemberItem(s, c, l, k))
    <2>1. MemberFound(at, s, c, l, k)
      BY ONLY <1>1, <1>9, <1>10, MemberRead, s \in Nat
    <2> QED BY ONLY <1>1, <2>1 DEF MemberFound
  <1>12. PICK member : member = MemberOf(c, l, k)
    OBVIOUS
  <1>13. Member(l, 2, member)
    BY <1>1, <1>11, <1>12 DEF ParseField, MemberOf
  <1> QED BY <1>1, <1>3, <1>4, <1>6, <1>7, <1>8, <1>11, <1>12, <1>13, MemberInv

LEMMA ParseMethodInv ==
  ASSUME Inv, NEW l \in 3 .. 4, ParseMethod(l)
  PROVE  Inv'
  <1>1. Turn(l) /\ stage = "classes" /\ left[l] > 0 /\ l \in 1 .. 4 /\ ~(l =< 2) /\ l > 2
    BY DEF ParseMethod, Turn
  <1>2. Loaded
    BY <1>1, ClassesAre
  <1>3. PICK n \in Nat, read \in [1 .. 4 -> Nat] : Parsed(n, read)
    BY <1>1, ClassesAre
  <1>4. n > 0
    <2>1. left # None
      BY <1>1 DEF None
    <2> QED BY <1>2, <1>3, <2>1, ParsedIs
  <1>5. n \in 1 .. Len(dex.classes) /\ HasData(dex.classes[n]) /\ InClass(n, read)
    BY <1>2, <1>3, <1>4, ParsedIs
  <1>6. PICK c : c = dex.classes[n]
    OBVIOUS
  <1>7. PICK s \in Nat : s = Starts(dex)[n]
    BY <1>2, <1>5, BufIs
  <1>8. PICK k \in Nat : k = read[l] + 1
    BY <1>1
  <1>9. k \in 1 .. Len(c.lists[l]) /\ Lies(buf, at, MemberItem(s, c, l, k))
    BY <1>1, <1>2, <1>5, <1>6, <1>7, <1>8, TurnIs
  <1>10. buf \in Seq(Nat) /\ HasData(c) /\ s + DataFrom(c) \in Count
         /\ Lies(buf, s - HeaderSize, ClassItem(s, c))
    BY <1>2, <1>5, <1>6, <1>7, BufIs, ClassLies DEF ClassAt
  <1>11. /\ Ulebs(at, 3)[1] = Diff(c.lists[l], k) /\ Ulebs(at, 3)[2] = c.lists[l][k].flags
         /\ Ulebs(at, 3)[3] = CodeOff(s, c, l, k)
         /\ UlebAt(at, 3)[3] = at + Len(MemberItem(s, c, l, k))
    <2>1. MemberFound(at, s, c, l, k)
      BY ONLY <1>1, <1>9, <1>10, MemberRead, s \in Nat
    <2> QED BY ONLY <1>1, <2>1 DEF MemberFound
  <1>12. PICK o : o = CodeOff(s, c, l, k) - HeaderSize
    OBVIOUS
  <1>13. /\ c.lists[l][k].code # Null => CodeIn(o) /\ CodeAt(o) = c.lists[l][k].code
         /\ c.lists[l][k].code = Null => ~CodeIn(o)
    <2>1. CodeFound(s, c, l, k)
      BY ONLY <1>9, <1>10, CodeRead, s \in Nat, l \in 3 .. 4
    <2> QED BY ONLY <1>12, <2>1 DEF CodeFound
  <1>14. \/ CodeIn(o) /\ Member(l, 3, [diff |-> Ulebs(at, 3)[1], flags |-> Ulebs(at, 3)[2], code |-> CodeAt(o)])
         \/ ~CodeIn(o) /\ Lost
    BY <1>11, <1>12 DEF ParseMethod
  <1>15. CASE c.lists[l][k].code # Null
    <2>1. PICK member : member = MemberOf(c, l, k)
      OBVIOUS
    <2>2. Member(l, 3, member)
      BY <1>1, <1>11, <1>13, <1>14, <1>15, <2>1 DEF MemberOf
    <2> QED BY <1>1, <1>3, <1>4, <1>6, <1>7, <1>8, <1>11, <1>15, <2>1, <2>2, MemberInv
  <1>16. CASE c.lists[l][k].code = Null
    <2>1. Limits
      <3>1. n \in DOMAIN dex.classes
        BY <1>2, <1>5, ClassesTyped DEF Loaded
      <3>2. k \in DOMAIN c.lists[l]
        BY <1>1, <1>9, <1>10, ClassIs
      <3> QED BY <1>6, <1>16, <3>1, <3>2 DEF Limits
    <2>2. Lost
      BY <1>13, <1>14, <1>16
    <2> QED BY <1>1, <2>1, <2>2, LostInv
  <1> QED BY <1>15, <1>16

LEMMA CopyInv ==
  ASSUME Inv, CopyData
  PROVE  Inv'
  <1>1. stage = "classes" /\ left = None /\ Len(class_defs) = header.classDefsSize
    BY DEF CopyData
  <1>2. Loaded /\ damage = "none"
    <2>1. damage = "none"
      BY <1>1 DEF Inv, InvFile
    <2> QED BY <1>1, <2>1, LoadedIs DEF Inv
  <1>3. CASE Lost /\ header.dataOff - HeaderSize > header.dataSize
    <2>1. Limits
      BY <1>2, <1>3 DEF Limits, Loaded
    <2> QED BY <1>1, <1>3, <2>1, LostInv
  <1>4. CASE stage' = "startup" /\ UNCHANGED <<input, header, ids, classes, type_list>>
    <2>1. /\ dex' = dex /\ damage' = damage /\ buf' = buf /\ header' = header /\ stage' = "startup"
          /\ UNCHANGED <<ids, type_list>> /\ UNCHANGED classes
      BY <1>4 DEF input
    <2>2. InvFile'
      BY <1>1, <1>2, <2>1 DEF Inv, InvFile, Stages
    <2>3. InvTables'
      BY <2>1, TablesSame DEF Inv
    <2>4. Filled'
      <3>1. Strings' = Strings
        BY <2>1 DEF Strings
      <3> QED BY <1>1, <2>1, <3>1 DEF Inv, Filled, ids
    <2>5. InvClasses'
      <3>1. PICK n \in Nat, read \in [1 .. 4 -> Nat] : Parsed(n, read)
        BY <1>1, ClassesAre
      <3>2. n = Len(dex.classes)
        BY <1>1, <1>2, <3>1, ParsedIs, HeaderIs
      <3>3. \E r \in [1 .. 4 -> Nat] : Parsed(Len(dex.classes), r)
        BY <3>1, <3>2
      <3> QED BY <1>1, <2>1, <3>3, InvClassesSame DEF Inv
    <2>6. LostByLimitsOnly'
      BY <2>1 DEF LostByLimitsOnly
    <2> QED BY <2>2, <2>3, <2>4, <2>5, <2>6 DEF Inv
  <1> QED BY <1>3, <1>4 DEF CopyData

LEMMA StartUpInv ==
  ASSUME Inv, StartUp
  PROVE  Inv'
  <1>1. stage = "startup"
    BY DEF StartUp
  <1>2. CASE Lost /\ NullTable
    <2>1. damage # "none"
      <3>1. ASSUME damage = "none" PROVE FALSE
        <4>1. string_data = Strings
          BY <1>1, <3>1 DEF Inv, Filled
        <4>2. IsDex(dex)
          BY LoadedIs DEF Inv
        <4>3. Strings \in Seq(Seq(Nat))
          BY <4>2, KeptTyped
        <4>4. method_ids = dex.methods /\ dex.methods \in Seq(AnId)
          BY <1>1, <3>1, <4>2 DEF Inv, Filled, IsDex
        <4> QED BY <1>2, <4>1, <4>3, <4>4, NullAssumption DEF NullTable
      <3> QED BY <3>1
    <2>2. damage \in {"header", "body"}
      <3>1. ASSUME damage = "absent" PROVE FALSE
        <4>1. header = [size \in Sizes |-> 0]
          BY <3>1 DEF Inv, InvFile
        <4>2. header.stringIdsSize = 0 /\ header.methodIdsSize = 0
          BY <4>1 DEF Sizes, SizeAt
        <4> QED BY <1>2, <4>2 DEF NullTable
      <3>2. damage \in {"none", "absent", "header", "body"}
        BY DamageAssumption DEF Inv, InvFile
      <3> QED BY <2>1, <3>1, <3>2
    <2>3. Limits
      <3>1. /\ header.stringIdsSize > 0 => dex.strings # <<>>
            /\ header.methodIdsSize > 0 => dex.methods # <<>>
        BY DEF Inv, InvFile
      <3>2. header.stringIdsSize > 0 \/ header.methodIdsSize > 0
        BY <1>2 DEF NullTable
      <3> QED BY ONLY <2>2, <3>1, <3>2, Zenon DEF Limits
    <2> QED BY <1>1, <1>2, <2>3, LostInv
  <1>3. CASE stage' = "run" /\ UNCHANGED <<input, header, ids, classes, type_list, data>>
    <2>1. /\ dex' = dex /\ damage' = damage /\ buf' = buf /\ header' = header /\ stage' = "run"
          /\ UNCHANGED <<ids, type_list>> /\ UNCHANGED classes
      BY <1>3 DEF input
    <2>2. InvFile'
      BY <1>1, <2>1 DEF Inv, InvFile, Stages
    <2>3. InvTables'
      BY <2>1, TablesSame DEF Inv
    <2>4. Filled'
      <3>1. Strings' = Strings
        BY <2>1 DEF Strings
      <3> QED BY <1>1, <2>1, <3>1 DEF Inv, Filled, ids
    <2>5. InvClasses'
      <3>1. damage = "none" => /\ left = None
                               /\ \E r \in [1 .. 4 -> Nat] : Parsed(Len(dex.classes), r)
        BY <1>1 DEF Inv, InvClasses
      <3> QED BY <2>1, <3>1, InvClassesSame DEF Inv
    <2>6. LostByLimitsOnly'
      BY <2>1 DEF LostByLimitsOnly
    <2> QED BY <2>2, <2>3, <2>4, <2>5, <2>6 DEF Inv
  <1> QED BY <1>2, <1>3 DEF StartUp

LEMMA SameInv ==
  ASSUME Inv, UNCHANGED vars
  PROVE  Inv'
  <1>1. /\ dex' = dex /\ damage' = damage /\ buf' = buf /\ header' = header /\ stage' = stage
        /\ UNCHANGED <<ids, type_list>> /\ UNCHANGED classes
    BY DEF vars, input
  <1>2. InvFile'
    BY <1>1 DEF Inv, InvFile
  <1>3. InvTables'
    BY <1>1, TablesSame DEF Inv
  <1>4. Filled'
    <2>1. Strings' = Strings
      BY <1>1 DEF Strings
    <2> QED BY <1>1, <2>1 DEF Inv, Filled, ids
  <1>5. InvClasses'
    <2>1. None' = None
      BY DEF None
    <2>2. NoClasses => NoClasses'
      BY <1>1, ClassesSame
    <2>3. (\E n \in Nat, read \in [1 .. 4 -> Nat] : Parsed(n, read))
            => \E n \in Nat, read \in [1 .. 4 -> Nat] : Parsed(n, read)'
      BY <1>1, ClassesSame
    <2>4. ASSUME NEW read \in [1 .. 4 -> Nat], Parsed(Len(dex.classes), read)
          PROVE  Parsed(Len(dex.classes), read)'
      <3>1. Len(dex.classes) \in Nat
        BY <2>4 DEF Parsed
      <3> QED BY <1>1, <2>4, <3>1, ClassesSame
    <2>5. left' = left
      BY <1>1 DEF classes
    <2> QED BY <1>1, <2>1, <2>2, <2>3, <2>4, <2>5 DEF Inv, InvClasses
  <1>6. LostByLimitsOnly'
    BY <1>1 DEF Inv, LostByLimitsOnly
  <1> QED BY <1>2, <1>3, <1>4, <1>5, <1>6 DEF Inv

LEMMA NextInv ==
  ASSUME Inv, [Next \/ Stopped]_vars
  PROVE  Inv'
  <1>1. CASE ReadFile
    BY <1>1, ReadFileInv
  <1>2. CASE parse_map_list
    BY <1>2, MapInv
  <1>3. CASE parse_string_ids
    BY <1>3, StringsInv
  <1>4. CASE parse_type_ids
    BY <1>4, TypesInv
  <1>5. CASE parse_proto_ids
    BY <1>5, ProtosInv
  <1>6. CASE parse_field_ids
    BY <1>6, FieldsInv
  <1>7. CASE parse_method_ids
    BY <1>7, MethodsInv
  <1>8. CASE parse_class_defs
    BY <1>8, ClassDefsInv
  <1>9. CASE ParseClass
    BY <1>9, ParseClassInv
  <1>10. ASSUME NEW l \in 1 .. 2, ParseField(l) PROVE Inv'
    BY <1>10, ParseFieldInv
  <1>11. ASSUME NEW l \in 3 .. 4, ParseMethod(l) PROVE Inv'
    BY <1>11, ParseMethodInv
  <1>12. CASE CopyData
    BY <1>12, CopyInv
  <1>13. CASE StartUp
    BY <1>13, StartUpInv
  <1>14. CASE Stopped \/ UNCHANGED vars
    BY <1>14, SameInv DEF Stopped
  <1> QED BY <1>1, <1>2, <1>3, <1>4, <1>5, <1>6, <1>7, <1>8, <1>9, <1>10, <1>11, <1>12, <1>13, <1>14
          DEF Next

\* The tables are empty or as they are written and the parser is at the next
\* member (dex_parser.c:40-98, class_def_parser.c:9-195).
THEOREM DexInv == Spec => []Inv
  <1>1. Init => Inv
    BY InitInv
  <1>2. Inv /\ [Next \/ Stopped]_vars => Inv'
    BY NextInv
  <1> QED BY <1>1, <1>2, PTL DEF Spec

-----------------------------------------------------------------------------
(***************************************************************************)
(* What follows from the invariant.                                        *)
(***************************************************************************)
LEMMA ParsedLoaded ==
  ASSUME Inv
  PROVE  NoClasses \/ (Loaded /\ \E n \in Nat, read \in [1 .. 4 -> Nat] : Parsed(n, read))
  <1>1. CASE stage = "file"
    BY <1>1 DEF Inv, InvClasses
  <1>2. CASE stage # "file"
    <2>1. damage = "none" => Loaded
      BY <1>2, LoadedIs DEF Inv
    <2> QED BY <2>1 DEF Inv, InvClasses
  <1> QED BY <1>1, <1>2

LEMMA TypeOKIs ==
  ASSUME Inv
  PROVE  TypeOK
  <1>1. stage \in Stages
    BY DEF Inv, InvFile
  <1>2. Len(buf) \in Nat
    <2>1. buf \in Seq(Nat)
      BY Layout, LoadedIs DEF Inv, InvFile
    <2> QED BY <2>1, LenProperties
  <1>3. ASSUME left = None, at = 0
        PROVE  at \in 0 .. Len(buf) /\ \A l \in 1 .. 4 : left[l] \in 0 .. Len(buf) - at
    <2>1. \A l \in 1 .. 4 : left[l] = 0
      BY <1>3 DEF None
    <2> QED BY <1>2, <1>3, <2>1
  <1>4. CASE NoClasses
    <2>1. class_defs = Null /\ left = None /\ at = 0
      BY <1>4 DEF NoClasses
    <2> QED BY <1>1, <1>3, <2>1 DEF TypeOK, Stages
  <1>5. CASE ~NoClasses
    <2>1. Loaded
      BY <1>5, ParsedLoaded
    <2>2. PICK n \in Nat, read \in [1 .. 4 -> Nat] : Parsed(n, read)
      BY <1>5, ParsedLoaded
    <2>3. Len(class_defs) = Len(class_data)
      BY <2>1, <2>2, ParsedIs
    <2>4. at \in 0 .. Len(buf) /\ \A l \in 1 .. 4 : left[l] \in 0 .. Len(buf) - at
      <3>1. CASE n = 0
        BY <1>3, <2>1, <2>2, <3>1, ParsedIs
      <3>2. CASE n # 0
        <4>1. n > 0
          BY <3>2
        <4>2. n \in 1 .. Len(dex.classes) /\ HasData(dex.classes[n]) /\ InClass(n, read)
          BY <2>1, <2>2, <4>1, ParsedIs
        <4> QED BY <2>1, <4>2, InClassIs
      <3> QED BY <3>1, <3>2
    <2> QED BY <1>1, <2>3, <2>4 DEF TypeOK, Stages
  <1> QED BY <1>4, <1>5

\* The parser of class data stays within the file, whatever classes it has, and
\* no list has more members left than the file has bytes (class_def_parser.c:45-195).
THEOREM DexTypeOK == Spec => []TypeOK
  <1>1. Inv => TypeOK
    BY TypeOKIs
  <1> QED BY <1>1, DexInv, PTL

\* The program is lost for the reasons the code has, and for no other
\* (string_ids_parser.c:30, class_def_parser.c:18-35, dex_parser.c:86).
THEOREM DexLostByLimitsOnly == Spec => []LostByLimitsOnly
  <1>1. Inv => LostByLimitsOnly
    BY DEF Inv
  <1> QED BY <1>1, DexInv, PTL

\* What is there when a file that is whole was read.
LEMMA RunIs ==
  ASSUME Inv, stage = "run", damage = "none"
  PROVE  /\ Loaded /\ IsDex(dex)
         /\ string_data = Strings /\ type_ids = dex.types /\ proto_ids = dex.protos
         /\ field_ids = dex.fields /\ method_ids = dex.methods
         /\ Len(dex.classes) \in Nat
         /\ class_defs = DefsOf(Len(dex.classes))
         /\ \E read \in [1 .. 4 -> Nat] :
              /\ Parsed(Len(dex.classes), read) /\ class_data = DataOf(Len(dex.classes), read)
              /\ Len(dex.classes) > 0 => read = Whole(dex.classes[Len(dex.classes)])
  <1>1. Loaded /\ IsDex(dex)
    BY LoadedIs DEF Inv
  <1>2. /\ string_data = Strings /\ type_ids = dex.types /\ proto_ids = dex.protos
        /\ field_ids = dex.fields /\ method_ids = dex.methods
    BY DEF Inv, Filled
  <1>3. PICK n \in Nat : n = Len(dex.classes)
    BY <1>1, BufIs
  <1>4. left = None /\ \E read \in [1 .. 4 -> Nat] : Parsed(n, read)
    BY <1>3 DEF Inv, InvClasses
  <1>5. PICK read \in [1 .. 4 -> Nat] : Parsed(n, read)
    BY <1>4
  <1>6. class_defs = DefsOf(n) /\ class_data = DataOf(n, read)
    BY <1>5 DEF Parsed
  <1>7. n > 0 => read = Whole(dex.classes[n])
    BY <1>1, <1>4, <1>5, ParsedIs
  <1> QED BY <1>1, <1>2, <1>3, <1>5, <1>6, <1>7

LEMMA TablesIs ==
  ASSUME Inv
  PROVE  TablesAsWritten
  <1>1. /\ string_data # Null => string_data = [k \in DOMAIN dex.strings |-> Kept(dex.strings[k])]
        /\ type_ids # Null => type_ids = dex.types
        /\ proto_ids # Null => proto_ids = dex.protos
        /\ field_ids # Null => field_ids = dex.fields
        /\ method_ids # Null => method_ids = dex.methods
        /\ type_list # Null => \E k \in DOMAIN dex.protos : type_list = dex.protos[k].types
    BY DEF Inv, InvTables, Strings
  <1>2. ASSUME stage = "run", damage = "none"
        PROVE  /\ string_data # Null /\ type_ids # Null /\ proto_ids # Null
               /\ field_ids # Null /\ method_ids # Null /\ Len(class_data) = Len(dex.classes)
    <2>1. /\ Loaded /\ IsDex(dex)
          /\ string_data = Strings /\ type_ids = dex.types /\ proto_ids = dex.protos
          /\ field_ids = dex.fields /\ method_ids = dex.methods
      BY <1>2, RunIs
    <2>2. string_data # Null
      BY <2>1, KeptTyped, NullAssumption
    <2>3. type_ids # Null
      <3>1. Count \subseteq Nat
        BY CountNat
      <3>2. dex.types \in Seq(Nat)
        BY <2>1, <3>1, SeqMonotonic DEF IsDex
      <3> QED BY <2>1, <3>2, NullAssumption
    <2>4. proto_ids # Null /\ field_ids # Null /\ method_ids # Null
      BY <2>1, NullAssumption DEF IsDex
    <2>5. PICK n \in Nat : n = Len(dex.classes)
      BY <2>1, BufIs
    <2>6. PICK read \in [1 .. 4 -> Nat] : Parsed(n, read)
      BY <1>2, <2>5, RunIs
    <2>7. Len(class_data) = n
      BY <2>1, <2>6, ParsedIs
    <2> QED BY <2>2, <2>3, <2>4, <2>5, <2>7
  <1> QED BY <1>1, <1>2 DEF TablesAsWritten

\* A table that is filled is what the file says, whatever lies before it, and
\* at simple_dvm_startup of a whole file all are (dex_parser.c:57-91).
THEOREM DexTablesAsWritten == Spec => []TablesAsWritten
  <1>1. Inv => TablesAsWritten
    BY TablesIs
  <1> QED BY <1>1, DexInv, PTL

\* The sums of the differences are the ids.
ListUpTo(c, l, r) == [k \in 1 .. r |-> MemberOf(c, l, k)]

LEMMA MemberOfIs ==
  ASSUME NEW c, NEW l \in 1 .. 4, NEW k
  PROVE  /\ MemberOf(c, l, k).diff = Diff(c.lists[l], k)
         /\ MemberOf(c, l, k).flags = c.lists[l][k].flags
         /\ l > 2 => MemberOf(c, l, k).code = c.lists[l][k].code
  <1>1. CASE l =< 2
    BY <1>1 DEF MemberOf
  <1>2. CASE l > 2
    <2>1. ~(l =< 2)
      BY <1>2
    <2> QED BY <2>1 DEF MemberOf
  <1> QED BY <1>1, <1>2

LEMMA IdOfIs ==
  ASSUME NEW c, HasData(c), NEW l \in 1 .. 4, NEW r \in 0 .. Len(c.lists[l])
  PROVE  /\ Len(ListUpTo(c, l, r)) = r
         /\ \A k \in 1 .. r : IdOf(ListUpTo(c, l, r), k) = c.lists[l][k].id
  <1>1. PICK n \in Nat : n = Len(c.lists[l]) /\ r \in Nat /\ r =< n
    BY ClassIs
  <1>2. PICK list : list = ListUpTo(c, l, r)
    OBVIOUS
  <1>3. Len(list) = r
    BY <1>1, <1>2, ListOfIs DEF ListUpTo
  <1>4. ASSUME NEW k \in 1 .. r
        PROVE  /\ c.lists[l][k].id \in Nat /\ list[k].diff \in Nat
               /\ c.lists[l][k].id = IF k = 1 THEN list[k].diff
                                     ELSE c.lists[l][k - 1].id + list[k].diff
    <2>1. k \in 1 .. Len(c.lists[l])
      BY <1>1
    <2>2. list[k].diff = Diff(c.lists[l], k)
      BY <1>2, MemberOfIs DEF ListUpTo
    <2>3. Diff(c.lists[l], k) \in Count /\ c.lists[l][k].id \in Count
      BY <2>1, DiffIs, ClassIs
    <2>4. c.lists[l][k].id = IF k = 1 THEN Diff(c.lists[l], k)
                             ELSE c.lists[l][k - 1].id + Diff(c.lists[l], k)
      BY <2>1, DiffIs
    <2> QED BY <2>2, <2>3, <2>4, CountNat
  <1>5. PICK f : f = [j \in 0 .. r |-> IF j = 0 THEN 0 ELSE c.lists[l][j].id]
    OBVIOUS
  <1>6. f[0] = 0 /\ \A j \in 1 .. r : f[j] = c.lists[l][j].id /\ f[j] = f[j - 1] + list[j].diff
    <2>1. 0 \in 0 .. r
      BY <1>1
    <2>2. f[0] = 0
      BY <1>5, <2>1
    <2>3. ASSUME NEW j \in 1 .. r PROVE f[j] = c.lists[l][j].id /\ f[j] = f[j - 1] + list[j].diff
      <3>1. j \in 0 .. r /\ j # 0 /\ j - 1 \in 0 .. r
        BY <1>1
      <3>2. f[j] = c.lists[l][j].id
        BY <1>5, <3>1
      <3>3. CASE j = 1
        <4>1. PICK x \in Nat : x = list[j].diff
          BY <1>4
        <4>2. f[j] = x /\ f[j - 1] = 0
          BY <1>4, <2>2, <3>2, <3>3, <4>1
        <4>3. x = 0 + x
          OBVIOUS
        <4> QED BY ONLY <3>2, <4>1, <4>2, <4>3
      <3>4. CASE j # 1
        <4>1. f[j - 1] = c.lists[l][j - 1].id
          BY <1>5, <3>1, <3>4
        <4> QED BY <1>4, <3>2, <3>4, <4>1
      <3> QED BY <3>3, <3>4
    <2> QED BY <2>2, <2>3
  <1> DEFINE Sums(g) == g = [j \in 0 .. r |-> IF j = 0 THEN 0 ELSE g[j - 1] + list[j].diff]
  <1>7. Sums(f)
    <2>1. \A j \in 0 .. r : j = 0 \/ j \in 1 .. r
      BY <1>1
    <2>2. \A j \in 0 .. r : f[j] = IF j = 0 THEN 0 ELSE f[j - 1] + list[j].diff
      BY <1>6, <2>1
    <2>3. f = [j \in 0 .. r |-> f[j]]
      BY <1>5
    <2> QED BY ONLY <2>2, <2>3
  <1>8. PICK g : g = CHOOSE h : Sums(h)
    OBVIOUS
  <1>9. Sums(g)
    BY ONLY <1>7, <1>8
  <1>10. \A j \in 0 .. r : g[j] = IF j = 0 THEN 0 ELSE g[j - 1] + list[j].diff
    BY ONLY <1>9
  <1>11. ASSUME NEW k \in 1 .. r PROVE IdOf(list, k) = g[k]
    BY <1>3, <1>8 DEF IdOf
  <1> HIDE DEF Sums
  <1>12. \A j \in Nat : j =< r => g[j] = f[j]
    <2> DEFINE S == {j \in Nat : j =< r => g[j] = f[j]}
    <2>1. 0 \in S
      <3>1. 0 \in 0 .. r
        BY <1>1
      <3> QED BY <1>6, <1>10, <3>1
    <2>2. ASSUME NEW j \in Nat, j \in S PROVE j + 1 \in S
      <3> SUFFICES ASSUME j + 1 =< r PROVE g[j + 1] = f[j + 1]
        OBVIOUS
      <3>1. j + 1 \in 0 .. r /\ j + 1 \in 1 .. r /\ j + 1 # 0 /\ (j + 1) - 1 = j /\ j =< r
        BY <1>1
      <3>2. g[j] = f[j]
        BY <2>2, <3>1
      <3>3. g[j + 1] = g[j] + list[j + 1].diff
        BY ONLY <1>10, <3>1
      <3>4. f[j + 1] = f[j] + list[j + 1].diff
        BY ONLY <1>6, <3>1
      <3> QED BY <3>2, <3>3, <3>4
    <2> HIDE DEF S
    <2>3. Nat \subseteq S
      BY <2>1, <2>2, Induction
    <2> QED BY <2>3 DEF S
  <1>13. ASSUME NEW k \in 1 .. r PROVE IdOf(list, k) = c.lists[l][k].id
    <2>1. k \in Nat /\ k =< r
      BY <1>1
    <2> QED BY <1>6, <1>11, <1>12, <2>1
  <1> QED BY <1>2, <1>3, <1>13

LEMMA ClassesIs ==
  ASSUME Inv
  PROVE  ClassesAsWritten
  <1> SUFFICES ASSUME class_data # Null, NEW c \in DOMAIN class_data
               PROVE  /\ class_defs[c].class = dex.classes[c].class
                      /\ class_defs[c].super = dex.classes[c].super
                      /\ \A l \in 1 .. 4 :
                           LET list == class_data[c][l]
                               members == dex.classes[c].lists[l]
                           IN  /\ Len(list) + (IF c = Len(class_data) THEN left[l] ELSE 0) = Len(members)
                               /\ \A k \in DOMAIN list :
                                    /\ IdOf(list, k) = members[k].id /\ list[k].flags = members[k].flags
                                    /\ l > 2 => list[k].code = members[k].code
    BY DEF ClassesAsWritten
  <1>1. Loaded /\ \E n \in Nat, read \in [1 .. 4 -> Nat] : Parsed(n, read)
    BY ParsedLoaded DEF NoClasses
  <1>2. PICK n \in Nat, read \in [1 .. 4 -> Nat] : Parsed(n, read)
    BY <1>1
  <1>3. c \in 1 .. n /\ Len(class_data) = n /\ n > 0
    <2>1. c \in 1 .. n /\ Len(class_data) = n
      BY <1>1, <1>2, ParsedIs
    <2> QED BY <2>1
  <1>4. PICK cl : cl = dex.classes[c] /\ HasData(cl)
    BY <1>2, <1>3 DEF Parsed
  <1>5. class_defs[c].class = dex.classes[c].class /\ class_defs[c].super = dex.classes[c].super
    <2>1. class_defs = DefsOf(n)
      BY <1>2 DEF Parsed
    <2> QED BY <1>3, <2>1 DEF DefsOf
  <1>6. PICK r : r = IF c = n THEN read ELSE Whole(cl)
    OBVIOUS
  <1>7. class_data[c] = ListsOf(cl, r)
    <2>1. class_data = DataOf(n, read)
      BY <1>2 DEF Parsed
    <2> QED BY <1>3, <1>4, <1>6, <2>1 DEF DataOf
  <1>8. ASSUME NEW l \in 1 .. 4
        PROVE  LET list == class_data[c][l]
                   members == dex.classes[c].lists[l]
               IN  /\ Len(list) + (IF c = Len(class_data) THEN left[l] ELSE 0) = Len(members)
                   /\ \A k \in DOMAIN list :
                        /\ IdOf(list, k) = members[k].id /\ list[k].flags = members[k].flags
                        /\ l > 2 => list[k].code = members[k].code
    <2>1. PICK m \in Nat : m = Len(cl.lists[l])
      BY <1>4, ClassIs
    <2>2. PICK d \in Nat : d = r[l] /\ d =< m /\ d + (IF c = n THEN left[l] ELSE 0) = m
      <3>1. CASE c = n
        <4>1. n \in 1 .. Len(dex.classes) /\ HasData(dex.classes[n]) /\ InClass(n, read)
          BY <1>1, <1>2, <1>3, ParsedIs
        <4>2. read[l] \in Nat /\ read[l] =< m /\ left[l] = m - read[l]
          BY <1>1, <1>4, <2>1, <3>1, <4>1, InClassIs
        <4> QED BY <1>6, <2>1, <3>1, <4>2
      <3>2. CASE c # n
        <4>1. r[l] = m
          BY <1>6, <2>1, <3>2 DEF Whole
        <4> QED BY <2>1, <3>2, <4>1
      <3> QED BY <3>1, <3>2
    <2>3. class_data[c][l] = ListUpTo(cl, l, d)
      BY <1>7, <2>2 DEF ListsOf, ListUpTo
    <2>4. d \in 0 .. Len(cl.lists[l])
      BY <2>1, <2>2
    <2>5. /\ Len(ListUpTo(cl, l, d)) = d
          /\ \A k \in 1 .. d : IdOf(ListUpTo(cl, l, d), k) = cl.lists[l][k].id
      BY ONLY <1>4, <2>4, IdOfIs, l \in 1 .. 4
    <2>6. /\ DOMAIN ListUpTo(cl, l, d) = 1 .. d
          /\ \A k \in 1 .. d : ListUpTo(cl, l, d)[k] = MemberOf(cl, l, k)
      BY DEF ListUpTo
    <2>7. \A k \in 1 .. d : /\ ListUpTo(cl, l, d)[k].flags = cl.lists[l][k].flags
                            /\ l > 2 => ListUpTo(cl, l, d)[k].code = cl.lists[l][k].code
      BY ONLY <2>6, MemberOfIs, l \in 1 .. 4
    <2> QED BY ONLY <1>3, <1>4, <2>1, <2>2, <2>3, <2>5, <2>6, <2>7
  <1> QED BY ONLY <1>5, <1>8

\* The members of a class that was read are those of the file, in the order of
\* the file, and no two lists take what the other has (class_def_parser.c:9-195).
THEOREM DexClassesAsWritten == Spec => []ClassesAsWritten
  <1>1. Inv => ClassesAsWritten
    BY ClassesIs
  <1> QED BY <1>1, DexInv, PTL

-----------------------------------------------------------------------------
(***************************************************************************)
(* The look-ups.                                                           *)
(***************************************************************************)
LEMMA OnlyOne ==
  ASSUME NEW n \in Nat, NEW T, NEW k \in 1 .. n, T = {k}
  PROVE  T # {} /\ Min(T) = k
  <1>1. Min(T) \in T
    BY MinOfNats
  <1> QED BY <1>1

LEMMA StringFound ==
  ASSUME Inv, stage = "run", damage = "none", Plain, NEW id \in 0 .. Len(dex.strings) - 1
  PROVE  get_string_data(id) = dex.strings[id + 1].bytes
  <1>1. Loaded /\ IsDex(dex) /\ string_data = Strings
    BY RunIs
  <1>2. PICK n \in Nat : n = Len(dex.strings) /\ DOMAIN dex.strings = 1 .. n
    BY <1>1, KeptTyped
  <1>3. header.stringIdsSize = n
    BY <1>1, <1>2, HeaderIs
  <1>4. id + 1 \in 1 .. n /\ id \in 0 .. n - 1
    BY <1>2
  <1>5. get_string_data(id) = Kept(dex.strings[id + 1])
    BY <1>1, <1>2, <1>3, <1>4 DEF get_string_data, Strings
  <1>6. PICK s : s = dex.strings[id + 1]
    OBVIOUS
  <1>7. s \in AString
    <2>1. dex.strings \in Seq(AString)
      BY <1>1 DEF IsDex
    <2> QED BY <1>2, <1>4, <1>6, <2>1, ElementOfSeq
  <1>8. s.chars = Len(s.bytes) /\ s.bytes \in Seq(Nat)
    BY <1>2, <1>4, <1>6, <1>7, AStringIs DEF Plain
  <1>9. Kept(s) = s.bytes
    <2>1. PICK b \in Seq(Nat) : b = s.bytes
      BY <1>8
    <2>2. SubSeq(b, 1, Len(b)) = b
      BY SubSeqFull
    <2> QED BY <1>8, <2>1, <2>2 DEF Kept
  <1> QED BY <1>5, <1>6, <1>9

LEMMA TypeNameIs ==
  ASSUME Inv, stage = "run", damage = "none", NEW id \in 0 .. Len(dex.types)
  PROVE  LET name == get_type_item_name(id)
         IN  IF id = Len(dex.types) THEN name = Null
             ELSE /\ Plain => name = dex.strings[dex.types[id + 1] + 1].bytes
                  /\ Plain => get_type_item_by_name(name) = id
  <1>1. /\ Loaded /\ IsDex(dex) /\ string_data = Strings /\ type_ids = dex.types
    BY RunIs
  <1>2. PICK n \in Nat, m \in Nat : /\ n = Len(dex.types) /\ DOMAIN dex.types = 1 .. n
                                    /\ m = Len(dex.strings) /\ DOMAIN dex.strings = 1 .. m
    BY <1>1, KeptTyped, OffsAre
  <1>3. header.typeIdsSize = n
    BY <1>1, <1>2, HeaderIs
  <1>4. CASE id = n
    <2>1. id \notin 0 .. n - 1
      BY <1>4
    <2> QED BY <1>2, <1>3, <1>4, <2>1 DEF get_type_item_name
  <1>5. CASE id # n
    <2>1. id \in 0 .. n - 1 /\ id + 1 \in 1 .. n
      BY <1>2, <1>5
    <2>2. \A k \in 1 .. n : dex.types[k] \in 0 .. m - 1
      <3> TAKE k \in 1 .. n
      <3>1. dex.types[k] < m
        BY <1>1, <1>2 DEF IsDex
      <3>2. dex.types[k] \in Nat
        BY <1>1, <1>2, OffsAre
      <3> QED BY <3>1, <3>2
    <2>3. PICK name : name = get_type_item_name(id)
      OBVIOUS
    <2>4. ASSUME Plain PROVE name = dex.strings[dex.types[id + 1] + 1].bytes
      <3>1. name = get_string_data(dex.types[id + 1])
        BY <1>1, <1>3, <2>1, <2>3 DEF get_type_item_name
      <3> QED BY <1>2, <2>1, <2>2, <2>4, <3>1, StringFound
    <2>5. ASSUME Plain PROVE get_type_item_by_name(name) = id
      <3>1. \A k \in 1 .. n : string_data[dex.types[k] + 1] = dex.strings[dex.types[k] + 1].bytes
        <4> TAKE k \in 1 .. n
        <4>1. get_string_data(dex.types[k]) = dex.strings[dex.types[k] + 1].bytes
          BY <1>2, <2>2, <2>5, StringFound
        <4>2. header.stringIdsSize = m
          BY <1>1, <1>2, HeaderIs
        <4> QED BY <2>2, <4>1, <4>2 DEF get_string_data
      <3>2. PICK T : T = {k \in 1 .. n : string_data[dex.types[k] + 1] = name}
        OBVIOUS
      <3>3. ASSUME NEW k \in T PROVE k = id + 1
        <4>1. k \in 1 .. n /\ dex.strings[dex.types[k] + 1].bytes = dex.strings[dex.types[id + 1] + 1].bytes
          BY <2>4, <2>5, <3>1, <3>2
        <4>2. dex.types[k] + 1 \in 1 .. m /\ dex.types[id + 1] + 1 \in 1 .. m
          <5>1. PICK a, b : a = dex.types[k] /\ b = dex.types[id + 1]
            OBVIOUS
          <5>2. a \in 0 .. m - 1 /\ b \in 0 .. m - 1
            BY ONLY <2>1, <2>2, <4>1, <5>1
          <5>3. a + 1 \in 1 .. m /\ b + 1 \in 1 .. m
            BY ONLY <5>2, m \in Nat
          <5> QED BY ONLY <5>1, <5>3
        <4>3. dex.types[k] + 1 = dex.types[id + 1] + 1
          BY <1>1, <1>2, <4>1, <4>2 DEF IsDex, Distinct
        <4>4. dex.types[k] = dex.types[id + 1]
          BY <2>1, <2>2, <4>1, <4>3
        <4> QED BY <1>1, <1>2, <2>1, <4>1, <4>4 DEF IsDex, Distinct
      <3>4. id + 1 \in T
        BY <2>1, <2>4, <2>5, <3>1, <3>2
      <3>5. T = {id + 1}
        BY <3>3, <3>4
      <3>6. T # {} /\ Min(T) = id + 1
        BY <2>1, <3>5, OnlyOne
      <3>7. get_type_item_by_name(name) = (IF T # {} THEN Min(T) ELSE 0) - 1
        BY <1>1, <1>2, <3>2 DEF get_type_item_by_name, SelectInSeq
      <3> QED BY <3>6, <3>7
    <2> QED BY <1>2, <1>5, <2>3, <2>4, <2>5
  <1> QED BY <1>4, <1>5

\* What is kept of a class of which every method has code.
Kinds == Seq([diff : Count, flags : Count] \cup [diff : Count, flags : Count, code : ACode])

LEMMA ListsTyped ==
  ASSUME NEW c, HasData(c), NEW read, IsRead(c, read),
         \A l \in 3 .. 4 : \A k \in 1 .. read[l] : c.lists[l][k].code # Null
  PROVE  /\ ListsOf(c, read) \in [1 .. 4 -> Kinds]
         /\ \A l \in 1 .. 4 : Len(ListsOf(c, read)[l]) = read[l]
  <1>1. ASSUME NEW l \in 1 .. 4 PROVE ListUpTo(c, l, read[l]) \in Kinds /\ Len(ListUpTo(c, l, read[l])) = read[l]
    <2>1. PICK r \in Nat : r = read[l] /\ r =< Len(c.lists[l])
      BY DEF IsRead
    <2>2. Len(c.lists[l]) \in Nat
      BY ClassIs
    <2>3. PICK s : s = ListUpTo(c, l, r)
      OBVIOUS
    <2>4. s = [k \in 1 .. r |-> s[k]] /\ \A k \in 1 .. r : s[k] = MemberOf(c, l, k)
      BY <2>3 DEF ListUpTo
    <2>5. PICK S : S = [diff : Count, flags : Count] \cup [diff : Count, flags : Count, code : ACode]
      OBVIOUS
    <2>6. ASSUME NEW k \in 1 .. r PROVE s[k] \in S
      <3>1. k \in 1 .. Len(c.lists[l])
        BY <2>1, <2>2
      <3>2. Diff(c.lists[l], k) \in Count /\ c.lists[l][k].flags \in Count
        BY <3>1, DiffIs, ClassIs
      <3>3. CASE l =< 2
        BY <2>4, <2>5, <3>2, <3>3 DEF MemberOf
      <3>4. CASE ~(l =< 2)
        <4>1. l > 2 /\ l \in 3 .. 4
          BY <3>4
        <4>2. c.lists[l][k].code \in ACode
          <5>1. c.lists[l][k].code \in {Null} \cup ACode
            BY <3>1, <4>1, ClassIs
          <5>2. c.lists[l][k].code # Null
            BY <2>1, <4>1
          <5> QED BY ONLY <5>1, <5>2
        <4> QED BY <2>4, <2>5, <3>2, <3>4, <4>2 DEF MemberOf
      <3> QED BY <3>3, <3>4
    <2>7. s \in Seq(S) /\ Len(s) = r
      BY ONLY <2>4, <2>6, FunctionIsSeq, r \in Nat
    <2> QED BY ONLY <2>1, <2>3, <2>5, <2>7 DEF Kinds
  <1>2. ListsOf(c, read) = [l \in 1 .. 4 |-> ListUpTo(c, l, read[l])]
    BY DEF ListsOf, ListUpTo
  <1> QED BY <1>1, <1>2

LEMMA ClassOfRun ==
  ASSUME Inv, stage = "run", damage = "none", NEW c \in 1 .. Len(dex.classes)
  PROVE  /\ class_data[c] \in [1 .. 4 -> Kinds] /\ class_data[c] # Null
         /\ Len(class_data[c][3]) = Len(dex.classes[c].lists[3])
  <1>1. Loaded
    BY RunIs
  <1>2. PICK n \in Nat : n = Len(dex.classes) /\ c \in 1 .. n
    BY RunIs
  <1>3. PICK read \in [1 .. 4 -> Nat] :
          /\ Parsed(n, read) /\ class_data = DataOf(n, read)
          /\ n > 0 => read = Whole(dex.classes[n])
    BY <1>2, RunIs
  <1>4. PICK cl : cl = dex.classes[c] /\ HasData(cl)
    BY <1>2, <1>3 DEF Parsed
  <1>5. n > 0 /\ read = Whole(dex.classes[n])
    BY <1>2, <1>3
  <1>6. class_data[c] = ListsOf(cl, Whole(cl))
    BY <1>2, <1>3, <1>4, <1>5 DEF DataOf
  <1>7. \A l \in 1 .. 4 : Whole(cl)[l] = Len(cl.lists[l]) /\ Len(cl.lists[l]) \in Nat
    BY <1>4, ClassIs DEF Whole
  <1>8. IsRead(cl, Whole(cl))
    <2>1. Whole(cl) = [l \in 1 .. 4 |-> Len(cl.lists[l])]
      BY DEF Whole
    <2> QED BY <1>7, <2>1 DEF IsRead
  <1>9. ASSUME NEW l \in 3 .. 4, NEW k \in 1 .. Whole(cl)[l] PROVE cl.lists[l][k].code # Null
    <2>1. k \in 1 .. Len(cl.lists[l])
      BY <1>7
    <2>2. CASE c = n
      <3>1. InClass(n, read)
        BY <1>1, <1>3, <1>5, ParsedIs
      <3> QED BY <1>4, <1>5, <2>2, <3>1 DEF InClass
    <2>3. CASE c # n
      <3>1. c \in 1 .. n - 1
        BY <1>2, <2>3
      <3> QED BY <1>3, <1>4, <2>1, <3>1 DEF Parsed
    <2> QED BY <2>2, <2>3
  <1>10. /\ class_data[c] \in [1 .. 4 -> Kinds]
         /\ \A l \in 1 .. 4 : Len(class_data[c][l]) = Whole(cl)[l]
    <2>1. PICK r : r = Whole(cl)
      OBVIOUS
    <2>2. \A l \in 3 .. 4 : \A k \in 1 .. r[l] : cl.lists[l][k].code # Null
      BY ONLY <1>9, <2>1
    <2>3. IsRead(cl, r)
      BY <1>8, <2>1
    <2>4. /\ ListsOf(cl, r) \in [1 .. 4 -> Kinds]
          /\ \A l \in 1 .. 4 : Len(ListsOf(cl, r)[l]) = r[l]
      BY ONLY <1>4, <2>2, <2>3, ListsTyped
    <2> QED BY ONLY <1>6, <2>1, <2>4
  <1>11. class_data[c] # Null
    BY <1>10, NullAssumption DEF Kinds
  <1>12. 3 \in 1 .. 4
    OBVIOUS
  <1> QED BY ONLY <1>4, <1>7, <1>10, <1>11, <1>12

LEMMA ClassFound ==
  ASSUME Inv, stage = "run", damage = "none", NEW id
  PROVE  /\ \A c \in DOMAIN dex.classes :
              dex.classes[c].class = id => get_class_data_item(id) = class_data[c]
         /\ (\A c \in DOMAIN dex.classes : dex.classes[c].class # id) => get_class_data_item(id) = Null
  <1>1. Loaded /\ IsDex(dex)
    BY RunIs
  <1>2. PICK n \in Nat : n = Len(dex.classes) /\ DOMAIN dex.classes = 1 .. n /\ class_defs = DefsOf(n)
    BY RunIs, ClassesTyped
  <1>3. Len(class_defs) = n /\ \A c \in 1 .. n : class_defs[c].class = dex.classes[c].class
    BY <1>2, NextDefs DEF DefsOf
  <1>4. PICK T : T = {c \in 1 .. n : class_defs[c].class = id}
    OBVIOUS
  <1>5. PICK i : i = IF T # {} THEN Min(T) ELSE 0
    OBVIOUS
  <1>6. get_class_data_item(id) = IF i = 0 THEN Null ELSE class_data[i]
    BY <1>3, <1>4, <1>5 DEF get_class_data_item, SelectInSeq
  <1>7. ASSUME NEW c \in 1 .. n, dex.classes[c].class = id PROVE get_class_data_item(id) = class_data[c]
    <2>1. \A b \in T : b = c
      BY <1>1, <1>2, <1>3, <1>4, <1>7 DEF IsDex, Distinct
    <2>2. T = {c}
      BY <1>3, <1>4, <1>7, <2>1
    <2>3. i = c
      BY <1>5, <2>2, OnlyOne
    <2> QED BY <1>6, <2>3
  <1>8. ASSUME \A c \in 1 .. n : dex.classes[c].class # id PROVE get_class_data_item(id) = Null
    <2>1. T = {}
      BY <1>3, <1>4, <1>8
    <2> QED BY <1>5, <1>6, <2>1
  <1> QED BY <1>2, <1>7, <1>8

LEMMA MembersFound ==
  ASSUME Inv, stage = "run", damage = "none"
  PROVE  /\ \A id \in 0 .. Len(dex.fields) :
              get_field_type(id) = IF id = Len(dex.fields) THEN 0 ELSE dex.fields[id + 1].type
         /\ \A m \in DOMAIN dex.methods :
              get_proto_type_list(dex.methods[m].type) = dex.protos[dex.methods[m].type + 1].types
  <1>1. Loaded /\ IsDex(dex) /\ field_ids = dex.fields /\ proto_ids = dex.protos
    BY RunIs
  <1>2. PICK n \in Nat : n = Len(dex.fields) /\ header.fieldIdsSize = n
    BY <1>1, OffsAre, HeaderIs
  <1>3. ASSUME NEW id \in 0 .. n
        PROVE  get_field_type(id) = IF id = n THEN 0 ELSE dex.fields[id + 1].type
    <2>1. id \in 0 .. n - 1 <=> id # n
      OBVIOUS
    <2> QED BY <1>1, <1>2, <2>1 DEF get_field_type
  <1>4. ASSUME NEW m \in DOMAIN dex.methods
        PROVE  get_proto_type_list(dex.methods[m].type) = dex.protos[dex.methods[m].type + 1].types
    <2>1. PICK t : t = dex.methods[m].type
      OBVIOUS
    <2>2. t < Len(dex.protos) /\ header.protoIdsSize = Len(dex.protos) /\ Len(dex.protos) \in Nat
      <3>1. dex.protos \in Seq(AProto)
        BY <1>1 DEF IsDex
      <3> QED BY <1>1, <2>1, <3>1, HeaderIs, LenProperties DEF IsDex
    <2>3. t \in Nat
      <3>1. dex.methods[m] \in AnId
        BY <1>1, OffsAre
      <3>2. t \in Short
        BY <2>1, <3>1 DEF AnId
      <3> QED BY <3>2 DEF Short
    <2>4. t \in 0 .. header.protoIdsSize - 1
      BY <2>2, <2>3
    <2> QED BY <1>1, <2>1, <2>4 DEF get_proto_type_list
  <1> QED BY <1>2, <1>3, <1>4

LEMMA LookUpsIs ==
  ASSUME Inv
  PROVE  LookUps
  <1> SUFFICES ASSUME stage = "run", damage = "none"
               PROVE  LookUps
    BY DEF LookUps
  <1>1. Loaded /\ IsDex(dex)
    BY RunIs
  <1>2. DOMAIN dex.classes = 1 .. Len(dex.classes)
    BY <1>1, ClassesTyped
  <1>3. \A c \in DOMAIN dex.classes : get_class_data_item(dex.classes[c].class) = class_data[c]
    BY ClassFound
  <1>4. \A id \in 0 .. Len(dex.types) :
          get_class_data_item(id) = Null <=> \A c \in DOMAIN dex.classes : dex.classes[c].class # id
    <2> TAKE id \in 0 .. Len(dex.types)
    <2>1. ASSUME NEW c \in DOMAIN dex.classes, dex.classes[c].class = id PROVE get_class_data_item(id) # Null
      <3>1. get_class_data_item(id) = class_data[c]
        BY <2>1, ClassFound
      <3> QED BY <1>2, <3>1, ClassOfRun
    <2> QED BY <2>1, ClassFound
  <1> QED BY <1>3, <1>4, TypeNameIs, MembersFound DEF LookUps

\* Of a file that was read whole, a type is found by its name and a class by
\* its type (type_ids_parser.c:122-275, class_def_parser.c:229-236).
THEOREM DexLookUps == Spec => []LookUps
  <1>1. Inv => LookUps
    BY LookUpsIs
  <1> QED BY <1>1, DexInv, PTL
=============================================================================
