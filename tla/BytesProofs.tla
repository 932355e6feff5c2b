------------------------------ MODULE BytesProofs ------------------------------
(***************************************************************************)
(* Lemmas about byte strings: what is put together can be taken apart.        *)
(***************************************************************************)
EXTENDS Bytes, SequenceTheorems, TLAPS

-----------------------------------------------------------------------------
(* Numbers *)

\* Division by BYTE loses nothing: a number is its quotient and its remainder.
LEMMA DivMod ==
  ASSUME NEW n \in Nat
  PROVE  /\ n \div BYTE \in Nat
         /\ n % BYTE \in Nat
         /\ n = BYTE * (n \div BYTE) + (n % BYTE)
  BY ByteOK, SMTT(30)

\* to_be_bytes tells numbers apart.
LEMMA BigEndianInjective ==
  ASSUME NEW m \in Nat, NEW n \in Nat, BigEndian(m) = BigEndian(n)
  PROVE  m = n
<1> DEFINE m1 == m \div BYTE
           m2 == m1 \div BYTE
           n1 == n \div BYTE
           n2 == n1 \div BYTE
<1>1. {m1, m2, n1, n2} \subseteq Nat
  BY DivMod
<1>2. /\ m2 \div BYTE = n2 \div BYTE
      /\ m2 % BYTE = n2 % BYTE
      /\ m1 % BYTE = n1 % BYTE
      /\ m % BYTE = n % BYTE
  BY Zenon DEF BigEndian
<1>3. m2 = n2
  BY <1>1, <1>2, DivMod, Zenon
<1>4. m1 = n1
  BY <1>1, <1>2, <1>3, DivMod, Zenon
<1> QED
  BY <1>2, <1>4, DivMod, Zenon

\* So does to_le_bytes.
LEMMA LittleEndianInjective ==
  ASSUME NEW m \in Nat, NEW n \in Nat, LittleEndian(m) = LittleEndian(n)
  PROVE  m = n
<1>1. BigEndian(m) = BigEndian(n)
  BY DEF BigEndian, LittleEndian
<1> QED
  BY <1>1, BigEndianInjective

-----------------------------------------------------------------------------
(* Concatenations *)

\* Where the elements of the second part of a concatenation are.
LEMMA ConcatRight ==
  ASSUME NEW s \in Seq(Nat), NEW u \in Seq(Nat), NEW i \in 1 .. Len(u)
  PROVE  u[i] = (s \o u)[Len(s) + i]
<1>1. Len(s) \in Nat /\ Len(u) \in Nat
  BY LenProperties
<1> DEFINE j == Len(s) + i
<1>2. j \in 1 .. Len(s) + Len(u) /\ ~(j <= Len(s)) /\ j - Len(s) = i
  BY <1>1
<1> HIDE DEF j
<1>3. (s \o u)[j] = u[j - Len(s)]
  <2>1. (s \o u)[j] = IF j <= Len(s) THEN s[j] ELSE u[j - Len(s)]
    BY <1>2, ConcatProperties, Zenon
  <2> QED BY <1>2, <2>1, Zenon
<1> QED
  BY <1>2, <1>3, Zenon DEF j

\* The length and the first element of a concatenation.
LEMMA ConcatFacts ==
  ASSUME NEW s \in Seq(Nat), NEW t \in Seq(Nat)
  PROVE  /\ s \o t \in Seq(Nat)
         /\ Len(s \o t) = Len(s) + Len(t)
         /\ Len(s) # 0 => (s \o t)[1] = s[1]
<1>1. s \o t \in Seq(Nat) /\ Len(s \o t) = Len(s) + Len(t)
  BY ConcatProperties
<1>2. ASSUME Len(s) # 0
      PROVE  (s \o t)[1] = s[1]
  <2>1. 1 \in 1 .. Len(s) + Len(t) /\ 1 <= Len(s)
    BY <1>2, LenProperties
  <2>2. (s \o t)[1] = IF 1 <= Len(s) THEN s[1] ELSE t[1 - Len(s)]
    <3> DEFINE Joined(i) == IF i <= Len(s) THEN s[i] ELSE t[i - Len(s)]
    <3>1. \A i \in 1 .. Len(s) + Len(t) : (s \o t)[i] = Joined(i)
      BY ConcatProperties
    <3> HIDE DEF Joined
    <3>2. (s \o t)[1] = Joined(1)
      BY <2>1, <3>1
    <3> QED BY <3>2 DEF Joined
  <2> QED BY <2>1, <2>2
<1> QED BY <1>1, <1>2

\* Two concatenations are equal only if they are part by part, when the first
\* parts are equally long.
LEMMA SplitEqual ==
  ASSUME NEW s \in Seq(Nat), NEW t \in Seq(Nat), NEW u \in Seq(Nat), NEW v \in Seq(Nat),
         Len(s) = Len(t), s \o u = t \o v
  PROVE  s = t /\ u = v
<1>1. s = t
  <2>1. ASSUME NEW i \in 1 .. Len(s) PROVE s[i] = t[i]
    <3>1. s[i] = (s \o u)[i] /\ t[i] = (t \o v)[i]
      BY ConcatProperties
    <3> QED BY <3>1
  <2> QED BY <2>1, SeqEqual
<1>2. Len(u) = Len(v)
  BY ConcatProperties
<1>3. ASSUME NEW i \in 1 .. Len(u) PROVE u[i] = v[i]
  <2>1. u[i] = (s \o u)[Len(s) + i]
    BY ConcatRight
  <2>2. v[i] = (t \o v)[Len(t) + i]
    BY <1>2, ConcatRight
  <2> QED BY <2>1, <2>2
<1>4. u = v
  BY <1>2, <1>3, SeqEqual
<1> QED BY <1>1, <1>4

\* A string of the model is a sequence of numbers, of its length.
LEMMA StringIsSeq ==
  ASSUME NEW n \in Nat, NEW s \in Strings(n)
  PROVE  s \in Seq(Nat) /\ Len(s) = n
  BY ByteOK DEF Strings, Byte

\* to_be_bytes and to_le_bytes have four bytes.
LEMMA FourBytes ==
  ASSUME NEW n \in Nat
  PROVE  /\ BigEndian(n) \in Seq(Nat) /\ Len(BigEndian(n)) = 4
         /\ LittleEndian(n) \in Seq(Nat) /\ Len(LittleEndian(n)) = 4
<1> DEFINE n1 == n \div BYTE
           n2 == n1 \div BYTE
<1>1. {n1, n2, n2 \div BYTE, n2 % BYTE, n1 % BYTE, n % BYTE} \subseteq Nat
  BY DivMod
<1> HIDE DEF n2
<1>2. n2 = (n \div BYTE) \div BYTE
  BY DEF n2
<1> QED
  BY <1>1, <1>2 DEF BigEndian, LittleEndian

-----------------------------------------------------------------------------
(* Values of bytes *)

\* A number has one quotient and one remainder.
LEMMA OneQuotient ==
  ASSUME NEW q \in Nat, NEW r \in Byte
  PROVE  (BYTE * q + r) \div BYTE = q /\ (BYTE * q + r) % BYTE = r
<1> DEFINE n == BYTE * q + r
           d == n \div BYTE
           e == n % BYTE
<1>1. n \in Nat /\ BYTE \in Nat /\ BYTE > 0 /\ r \in Nat /\ r < BYTE
  BY ByteOK DEF Byte
<1>2. d \in Nat /\ e \in Nat /\ e < BYTE /\ BYTE * d + e = BYTE * q + r
  BY <1>1, ByteOK, SMTT(30)
<1> HIDE DEF d, e
<1>3. BYTE * (d - q) = r - e
  BY <1>1, <1>2
<1>4. d - q < 1
  <2>1. ASSUME d - q >= 1 PROVE FALSE
    <3>1. BYTE * (d - q) >= BYTE
      BY <1>1, <1>2, <2>1
    <3> QED BY <1>1, <1>2, <1>3, <3>1
  <2> QED BY <1>2, <2>1
<1>5. d - q > -1
  <2>1. ASSUME d - q <= -1 PROVE FALSE
    <3>1. BYTE * (q - d) >= BYTE
      BY <1>1, <1>2, <2>1
    <3>2. BYTE * (q - d) = e - r
      BY <1>1, <1>2
    <3> QED BY <1>1, <1>2, <3>1, <3>2
  <2> QED BY <1>2, <2>1
<1>6. d = q
  BY <1>2, <1>4, <1>5
<1>7. e = r
  BY <1>1, <1>2, <1>6
<1> QED
  BY <1>6, <1>7 DEF d, e

\* from_be_bytes undoes to_be_bytes, whatever the number.
LEMMA ValueOfBigEndian ==
  ASSUME NEW n \in Nat
  PROVE  FromBigEndian(BigEndian(n)) = n
<1> DEFINE n1 == n \div BYTE
           n2 == n1 \div BYTE
           n3 == n2 \div BYTE
<1>1. {n1, n2, n3} \subseteq Nat
  BY DivMod
<1>2. /\ n = BYTE * n1 + (n % BYTE)
      /\ n1 = BYTE * n2 + (n1 % BYTE)
      /\ n2 = BYTE * n3 + (n2 % BYTE)
      /\ {n % BYTE, n1 % BYTE, n2 % BYTE} \subseteq Nat
  BY <1>1, DivMod
<1>3. FromBigEndian(BigEndian(n)) = (n % BYTE) + BYTE * ((n1 % BYTE) + BYTE * ((n2 % BYTE) + BYTE * n3))
  BY DEF FromBigEndian, BigEndian
<1> HIDE DEF n1, n2, n3
<1>4. (n2 % BYTE) + BYTE * n3 = n2
  BY <1>1, <1>2, ByteOK
<1>5. (n1 % BYTE) + BYTE * n2 = n1
  BY <1>1, <1>2, ByteOK
<1>6. (n % BYTE) + BYTE * n1 = n
  BY <1>1, <1>2, ByteOK
<1> QED
  BY <1>3, <1>4, <1>5, <1>6

\* to_be_bytes undoes from_be_bytes on four bytes.
LEMMA BigEndianOfValue ==
  ASSUME NEW b1 \in Byte, NEW b2 \in Byte, NEW b3 \in Byte, NEW b4 \in Byte
  PROVE  BigEndian(FromBigEndian(<<b1, b2, b3, b4>>)) = <<b1, b2, b3, b4>>
<1> DEFINE n2 == b2 + BYTE * b1
           n1 == b3 + BYTE * n2
           n == b4 + BYTE * n1
<1>1. {BYTE, b1, b2, b3, b4} \subseteq Nat
  BY ByteOK DEF Byte
<1>2. n2 \in Nat
  BY <1>1
<1>3. n2 \div BYTE = b1 /\ n2 % BYTE = b2
  <2>1. n2 = BYTE * b1 + b2
    BY <1>1
  <2> QED BY <1>1, <2>1, OneQuotient
<1>4. FromBigEndian(<<b1, b2, b3, b4>>) = n
  BY DEF FromBigEndian
<1> HIDE DEF n2
<1>5. n1 \in Nat /\ n1 = BYTE * n2 + b3
  BY <1>1, <1>2
<1>6. n1 \div BYTE = n2 /\ n1 % BYTE = b3
  BY <1>2, <1>5, OneQuotient
<1> HIDE DEF n1
<1>7. n = BYTE * n1 + b4
  BY <1>1, <1>5
<1>8. n \div BYTE = n1 /\ n % BYTE = b4
  BY <1>5, <1>7, OneQuotient
<1> HIDE DEF n
<1> QED
  BY <1>3, <1>4, <1>6, <1>8 DEF BigEndian

-----------------------------------------------------------------------------
(* Slices *)

\* A slice is a sequence of its length.
LEMMA SliceFacts ==
  ASSUME NEW f \in Seq(Nat), NEW a \in Nat, NEW b \in Nat, a <= b, b <= Len(f)
  PROVE  /\ Slice(f, a, b) \in Seq(Nat)
         /\ Len(Slice(f, a, b)) = b - a
         /\ \A i \in 1 .. b - a : Slice(f, a, b)[i] = f[a + i]
  BY SMTT(30) DEF Slice

\* Two adjacent slices.
LEMMA SliceCut ==
  ASSUME NEW f \in Seq(Nat), NEW a \in Nat, NEW b \in Nat, NEW c \in Nat,
         a <= b, b <= c, c <= Len(f)
  PROVE  Slice(f, a, c) = Slice(f, a, b) \o Slice(f, b, c)
<1>1. /\ a + 1 \in 1 .. Len(f) + 1
      /\ b \in (a + 1) - 1 .. Len(f)
      /\ c \in b .. Len(f)
  BY LenProperties
<1>2. SubSeq(f, a + 1, b) \o SubSeq(f, b + 1, c) = SubSeq(f, a + 1, c)
  BY <1>1, ConcatAdjacentSubSeq
<1> QED
  BY <1>2 DEF Slice

\* The slices of a concatenation that lie in one of its parts.
LEMMA SliceOfConcat ==
  ASSUME NEW s \in Seq(Nat), NEW t \in Seq(Nat)
  PROVE  /\ Slice(s \o t, 0, Len(s)) = s
         /\ \A a, b \in Nat : a <= b /\ b <= Len(t) =>
              Slice(s \o t, Len(s) + a, Len(s) + b) = Slice(t, a, b)
<1> DEFINE w == s \o t
<1>1. /\ w \in Seq(Nat) /\ Len(w) = Len(s) + Len(t)
      /\ Len(s) \in Nat /\ Len(t) \in Nat
  BY ConcatProperties, LenProperties
<1>2. Slice(w, 0, Len(s)) = s
  <2> DEFINE u == Slice(w, 0, Len(s))
  <2>1. \A i \in 1 .. Len(s) : w[i] = s[i]
    BY ConcatProperties
  <2> HIDE DEF w
  <2>2. /\ u \in Seq(Nat) /\ Len(u) = Len(s)
        /\ \A i \in 1 .. Len(s) : u[i] = w[i]
    <3> DEFINE m == Len(s)
    <3>1. m \in Nat /\ 0 <= m /\ m <= Len(w) /\ 0 \in Nat /\ m - 0 = m
      BY <1>1
    <3> HIDE DEF m
    <3>2. /\ Slice(w, 0, m) \in Seq(Nat) /\ Len(Slice(w, 0, m)) = m - 0
          /\ \A i \in 1 .. m - 0 : Slice(w, 0, m)[i] = w[0 + i]
      BY <1>1, <3>1, SliceFacts
    <3>3. \A i \in 1 .. m : 0 + i = i
      BY <3>1
    <3> QED BY <3>1, <3>2, <3>3 DEF m
  <2> HIDE DEF u
  <2>3. u = s
    BY <2>1, <2>2, SeqEqual
  <2> QED BY <2>3 DEF u
<1>3. ASSUME NEW a \in Nat, NEW b \in Nat, a <= b, b <= Len(t)
      PROVE  Slice(w, Len(s) + a, Len(s) + b) = Slice(t, a, b)
  <2> DEFINE u == Slice(w, Len(s) + a, Len(s) + b)
             v == Slice(t, a, b)
  <2>1. /\ u \in Seq(Nat) /\ Len(u) = b - a
        /\ \A i \in 1 .. b - a : u[i] = w[Len(s) + a + i]
    <3> DEFINE m == Len(s) + a
               n == Len(s) + b
    <3>1. m \in Nat /\ n \in Nat /\ m <= n /\ n <= Len(w) /\ n - m = b - a
      BY <1>1, <1>3
    <3> HIDE DEF w, m, n
    <3>2. /\ Slice(w, m, n) \in Seq(Nat) /\ Len(Slice(w, m, n)) = n - m
          /\ \A i \in 1 .. n - m : Slice(w, m, n)[i] = w[m + i]
      BY <1>1, <3>1, SliceFacts
    <3> QED BY <3>1, <3>2 DEF m, n
  <2>2. /\ v \in Seq(Nat) /\ Len(v) = b - a
        /\ \A i \in 1 .. b - a : v[i] = t[a + i]
    BY <1>3, SliceFacts
  <2>3. ASSUME NEW i \in 1 .. b - a PROVE w[Len(s) + a + i] = t[a + i]
    <3>1. a + i \in 1 .. Len(t)
      BY <1>1, <1>3
    <3>2. t[a + i] = w[Len(s) + (a + i)]
      BY <3>1, ConcatRight
    <3>3. Len(s) + (a + i) = Len(s) + a + i
      BY <1>1
    <3> QED BY <3>2, <3>3
  <2> HIDE DEF u, v, w
  <2>4. u = v
    BY <2>1, <2>2, <2>3, SeqEqual
  <2> QED BY <2>4 DEF u, v
<1> QED
  BY <1>2, <1>3

-----------------------------------------------------------------------------
(* Layouts of five fields *)

\* Five fields, one after the other.
Joined(s, t, u, v, w) == s \o (t \o (u \o (v \o w)))

\* The string f is the fields s to w, the last four of them at the offsets a to d.
FieldsAt(f, s, t, u, v, w, a, b, c, d) ==
  /\ f = Joined(s, t, u, v, w)
  /\ s \in Seq(Nat) /\ t \in Seq(Nat) /\ u \in Seq(Nat) /\ v \in Seq(Nat) /\ w \in Seq(Nat)
  /\ a \in Nat /\ b \in Nat /\ c \in Nat /\ d \in Nat
  /\ a = Len(s) /\ b = a + Len(t) /\ c = b + Len(u) /\ d = c + Len(v)

\* A string is its five fields, one after the other.
LEMMA FiveFields ==
  ASSUME NEW f \in Seq(Nat), NEW a \in Nat, NEW b \in Nat, NEW c \in Nat, NEW d \in Nat,
         a <= b, b <= c, c <= d, d <= Len(f)
  PROVE  f = Joined(Slice(f, 0, a), Slice(f, a, b), Slice(f, b, c), Slice(f, c, d),
                    Slice(f, d, Len(f)))
<1> DEFINE n == Len(f)
<1>1. n \in Nat /\ 0 \in Nat /\ 0 <= a /\ a <= n /\ b <= n /\ c <= n /\ d <= n /\ n <= Len(f)
  BY LenProperties
<1>2. f = Slice(f, 0, n)
  <2>1. f = SubSeq(f, 1, n)
    OBVIOUS
  <2>2. 0 + 1 = 1
    OBVIOUS
  <2> QED BY <2>1, <2>2 DEF Slice
<1> HIDE DEF n
<1>3. Slice(f, 0, n) = Slice(f, 0, a) \o Slice(f, a, n)
  <2> DEFINE z == 0
  <2>1. z \in Nat /\ z <= a
    BY <1>1
  <2> HIDE DEF z
  <2>2. Slice(f, z, n) = Slice(f, z, a) \o Slice(f, a, n)
    BY <1>1, <2>1, SliceCut
  <2> QED BY <2>2 DEF z
<1>4. Slice(f, a, n) = Slice(f, a, b) \o Slice(f, b, n)
  BY <1>1, SliceCut
<1>5. Slice(f, b, n) = Slice(f, b, c) \o Slice(f, c, n)
  BY <1>1, SliceCut
<1>6. Slice(f, c, n) = Slice(f, c, d) \o Slice(f, d, n)
  BY <1>1, SliceCut
<1>7. f = Joined(Slice(f, 0, a), Slice(f, a, b), Slice(f, b, c), Slice(f, c, d),
                 Slice(f, d, n))
  BY <1>2, <1>3, <1>4, <1>5, <1>6, Zenon DEF Joined
<1> QED
  BY <1>7 DEF n

\* How far the fields are from the second one.
LEMMA Distances ==
  ASSUME NEW a \in Nat, NEW b \in Nat, NEW c \in Nat, NEW d \in Nat,
         NEW x \in Nat, NEW y \in Nat, NEW z \in Nat,
         b = a + x, c = b + y, d = c + z
  PROVE  c = a + (x + y) /\ d = a + (x + (y + z))
  OBVIOUS

\* The five fields of a concatenation are its parts.
LEMMA FiveParts ==
  ASSUME NEW f, NEW s, NEW t, NEW u, NEW v, NEW w, NEW a, NEW b, NEW c, NEW d,
         FieldsAt(f, s, t, u, v, w, a, b, c, d)
  PROVE  /\ f \in Seq(Nat) /\ Len(f) = a + (Len(t) + (Len(u) + (Len(v) + Len(w))))
         /\ Slice(f, 0, a) = s
         /\ Slice(f, a, b) = t
         /\ Slice(f, b, c) = u
         /\ Slice(f, c, d) = v
         /\ Slice(f, d, Len(f)) = w
<1>0. /\ f = Joined(s, t, u, v, w)
      /\ s \in Seq(Nat) /\ t \in Seq(Nat) /\ u \in Seq(Nat) /\ v \in Seq(Nat) /\ w \in Seq(Nat)
  BY DEF FieldsAt
<1> DEFINE f4 == v \o w
           f3 == u \o f4
           f2 == t \o f3
           lt == Len(t)
           lu == Len(u)
           lv == Len(v)
           lw == Len(w)
<1>1. /\ lt \in Nat /\ lu \in Nat /\ lv \in Nat /\ lw \in Nat /\ 0 \in Nat /\ Len(s) \in Nat
      /\ a \in Nat /\ b \in Nat /\ c \in Nat /\ d \in Nat
      /\ a = Len(s) /\ b = a + lt /\ c = b + lu /\ d = c + lv
  BY <1>0, LenProperties DEF FieldsAt
<1>2. f4 \in Seq(Nat) /\ Len(f4) = lv + lw
  BY <1>0, ConcatFacts
<1> HIDE DEF f4
<1>3. f3 \in Seq(Nat) /\ Len(f3) = lu + Len(f4)
  BY <1>0, <1>2, ConcatFacts
<1> HIDE DEF f3
<1>4. f2 \in Seq(Nat) /\ Len(f2) = lt + Len(f3)
  BY <1>0, <1>3, ConcatFacts
<1> HIDE DEF f2
<1>5. f = s \o f2
  BY <1>0 DEF f2, f3, f4, Joined
<1>6. f \in Seq(Nat) /\ Len(f) = a + Len(f2)
  <2>1. s \o f2 \in Seq(Nat) /\ Len(s \o f2) = Len(s) + Len(f2)
    BY <1>0, <1>4, ConcatFacts
  <2> QED BY <1>1, <1>5, <2>1
<1> HIDE DEF lt, lu, lv, lw
<1>7. Slice(f, 0, a) = s
  BY <1>0, <1>1, <1>4, <1>5, SliceOfConcat
<1>8. \A x, y \in Nat : x <= y /\ y <= Len(f2) => Slice(f, a + x, a + y) = Slice(f2, x, y)
  BY <1>0, <1>1, <1>4, <1>5, SliceOfConcat
<1>9. /\ Slice(f2, 0, lt) = t
      /\ \A x, y \in Nat : x <= y /\ y <= Len(f3) => Slice(f2, lt + x, lt + y) = Slice(f3, x, y)
  BY <1>0, <1>3, SliceOfConcat DEF f2, lt
<1>10. /\ Slice(f3, 0, lu) = u
       /\ \A x, y \in Nat : x <= y /\ y <= Len(f4) => Slice(f3, lu + x, lu + y) = Slice(f4, x, y)
  BY <1>0, <1>2, SliceOfConcat DEF f3, lu
<1>11. Slice(f4, 0, lv) = v
  BY <1>0, SliceOfConcat DEF f4, lv
<1>12. Slice(f4, lv, lv + lw) = w
  <2>1. lw = Len(w)
    BY DEF lw
  <2>2. Slice(v \o w, Len(v) + 0, Len(v) + lw) = Slice(w, 0, lw)
    <3> DEFINE z == 0
    <3>1. z \in Nat /\ z <= lw /\ lw <= Len(w)
      BY <1>1, <2>1
    <3> HIDE DEF z
    <3>2. Slice(v \o w, Len(v) + z, Len(v) + lw) = Slice(w, z, lw)
      BY <1>0, <1>1, <3>1, SliceOfConcat
    <3> QED BY <3>2 DEF z
  <2>3. Slice(w, 0, lw) = w
    <3>1. w = SubSeq(w, 1, Len(w)) /\ 0 + 1 = 1
      BY <1>0
    <3> QED BY <2>1, <3>1 DEF Slice
  <2>4. Len(v) = lv /\ lv + 0 = lv
    BY <1>1 DEF lv
  <2> QED BY <2>2, <2>3, <2>4 DEF f4
<1> DEFINE n2 == lt + lu
           n3 == lu + lv
           n4 == lv + lw
           m3 == lt + n3
           l3 == lu + n4
           l2 == lt + l3
<1>13. /\ n2 \in Nat /\ n3 \in Nat /\ n4 \in Nat /\ m3 \in Nat /\ l3 \in Nat /\ l2 \in Nat
       /\ Len(f4) = n4 /\ Len(f3) = l3 /\ Len(f2) = l2 /\ Len(f) = a + l2
       /\ lt + 0 = lt /\ lu + 0 = lu /\ a + 0 = a
       /\ b = a + lt /\ c = a + n2 /\ d = a + m3
       /\ 0 <= lt /\ lt <= n2 /\ n2 <= m3 /\ m3 <= l2 /\ 0 <= lu /\ lu <= n3 /\ n3 <= l3
       /\ 0 <= lv /\ lv <= n4 /\ lt <= l2 /\ n2 <= l2 /\ lu <= l3 /\ n4 <= n4 /\ l2 <= l2 /\ l3 <= l3
  <2>1. n2 \in Nat /\ n3 \in Nat /\ n4 \in Nat /\ m3 \in Nat /\ l3 \in Nat /\ l2 \in Nat
    BY <1>1
  <2>2. Len(f4) = n4 /\ Len(f3) = l3 /\ Len(f2) = l2 /\ Len(f) = a + l2
    BY <1>1, <1>2, <1>3, <1>4, <1>6
  <2>3. lt + 0 = lt /\ lu + 0 = lu /\ a + 0 = a /\ b = a + lt /\ c = a + n2 /\ d = a + m3
    <3>1. lt + 0 = lt /\ lu + 0 = lu /\ a + 0 = a
      BY <1>1
    <3>2. a \in Nat /\ b \in Nat /\ c \in Nat /\ d \in Nat /\ b = a + lt /\ c = b + lu /\ d = c + lv
      BY <1>1
    <3>3. c = a + (lt + lu) /\ d = a + (lt + (lu + lv))
      BY <1>1, <3>2, Distances
    <3> QED BY <3>1, <3>2, <3>3
  <2>4. /\ 0 <= lt /\ lt <= n2 /\ n2 <= m3 /\ m3 <= l2 /\ 0 <= lu /\ lu <= n3 /\ n3 <= l3
        /\ 0 <= lv /\ lv <= n4 /\ lt <= l2 /\ n2 <= l2 /\ lu <= l3 /\ n4 <= n4 /\ l2 <= l2 /\ l3 <= l3
    BY <1>1
  <2> QED BY <2>1, <2>2, <2>3, <2>4
<1>14. Slice(f, a, b) = t
  BY <1>1, <1>8, <1>9, <1>13
<1> HIDE DEF n2, n3, n4, m3, l3, l2
<1>15. Slice(f, b, c) = u
  <2>1. Slice(f, a + lt, a + n2) = Slice(f2, lt, n2)
    BY <1>1, <1>8, <1>13
  <2>2. Slice(f2, lt + 0, lt + lu) = Slice(f3, 0, lu)
    BY <1>1, <1>9, <1>13
  <2>3. lt + 0 = lt /\ lt + lu = n2
    BY <1>13 DEF n2
  <2> QED BY <1>10, <1>13, <2>1, <2>2, <2>3
<1>16. Slice(f, c, d) = v
  <2>1. Slice(f, a + n2, a + m3) = Slice(f2, n2, m3)
    BY <1>1, <1>8, <1>13
  <2>2. Slice(f2, lt + lu, lt + n3) = Slice(f3, lu, n3)
    BY <1>1, <1>9, <1>13
  <2>3. Slice(f3, lu + 0, lu + lv) = Slice(f4, 0, lv)
    BY <1>1, <1>10, <1>13
  <2>4. lt + lu = n2 /\ lt + n3 = m3 /\ lu + 0 = lu /\ lu + lv = n3
    BY <1>13 DEF n2, m3, n3
  <2> QED BY <1>11, <1>13, <2>1, <2>2, <2>3, <2>4
<1>17. Slice(f, d, Len(f)) = w
  <2>1. Slice(f, a + m3, a + l2) = Slice(f2, m3, l2)
    BY <1>1, <1>8, <1>13
  <2>2. Slice(f2, lt + n3, lt + l3) = Slice(f3, n3, l3)
    BY <1>1, <1>9, <1>13
  <2>3. Slice(f3, lu + lv, lu + n4) = Slice(f4, lv, n4)
    BY <1>1, <1>10, <1>13
  <2>4. lt + n3 = m3 /\ lt + l3 = l2 /\ lu + n4 = l3 /\ lu + lv = n3 /\ lv + lw = n4
    BY DEF n2, m3, n3, l3, l2, n4
  <2> QED BY <1>12, <1>13, <2>1, <2>2, <2>3, <2>4
<1>18. Len(f) = a + (Len(t) + (Len(u) + (Len(v) + Len(w))))
  BY <1>13 DEF l2, l3, n4, lt, lu, lv, lw
<1> QED
  BY <1>6, <1>7, <1>14, <1>15, <1>16, <1>17, <1>18
=============================================================================
