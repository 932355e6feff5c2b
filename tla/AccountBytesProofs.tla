-------------------------- MODULE AccountBytesProofs --------------------------
(***************************************************************************)
(* Theorems about AccountBytes: on its bytes the example program does what   *)
(* KeyAccount says of keys, leaves and bits, whatever instructions reach it,   *)
(* and only exact instructions succeed.                                       *)
(***************************************************************************)
EXTENDS AccountBytes, BytesProofs

-----------------------------------------------------------------------------
(* Bytes, offsets and bits *)

\* The offsets of the account.
LEMMA Offsets ==
  /\ BYTE = 256 /\ Byte = 0 .. 255 /\ PUBLIC_KEY_LEN = 41 /\ LEAVES = 256
  /\ KEY_END = 42 /\ KEY_ACCOUNT_LEN = 74 /\ Lengths = {73, 74}
BY AccountSizes DEF Byte, KEY_END, KEY_ACCOUNT_LEN, Lengths

\* What most steps need of them.
LEMMA OffsetsOrder ==
  /\ KEY_END \in Nat /\ KEY_ACCOUNT_LEN \in Nat /\ 1 <= KEY_END /\ KEY_END < KEY_ACCOUNT_LEN
  /\ KEY_END = 1 + PUBLIC_KEY_LEN /\ PUBLIC_KEY_LEN \in Nat
BY Offsets

\* Strings of bytes are sequences of numbers.
LEMMA BytesAreNumbers == \A b \in Seq(Byte) : b \in Seq(Nat)
BY ByteOK DEF Byte

Masks == {1, 2, 4, 8, 16, 32, 64, 128}

\* The masks of the bits, one for each.
LEMMA MaskValues ==
  /\ \A bit \in 0 .. 7 : Mask(bit) \in Masks
  /\ \A bit, m \in 0 .. 7 : Mask(bit) = Mask(m) <=> bit = m
<1> DEFINE values == <<1, 2, 4, 8, 16, 32, 64, 128>>
           Right(bit) == Mask(bit) = values[bit + 1]
<1>1. ASSUME NEW bit \in 0 .. 7 PROVE Right(bit)
  <2>1. /\ 2 ^ 0 = 1 /\ 2 ^ 1 = 2 /\ 2 ^ 2 = 4 /\ 2 ^ 3 = 8
        /\ 2 ^ 4 = 16 /\ 2 ^ 5 = 32 /\ 2 ^ 6 = 64 /\ 2 ^ 7 = 128
    OBVIOUS
  <2>2. /\ Right(0) /\ Right(1) /\ Right(2) /\ Right(3)
        /\ Right(4) /\ Right(5) /\ Right(6) /\ Right(7)
    BY <2>1 DEF Mask
  <2> HIDE DEF Right
  <2> QED
    BY <2>2
<1>2. \A n \in 1 .. 8 : values[n] \in Masks
  BY DEF Masks
<1>3. \A i, n \in 1 .. 8 : values[i] = values[n] <=> i = n
  OBVIOUS
<1> HIDE DEF values
<1>4. \A bit \in 0 .. 7 : bit + 1 \in 1 .. 8
  OBVIOUS
<1>5. ASSUME NEW bit \in 0 .. 7, NEW m \in 0 .. 7 PROVE bit + 1 = m + 1 <=> bit = m
  OBVIOUS
<1>6. \A bit \in 0 .. 7 : Mask(bit) = values[bit + 1]
  BY <1>1
<1> QED
  BY <1>2, <1>3, <1>4, <1>5, <1>6

\* Setting a bit that is not set changes this bit and no other, and stays in the byte.
LEMMA SetMask ==
  ASSUME NEW b \in 0 .. 255, NEW mask \in Masks, ~IsSet(b, mask)
  PROVE  /\ b + mask \in 0 .. 255
         /\ \A n \in Masks : IsSet(b + mask, n) <=> n = mask \/ IsSet(b, n)
<1> DEFINE Right(k, n) == IsSet(b + k, n) <=> n = k \/ IsSet(b, n)
           Sets(k) ==
             ~IsSet(b, k) =>
               /\ b + k \in 0 .. 255
               /\ Right(k, 1) /\ Right(k, 2) /\ Right(k, 4) /\ Right(k, 8)
               /\ Right(k, 16) /\ Right(k, 32) /\ Right(k, 64) /\ Right(k, 128)
<1>1. Sets(1)
  BY DEF IsSet
<1>2. Sets(2)
  BY DEF IsSet
<1>3. Sets(4)
  BY DEF IsSet
<1>4. Sets(8)
  BY DEF IsSet
<1>5. Sets(16)
  BY DEF IsSet
<1>6. Sets(32)
  BY DEF IsSet
<1>7. Sets(64)
  BY DEF IsSet
<1>8. Sets(128)
  BY DEF IsSet
<1> HIDE DEF Sets
<1>9. Sets(mask)
  BY <1>1, <1>2, <1>3, <1>4, <1>5, <1>6, <1>7, <1>8 DEF Masks
<1> HIDE DEF Right
<1>10. b + mask \in 0 .. 255
  BY <1>9 DEF Sets
<1>11. ASSUME NEW n \in Masks PROVE Right(mask, n)
  <2>1. /\ Right(mask, 1) /\ Right(mask, 2) /\ Right(mask, 4) /\ Right(mask, 8)
        /\ Right(mask, 16) /\ Right(mask, 32) /\ Right(mask, 64) /\ Right(mask, 128)
    BY <1>9, Zenon DEF Sets
  <2> QED
    BY <2>1 DEF Masks
<1> QED
  BY <1>10, <1>11 DEF Right

LEMMA SetBit ==
  ASSUME NEW b \in 0 .. 255, NEW m \in 0 .. 7, ~IsSet(b, Mask(m))
  PROVE  /\ b + Mask(m) \in 0 .. 255
         /\ \A bit \in 0 .. 7 : IsSet(b + Mask(m), Mask(bit)) <=> bit = m \/ IsSet(b, Mask(bit))
<1> DEFINE mask == Mask(m)
<1>1. mask \in Masks /\ ~IsSet(b, mask)
  BY MaskValues
<1>2. \A bit \in 0 .. 7 : Mask(bit) \in Masks /\ (Mask(bit) = mask <=> bit = m)
  BY MaskValues
<1> HIDE DEF mask
<1>3. /\ b + mask \in 0 .. 255
      /\ \A n \in Masks : IsSet(b + mask, n) <=> n = mask \/ IsSet(b, n)
  BY <1>1, SetMask, Zenon
<1>4. \A bit \in 0 .. 7 : IsSet(b + mask, Mask(bit)) <=> bit = m \/ IsSet(b, Mask(bit))
  BY <1>2, <1>3, Zenon
<1> QED
  BY <1>3, <1>4 DEF mask

\* Zeroed bytes.
LEMMA ZerosFacts ==
  ASSUME NEW n \in Nat
  PROVE  Zeros(n) \in Seq(Byte) /\ Len(Zeros(n)) = n /\ \A i \in 1 .. n : Zeros(n)[i] = 0
BY Offsets DEF Zeros

\* What a byte string has at its indices.
LEMMA ByteAt ==
  ASSUME NEW f \in Seq(Byte), NEW k \in 1 .. Len(f)
  PROVE  f[k] \in 0 .. 255
<1>1. f[k] \in Byte
  OBVIOUS
<1> QED
  BY <1>1, Offsets

\* No bit of zero is set.
LEMMA NoBitOfZero == \A bit \in 0 .. 7 : ~IsSet(0, Mask(bit))
<1>1. ASSUME NEW mask \in Masks PROVE ~IsSet(0, mask)
  BY DEF IsSet, Masks
<1> QED
  BY <1>1, MaskValues, Zenon

\* A slice of everything.
LEMMA WholeSlice ==
  ASSUME NEW f \in Seq(Nat), NEW n \in Nat, Len(f) = n
  PROVE  Slice(f, 0, n) = f
<1>1. f = SubSeq(f, 1, n) /\ 0 + 1 = 1
  OBVIOUS
<1> QED
  BY <1>1 DEF Slice

\* Slices of strings that agree up to where they end.
LEMMA EqualSlices ==
  ASSUME NEW f \in Seq(Nat), NEW g \in Seq(Nat), NEW a \in Nat, NEW b \in Nat,
         a <= b, b <= Len(f), b <= Len(g), \A j \in 1 .. b : f[j] = g[j]
  PROVE  Slice(f, a, b) = Slice(g, a, b)
<1> DEFINE u == Slice(f, a, b)
           v == Slice(g, a, b)
<1>1. u \in Seq(Nat) /\ Len(u) = b - a /\ \A j \in 1 .. b - a : u[j] = f[a + j]
  BY SliceFacts
<1>2. v \in Seq(Nat) /\ Len(v) = b - a /\ \A j \in 1 .. b - a : v[j] = g[a + j]
  BY SliceFacts
<1> HIDE DEF u, v
<1>3. ASSUME NEW j \in 1 .. b - a PROVE u[j] = v[j]
  <2>1. a + j \in 1 .. b
    OBVIOUS
  <2> QED
    BY <1>1, <1>2, <2>1, Zenon
<1>4. Len(u) = Len(v) /\ \A j \in 1 .. Len(u) : u[j] = v[j]
  BY <1>1, <1>2, <1>3, Zenon
<1>5. u = v
  BY <1>1, <1>2, <1>4, SeqEqual, Zenon
<1> QED
  BY <1>5 DEF u, v

\* The first byte and the rest.
LEMMA HeadAndTail ==
  ASSUME NEW f \in Seq(Byte), f # <<>>
  PROVE  /\ f[1] \in Byte /\ Tail(f) \in Seq(Byte)
         /\ f = <<f[1]>> \o Tail(f)
<1>1. f[1] \in Byte /\ Tail(f) \in Seq(Byte)
  OBVIOUS
<1>2. f = <<f[1]>> \o Tail(f)
  BY SMTT(30)
<1> QED
  BY <1>1, <1>2

\* Encoding what was decoded gives the same bytes.
LEMMA KeyOfParts ==
  ASSUME NEW key \in Seq(Nat), DecodesKey(key)
  PROVE  NewKey(Node(key), Parameter(key)) = key
<1> DEFINE m == ELEMENT_LENGTH
           n == PUBLIC_KEY_LEN
           z == 0
<1>1. m \in Nat /\ n \in Nat /\ z \in Nat /\ z <= m /\ m <= n /\ n <= Len(key) /\ Len(key) = n
  BY SizesOK DEF PUBLIC_KEY_LEN, DecodesKey
<1> HIDE DEF m, n, z
<1>2. Slice(key, z, n) = Slice(key, z, m) \o Slice(key, m, n)
  BY <1>1, SliceCut
<1>3. Slice(key, 0, n) = key
  BY <1>1, WholeSlice
<1> QED
  BY <1>2, <1>3 DEF NewKey, Node, Parameter, m, n, z

\* The four bytes of a leaf are those of the number they spell.
LEMMA LeafBytes ==
  ASSUME NEW f \in Seq(Byte), Len(f) >= 4
  PROVE  BigEndian(FromBigEndian(Slice(f, 0, 4))) = Slice(f, 0, 4)
<1> DEFINE s == Slice(f, 0, 4)
           t == <<f[1], f[2], f[3], f[4]>>
<1>1. f[1] \in Byte /\ f[2] \in Byte /\ f[3] \in Byte /\ f[4] \in Byte
  OBVIOUS
<1>2. t \in Seq(Nat) /\ Len(t) = 4 /\ \A i \in 1 .. 4 : t[i] = f[i]
  BY <1>1 DEF Byte
<1>3. s \in Seq(Nat) /\ Len(s) = 4 - 0 /\ \A i \in 1 .. 4 - 0 : s[i] = f[0 + i]
  <2> DEFINE z == 0
             n == 4
  <2>1. f \in Seq(Nat) /\ z \in Nat /\ n \in Nat /\ z <= n /\ n <= Len(f)
    BY BytesAreNumbers
  <2> HIDE DEF z, n
  <2>2. /\ Slice(f, z, n) \in Seq(Nat) /\ Len(Slice(f, z, n)) = n - z
        /\ \A i \in 1 .. n - z : Slice(f, z, n)[i] = f[z + i]
    BY <2>1, SliceFacts
  <2> QED
    BY <2>2 DEF z, n
<1> HIDE DEF s, t
<1>4. Len(s) = Len(t) /\ \A i \in 1 .. Len(s) : s[i] = t[i]
  BY <1>2, <1>3
<1>5. s = t
  BY <1>2, <1>3, <1>4, SeqEqual, Zenon
<1>6. BigEndian(FromBigEndian(t)) = t
  BY <1>1, BigEndianOfValue DEF t
<1> QED
  BY <1>5, <1>6 DEF s

LEMMA SignatureOfParts ==
  ASSUME NEW k \in Instances, NEW f \in Seq(Byte), DecodesSignature(k, f)
  PROVE  NewSignature(k, Leaf(k, f), Salt(k, f), Elements(k, f), Path(k, f)) = f
<1>0. f \in Seq(Nat)
  BY BytesAreNumbers
<1> DEFINE b == SALT(k)
           c == ELEMENTS(k)
           d == PATH(k)
           n == SIGNATURE_LEN(k)
           z == 0
<1>1. /\ z \in Nat /\ b \in Nat /\ c \in Nat /\ d \in Nat /\ n \in Nat
      /\ z <= b /\ b <= c /\ c <= d /\ d <= n /\ z <= c /\ z <= d
  <2>1. ELEMENTS_LENGTH \in Nat /\ HEIGHT * ELEMENT_LENGTH \in Nat /\ SALT_LENGTH \in Nat
    BY SizesOK, EncodingsOK DEF ELEMENTS_LENGTH
  <2>2. b \in Nat /\ c = b + SALT_LENGTH /\ d = c + ELEMENTS_LENGTH
    BY DEF SALT, ELEMENTS, PATH
  <2>3. n = d + HEIGHT * ELEMENT_LENGTH \/ n = d
    BY DEF SIGNATURE_LEN
  <2> HIDE DEF b, c, d, n
  <2> QED
    BY <2>1, <2>2, <2>3
<1>2. Len(f) = n
  BY DEF DecodesSignature, DecodesXmss, DecodesWinternitz, Instances
<1> HIDE DEF b, c, d, n, z
<1>3. b <= Len(f) /\ c <= Len(f) /\ d <= Len(f) /\ n <= Len(f)
  BY <1>1, <1>2
<1>4. Slice(f, z, n) = f
  BY <1>0, <1>1, <1>2, WholeSlice DEF z
<1>5. /\ Slice(f, z, n) = Slice(f, z, d) \o Slice(f, d, n)
      /\ Slice(f, z, d) = Slice(f, z, c) \o Slice(f, c, d)
      /\ Slice(f, z, c) = Slice(f, z, b) \o Slice(f, b, c)
  <2>1. Slice(f, z, n) = Slice(f, z, d) \o Slice(f, d, n)
    BY <1>0, <1>1, <1>3, SliceCut
  <2>2. Slice(f, z, d) = Slice(f, z, c) \o Slice(f, c, d)
    BY <1>0, <1>1, <1>3, SliceCut
  <2>3. Slice(f, z, c) = Slice(f, z, b) \o Slice(f, b, c)
    BY <1>0, <1>1, <1>3, SliceCut
  <2> QED
    BY <2>1, <2>2, <2>3
<1>6. CASE k = "xmss"
  <2>1. b = 4
    BY <1>6 DEF b, SALT
  <2>2. BigEndian(Leaf(k, f)) = Slice(f, z, b)
    BY <1>3, <1>6, <2>1, LeafBytes DEF Leaf, z
  <2>3. f = ((BigEndian(Leaf(k, f)) \o Slice(f, b, c)) \o Slice(f, c, d)) \o Slice(f, d, n)
    BY <1>4, <1>5, <2>2, Zenon
  <2> QED
    BY <1>6, <2>3 DEF NewSignature, Salt, Elements, Path, b, c, d, n
<1>7. CASE k = "winternitz"
  <2>1. b = z /\ n = d
    BY <1>7 DEF b, z, n, d, SALT, SIGNATURE_LEN
  <2>2. Slice(f, b, d) = Slice(f, b, c) \o Slice(f, c, d)
    BY <1>0, <1>1, <1>3, SliceCut
  <2>3. f = Slice(f, b, c) \o Slice(f, c, d)
    BY <1>4, <2>1, <2>2, Zenon
  <2> QED
    BY <1>7, <2>3 DEF NewSignature, Salt, Elements, b, c, d
<1> QED
  BY <1>6, <1>7 DEF Instances

-----------------------------------------------------------------------------
(* The bytes of the account *)

\* Three parts, one after the other.
Concat(s, t, u) == (s \o t) \o u

\* The parts are found again.
HasParts(d, s, t, u) ==
  /\ d \in Seq(Byte) /\ Len(d) = (Len(s) + Len(t)) + Len(u)
  /\ d[1] = s[1]
  /\ Slice(d, Len(s), Len(s) + Len(t)) = t
  /\ \A i \in 1 .. Len(u) : d[(Len(s) + Len(t)) + i] = u[i]

\* What is put together of three parts.
LEMMA ThreeParts ==
  ASSUME NEW s \in Seq(Byte), NEW t \in Seq(Byte), NEW u \in Seq(Byte),
         NEW d, d = Concat(s, t, u), Len(s) > 0
  PROVE  HasParts(d, s, t, u)
<1> DEFINE st == s \o t
           tu == t \o u
<1>1. s \in Seq(Nat) /\ t \in Seq(Nat) /\ u \in Seq(Nat)
  BY BytesAreNumbers
<1>2. Len(s) \in Nat /\ Len(t) \in Nat /\ Len(u) \in Nat
  BY LenProperties
<1>3. st \in Seq(Nat) /\ Len(st) = Len(s) + Len(t) /\ tu \in Seq(Nat) /\ Len(tu) = Len(t) + Len(u)
  BY <1>1, ConcatFacts
<1>4. d \in Seq(Byte)
  BY DEF Concat
<1>5. d = s \o tu
  <2>1. (s \o t) \o u = s \o (t \o u)
    BY <1>1, ConcatAssociative, SMTT(30)
  <2> QED
    BY <2>1, Zenon DEF Concat
<1>6. Slice(tu, 0, Len(t)) = t
  BY <1>1, SliceOfConcat
<1> HIDE DEF tu
<1>7. Len(d) = (Len(s) + Len(t)) + Len(u) /\ d[1] = s[1]
  <2>1. Len(s) # 0
    BY <1>2
  <2>2. Len(s \o tu) = Len(s) + Len(tu) /\ (s \o tu)[1] = s[1]
    BY <1>1, <1>3, <2>1, ConcatFacts
  <2> QED
    BY <1>2, <1>3, <1>5, <2>2
<1>8. Slice(d, Len(s), Len(s) + Len(t)) = t
  <2> DEFINE a == 0
             b == Len(t)
  <2>1. a \in Nat /\ b \in Nat /\ a <= b /\ b <= Len(tu) /\ Len(s) + a = Len(s)
    BY <1>2, <1>3
  <2> HIDE DEF a, b
  <2>2. tu \in Seq(Nat)
    BY <1>3
  <2>3. \A x, y \in Nat :
          x <= y /\ y <= Len(tu) => Slice(s \o tu, Len(s) + x, Len(s) + y) = Slice(tu, x, y)
    BY <1>1, <2>2, SliceOfConcat
  <2>4. Slice(s \o tu, Len(s) + a, Len(s) + b) = Slice(tu, a, b)
    BY <2>1, <2>3, Zenon
  <2> QED
    BY <1>5, <1>6, <2>1, <2>4, Zenon DEF a, b
<1>9. d = st \o u
  BY DEF Concat
<1> HIDE DEF st
<1>10. ASSUME NEW i \in 1 .. Len(u) PROVE d[(Len(s) + Len(t)) + i] = u[i]
  <2>1. u[i] = (st \o u)[Len(st) + i]
    BY <1>1, <1>3, ConcatRight
  <2> QED
    BY <1>3, <1>9, <2>1
<1> QED
  BY <1>4, <1>7, <1>8, <1>10, Zenon DEF HasParts

\* The set bits of an account's bytes; UsedBits are those of its data.
BitsIn(d) ==
  {bit \in (KEY_END .. KEY_ACCOUNT_LEN - 1) \X (0 .. 7) :
     bit[1] < Len(d) /\ IsSet(d[bit[1] + 1], Mask(bit[2]))}

\* The bit of a leaf, KeyAccount's BitOf.
LeafBit(leaf) == <<ByteOf(leaf), leaf % 8>>

\* The data that create writes.
Created(tag, key) ==
  <<tag + 1>> \o Slice(key, 0, PUBLIC_KEY_LEN) \o Zeros(KEY_ACCOUNT_LEN - KEY_END)

\* What create writes: the tag, the key and a bitmap without a set bit.
LEMMA CreatedData ==
  ASSUME NEW tag \in {0, 1}, NEW key \in Seq(Byte), DecodesKey(key), NEW d, d = Created(tag, key)
  PROVE  /\ d \in Seq(Byte) /\ Len(d) = KEY_ACCOUNT_LEN
         /\ d[1] = tag + 1
         /\ Slice(d, 1, KEY_END) = key
         /\ BitsIn(d) = {}
         /\ d = <<tag + 1>> \o key \o Zeros(KEY_ACCOUNT_LEN - KEY_END)
<1> DEFINE h == <<tag + 1>>
           n == KEY_ACCOUNT_LEN - KEY_END
           z == Zeros(n)
<1>0. n \in Nat /\ KEY_END + n = KEY_ACCOUNT_LEN
  BY OffsetsOrder
<1> HIDE DEF n
<1>1. h \in Seq(Byte) /\ Len(h) = 1 /\ h[1] = tag + 1
  BY Offsets
<1>2. z \in Seq(Byte) /\ Len(z) = n /\ \A i \in 1 .. n : z[i] = 0
  BY <1>0, ZerosFacts
<1>3. key \in Seq(Nat) /\ Len(key) = PUBLIC_KEY_LEN
  BY BytesAreNumbers DEF DecodesKey
<1>4. Slice(key, 0, PUBLIC_KEY_LEN) = key
  BY <1>3, OffsetsOrder, WholeSlice
<1>5. d = Concat(h, key, z)
  BY <1>4 DEF Concat, Created, n
<1> HIDE DEF h, z
<1>6. Len(h) > 0
  BY <1>1
<1>7. /\ d \in Seq(Byte) /\ Len(d) = (Len(h) + Len(key)) + Len(z)
      /\ d[1] = h[1]
      /\ Slice(d, Len(h), Len(h) + Len(key)) = key
      /\ \A i \in 1 .. Len(z) : d[(Len(h) + Len(key)) + i] = z[i]
  <2>1. h \in Seq(Byte) /\ z \in Seq(Byte) /\ key \in Seq(Byte)
    BY <1>1, <1>2
  <2>2. HasParts(d, h, key, z)
    BY <1>5, <1>6, <2>1, ThreeParts
  <2> QED
    BY <2>2, Zenon DEF HasParts
<1>8. Len(h) + Len(key) = KEY_END
  BY <1>1, <1>3, OffsetsOrder
<1>9. Len(d) = KEY_ACCOUNT_LEN
  BY <1>0, <1>2, <1>7, <1>8
<1>10. Slice(d, 1, KEY_END) = key
  BY <1>1, <1>7, <1>8, Zenon
<1>11. \A i \in 1 .. n : d[KEY_END + i] = 0
  BY <1>2, <1>7, <1>8, Zenon
<1>12. ASSUME NEW i \in KEY_END .. KEY_ACCOUNT_LEN - 1 PROVE d[i + 1] = 0
  <2> DEFINE j == i + 1 - KEY_END
  <2>1. j \in 1 .. n /\ KEY_END + j = i + 1
    BY <1>0, OffsetsOrder
  <2> HIDE DEF j
  <2> QED
    BY <1>11, <2>1, Zenon
<1>13. BitsIn(d) = {}
  <2>1. ASSUME NEW i \in KEY_END .. KEY_ACCOUNT_LEN - 1, NEW bit \in 0 .. 7
        PROVE  ~IsSet(d[i + 1], Mask(bit))
    BY <1>12, NoBitOfZero, Zenon
  <2>2. ASSUME NEW bit \in (KEY_END .. KEY_ACCOUNT_LEN - 1) \X (0 .. 7)
        PROVE  ~IsSet(d[bit[1] + 1], Mask(bit[2]))
    <3>1. bit[1] \in KEY_END .. KEY_ACCOUNT_LEN - 1 /\ bit[2] \in 0 .. 7
      OBVIOUS
    <3> QED
      BY <2>1, <3>1, Zenon
  <2> QED
    BY <2>2, Zenon DEF BitsIn
<1>14. d = <<tag + 1>> \o key \o Zeros(KEY_ACCOUNT_LEN - KEY_END)
  BY <1>5 DEF h, n, z, Concat
<1> QED
  BY <1>1, <1>7, <1>9, <1>10, <1>13, <1>14, Zenon

\* Two byte strings that differ in the byte k only, where the second has v.
SameBut(d, e, k, v) == e[k] = v /\ \A j \in 1 .. Len(d) : j # k => e[j] = d[j]

\* A byte string in which one byte is replaced.
Replaced(d, k, v) == [d EXCEPT ![k] = v]

LEMMA ReplacedByte ==
  ASSUME NEW d \in Seq(Byte), NEW k \in 1 .. Len(d), NEW v \in Byte, NEW e, e = Replaced(d, k, v)
  PROVE  e \in Seq(Byte) /\ Len(e) = Len(d) /\ SameBut(d, e, k, v)
BY DEF SameBut, Replaced

\* Two byte strings that differ in one bit, which the second has, and not before the bitmap.
DiffersInBit(d, e, i, m) ==
  /\ e[1] = d[1]
  /\ \A a \in {0, 1} : Slice(e, a, KEY_END) = Slice(d, a, KEY_END)
  /\ BitsIn(e) = BitsIn(d) \cup {<<i, m>>}
  /\ IsSet(e[i + 1], Mask(m))

\* What a bit set in the byte i changes: this bit, and nothing before the bitmap.
LEMMA ChangedBit ==
  ASSUME NEW d \in Seq(Byte), NEW e \in Seq(Byte), Len(d) = KEY_ACCOUNT_LEN,
         Len(e) = KEY_ACCOUNT_LEN, NEW i \in KEY_END .. KEY_ACCOUNT_LEN - 1, NEW m \in 0 .. 7,
         NEW k, k = i + 1, ~IsSet(d[k], Mask(m)), NEW v, v = d[k] + Mask(m), SameBut(d, e, k, v)
  PROVE  DiffersInBit(d, e, i, m)
<1> DEFINE places == KEY_END .. KEY_ACCOUNT_LEN - 1
           all == places \X (0 .. 7)
<1>1. k \in 1 .. Len(d) /\ 1 \in 1 .. KEY_END
  BY OffsetsOrder
<1>2. d[k] \in 0 .. 255
  BY <1>1, ByteAt
<1>3. \A bit \in 0 .. 7 : IsSet(v, Mask(bit)) <=> bit = m \/ IsSet(d[k], Mask(bit))
  BY <1>2, SetBit, Zenon
<1>4. e[k] = v
  BY DEF SameBut
<1>5. \A j \in 1 .. Len(d) : j # k => e[j] = d[j]
  BY DEF SameBut
<1>6. ASSUME NEW j \in 1 .. KEY_END PROVE e[j] = d[j]
  <2>1. j \in 1 .. Len(d) /\ j # k
    BY OffsetsOrder
  <2> QED
    BY <1>5, <2>1, Zenon
<1>7. ASSUME NEW a \in {0, 1} PROVE Slice(e, a, KEY_END) = Slice(d, a, KEY_END)
  <2>1. a \in Nat /\ a <= KEY_END /\ KEY_END <= Len(e) /\ KEY_END <= Len(d)
    BY OffsetsOrder
  <2>2. d \in Seq(Nat) /\ e \in Seq(Nat) /\ KEY_END \in Nat
    BY BytesAreNumbers, OffsetsOrder
  <2> QED
    BY <1>6, <2>1, <2>2, EqualSlices
<1>8. ASSUME NEW j \in places, NEW bit \in 0 .. 7
      PROVE  IsSet(e[j + 1], Mask(bit)) <=> IsSet(d[j + 1], Mask(bit)) \/ (j = i /\ bit = m)
  <2>1. CASE j = i
    BY <1>3, <1>4, <2>1, Zenon
  <2>2. CASE j # i
    <3>1. j + 1 \in 1 .. Len(d) /\ j + 1 # k
      BY <2>2, OffsetsOrder
    <3>2. e[j + 1] = d[j + 1]
      BY <1>5, <3>1, Zenon
    <3> QED
      BY <2>2, <3>2, Zenon
  <2> QED
    BY <2>1, <2>2
<1>9. /\ \A bit \in all : bit[1] \in places /\ bit[2] \in 0 .. 7 /\ bit[1] < KEY_ACCOUNT_LEN
      /\ \A bit \in all : bit = <<i, m>> <=> bit[1] = i /\ bit[2] = m
      /\ <<i, m>> \in all
  BY OffsetsOrder
<1> HIDE DEF places, all
<1>10. /\ BitsIn(e) = {bit \in all : IsSet(e[bit[1] + 1], Mask(bit[2]))}
       /\ BitsIn(d) = {bit \in all : IsSet(d[bit[1] + 1], Mask(bit[2]))}
  <2>1. /\ BitsIn(e) = {bit \in all : bit[1] < KEY_ACCOUNT_LEN /\ IsSet(e[bit[1] + 1], Mask(bit[2]))}
        /\ BitsIn(d) = {bit \in all : bit[1] < KEY_ACCOUNT_LEN /\ IsSet(d[bit[1] + 1], Mask(bit[2]))}
    BY DEF BitsIn, all, places
  <2> QED
    BY <1>9, <2>1, Zenon
<1>11. ASSUME NEW bit \in all
       PROVE  IsSet(e[bit[1] + 1], Mask(bit[2])) <=> IsSet(d[bit[1] + 1], Mask(bit[2])) \/ bit = <<i, m>>
  BY <1>8, <1>9, Zenon
<1>12. BitsIn(e) = BitsIn(d) \cup {<<i, m>>}
  <2> DEFINE E(bit) == IsSet(e[bit[1] + 1], Mask(bit[2]))
             D(bit) == IsSet(d[bit[1] + 1], Mask(bit[2]))
  <2>1. \A bit \in all : E(bit) <=> D(bit) \/ bit = <<i, m>>
    BY <1>11
  <2>2. BitsIn(e) = {bit \in all : E(bit)} /\ BitsIn(d) = {bit \in all : D(bit)}
    BY <1>10, Zenon
  <2> HIDE DEF E, D
  <2> QED
    BY <1>9, <2>1, <2>2
<1>13. IsSet(e[k], Mask(m))
  BY <1>3, <1>4
<1>14. e[1] = d[1]
  BY <1>1, <1>6
<1> QED
  BY <1>7, <1>12, <1>13, <1>14, Zenon DEF DiffersInBit

\* The data after the leaf's bit is set.
Marked(d, leaf) == [d EXCEPT ![ByteOf(leaf) + 1] = @ + MaskOf(leaf)]

\* Where the bit of a leaf is.
LEMMA LeafBitIsInside ==
  ASSUME NEW leaf \in Nat, ByteOf(leaf) < KEY_ACCOUNT_LEN
  PROVE  ByteOf(leaf) \in KEY_END .. KEY_ACCOUNT_LEN - 1 /\ leaf % 8 \in 0 .. 7
<1>1. leaf \div 8 \in Nat /\ leaf % 8 \in 0 .. 7
  OBVIOUS
<1> QED
  BY <1>1, OffsetsOrder DEF ByteOf

\* What marking a leaf changes.
LEMMA MarkedData ==
  ASSUME NEW d \in Seq(Byte), Len(d) = KEY_ACCOUNT_LEN, NEW leaf \in Nat,
         ByteOf(leaf) < Len(d), ~IsSet(d[ByteOf(leaf) + 1], MaskOf(leaf)), NEW e,
         e = Marked(d, leaf)
  PROVE  /\ e \in Seq(Byte) /\ Len(e) = KEY_ACCOUNT_LEN
         /\ e[1] = d[1]
         /\ Slice(e, 0, KEY_END) = Slice(d, 0, KEY_END)
         /\ Slice(e, 1, KEY_END) = Slice(d, 1, KEY_END)
         /\ BitsIn(e) = BitsIn(d) \cup {LeafBit(leaf)}
         /\ IsSet(e[ByteOf(leaf) + 1], MaskOf(leaf))
<1> DEFINE i == ByteOf(leaf)
           m == leaf % 8
           k == i + 1
           v == d[k] + Mask(m)
<1>1. i \in KEY_END .. KEY_ACCOUNT_LEN - 1 /\ m \in 0 .. 7
  BY LeafBitIsInside
<1>2. MaskOf(leaf) = Mask(m) /\ ~IsSet(d[k], Mask(m))
  BY DEF MaskOf
<1>3. e = Replaced(d, k, v)
  BY <1>2 DEF Marked, Replaced
<1> HIDE DEF i, m
<1>4. k \in 1 .. Len(d) /\ k = i + 1
  BY <1>1, OffsetsOrder
<1> HIDE DEF k
<1>5. d[k] \in 0 .. 255
  BY <1>4, ByteAt
<1>6. v \in Byte /\ v = d[k] + Mask(m)
  <2>1. v \in 0 .. 255
    BY <1>1, <1>2, <1>5, SetBit, Zenon
  <2> QED
    BY <2>1, Offsets
<1> HIDE DEF v
<1>7. e \in Seq(Byte) /\ Len(e) = Len(d) /\ SameBut(d, e, k, v)
  BY <1>3, <1>4, <1>6, ReplacedByte
<1>8. DiffersInBit(d, e, i, m)
  BY <1>1, <1>2, <1>4, <1>6, <1>7, ChangedBit
<1> QED
  BY <1>2, <1>7, <1>8 DEF i, m, LeafBit, DiffersInBit

\* A leaf's bit is in the bitmap exactly if the code finds it there.
LEMMA LeafBitIsSet ==
  ASSUME NEW d \in Seq(Byte), Len(d) = KEY_ACCOUNT_LEN, NEW leaf \in Nat, ByteOf(leaf) < Len(d)
  PROVE  LeafBit(leaf) \in BitsIn(d) <=> IsSet(d[ByteOf(leaf) + 1], MaskOf(leaf))
<1>1. ByteOf(leaf) \in KEY_END .. KEY_ACCOUNT_LEN - 1 /\ leaf % 8 \in 0 .. 7
  BY LeafBitIsInside
<1> QED
  BY <1>1 DEF BitsIn, LeafBit, MaskOf

\* The data up to the bitmap is the tag and the key.
LEMMA TagAndKey ==
  ASSUME NEW d \in Seq(Byte), Len(d) = KEY_ACCOUNT_LEN
  PROVE  /\ d[1] \in Byte
         /\ Slice(d, 1, KEY_END) \in Seq(Nat) /\ DecodesKey(Slice(d, 1, KEY_END))
         /\ Slice(d, 0, KEY_END) = <<d[1]>> \o Slice(d, 1, KEY_END)
<1> DEFINE z == 0
           o == 1
<1>1. /\ z \in Nat /\ o \in Nat /\ KEY_END \in Nat /\ z <= o /\ o <= KEY_END /\ o <= Len(d)
      /\ KEY_END <= Len(d) /\ d \in Seq(Nat)
  BY OffsetsOrder, BytesAreNumbers
<1>2. d[1] \in Byte
  BY OffsetsOrder
<1>3. Slice(d, z, o) = <<d[1]>>
  <2> DEFINE u == Slice(d, z, o)
             v == <<d[1]>>
  <2>1. u \in Seq(Nat) /\ Len(u) = o - z /\ \A i \in 1 .. o - z : u[i] = d[z + i]
    BY <1>1, SliceFacts
  <2>2. v \in Seq(Nat) /\ Len(v) = 1 /\ v[1] = d[1]
    BY <1>1, OffsetsOrder
  <2> HIDE DEF u, v
  <2>3. Len(u) = Len(v) /\ \A i \in 1 .. Len(u) : u[i] = v[i]
    BY <2>1, <2>2
  <2>4. u = v
    BY <2>1, <2>2, <2>3, SeqEqual, Zenon
  <2> QED
    BY <2>4 DEF u, v
<1>4. KEY_END - o = PUBLIC_KEY_LEN
  BY OffsetsOrder
<1> HIDE DEF z, o
<1>5. Slice(d, z, KEY_END) = Slice(d, z, o) \o Slice(d, o, KEY_END)
  BY <1>1, SliceCut
<1>6. Slice(d, o, KEY_END) \in Seq(Nat) /\ Len(Slice(d, o, KEY_END)) = KEY_END - o
  BY <1>1, SliceFacts
<1> QED
  BY <1>2, <1>3, <1>4, <1>5, <1>6 DEF DecodesKey, z, o

-----------------------------------------------------------------------------
(* What instructions do *)

\* Arguments are the digest and the signature behind it.
LEMMA DigestAndSignature ==
  ASSUME NEW args \in Seq(Byte), Len(args) >= MESSAGE_LEN
  PROVE  /\ args = Slice(args, 0, MESSAGE_LEN) \o Slice(args, MESSAGE_LEN, Len(args))
         /\ Slice(args, 0, MESSAGE_LEN) \in Seq(Byte)
         /\ Slice(args, MESSAGE_LEN, Len(args)) \in Seq(Byte)
<1> DEFINE z == 0
           m == MESSAGE_LEN
           n == Len(args)
<1>1. /\ z \in Nat /\ m \in Nat /\ n \in Nat /\ z <= m /\ m <= n /\ n <= Len(args)
      /\ z <= n /\ args \in Seq(Nat) /\ Len(args) = n
  BY SizesOK, BytesAreNumbers
<1>2. Slice(args, z, m) \in Seq(Byte) /\ Slice(args, m, n) \in Seq(Byte)
  BY <1>1 DEF Slice
<1> HIDE DEF z, m, n
<1>3. Slice(args, z, n) = Slice(args, z, m) \o Slice(args, m, n)
  BY <1>1, SliceCut
<1>4. Slice(args, 0, n) = args
  BY <1>1, WholeSlice
<1> QED
  BY <1>2, <1>3, <1>4 DEF z, m, n

\* s is a signature of the digest by the key, and the instruction carries it.
Carries(bytes, s, k, key) ==
  /\ s.kind = k /\ s.key = key
  /\ s.kind = "xmss" => s.leaf < LEAVES
  /\ bytes = <<2>> \o s.digest \o Wire(s)

\* The data of an instruction that carries these arguments to verify.
ToVerify(args) == <<2>> \o args

WasSigned(bytes, k, key, leaf) ==
  \E s \in Signatures : Carries(bytes, s, k, key) /\ s.leaf = leaf

\* What verifies was signed, and the instruction has it to the last byte.
LEMMA VerifiedWasSigned ==
  ASSUME NEW k \in Instances, NEW key \in Seq(Nat), DecodesKey(key),
         NEW digest \in Seq(Byte), NEW signature \in Seq(Byte),
         DecodesSignature(k, signature), Verify(k, key, digest, signature),
         NEW bytes, bytes = ToVerify(digest \o signature)
  PROVE  WasSigned(bytes, k, key, Leaf(k, signature))
<1> DEFINE leaf == Leaf(k, signature)
           salt == Salt(k, signature)
           elements == Elements(k, signature)
           path == Path(k, signature)
<1>1. /\ k = "xmss" => leaf < LEAVES
      /\ Closes(k, Node(key), Parameter(key), leaf, salt, elements, path, digest)
  BY DEF Verify
<1>2. NewKey(Node(key), Parameter(key)) = key
  BY KeyOfParts
<1>3. NewSignature(k, leaf, salt, elements, path) = signature
  BY SignatureOfParts
<1> HIDE DEF leaf, salt, elements, path
<1>4. PICK s \in Signatures :
        /\ s.kind = k /\ s.key = key /\ s.leaf = leaf /\ s.digest = digest
        /\ s.salt = salt /\ s.elements = elements /\ s.path = path
  BY <1>1, <1>2, Zenon DEF Closes
<1>5. Wire(s) = signature
  BY <1>3, <1>4, Zenon DEF Wire
<1>6. bytes = (<<2>> \o digest) \o signature
  <2>1. <<2>> \in Seq(Nat) /\ digest \in Seq(Nat) /\ signature \in Seq(Nat)
    BY BytesAreNumbers
  <2>2. (<<2>> \o digest) \o signature = <<2>> \o (digest \o signature)
    BY <2>1, ConcatAssociative
  <2> QED
    BY <2>2, Zenon DEF ToVerify
<1>7. bytes = <<2>> \o s.digest \o Wire(s)
  BY <1>4, <1>5, <1>6, Zenon
<1>8. Carries(bytes, s, k, key)
  BY <1>1, <1>4, <1>7, Zenon DEF Carries
<1> QED
  BY <1>4, <1>8, Zenon DEF leaf, WasSigned

\* The instance of the account's tag.
KindOf(tag) == IF tag = 1 THEN "winternitz" ELSE "xmss"

\* What is refused, and why.
Refused(writable) ==
  \/ owner # "program" /\ Refuse("IncorrectProgramId")
  \/ owner = "program" /\ ~Ours(writable) /\ Refuse("InvalidAccountData")
  \/ Ours(TRUE) /\ Refuse("InvalidInstructionData")
  \/ Ours(TRUE) /\ Refuse("MissingRequiredSignature")
  \/ Ours(TRUE) /\ data[1] # 0 /\ Refuse("AccountAlreadyInitialized")
  \/ Ours(TRUE) /\ data[1] = 0 /\ Refuse("UninitializedAccount")
  \/ Ours(TRUE) /\ data[1] # 0 /\ Refuse("InvalidSignature")

\* A key is registered.
Registers(bytes, tag, key) ==
  /\ Ours(TRUE) /\ data[1] = 0
  /\ DecodesKey(key) /\ key \in Seq(Byte)
  /\ bytes = <<tag>> \o key
  /\ data' = Created(tag, key)
  /\ result' = "Ok"
  /\ UNCHANGED <<owner, accepted>>

\* A signature verifies.
Verifies(bytes, s) ==
  /\ Ours(TRUE) /\ data[1] # 0
  /\ Carries(bytes, s, KindOf(data[1]), Slice(data, 1, KEY_END))
  /\ UseLeaf(s.leaf)

\* An instruction is refused, or registers a key, or has a signature that verifies.
LEMMA Outcomes ==
  ASSUME data \in Seq(Byte) \/ owner # "program",
         NEW writable \in BOOLEAN, NEW signer \in BOOLEAN, NEW bytes \in Instructions,
         ProcessInstruction(writable, signer, bytes)
  PROVE  /\ input' = bytes
         /\ \/ Refused(writable)
            \/ \E tag \in {0, 1}, key \in Keys : Registers(bytes, tag, key)
            \/ \E s \in Signatures : Verifies(bytes, s)
<1> DEFINE Goal == \/ Refused(writable)
                   \/ \E tag \in {0, 1}, key \in Keys : Registers(bytes, tag, key)
                   \/ \E s \in Signatures : Verifies(bytes, s)
<1>1. input' = bytes
  BY DEF ProcessInstruction
<1> SUFFICES Goal
  BY <1>1, Zenon
<1>0. PICK d : d = data
  OBVIOUS
<1>2. CASE owner # "program" /\ Refuse("IncorrectProgramId")
  BY <1>2 DEF Refused
<1>3. CASE owner = "program" /\ ~Ours(writable) /\ Refuse("InvalidAccountData")
  BY <1>3 DEF Refused
<1>4. CASE Ours(writable) /\ bytes = <<>> /\ Refuse("InvalidInstructionData")
  BY <1>4 DEF Refused, Ours
<1>5. CASE Ours(writable) /\ bytes # <<>> /\ bytes[1] > 2 /\ Refuse("InvalidInstructionData")
  BY <1>5 DEF Refused, Ours
<1>6. bytes \in Seq(Byte) /\ (bytes # <<>> => bytes[1] \in Byte /\ Tail(bytes) \in Seq(Byte)
                                               /\ bytes = <<bytes[1]>> \o Tail(bytes))
  BY AccountBytesOK, HeadAndTail DEF AccountBytesOK
<1>7. CASE Ours(writable) /\ bytes # <<>> /\ bytes[1] < 2 /\ Create(signer, bytes[1], Tail(bytes))
  <2> DEFINE tag == bytes[1]
             key == Tail(bytes)
  <2>1. /\ tag \in {0, 1} /\ key \in Seq(Byte) /\ bytes = <<tag>> \o key /\ Ours(TRUE)
        /\ DecodesKey(key) => key \in Keys
    <3>1. tag \in {0, 1}
      <4>1. tag \in Byte /\ tag < 2
        BY <1>6, <1>7
      <4> HIDE DEF tag
      <4> QED
        BY <4>1, Offsets
    <3>2. DecodesKey(key) => key \in Keys
      BY <1>7, AccountBytesOK, Zenon DEF AccountBytesOK
    <3>3. Ours(TRUE)
      BY <1>7 DEF Ours
    <3> QED
      BY <1>6, <1>7, <3>1, <3>2, <3>3, Zenon
  <2>2. Create(signer, tag, key)
    BY <1>7
  <2> HIDE DEF tag, key
  <2>3. CASE ~signer /\ Refuse("MissingRequiredSignature")
    BY <2>1, <2>3 DEF Refused
  <2>4. CASE signer /\ ~DecodesKey(key) /\ Refuse("InvalidInstructionData")
    BY <2>1, <2>4 DEF Refused
  <2>5. CASE signer /\ DecodesKey(key) /\ data[1] # 0 /\ Refuse("AccountAlreadyInitialized")
    BY <2>1, <2>5 DEF Refused
  <2>6. CASE /\ signer /\ DecodesKey(key) /\ data[1] = 0
             /\ data' = <<tag + 1>> \o Slice(key, 0, PUBLIC_KEY_LEN) \o Zeros(KEY_ACCOUNT_LEN - KEY_END)
             /\ result' = "Ok" /\ UNCHANGED <<owner, accepted>>
    <3>1. Registers(bytes, tag, key)
      BY <2>1, <2>6, Zenon DEF Registers, Created
    <3> QED
      BY <2>1, <2>6, <3>1, Zenon
  <2> HIDE DEF Goal
  <2> QED
    BY <2>2, <2>3, <2>4, <2>5, <2>6, Zenon DEF Create
<1>8. CASE Ours(writable) /\ bytes # <<>> /\ bytes[1] = 2 /\ VerifyInstruction(Tail(bytes))
  <2> DEFINE args == Tail(bytes)
             digest == Slice(args, 0, MESSAGE_LEN)
             signature == Slice(args, MESSAGE_LEN, Len(args))
             kind == KindOf(d[1])
             key == Slice(d, 1, KEY_END)
  <2>1. /\ args \in Seq(Byte) /\ bytes = <<2>> \o args /\ Ours(TRUE)
        /\ VerifyInstruction(args)
    BY <1>6, <1>8 DEF Ours
  <2> HIDE DEF args
  <2>2. CASE Refuse("InvalidInstructionData")
    BY <2>1, <2>2 DEF Refused
  <2>3. CASE data[1] = 0 /\ Refuse("UninitializedAccount")
    BY <2>1, <2>3 DEF Refused
  <2>4. CASE data[1] # 0 /\ Refuse("InvalidSignature")
    BY <2>1, <2>4 DEF Refused
  <2>5. CASE /\ Len(args) >= MESSAGE_LEN /\ data[1] # 0
             /\ DecodesSignature(kind, signature)
             /\ Verify(kind, key, digest, signature)
             /\ UseLeaf(Leaf(kind, signature))
    <3>1. d \in Seq(Byte) /\ Len(d) = KEY_ACCOUNT_LEN
      BY <1>0, <2>1 DEF Ours
    <3>2. key \in Seq(Nat) /\ DecodesKey(key)
      BY <3>1, TagAndKey
    <3>3. /\ digest \in Seq(Byte) /\ signature \in Seq(Byte)
          /\ bytes = ToVerify(digest \o signature)
      BY <2>1, <2>5, DigestAndSignature DEF ToVerify
    <3>4. kind \in Instances
      BY DEF KindOf, Instances
    <3> HIDE DEF kind, key, digest, signature
    <3>5. DecodesSignature(kind, signature) /\ Verify(kind, key, digest, signature)
      BY <2>5
    <3>6. WasSigned(bytes, kind, key, Leaf(kind, signature))
      BY <3>2, <3>3, <3>4, <3>5, VerifiedWasSigned
    <3>7. PICK s \in Signatures : Carries(bytes, s, kind, key) /\ s.leaf = Leaf(kind, signature)
      BY <3>6, Zenon DEF WasSigned
    <3>8. Verifies(bytes, s)
      BY <1>0, <2>1, <2>5, <3>7, Zenon DEF Verifies, kind, key
    <3> QED
      BY <3>8, Zenon
  <2>6. \/ Refuse("InvalidInstructionData")
        \/ data[1] = 0 /\ Refuse("UninitializedAccount")
        \/ data[1] # 0 /\ Refuse("InvalidSignature")
        \/ /\ Len(args) >= MESSAGE_LEN /\ data[1] # 0
           /\ DecodesSignature(kind, signature)
           /\ Verify(kind, key, digest, signature)
           /\ UseLeaf(Leaf(kind, signature))
    BY <1>0, <2>1, Zenon DEF VerifyInstruction, VerifySignature, KindOf
  <2> HIDE DEF Goal
  <2> QED
    BY <2>2, <2>3, <2>4, <2>5, <2>6, Zenon
<1> HIDE DEF Goal
<1>9. Goal
  BY <1>2, <1>3, <1>4, <1>5, <1>7, <1>8, Zenon DEF ProcessInstruction
<1> QED
  BY <1>1, <1>9, Zenon DEF Goal

-----------------------------------------------------------------------------
(* The account *)

\* The account is allocated at most once, its tag is one of three, and a registered
\* account is of the right length and has one of the keys.
AccountOK(o, d) ==
  /\ o \in {"system", "program"}
  /\ o = "system" => d = <<>>
  /\ o = "program" => d \in Seq(Byte) /\ Len(d) \in Lengths /\ d[1] \in 0 .. 2
  /\ o = "program" /\ d[1] # 0 => Len(d) = KEY_ACCOUNT_LEN /\ Slice(d, 1, KEY_END) \in Keys

\* No instruction succeeds before the account is allocated.
BytesInv ==
  /\ AccountOK(owner, data)
  /\ owner = "system" /\ result = "Ok" => input = <<>>
  /\ ExactInstructions

LEMMA BytesInit == ASSUME Init PROVE BytesInv
BY DEF Init, BytesInv, AccountOK, ExactInstructions

LEMMA AllocateKeeps ==
  ASSUME BytesInv, NEW length \in Lengths, Allocate(length)
  PROVE  BytesInv'
<1>1. owner = "system" /\ owner' = "program" /\ data' = Zeros(length) /\ UNCHANGED <<input, result>>
  BY DEF Allocate
<1>2. length \in Nat /\ 1 \in 1 .. length
  BY Offsets
<1>3. data' \in Seq(Byte) /\ Len(data') \in Lengths /\ data'[1] = 0
  BY <1>1, <1>2, ZerosFacts
<1>4. AccountOK(owner, data)'
  BY <1>1, <1>3 DEF AccountOK
<1>5. result = "Ok" => input = <<>>
  BY <1>1 DEF BytesInv
<1> QED
  BY <1>1, <1>4, <1>5 DEF BytesInv, ExactInstructions

\* A refusal leaves the account as it is.
LEMMA RefusalKeeps ==
  ASSUME BytesInv, NEW error, error # "Ok", Refuse(error)
  PROVE  BytesInv'
BY DEF BytesInv, Refuse, AccountOK, ExactInstructions

LEMMA RegistrationKeeps ==
  ASSUME BytesInv, NEW tag \in {0, 1}, NEW key \in Keys, Registers(input', tag, key)
  PROVE  BytesInv'
<1>1. PICK e : e = data'
  OBVIOUS
<1>2. /\ owner = "program" /\ owner' = owner /\ e = Created(tag, key) /\ key \in Seq(Byte)
      /\ DecodesKey(key) /\ input' = <<tag>> \o key
  BY <1>1 DEF Registers, Ours
<1>3. /\ e \in Seq(Byte) /\ Len(e) = KEY_ACCOUNT_LEN
      /\ e[1] = tag + 1
      /\ Slice(e, 1, KEY_END) = key
      /\ e = <<tag + 1>> \o key \o Zeros(KEY_ACCOUNT_LEN - KEY_END)
  BY <1>2, CreatedData
<1>4. KEY_ACCOUNT_LEN \in Lengths /\ tag + 1 \in 0 .. 2
  BY Offsets
<1>5. AccountOK(owner, data)'
  BY <1>1, <1>2, <1>3, <1>4, Zenon DEF AccountOK
<1>6. ExactInstructions'
  BY <1>1, <1>2, <1>3, Zenon DEF ExactInstructions
<1> QED
  BY <1>2, <1>5, <1>6 DEF BytesInv

LEMMA VerificationKeeps ==
  ASSUME BytesInv, NEW s \in Signatures, Verifies(input', s)
  PROVE  BytesInv'
<1>1. PICK d, e, bytes : d = data /\ e = data' /\ bytes = input'
  OBVIOUS
<1>2. /\ owner = "program" /\ Len(d) = KEY_ACCOUNT_LEN /\ d[1] # 0
      /\ Carries(bytes, s, KindOf(d[1]), Slice(d, 1, KEY_END)) /\ UseLeaf(s.leaf)
  BY <1>1 DEF Verifies, Ours
<1>3. d \in Seq(Byte) /\ d[1] \in 0 .. 2 /\ Slice(d, 1, KEY_END) \in Keys /\ s.leaf \in Nat
  BY <1>1, <1>2, AccountBytesOK DEF BytesInv, AccountOK, AccountBytesOK
<1>4. CASE Refuse("Panic") \/ Refuse("LeafReused")
  BY <1>4, RefusalKeeps
<1>5. CASE /\ ByteOf(s.leaf) < Len(d)
           /\ ~IsSet(d[ByteOf(s.leaf) + 1], MaskOf(s.leaf))
           /\ e = Marked(d, s.leaf)
           /\ UNCHANGED owner
  <2>1. /\ e \in Seq(Byte) /\ Len(e) = KEY_ACCOUNT_LEN
        /\ e[1] = d[1]
        /\ Slice(e, 0, KEY_END) = Slice(d, 0, KEY_END)
        /\ Slice(e, 1, KEY_END) = Slice(d, 1, KEY_END)
        /\ IsSet(e[ByteOf(s.leaf) + 1], MaskOf(s.leaf))
    <3> DEFINE leaf == s.leaf
    <3>1. leaf \in Nat
      BY <1>3
    <3>2. /\ ByteOf(leaf) < Len(d) /\ ~IsSet(d[ByteOf(leaf) + 1], MaskOf(leaf))
          /\ e = Marked(d, leaf)
      BY <1>5
    <3> HIDE DEF leaf
    <3>3. /\ e \in Seq(Byte) /\ Len(e) = KEY_ACCOUNT_LEN
          /\ e[1] = d[1]
          /\ Slice(e, 0, KEY_END) = Slice(d, 0, KEY_END)
          /\ Slice(e, 1, KEY_END) = Slice(d, 1, KEY_END)
          /\ IsSet(e[ByteOf(leaf) + 1], MaskOf(leaf))
      BY <1>2, <1>3, <3>1, <3>2, MarkedData
    <3> QED
      BY <3>3 DEF leaf
  <2>2. KEY_ACCOUNT_LEN \in Lengths
    BY Offsets
  <2>3. AccountOK(owner, data)'
    BY <1>1, <1>2, <1>3, <1>5, <2>1, <2>2, Zenon DEF AccountOK
  <2>4. d[1] = IF s.kind = "winternitz" THEN 1 ELSE 2
    BY <1>2, <1>3 DEF Carries, KindOf
  <2>5. Slice(e, 0, KEY_END) = <<IF s.kind = "winternitz" THEN 1 ELSE 2>> \o s.key
    BY <1>2, <1>3, <2>1, <2>4, TagAndKey, Zenon DEF Carries
  <2>6. ExactInstructions'
    BY <1>1, <1>2, <2>1, <2>5, Zenon DEF ExactInstructions, Carries
  <2> QED
    BY <1>2, <1>5, <2>3, <2>6 DEF BytesInv
<1> QED
  BY <1>1, <1>2, <1>4, <1>5, Zenon DEF UseLeaf, Marked

LEMMA BytesStep == ASSUME BytesInv, [Next]_vars PROVE BytesInv'
<1>1. CASE UNCHANGED vars
  BY <1>1 DEF vars, BytesInv, AccountOK, ExactInstructions
<1>2. ASSUME NEW length \in Lengths, Allocate(length) PROVE BytesInv'
  BY <1>2, AllocateKeeps
<1>3. ASSUME NEW writable \in BOOLEAN, NEW signer \in BOOLEAN, NEW bytes \in Instructions,
             ProcessInstruction(writable, signer, bytes)
      PROVE  BytesInv'
  <2>1. data \in Seq(Byte) \/ owner # "program"
    BY DEF BytesInv, AccountOK
  <2>2. /\ input' = bytes
        /\ \/ Refused(writable)
           \/ \E tag \in {0, 1}, key \in Keys : Registers(bytes, tag, key)
           \/ \E s \in Signatures : Verifies(bytes, s)
    BY <1>3, <2>1, Outcomes
  <2>3. CASE Refused(writable)
    BY <2>3, RefusalKeeps DEF Refused
  <2>4. CASE \E tag \in {0, 1}, key \in Keys : Registers(bytes, tag, key)
    BY <2>2, <2>4, RegistrationKeeps
  <2>5. CASE \E s \in Signatures : Verifies(bytes, s)
    BY <2>2, <2>5, VerificationKeeps
  <2> QED
    BY <2>2, <2>3, <2>4, <2>5
<1>4. ASSUME NoAccount PROVE BytesInv'
  BY <1>4, RefusalKeeps DEF NoAccount
<1> QED
  BY <1>1, <1>2, <1>3, <1>4 DEF Next

\* What is allocated to the program has one of three tags; once registered it has the
\* right length and one of the keys.
THEOREM BytesInvariant == Spec => []BytesInv
BY BytesInit, BytesStep, PTL DEF Spec

\* An instruction succeeds only if its bytes are, from the first to the last, those of a
\* creation or of a signature by the account's key.
THEOREM OnlyExactInstructions == Spec => []ExactInstructions
<1>1. BytesInv => ExactInstructions
  BY DEF BytesInv
<1> QED
  BY <1>1, BytesInvariant, PTL

-----------------------------------------------------------------------------
(* The refinement of KeyAccount *)

\* What KeyAccount sees of the account's bytes.
TagIn(d) == IF d = <<>> THEN 0 ELSE d[1]
KeyIn(d) == IF TagIn(d) = 0 THEN Malformed ELSE Slice(d, 1, KEY_END)

\* KeyAccount's state of the one account.
LEMMA View ==
  /\ Tag = TagIn(data) /\ UsedBits = BitsIn(data)
  /\ Tag' = TagIn(data') /\ UsedBits' = BitsIn(data')
BY DEF Tag, TagIn, UsedBits, BitsIn

\* A function of one account has one value.
At(x) == [a \in {Address} |-> x]
LEMMA OneAccount == \A x, y : At(x)[Address] = x /\ [At(x) EXCEPT ![Address] = y] = At(y)
BY DEF At

\* KeyAccount has the offsets of the code.
LEMMA SameOffsets ==
  /\ Abstract!KEY_END = KEY_END /\ Abstract!KEY_ACCOUNT_LEN = KEY_ACCOUNT_LEN
  /\ Abstract!Lengths = Lengths /\ Abstract!XMSS_LEAVES = LEAVES
BY Offsets DEF Abstract!KEY_END, Abstract!KEY_ACCOUNT_LEN, Abstract!PUBLIC_KEY_LEN,
               Abstract!Lengths, Abstract!XMSS_LEAVES

\* Instructions carry the leaves of the signatures.
LEMMA SubmittedLeaves ==
  {t.leaf : t \in {Submission(s) : s \in Signatures}} = {s.leaf : s \in Signatures}
<1>1. ASSUME NEW s \in Signatures PROVE Submission(s).leaf = s.leaf
  BY DEF Submission
<1> QED
  BY <1>1

LEMMA RefinementInit == ASSUME Init PROVE Abstract!Init
<1>1. owner = "system" /\ data = <<>> /\ accepted = [leaf \in Leaves |-> 0] /\ result = "Ok"
  BY DEF Init
<1>2. Tag = 0 /\ UsedBits = {} /\ Len(data) = 0
  BY <1>1, OffsetsOrder DEF Tag, UsedBits
<1>3. Abstract!Leaves = Leaves
  BY SubmittedLeaves DEF Abstract!Leaves, Leaves
<1> QED
  BY <1>1, <1>2, <1>3 DEF Abstract!Init

\* The account is the program's and has its length, here and there.
LEMMA SameAccount ==
  ASSUME NEW writable
  PROVE  Ours(writable) <=> Abstract!Ours(Address, writable)
BY SameOffsets DEF Ours, Abstract!Ours

LEMMA SameRefusal == ASSUME NEW error, Refuse(error) PROVE Abstract!Refuse(error)
<1>1. result' = error /\ UNCHANGED <<owner, data, accepted>>
  BY DEF Refuse
<1>2. UNCHANGED <<Tag, UsedBits>>
  BY <1>1, View
<1> QED
  BY <1>1, <1>2 DEF Abstract!Refuse, Abstract!accountVars

LEMMA SameAllocation ==
  ASSUME BytesInv, NEW length \in Lengths, Allocate(length)
  PROVE  Abstract!Allocate(Address, length)
<1>1. owner = "system" /\ owner' = "program" /\ data = <<>> /\ data' = Zeros(length)
  BY DEF Allocate, BytesInv, AccountOK
<1>2. UNCHANGED <<accepted, result>>
  BY DEF Allocate
<1>3. length \in Nat /\ 1 \in 1 .. length /\ length # 0
  BY Offsets
<1>4. data' \in Seq(Byte) /\ Len(data') = length /\ \A i \in 1 .. length : data'[i] = 0
  BY <1>1, <1>3, ZerosFacts
<1>5. Tag = 0 /\ Tag' = 0 /\ Len(data) = 0
  BY <1>1, <1>3, <1>4 DEF Tag
<1>6. UsedBits = {}
  BY <1>1, OffsetsOrder DEF UsedBits
<1>7. UsedBits' = {}
  <2>1. PICK d : d = data'
    OBVIOUS
  <2>2. ASSUME NEW bit \in (KEY_END .. KEY_ACCOUNT_LEN - 1) \X (0 .. 7), bit[1] < Len(d)
        PROVE  ~IsSet(d[bit[1] + 1], Mask(bit[2]))
    <3>1. bit[1] + 1 \in 1 .. length /\ bit[2] \in 0 .. 7
      BY <1>3, <1>4, <2>1, <2>2, OffsetsOrder
    <3>2. d[bit[1] + 1] = 0
      BY <1>4, <2>1, <3>1, Zenon
    <3> QED
      BY <3>1, <3>2, NoBitOfZero, Zenon
  <2>3. BitsIn(d) = {}
    BY <2>2, Zenon DEF BitsIn
  <2> QED
    BY <2>1, <2>3, View
<1>8. Len(data') = length
  BY <1>4
<1> QED
  BY <1>1, <1>2, <1>5, <1>6, <1>7, <1>8, OneAccount, Zenon DEF At, Abstract!Allocate

\* A refusal is one of KeyAccount's, for the same reason.  Any digest and signature do
\* where the code has looked at neither.
LEMMA SameReason ==
  ASSUME BytesInv, NEW writable \in BOOLEAN, Refused(writable)
  PROVE  Abstract!Next
<1> DEFINE a == Address
<1>1. a \in {Address} /\ 0 \in {0, 1} /\ TRUE \in BOOLEAN /\ FALSE \in BOOLEAN
  OBVIOUS
<1>2. PICK d \in Digests, e \in Digests : d # e
  BY AccountBytesOK DEF AccountBytesOK
<1>3. Malformed \notin Keys /\ Malformed \notin Digests
  BY AccountBytesOK DEF AccountBytesOK
<1>4. Ours(TRUE) => owner = "program" /\ Tag = data[1] /\ Tag \in 0 .. 2
  BY OffsetsOrder DEF Ours, Tag, BytesInv, AccountOK
<1>5. CASE owner # "program" /\ Refuse("IncorrectProgramId")
  <2>1. Abstract!WrongAccount(a, writable)
    BY <1>5, SameRefusal DEF Abstract!WrongAccount
  <2> QED
    BY <1>1, <2>1, Zenon DEF Abstract!Next
<1>6. CASE owner = "program" /\ ~Ours(writable) /\ Refuse("InvalidAccountData")
  <2>1. Abstract!WrongAccount(a, writable)
    BY <1>6, SameRefusal, SameAccount DEF Abstract!WrongAccount
  <2> QED
    BY <1>1, <2>1, Zenon DEF Abstract!Next
<1>7. CASE Ours(TRUE) /\ Refuse("InvalidInstructionData")
  <2>1. Abstract!UnknownInstruction(a)
    BY <1>7, SameRefusal, SameAccount DEF Abstract!UnknownInstruction
  <2> QED
    BY <1>1, <2>1, Zenon DEF Abstract!Next
<1>8. CASE Ours(TRUE) /\ Refuse("MissingRequiredSignature")
  <2>1. Abstract!Create(a, FALSE, 0, Malformed)
    BY <1>8, SameRefusal, SameAccount DEF Abstract!Create
  <2> QED
    BY <1>1, <2>1, Zenon DEF Abstract!Next
<1>9. CASE Ours(TRUE) /\ data[1] # 0 /\ Refuse("AccountAlreadyInitialized")
  <2>1. PICK key \in Keys : key # Malformed
    BY <1>3, <1>4, <1>9 DEF Ours, BytesInv, AccountOK
  <2>2. Abstract!Create(a, TRUE, 0, key)
    BY <1>4, <1>9, <2>1, SameRefusal, SameAccount DEF Abstract!Create, Abstract!Fresh
  <2> QED
    BY <1>1, <2>1, <2>2, Zenon DEF Abstract!Next
<1>10. CASE Ours(TRUE) /\ data[1] = 0 /\ Refuse("UninitializedAccount")
  <2>1. Abstract!VerifyRefused(a, d, Malformed)
    BY <1>2, <1>3, <1>4, <1>10, SameRefusal, SameAccount DEF Abstract!VerifyRefused
  <2> QED
    BY <1>1, <1>2, <2>1, Zenon DEF Abstract!Next
<1>11. CASE Ours(TRUE) /\ data[1] # 0 /\ Refuse("InvalidSignature")
  <2>1. PICK kind \in Instances : kind = KindOf(data[1])
    BY DEF KindOf, Instances
  <2>2. PICK s \in Signatures : s.kind = kind
    BY AccountBytesOK DEF AccountBytesOK
  <2>3. PICK other \in {d, e} : other # s.digest
    BY <1>2
  <2> DEFINE t == Submission(s)
  <2>4. t \in {Submission(u) : u \in Signatures} /\ t.kind = kind /\ t.digest = s.digest
    BY <2>2 DEF Submission
  <2> HIDE DEF t
  <2>5. Abstract!Decodes(a, t)
    BY <1>4, <1>11, <2>1, <2>4 DEF Abstract!Decodes, KindOf
  <2>6. \A k : ~Abstract!Verify(k, other, t)
    BY <2>3, <2>4 DEF Abstract!Verify
  <2>7. Abstract!VerifyRefused(a, other, t)
    BY <1>2, <1>3, <1>4, <1>11, <2>3, <2>5, <2>6, SameRefusal, SameAccount DEF Abstract!VerifyRefused
  <2> QED
    BY <1>1, <1>2, <2>3, <2>4, <2>7, Zenon DEF Abstract!Next
<1> QED
  BY <1>5, <1>6, <1>7, <1>8, <1>9, <1>10, <1>11, Zenon DEF Refused

\* A key registered in the bytes is one registered in KeyAccount.
LEMMA SameRegistration ==
  ASSUME BytesInv, NEW tag \in {0, 1}, NEW key \in Keys, NEW bytes, Registers(bytes, tag, key)
  PROVE  Abstract!Create(Address, TRUE, tag, key)
<1>1. PICK d, e : d = data /\ e = data'
  OBVIOUS
<1>2. /\ Ours(TRUE) /\ Len(d) = KEY_ACCOUNT_LEN /\ d[1] = 0 /\ e = Created(tag, key)
      /\ key \in Seq(Byte) /\ DecodesKey(key)
      /\ result' = "Ok" /\ UNCHANGED <<owner, accepted>>
  BY <1>1 DEF Registers, Ours
<1>3. /\ Len(e) = KEY_ACCOUNT_LEN /\ e[1] = tag + 1
      /\ Slice(e, 1, KEY_END) = key /\ BitsIn(e) = {}
  BY <1>2, CreatedData
<1>4. d # <<>> /\ e # <<>>
  BY <1>2, <1>3, OffsetsOrder
<1>5. Tag = 0 /\ Tag' = tag + 1 /\ UsedBits' = {}
  BY <1>1, <1>2, <1>3, <1>4, View DEF TagIn
<1>6. tag + 1 # 0
  OBVIOUS
<1>7. (IF Tag' = 0 THEN Malformed ELSE Slice(data', 1, KEY_END)) = key
  BY <1>1, <1>3, <1>5, <1>6, Zenon
<1>8. Len(data') = Len(data)
  BY <1>1, <1>2, <1>3
<1>9. key # Malformed
  BY AccountBytesOK DEF AccountBytesOK
<1>10. Abstract!Ours(Address, TRUE)
  BY <1>2, SameAccount
<1>11. Abstract!Fresh(Address, tag)
  BY <1>5 DEF Abstract!Fresh
<1>12. /\ At(Tag') = [At(Tag) EXCEPT ![Address] = tag + 1]
       /\ At(IF Tag' = 0 THEN Malformed ELSE Slice(data', 1, KEY_END))
            = [At(IF Tag = 0 THEN Malformed ELSE Slice(data, 1, KEY_END)) EXCEPT ![Address] = key]
       /\ At(UsedBits') = [At(UsedBits) EXCEPT ![Address] = {}]
  BY <1>5, <1>7, OneAccount, Zenon
<1> QED
  BY <1>2, <1>8, <1>9, <1>10, <1>11, <1>12, Zenon DEF At, Abstract!Create

\* A signature that verifies on the bytes is genuine in KeyAccount, where it finds the
\* same bit.
LEMMA SameVerification ==
  ASSUME BytesInv, NEW s \in Signatures, NEW bytes, Verifies(bytes, s)
  PROVE  Abstract!VerifyGenuine(Address, s.digest, Submission(s))
<1> DEFINE t == Submission(s)
           bit == LeafBit(s.leaf)
<1>1. PICK d, e : d = data /\ e = data'
  OBVIOUS
<1>2. /\ Ours(TRUE) /\ Len(d) = KEY_ACCOUNT_LEN /\ d[1] # 0
      /\ Carries(bytes, s, KindOf(d[1]), Slice(d, 1, KEY_END)) /\ UseLeaf(s.leaf)
  BY <1>1 DEF Verifies, Ours
<1>3. d \in Seq(Byte) /\ s.leaf \in Nat /\ s.digest # Malformed
  BY <1>1, <1>2, AccountBytesOK DEF BytesInv, AccountOK, Ours, AccountBytesOK
<1>4. d # <<>>
  BY <1>2, OffsetsOrder
<1>5. Tag = d[1] /\ UsedBits = BitsIn(d)
  BY <1>1, <1>4, View DEF TagIn
<1>6. /\ t \in {Submission(u) : u \in Signatures}
      /\ t.kind = s.kind /\ t.key = s.key /\ t.leaf = s.leaf /\ t.digest = s.digest
  BY DEF Submission
<1> HIDE DEF t
<1>7. Abstract!Ours(Address, TRUE) /\ s.digest # Malformed /\ At(Tag)[Address] # 0
  BY <1>2, <1>3, <1>5, SameAccount, OneAccount, Zenon
<1>8. Abstract!Decodes(Address, t)
  BY <1>2, <1>5, <1>6 DEF Carries, KindOf, Abstract!Decodes
<1>9. Abstract!Verify(Slice(d, 1, KEY_END), s.digest, t)
  BY <1>2, <1>6, SameOffsets DEF Carries, Abstract!Verify
<1>10. Abstract!BitOf(t.leaf) = bit /\ bit[1] = ByteOf(s.leaf)
  BY <1>6, SameOffsets DEF Abstract!BitOf, LeafBit, ByteOf
<1> DEFINE Refuses == /\ bit[1] >= Len(data) \/ bit \in UsedBits
                      /\ Abstract!Refuse(IF bit[1] >= Len(data) THEN "Panic" ELSE "LeafReused")
           Accepts == /\ bit[1] < Len(data) /\ bit \notin UsedBits
                      /\ At(UsedBits') = [At(UsedBits) EXCEPT ![Address] = UsedBits \cup {bit}]
                      /\ At(accepted') = [At(accepted) EXCEPT
                                            ![Address] = [accepted EXCEPT ![s.leaf] = @ + 1]]
                      /\ result' = "Ok"
                      /\ Len(data') = Len(data)
                      /\ Tag' = Tag
                      /\ Slice(data', 1, KEY_END) = Slice(data, 1, KEY_END)
                      /\ UNCHANGED owner
<1>11. Refuses \/ Accepts
  <2>0. bit[1] \in Nat /\ Len(d) \in Nat
    <3>1. s.leaf \div 8 \in Nat
      BY <1>3
    <3> QED
      BY <1>2, <1>10, <3>1, OffsetsOrder DEF ByteOf
  <2>1. CASE ByteOf(s.leaf) >= Len(d) /\ Refuse("Panic")
    BY <1>1, <1>10, <2>1, SameRefusal
  <2>2. CASE /\ ByteOf(s.leaf) < Len(d)
             /\ IsSet(d[ByteOf(s.leaf) + 1], MaskOf(s.leaf))
             /\ Refuse("LeafReused")
    <3>1. bit \in UsedBits
      BY <1>2, <1>3, <1>5, <2>2, LeafBitIsSet
    <3>2. ~(bit[1] >= Len(data))
      BY <1>1, <1>10, <2>0, <2>2
    <3>3. Abstract!Refuse("LeafReused")
      BY <2>2, SameRefusal
    <3> QED
      BY <3>1, <3>2, <3>3, Zenon
  <2>3. CASE /\ ByteOf(s.leaf) < Len(d)
             /\ ~IsSet(d[ByteOf(s.leaf) + 1], MaskOf(s.leaf))
             /\ e = Marked(d, s.leaf)
             /\ accepted' = [accepted EXCEPT ![s.leaf] = @ + 1]
             /\ result' = "Ok"
             /\ UNCHANGED owner
    <3>1. bit \notin UsedBits
      BY <1>2, <1>3, <1>5, <2>3, LeafBitIsSet
    <3>2. /\ Len(e) = KEY_ACCOUNT_LEN /\ e[1] = d[1]
          /\ Slice(e, 1, KEY_END) = Slice(d, 1, KEY_END)
          /\ BitsIn(e) = BitsIn(d) \cup {bit}
      <4> DEFINE leaf == s.leaf
      <4>1. /\ leaf \in Nat /\ ByteOf(leaf) < Len(d)
            /\ ~IsSet(d[ByteOf(leaf) + 1], MaskOf(leaf)) /\ e = Marked(d, leaf)
        BY <1>3, <2>3
      <4> HIDE DEF leaf
      <4>2. /\ Len(e) = KEY_ACCOUNT_LEN /\ e[1] = d[1]
            /\ Slice(e, 1, KEY_END) = Slice(d, 1, KEY_END)
            /\ BitsIn(e) = BitsIn(d) \cup {LeafBit(leaf)}
        BY <1>2, <1>3, <4>1, MarkedData
      <4> QED
        BY <4>2 DEF leaf
    <3>3. e # <<>>
      BY <3>2, OffsetsOrder
    <3>4. Tag' = Tag /\ UsedBits' = UsedBits \cup {bit}
      BY <1>1, <1>5, <3>2, <3>3, View DEF TagIn
    <3>5. Len(data') = Len(data) /\ Slice(data', 1, KEY_END) = Slice(data, 1, KEY_END)
      BY <1>1, <1>2, <3>2
    <3>6. At(UsedBits') = [At(UsedBits) EXCEPT ![Address] = UsedBits \cup {bit}]
      BY <3>4, OneAccount, Zenon
    <3>7. At(accepted') = [At(accepted) EXCEPT ![Address] = [accepted EXCEPT ![s.leaf] = @ + 1]]
      <4> DEFINE after == [accepted EXCEPT ![s.leaf] = @ + 1]
      <4>1. accepted' = after
        BY <2>3
      <4> HIDE DEF after
      <4>2. At(accepted') = [At(accepted) EXCEPT ![Address] = after]
        BY <4>1, OneAccount, Zenon
      <4> QED
        BY <4>2 DEF after
    <3>8. bit[1] < Len(data)
      BY <1>1, <1>10, <2>3
    <3> QED
      BY <2>3, <3>1, <3>4, <3>5, <3>6, <3>7, <3>8, Zenon
  <2>4. \/ ByteOf(s.leaf) >= Len(d) /\ Refuse("Panic")
        \/ /\ ByteOf(s.leaf) < Len(d)
           /\ IsSet(d[ByteOf(s.leaf) + 1], MaskOf(s.leaf))
           /\ Refuse("LeafReused")
        \/ /\ ByteOf(s.leaf) < Len(d)
           /\ ~IsSet(d[ByteOf(s.leaf) + 1], MaskOf(s.leaf))
           /\ e = Marked(d, s.leaf)
           /\ accepted' = [accepted EXCEPT ![s.leaf] = @ + 1]
           /\ result' = "Ok"
           /\ UNCHANGED owner
    BY <1>1, <1>2, Zenon DEF UseLeaf, Marked
  <2> HIDE DEF Refuses, Accepts
  <2> QED
    BY <2>1, <2>2, <2>3, <2>4, Zenon
<1>12. At(IF Tag = 0 THEN Malformed ELSE Slice(data, 1, KEY_END))[Address] = Slice(d, 1, KEY_END)
  BY <1>1, <1>2, <1>5, OneAccount, Zenon
<1>13. Abstract!Verify(At(IF Tag = 0 THEN Malformed ELSE Slice(data, 1, KEY_END))[Address], s.digest, t)
  BY <1>9, <1>12, Zenon
<1>14. Tag' = Tag /\ Slice(data', 1, KEY_END) = Slice(data, 1, KEY_END) =>
         At(IF Tag' = 0 THEN Malformed ELSE Slice(data', 1, KEY_END))
           = At(IF Tag = 0 THEN Malformed ELSE Slice(data, 1, KEY_END))
  OBVIOUS
<1>15. /\ At(Len(data))[Address] = Len(data) /\ At(UsedBits)[Address] = UsedBits
       /\ At(accepted)[Address] = accepted
  BY OneAccount, Zenon
<1> HIDE DEF bit
<1>16. CASE Refuses
  <2>1. Abstract!VerifyGenuine(Address, s.digest, t)
    BY <1>6, <1>7, <1>8, <1>10, <1>13, <1>15, <1>16, Zenon DEF At, Abstract!VerifyGenuine
  <2> QED
    BY <2>1 DEF t
<1>17. CASE Accepts
  <2>1. Abstract!VerifyGenuine(Address, s.digest, t)
    BY <1>6, <1>7, <1>8, <1>10, <1>13, <1>14, <1>15, <1>17, Zenon DEF At, Abstract!VerifyGenuine
  <2> QED
    BY <2>1 DEF t
<1> QED
  BY <1>11, <1>16, <1>17

\* Every step of the program on bytes is one of the program on keys, leaves and bits.
LEMMA RefinementStep ==
  ASSUME BytesInv, [Next]_vars
  PROVE  [Abstract!Next]_(Abstract!vars)
<1>1. CASE UNCHANGED vars
  <2>1. UNCHANGED <<owner, data, accepted, result>>
    BY <1>1 DEF vars
  <2>2. UNCHANGED <<Tag, UsedBits>>
    BY <2>1, View
  <2> QED
    BY <2>1, <2>2 DEF Abstract!vars
<1>2. ASSUME NEW length \in Lengths, Allocate(length) PROVE Abstract!Next
  <2>1. Abstract!Allocate(Address, length) /\ length \in Abstract!Lengths
    BY <1>2, SameAllocation, SameOffsets
  <2> QED
    BY <2>1, Zenon DEF Abstract!Next
<1>3. ASSUME NEW writable \in BOOLEAN, NEW signer \in BOOLEAN, NEW bytes \in Instructions,
             ProcessInstruction(writable, signer, bytes)
      PROVE  Abstract!Next
  <2>1. data \in Seq(Byte) \/ owner # "program"
    BY DEF BytesInv, AccountOK
  <2>2. \/ Refused(writable)
        \/ \E tag \in {0, 1}, key \in Keys : Registers(bytes, tag, key)
        \/ \E s \in Signatures : Verifies(bytes, s)
    BY <1>3, <2>1, Outcomes
  <2>3. CASE Refused(writable)
    BY <2>3, SameReason
  <2>4. ASSUME NEW tag \in {0, 1}, NEW key \in Keys, Registers(bytes, tag, key)
        PROVE  Abstract!Next
    <3>1. Abstract!Create(Address, TRUE, tag, key)
      BY <2>4, SameRegistration
    <3> QED
      BY <3>1, Zenon DEF Abstract!Next
  <2>5. ASSUME NEW s \in Signatures, Verifies(bytes, s) PROVE Abstract!Next
    <3>1. Abstract!VerifyGenuine(Address, s.digest, Submission(s))
      BY <2>5, SameVerification
    <3>2. s.digest \in Digests /\ Submission(s) \in {Submission(u) : u \in Signatures}
      BY AccountBytesOK DEF AccountBytesOK
    <3> QED
      BY <3>1, <3>2, Zenon DEF Abstract!Next
  <2> QED
    BY <2>2, <2>3, <2>4, <2>5
<1>4. ASSUME NoAccount PROVE Abstract!Next
  <2>1. Abstract!NoAccount
    BY <1>4, SameRefusal DEF NoAccount, Abstract!NoAccount
  <2> QED
    BY <2>1 DEF Abstract!Next
<1> QED
  BY <1>1, <1>2, <1>3, <1>4 DEF Next

\* Whatever bytes reach the program, it does with them what KeyAccount does with keys,
\* leaves and bits: what is proved of KeyAccount holds of the account's bytes.
THEOREM BytesImplementKeyAccount == Spec => ImplementsKeyAccount
BY RefinementInit, RefinementStep, BytesInvariant, PTL DEF Spec, ImplementsKeyAccount, Abstract!Spec

-----------------------------------------------------------------------------
(* What the account's bytes keep: the theorems of KeyAccount, by the refinement *)

Program == INSTANCE KeyAccountProofs WITH
  Accounts <- {Address}, PublicKeys <- Keys,
  Submitted <- {Submission(s) : s \in Signatures},
  Genuine <- {Submission(s) : s \in Signatures},
  owner <- [a \in {Address} |-> owner],
  len <- [a \in {Address} |-> Len(data)],
  tag <- [a \in {Address} |-> Tag],
  key <- [a \in {Address} |-> IF Tag = 0 THEN Malformed ELSE Slice(data, 1, KEY_END)],
  used <- [a \in {Address} |-> UsedBits],
  accepted <- [a \in {Address} |-> accepted]

\* The signers' signatures are what KeyAccount assumes of submitted ones.
LEMMA SubmittedOK == Program!ProgramConstantsOK
<1>1. ASSUME NEW s \in Signatures
      PROVE  /\ Submission(s) \in Program!SignatureRecord
             /\ Submission(s).kind = "winternitz" => Submission(s).leaf = 0
  BY AccountBytesOK DEF AccountBytesOK, Submission, Program!SignatureRecord, Program!Kinds, Instances
<1> QED
  BY <1>1, AccountBytesOK DEF AccountBytesOK, Program!ProgramConstantsOK

\* Program is Abstract, with theorems.
LEMMA SameInit == Abstract!Init => Program!Init
BY DEF Abstract!Init, Program!Init, Abstract!Leaves, Program!Leaves

LEMMA SameNext == [Abstract!Next]_(Abstract!vars) => [Program!Next]_(Program!vars)
BY Zenon DEF Abstract!NoAccount, Program!NoAccount,
             Abstract!Allocate, Program!Allocate, Abstract!WrongAccount,
             Program!WrongAccount, Abstract!UnknownInstruction,
             Program!UnknownInstruction, Abstract!Create, Program!Create,
             Abstract!VerifyRefused, Program!VerifyRefused, Abstract!VerifyGenuine,
             Program!VerifyGenuine, Abstract!Refuse, Program!Refuse,
             Abstract!accountVars, Program!accountVars, Abstract!Ours, Program!Ours,
             Abstract!Fresh, Program!Fresh, Abstract!Decodes, Program!Decodes,
             Abstract!Verify, Program!Verify, Abstract!BitOf, Program!BitOf,
             Abstract!KEY_END, Program!KEY_END, Abstract!KEY_ACCOUNT_LEN,
             Program!KEY_ACCOUNT_LEN, Abstract!PUBLIC_KEY_LEN, Program!PUBLIC_KEY_LEN,
             Abstract!XMSS_LEAVES, Program!XMSS_LEAVES, Abstract!Lengths,
             Program!Lengths, Abstract!Next, Program!Next, Abstract!vars, Program!vars

LEMMA BytesAreKeyAccount == Spec => Program!Spec
BY BytesImplementKeyAccount, SameInit, SameNext, PTL
   DEF ImplementsKeyAccount, Abstract!Spec, Program!Spec

\* "Reused leaves are rejected": whatever bytes reach the program, in whatever order and
\* however often, verify returns Ok once for each leaf.
THEOREM EachLeafOnce == Spec => [](\A leaf \in Leaves : accepted[leaf] <= 1)
<1>1. Program!Spec => []Program!LeafAcceptedOnce
  BY Program!AcceptedOnce, SubmittedOK
<1>2. Program!LeafAcceptedOnce => \A leaf \in Leaves : accepted[leaf] <= 1
  <2>1. Program!Leaves = Leaves
    BY SubmittedLeaves DEF Program!Leaves, Leaves
  <2>2. At(accepted)[Address] = accepted
    BY OneAccount
  <2>3. Program!LeafAcceptedOnce <=> \A a \in {Address}, leaf \in Program!Leaves : At(accepted)[a][leaf] <= 1
    BY DEF Program!LeafAcceptedOnce, At
  <2> QED
    BY <2>1, <2>2, <2>3, Zenon
<1> QED
  BY <1>1, <1>2, BytesAreKeyAccount, PTL

\* The byte that verify marks is inside the account, for every leaf a signature can name.
THEOREM IndexInside == Spec => [](result # "Panic")
<1>1. Program!Spec => []Program!NeverPanics
  BY Program!IndexInBounds, SubmittedOK
<1>2. Program!NeverPanics => result # "Panic"
  BY DEF Program!NeverPanics
<1> QED
  BY <1>1, <1>2, BytesAreKeyAccount, PTL

BytesNotTakenBack ==
  Tag # 0 => /\ Tag' = Tag
             /\ Slice(data', 1, KEY_END) = Slice(data, 1, KEY_END)
             /\ UsedBits \subseteq UsedBits'

\* Once an account has a key, no instruction changes the bytes of its tag and key, and no
\* bit of its bitmap is cleared.
THEOREM RegisteredBytesStay == Spec => [][BytesNotTakenBack]_vars
<1>1. Program!Spec => Program!KeyStays
  BY Program!RegistrationStays, SubmittedOK
<1>2. [Program!NothingTakenBack]_(Program!vars) => [BytesNotTakenBack]_vars
  <2> DEFINE KeyNow == IF Tag = 0 THEN Malformed ELSE Slice(data, 1, KEY_END)
  <2>1. CASE Program!NothingTakenBack
    <3>1. /\ At(Tag)[Address] = Tag /\ At(Tag')[Address] = Tag'
          /\ At(UsedBits)[Address] = UsedBits /\ At(UsedBits')[Address] = UsedBits'
          /\ At(KeyNow)[Address] = KeyNow /\ At(KeyNow')[Address] = KeyNow'
      <4> HIDE DEF KeyNow
      <4>1. \A x : At(x)[Address] = x
        BY OneAccount
      <4> QED
        BY <4>1
    <3>2. At(Tag)[Address] # 0 =>
            /\ At(Tag')[Address] = At(Tag)[Address]
            /\ At(KeyNow')[Address] = At(KeyNow)[Address]
            /\ At(UsedBits)[Address] \subseteq At(UsedBits')[Address]
      BY <2>1 DEF Program!NothingTakenBack, At
    <3> HIDE DEF KeyNow
    <3>3. Tag # 0 => Tag' = Tag /\ KeyNow' = KeyNow /\ UsedBits \subseteq UsedBits'
      BY <3>1, <3>2, Zenon
    <3> QED
      BY <3>3 DEF KeyNow, BytesNotTakenBack
  <2>2. CASE UNCHANGED Program!vars
    <3>1. /\ At(Tag') = At(Tag) /\ At(KeyNow') = At(KeyNow) /\ At(UsedBits') = At(UsedBits)
      BY <2>2 DEF Program!vars, At
    <3>2. Tag' = Tag /\ KeyNow' = KeyNow /\ UsedBits' = UsedBits
      <4> HIDE DEF KeyNow
      <4>1. ASSUME NEW x, NEW y, At(x) = At(y) PROVE x = y
        <5>1. At(x)[Address] = x /\ At(y)[Address] = y
          BY OneAccount
        <5> QED
          BY <4>1, <5>1
      <4> QED
        BY <3>1, <4>1
    <3> QED
      BY <3>2 DEF BytesNotTakenBack
  <2> QED
    BY <2>1, <2>2
<1> QED
  BY <1>1, <1>2, BytesAreKeyAccount, PTL DEF Program!KeyStays
=============================================================================
