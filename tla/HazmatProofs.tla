----------------------------- MODULE HazmatProofs -----------------------------
(***************************************************************************)
(* Raw signing is the scheme of Construction3, in both languages, for every   *)
(* size of the encoding and of the tree and for every source of salts.        *)
(*                                                                         *)
(* First what the chains, the encoding and the tree compute, for every size     *)
(* and every digest.  The prover has no induction scheme to instantiate, so    *)
(* induction is over the numbers with a property, as a set; a recursive        *)
(* function is shown to exist before anything is said of it.  Then what the     *)
(* states are: the invariant says what a state's buffer, key and signatures are *)
(* made of, and the lemmas what that means for signers and verifiers.          *)
(***************************************************************************)
EXTENDS CoreTs, WellFoundedInduction, FiniteSetTheorems, TLAPS

-----------------------------------------------------------------------------
(* Natural numbers *)

LEMMA Least ==
  ASSUME NEW T \in SUBSET Nat, NEW t \in T
  PROVE  \E n \in T : \A m \in T : ~ (m < n)
<1>1. PICK n \in T : \A m \in T : ~ (<<m, n>> \in OpToRel(<, Nat))
  BY NatLessThanWellFounded, WFMin
<1> QED
  BY <1>1 DEF OpToRel

\* Induction: a set with 0 and all successors of its numbers has every number.
LEMMA Induction ==
  ASSUME NEW S, 0 \in S, \A n \in Nat : n \in S => n + 1 \in S
  PROVE  \A n \in Nat : n \in S
<1> SUFFICES ASSUME NEW t \in Nat \ S PROVE FALSE
  OBVIOUS
<1>1. PICK n \in Nat \ S : \A m \in Nat \ S : ~ (m < n)
  BY Least
<1>2. n # 0 /\ n - 1 \in Nat /\ n - 1 < n /\ n - 1 + 1 = n
  BY <1>1
<1> QED
  BY <1>1, <1>2

-----------------------------------------------------------------------------
(* Chains *)

\* at is the values of a walk from one position to another.
IsWalk(at, parameter, leaf, i, from, to, start) ==
  at = [k \in from .. to |->
          IF k = from THEN start ELSE <<"chain", parameter, leaf, i, k, at[k - 1]>>]

LEMMA WalkExists ==
  ASSUME NEW parameter, NEW leaf, NEW i, NEW from \in Nat, NEW start
  PROVE  \A n \in Nat : \E at : IsWalk(at, parameter, leaf, i, from, from + n, start)
<1> DEFINE S == {n \in Nat : \E at : IsWalk(at, parameter, leaf, i, from, from + n, start)}
<1>1. 0 \in S
  <2>1. IsWalk([k \in from .. from |-> start], parameter, leaf, i, from, from + 0, start)
    BY DEF IsWalk
  <2> QED
    BY <2>1
<1>2. ASSUME NEW n \in Nat, n \in S PROVE n + 1 \in S
  <2>1. PICK at : IsWalk(at, parameter, leaf, i, from, from + n, start)
    BY <1>2
  <2> DEFINE to == from + n
             longer == [k \in from .. to + 1 |->
                          IF k = to + 1 THEN <<"chain", parameter, leaf, i, k, at[to]>> ELSE at[k]]
  <2>2. IsWalk(longer, parameter, leaf, i, from, to + 1, start)
    <3>1. ASSUME NEW k \in from .. to + 1
          PROVE  longer[k] = IF k = from THEN start
                             ELSE <<"chain", parameter, leaf, i, k, longer[k - 1]>>
      <4>1. CASE k = to + 1
        <5>1. k # from /\ k - 1 = to /\ to \in from .. to + 1 /\ to # to + 1
          BY <4>1
        <5>2. longer[k - 1] = at[to]
          BY <5>1
        <5> QED
          BY <4>1, <5>1, <5>2
      <4>2. CASE k # to + 1 /\ k # from
        <5>1. k \in from .. to /\ k - 1 \in from .. to + 1 /\ k - 1 # to + 1
          BY <4>2
        <5>2. at[k] = <<"chain", parameter, leaf, i, k, at[k - 1]>>
          BY <2>1, <4>2, <5>1 DEF IsWalk
        <5> QED
          BY <4>2, <5>1, <5>2
      <4>3. CASE k = from
        <5>1. k # to + 1 /\ from \in from .. to
          BY <4>3
        <5>2. at[from] = start
          BY <2>1, <5>1 DEF IsWalk
        <5> QED
          BY <4>3, <5>1, <5>2
      <4> QED
        BY <4>1, <4>2, <4>3
    <3>2. longer = [k \in from .. to + 1 |-> longer[k]]
      OBVIOUS
    <3> HIDE DEF longer
    <3> QED
      BY <3>1, <3>2 DEF IsWalk
  <2>3. from + (n + 1) = to + 1
    OBVIOUS
  <2> HIDE DEF longer
  <2> QED
    BY <2>2, <2>3
<1> HIDE DEF S
<1>3. \A n \in Nat : n \in S
  BY <1>1, <1>2, Induction
<1> QED
  BY <1>3 DEF S

LEMMA WalkIs ==
  ASSUME NEW parameter, NEW leaf, NEW i, NEW from \in Nat, NEW to \in Nat, from <= to, NEW start
  PROVE  \E at : /\ IsWalk(at, parameter, leaf, i, from, to, start)
                 /\ Walk(parameter, leaf, i, from, to, start) = at[to]
<1>1. to - from \in Nat /\ from + (to - from) = to
  OBVIOUS
<1>2. \E at : IsWalk(at, parameter, leaf, i, from, to, start)
  BY <1>1, WalkExists
<1> DEFINE f == CHOOSE at : at = [k \in from .. to |->
                  IF k = from THEN start ELSE <<"chain", parameter, leaf, i, k, at[k - 1]>>]
<1>3. IsWalk(f, parameter, leaf, i, from, to, start)
  BY <1>2 DEF IsWalk
<1>4. Walk(parameter, leaf, i, from, to, start) = f[to]
  BY DEF Walk
<1> QED
  BY <1>3, <1>4

\* Walks from one start agree wherever both get to.
LEMMA WalksAgree ==
  ASSUME NEW parameter, NEW leaf, NEW i, NEW from \in Nat, NEW start,
         NEW a, NEW b, NEW m \in Nat, NEW n \in Nat,
         IsWalk(a, parameter, leaf, i, from, m, start),
         IsWalk(b, parameter, leaf, i, from, n, start)
  PROVE  \A k \in Nat : from <= k /\ k <= m /\ k <= n => a[k] = b[k]
<1> DEFINE S == {d \in Nat : from + d <= m /\ from + d <= n => a[from + d] = b[from + d]}
<1>1. 0 \in S
  BY DEF IsWalk
<1>2. ASSUME NEW d \in Nat, d \in S PROVE d + 1 \in S
  <2> SUFFICES ASSUME from + (d + 1) <= m, from + (d + 1) <= n
               PROVE  a[from + (d + 1)] = b[from + (d + 1)]
    OBVIOUS
  <2> DEFINE k == from + (d + 1)
  <2>1. k \in from .. m /\ k \in from .. n /\ k # from /\ k - 1 = from + d
    OBVIOUS
  <2>2. a[from + d] = b[from + d]
    BY <1>2
  <2> HIDE DEF k
  <2>3. a[k] = <<"chain", parameter, leaf, i, k, a[k - 1]>>
    BY <2>1 DEF IsWalk
  <2>4. b[k] = <<"chain", parameter, leaf, i, k, b[k - 1]>>
    BY <2>1 DEF IsWalk
  <2> QED
    BY <2>1, <2>2, <2>3, <2>4 DEF k
<1> HIDE DEF S
<1>3. \A d \in Nat : d \in S
  BY <1>1, <1>2, Induction
<1> SUFFICES ASSUME NEW k \in Nat, from <= k, k <= m, k <= n PROVE a[k] = b[k]
  OBVIOUS
<1>4. k - from \in Nat /\ from + (k - from) = k
  OBVIOUS
<1>5. k - from \in S
  BY <1>3, <1>4
<1> QED
  BY <1>4, <1>5 DEF S

\* A walk of no step ends where it begins.
LEMMA WalkNowhere ==
  ASSUME NEW parameter, NEW leaf, NEW i, NEW from \in Nat, NEW start
  PROVE  Walk(parameter, leaf, i, from, from, start) = start
<1>1. PICK at : /\ IsWalk(at, parameter, leaf, i, from, from, start)
                /\ Walk(parameter, leaf, i, from, from, start) = at[from]
  BY WalkIs
<1> QED
  BY <1>1 DEF IsWalk

\* The last step of a walk enters its last position.
LEMMA WalkOn ==
  ASSUME NEW parameter, NEW leaf, NEW i, NEW from \in Nat, NEW to \in Nat, from <= to, NEW start
  PROVE  Walk(parameter, leaf, i, from, to + 1, start)
           = <<"chain", parameter, leaf, i, to + 1, Walk(parameter, leaf, i, from, to, start)>>
<1>1. PICK a : /\ IsWalk(a, parameter, leaf, i, from, to, start)
               /\ Walk(parameter, leaf, i, from, to, start) = a[to]
  BY WalkIs
<1>2. PICK b : /\ IsWalk(b, parameter, leaf, i, from, to + 1, start)
               /\ Walk(parameter, leaf, i, from, to + 1, start) = b[to + 1]
  BY WalkIs
<1>3. a[to] = b[to]
  BY <1>1, <1>2, WalksAgree
<1>4. to + 1 \in from .. to + 1 /\ to + 1 # from /\ (to + 1) - 1 = to
  OBVIOUS
<1>5. b[to + 1] = <<"chain", parameter, leaf, i, to + 1, b[to]>>
  BY <1>2, <1>4 DEF IsWalk
<1> QED
  BY <1>1, <1>2, <1>3, <1>5

\* Lemma 2 of the paper, which Chain::walk cites: a walk may be split at any position.
THEOREM WalkSplits ==
  ASSUME NEW parameter, NEW leaf, NEW i, NEW from \in Nat, NEW mid \in Nat, NEW to \in Nat,
         from <= mid, mid <= to, NEW start
  PROVE  Walk(parameter, leaf, i, mid, to, Walk(parameter, leaf, i, from, mid, start))
           = Walk(parameter, leaf, i, from, to, start)
<1> DEFINE half == Walk(parameter, leaf, i, from, mid, start)
           S == {d \in Nat : Walk(parameter, leaf, i, mid, mid + d, half)
                               = Walk(parameter, leaf, i, from, mid + d, start)}
<1> HIDE DEF half
<1>1. 0 \in S
  BY WalkNowhere DEF half
<1>2. ASSUME NEW d \in Nat, d \in S PROVE d + 1 \in S
  <2> DEFINE k == mid + d
  <2>1. mid + (d + 1) = k + 1 /\ mid <= k /\ from <= k /\ k \in Nat
    OBVIOUS
  <2>2. Walk(parameter, leaf, i, mid, k, half) = Walk(parameter, leaf, i, from, k, start)
    BY <1>2
  <2> HIDE DEF k
  <2>3. Walk(parameter, leaf, i, mid, k + 1, half)
          = <<"chain", parameter, leaf, i, k + 1, Walk(parameter, leaf, i, mid, k, half)>>
    BY <2>1, WalkOn
  <2>4. Walk(parameter, leaf, i, from, k + 1, start)
          = <<"chain", parameter, leaf, i, k + 1, Walk(parameter, leaf, i, from, k, start)>>
    BY <2>1, WalkOn
  <2> QED
    BY <2>1, <2>2, <2>3, <2>4
<1> HIDE DEF S
<1>3. \A d \in Nat : d \in S
  BY <1>1, <1>2, Induction
<1>4. to - mid \in Nat /\ mid + (to - mid) = to
  OBVIOUS
<1>5. to - mid \in S
  BY <1>3, <1>4
<1> QED
  BY <1>4, <1>5 DEF S, half

\* Walks of the same steps that end alike began alike.
LEMMA WalkInjective ==
  ASSUME NEW parameter, NEW leaf, NEW i, NEW from \in Nat, NEW to \in Nat, from <= to,
         NEW a, NEW b,
         Walk(parameter, leaf, i, from, to, a) = Walk(parameter, leaf, i, from, to, b)
  PROVE  a = b
<1> DEFINE S == {d \in Nat : Walk(parameter, leaf, i, from, from + d, a)
                               = Walk(parameter, leaf, i, from, from + d, b) => a = b}
<1>1. 0 \in S
  <2>1. from + 0 = from
    OBVIOUS
  <2> QED
    BY <2>1, WalkNowhere
<1>2. ASSUME NEW d \in Nat, d \in S PROVE d + 1 \in S
  <2>1. from + (d + 1) = (from + d) + 1 /\ from <= from + d /\ from + d \in Nat
    OBVIOUS
  <2>2. \A x : Walk(parameter, leaf, i, from, (from + d) + 1, x)
                 = <<"chain", parameter, leaf, i, (from + d) + 1, Walk(parameter, leaf, i, from, from + d, x)>>
    BY <2>1, WalkOn
  <2> QED
    BY <1>2, <2>1, <2>2
<1> HIDE DEF S
<1>3. \A d \in Nat : d \in S
  BY <1>1, <1>2, Induction
<1>4. to - from \in Nat /\ from + (to - from) = to
  OBVIOUS
<1>5. to - from \in S
  BY <1>3, <1>4
<1> QED
  BY <1>4, <1>5 DEF S

\* The chains of the scheme are walks from the beginning to each position.
LEMMA ChainIsWalk ==
  ASSUME NEW parameter, NEW leaf, NEW i, NEW k \in Positions
  PROVE  Chain(parameter, leaf, i)[k] = Walk(parameter, leaf, i, 0, k, <<"start", leaf, i>>)
<1>1. POSITIONS - 1 \in Nat /\ Positions = 0 .. 0 + (POSITIONS - 1) /\ k \in Nat /\ k <= POSITIONS - 1
  BY EncodingOK DEF Positions
<1>2. \E at : IsWalk(at, parameter, leaf, i, 0, 0 + (POSITIONS - 1), <<"start", leaf, i>>)
  BY <1>1, WalkExists
<1> DEFINE c == CHOOSE at : at = [n \in Positions |->
                  IF n = 0 THEN <<"start", leaf, i>> ELSE <<"chain", parameter, leaf, i, n, at[n - 1]>>]
<1>3. Chain(parameter, leaf, i) = c
  BY DEF Chain
<1>4. c = [n \in Positions |->
             IF n = 0 THEN <<"start", leaf, i>> ELSE <<"chain", parameter, leaf, i, n, c[n - 1]>>]
  BY <1>1, <1>2 DEF IsWalk
<1> HIDE DEF c
<1>5. IsWalk(c, parameter, leaf, i, 0, POSITIONS - 1, <<"start", leaf, i>>)
  BY <1>4 DEF IsWalk, Positions
<1>6. PICK at : /\ IsWalk(at, parameter, leaf, i, 0, k, <<"start", leaf, i>>)
                /\ Walk(parameter, leaf, i, 0, k, <<"start", leaf, i>>) = at[k]
  BY <1>1, WalkIs
<1>7. c[k] = at[k]
  BY <1>1, <1>5, <1>6, WalksAgree
<1> QED
  BY <1>3, <1>6, <1>7

-----------------------------------------------------------------------------
(* Division *)

LEMMA DivMod ==
  ASSUME NEW n \in Nat, NEW b \in Nat \ {0}
  PROVE  /\ n \div b \in Nat
         /\ n % b \in 0 .. b - 1
         /\ n = b * (n \div b) + (n % b)
  BY SMTT(30)

\* Only one quotient and remainder make up a number.
LEMMA DivUnique ==
  ASSUME NEW b \in Nat \ {0}, NEW q \in Nat, NEW r \in 0 .. b - 1
  PROVE  (b * q + r) \div b = q /\ (b * q + r) % b = r
  BY SMTT(30)

LEMMA DivLess ==
  ASSUME NEW b \in Nat \ {0}, NEW c \in Nat, NEW n \in Nat, n < b * c
  PROVE  n \div b < c
  BY SMTT(30)

-----------------------------------------------------------------------------
(* Codewords *)

\* first[n] is what the first n digits add up to.
IsSum(first, x) ==
  first = [n \in 0 .. CHAINS |-> IF n = 0 THEN 0 ELSE first[n - 1] + x[n - 1]]

LEMMA SumExists == ASSUME NEW x PROVE \E first : IsSum(first, x)
<1> DEFINE SumTo(first, m) == first = [n \in 0 .. m |-> IF n = 0 THEN 0 ELSE first[n - 1] + x[n - 1]]
           S == {m \in Nat : \E first : SumTo(first, m)}
<1>1. 0 \in S
  <2>1. SumTo([n \in 0 .. 0 |-> 0], 0)
    OBVIOUS
  <2> QED
    BY <2>1
<1>2. ASSUME NEW m \in Nat, m \in S PROVE m + 1 \in S
  <2>1. PICK first : SumTo(first, m)
    BY <1>2
  <2> DEFINE longer == [n \in 0 .. m + 1 |-> IF n = m + 1 THEN first[m] + x[m] ELSE first[n]]
  <2>2. ASSUME NEW n \in 0 .. m + 1
        PROVE  longer[n] = IF n = 0 THEN 0 ELSE longer[n - 1] + x[n - 1]
    <3>1. CASE n = m + 1
      <4>1. n # 0 /\ n - 1 = m /\ m \in 0 .. m + 1 /\ m # m + 1
        BY <3>1
      <4>2. longer[n - 1] = first[m]
        BY <4>1
      <4> QED
        BY <3>1, <4>1, <4>2
    <3>2. CASE n # m + 1 /\ n # 0
      <4>1. n \in 0 .. m /\ n - 1 \in 0 .. m + 1 /\ n - 1 # m + 1
        BY <3>2
      <4>2. first[n] = first[n - 1] + x[n - 1]
        BY <2>1, <3>2, <4>1
      <4> QED
        BY <3>2, <4>1, <4>2
    <3>3. CASE n = 0
      <4>1. n # m + 1 /\ 0 \in 0 .. m
        BY <3>3
      <4>2. first[0] = 0
        BY <2>1, <4>1
      <4> QED
        BY <3>3, <4>1, <4>2
    <3> QED
      BY <3>1, <3>2, <3>3
  <2>3. longer = [n \in 0 .. m + 1 |-> longer[n]]
    OBVIOUS
  <2> HIDE DEF longer
  <2>4. SumTo(longer, m + 1)
    BY <2>2, <2>3
  <2> QED
    BY <2>4
<1> HIDE DEF S
<1>3. CHAINS \in S
  BY <1>1, <1>2, Induction, EncodingOK
<1> QED
  BY <1>3 DEF S, IsSum

LEMMA SumIs == ASSUME NEW x PROVE \E first : IsSum(first, x) /\ Sum(x) = first[CHAINS]
<1> DEFINE f == CHOOSE first : first = [n \in 0 .. CHAINS |-> IF n = 0 THEN 0 ELSE first[n - 1] + x[n - 1]]
<1>1. IsSum(f, x)
  BY SumExists DEF IsSum
<1>2. Sum(x) = f[CHAINS]
  BY DEF Sum
<1> QED
  BY <1>1, <1>2

\* Digits none of which is less add up to more unless they are equal.
LEMMA SumsTell ==
  ASSUME NEW x \in [Chains -> Nat], NEW y \in [Chains -> Nat],
         \A i \in Chains : x[i] <= y[i], Sum(x) = Sum(y)
  PROVE  x = y
<1>1. PICK f : IsSum(f, x) /\ Sum(x) = f[CHAINS]
  BY SumIs
<1>2. PICK g : IsSum(g, y) /\ Sum(y) = g[CHAINS]
  BY SumIs
<1> DEFINE S == {n \in Nat : n <= CHAINS =>
                   /\ f[n] \in Nat /\ g[n] \in Nat /\ f[n] <= g[n]
                   /\ f[n] = g[n] => \A i \in 0 .. n - 1 : x[i] = y[i]}
<1>3. 0 \in S
  <2>1. f[0] = 0 /\ g[0] = 0
    BY <1>1, <1>2, EncodingOK DEF IsSum
  <2> QED
    BY <2>1
<1>4. ASSUME NEW n \in Nat, n \in S PROVE n + 1 \in S
  <2> SUFFICES ASSUME n + 1 <= CHAINS
               PROVE  /\ f[n + 1] \in Nat /\ g[n + 1] \in Nat /\ f[n + 1] <= g[n + 1]
                      /\ f[n + 1] = g[n + 1] => \A i \in 0 .. (n + 1) - 1 : x[i] = y[i]
    OBVIOUS
  <2>1. n + 1 \in 0 .. CHAINS /\ n + 1 # 0 /\ (n + 1) - 1 = n /\ n <= CHAINS /\ n \in Chains
    BY EncodingOK DEF Chains
  <2>2. f[n + 1] = f[n] + x[n] /\ g[n + 1] = g[n] + y[n]
    BY <1>1, <1>2, <2>1 DEF IsSum
  <2>3. x[n] \in Nat /\ y[n] \in Nat /\ x[n] <= y[n]
    BY <2>1
  <2>4. /\ f[n] \in Nat /\ g[n] \in Nat /\ f[n] <= g[n]
        /\ f[n] = g[n] => \A i \in 0 .. n - 1 : x[i] = y[i]
    BY <1>4, <2>1
  <2> HIDE DEF S
  <2>5. f[n + 1] \in Nat /\ g[n + 1] \in Nat /\ f[n + 1] <= g[n + 1]
    BY <2>2, <2>3, <2>4
  <2>6. ASSUME f[n + 1] = g[n + 1], NEW i \in 0 .. (n + 1) - 1 PROVE x[i] = y[i]
    <3>1. f[n] = g[n] /\ x[n] = y[n]
      BY <2>2, <2>3, <2>4, <2>6
    <3>2. i = n \/ i \in 0 .. n - 1
      OBVIOUS
    <3> QED
      BY <2>4, <3>1, <3>2
  <2> QED
    BY <2>5, <2>6
<1> HIDE DEF S
<1>5. CHAINS \in S
  BY <1>3, <1>4, Induction, EncodingOK
<1>6. f[CHAINS] = g[CHAINS]
  BY <1>1, <1>2
<1>7. \A i \in Chains : x[i] = y[i]
  BY <1>5, <1>6, EncodingOK DEF S, Chains
<1> QED
  BY <1>7

\* The digits of a byte: below POSITIONS, and together they are the byte.
LEMMA DigitsOfByte ==
  ASSUME NEW b \in 0 .. POSITIONS * POSITIONS - 1
  PROVE  /\ (b \div 1) % POSITIONS = b % POSITIONS
         /\ (b \div POSITIONS) % POSITIONS = b \div POSITIONS
         /\ b % POSITIONS \in Positions /\ b \div POSITIONS \in Positions
         /\ b = POSITIONS * (b \div POSITIONS) + (b % POSITIONS)
<1>1. POSITIONS \in Nat \ {0} /\ b \in Nat /\ POSITIONS * POSITIONS \in Nat /\ b < POSITIONS * POSITIONS
  BY EncodingOK
<1>2. /\ b \div POSITIONS \in Nat
      /\ b % POSITIONS \in 0 .. POSITIONS - 1
      /\ b = POSITIONS * (b \div POSITIONS) + (b % POSITIONS)
  BY <1>1, DivMod
<1>3. b \div POSITIONS < POSITIONS
  BY <1>1, DivLess
<1> DEFINE q == b \div POSITIONS
<1>4. q \in 0 .. POSITIONS - 1
  BY <1>1, <1>2, <1>3
<1>5. q % POSITIONS = q
  <2> HIDE DEF q
  <2> QED
    BY <1>1, <1>4
<1>6. b \div 1 = b
  BY <1>1
<1> QED
  BY <1>2, <1>4, <1>5, <1>6 DEF Positions

LEMMA ByteOfChain ==
  ASSUME NEW i \in Chains
  PROVE  i \div 2 \in 0 .. (CHAINS \div 2) - 1
  BY EncodingOK DEF Chains

LEMMA DigitsAre ==
  ASSUME NEW d \in Digests
  PROVE  /\ Digits(d) \in [Chains -> Positions]
         /\ \A i \in Chains :
              Digits(d)[i] = IF i % 2 = 0 THEN d[i \div 2] % POSITIONS ELSE d[i \div 2] \div POSITIONS
<1>1. ASSUME NEW i \in Chains
      PROVE  /\ Digits(d)[i] = IF i % 2 = 0 THEN d[i \div 2] % POSITIONS ELSE d[i \div 2] \div POSITIONS
             /\ Digits(d)[i] \in Positions
  <2>1. d[i \div 2] \in 0 .. POSITIONS * POSITIONS - 1
    BY ByteOfChain DEF Digests
  <2>2. Digits(d)[i] = (d[i \div 2] \div (IF i % 2 = 0 THEN 1 ELSE POSITIONS)) % POSITIONS
    BY DEF Digits
  <2> QED
    BY <2>1, <2>2, DigitsOfByte
<1>2. Digits(d) = [i \in Chains |-> Digits(d)[i]]
  BY DEF Digits
<1> QED
  BY <1>1, <1>2

\* A digest is its digits.
LEMMA DigitsInjective ==
  ASSUME NEW d \in Digests, NEW e \in Digests, Digits(d) = Digits(e)
  PROVE  d = e
<1>1. ASSUME NEW j \in 0 .. (CHAINS \div 2) - 1 PROVE d[j] = e[j]
  <2>1. /\ 2 * j \in Chains /\ 2 * j + 1 \in Chains
        /\ (2 * j) \div 2 = j /\ (2 * j) % 2 = 0
        /\ (2 * j + 1) \div 2 = j /\ (2 * j + 1) % 2 # 0
    BY EncodingOK DEF Chains
  <2>2. /\ Digits(d)[2 * j] = d[j] % POSITIONS /\ Digits(e)[2 * j] = e[j] % POSITIONS
        /\ Digits(d)[2 * j + 1] = d[j] \div POSITIONS /\ Digits(e)[2 * j + 1] = e[j] \div POSITIONS
    BY <2>1, DigitsAre
  <2>3. d[j] \in 0 .. POSITIONS * POSITIONS - 1 /\ e[j] \in 0 .. POSITIONS * POSITIONS - 1
    BY DEF Digests
  <2>4. d[j] = POSITIONS * (d[j] \div POSITIONS) + (d[j] % POSITIONS)
    BY <2>3, DigitsOfByte
  <2>5. e[j] = POSITIONS * (e[j] \div POSITIONS) + (e[j] % POSITIONS)
    BY <2>3, DigitsOfByte
  <2> QED
    BY <2>2, <2>4, <2>5, Zenon
<1>2. d = [j \in 0 .. (CHAINS \div 2) - 1 |-> d[j]] /\ e = [j \in 0 .. (CHAINS \div 2) - 1 |-> e[j]]
  BY DEF Digests
<1> QED
  BY <1>1, <1>2

-----------------------------------------------------------------------------
(* Powers of two *)

PowersTo(p, n) == p = [k \in 0 .. n |-> IF k = 0 THEN 1 ELSE 2 * p[k - 1]]

LEMMA PowersExist == \A n \in Nat : \E p : PowersTo(p, n)
<1> DEFINE S == {n \in Nat : \E p : PowersTo(p, n)}
<1>1. 0 \in S
  <2>1. PowersTo([k \in 0 .. 0 |-> 1], 0)
    BY DEF PowersTo
  <2> QED
    BY <2>1
<1>2. ASSUME NEW n \in Nat, n \in S PROVE n + 1 \in S
  <2>1. PICK p : PowersTo(p, n)
    BY <1>2
  <2> DEFINE longer == [k \in 0 .. n + 1 |-> IF k = n + 1 THEN 2 * p[n] ELSE p[k]]
  <2>2. ASSUME NEW k \in 0 .. n + 1
        PROVE  longer[k] = IF k = 0 THEN 1 ELSE 2 * longer[k - 1]
    <3>1. CASE k = n + 1
      <4>1. k # 0 /\ k - 1 = n /\ n \in 0 .. n + 1 /\ n # n + 1
        BY <3>1
      <4>2. longer[k - 1] = p[n]
        BY <4>1
      <4> QED
        BY <3>1, <4>1, <4>2
    <3>2. CASE k # n + 1 /\ k # 0
      <4>1. k \in 0 .. n /\ k - 1 \in 0 .. n + 1 /\ k - 1 # n + 1
        BY <3>2
      <4>2. p[k] = 2 * p[k - 1]
        BY <2>1, <3>2, <4>1 DEF PowersTo
      <4> QED
        BY <3>2, <4>1, <4>2
    <3>3. CASE k = 0
      <4>1. k # n + 1 /\ 0 \in 0 .. n
        BY <3>3
      <4>2. p[0] = 1
        BY <2>1, <4>1 DEF PowersTo
      <4> QED
        BY <3>3, <4>1, <4>2
    <3> QED
      BY <3>1, <3>2, <3>3
  <2>3. longer = [k \in 0 .. n + 1 |-> longer[k]]
    OBVIOUS
  <2> HIDE DEF longer
  <2>4. PowersTo(longer, n + 1)
    BY <2>2, <2>3 DEF PowersTo
  <2> QED
    BY <2>4
<1> HIDE DEF S
<1>3. \A n \in Nat : n \in S
  BY <1>1, <1>2, Induction
<1> QED
  BY <1>3 DEF S

LEMMA PowersAgree ==
  ASSUME NEW a, NEW b, NEW m \in Nat, NEW n \in Nat, PowersTo(a, m), PowersTo(b, n)
  PROVE  \A k \in Nat : k <= m /\ k <= n => a[k] = b[k]
<1> DEFINE S == {k \in Nat : k <= m /\ k <= n => a[k] = b[k]}
<1>1. 0 \in S
  BY DEF PowersTo
<1>2. ASSUME NEW k \in Nat, k \in S PROVE k + 1 \in S
  <2> SUFFICES ASSUME k + 1 <= m, k + 1 <= n PROVE a[k + 1] = b[k + 1]
    OBVIOUS
  <2>1. k + 1 \in 0 .. m /\ k + 1 \in 0 .. n /\ k + 1 # 0 /\ (k + 1) - 1 = k
    OBVIOUS
  <2>2. a[k] = b[k]
    BY <1>2
  <2>3. a[k + 1] = 2 * a[k] /\ b[k + 1] = 2 * b[k]
    BY <2>1 DEF PowersTo
  <2> QED
    BY <2>2, <2>3
<1> HIDE DEF S
<1>3. \A k \in Nat : k \in S
  BY <1>1, <1>2, Induction
<1> QED
  BY <1>3 DEF S

LEMMA Pow2Is == X!Pow2[0] = 1 /\ \A n \in Nat : X!Pow2[n + 1] = 2 * X!Pow2[n]
<1> DEFINE p(n) == CHOOSE p : PowersTo(p, n)
           f == [n \in Nat |-> p(n)[n]]
<1>1. \A n \in Nat : PowersTo(p(n), n)
  BY PowersExist
<1> HIDE DEF p
<1>2. ASSUME NEW n \in Nat PROVE f[n] = IF n = 0 THEN 1 ELSE 2 * f[n - 1]
  <2>1. CASE n = 0
    BY <1>1, <2>1 DEF PowersTo
  <2>2. CASE n # 0
    <3>1. n \in 0 .. n /\ n - 1 \in Nat /\ n - 1 <= n
      BY <2>2
    <3>2. p(n)[n] = 2 * p(n)[n - 1]
      BY <1>1, <2>2, <3>1 DEF PowersTo
    <3>3. p(n)[n - 1] = p(n - 1)[n - 1]
      BY <1>1, <3>1, PowersAgree
    <3> QED
      BY <2>2, <3>1, <3>2, <3>3
  <2> QED
    BY <2>1, <2>2
<1>3. f = [n \in Nat |-> f[n]]
  OBVIOUS
<1> HIDE DEF f
<1>4. f = [n \in Nat |-> IF n = 0 THEN 1 ELSE 2 * f[n - 1]]
  BY <1>2, <1>3
<1>5. X!Pow2 = [n \in Nat |-> IF n = 0 THEN 1 ELSE 2 * X!Pow2[n - 1]]
  BY <1>4 DEF X!Pow2
<1>6. X!Pow2[0] = 1
  BY <1>5
<1>7. ASSUME NEW n \in Nat PROVE X!Pow2[n + 1] = 2 * X!Pow2[n]
  <2>1. n + 1 \in Nat /\ n + 1 # 0 /\ (n + 1) - 1 = n
    OBVIOUS
  <2> DEFINE q == X!Pow2
  <2>2. q = [k \in Nat |-> IF k = 0 THEN 1 ELSE 2 * q[k - 1]]
    BY <1>5
  <2> HIDE DEF q
  <2>3. q[n + 1] = 2 * q[n]
    BY <2>1, <2>2
  <2> QED
    BY <2>3 DEF q
<1> QED
  BY <1>6, <1>7

LEMMA Pow2Positive == \A n \in Nat : X!Pow2[n] \in Nat \ {0}
<1> DEFINE S == {n \in Nat : X!Pow2[n] \in Nat \ {0}}
<1>1. 0 \in S
  BY Pow2Is
<1>2. ASSUME NEW n \in Nat, n \in S PROVE n + 1 \in S
  BY <1>2, Pow2Is
<1> HIDE DEF S
<1>3. \A n \in Nat : n \in S
  BY <1>1, <1>2, Induction
<1> QED
  BY <1>3 DEF S

\* A higher power is at least twice as high.
LEMMA Pow2Doubles ==
  ASSUME NEW a \in Nat, NEW b \in Nat, a < b PROVE 2 * X!Pow2[a] <= X!Pow2[b]
<1> DEFINE S == {d \in Nat : 2 * X!Pow2[a] <= X!Pow2[(a + 1) + d]}
<1>1. 0 \in S
  <2>1. (a + 1) + 0 = a + 1 /\ 2 * X!Pow2[a] \in Nat
    BY Pow2Positive
  <2> QED
    BY <2>1, Pow2Is
<1>2. ASSUME NEW d \in Nat, d \in S PROVE d + 1 \in S
  <2>1. (a + 1) + (d + 1) = ((a + 1) + d) + 1 /\ (a + 1) + d \in Nat
    OBVIOUS
  <2>2. /\ X!Pow2[((a + 1) + d) + 1] = 2 * X!Pow2[(a + 1) + d]
        /\ X!Pow2[(a + 1) + d] \in Nat /\ X!Pow2[a] \in Nat
    BY <2>1, Pow2Is, Pow2Positive
  <2> QED
    BY <1>2, <2>1, <2>2
<1> HIDE DEF S
<1>3. \A d \in Nat : d \in S
  BY <1>1, <1>2, Induction
<1>4. b - (a + 1) \in Nat /\ (a + 1) + (b - (a + 1)) = b
  OBVIOUS
<1>5. b - (a + 1) \in S
  BY <1>3, <1>4
<1> QED
  BY <1>4, <1>5 DEF S

\* 2^H is 2^l times 2^(H - l).
LEMMA Pow2Splits ==
  ASSUME NEW l \in 0 .. HEIGHT
  PROVE  X!LEAVES = X!Pow2[l] * X!Pow2[HEIGHT - l]
<1> DEFINE S == {k \in Nat : k <= HEIGHT => X!LEAVES = X!Pow2[k] * X!Pow2[HEIGHT - k]}
<1>1. 0 \in S
  <2>1. HEIGHT - 0 = HEIGHT /\ X!Pow2[HEIGHT] \in Nat
    BY HazmatConstantsOK, Pow2Positive
  <2> QED
    BY <2>1, Pow2Is DEF X!LEAVES
<1>2. ASSUME NEW k \in Nat, k \in S PROVE k + 1 \in S
  <2> SUFFICES ASSUME k + 1 <= HEIGHT PROVE X!LEAVES = X!Pow2[k + 1] * X!Pow2[HEIGHT - (k + 1)]
    OBVIOUS
  <2>1. k <= HEIGHT /\ HEIGHT - (k + 1) \in Nat /\ HEIGHT - k = (HEIGHT - (k + 1)) + 1
    BY HazmatConstantsOK
  <2> DEFINE a == X!Pow2[k]
             b == X!Pow2[HEIGHT - (k + 1)]
  <2>2. X!LEAVES = a * X!Pow2[HEIGHT - k]
    BY <1>2, <2>1
  <2>3. X!Pow2[HEIGHT - k] = 2 * b /\ X!Pow2[k + 1] = 2 * a /\ a \in Nat /\ b \in Nat
    BY <2>1, Pow2Is, Pow2Positive
  <2> HIDE DEF a
  <2> HIDE DEF b
  <2>4. a * (2 * b) = (2 * a) * b
    BY <2>3
  <2> QED
    BY <2>2, <2>3, <2>4 DEF b
<1> HIDE DEF S
<1>3. l \in S
  BY <1>1, <1>2, Induction
<1> QED
  BY <1>3, HazmatConstantsOK DEF S

-----------------------------------------------------------------------------
(* Where the nodes of the tree are *)

\* Level l has Width(l) nodes.
Width(l) == X!Pow2[HEIGHT - l]

LEMMA Widths ==
  /\ \A l \in 0 .. HEIGHT : Width(l) \in Nat \ {0}
  /\ X!LEAVES \in Nat \ {0} /\ Width(0) = X!LEAVES /\ Width(HEIGHT) = 1
  /\ \A l \in 0 .. HEIGHT - 1 : Width(l) = 2 * Width(l + 1)
<1>1. \A l \in 0 .. HEIGHT : HEIGHT - l \in Nat
  BY HazmatConstantsOK
<1>2. \A l \in 0 .. HEIGHT : Width(l) \in Nat \ {0}
  BY <1>1, Pow2Positive DEF Width
<1>3. X!LEAVES \in Nat \ {0}
  BY HazmatConstantsOK, Pow2Positive DEF X!LEAVES
<1>4. HEIGHT - 0 = HEIGHT /\ HEIGHT - HEIGHT = 0
  BY HazmatConstantsOK
<1>5. Width(0) = X!LEAVES /\ Width(HEIGHT) = 1
  BY <1>4, Pow2Is DEF Width, X!LEAVES
<1>6. ASSUME NEW l \in 0 .. HEIGHT - 1 PROVE Width(l) = 2 * Width(l + 1)
  <2>1. HEIGHT - (l + 1) \in Nat /\ HEIGHT - l = (HEIGHT - (l + 1)) + 1
    BY HazmatConstantsOK
  <2> QED
    BY <2>1, Pow2Is DEF Width
<1> QED
  BY <1>2, <1>3, <1>5, <1>6

\* LEAVES >> l
LEMMA Shifted == ASSUME NEW l \in 0 .. HEIGHT PROVE X!LEAVES \div X!Pow2[l] = Width(l)
<1> DEFINE a == X!Pow2[l]
           w == Width(l)
<1>1. a \in Nat \ {0} /\ w \in Nat
  BY HazmatConstantsOK, Pow2Positive, Widths
<1>2. X!LEAVES = a * w
  BY Pow2Splits DEF Width
<1> HIDE DEF a
<1> HIDE DEF w
<1>3. 0 \in 0 .. a - 1 /\ a * w + 0 = a * w
  BY <1>1
<1>4. (a * w + 0) \div a = w
  BY <1>1, <1>3, DivUnique
<1> QED
  BY <1>2, <1>3, <1>4 DEF a, w

LEMMA Levels ==
  /\ \A l \in 0 .. HEIGHT : X!Level(l) = 2 * X!LEAVES - 2 * Width(l)
  /\ X!Level(0) = 0 /\ X!Level(HEIGHT) = 2 * X!LEAVES - 2
<1>1. \A l : X!Level(l) = 2 * X!LEAVES - 2 * Width(l)
  BY DEF X!Level, Width
<1> QED
  BY <1>1, Widths

LEMMA WidthsFall ==
  ASSUME NEW l \in 0 .. HEIGHT, NEW m \in 0 .. HEIGHT, l < m PROVE 2 * Width(m) <= Width(l)
<1>1. HEIGHT - m \in Nat /\ HEIGHT - l \in Nat /\ HEIGHT - m < HEIGHT - l
  BY HazmatConstantsOK
<1> QED
  BY <1>1, Pow2Doubles DEF Width

\* A node is on one level.
LEMMA LevelsApart ==
  ASSUME NEW l \in 0 .. HEIGHT, NEW m \in 0 .. HEIGHT, NEW n \in Nat,
         n - X!Level(l) \in 0 .. Width(l) - 1, n - X!Level(m) \in 0 .. Width(m) - 1
  PROVE  l = m
<1>1. \A a, b \in 0 .. HEIGHT :
        n - X!Level(a) \in 0 .. Width(a) - 1 /\ n - X!Level(b) \in 0 .. Width(b) - 1 => ~ (a < b)
  <2> SUFFICES ASSUME NEW a \in 0 .. HEIGHT, NEW b \in 0 .. HEIGHT, a < b,
                      n - X!Level(a) \in 0 .. Width(a) - 1, n - X!Level(b) \in 0 .. Width(b) - 1
               PROVE  FALSE
    OBVIOUS
  <2>1. X!Level(a) = 2 * X!LEAVES - 2 * Width(a) /\ X!Level(b) = 2 * X!LEAVES - 2 * Width(b)
    BY Levels
  <2>2. Width(a) \in Nat /\ Width(b) \in Nat /\ X!LEAVES \in Nat
    BY Widths
  <2>3. 2 * Width(b) <= Width(a)
    BY WidthsFall
  <2> QED
    BY <2>1, <2>2, <2>3
<1>2. ~ (l < m) /\ ~ (m < l)
  BY <1>1
<1> QED
  BY <1>2, HazmatConstantsOK

\* Every node is on a level, after the nodes of the levels below.
LEMMA LevelOf ==
  ASSUME NEW n \in 0 .. 2 * X!LEAVES - 2
  PROVE  \E l \in 0 .. HEIGHT : n - X!Level(l) \in 0 .. Width(l) - 1
<1> DEFINE Found(h) == \E l \in 0 .. h : n - X!Level(l) \in 0 .. Width(l) - 1
           S == {h \in Nat : h <= HEIGHT => (n < X!Level(h) + Width(h) => Found(h))}
<1>1. 0 \in S
  <2>1. X!Level(0) = 0 /\ Width(0) \in Nat /\ X!LEAVES \in Nat /\ 0 \in 0 .. 0
    BY Levels, Widths
  <2>2. ASSUME n < X!Level(0) + Width(0) PROVE n - X!Level(0) \in 0 .. Width(0) - 1
    BY <2>1, <2>2
  <2> QED
    BY <2>1, <2>2
<1>2. ASSUME NEW h \in Nat, h \in S PROVE h + 1 \in S
  <2> SUFFICES ASSUME h + 1 <= HEIGHT, n < X!Level(h + 1) + Width(h + 1) PROVE Found(h + 1)
    OBVIOUS
  <2>1. h \in 0 .. HEIGHT /\ h + 1 \in 0 .. HEIGHT /\ h \in 0 .. HEIGHT - 1 /\ h <= HEIGHT
    BY HazmatConstantsOK
  <2>2. /\ Width(h) = 2 * Width(h + 1) /\ Width(h) \in Nat /\ Width(h + 1) \in Nat
        /\ X!LEAVES \in Nat
    BY <2>1, Widths
  <2>3. X!Level(h) = 2 * X!LEAVES - 2 * Width(h) /\ X!Level(h + 1) = 2 * X!LEAVES - 2 * Width(h + 1)
    BY <2>1, Levels
  <2>4. CASE n < X!Level(h) + Width(h)
    <3>1. Found(h)
      BY <1>2, <2>1, <2>4
    <3> QED
      BY <3>1
  <2>5. CASE ~ (n < X!Level(h) + Width(h))
    <3>1. n - X!Level(h + 1) \in 0 .. Width(h + 1) - 1
      BY <2>2, <2>3, <2>5
    <3>2. h + 1 \in 0 .. h + 1
      OBVIOUS
    <3> QED
      BY <3>1, <3>2
  <2> QED
    BY <2>4, <2>5
<1> HIDE DEF S
<1>3. HEIGHT \in S
  BY <1>1, <1>2, Induction, HazmatConstantsOK
<1>4. n < X!Level(HEIGHT) + Width(HEIGHT)
  BY Levels, Widths
<1> QED
  BY <1>3, <1>4, HazmatConstantsOK DEF S

\* The ancestor of a leaf on level l.
Ancestor(leaf, l) == leaf \div X!Pow2[l]

LEMMA DivDiv ==
  ASSUME NEW n \in Nat, NEW a \in Nat \ {0}
  PROVE  (n \div a) \div 2 = n \div (2 * a)
<1> DEFINE q == n \div a
           r == n % a
           h == q \div 2
           s == q % 2
<1>1. q \in Nat /\ r \in 0 .. a - 1 /\ n = a * q + r
  BY DivMod
<1> HIDE DEF q
<1>2. h \in Nat /\ s \in 0 .. 1 /\ q = 2 * h + s
  BY <1>1
<1> HIDE DEF r
<1> HIDE DEF h
<1> HIDE DEF s
<1>3. n = (2 * a) * h + (a * s + r)
  BY <1>1, <1>2
<1>4. a * s + r \in 0 .. (2 * a) - 1 /\ 2 * a \in Nat \ {0}
  <2>1. CASE s = 0
    BY <1>1, <2>1
  <2>2. CASE s = 1
    BY <1>1, <2>2
  <2> QED
    BY <1>2, <2>1, <2>2
<1> DEFINE b == 2 * a
           t == a * s + r
<1>5. n = b * h + t /\ t \in 0 .. b - 1 /\ b \in Nat \ {0}
  BY <1>3, <1>4
<1> HIDE DEF b
<1> HIDE DEF t
<1>6. n \div b = h
  BY <1>2, <1>5, DivUnique
<1> QED
  BY <1>6 DEF b, h, q

LEMMA Ancestors ==
  ASSUME NEW leaf \in 0 .. X!LEAVES - 1
  PROVE  /\ \A l \in 0 .. HEIGHT : Ancestor(leaf, l) \in 0 .. Width(l) - 1
         /\ Ancestor(leaf, 0) = leaf /\ Ancestor(leaf, HEIGHT) = 0
         /\ \A l \in 0 .. HEIGHT - 1 : Ancestor(leaf, l + 1) = Ancestor(leaf, l) \div 2
<1>1. X!LEAVES \in Nat /\ leaf \in Nat /\ leaf < X!LEAVES
  BY Widths
<1>2. ASSUME NEW l \in 0 .. HEIGHT PROVE Ancestor(leaf, l) \in 0 .. Width(l) - 1
  <2> DEFINE a == X!Pow2[l]
             w == Width(l)
  <2>1. a \in Nat \ {0} /\ w \in Nat /\ X!LEAVES = a * w
    BY HazmatConstantsOK, Pow2Positive, Pow2Splits, Widths DEF Width
  <2> HIDE DEF a
  <2> HIDE DEF w
  <2>2. leaf \div a \in Nat
    BY <1>1, <2>1, DivMod
  <2>3. leaf \div a < w
    BY <1>1, <2>1, DivLess
  <2>4. leaf \div a \in 0 .. w - 1
    BY <2>1, <2>2, <2>3
  <2> QED
    BY <2>4 DEF Ancestor, a, w
<1>3. Ancestor(leaf, 0) = leaf
  BY <1>1, Pow2Is DEF Ancestor
<1>4. Ancestor(leaf, HEIGHT) = 0
  BY <1>2, Widths, HazmatConstantsOK
<1>5. ASSUME NEW l \in 0 .. HEIGHT - 1 PROVE Ancestor(leaf, l + 1) = Ancestor(leaf, l) \div 2
  <2>1. l \in Nat /\ X!Pow2[l + 1] = 2 * X!Pow2[l] /\ X!Pow2[l] \in Nat \ {0}
    BY HazmatConstantsOK, Pow2Is, Pow2Positive
  <2> QED
    BY <1>1, <2>1, DivDiv DEF Ancestor
<1> QED
  BY <1>2, <1>3, <1>4, <1>5

\* i ^ 1 is the other child of the same node.
LEMMA Siblings ==
  ASSUME NEW l \in 0 .. HEIGHT - 1, NEW i \in 0 .. Width(l) - 1
  PROVE  /\ X!Sibling(i) \in 0 .. Width(l) - 1
         /\ X!Sibling(i) # i /\ X!Sibling(i) \div 2 = i \div 2
         /\ \A j \in 0 .. Width(l) - 1 : j # i /\ j \div 2 = i \div 2 => j = X!Sibling(i)
         /\ i % 2 = 0 => i = 2 * (i \div 2) /\ X!Sibling(i) = 2 * (i \div 2) + 1
         /\ i % 2 # 0 => i = 2 * (i \div 2) + 1 /\ X!Sibling(i) = 2 * (i \div 2)
<1> DEFINE w == Width(l + 1)
           v == Width(l)
<1>1. w \in Nat /\ v = 2 * w
  BY Widths, HazmatConstantsOK
<1>2. i \in 0 .. 2 * w - 1
  BY <1>1
<1>3. X!Sibling(i) = IF i % 2 = 0 THEN i + 1 ELSE i - 1
  BY DEF X!Sibling
<1> HIDE DEF w
<1> HIDE DEF v
<1>4. X!Sibling(i) \in 0 .. v - 1
  BY <1>1, <1>2, <1>3
<1>5. X!Sibling(i) # i /\ X!Sibling(i) \div 2 = i \div 2
  BY <1>1, <1>2, <1>3
<1>6. ASSUME NEW j \in 0 .. v - 1, j # i, j \div 2 = i \div 2 PROVE j = X!Sibling(i)
  BY <1>1, <1>2, <1>3, <1>6
<1>7. /\ i % 2 = 0 => i = 2 * (i \div 2) /\ X!Sibling(i) = 2 * (i \div 2) + 1
      /\ i % 2 # 0 => i = 2 * (i \div 2) + 1 /\ X!Sibling(i) = 2 * (i \div 2)
  BY <1>1, <1>2, <1>3
<1> QED
  BY <1>4, <1>5, <1>6, <1>7 DEF v

-----------------------------------------------------------------------------
(* The operators both instances share *)

LEMMA SameForXmss ==
  /\ \A parameter, leaf, i, from, to, start :
       X!Walk(parameter, leaf, i, from, to, start) = Walk(parameter, leaf, i, from, to, start)
  /\ \A parameter, leaf, x, elements : X!Ends(parameter, leaf, x, elements) = Ends(parameter, leaf, x, elements)
  /\ \A secrets, parameter, leaf : X!SecretEnds(secrets, parameter, leaf) = SecretEnds(secrets, parameter, leaf)
  /\ \A salt, parameter, leaf, message : X!Encode(salt, parameter, leaf, message) = Encode(salt, parameter, leaf, message)
  /\ \A secrets, parameter, leaf, message, salt :
       X!SignElements(secrets, parameter, leaf, message, salt) = SignElements(secrets, parameter, leaf, message, salt)
  /\ \A parameter, leaf, ends : X!LeafHash(parameter, leaf, ends) = LeafHash(parameter, leaf, ends)
  /\ \A parameter, level, index, left, right :
       X!Node(parameter, level, index, left, right) = Node(parameter, level, index, left, right)
<1>1. \A parameter, leaf, i, from, to, start :
        X!Walk(parameter, leaf, i, from, to, start) = Walk(parameter, leaf, i, from, to, start)
  BY DEF X!Walk, Walk
<1>2. \A parameter, leaf, x, elements : X!Ends(parameter, leaf, x, elements) = Ends(parameter, leaf, x, elements)
  BY <1>1 DEF X!Ends, Ends, X!Chains, Chains
<1>3. \A secrets, parameter, leaf : X!SecretEnds(secrets, parameter, leaf) = SecretEnds(secrets, parameter, leaf)
  BY <1>1 DEF X!SecretEnds, SecretEnds, X!Chains, Chains, X!Start, Start
<1>4. \A salt, parameter, leaf, message : X!Encode(salt, parameter, leaf, message) = Encode(salt, parameter, leaf, message)
  BY DEF X!Encode, Encode, X!Codeword, Codeword, X!Sum, Sum, X!Digits, Digits, X!Chains, Chains
<1>5. \A secrets, parameter, leaf, message, salt :
        X!SignElements(secrets, parameter, leaf, message, salt) = SignElements(secrets, parameter, leaf, message, salt)
  BY <1>1, <1>4 DEF X!SignElements, SignElements, X!Chains, Chains, X!Start, Start
<1>6. /\ \A parameter, leaf, ends : X!LeafHash(parameter, leaf, ends) = LeafHash(parameter, leaf, ends)
      /\ \A parameter, level, index, left, right :
           X!Node(parameter, level, index, left, right) = Node(parameter, level, index, left, right)
  BY DEF X!LeafHash, LeafHash, X!Node, Node
<1> QED
  BY <1>1, <1>2, <1>3, <1>4, <1>5, <1>6

LEMMA SameForWinternitz ==
  /\ \A parameter, leaf, x, elements : W!Ends(parameter, leaf, x, elements) = Ends(parameter, leaf, x, elements)
  /\ \A secrets, parameter, leaf : W!SecretEnds(secrets, parameter, leaf) = SecretEnds(secrets, parameter, leaf)
  /\ \A salt, parameter, leaf, message : W!Encode(salt, parameter, leaf, message) = Encode(salt, parameter, leaf, message)
  /\ \A secrets, parameter, leaf, message, salt :
       W!SignElements(secrets, parameter, leaf, message, salt) = SignElements(secrets, parameter, leaf, message, salt)
  /\ \A parameter, leaf, ends : W!LeafHash(parameter, leaf, ends) = LeafHash(parameter, leaf, ends)
<1>1. \A parameter, leaf, i, from, to, start :
        W!Walk(parameter, leaf, i, from, to, start) = Walk(parameter, leaf, i, from, to, start)
  BY DEF W!Walk, Walk
<1>2. \A parameter, leaf, x, elements : W!Ends(parameter, leaf, x, elements) = Ends(parameter, leaf, x, elements)
  BY <1>1 DEF W!Ends, Ends, W!Chains, Chains
<1>3. \A secrets, parameter, leaf : W!SecretEnds(secrets, parameter, leaf) = SecretEnds(secrets, parameter, leaf)
  BY <1>1 DEF W!SecretEnds, SecretEnds, W!Chains, Chains, W!Start, Start
<1>4. \A salt, parameter, leaf, message : W!Encode(salt, parameter, leaf, message) = Encode(salt, parameter, leaf, message)
  BY DEF W!Encode, Encode, W!Codeword, Codeword, W!Sum, Sum, W!Digits, Digits, W!Chains, Chains
<1>5. \A secrets, parameter, leaf, message, salt :
        W!SignElements(secrets, parameter, leaf, message, salt) = SignElements(secrets, parameter, leaf, message, salt)
  BY <1>1, <1>4 DEF W!SignElements, SignElements, W!Chains, Chains, W!Start, Start
<1>6. \A parameter, leaf, ends : W!LeafHash(parameter, leaf, ends) = LeafHash(parameter, leaf, ends)
  BY DEF W!LeafHash, LeafHash
<1> QED
  BY <1>2, <1>3, <1>4, <1>5, <1>6

-----------------------------------------------------------------------------
(* The tree *)

\* The ends of a leaf's chains.
Tops(parameter, leaf) == [i \in Chains |-> Chain(parameter, leaf, i)[POSITIONS - 1]]

IsTree(level, parameter, h) ==
  level = [l \in 0 .. h |->
             [j \in 0 .. X!Pow2[HEIGHT - l] - 1 |->
                IF l = 0 THEN LeafHash(parameter, j, Tops(parameter, j))
                ELSE Node(parameter, l, j, level[l - 1][2 * j], level[l - 1][2 * j + 1])]]

LEMMA TreeExists == ASSUME NEW parameter PROVE \A h \in Nat : \E level : IsTree(level, parameter, h)
<1> DEFINE Row(l, below) ==
             [j \in 0 .. X!Pow2[HEIGHT - l] - 1 |->
                IF l = 0 THEN LeafHash(parameter, j, Tops(parameter, j))
                ELSE Node(parameter, l, j, below[2 * j], below[2 * j + 1])]
           S == {h \in Nat : \E level : IsTree(level, parameter, h)}
<1>a. \A level, h : IsTree(level, parameter, h) <=> level = [l \in 0 .. h |-> Row(l, level[l - 1])]
  BY DEF IsTree
<1>b. \A b, c : Row(0, b) = Row(0, c)
  OBVIOUS
<1> HIDE DEF Row
<1>1. 0 \in S
  <2> DEFINE level == [l \in 0 .. 0 |-> Row(0, l)]
  <2>1. level[0] = Row(0, level[0 - 1])
    BY <1>b
  <2>2. \A l \in 0 .. 0 : level[l] = Row(l, level[l - 1])
    BY <2>1
  <2>3. level = [l \in 0 .. 0 |-> level[l]]
    OBVIOUS
  <2> HIDE DEF level
  <2>4. level = [l \in 0 .. 0 |-> Row(l, level[l - 1])]
    BY <2>2, <2>3, Zenon
  <2>5. IsTree(level, parameter, 0)
    BY <1>a, <2>4, Zenon
  <2> QED
    BY <2>5
<1>2. ASSUME NEW h \in Nat, h \in S PROVE h + 1 \in S
  <2>1. PICK level : IsTree(level, parameter, h)
    BY <1>2
  <2> DEFINE higher == [l \in 0 .. h + 1 |-> IF l = h + 1 THEN Row(l, level[h]) ELSE level[l]]
  <2>2. ASSUME NEW l \in 0 .. h + 1 PROVE higher[l] = Row(l, higher[l - 1])
    <3>1. CASE l = h + 1
      <4>1. l - 1 = h /\ h \in 0 .. h + 1 /\ h # h + 1
        BY <3>1
      <4>2. higher[l - 1] = level[h]
        BY <4>1
      <4> QED
        BY <3>1, <4>2
    <3>2. CASE l # h + 1 /\ l # 0
      <4>1. l \in 0 .. h /\ l - 1 \in 0 .. h + 1 /\ l - 1 # h + 1
        BY <3>2
      <4>2. level[l] = Row(l, level[l - 1])
        BY <1>a, <2>1, <4>1
      <4> QED
        BY <3>2, <4>1, <4>2
    <3>3. CASE l = 0
      <4>1. l # h + 1 /\ l \in 0 .. h
        BY <3>3
      <4>2. level[l] = Row(l, level[l - 1])
        BY <1>a, <2>1, <4>1
      <4>3. Row(l, level[l - 1]) = Row(l, higher[l - 1])
        BY <1>b, <3>3
      <4> QED
        BY <4>1, <4>2, <4>3
    <3> QED
      BY <3>1, <3>2, <3>3
  <2>3. higher = [l \in 0 .. h + 1 |-> higher[l]]
    OBVIOUS
  <2> HIDE DEF higher
  <2>4. higher = [l \in 0 .. h + 1 |-> Row(l, higher[l - 1])]
    BY <2>2, <2>3, Zenon
  <2>5. IsTree(higher, parameter, h + 1)
    BY <1>a, <2>4, Zenon
  <2> QED
    BY <2>5
<1> HIDE DEF S
<1>3. \A h \in Nat : h \in S
  BY <1>1, <1>2, Induction
<1> QED
  BY <1>3 DEF S

\* What the reference tree is, level by level.
LEMMA TreeIs ==
  ASSUME NEW parameter
  PROVE  /\ \A l \in 0 .. HEIGHT : DOMAIN Tree(parameter)[l] = 0 .. Width(l) - 1
         /\ \A j \in 0 .. X!LEAVES - 1 :
              Tree(parameter)[0][j] = LeafHash(parameter, j, Tops(parameter, j))
         /\ \A l \in 1 .. HEIGHT : \A j \in 0 .. Width(l) - 1 :
              Tree(parameter)[l][j] = Node(parameter, l, j, Tree(parameter)[l - 1][2 * j],
                                           Tree(parameter)[l - 1][2 * j + 1])
<1>1. \E level : IsTree(level, parameter, HEIGHT)
  BY TreeExists, HazmatConstantsOK
<1> DEFINE t == CHOOSE level : IsTree(level, parameter, HEIGHT)
<1>2. Tree(parameter) = t
  BY DEF Tree, IsTree, Tops
<1>3. IsTree(t, parameter, HEIGHT)
  BY <1>1
<1> HIDE DEF t
<1>4. ASSUME NEW l \in 0 .. HEIGHT
      PROVE  t[l] = [j \in 0 .. Width(l) - 1 |->
                       IF l = 0 THEN LeafHash(parameter, j, Tops(parameter, j))
                       ELSE Node(parameter, l, j, t[l - 1][2 * j], t[l - 1][2 * j + 1])]
  BY <1>3 DEF IsTree, Width
<1>5. \A l \in 0 .. HEIGHT : DOMAIN t[l] = 0 .. Width(l) - 1
  BY <1>4
<1>6. ASSUME NEW j \in 0 .. X!LEAVES - 1 PROVE t[0][j] = LeafHash(parameter, j, Tops(parameter, j))
  <2>1. 0 \in 0 .. HEIGHT /\ j \in 0 .. Width(0) - 1
    BY HazmatConstantsOK, Widths
  <2> QED
    BY <1>4, <2>1
<1>7. ASSUME NEW l \in 1 .. HEIGHT, NEW j \in 0 .. Width(l) - 1
      PROVE  t[l][j] = Node(parameter, l, j, t[l - 1][2 * j], t[l - 1][2 * j + 1])
  <2>1. l \in 0 .. HEIGHT /\ l # 0
    BY HazmatConstantsOK
  <2> QED
    BY <1>4, <2>1
<1> QED
  BY <1>2, <1>5, <1>6, <1>7

-----------------------------------------------------------------------------
(* Keys *)

\* The secrets of n leaves, as a random source gave them.
Given(leaves) == [n \in 0 .. leaves * CHAINS - 1 |-> Sampled(n)]

LEMMA StartIs ==
  ASSUME NEW leaves \in Nat, NEW leaf \in 0 .. leaves - 1, NEW i \in Chains
  PROVE  Start(Given(leaves), leaf, i) = <<"start", leaf, i>>
<1>1. CHAINS \in Nat \ {0} /\ i \in 0 .. CHAINS - 1
  BY EncodingOK DEF Chains
<1> DEFINE n == CHAINS * leaf + i
<1>2. n \div CHAINS = leaf /\ n % CHAINS = i
  BY <1>1, DivUnique
<1>3. CHAINS * (leaf + 1) <= CHAINS * leaves /\ CHAINS * (leaf + 1) = CHAINS * leaf + CHAINS
  BY <1>1
<1>4. leaf * CHAINS + i = n /\ leaves * CHAINS = CHAINS * leaves /\ CHAINS * leaves \in Nat /\ n \in Nat
  BY <1>1
<1>5. n \in 0 .. leaves * CHAINS - 1
  BY <1>1, <1>3, <1>4
<1>6. Start(Given(leaves), leaf, i) = Given(leaves)[n]
  BY <1>4 DEF Start
<1> HIDE DEF n
<1>7. Given(leaves)[n] = Sampled(n)
  BY <1>5 DEF Given
<1> QED
  BY <1>2, <1>6, <1>7 DEF Sampled

\* From a secret start a walk gets to the elements of the scheme.
LEMMA WalkFromStart ==
  ASSUME NEW parameter, NEW leaves \in Nat, NEW leaf \in 0 .. leaves - 1, NEW i \in Chains, NEW k \in Positions
  PROVE  Walk(parameter, leaf, i, 0, k, Start(Given(leaves), leaf, i)) = Chain(parameter, leaf, i)[k]
BY StartIs, ChainIsWalk

LEMMA LastPosition == POSITIONS - 1 \in Positions /\ Positions \subseteq Nat /\ 0 \in Positions
BY EncodingOK DEF Positions

LEMMA SecretEndsAreTops ==
  ASSUME NEW parameter, NEW leaves \in Nat, NEW leaf \in 0 .. leaves - 1
  PROVE  SecretEnds(Given(leaves), parameter, leaf) = Tops(parameter, leaf)
<1>1. \A i \in Chains :
        Walk(parameter, leaf, i, 0, POSITIONS - 1, Start(Given(leaves), leaf, i))
          = Chain(parameter, leaf, i)[POSITIONS - 1]
  BY WalkFromStart, LastPosition
<1> QED
  BY <1>1 DEF SecretEnds, Tops

-----------------------------------------------------------------------------
(* The array of nodes *)

\* Index and level of the node j of level l, in both languages.
LEMMA NodeAt ==
  ASSUME NEW l \in 1 .. HEIGHT, NEW j \in 0 .. Width(l) - 1
  PROVE  LET n == X!Level(l) + j IN
         /\ n \in 0 .. 2 * X!LEAVES - 2 /\ ~ (n < X!LEAVES) /\ n - X!Level(l) = j
         /\ (CHOOSE m \in 1 .. HEIGHT : n - X!Level(m) \in 0 .. X!LEAVES \div X!Pow2[m] - 1) = l
<1> DEFINE n == X!Level(l) + j
<1>1. l \in 0 .. HEIGHT /\ l - 1 \in 0 .. HEIGHT - 1 /\ (l - 1) + 1 = l /\ 0 \in 0 .. HEIGHT /\ 0 < l
  BY HazmatConstantsOK
<1>2. X!Level(l) = 2 * X!LEAVES - 2 * Width(l) /\ Width(l) \in Nat \ {0} /\ X!LEAVES \in Nat
  BY <1>1, Levels, Widths
<1>3. 2 * Width(l) <= X!LEAVES
  BY <1>1, WidthsFall, Widths
<1>4. n \in 0 .. 2 * X!LEAVES - 2 /\ ~ (n < X!LEAVES) /\ n - X!Level(l) = j /\ n \in Nat
  BY <1>2, <1>3
<1> HIDE DEF n
<1> DEFINE Here(m) == n - X!Level(m) \in 0 .. X!LEAVES \div X!Pow2[m] - 1
<1>5. Here(l)
  BY <1>1, <1>4, Shifted
<1>6. ASSUME NEW m \in 1 .. HEIGHT, Here(m) PROVE m = l
  <2>1. m \in 0 .. HEIGHT
    BY HazmatConstantsOK
  <2>2. n - X!Level(m) \in 0 .. Width(m) - 1
    BY <1>6, <2>1, Shifted
  <2> QED
    BY <1>1, <1>4, <2>1, <2>2, LevelsApart
<1> HIDE DEF Here
<1>7. (CHOOSE m \in 1 .. HEIGHT : Here(m)) = l
  BY <1>5, <1>6
<1> QED
  BY <1>4, <1>7 DEF n, Here

LEMMA EveryNode ==
  ASSUME NEW n \in 0 .. 2 * X!LEAVES - 2, ~ (n < X!LEAVES)
  PROVE  \E l \in 1 .. HEIGHT : \E j \in 0 .. Width(l) - 1 : n = X!Level(l) + j
<1>1. PICK l \in 0 .. HEIGHT : n - X!Level(l) \in 0 .. Width(l) - 1
  BY LevelOf
<1>2. l # 0
  BY <1>1, Levels, Widths
<1>3. l \in 1 .. HEIGHT /\ X!Level(l) = 2 * X!LEAVES - 2 * Width(l)
  BY <1>2, Levels, HazmatConstantsOK
<1>4. X!Level(l) \in Int /\ n \in Nat
  BY <1>3, Widths
<1>5. n = X!Level(l) + (n - X!Level(l))
  BY <1>4
<1> QED
  BY <1>1, <1>3, <1>5

\* node is the tree over the ends of a leaf's chains, level after level.
Laid(node, parameter) ==
  /\ \A j \in 0 .. X!LEAVES - 1 : node[j] = LeafHash(parameter, j, Tops(parameter, j))
  /\ \A l \in 1 .. HEIGHT : \A j \in 0 .. Width(l) - 1 :
       node[X!Level(l) + j] = Node(parameter, l, j, node[X!Level(l - 1) + 2 * j],
                                   node[X!Level(l - 1) + 2 * j + 1])

\* There is such an array.
LEMMA LaidExists ==
  ASSUME NEW parameter
  PROVE  \E node : Laid(node, parameter) /\ node = [n \in 0 .. 2 * X!LEAVES - 2 |-> node[n]]
<1> DEFINE on(n) == CHOOSE l \in 0 .. HEIGHT : n - X!Level(l) \in 0 .. Width(l) - 1
           node == [n \in 0 .. 2 * X!LEAVES - 2 |-> Tree(parameter)[on(n)][n - X!Level(on(n))]]
<1>1. ASSUME NEW l \in 0 .. HEIGHT, NEW j \in 0 .. Width(l) - 1
      PROVE  node[X!Level(l) + j] = Tree(parameter)[l][j]
  <2> DEFINE n == X!Level(l) + j
  <2>1. X!Level(l) = 2 * X!LEAVES - 2 * Width(l) /\ Width(l) \in Nat /\ X!LEAVES \in Nat \ {0}
    BY Levels, Widths
  <2>2. Width(l) <= X!LEAVES
    <3>1. CASE l = 0
      BY <3>1, <2>1, Widths
    <3>2. CASE l # 0
      <4>1. 0 \in 0 .. HEIGHT /\ 0 < l
        BY <3>2, HazmatConstantsOK
      <4>2. 2 * Width(l) <= Width(0)
        BY <4>1, WidthsFall
      <4> QED
        BY <2>1, <4>2, Widths
    <3> QED
      BY <3>1, <3>2
  <2>3. n \in 0 .. 2 * X!LEAVES - 2 /\ n - X!Level(l) = j /\ n \in Nat
    BY <2>1, <2>2
  <2> HIDE DEF n
  <2>4. on(n) = l
    <3>1. \A m \in 0 .. HEIGHT : n - X!Level(m) \in 0 .. Width(m) - 1 => m = l
      BY <2>3, LevelsApart
    <3> QED
      BY <2>3, <3>1
  <2>5. node[n] = Tree(parameter)[l][n - X!Level(l)]
    BY <2>3, <2>4
  <2> QED
    BY <2>3, <2>5 DEF n
<1>2. node = [n \in 0 .. 2 * X!LEAVES - 2 |-> node[n]]
  OBVIOUS
<1> HIDE DEF node
<1>3. ASSUME NEW j \in 0 .. X!LEAVES - 1 PROVE node[j] = LeafHash(parameter, j, Tops(parameter, j))
  <2>0. Width(0) = X!LEAVES /\ X!Level(0) = 0 /\ X!LEAVES \in Nat
    BY Widths, Levels
  <2>1. 0 \in 0 .. HEIGHT /\ j \in 0 .. Width(0) - 1 /\ X!Level(0) + j = j
    BY <2>0, HazmatConstantsOK
  <2>2. node[j] = Tree(parameter)[0][j]
    BY <1>1, <2>1
  <2> QED
    BY <2>2, TreeIs
<1>4. ASSUME NEW l \in 1 .. HEIGHT, NEW j \in 0 .. Width(l) - 1
      PROVE  node[X!Level(l) + j] = Node(parameter, l, j, node[X!Level(l - 1) + 2 * j],
                                         node[X!Level(l - 1) + 2 * j + 1])
  <2>1. l \in 0 .. HEIGHT /\ l - 1 \in 0 .. HEIGHT /\ l - 1 \in 0 .. HEIGHT - 1 /\ (l - 1) + 1 = l
    BY HazmatConstantsOK
  <2>2. Width(l - 1) = 2 * Width(l) /\ Width(l) \in Nat
    BY <2>1, Widths
  <2>3. 2 * j \in 0 .. Width(l - 1) - 1 /\ 2 * j + 1 \in 0 .. Width(l - 1) - 1
    BY <2>2
  <2>4. X!Level(l - 1) \in Int
    BY <2>1, Levels, Widths
  <2>5. X!Level(l - 1) + 2 * j + 1 = X!Level(l - 1) + (2 * j + 1)
    BY <2>4
  <2>6. /\ node[X!Level(l) + j] = Tree(parameter)[l][j]
        /\ node[X!Level(l - 1) + 2 * j] = Tree(parameter)[l - 1][2 * j]
        /\ node[X!Level(l - 1) + 2 * j + 1] = Tree(parameter)[l - 1][2 * j + 1]
    BY <1>1, <2>1, <2>3, <2>5
  <2> QED
    BY <2>6, TreeIs
<1> QED
  BY <1>2, <1>3, <1>4 DEF Laid

\* Every such array holds the reference tree.
LEMMA LaidIsTree ==
  ASSUME NEW parameter, NEW node, Laid(node, parameter)
  PROVE  \A l \in 0 .. HEIGHT : \A j \in 0 .. Width(l) - 1 : node[X!Level(l) + j] = Tree(parameter)[l][j]
<1> DEFINE S == {l \in Nat : l <= HEIGHT =>
                   \A j \in 0 .. Width(l) - 1 : node[X!Level(l) + j] = Tree(parameter)[l][j]}
<1>1. 0 \in S
  <2> SUFFICES ASSUME NEW j \in 0 .. Width(0) - 1 PROVE node[X!Level(0) + j] = Tree(parameter)[0][j]
    OBVIOUS
  <2>1. X!Level(0) + j = j /\ j \in 0 .. X!LEAVES - 1
    BY Levels, Widths
  <2> QED
    BY <2>1, TreeIs DEF Laid
<1>2. ASSUME NEW k \in Nat, k \in S PROVE k + 1 \in S
  <2> SUFFICES ASSUME k + 1 <= HEIGHT, NEW j \in 0 .. Width(k + 1) - 1
               PROVE  node[X!Level(k + 1) + j] = Tree(parameter)[k + 1][j]
    OBVIOUS
  <2>1. k + 1 \in 1 .. HEIGHT /\ k \in 0 .. HEIGHT /\ k \in 0 .. HEIGHT - 1 /\ k <= HEIGHT /\ (k + 1) - 1 = k
    BY HazmatConstantsOK
  <2>2. Width(k) = 2 * Width(k + 1) /\ Width(k + 1) \in Nat /\ X!Level(k) \in Int
    BY <2>1, Widths, Levels
  <2>3. 2 * j \in 0 .. Width(k) - 1 /\ 2 * j + 1 \in 0 .. Width(k) - 1
    BY <2>2
  <2>4. X!Level(k) + 2 * j + 1 = X!Level(k) + (2 * j + 1)
    BY <2>2
  <2>5. \A i \in 0 .. Width(k) - 1 : node[X!Level(k) + i] = Tree(parameter)[k][i]
    BY <1>2, <2>1
  <2>6. node[X!Level(k + 1) + j]
          = Node(parameter, k + 1, j, node[X!Level(k) + 2 * j], node[X!Level(k) + 2 * j + 1])
    BY <2>1 DEF Laid
  <2>7. Tree(parameter)[k + 1][j] = Node(parameter, k + 1, j, Tree(parameter)[k][2 * j], Tree(parameter)[k][2 * j + 1])
    <3>1. Tree(parameter)[k + 1][j] = Node(parameter, k + 1, j, Tree(parameter)[(k + 1) - 1][2 * j],
                                           Tree(parameter)[(k + 1) - 1][2 * j + 1])
      BY <2>1, TreeIs
    <3> QED
      BY <2>1, <3>1
  <2> QED
    BY <2>3, <2>4, <2>5, <2>6, <2>7
<1> HIDE DEF S
<1>3. \A l \in Nat : l \in S
  BY <1>1, <1>2, Induction
<1> QED
  BY <1>3, HazmatConstantsOK DEF S

\* Nodes as xmss.rs fills it.
LEMMA NodesAreLaid ==
  ASSUME NEW parameter
  PROVE  Laid(X!Nodes(Given(X!LEAVES), parameter), parameter)
<1> DEFINE secrets == Given(X!LEAVES)
           Entry(node, n) ==
             IF n < X!LEAVES
             THEN X!LeafHash(parameter, n, X!SecretEnds(secrets, parameter, n))
             ELSE LET l == CHOOSE l \in 1 .. HEIGHT : n - X!Level(l) \in 0 .. X!LEAVES \div X!Pow2[l] - 1
                      i == n - X!Level(l)
                      child == X!Level(l - 1) + 2 * i
                  IN X!Node(parameter, l, i, node[child], node[child + 1])
<1>0. X!LEAVES \in Nat
  BY Widths
<1>1. ASSUME NEW node, NEW n \in 0 .. X!LEAVES - 1
      PROVE  Entry(node, n) = LeafHash(parameter, n, Tops(parameter, n))
  <2>1. n < X!LEAVES
    BY <1>0
  <2>2. X!SecretEnds(secrets, parameter, n) = Tops(parameter, n)
    BY <1>0, SameForXmss, SecretEndsAreTops
  <2> QED
    BY <2>1, <2>2, SameForXmss
<1>2. ASSUME NEW node, NEW l \in 1 .. HEIGHT, NEW j \in 0 .. Width(l) - 1
      PROVE  Entry(node, X!Level(l) + j)
               = Node(parameter, l, j, node[X!Level(l - 1) + 2 * j], node[X!Level(l - 1) + 2 * j + 1])
  <2> DEFINE n == X!Level(l) + j
  <2>1. /\ ~ (n < X!LEAVES) /\ n - X!Level(l) = j
        /\ (CHOOSE m \in 1 .. HEIGHT : n - X!Level(m) \in 0 .. X!LEAVES \div X!Pow2[m] - 1) = l
    BY NodeAt
  <2> HIDE DEF n
  <2>2. Entry(node, n) = X!Node(parameter, l, j, node[X!Level(l - 1) + 2 * j], node[X!Level(l - 1) + 2 * j + 1])
    BY <2>1
  <2> QED
    BY <2>2, SameForXmss DEF n
<1> HIDE DEF Entry
<1>3. \E node : node = [n \in 0 .. 2 * X!LEAVES - 2 |-> Entry(node, n)]
  <2>1. PICK node : Laid(node, parameter) /\ node = [n \in 0 .. 2 * X!LEAVES - 2 |-> node[n]]
    BY LaidExists
  <2>2. ASSUME NEW n \in 0 .. 2 * X!LEAVES - 2 PROVE node[n] = Entry(node, n)
    <3>1. CASE n < X!LEAVES
      <4>1. n \in 0 .. X!LEAVES - 1
        BY <1>0, <3>1
      <4> QED
        BY <1>1, <2>1, <4>1 DEF Laid
    <3>2. CASE ~ (n < X!LEAVES)
      <4>1. PICK l \in 1 .. HEIGHT : \E j \in 0 .. Width(l) - 1 : n = X!Level(l) + j
        BY <3>2, EveryNode
      <4>2. PICK j \in 0 .. Width(l) - 1 : n = X!Level(l) + j
        BY <4>1
      <4> QED
        BY <1>2, <2>1, <4>2 DEF Laid
    <3> QED
      BY <3>1, <3>2
  <2>3. node = [n \in 0 .. 2 * X!LEAVES - 2 |-> Entry(node, n)]
    BY <2>1, <2>2, Zenon
  <2> QED
    BY <2>3
<1> DEFINE f == CHOOSE node : node = [n \in 0 .. 2 * X!LEAVES - 2 |-> Entry(node, n)]
<1>4. f = [n \in 0 .. 2 * X!LEAVES - 2 |-> Entry(f, n)]
  BY <1>3
<1>5. X!Nodes(secrets, parameter) = f
  BY DEF X!Nodes, Entry
<1> HIDE DEF f
<1>6. ASSUME NEW j \in 0 .. X!LEAVES - 1 PROVE f[j] = LeafHash(parameter, j, Tops(parameter, j))
  <2>1. j \in 0 .. 2 * X!LEAVES - 2
    BY <1>0
  <2>2. f[j] = Entry(f, j)
    BY <1>4, <2>1, Zenon
  <2> QED
    BY <1>1, <2>2
<1>7. ASSUME NEW l \in 1 .. HEIGHT, NEW j \in 0 .. Width(l) - 1
      PROVE  f[X!Level(l) + j] = Node(parameter, l, j, f[X!Level(l - 1) + 2 * j], f[X!Level(l - 1) + 2 * j + 1])
  <2>1. X!Level(l) + j \in 0 .. 2 * X!LEAVES - 2
    BY NodeAt
  <2>2. f[X!Level(l) + j] = Entry(f, X!Level(l) + j)
    BY <1>4, <2>1, Zenon
  <2> QED
    BY <1>2, <2>2
<1> QED
  BY <1>5, <1>6, <1>7 DEF Laid

\* The walk of core.ts is the walk of lib.rs.
LEMMA TsWalkIsWalk ==
  ASSUME NEW parameter, NEW leaf, NEW i, NEW from \in Nat, NEW to \in Nat, from <= to, NEW start
  PROVE  TsWalk(parameter, leaf, i, from, to, start) = Walk(parameter, leaf, i, from, to, start)
<1>1. PICK at : /\ IsWalk(at, parameter, leaf, i, from, to, start)
                /\ Walk(parameter, leaf, i, from, to, start) = at[to]
  BY WalkIs
<1> DEFINE Step(after, k) == IF k = from THEN start ELSE <<"chain", parameter, leaf, i, k, after[k - 1]>>
           TsStep(after, k) ==
             IF k = from THEN start ELSE <<"chain", parameter, leaf, i, (k - 1) + 1, after[k - 1]>>
<1>2. \A after : \A k \in from .. to : TsStep(after, k) = Step(after, k)
  BY SMT
<1> DEFINE f == CHOOSE after : after = [k \in from .. to |-> TsStep(after, k)]
<1>3. TsWalk(parameter, leaf, i, from, to, start) = f[to]
  BY DEF TsWalk
<1>4. \A after : IsWalk(after, parameter, leaf, i, from, to, start) <=> after = [k \in from .. to |-> Step(after, k)]
  BY DEF IsWalk
<1> HIDE DEF Step
<1> HIDE DEF TsStep
<1>5. \A after : [k \in from .. to |-> TsStep(after, k)] = [k \in from .. to |-> Step(after, k)]
  BY <1>2, Zenon
<1>6. at = [k \in from .. to |-> TsStep(at, k)]
  BY <1>1, <1>4, <1>5, Zenon
<1>7. f = [k \in from .. to |-> TsStep(f, k)]
  BY <1>6, Zenon
<1> HIDE DEF f
<1>8. IsWalk(f, parameter, leaf, i, from, to, start)
  BY <1>4, <1>5, <1>7, Zenon
<1>9. f[to] = at[to]
  BY <1>1, <1>8, WalksAgree
<1> QED
  BY <1>1, <1>3, <1>9

LEMMA TsEndsAreTops ==
  ASSUME NEW parameter, NEW leaves \in Nat, NEW leaf \in 0 .. leaves - 1
  PROVE  TsEndsOf(Given(leaves), parameter, leaf) = Tops(parameter, leaf)
<1>1. ASSUME NEW i \in Chains
      PROVE  TsWalk(parameter, leaf, i, 0, POSITIONS - 1, TsStart(Given(leaves), leaf, i))
               = Chain(parameter, leaf, i)[POSITIONS - 1]
  <2>1. 0 \in Nat /\ POSITIONS - 1 \in Nat /\ 0 <= POSITIONS - 1
    BY EncodingOK
  <2>2. TsStart(Given(leaves), leaf, i) = Start(Given(leaves), leaf, i)
    BY DEF TsStart, Start
  <2>3. TsWalk(parameter, leaf, i, 0, POSITIONS - 1, TsStart(Given(leaves), leaf, i))
          = Walk(parameter, leaf, i, 0, POSITIONS - 1, TsStart(Given(leaves), leaf, i))
    BY <2>1, TsWalkIsWalk
  <2> QED
    BY <2>2, <2>3, WalkFromStart, LastPosition
<1> QED
  BY <1>1 DEF TsEndsOf, Tops

\* The array as the constructor of hazmat/xmss.ts fills it.
LEMMA TsNodesAreLaid ==
  ASSUME NEW parameter
  PROVE  Laid(TsNodes(Given(X!LEAVES), parameter), parameter)
<1> DEFINE secrets == Given(X!LEAVES)
           Entry(nodes, n) ==
             IF n < X!LEAVES THEN LeafHash(parameter, n, TsEndsOf(secrets, parameter, n)) ELSE
             LET l == CHOOSE l \in 1 .. HEIGHT : n \in TsLevelOffset(l) .. TsLevelOffset(l) + X!LEAVES \div X!Pow2[l] - 1
                 i == n - TsLevelOffset(l)
                 child == TsLevelOffset(l - 1) + 2 * i
             IN Node(parameter, l, i, nodes[child], nodes[child + 1])
<1>0. X!LEAVES \in Nat /\ \A l : TsLevelOffset(l) = X!Level(l)
  BY Widths DEF TsLevelOffset, X!Level
<1>1. ASSUME NEW node, NEW n \in 0 .. X!LEAVES - 1
      PROVE  Entry(node, n) = LeafHash(parameter, n, Tops(parameter, n))
  <2>1. n < X!LEAVES
    BY <1>0
  <2>2. TsEndsOf(secrets, parameter, n) = Tops(parameter, n)
    BY <1>0, TsEndsAreTops
  <2> QED
    BY <2>1, <2>2
<1>2. ASSUME NEW node, NEW l \in 1 .. HEIGHT, NEW j \in 0 .. Width(l) - 1
      PROVE  Entry(node, X!Level(l) + j)
               = Node(parameter, l, j, node[X!Level(l - 1) + 2 * j], node[X!Level(l - 1) + 2 * j + 1])
  <2> DEFINE n == X!Level(l) + j
  <2>1. /\ ~ (n < X!LEAVES) /\ n - X!Level(l) = j /\ n \in Nat
        /\ (CHOOSE m \in 1 .. HEIGHT : n - X!Level(m) \in 0 .. X!LEAVES \div X!Pow2[m] - 1) = l
    BY NodeAt
  <2> HIDE DEF n
  <2> DEFINE There(m) == n - X!Level(m) \in 0 .. X!LEAVES \div X!Pow2[m] - 1
             TsThere(m) == n \in TsLevelOffset(m) .. TsLevelOffset(m) + X!LEAVES \div X!Pow2[m] - 1
  <2>2. ASSUME NEW m \in 1 .. HEIGHT PROVE TsThere(m) <=> There(m)
    <3>1. m \in 0 .. HEIGHT
      BY HazmatConstantsOK
    <3>2. X!LEAVES \div X!Pow2[m] \in Nat /\ X!Level(m) \in Int
      BY <3>1, Shifted, Levels, Widths
    <3> QED
      BY <1>0, <2>1, <3>2
  <2>3. (CHOOSE m \in 1 .. HEIGHT : There(m)) = l
    BY <2>1
  <2>4. \E m \in 1 .. HEIGHT : There(m)
    <3>1. n - X!Level(l) \in 0 .. X!LEAVES \div X!Pow2[l] - 1
      BY <2>1, Shifted, HazmatConstantsOK
    <3> QED
      BY <3>1
  <2> HIDE DEF There
  <2> HIDE DEF TsThere
  <2>5. (CHOOSE m \in 1 .. HEIGHT : TsThere(m)) = l
    BY <2>2, <2>3, <2>4
  <2> QED
    BY <1>0, <2>1, <2>5 DEF TsThere, n
<1> HIDE DEF Entry
<1>3. \E node : node = [n \in 0 .. 2 * X!LEAVES - 2 |-> Entry(node, n)]
  <2>1. PICK node : Laid(node, parameter) /\ node = [n \in 0 .. 2 * X!LEAVES - 2 |-> node[n]]
    BY LaidExists
  <2>2. ASSUME NEW n \in 0 .. 2 * X!LEAVES - 2 PROVE node[n] = Entry(node, n)
    <3>1. CASE n < X!LEAVES
      <4>1. n \in 0 .. X!LEAVES - 1
        BY <1>0, <3>1
      <4> QED
        BY <1>1, <2>1, <4>1 DEF Laid
    <3>2. CASE ~ (n < X!LEAVES)
      <4>1. PICK l \in 1 .. HEIGHT : \E j \in 0 .. Width(l) - 1 : n = X!Level(l) + j
        BY <3>2, EveryNode
      <4>2. PICK j \in 0 .. Width(l) - 1 : n = X!Level(l) + j
        BY <4>1
      <4> QED
        BY <1>2, <2>1, <4>2 DEF Laid
    <3> QED
      BY <3>1, <3>2
  <2>3. node = [n \in 0 .. 2 * X!LEAVES - 2 |-> Entry(node, n)]
    BY <2>1, <2>2, Zenon
  <2> QED
    BY <2>3
<1> DEFINE f == CHOOSE node : node = [n \in 0 .. 2 * X!LEAVES - 2 |-> Entry(node, n)]
<1>4. f = [n \in 0 .. 2 * X!LEAVES - 2 |-> Entry(f, n)]
  BY <1>3
<1>5. TsNodes(secrets, parameter) = f
  BY DEF TsNodes, Entry
<1> HIDE DEF f
<1>6. ASSUME NEW j \in 0 .. X!LEAVES - 1 PROVE f[j] = LeafHash(parameter, j, Tops(parameter, j))
  <2>1. j \in 0 .. 2 * X!LEAVES - 2
    BY <1>0
  <2>2. f[j] = Entry(f, j)
    BY <1>4, <2>1, Zenon
  <2> QED
    BY <1>1, <2>2
<1>7. ASSUME NEW l \in 1 .. HEIGHT, NEW j \in 0 .. Width(l) - 1
      PROVE  f[X!Level(l) + j] = Node(parameter, l, j, f[X!Level(l - 1) + 2 * j], f[X!Level(l - 1) + 2 * j + 1])
  <2>1. X!Level(l) + j \in 0 .. 2 * X!LEAVES - 2
    BY NodeAt
  <2>2. f[X!Level(l) + j] = Entry(f, X!Level(l) + j)
    BY <1>4, <2>1, Zenon
  <2> QED
    BY <1>2, <2>2
<1> QED
  BY <1>5, <1>6, <1>7 DEF Laid

-----------------------------------------------------------------------------
(* From a leaf to the root *)

\* current is the nodes on the way up, as a signature's path completes them.
IsClimb(current, parameter, leaf, first, path, h) ==
  current = [level \in 0 .. h |->
               IF level = 0 THEN first ELSE
               IF (leaf \div X!Pow2[level - 1]) % 2 = 0
               THEN Node(parameter, level, leaf \div X!Pow2[level], current[level - 1], path[level - 1])
               ELSE Node(parameter, level, leaf \div X!Pow2[level], path[level - 1], current[level - 1])]

LEMMA ClimbExists ==
  ASSUME NEW parameter, NEW leaf, NEW first, NEW path
  PROVE  \A h \in Nat : \E current : IsClimb(current, parameter, leaf, first, path, h)
<1> DEFINE Up(l, below) ==
             IF l = 0 THEN first ELSE
             IF (leaf \div X!Pow2[l - 1]) % 2 = 0
             THEN Node(parameter, l, leaf \div X!Pow2[l], below, path[l - 1])
             ELSE Node(parameter, l, leaf \div X!Pow2[l], path[l - 1], below)
           S == {h \in Nat : \E current : IsClimb(current, parameter, leaf, first, path, h)}
<1>a. \A current, h : IsClimb(current, parameter, leaf, first, path, h)
                        <=> current = [l \in 0 .. h |-> Up(l, current[l - 1])]
  BY DEF IsClimb
<1>b. \A b : Up(0, b) = first
  OBVIOUS
<1> HIDE DEF Up
<1>1. 0 \in S
  <2> DEFINE current == [l \in 0 .. 0 |-> first]
  <2>1. \A l \in 0 .. 0 : current[l] = Up(l, current[l - 1])
    BY <1>b
  <2>2. current = [l \in 0 .. 0 |-> current[l]]
    OBVIOUS
  <2> HIDE DEF current
  <2>3. current = [l \in 0 .. 0 |-> Up(l, current[l - 1])]
    BY <2>1, <2>2, Zenon
  <2>4. IsClimb(current, parameter, leaf, first, path, 0)
    BY <1>a, <2>3, Zenon
  <2> QED
    BY <2>4
<1>2. ASSUME NEW h \in Nat, h \in S PROVE h + 1 \in S
  <2>1. PICK current : IsClimb(current, parameter, leaf, first, path, h)
    BY <1>2
  <2> DEFINE higher == [l \in 0 .. h + 1 |-> IF l = h + 1 THEN Up(l, current[h]) ELSE current[l]]
  <2>2. ASSUME NEW l \in 0 .. h + 1 PROVE higher[l] = Up(l, higher[l - 1])
    <3>1. CASE l = h + 1
      <4>1. l - 1 = h /\ h \in 0 .. h + 1 /\ h # h + 1
        BY <3>1
      <4>2. higher[l - 1] = current[h]
        BY <4>1
      <4> QED
        BY <3>1, <4>2
    <3>2. CASE l # h + 1 /\ l # 0
      <4>1. l \in 0 .. h /\ l - 1 \in 0 .. h + 1 /\ l - 1 # h + 1
        BY <3>2
      <4>2. current[l] = Up(l, current[l - 1])
        BY <1>a, <2>1, <4>1
      <4> QED
        BY <3>2, <4>1, <4>2
    <3>3. CASE l = 0
      <4>1. l # h + 1 /\ l \in 0 .. h
        BY <3>3
      <4>2. current[l] = Up(l, current[l - 1])
        BY <1>a, <2>1, <4>1
      <4> QED
        BY <1>b, <3>3, <4>1, <4>2
    <3> QED
      BY <3>1, <3>2, <3>3
  <2>3. higher = [l \in 0 .. h + 1 |-> higher[l]]
    OBVIOUS
  <2> HIDE DEF higher
  <2>4. higher = [l \in 0 .. h + 1 |-> Up(l, higher[l - 1])]
    BY <2>2, <2>3, Zenon
  <2>5. IsClimb(higher, parameter, leaf, first, path, h + 1)
    BY <1>a, <2>4, Zenon
  <2> QED
    BY <2>5
<1> HIDE DEF S
<1>3. \A h \in Nat : h \in S
  BY <1>1, <1>2, Induction
<1> QED
  BY <1>3 DEF S

LEMMA ClimbsAgree ==
  ASSUME NEW parameter, NEW leaf, NEW first, NEW path, NEW a, NEW b,
         IsClimb(a, parameter, leaf, first, path, HEIGHT), IsClimb(b, parameter, leaf, first, path, HEIGHT)
  PROVE  a[HEIGHT] = b[HEIGHT]
<1> DEFINE S == {l \in Nat : l <= HEIGHT => a[l] = b[l]}
<1>1. 0 \in S
  BY HazmatConstantsOK DEF IsClimb
<1>2. ASSUME NEW l \in Nat, l \in S PROVE l + 1 \in S
  <2> SUFFICES ASSUME l + 1 <= HEIGHT PROVE a[l + 1] = b[l + 1]
    OBVIOUS
  <2> DEFINE m == l + 1
  <2>1. m \in 0 .. HEIGHT /\ m # 0 /\ m - 1 = l /\ a[l] = b[l]
    BY <1>2, HazmatConstantsOK
  <2> HIDE DEF m
  <2>2. a[m] = IF (leaf \div X!Pow2[m - 1]) % 2 = 0
               THEN Node(parameter, m, leaf \div X!Pow2[m], a[m - 1], path[m - 1])
               ELSE Node(parameter, m, leaf \div X!Pow2[m], path[m - 1], a[m - 1])
    BY <2>1 DEF IsClimb
  <2>3. b[m] = IF (leaf \div X!Pow2[m - 1]) % 2 = 0
               THEN Node(parameter, m, leaf \div X!Pow2[m], b[m - 1], path[m - 1])
               ELSE Node(parameter, m, leaf \div X!Pow2[m], path[m - 1], b[m - 1])
    BY <2>1 DEF IsClimb
  <2>4. a[m - 1] = b[m - 1]
    BY <2>1
  <2>5. a[m] = b[m]
    BY <2>2, <2>3, <2>4, Zenon
  <2> QED
    BY <2>5 DEF m
<1> HIDE DEF S
<1>3. HEIGHT \in S
  BY <1>1, <1>2, Induction, HazmatConstantsOK
<1> QED
  BY <1>3, HazmatConstantsOK DEF S

\* The verifier of xmss.rs climbs.
LEMMA RootIs ==
  ASSUME NEW parameter, NEW signature, NEW ends
  PROVE  \E current :
           /\ IsClimb(current, parameter, signature.leaf, LeafHash(parameter, signature.leaf, ends),
                      signature.path, HEIGHT)
           /\ X!RootOf(parameter, signature, ends) = current[HEIGHT]
<1> DEFINE leaf == signature.leaf
           first == LeafHash(parameter, leaf, ends)
           path == signature.path
           Up(current, level) ==
             IF level = 0 THEN X!LeafHash(parameter, leaf, ends) ELSE
             LET index == leaf \div X!Pow2[level]
                 sibling == signature.path[level - 1]
             IN IF (leaf \div X!Pow2[level - 1]) % 2 = 0
                THEN X!Node(parameter, level, index, current[level - 1], sibling)
                ELSE X!Node(parameter, level, index, sibling, current[level - 1])
           f == CHOOSE current : current = [level \in 0 .. HEIGHT |-> Up(current, level)]
<1>1. X!RootOf(parameter, signature, ends) = f[HEIGHT]
  BY DEF X!RootOf
<1>2. \A current : IsClimb(current, parameter, leaf, first, path, HEIGHT)
                     <=> current = [level \in 0 .. HEIGHT |-> Up(current, level)]
  BY DEF IsClimb, X!Node, Node, X!LeafHash, LeafHash
<1>3. \E current : IsClimb(current, parameter, leaf, first, path, HEIGHT)
  BY ClimbExists, HazmatConstantsOK
<1> HIDE DEF Up
<1>4. IsClimb(f, parameter, leaf, first, path, HEIGHT)
  BY <1>2, <1>3, Zenon
<1> QED
  BY <1>1, <1>4

\* So does the one of verifying-key.ts, to the same root.
LEMMA TsCurrentIsRoot ==
  ASSUME NEW parameter, NEW signature, signature.leaf \in Nat, NEW ends
  PROVE  TsCurrent(parameter, signature.leaf, LeafHash(parameter, signature.leaf, ends), signature.path)
           = X!RootOf(parameter, signature, ends)
<1> DEFINE leaf == signature.leaf
           first == LeafHash(parameter, leaf, ends)
           path == signature.path
           Up(current, level) ==
             IF level = 0 THEN first ELSE
             IF (leaf \div X!Pow2[level - 1]) % 2 = 0
             THEN Node(parameter, level, leaf \div X!Pow2[level], current[level - 1], path[level - 1])
             ELSE Node(parameter, level, leaf \div X!Pow2[level], path[level - 1], current[level - 1])
           TsUp(current, level) ==
             IF level = 0 THEN first ELSE
             IF (leaf \div X!Pow2[level - 1]) % 2 = 1
             THEN Node(parameter, level, leaf \div X!Pow2[level], path[level - 1], current[level - 1])
             ELSE Node(parameter, level, leaf \div X!Pow2[level], current[level - 1], path[level - 1])
           f == CHOOSE current : current = [level \in 0 .. HEIGHT |-> TsUp(current, level)]
<1>1. TsCurrent(parameter, leaf, first, path) = f[HEIGHT]
  BY DEF TsCurrent
<1>2. ASSUME NEW current, NEW level \in 0 .. HEIGHT PROVE TsUp(current, level) = Up(current, level)
  <2>1. CASE level # 0
    <3>1. level - 1 \in Nat
      BY <2>1, HazmatConstantsOK
    <3>2. leaf \div X!Pow2[level - 1] \in Nat
      BY <3>1, Pow2Positive, DivMod
    <3>3. (leaf \div X!Pow2[level - 1]) % 2 = 1 <=> ~ ((leaf \div X!Pow2[level - 1]) % 2 = 0)
      BY <3>2
    <3> QED
      BY <3>3
  <2> QED
    BY <2>1
<1>3. \A current : IsClimb(current, parameter, leaf, first, path, HEIGHT)
                     <=> current = [level \in 0 .. HEIGHT |-> Up(current, level)]
  BY DEF IsClimb
<1>4. \E current : IsClimb(current, parameter, leaf, first, path, HEIGHT)
  BY ClimbExists, HazmatConstantsOK
<1> HIDE DEF Up
<1> HIDE DEF TsUp
<1>5. \A current : [level \in 0 .. HEIGHT |-> TsUp(current, level)]
                     = [level \in 0 .. HEIGHT |-> Up(current, level)]
  BY <1>2, Zenon
<1>6. IsClimb(f, parameter, leaf, first, path, HEIGHT)
  <2>1. PICK c : IsClimb(c, parameter, leaf, first, path, HEIGHT)
    BY <1>4
  <2>2. c = [level \in 0 .. HEIGHT |-> TsUp(c, level)]
    BY <1>3, <1>5, <2>1, Zenon
  <2>3. f = [level \in 0 .. HEIGHT |-> TsUp(f, level)]
    BY <2>2, Zenon
  <2> HIDE DEF f
  <2>4. f = [level \in 0 .. HEIGHT |-> Up(f, level)]
    BY <1>5, <2>3, Zenon
  <2> QED
    BY <1>3, <2>4, Zenon
<1> HIDE DEF f
<1>7. PICK current : /\ IsClimb(current, parameter, leaf, first, path, HEIGHT)
                     /\ X!RootOf(parameter, signature, ends) = current[HEIGHT]
  BY RootIs
<1>8. f[HEIGHT] = current[HEIGHT]
  BY <1>6, <1>7, ClimbsAgree
<1> QED
  BY <1>1, <1>7, <1>8

\* A node on the way is the tree's exactly if the one below and its sibling are.
LEMMA ClimbStep ==
  ASSUME NEW parameter, NEW leaf \in 0 .. X!LEAVES - 1, NEW first, NEW path, NEW current,
         IsClimb(current, parameter, leaf, first, path, HEIGHT), NEW l \in 0 .. HEIGHT - 1
  PROVE  current[l + 1] = Tree(parameter)[l + 1][Ancestor(leaf, l + 1)]
           <=> /\ current[l] = Tree(parameter)[l][Ancestor(leaf, l)]
               /\ path[l] = Tree(parameter)[l][X!Sibling(Ancestor(leaf, l))]
<1> DEFINE m == l + 1
           i == Ancestor(leaf, l)
           j == Ancestor(leaf, m)
<1>1. m \in 1 .. HEIGHT /\ m \in 0 .. HEIGHT /\ m # 0 /\ m - 1 = l /\ l \in 0 .. HEIGHT
  BY HazmatConstantsOK
<1>2. i \in 0 .. Width(l) - 1 /\ j \in 0 .. Width(m) - 1 /\ j = i \div 2
  BY <1>1, Ancestors
<1>3. /\ i % 2 = 0 => i = 2 * j /\ X!Sibling(i) = 2 * j + 1
      /\ i % 2 # 0 => i = 2 * j + 1 /\ X!Sibling(i) = 2 * j
  BY <1>2, Siblings
<1> HIDE DEF m
<1>4. Tree(parameter)[m][j] = Node(parameter, m, j, Tree(parameter)[l][2 * j], Tree(parameter)[l][2 * j + 1])
  <2>1. Tree(parameter)[m][j] = Node(parameter, m, j, Tree(parameter)[m - 1][2 * j], Tree(parameter)[m - 1][2 * j + 1])
    BY <1>1, <1>2, TreeIs
  <2> QED
    BY <1>1, <2>1
<1>5. current[m] = IF i % 2 = 0 THEN Node(parameter, m, j, current[l], path[l])
                   ELSE Node(parameter, m, j, path[l], current[l])
  <2>1. current[m] = IF (leaf \div X!Pow2[m - 1]) % 2 = 0
                     THEN Node(parameter, m, leaf \div X!Pow2[m], current[m - 1], path[m - 1])
                     ELSE Node(parameter, m, leaf \div X!Pow2[m], path[m - 1], current[m - 1])
    BY <1>1 DEF IsClimb
  <2> QED
    BY <1>1, <2>1 DEF Ancestor
<1> HIDE DEF i
<1> HIDE DEF j
<1>6. CASE i % 2 = 0
  <2>1. current[m] = Node(parameter, m, j, current[l], path[l])
    BY <1>5, <1>6
  <2>2. Tree(parameter)[m][j] = Node(parameter, m, j, Tree(parameter)[l][i], Tree(parameter)[l][X!Sibling(i)])
    BY <1>3, <1>4, <1>6
  <2> QED
    BY <2>1, <2>2 DEF Node, m, i, j
<1>7. CASE i % 2 # 0
  <2>1. current[m] = Node(parameter, m, j, path[l], current[l])
    BY <1>5, <1>7
  <2>2. Tree(parameter)[m][j] = Node(parameter, m, j, Tree(parameter)[l][X!Sibling(i)], Tree(parameter)[l][i])
    BY <1>3, <1>4, <1>7
  <2> QED
    BY <2>1, <2>2 DEF Node, m, i, j
<1> QED
  BY <1>6, <1>7

\* The whole way: the root is reached from the right leaf along the right siblings only.
LEMMA ClimbReachesRoot ==
  ASSUME NEW parameter, NEW leaf \in 0 .. X!LEAVES - 1, NEW first, NEW path, NEW current,
         IsClimb(current, parameter, leaf, first, path, HEIGHT)
  PROVE  current[HEIGHT] = Tree(parameter)[HEIGHT][0]
           <=> /\ first = Tree(parameter)[0][leaf]
               /\ \A l \in 0 .. HEIGHT - 1 : path[l] = Tree(parameter)[l][X!Sibling(Ancestor(leaf, l))]
<1> DEFINE Right(l) == current[l] = Tree(parameter)[l][Ancestor(leaf, l)]
           Beside(l) == path[l] = Tree(parameter)[l][X!Sibling(Ancestor(leaf, l))]
<1>1. \A l \in 0 .. HEIGHT - 1 : Right(l + 1) <=> Right(l) /\ Beside(l)
  BY ClimbStep
<1>2. current[0] = first
  BY HazmatConstantsOK DEF IsClimb
<1>3. Right(0) <=> first = Tree(parameter)[0][leaf]
  BY <1>2, Ancestors
<1>4. Right(HEIGHT) <=> current[HEIGHT] = Tree(parameter)[HEIGHT][0]
  BY Ancestors
<1> HIDE DEF Right
<1> HIDE DEF Beside
<1>5. ASSUME Right(HEIGHT) PROVE Right(0) /\ \A l \in 0 .. HEIGHT - 1 : Beside(l)
  <2> DEFINE S == {d \in Nat : d <= HEIGHT => Right(HEIGHT - d)}
  <2>1. 0 \in S
    <3>1. HEIGHT - 0 = HEIGHT
      BY HazmatConstantsOK
    <3> QED
      BY <1>5, <3>1
  <2>2. ASSUME NEW d \in Nat, d \in S PROVE d + 1 \in S
    <3> SUFFICES ASSUME d + 1 <= HEIGHT PROVE Right(HEIGHT - (d + 1))
      OBVIOUS
    <3>1. HEIGHT - (d + 1) \in 0 .. HEIGHT - 1 /\ (HEIGHT - (d + 1)) + 1 = HEIGHT - d /\ d <= HEIGHT
      BY HazmatConstantsOK
    <3>2. Right(HEIGHT - d)
      BY <2>2, <3>1
    <3> QED
      BY <1>1, <3>1, <3>2
  <2> HIDE DEF S
  <2>3. \A d \in Nat : d \in S
    BY <2>1, <2>2, Induction
  <2>4. ASSUME NEW l \in 0 .. HEIGHT PROVE Right(l)
    <3>1. HEIGHT - l \in Nat /\ HEIGHT - l <= HEIGHT /\ HEIGHT - (HEIGHT - l) = l
      BY HazmatConstantsOK
    <3>2. HEIGHT - l \in S
      BY <2>3, <3>1
    <3>3. Right(HEIGHT - (HEIGHT - l))
      BY <3>1, <3>2 DEF S
    <3> QED
      BY <3>1, <3>3
  <2>5. ASSUME NEW l \in 0 .. HEIGHT - 1 PROVE Beside(l)
    <3>1. l + 1 \in 0 .. HEIGHT
      BY HazmatConstantsOK
    <3> QED
      BY <1>1, <2>4, <3>1
  <2> QED
    BY <2>4, <2>5, HazmatConstantsOK
<1>6. ASSUME Right(0), \A l \in 0 .. HEIGHT - 1 : Beside(l) PROVE Right(HEIGHT)
  <2> DEFINE S == {l \in Nat : l <= HEIGHT => Right(l)}
  <2>1. 0 \in S
    BY <1>6
  <2>2. ASSUME NEW l \in Nat, l \in S PROVE l + 1 \in S
    <3> SUFFICES ASSUME l + 1 <= HEIGHT PROVE Right(l + 1)
      OBVIOUS
    <3>1. l \in 0 .. HEIGHT - 1 /\ l <= HEIGHT
      BY HazmatConstantsOK
    <3>2. Right(l)
      BY <2>2, <3>1
    <3> QED
      BY <1>1, <1>6, <3>1, <3>2
  <2> HIDE DEF S
  <2>3. HEIGHT \in S
    BY <2>1, <2>2, Induction, HazmatConstantsOK
  <2> QED
    BY <2>3, HazmatConstantsOK DEF S
<1> QED
  BY <1>3, <1>4, <1>5, <1>6 DEF Beside

\* A climb under another parameter ends in another node.
LEMMA ClimbTellsParameter ==
  ASSUME NEW parameter, NEW p, NEW leaf, NEW first, NEW path, NEW current,
         IsClimb(current, p, leaf, first, path, HEIGHT),
         current[HEIGHT] = Tree(parameter)[HEIGHT][0]
  PROVE  p = parameter
<1>1. HEIGHT \in 1 .. HEIGHT /\ HEIGHT \in 0 .. HEIGHT /\ HEIGHT # 0 /\ 0 \in 0 .. Width(HEIGHT) - 1
  <2>1. Width(HEIGHT) = 1
    BY Widths
  <2> QED
    BY <2>1, HazmatConstantsOK
<1>2. \E l, r : Tree(parameter)[HEIGHT][0] = Node(parameter, HEIGHT, 0, l, r)
  BY <1>1, TreeIs
<1>3. \E i, l, r : current[HEIGHT] = Node(p, HEIGHT, i, l, r)
  <2>1. current[HEIGHT] =
          IF (leaf \div X!Pow2[HEIGHT - 1]) % 2 = 0
          THEN Node(p, HEIGHT, leaf \div X!Pow2[HEIGHT], current[HEIGHT - 1], path[HEIGHT - 1])
          ELSE Node(p, HEIGHT, leaf \div X!Pow2[HEIGHT], path[HEIGHT - 1], current[HEIGHT - 1])
    BY <1>1 DEF IsClimb
  <2> QED
    BY <2>1
<1> QED
  BY <1>2, <1>3 DEF Node

\* The path of the scheme is the siblings.
LEMMA PathIs ==
  ASSUME NEW parameter, NEW leaf \in 0 .. X!LEAVES - 1
  PROVE  Path(parameter, leaf)
           = [l \in 0 .. HEIGHT - 1 |-> Tree(parameter)[l][X!Sibling(Ancestor(leaf, l))]]
<1>1. ASSUME NEW l \in 0 .. HEIGHT - 1
      PROVE  (CHOOSE j \in 0 .. X!Pow2[HEIGHT - l] - 1 :
                j # leaf \div X!Pow2[l] /\ j \div 2 = leaf \div X!Pow2[l + 1])
               = X!Sibling(Ancestor(leaf, l))
  <2> DEFINE i == Ancestor(leaf, l)
             Other(j) == j # leaf \div X!Pow2[l] /\ j \div 2 = leaf \div X!Pow2[l + 1]
  <2>1. l \in 0 .. HEIGHT
    BY HazmatConstantsOK
  <2>2. i \in 0 .. Width(l) - 1 /\ leaf \div X!Pow2[l] = i /\ leaf \div X!Pow2[l + 1] = i \div 2
    <3>1. i \in 0 .. Width(l) - 1 /\ Ancestor(leaf, l + 1) = i \div 2
      BY <2>1, Ancestors
    <3> QED
      BY <3>1 DEF Ancestor
  <2> HIDE DEF i
  <2>3. X!Sibling(i) \in 0 .. Width(l) - 1 /\ Other(X!Sibling(i))
    BY <2>2, Siblings
  <2>4. \A j \in 0 .. Width(l) - 1 : Other(j) => j = X!Sibling(i)
    BY <2>2, Siblings
  <2> HIDE DEF Other
  <2>5. (CHOOSE j \in 0 .. Width(l) - 1 : Other(j)) = X!Sibling(i)
    BY <2>3, <2>4
  <2> QED
    BY <2>5 DEF Width, Other, i
<1> DEFINE other(l) == CHOOSE j \in 0 .. X!Pow2[HEIGHT - l] - 1 :
                         j # leaf \div X!Pow2[l] /\ j \div 2 = leaf \div X!Pow2[l + 1]
           beside(l) == X!Sibling(Ancestor(leaf, l))
<1>2. \A l \in 0 .. HEIGHT - 1 : other(l) = beside(l)
  BY <1>1
<1>3. Path(parameter, leaf) = [l \in 0 .. HEIGHT - 1 |-> Tree(parameter)[l][other(l)]]
  BY DEF Path
<1> HIDE DEF other, beside
<1>4. [l \in 0 .. HEIGHT - 1 |-> Tree(parameter)[l][other(l)]]
        = [l \in 0 .. HEIGHT - 1 |-> Tree(parameter)[l][beside(l)]]
  BY <1>2, Zenon
<1> QED
  BY <1>3, <1>4, Zenon DEF beside

-----------------------------------------------------------------------------
(* Codewords, elements and ends *)

\* The arguments a hash of a message gets.
Hashed(salt, parameter, leaf, message) ==
  salt \in Salts /\ parameter \in Parameters /\ leaf \in 0 .. X!LEAVES - 1 /\ message \in Messages

\* A codeword is the digits of its digest, and both languages find the same one.
LEMMA EncodeIs ==
  ASSUME NEW salt, NEW parameter, NEW leaf, NEW message, Hashed(salt, parameter, leaf, message)
  PROVE  /\ Encode(salt, parameter, leaf, message) \subseteq [Chains -> Positions]
         /\ \A x \in Encode(salt, parameter, leaf, message) :
              x = Digits(Digest(salt, parameter, leaf, message)) /\ Sum(x) = TARGET_SUM
         /\ TsEncode(salt, parameter, leaf, message) = Encode(salt, parameter, leaf, message)
<1> DEFINE d == Digest(salt, parameter, leaf, message)
           x == [i \in Chains |-> IF i % 2 = 0 THEN d[i \div 2] % POSITIONS ELSE d[i \div 2] \div POSITIONS]
<1>1. d \in Digests
  BY DigestsAreBytes DEF Hashed
<1>2. Encode(salt, parameter, leaf, message) = IF Sum(Digits(d)) = TARGET_SUM THEN {Digits(d)} ELSE {}
  BY DEF Encode, Codeword
<1>3. TsEncode(salt, parameter, leaf, message) = IF Sum(x) = TARGET_SUM THEN {x} ELSE {}
  BY DEF TsEncode
<1> HIDE DEF d
<1>4. Digits(d) \in [Chains -> Positions] /\ Digits(d) = x
  BY <1>1, DigitsAre
<1> HIDE DEF x
<1> QED
  BY <1>2, <1>3, <1>4 DEF d

\* The positions of a chain are different values.
LEMMA ChainTells ==
  ASSUME NEW parameter, NEW leaf, NEW i, NEW a \in Positions, NEW b \in Positions,
         Chain(parameter, leaf, i)[a] = Chain(parameter, leaf, i)[b]
  PROVE  a = b
<1> DEFINE start == <<"start", leaf, i>>
<1>1. Chain(parameter, leaf, i)[0] = start
  <2>1. Walk(parameter, leaf, i, 0, 0, start) = start
    BY WalkNowhere
  <2>2. Chain(parameter, leaf, i)[0] = Walk(parameter, leaf, i, 0, 0, start)
    BY ChainIsWalk, LastPosition
  <2> QED
    BY <2>1, <2>2
<1>2. ASSUME NEW k \in Positions, k # 0
      PROVE  \E below : Chain(parameter, leaf, i)[k] = <<"chain", parameter, leaf, i, k, below>>
  <2>1. k - 1 \in Nat /\ 0 <= k - 1 /\ (k - 1) + 1 = k
    BY <1>2, LastPosition
  <2>2. Walk(parameter, leaf, i, 0, (k - 1) + 1, start)
          = <<"chain", parameter, leaf, i, (k - 1) + 1, Walk(parameter, leaf, i, 0, k - 1, start)>>
    BY <2>1, WalkOn
  <2> QED
    BY <2>1, <2>2, ChainIsWalk
<1> HIDE DEF start
<1>3. \A below, k : <<"chain", parameter, leaf, i, k, below>> # <<"start", leaf, i>>
  OBVIOUS
<1>4. CASE a = 0
  BY <1>1, <1>2, <1>3, <1>4 DEF start
<1>5. CASE a # 0
  <2>1. b # 0
    BY <1>1, <1>2, <1>3, <1>5 DEF start
  <2> QED
    BY <1>2, <1>5, <2>1
<1> QED
  BY <1>4, <1>5

\* From an element of the scheme a walk gets to every later position.
LEMMA WalkFromElement ==
  ASSUME NEW parameter, NEW leaf, NEW i, NEW a \in Positions, NEW b \in Positions, a <= b
  PROVE  Walk(parameter, leaf, i, a, b, Chain(parameter, leaf, i)[a]) = Chain(parameter, leaf, i)[b]
<1>1. a \in Nat /\ b \in Nat /\ 0 <= a
  BY LastPosition
<1>2. Walk(parameter, leaf, i, a, b, Walk(parameter, leaf, i, 0, a, <<"start", leaf, i>>))
        = Walk(parameter, leaf, i, 0, b, <<"start", leaf, i>>)
  BY <1>1, WalkSplits
<1> QED
  BY <1>2, ChainIsWalk

\* The elements of the scheme, and no others, lead to the ends of the chains.
LEMMA EndsMeet ==
  ASSUME NEW parameter, NEW leaf, NEW x \in [Chains -> Positions],
         NEW elements, elements = [i \in Chains |-> elements[i]]
  PROVE  Ends(parameter, leaf, x, elements) = Tops(parameter, leaf)
           <=> elements = Elements(parameter, leaf, x)
<1> DEFINE end(i) == Walk(parameter, leaf, i, x[i], POSITIONS - 1, elements[i])
           top(i) == Chain(parameter, leaf, i)[POSITIONS - 1]
           element(i) == Chain(parameter, leaf, i)[x[i]]
<1>1. ASSUME NEW i \in Chains
      PROVE  end(i) = top(i) <=> elements[i] = element(i)
  <2>1. x[i] \in Positions /\ x[i] \in Nat /\ POSITIONS - 1 \in Nat /\ x[i] <= POSITIONS - 1
    BY LastPosition DEF Positions
  <2>2. Walk(parameter, leaf, i, x[i], POSITIONS - 1, element(i)) = top(i)
    BY <2>1, WalkFromElement, LastPosition
  <2> QED
    BY <2>1, <2>2, WalkInjective
<1>2. /\ Ends(parameter, leaf, x, elements) = [i \in Chains |-> end(i)]
      /\ Tops(parameter, leaf) = [i \in Chains |-> top(i)]
      /\ Elements(parameter, leaf, x) = [i \in Chains |-> element(i)]
  BY DEF Ends, Tops, Elements
<1> HIDE DEF end, top, element
<1>3. [i \in Chains |-> end(i)] = [i \in Chains |-> top(i)] <=> \A i \in Chains : end(i) = top(i)
  OBVIOUS
<1>4. elements = [i \in Chains |-> element(i)] <=> \A i \in Chains : elements[i] = element(i)
  OBVIOUS
<1> QED
  BY <1>1, <1>2, <1>3, <1>4

-----------------------------------------------------------------------------
(* Keys and signatures *)

\* The key of a parameter and the secrets a random source gave.
KeyOf(parameter) ==
  IF kind = "xmss"
  THEN [secrets |-> Given(X!LEAVES), parameter |-> parameter, nodes |-> X!Nodes(Given(X!LEAVES), parameter)]
  ELSE [secrets |-> Given(1), parameter |-> parameter]

\* The signature of a codeword.
SignatureOf(parameter, leaf, salt, x) ==
  IF kind = "xmss"
  THEN [leaf |-> leaf, salt |-> salt, elements |-> Elements(parameter, leaf, x),
        path |-> Path(parameter, leaf)]
  ELSE [salt |-> salt, elements |-> Elements(parameter, leaf, x)]

\* A tree has more than one leaf.
LEMMA Counts ==
  /\ LeavesOf("winternitz") = 1 /\ LeavesOf("xmss") = X!LEAVES
  /\ \A k \in Kinds : LeavesOf(k) \in 1 .. X!LEAVES
  /\ X!LEAVES \in Nat /\ 1 < X!LEAVES
<1>1. X!LEAVES \in Nat /\ 2 * 1 <= X!LEAVES
  <2>1. X!Pow2[0] = 1 /\ 0 < HEIGHT /\ HEIGHT \in Nat
    BY Pow2Is, HazmatConstantsOK
  <2> QED
    BY <2>1, Pow2Doubles, Widths DEF X!LEAVES
<1>2. LeavesOf("winternitz") = 1 /\ LeavesOf("xmss") = X!LEAVES
  BY DEF LeavesOf, W!LEAVES
<1> QED
  BY <1>1, <1>2 DEF Kinds

\* The secrets of an instance make its key, those of the other none.
LEMMA KeyMade ==
  ASSUME kind \in Kinds, NEW k \in Kinds, NEW parameter
  PROVE  FromSecrets(kind, Given(LeavesOf(k)), parameter) = IF k = kind THEN {KeyOf(parameter)} ELSE {}
<1> DEFINE n == LeavesOf(k)
<1>1. DOMAIN Given(n) = 0 .. n * CHAINS - 1
  BY DEF Given
<1>2. n \in Nat /\ n > 0 /\ X!LEAVES \in Nat /\ X!LEAVES > 1 /\ CHAINS \in Nat \ {0}
  BY Counts, EncodingOK
<1>3. ASSUME NEW m \in Nat \ {0}, 0 .. n * CHAINS - 1 = 0 .. m * CHAINS - 1 PROVE n = m
  <2> DEFINE a == n * CHAINS
             b == m * CHAINS
  <2>1. a \in Nat \ {0} /\ b \in Nat \ {0}
    BY <1>2
  <2>2. ASSUME a < b PROVE FALSE
    <3>1. b - 1 \in 0 .. b - 1 /\ b - 1 \notin 0 .. a - 1
      BY <2>1, <2>2
    <3> QED
      BY <3>1, <1>3
  <2>3. ASSUME b < a PROVE FALSE
    <3>1. a - 1 \in 0 .. a - 1 /\ a - 1 \notin 0 .. b - 1
      BY <2>1, <2>3
    <3> QED
      BY <3>1, <1>3
  <2>4. a = b
    BY <2>1, <2>2, <2>3
  <2>5. n < m \/ m < n \/ n = m
    BY <1>2
  <2>6. \A u, v \in Nat : u < v => u * CHAINS < v * CHAINS
    BY <1>2
  <2> QED
    BY <1>2, <2>4, <2>5, <2>6
<1> HIDE DEF n
<1>4. CASE kind = "xmss"
  <2>1. FromSecrets(kind, Given(n), parameter)
          = IF DOMAIN Given(n) = 0 .. X!LEAVES * CHAINS - 1
            THEN {[secrets |-> Given(n), parameter |-> parameter, nodes |-> X!Nodes(Given(n), parameter)]}
            ELSE {}
    BY <1>4 DEF FromSecrets, X!FromSecrets
  <2>2. k = kind => n = X!LEAVES
    BY <1>4, Counts DEF n
  <2>3. k # kind => n # X!LEAVES
    BY <1>4, Counts DEF n, Kinds
  <2>4. DOMAIN Given(n) = 0 .. X!LEAVES * CHAINS - 1 <=> n = X!LEAVES
    BY <1>1, <1>2, <1>3
  <2> QED
    BY <1>4, <2>1, <2>2, <2>3, <2>4 DEF KeyOf, n
<1>5. CASE kind = "winternitz"
  <2>1. FromSecrets(kind, Given(n), parameter)
          = IF DOMAIN Given(n) = 0 .. 1 * CHAINS - 1
            THEN {[secrets |-> Given(n), parameter |-> parameter]} ELSE {}
    BY <1>5 DEF FromSecrets, W!FromSecrets, W!LEAVES
  <2>2. k = kind => n = 1
    BY <1>5, Counts DEF n
  <2>3. k # kind => n # 1
    BY <1>5, Counts DEF n, Kinds
  <2>4. DOMAIN Given(n) = 0 .. 1 * CHAINS - 1 <=> n = 1
    BY <1>1, <1>2, <1>3
  <2> QED
    BY <1>5, <2>1, <2>2, <2>3, <2>4 DEF KeyOf, n
<1> QED
  BY <1>4, <1>5 DEF Kinds

\* The public key is the root.
LEMMA KeyRoot ==
  ASSUME kind \in Kinds, NEW parameter
  PROVE  VerifyingKey(KeyOf(parameter)) = [node |-> Root(parameter), parameter |-> parameter]
<1>1. CASE kind = "xmss"
  <2> DEFINE nodes == X!Nodes(Given(X!LEAVES), parameter)
  <2>1. HEIGHT \in 0 .. HEIGHT /\ 0 \in 0 .. Width(HEIGHT) - 1 /\ X!Level(HEIGHT) + 0 = X!Level(HEIGHT)
    BY Widths, Levels, HazmatConstantsOK
  <2>2. nodes[X!Level(HEIGHT) + 0] = Tree(parameter)[HEIGHT][0]
    BY <2>1, NodesAreLaid, LaidIsTree
  <2> HIDE DEF nodes
  <2>3. KeyOf(parameter).nodes = nodes /\ KeyOf(parameter).parameter = parameter
    BY <1>1 DEF KeyOf, nodes
  <2> QED
    BY <1>1, <2>1, <2>2, <2>3 DEF VerifyingKey, X!VerifyingKey, Root
<1>2. CASE kind = "winternitz"
  <2>1. W!SecretEnds(Given(1), parameter, 0) = Tops(parameter, 0)
    BY SecretEndsAreTops, SameForWinternitz
  <2>2. KeyOf(parameter).secrets = Given(1) /\ KeyOf(parameter).parameter = parameter
    BY <1>2 DEF KeyOf
  <2>3. VerifyingKey(KeyOf(parameter))
          = [node |-> LeafHash(parameter, 0, Tops(parameter, 0)), parameter |-> parameter]
    BY <1>2, <2>1, <2>2, SameForWinternitz DEF VerifyingKey, W!VerifyingKey
  <2> QED
    BY <1>2, <2>3 DEF Root, Tops
<1> QED
  BY <1>1, <1>2 DEF Kinds

\* The cached array is the tree.
LEMMA KeyTree ==
  ASSUME kind = "xmss", NEW parameter, NEW l \in 0 .. HEIGHT, NEW j \in DOMAIN Tree(parameter)[l]
  PROVE  KeyOf(parameter).nodes[X!Level(l) + j] = Tree(parameter)[l][j]
<1>1. KeyOf(parameter).nodes = X!Nodes(Given(X!LEAVES), parameter)
  BY DEF KeyOf
<1>2. j \in 0 .. Width(l) - 1
  BY TreeIs
<1> QED
  BY <1>1, <1>2, NodesAreLaid, LaidIsTree

\* The elements the signer walks to are those of the scheme.
LEMMA SignElementsAre ==
  ASSUME NEW parameter, NEW leaves \in Nat, NEW leaf \in 0 .. leaves - 1, NEW message, NEW salt,
         Hashed(salt, parameter, leaf, message)
  PROVE  SignElements(Given(leaves), parameter, leaf, message, salt)
           = {Elements(parameter, leaf, x) : x \in Encode(salt, parameter, leaf, message)}
<1> DEFINE walked(x) == [i \in Chains |-> Walk(parameter, leaf, i, 0, x[i], Start(Given(leaves), leaf, i))]
<1>1. ASSUME NEW x \in Encode(salt, parameter, leaf, message)
      PROVE  walked(x) = Elements(parameter, leaf, x)
  <2>1. x \in [Chains -> Positions]
    BY EncodeIs
  <2> DEFINE a(i) == Walk(parameter, leaf, i, 0, x[i], Start(Given(leaves), leaf, i))
             b(i) == Chain(parameter, leaf, i)[x[i]]
  <2>2. \A i \in Chains : a(i) = b(i)
    BY <2>1, WalkFromStart
  <2> HIDE DEF a, b
  <2>3. [i \in Chains |-> a(i)] = [i \in Chains |-> b(i)]
    BY <2>2, Zenon
  <2> QED
    BY <2>3, Zenon DEF a, b, Elements
<1>2. SignElements(Given(leaves), parameter, leaf, message, salt)
        = {walked(x) : x \in Encode(salt, parameter, leaf, message)}
  BY DEF SignElements
<1> HIDE DEF walked
<1> QED
  BY <1>1, <1>2

\* The path read from the cached array is the path of the scheme, in both languages.
LEMMA LaidPath ==
  ASSUME NEW parameter, NEW leaf \in 0 .. X!LEAVES - 1, NEW node, Laid(node, parameter)
  PROVE  [l \in 0 .. HEIGHT - 1 |-> node[X!Level(l) + X!Sibling(leaf \div X!Pow2[l])]]
           = Path(parameter, leaf)
<1> DEFINE a(l) == node[X!Level(l) + X!Sibling(leaf \div X!Pow2[l])]
           b(l) == Tree(parameter)[l][X!Sibling(Ancestor(leaf, l))]
<1>1. ASSUME NEW l \in 0 .. HEIGHT - 1 PROVE a(l) = b(l)
  <2>1. l \in 0 .. HEIGHT
    BY HazmatConstantsOK
  <2>2. Ancestor(leaf, l) \in 0 .. Width(l) - 1
    BY <2>1, Ancestors
  <2>3. X!Sibling(Ancestor(leaf, l)) \in 0 .. Width(l) - 1
    BY <2>2, Siblings
  <2> QED
    BY <2>1, <2>3, LaidIsTree DEF Ancestor
<1>2. Path(parameter, leaf) = [l \in 0 .. HEIGHT - 1 |-> b(l)]
  BY PathIs
<1> HIDE DEF a, b
<1>3. [l \in 0 .. HEIGHT - 1 |-> a(l)] = [l \in 0 .. HEIGHT - 1 |-> b(l)]
  BY <1>1, Zenon
<1> QED
  BY <1>2, <1>3, Zenon DEF a

\* The signer returns the signatures of the scheme.
LEMMA SignAtWithSaltIs ==
  ASSUME kind \in Kinds, NEW parameter, NEW leaf \in Nat, NEW message, NEW salt,
         leaf < LeavesOf(kind) => Hashed(salt, parameter, leaf, message)
  PROVE  SignAtWithSalt(KeyOf(parameter), leaf, message, salt)
           = IF leaf < LeavesOf(kind)
             THEN {SignatureOf(parameter, leaf, salt, x) : x \in Encode(salt, parameter, leaf, message)}
             ELSE {}
<1> DEFINE codewords == Encode(salt, parameter, leaf, message)
<1>1. CASE kind = "xmss" /\ leaf < X!LEAVES
  <2> DEFINE nodes == X!Nodes(Given(X!LEAVES), parameter)
             path == [l \in 0 .. HEIGHT - 1 |-> nodes[X!Level(l) + X!Sibling(leaf \div X!Pow2[l])]]
             signature(e) == [leaf |-> leaf, salt |-> salt, elements |-> e, path |-> path]
  <2>1. leaf \in 0 .. X!LEAVES - 1 /\ X!LEAVES \in Nat /\ leaf < LeavesOf(kind) /\ ~ (leaf >= X!LEAVES)
    BY <1>1, Counts
  <2>2. path = Path(parameter, leaf)
    BY <2>1, NodesAreLaid, LaidPath
  <2>3. KeyOf(parameter) = [secrets |-> Given(X!LEAVES), parameter |-> parameter, nodes |-> nodes]
    BY <1>1 DEF KeyOf
  <2>4. X!SignElements(Given(X!LEAVES), parameter, leaf, message, salt)
          = {Elements(parameter, leaf, x) : x \in codewords}
    BY <2>1, SignElementsAre, SameForXmss
  <2> HIDE DEF nodes, codewords
  <2>5. SignAtWithSalt(KeyOf(parameter), leaf, message, salt)
          = X!SignAtWithSalt(KeyOf(parameter), leaf, message, salt)
    BY <1>1 DEF SignAtWithSalt
  <2>6. X!SignAtWithSalt(KeyOf(parameter), leaf, message, salt)
          = {signature(e) : e \in X!SignElements(Given(X!LEAVES), parameter, leaf, message, salt)}
    BY <2>1, <2>3 DEF X!SignAtWithSalt
  <2> HIDE DEF path
  <2>7. \A x : SignatureOf(parameter, leaf, salt, x) = signature(Elements(parameter, leaf, x))
    BY <1>1, <2>2 DEF SignatureOf
  <2> HIDE DEF signature
  <2> QED
    BY <2>1, <2>4, <2>5, <2>6, <2>7 DEF codewords
<1>2. CASE kind = "xmss" /\ ~ (leaf < X!LEAVES)
  BY <1>2, Counts DEF SignAtWithSalt, X!SignAtWithSalt
<1>3. CASE kind = "winternitz" /\ leaf = 0
  <2> DEFINE signature(e) == [salt |-> salt, elements |-> e]
  <2>1. leaf \in 0 .. 1 - 1 /\ leaf < LeavesOf(kind)
    BY <1>3, Counts
  <2>2. KeyOf(parameter) = [secrets |-> Given(1), parameter |-> parameter]
    BY <1>3 DEF KeyOf
  <2>3. W!SignElements(Given(1), parameter, leaf, message, salt)
          = {Elements(parameter, leaf, x) : x \in codewords}
    BY <2>1, SignElementsAre, SameForWinternitz
  <2> HIDE DEF codewords
  <2>4. SignAtWithSalt(KeyOf(parameter), leaf, message, salt)
          = W!SignAtWithSalt(KeyOf(parameter), leaf, message, salt)
    BY <1>3 DEF SignAtWithSalt
  <2>5. W!SignAtWithSalt(KeyOf(parameter), leaf, message, salt)
          = {signature(e) : e \in W!SignElements(Given(1), parameter, leaf, message, salt)}
    BY <1>3, <2>2 DEF W!SignAtWithSalt
  <2>6. \A x : SignatureOf(parameter, leaf, salt, x) = signature(Elements(parameter, leaf, x))
    BY <1>3 DEF SignatureOf
  <2> HIDE DEF signature
  <2> QED
    BY <2>1, <2>3, <2>4, <2>5, <2>6 DEF codewords
<1>4. CASE kind = "winternitz" /\ leaf # 0
  <2>1. ~ (leaf < LeavesOf(kind))
    BY <1>4, Counts
  <2> QED
    BY <1>4, <2>1 DEF SignAtWithSalt, W!SignAtWithSalt
<1> QED
  BY <1>1, <1>2, <1>3, <1>4 DEF Kinds

\* They are what Construction3 calls signatures.
LEMMA SignatureOfIs ==
  ASSUME kind \in Kinds, NEW parameter, NEW leaf \in 0 .. LeavesOf(kind) - 1, NEW message, NEW salt,
         NEW x \in Encode(salt, parameter, leaf, message)
  PROVE  /\ IsSignature(SignatureOf(parameter, leaf, salt, x), parameter, message)
         /\ LeafOf(SignatureOf(parameter, leaf, salt, x)) = leaf
<1> DEFINE s == SignatureOf(parameter, leaf, salt, x)
<1>1. LeafOf(s) = leaf /\ s.salt = salt /\ s.elements = Elements(parameter, leaf, x)
  <2>1. CASE kind = "xmss"
    BY <2>1 DEF SignatureOf, LeafOf
  <2>2. CASE kind = "winternitz"
    <3>1. leaf = 0
      BY <2>2, Counts
    <3> QED
      BY <2>2, <3>1 DEF SignatureOf, LeafOf
  <2> QED
    BY <2>1, <2>2 DEF Kinds
<1>2. kind = "xmss" => s.leaf = leaf /\ s.path = Path(parameter, leaf)
  BY DEF SignatureOf
<1>3. leaf < LeavesOf(kind)
  BY Counts
<1> HIDE DEF s
<1>4. IsSignature(s, parameter, message)
  BY <1>1, <1>2, <1>3 DEF IsSignature
<1> QED
  BY <1>1, <1>2, <1>4 DEF s

-----------------------------------------------------------------------------
(* Verdicts *)

\* What is shown to a verifier: any values, in the places of a signature's.
Shaped(s) ==
  /\ LeafOf(s) \in Nat /\ s.salt \in Salts
  /\ s.elements = [i \in Chains |-> s.elements[i]]
  /\ kind = "xmss" => s.path = [l \in 0 .. HEIGHT - 1 |-> s.path[l]]

\* The elements and the path of a signature of the tree's instance.
PartsAre(s, parameter, x) ==
  s.elements = Elements(parameter, s.leaf, x) /\ s.path = Path(parameter, s.leaf)

\* The root of a tree is reached from the elements and the path of a signature only.
LEMMA RootMeets ==
  ASSUME kind = "xmss", NEW parameter, NEW p, NEW s, Shaped(s), s.leaf \in 0 .. X!LEAVES - 1,
         NEW x \in [Chains -> Positions]
  PROVE  X!RootOf(p, s, Ends(p, s.leaf, x, s.elements)) = Tree(parameter)[HEIGHT][0]
           <=> p = parameter /\ PartsAre(s, p, x)
<1> DEFINE leaf == s.leaf
           ends == Ends(p, leaf, x, s.elements)
           first == LeafHash(p, leaf, ends)
           beside(l) == Tree(p)[l][X!Sibling(Ancestor(leaf, l))]
<1>1. PICK current : /\ IsClimb(current, p, leaf, first, s.path, HEIGHT)
                     /\ X!RootOf(p, s, ends) = current[HEIGHT]
  BY RootIs
<1>2. current[HEIGHT] = Tree(parameter)[HEIGHT][0] => p = parameter
  BY <1>1, ClimbTellsParameter
<1>3. current[HEIGHT] = Tree(p)[HEIGHT][0]
        <=> first = Tree(p)[0][leaf] /\ \A l \in 0 .. HEIGHT - 1 : s.path[l] = beside(l)
  BY <1>1, ClimbReachesRoot
<1>4. first = Tree(p)[0][leaf] <=> s.elements = Elements(p, leaf, x)
  <2>1. Tree(p)[0][leaf] = LeafHash(p, leaf, Tops(p, leaf))
    BY TreeIs
  <2>2. LeafHash(p, leaf, ends) = LeafHash(p, leaf, Tops(p, leaf)) <=> ends = Tops(p, leaf)
    BY DEF LeafHash
  <2>3. ends = Tops(p, leaf) <=> s.elements = Elements(p, leaf, x)
    BY EndsMeet DEF Shaped
  <2> QED
    BY <2>1, <2>2, <2>3
<1>5. (\A l \in 0 .. HEIGHT - 1 : s.path[l] = beside(l)) <=> s.path = Path(p, leaf)
  <2>1. Path(p, leaf) = [l \in 0 .. HEIGHT - 1 |-> beside(l)]
    BY PathIs
  <2>2. s.path = [l \in 0 .. HEIGHT - 1 |-> s.path[l]]
    BY DEF Shaped
  <2> DEFINE path == s.path
  <2> HIDE DEF beside, path
  <2>3. path = [l \in 0 .. HEIGHT - 1 |-> path[l]]
    BY <2>2 DEF path
  <2>4. path = [l \in 0 .. HEIGHT - 1 |-> beside(l)] <=> \A l \in 0 .. HEIGHT - 1 : path[l] = beside(l)
    BY <2>3
  <2> QED
    BY <2>1, <2>4 DEF path
<1> QED
  BY <1>1, <1>2, <1>3, <1>4, <1>5 DEF PartsAre

\* The same for the one leaf of the other instance.
LEMMA LeafMeets ==
  ASSUME NEW parameter, NEW p, NEW s, s.elements = [i \in Chains |-> s.elements[i]],
         NEW x \in [Chains -> Positions]
  PROVE  LeafHash(p, 0, Ends(p, 0, x, s.elements)) = LeafHash(parameter, 0, Tops(parameter, 0))
           <=> p = parameter /\ s.elements = Elements(p, 0, x)
<1>1. LeafHash(p, 0, Ends(p, 0, x, s.elements)) = LeafHash(parameter, 0, Tops(parameter, 0))
        <=> p = parameter /\ Ends(p, 0, x, s.elements) = Tops(parameter, 0)
  BY DEF LeafHash
<1>2. Ends(p, 0, x, s.elements) = Tops(p, 0) <=> s.elements = Elements(p, 0, x)
  BY EndsMeet
<1> QED
  BY <1>1, <1>2

\* The verifier accepts what Construction3 calls signatures, and nothing else.
LEMMA Verdict ==
  ASSUME kind \in Kinds, NEW parameter, NEW p \in Parameters, NEW message \in Messages,
         NEW s, Shaped(s)
  PROVE  Verify([VerifyingKey(KeyOf(parameter)) EXCEPT !.parameter = p], message, s)
           <=> p = parameter /\ IsSignature(s, p, message)
<1> DEFINE leaf == LeafOf(s)
           codewords == Encode(s.salt, p, leaf, message)
           root == Root(parameter)
           key0 == [VerifyingKey(KeyOf(parameter)) EXCEPT !.parameter = p]
<1>1. key0.node = root /\ key0.parameter = p
  BY KeyRoot
<1>2. leaf < LeavesOf(kind) => codewords \subseteq [Chains -> Positions]
  <2>1. leaf < LeavesOf(kind) => Hashed(s.salt, p, leaf, message)
    BY Counts DEF Shaped, Hashed
  <2> QED
    BY <2>1, EncodeIs
<1> HIDE DEF codewords, root, key0
<1>3. CASE kind = "xmss"
  <2>1. leaf = s.leaf /\ leaf \in Nat /\ LeavesOf(kind) = X!LEAVES /\ X!LEAVES \in Nat
    BY <1>3, Counts DEF LeafOf, Shaped
  <2>2. root = Tree(parameter)[HEIGHT][0]
    BY <1>3 DEF Root, root
  <2> DEFINE accepted(x) == X!RootOf(p, s, Ends(p, leaf, x, s.elements)) = root
             genuine(x) == p = parameter /\ PartsAre(s, p, x)
  <2>3. Verify(key0, message, s) <=> leaf < X!LEAVES /\ \E x \in codewords : accepted(x)
    BY <1>1, <1>3, <2>1, SameForXmss DEF Verify, X!Verify, codewords
  <2>4. ASSUME leaf < X!LEAVES PROVE \A x \in codewords : accepted(x) <=> genuine(x)
    <3>1. leaf \in 0 .. X!LEAVES - 1
      BY <2>1, <2>4
    <3>2. TAKE x \in codewords
    <3>3. x \in [Chains -> Positions]
      BY <1>2, <2>1, <2>4
    <3>4. s.leaf \in 0 .. X!LEAVES - 1
      BY <2>1, <3>1
    <3> HIDE DEF leaf, accepted, genuine
    <3>5. X!RootOf(p, s, Ends(p, s.leaf, x, s.elements)) = Tree(parameter)[HEIGHT][0]
            <=> p = parameter /\ PartsAre(s, p, x)
      BY <1>3, <3>3, <3>4, RootMeets
    <3> QED
      BY <2>1, <2>2, <3>5 DEF accepted, genuine
  <2> HIDE DEF accepted
  <2>5. IsSignature(s, p, message) <=> leaf < X!LEAVES /\ \E x \in codewords : PartsAre(s, p, x)
    BY <1>3, <2>1 DEF IsSignature, PartsAre, codewords
  <2> HIDE DEF leaf
  <2> QED
    BY <2>3, <2>4, <2>5 DEF key0
<1>4. CASE kind = "winternitz"
  <2>1. leaf = 0 /\ leaf < LeavesOf(kind)
    BY <1>4, Counts DEF LeafOf
  <2>2. root = LeafHash(parameter, 0, Tops(parameter, 0))
    BY <1>4 DEF Root, Tops, root
  <2> DEFINE accepted(x) == LeafHash(p, 0, Ends(p, 0, x, s.elements)) = root
             genuine(x) == p = parameter /\ s.elements = Elements(p, 0, x)
  <2>3. Verify(key0, message, s) <=> \E x \in codewords : accepted(x)
    BY <1>1, <1>4, <2>1, SameForWinternitz DEF Verify, W!Verify, codewords
  <2>4. \A x \in codewords : accepted(x) <=> genuine(x)
    <3>1. TAKE x \in codewords
    <3>2. x \in [Chains -> Positions]
      BY <1>2, <2>1
    <3> QED
      BY <2>2, <3>2, LeafMeets DEF Shaped
  <2> HIDE DEF accepted
  <2>5. IsSignature(s, p, message) <=> \E x \in codewords : s.elements = Elements(p, 0, x)
    BY <1>4, <2>1 DEF IsSignature, codewords
  <2> QED
    BY <2>3, <2>4, <2>5 DEF key0
<1> QED
  BY <1>3, <1>4 DEF Kinds

-----------------------------------------------------------------------------
(* The TypeScript port signs and verifies as the crate does *)

LEMMA TsVerdict ==
  ASSUME kind \in Kinds, NEW verifying_key, verifying_key.parameter \in Parameters,
         NEW message \in Messages, NEW s, Shaped(s)
  PROVE  TsVerify(verifying_key, message, s) <=> Verify(verifying_key, message, s)
<1> DEFINE p == verifying_key.parameter
           leaf == IF kind = "xmss" THEN s.leaf ELSE 0
           codewords == Encode(s.salt, p, leaf, message)
<1>1. leaf \in Nat /\ X!LEAVES \in Nat /\ 0 < X!LEAVES
  BY Counts DEF Shaped, LeafOf, Kinds
<1>2. ASSUME leaf < X!LEAVES
      PROVE  codewords \subseteq [Chains -> Positions] /\ TsEncode(s.salt, p, leaf, message) = codewords
  <2>1. Hashed(s.salt, p, leaf, message)
    BY <1>1, <1>2 DEF Shaped, Hashed
  <2> QED
    BY <2>1, EncodeIs
<1>3. ASSUME NEW x \in [Chains -> Positions]
      PROVE  TsEndsFromSignature(p, leaf, x, s.elements) = Ends(p, leaf, x, s.elements)
  <2> DEFINE a(i) == TsWalk(p, leaf, i, x[i], POSITIONS - 1, s.elements[i])
             b(i) == Walk(p, leaf, i, x[i], POSITIONS - 1, s.elements[i])
  <2>1. ASSUME NEW i \in Chains PROVE a(i) = b(i)
    <3>1. x[i] \in Nat /\ POSITIONS - 1 \in Nat /\ x[i] <= POSITIONS - 1
      BY LastPosition DEF Positions
    <3> QED
      BY <3>1, TsWalkIsWalk
  <2> HIDE DEF a, b
  <2>2. [i \in Chains |-> a(i)] = [i \in Chains |-> b(i)]
    BY <2>1, Zenon
  <2> QED
    BY <2>2, Zenon DEF a, b, TsEndsFromSignature, Ends
<1> DEFINE first(x) == LeafHash(p, leaf, Ends(p, leaf, x, s.elements))
           reached(x) == IF kind = "xmss" THEN TsCurrent(p, leaf, first(x), s.path) ELSE first(x)
<1>4. TsVerify(verifying_key, message, s)
        <=> leaf < X!LEAVES /\ \E x \in codewords : verifying_key.node = reached(x)
  <2> HIDE DEF codewords
  <2>1. TsVerify(verifying_key, message, s)
          <=> /\ leaf < X!LEAVES
              /\ \E x \in TsEncode(s.salt, p, leaf, message) :
                   LET f == LeafHash(p, leaf, TsEndsFromSignature(p, leaf, x, s.elements))
                   IN verifying_key.node = IF kind = "xmss" THEN TsCurrent(p, leaf, f, s.path) ELSE f
    BY DEF TsVerify
  <2> HIDE DEF leaf, p
  <2> QED
    BY <1>2, <1>3, <2>1
<1>5. CASE kind = "xmss"
  <2>1. leaf = s.leaf
    BY <1>5
  <2>2. \A x : TsCurrent(p, s.leaf, LeafHash(p, s.leaf, Ends(p, s.leaf, x, s.elements)), s.path)
                 = X!RootOf(p, s, Ends(p, s.leaf, x, s.elements))
    BY <1>1, <2>1, TsCurrentIsRoot
  <2>3. \A x : reached(x) = X!RootOf(p, s, Ends(p, leaf, x, s.elements))
    BY <1>5, <2>1, <2>2
  <2> HIDE DEF reached, p
  <2>4. Verify(verifying_key, message, s)
          <=> leaf < X!LEAVES /\ \E x \in codewords : X!RootOf(p, s, Ends(p, leaf, x, s.elements)) = verifying_key.node
    BY <1>5, <2>1, SameForXmss DEF Verify, X!Verify, p
  <2> HIDE DEF leaf, codewords
  <2> QED
    BY <1>4, <2>3, <2>4
<1>6. CASE kind = "winternitz"
  <2>1. leaf = 0 /\ \A x : reached(x) = first(x)
    BY <1>6
  <2> HIDE DEF reached, p
  <2>2. Verify(verifying_key, message, s)
          <=> \E x \in codewords : LeafHash(p, 0, Ends(p, 0, x, s.elements)) = verifying_key.node
    BY <1>6, <2>1, SameForWinternitz DEF Verify, W!Verify, p
  <2> QED
    BY <1>1, <1>4, <2>1, <2>2
<1> QED
  BY <1>5, <1>6 DEF Kinds

\* What signLeaf returns for a codeword.
LeafSignature(parameter, leaf, salt, x) == [salt |-> salt, elements |-> Elements(parameter, leaf, x)]

LEMMA TsSignLeafIs ==
  ASSUME NEW parameter, NEW leaves \in Nat, NEW leaf \in 0 .. leaves - 1, NEW message, NEW salt,
         Hashed(salt, parameter, leaf, message)
  PROVE  TsSignLeaf(Given(leaves), parameter, leaf, message, salt)
           = {LeafSignature(parameter, leaf, salt, x) : x \in Encode(salt, parameter, leaf, message)}
<1> DEFINE walked(x) == [i \in Chains |-> TsWalk(parameter, leaf, i, 0, x[i], TsStart(Given(leaves), leaf, i))]
<1>1. ASSUME NEW x \in Encode(salt, parameter, leaf, message)
      PROVE  walked(x) = Elements(parameter, leaf, x)
  <2>1. x \in [Chains -> Positions]
    BY EncodeIs
  <2> DEFINE a(i) == TsWalk(parameter, leaf, i, 0, x[i], TsStart(Given(leaves), leaf, i))
             b(i) == Chain(parameter, leaf, i)[x[i]]
  <2>2. ASSUME NEW i \in Chains PROVE a(i) = b(i)
    <3>1. x[i] \in Positions /\ x[i] \in Nat /\ 0 <= x[i]
      <4>1. x[i] \in Positions
        BY <2>1
      <4> QED
        BY <4>1, EncodingOK DEF Positions
    <3>2. a(i) = Walk(parameter, leaf, i, 0, x[i], Start(Given(leaves), leaf, i))
      BY <3>1, TsWalkIsWalk DEF TsStart, Start
    <3> QED
      BY <3>1, <3>2, WalkFromStart
  <2> HIDE DEF a, b
  <2>3. [i \in Chains |-> a(i)] = [i \in Chains |-> b(i)]
    BY <2>2, Zenon
  <2> QED
    BY <2>3, Zenon DEF a, b, Elements
<1>2. TsSignLeaf(Given(leaves), parameter, leaf, message, salt)
        = {[salt |-> salt, elements |-> walked(x)] : x \in Encode(salt, parameter, leaf, message)}
  BY EncodeIs DEF TsSignLeaf
<1> HIDE DEF walked
<1> QED
  BY <1>1, <1>2 DEF LeafSignature

LEMMA TsSignAtWithSaltIs ==
  ASSUME kind \in Kinds, NEW parameter, NEW leaf \in Nat, NEW message, NEW salt,
         leaf < LeavesOf(kind) => Hashed(salt, parameter, leaf, message)
  PROVE  TsSignAtWithSalt(Given(LeavesOf(kind)), parameter, leaf, message, salt)
           = IF leaf < LeavesOf(kind)
             THEN {SignatureOf(parameter, leaf, salt, x) : x \in Encode(salt, parameter, leaf, message)}
             ELSE {}
<1> DEFINE secrets == Given(LeavesOf(kind))
           codewords == Encode(salt, parameter, leaf, message)
           part(x) == LeafSignature(parameter, leaf, salt, x)
<1>1. LeavesOf(kind) \in Nat
  BY Counts
<1>2. ASSUME leaf < LeavesOf(kind)
      PROVE  TsSignLeaf(secrets, parameter, leaf, message, salt) = {part(x) : x \in codewords}
  <2> PICK n \in Nat : n = LeavesOf(kind)
    BY <1>1
  <2>1. leaf \in 0 .. n - 1 /\ Hashed(salt, parameter, leaf, message)
    BY <1>2
  <2>2. TsSignLeaf(Given(n), parameter, leaf, message, salt)
          = {LeafSignature(parameter, leaf, salt, x) : x \in Encode(salt, parameter, leaf, message)}
    BY <2>1, TsSignLeafIs
  <2> QED
    BY <2>2, Zenon DEF secrets, codewords, part
<1> HIDE DEF codewords
<1>3. CASE ~ (leaf < LeavesOf(kind))
  BY <1>1, <1>3 DEF TsSignAtWithSalt
<1>4. CASE kind = "xmss" /\ leaf < LeavesOf(kind)
  <2> DEFINE path == TsPath(secrets, parameter, leaf)
             signature(s) == [leaf |-> leaf, salt |-> s.salt, elements |-> s.elements, path |-> path]
  <2>1. leaf \in 0 .. X!LEAVES - 1 /\ secrets = Given(X!LEAVES)
    BY <1>1, <1>4, Counts
  <2>2. path = Path(parameter, leaf)
    <3> DEFINE nodes == TsNodes(secrets, parameter)
               a(l) == nodes[TsLevelOffset(l) + (IF (leaf \div X!Pow2[l]) % 2 = 0
                                                 THEN (leaf \div X!Pow2[l]) + 1 ELSE (leaf \div X!Pow2[l]) - 1)]
               b(l) == nodes[X!Level(l) + X!Sibling(leaf \div X!Pow2[l])]
    <3>1. \A l \in 0 .. HEIGHT - 1 : a(l) = b(l)
      BY DEF TsLevelOffset, X!Level, X!Sibling
    <3>2. path = [l \in 0 .. HEIGHT - 1 |-> a(l)]
      BY DEF TsPath
    <3>3. [l \in 0 .. HEIGHT - 1 |-> b(l)] = Path(parameter, leaf)
      BY <2>1, TsNodesAreLaid, LaidPath
    <3> HIDE DEF a, b
    <3>4. [l \in 0 .. HEIGHT - 1 |-> a(l)] = [l \in 0 .. HEIGHT - 1 |-> b(l)]
      BY <3>1, Zenon
    <3> QED
      BY <3>2, <3>3, <3>4, Zenon
  <2>3. TsSignAtWithSalt(secrets, parameter, leaf, message, salt)
          = {signature(s) : s \in TsSignLeaf(secrets, parameter, leaf, message, salt)}
    BY <1>1, <1>4 DEF TsSignAtWithSalt
  <2>4. \A x : SignatureOf(parameter, leaf, salt, x) = signature(part(x))
    BY <1>4, <2>2 DEF SignatureOf, LeafSignature
  <2> HIDE DEF signature, part, secrets
  <2>5. TsSignAtWithSalt(secrets, parameter, leaf, message, salt)
          = {signature(s) : s \in {part(x) : x \in codewords}}
    BY <1>2, <1>4, <2>3
  <2>6. {signature(s) : s \in {part(x) : x \in codewords}}
          = {SignatureOf(parameter, leaf, salt, x) : x \in codewords}
    BY <2>4
  <2> QED
    BY <1>4, <2>5, <2>6, Zenon DEF secrets, codewords
<1>5. CASE kind = "winternitz" /\ leaf < LeavesOf(kind)
  <2>1. leaf = 0
    BY <1>5, Counts
  <2>2. TsSignAtWithSalt(secrets, parameter, leaf, message, salt)
          = TsSignLeaf(secrets, parameter, leaf, message, salt)
    BY <1>1, <1>5, <2>1 DEF TsSignAtWithSalt
  <2>3. \A x : SignatureOf(parameter, leaf, salt, x) = part(x)
    BY <1>5 DEF SignatureOf, LeafSignature
  <2> HIDE DEF part, secrets
  <2>4. {part(x) : x \in codewords} = {SignatureOf(parameter, leaf, salt, x) : x \in codewords}
    BY <2>3
  <2> QED
    BY <1>2, <1>5, <2>2, <2>4, Zenon DEF secrets, codewords
<1> QED
  BY <1>3, <1>4, <1>5 DEF Kinds

LEMMA TsKeyRoot ==
  ASSUME kind \in Kinds, NEW parameter
  PROVE  TsVerifyingKey(Given(LeavesOf(kind)), parameter) = [node |-> Root(parameter), parameter |-> parameter]
<1>1. CASE kind = "xmss"
  <2> DEFINE nodes == TsNodes(Given(X!LEAVES), parameter)
  <2>1. HEIGHT \in 0 .. HEIGHT /\ 0 \in 0 .. Width(HEIGHT) - 1 /\ X!Level(HEIGHT) + 0 = X!Level(HEIGHT)
    BY Widths, Levels, HazmatConstantsOK
  <2>2. nodes[X!Level(HEIGHT) + 0] = Tree(parameter)[HEIGHT][0]
    BY <2>1, TsNodesAreLaid, LaidIsTree
  <2>3. TsLevelOffset(HEIGHT) = X!Level(HEIGHT)
    BY DEF TsLevelOffset, X!Level
  <2> HIDE DEF nodes
  <2> QED
    BY <1>1, <2>1, <2>2, <2>3, Counts DEF TsVerifyingKey, Root, nodes
<1>2. CASE kind = "winternitz"
  <2>1. TsEndsOf(Given(1), parameter, 0) = Tops(parameter, 0)
    BY TsEndsAreTops
  <2> QED
    BY <1>2, <2>1, Counts DEF TsVerifyingKey, Root, Tops
<1> QED
  BY <1>1, <1>2 DEF Kinds

-----------------------------------------------------------------------------
(* What a signature exposes *)

\* What a walk from a position gets to is not below it.
LEMMA NotBelow ==
  ASSUME NEW parameter, NEW leaf, NEW i, NEW a \in Positions, NEW b \in Positions,
         NEW to \in a .. POSITIONS - 1,
         Chain(parameter, leaf, i)[b] = Walk(parameter, leaf, i, a, to, Chain(parameter, leaf, i)[a])
  PROVE  a <= b
<1>1. to \in Positions /\ a <= to
  BY EncodingOK DEF Positions
<1>2. Walk(parameter, leaf, i, a, to, Chain(parameter, leaf, i)[a]) = Chain(parameter, leaf, i)[to]
  BY <1>1, WalkFromElement
<1>3. b = to
  BY <1>1, <1>2, ChainTells
<1> QED
  BY <1>1, <1>3

\* The values from the elements of a codeword on are the elements of no other
\* codeword: it would have no smaller digit and the same sum.
LEMMA Incomparable ==
  ASSUME NEW parameter, NEW leaf, NEW signed \in Digests, NEW d \in Digests, NEW x, NEW y,
         x = Digits(signed), Sum(x) = TARGET_SUM, y = Digits(d), Sum(y) = TARGET_SUM,
         \A i \in Chains : \E to \in x[i] .. POSITIONS - 1 :
           Elements(parameter, leaf, y)[i]
             = Walk(parameter, leaf, i, x[i], to, Elements(parameter, leaf, x)[i])
  PROVE  d = signed
<1>1. x \in [Chains -> Positions] /\ y \in [Chains -> Positions]
  BY DigitsAre
<1>2. \A i \in Chains : x[i] <= y[i]
  <2>1. TAKE i \in Chains
  <2>2. x[i] \in Positions /\ y[i] \in Positions
    BY <1>1
  <2>3. PICK to \in x[i] .. POSITIONS - 1 :
          Elements(parameter, leaf, y)[i]
            = Walk(parameter, leaf, i, x[i], to, Elements(parameter, leaf, x)[i])
    BY <2>1
  <2>4. Elements(parameter, leaf, x)[i] = Chain(parameter, leaf, i)[x[i]]
        /\ Elements(parameter, leaf, y)[i] = Chain(parameter, leaf, i)[y[i]]
    BY DEF Elements
  <2> QED
    BY <2>2, <2>3, <2>4, NotBelow
<1>3. x \in [Chains -> Nat] /\ y \in [Chains -> Nat]
  BY <1>1, LastPosition
<1>4. x = y
  BY <1>2, <1>3, SumsTell
<1> QED
  BY <1>4, DigitsInjective

-----------------------------------------------------------------------------
(* The states of raw signing: the inductive invariant *)

\* A call is one of three records; a sampling is at an allocated leaf and has
\* trials left.
CallOK ==
  call \in {Idle} \cup [op : {"generate"}, filled : 0 .. LeavesOf(kind)] \cup
    [op : {"sign_at"}, leaf : attempted, message : Messages, trials : 0 .. MAX_TRIALS - 1]

LeavesOK == kind \in Kinds /\ attempted \subseteq 0 .. LeavesOf(kind) - 1

\* A key is that of some parameter, and is not made twice.
KeyOK ==
  /\ key = {} \/ \E parameter \in Parameters : key = {KeyOf(parameter)}
  /\ call.op = "generate" => key = {}

\* The secrets of the first leaves, the others still zero.
Filled(leaves) ==
  [n \in Cells(kind) |-> IF n \div CHAINS < leaves THEN Sampled(n) ELSE Zero]

BufferOK == IF call.op = "generate" THEN buffer = Filled(call.filled) ELSE BufferWiped

\* A released signature is the key's, at its leaf, for its message and some salt.
Genuine(r) ==
  /\ r.leaf \in attempted /\ r.message \in Messages
  /\ \E parameter \in Parameters, salt \in Salts :
       /\ key = {KeyOf(parameter)}
       /\ \E x \in Encode(salt, parameter, r.leaf, r.message) :
            r.signature = SignatureOf(parameter, r.leaf, salt, x)

ReleasedOK == \A r \in released : Genuine(r)

ResultOK == result \in {"none", "Ok", "Random", "InvalidLength", "InvalidLeaf", "SaltsExhausted"}

HazmatInv == CallOK /\ LeavesOK /\ KeyOK /\ BufferOK /\ ReleasedOK /\ ResultOK

-----------------------------------------------------------------------------
(* The buffer *)

\* Wiping leaves nothing.
LEMMA Wiped == \A b : \A n \in DOMAIN Wipe(b) : Wipe(b)[n] = Zero
BY DEF Wipe

\* One more leaf.
LEMMA FilledNext ==
  ASSUME NEW f \in Nat
  PROVE  [n \in DOMAIN Filled(f) |-> IF n \div CHAINS = f THEN Sampled(n) ELSE Filled(f)[n]] = Filled(f + 1)
<1> DEFINE a(n) == IF n \div CHAINS = f THEN Sampled(n) ELSE Filled(f)[n]
           b(n) == IF n \div CHAINS < f + 1 THEN Sampled(n) ELSE Zero
<1>1. DOMAIN Filled(f) = Cells(kind)
  BY DEF Filled
<1>2. ASSUME NEW n \in Cells(kind) PROVE a(n) = b(n)
  <2>1. n \div CHAINS \in Nat
    BY DivMod, EncodingOK DEF Cells
  <2>2. Filled(f)[n] = IF n \div CHAINS < f THEN Sampled(n) ELSE Zero
    BY DEF Filled
  <2>3. n \div CHAINS < f + 1 <=> n \div CHAINS < f \/ n \div CHAINS = f
    BY <2>1
  <2> HIDE DEF Filled
  <2> QED
    BY <2>2, <2>3
<1>3. Filled(f + 1) = [n \in Cells(kind) |-> b(n)]
  BY DEF Filled
<1> HIDE DEF a, b
<1>4. [n \in Cells(kind) |-> a(n)] = [n \in Cells(kind) |-> b(n)]
  BY <1>2, Zenon
<1> QED
  BY <1>1, <1>3, <1>4, Zenon DEF a

\* All leaves.
LEMMA FilledWhole ==
  ASSUME kind \in Kinds
  PROVE  Filled(LeavesOf(kind)) = Given(LeavesOf(kind))
<1> DEFINE a(n) == IF n \div CHAINS < LeavesOf(kind) THEN Sampled(n) ELSE Zero
<1>1. ASSUME NEW n \in Cells(kind) PROVE a(n) = Sampled(n)
  <2> PICK leaves \in Nat : leaves = LeavesOf(kind)
    BY Counts
  <2>1. n \in Nat /\ n < CHAINS * leaves
    BY EncodingOK DEF Cells
  <2>2. n \div CHAINS < leaves
    BY <2>1, DivLess, EncodingOK
  <2> QED
    BY <2>2
<1>2. Filled(LeavesOf(kind)) = [n \in Cells(kind) |-> a(n)]
  BY DEF Filled
<1> HIDE DEF a
<1>3. [n \in Cells(kind) |-> a(n)] = [n \in Cells(kind) |-> Sampled(n)]
  BY <1>1, Zenon
<1> QED
  BY <1>2, <1>3, Zenon DEF Given, Cells

-----------------------------------------------------------------------------
(* Signatures *)

\* What a key hands out at an allocated leaf is genuine.
LEMMA ReleasedIs ==
  ASSUME kind \in Kinds, NEW parameter \in Parameters, NEW leaf, leaf \in 0 .. LeavesOf(kind) - 1,
         NEW message \in Messages, NEW salt \in Salts
  PROVE  Released(KeyOf(parameter), leaf, message, salt)
           = {[leaf |-> leaf, message |-> message, signature |-> SignatureOf(parameter, leaf, salt, x)] :
                x \in Encode(salt, parameter, leaf, message)}
<1> DEFINE entry(s) == [leaf |-> leaf, message |-> message, signature |-> s]
           codewords == Encode(salt, parameter, leaf, message)
<1>1. leaf \in Nat /\ leaf < LeavesOf(kind) /\ Hashed(salt, parameter, leaf, message)
  BY Counts DEF Hashed
<1>2. SignAtWithSalt(KeyOf(parameter), leaf, message, salt)
        = {SignatureOf(parameter, leaf, salt, x) : x \in codewords}
  BY <1>1, SignAtWithSaltIs
<1>3. Released(KeyOf(parameter), leaf, message, salt)
        = {entry(s) : s \in SignAtWithSalt(KeyOf(parameter), leaf, message, salt)}
  BY DEF Released
<1> HIDE DEF entry, codewords
<1>4. Released(KeyOf(parameter), leaf, message, salt)
        = {entry(SignatureOf(parameter, leaf, salt, x)) : x \in codewords}
  BY <1>2, <1>3
<1> QED
  BY <1>4, Zenon DEF entry, codewords

-----------------------------------------------------------------------------
(* The invariant *)

LEMMA HazmatInit == Init => HazmatInv
<1> SUFFICES ASSUME Init PROVE HazmatInv
  OBVIOUS
<1> USE DEF Init
<1>1. CallOK /\ LeavesOK /\ KeyOK /\ ReleasedOK /\ ResultOK
  BY DEF CallOK, LeavesOK, KeyOK, ReleasedOK, ResultOK, Idle
<1>2. BufferOK
  BY DEF BufferOK, BufferWiped, Idle
<1> QED
  BY <1>1, <1>2 DEF HazmatInv

\* What does not change the key, and takes no leaf back, changes no signature's
\* being genuine.
LEMMA StaysGenuine ==
  ASSUME UNCHANGED <<kind, key>>, attempted \subseteq attempted', NEW r, Genuine(r)
  PROVE  Genuine(r)'
<1>1. \A p : KeyOf(p)' = KeyOf(p)
  BY DEF KeyOf
<1>2. \A p, leaf, salt, x : SignatureOf(p, leaf, salt, x)' = SignatureOf(p, leaf, salt, x)
  BY DEF SignatureOf
<1> HIDE DEF KeyOf, SignatureOf
<1> QED
  BY <1>1, <1>2 DEF Genuine

\* The conjuncts that a step without a new key or signature keeps.
LEMMA Frame ==
  ASSUME HazmatInv, UNCHANGED <<kind, key, released>>, attempted \subseteq attempted',
         attempted' \subseteq 0 .. LeavesOf(kind) - 1, call'.op = "generate" => key = {}
  PROVE  LeavesOK' /\ KeyOK' /\ ReleasedOK'
<1>1. LeavesOK'
  BY DEF HazmatInv, LeavesOK, LeavesOf
<1>2. KeyOK'
  <2>1. \A p : KeyOf(p)' = KeyOf(p)
    BY DEF KeyOf
  <2> QED
    BY <2>1 DEF HazmatInv, KeyOK
<1>3. ReleasedOK'
  <2>1. \A r \in released : Genuine(r)
    BY DEF HazmatInv, ReleasedOK
  <2>2. \A r \in released : Genuine(r)'
    BY <2>1, StaysGenuine
  <2> QED
    BY <2>2 DEF ReleasedOK
<1> QED
  BY <1>1, <1>2, <1>3

\* The steps of generate and the import.
LEMMA KeySteps ==
  ASSUME HazmatInv, Generate \/ FillLeaf \/ FillParameter \/ Import
  PROVE  HazmatInv'
<1> USE DEF HazmatInv
<1>0. LeavesOf(kind) \in Nat \ {0} /\ kind \in Kinds /\ (UNCHANGED kind => LeavesOf(kind)' = LeavesOf(kind))
  BY Counts DEF LeavesOK, LeavesOf
<1>1. CASE Generate
  <2>1. /\ call = Idle /\ key = {} /\ call' = [op |-> "generate", filled |-> 0]
        /\ buffer' = [n \in Cells(kind) |-> Zero]
        /\ UNCHANGED <<kind, key, attempted, released, result>>
    BY <1>1 DEF Generate
  <2>2. CallOK' /\ ResultOK'
    BY <1>0, <2>1 DEF CallOK, ResultOK
  <2>3. LeavesOK' /\ KeyOK' /\ ReleasedOK'
    BY <2>1, Frame DEF LeavesOK
  <2>4. BufferOK'
    <3>1. ASSUME NEW n \in Cells(kind) PROVE ~ (n \div CHAINS < 0)
      <4>1. n \div CHAINS \in Nat
        BY DivMod, EncodingOK DEF Cells
      <4> QED
        BY <4>1
    <3> DEFINE a(n) == IF n \div CHAINS < 0 THEN Sampled(n) ELSE Zero
    <3>2. Filled(0)' = [n \in Cells(kind) |-> a(n)]
      BY <1>0, <2>1 DEF Filled, Cells, LeavesOf
    <3>3. \A n \in Cells(kind) : a(n) = Zero
      BY <3>1
    <3> HIDE DEF a
    <3>4. [n \in Cells(kind) |-> a(n)] = [n \in Cells(kind) |-> Zero]
      BY <3>3, Zenon
    <3> QED
      BY <2>1, <3>2, <3>4 DEF BufferOK
  <2> QED
    BY <2>2, <2>3, <2>4
<1>2. CASE FillLeaf
  <2>1. /\ call.op = "generate" /\ call.filled < LeavesOf(kind)
        /\ buffer' = [n \in DOMAIN buffer |-> IF n \div CHAINS = call.filled THEN Sampled(n) ELSE buffer[n]]
        /\ call' = [call EXCEPT !.filled = @ + 1]
        /\ UNCHANGED <<kind, key, attempted, released, result>>
    BY <1>2 DEF FillLeaf
  <2>2. PICK f \in Nat : call = [op |-> "generate", filled |-> f]
    <3>1. call \in [op : {"generate"}, filled : 0 .. LeavesOf(kind)]
      BY <2>1 DEF CallOK, Idle
    <3> QED
      BY <1>0, <3>1
  <2>3. call' = [op |-> "generate", filled |-> f + 1] /\ f < LeavesOf(kind)
    BY <2>1, <2>2
  <2>4. CallOK' /\ ResultOK'
    <3>1. f + 1 \in 0 .. LeavesOf(kind)
      BY <1>0, <2>3
    <3>2. call' \in [op : {"generate"}, filled : 0 .. LeavesOf(kind)]
      BY <2>3, <3>1
    <3> QED
      BY <1>0, <2>1, <3>2 DEF CallOK, ResultOK
  <2>5. LeavesOK' /\ KeyOK' /\ ReleasedOK'
    BY <2>1, Frame DEF LeavesOK, KeyOK
  <2>6. BufferOK'
    <3>1. buffer = Filled(f)
      BY <2>1, <2>2 DEF BufferOK
    <3>2. buffer' = Filled(f + 1)
      BY <2>1, <2>2, <3>1, FilledNext
    <3>3. Filled(f + 1)' = Filled(f + 1)
      BY <1>0, <2>1 DEF Filled, Cells
    <3> HIDE DEF Filled
    <3>4. call'.op = "generate" /\ call'.filled = f + 1
      BY <2>3
    <3> QED
      BY <3>2, <3>3, <3>4 DEF BufferOK
  <2> QED
    BY <2>4, <2>5, <2>6
<1>3. CASE FillParameter
  <2>1. PICK parameter \in Parameters : key' = FromSecrets(kind, buffer, parameter)
    BY <1>3 DEF FillParameter
  <2>2. /\ call.op = "generate" /\ call.filled = LeavesOf(kind)
        /\ result' = (IF key' = {} THEN "Corrupt" ELSE "Ok")
        /\ buffer' = Wipe(buffer) /\ call' = Idle
        /\ UNCHANGED <<kind, attempted, released>>
    BY <1>3 DEF FillParameter
  <2>3. buffer = Given(LeavesOf(kind))
    BY <1>0, <2>2, FilledWhole DEF BufferOK
  <2>4. key' = {KeyOf(parameter)}
    <3> PICK k \in Kinds : k = kind
      BY <1>0
    <3>1. FromSecrets(kind, Given(LeavesOf(k)), parameter) = {KeyOf(parameter)}
      BY <1>0, KeyMade
    <3> QED
      BY <2>1, <2>3, <3>1
  <2>5. CallOK' /\ LeavesOK' /\ ResultOK'
    BY <1>0, <2>2, <2>4 DEF CallOK, LeavesOK, ResultOK
  <2>6. KeyOK'
    <3>1. KeyOf(parameter)' = KeyOf(parameter)
      BY <2>2 DEF KeyOf
    <3> QED
      BY <2>2, <2>4, <3>1 DEF KeyOK, Idle
  <2>7. released = {}
    <3>1. key = {}
      BY <2>2 DEF KeyOK
    <3> QED
      BY <3>1 DEF ReleasedOK, Genuine
  <2>8. ReleasedOK'
    BY <2>2, <2>7 DEF ReleasedOK
  <2>9. BufferOK'
    BY <2>2, Wiped DEF BufferOK, BufferWiped, Idle
  <2> QED
    BY <2>5, <2>6, <2>8, <2>9
<1>4. CASE Import
  <2>1. PICK k \in Kinds, parameter \in Parameters :
          key' = FromSecrets(kind, [n \in Cells(k) |-> Sampled(n)], parameter)
    BY <1>4 DEF Import
  <2>2. /\ call = Idle /\ key = {}
        /\ result' = (IF key' = {} THEN "InvalidLength" ELSE "Ok")
        /\ UNCHANGED <<kind, buffer, call, attempted, released>>
    BY <1>4 DEF Import
  <2>3. key' = IF k = kind THEN {KeyOf(parameter)} ELSE {}
    <3>1. [n \in Cells(k) |-> Sampled(n)] = Given(LeavesOf(k))
      BY DEF Given, Cells
    <3> QED
      BY <1>0, <2>1, <3>1, KeyMade
  <2>4. CallOK' /\ LeavesOK' /\ ResultOK'
    BY <1>0, <2>2 DEF CallOK, LeavesOK, ResultOK
  <2>5. KeyOK'
    <3>1. KeyOf(parameter)' = KeyOf(parameter)
      BY <2>2 DEF KeyOf
    <3> QED
      BY <2>2, <2>3, <3>1 DEF KeyOK, Idle
  <2>6. ReleasedOK'
    BY <2>2 DEF ReleasedOK, Genuine
  <2>7. BufferOK'
    BY <2>2 DEF BufferOK, BufferWiped, Idle
  <2> QED
    BY <2>4, <2>5, <2>6, <2>7
<1> QED
  BY <1>1, <1>2, <1>3, <1>4

\* Calls that sign, reject a salt, fail, or are refused, and hand out nothing.
LEMMA CallSteps ==
  ASSUME HazmatInv,
         \/ \E leaf \in 0 .. X!LEAVES :
              SignInvalidLeaf(leaf) \/ \E message \in Messages : SignAt(leaf, message)
         \/ \E salt \in Salts : RejectSalt(salt)
         \/ FillFails
  PROVE  HazmatInv'
<1> USE DEF HazmatInv
<1>0. /\ LeavesOf(kind) \in Nat \ {0} /\ kind \in Kinds /\ X!LEAVES \in Nat
      /\ (UNCHANGED kind => LeavesOf(kind)' = LeavesOf(kind))
      /\ MAX_TRIALS \in Nat \ {0}
  BY Counts, HazmatConstantsOK DEF LeavesOK, LeavesOf
<1>1. ASSUME NEW leaf \in 0 .. X!LEAVES, SignInvalidLeaf(leaf) PROVE HazmatInv'
  <2>1. call = Idle /\ result' = "InvalidLeaf" /\ UNCHANGED <<kind, buffer, key, call, attempted, released>>
    BY <1>1 DEF SignInvalidLeaf
  <2>2. CallOK' /\ ResultOK'
    BY <1>0, <2>1 DEF CallOK, ResultOK
  <2>3. LeavesOK' /\ KeyOK' /\ ReleasedOK'
    BY <2>1, Frame DEF LeavesOK, KeyOK
  <2>4. BufferOK'
    BY <2>1 DEF BufferOK, BufferWiped, Idle
  <2> QED
    BY <2>2, <2>3, <2>4
<1>2. ASSUME NEW leaf \in 0 .. X!LEAVES, NEW message \in Messages, SignAt(leaf, message) PROVE HazmatInv'
  <2>1. /\ call = Idle /\ leaf < LeavesOf(kind) /\ attempted' = attempted \cup {leaf}
        /\ call' = [op |-> "sign_at", leaf |-> leaf, message |-> message, trials |-> 0]
        /\ UNCHANGED <<kind, buffer, key, released, result>>
    BY <1>2 DEF SignAt
  <2>2. CallOK' /\ ResultOK'
    <3>1. 0 \in 0 .. MAX_TRIALS - 1
      BY <1>0
    <3>2. call' \in [op : {"sign_at"}, leaf : attempted', message : Messages, trials : 0 .. MAX_TRIALS - 1]
      BY <2>1, <3>1
    <3> QED
      BY <2>1, <3>2 DEF CallOK, ResultOK
  <2>3. LeavesOK' /\ KeyOK' /\ ReleasedOK'
    <3>1. attempted' \subseteq 0 .. LeavesOf(kind) - 1
      BY <1>0, <2>1 DEF LeavesOK
    <3> QED
      BY <2>1, <3>1, Frame
  <2>4. BufferOK'
    BY <2>1 DEF BufferOK, BufferWiped, Idle
  <2> QED
    BY <2>2, <2>3, <2>4
<1>3. ASSUME NEW salt \in Salts, RejectSalt(salt) PROVE HazmatInv'
  <2>1. /\ call.op = "sign_at" /\ UNCHANGED <<kind, buffer, key, attempted, released>>
        /\ \/ call' = Idle /\ result' = "SaltsExhausted"
           \/ call.trials + 1 # MAX_TRIALS /\ call' = [call EXCEPT !.trials = @ + 1] /\ result' = result
    BY <1>3 DEF RejectSalt
  <2>2. call \in [op : {"sign_at"}, leaf : attempted, message : Messages, trials : 0 .. MAX_TRIALS - 1]
    BY <2>1 DEF CallOK, Idle
  <2>3. CallOK' /\ ResultOK' /\ call'.op # "generate"
    <3>1. CASE call' = Idle /\ result' = "SaltsExhausted"
      BY <3>1 DEF CallOK, ResultOK, Idle
    <3>2. CASE call.trials + 1 # MAX_TRIALS /\ call' = [call EXCEPT !.trials = @ + 1] /\ result' = result
      <4>1. call.trials + 1 \in 0 .. MAX_TRIALS - 1
        BY <1>0, <2>2, <3>2
      <4>2. call' \in [op : {"sign_at"}, leaf : attempted, message : Messages, trials : 0 .. MAX_TRIALS - 1]
        BY <2>2, <3>2, <4>1
      <4> QED
        BY <2>1, <3>2, <4>2 DEF CallOK, ResultOK
    <3> QED
      BY <2>1, <3>1, <3>2
  <2>4. LeavesOK' /\ KeyOK' /\ ReleasedOK'
    BY <2>1, <2>3, Frame DEF LeavesOK
  <2>5. BufferOK'
    BY <2>1, <2>3 DEF BufferOK, BufferWiped
  <2> QED
    BY <2>3, <2>4, <2>5
<1>4. CASE FillFails
  <2>1. /\ call' = Idle /\ result' = "Random" /\ buffer' = Wipe(buffer)
        /\ UNCHANGED <<kind, key, attempted, released>>
    BY <1>4 DEF FillFails
  <2>2. CallOK' /\ ResultOK'
    BY <2>1 DEF CallOK, ResultOK
  <2>3. LeavesOK' /\ KeyOK' /\ ReleasedOK'
    BY <2>1, Frame DEF LeavesOK, Idle
  <2>4. BufferOK'
    BY <2>1, Wiped DEF BufferOK, BufferWiped, Idle
  <2> QED
    BY <2>2, <2>3, <2>4
<1> QED
  BY <1>1, <1>2, <1>3, <1>4

\* What is handed out for a key, an allocated leaf, a message and a salt.
LEMMA HandedOut ==
  ASSUME HazmatInv, NEW k \in key, NEW leaf, leaf \in attempted, NEW message \in Messages,
         NEW salt \in Salts, UNCHANGED <<kind, key, attempted>>,
         released' = released \cup Released(k, leaf, message, salt)
  PROVE  /\ LeavesOK' /\ ReleasedOK'
         /\ Encode(salt, k.parameter, leaf, message) # {} => Released(k, leaf, message, salt) # {}
<1> USE DEF HazmatInv
<1>1. PICK parameter \in Parameters : k = KeyOf(parameter) /\ key = {k}
  BY DEF KeyOK
<1>2. k.parameter = parameter
  BY <1>1 DEF KeyOf
<1>3. kind \in Kinds /\ leaf \in 0 .. LeavesOf(kind) - 1
  BY DEF LeavesOK
<1>4. Released(k, leaf, message, salt)
        = {[leaf |-> leaf, message |-> message, signature |-> SignatureOf(parameter, leaf, salt, x)] :
             x \in Encode(salt, parameter, leaf, message)}
  <2>1. Released(KeyOf(parameter), leaf, message, salt)
          = {[leaf |-> leaf, message |-> message, signature |-> SignatureOf(parameter, leaf, salt, x)] :
               x \in Encode(salt, parameter, leaf, message)}
    BY <1>3, ReleasedIs
  <2> QED
    BY <1>1, <2>1, Zenon
<1>5. \A r \in Released(k, leaf, message, salt) : Genuine(r)
  BY <1>1, <1>4 DEF Genuine
<1>6. \A r \in released \cup Released(k, leaf, message, salt) : Genuine(r)'
  <2>1. \A r \in released \cup Released(k, leaf, message, salt) : Genuine(r)
    BY <1>5 DEF ReleasedOK
  <2> QED
    BY <2>1, StaysGenuine
<1>7. LeavesOK'
  BY DEF LeavesOK, LeavesOf
<1>8. ReleasedOK'
  BY <1>6 DEF ReleasedOK
<1> QED
  BY <1>2, <1>4, <1>7, <1>8

\* The steps that hand out a signature.
LEMMA ReleaseSteps ==
  ASSUME HazmatInv,
         (\E salt \in Salts : AcceptSalt(salt)) \/ (\E r \in released : Reproduce(r))
  PROVE  HazmatInv'
<1> USE DEF HazmatInv
<1>1. ASSUME NEW salt \in Salts, AcceptSalt(salt) PROVE HazmatInv'
  <2>1. call.op = "sign_at" /\ call' = Idle /\ UNCHANGED <<kind, buffer, key, attempted>>
    BY <1>1 DEF AcceptSalt
  <2>2. call \in [op : {"sign_at"}, leaf : attempted, message : Messages, trials : 0 .. MAX_TRIALS - 1]
    BY <2>1 DEF CallOK, Idle
  <2>3. PICK leaf \in attempted, message \in Messages : leaf = call.leaf /\ message = call.message
    BY <2>2
  <2>4. PICK k \in key : /\ Encode(salt, k.parameter, leaf, message) # {}
                         /\ released' = released \cup Released(k, leaf, message, salt)
                         /\ result' = IF Released(k, leaf, message, salt) = {} THEN "Corrupt" ELSE "Ok"
    BY <1>1, <2>3 DEF AcceptSalt, Accepted
  <2>5. LeavesOK' /\ ReleasedOK' /\ Released(k, leaf, message, salt) # {}
    BY <2>1, <2>4, HandedOut
  <2>6. CallOK' /\ ResultOK'
    BY <2>1, <2>4, <2>5 DEF CallOK, ResultOK
  <2>7. KeyOK'
    <3>1. \A p : KeyOf(p)' = KeyOf(p)
      BY <2>1 DEF KeyOf
    <3> QED
      BY <2>1, <3>1 DEF KeyOK, Idle
  <2>8. BufferOK'
    BY <2>1 DEF BufferOK, BufferWiped, Idle
  <2> QED
    BY <2>5, <2>6, <2>7, <2>8
<1>2. ASSUME NEW r \in released, Reproduce(r) PROVE HazmatInv'
  <2>1. call = Idle /\ UNCHANGED <<kind, buffer, key, call, attempted>>
    BY <1>2 DEF Reproduce
  <2>2. Genuine(r)
    BY DEF ReleasedOK
  <2>3. PICK parameter \in Parameters, salt \in Salts :
          \E x \in Encode(salt, parameter, r.leaf, r.message) :
            r.signature = SignatureOf(parameter, r.leaf, salt, x)
    BY <2>2 DEF Genuine
  <2>4. r.signature.salt = salt
    BY <2>3 DEF SignatureOf
  <2>5. PICK k \in key : /\ released' = released \cup Released(k, r.leaf, r.message, salt)
                         /\ result' \in {"none", "Ok"}
    BY <1>2, <2>4 DEF Reproduce
  <2>6. r.leaf \in attempted /\ r.message \in Messages
    BY <2>2 DEF Genuine
  <2>7. LeavesOK' /\ ReleasedOK'
    BY <2>1, <2>5, <2>6, HandedOut
  <2>8. CallOK' /\ ResultOK'
    BY <2>1, <2>5 DEF CallOK, ResultOK
  <2>9. KeyOK'
    <3>1. \A p : KeyOf(p)' = KeyOf(p)
      BY <2>1 DEF KeyOf
    <3> QED
      BY <2>1, <3>1 DEF KeyOK, Idle
  <2>10. BufferOK'
    BY <2>1 DEF BufferOK, BufferWiped, Idle
  <2> QED
    BY <2>7, <2>8, <2>9, <2>10
<1> QED
  BY <1>1, <1>2

LEMMA HazmatStep == HazmatInv /\ [Next]_vars => HazmatInv'
<1> SUFFICES ASSUME HazmatInv, [Next]_vars PROVE HazmatInv'
  OBVIOUS
<1>1. CASE UNCHANGED vars
  <2>1. UNCHANGED <<kind, buffer, key, call, attempted, released, result>>
    BY <1>1 DEF vars
  <2>2. \A p : KeyOf(p)' = KeyOf(p)
    BY <2>1 DEF KeyOf
  <2>3. CallOK' /\ ResultOK' /\ LeavesOK'
    BY <2>1 DEF HazmatInv, CallOK, ResultOK, LeavesOK, LeavesOf
  <2>4. KeyOK' /\ ReleasedOK'
    BY <2>1, Frame DEF HazmatInv, LeavesOK, KeyOK
  <2>5. BufferOK'
    BY <2>1 DEF HazmatInv, BufferOK, BufferWiped, Filled, Cells, LeavesOf
  <2> QED
    BY <2>3, <2>4, <2>5 DEF HazmatInv
<1>2. CASE Next
  BY <1>2, KeySteps, CallSteps, ReleaseSteps DEF Next
<1> QED
  BY <1>1, <1>2

-----------------------------------------------------------------------------
(* What the invariant means *)

\* There is one key, and it is one that the lemmas above speak of.
LEMMA TheKey ==
  ASSUME HazmatInv, NEW k \in key
  PROVE  /\ kind \in Kinds
         /\ \E parameter \in Parameters :
              /\ k = KeyOf(parameter) /\ key = {k} /\ k.parameter = parameter
              /\ k.secrets = Given(LeavesOf(kind))
<1>1. kind \in Kinds
  BY DEF HazmatInv, LeavesOK
<1>2. PICK parameter \in Parameters : k = KeyOf(parameter) /\ key = {k}
  BY DEF HazmatInv, KeyOK
<1>3. k.parameter = parameter /\ k.secrets = Given(LeavesOf(kind))
  BY <1>1, <1>2, Counts DEF KeyOf, Kinds
<1> QED
  BY <1>1, <1>2, <1>3

\* What has been released is a signature of that key.
LEMMA TheSignature ==
  ASSUME HazmatInv, NEW r \in released
  PROVE  /\ kind \in Kinds /\ r.leaf \in 0 .. LeavesOf(kind) - 1 /\ r.leaf \in 0 .. X!LEAVES - 1
         /\ r.message \in Messages
         /\ \E parameter \in Parameters, salt \in Salts :
              /\ key = {KeyOf(parameter)}
              /\ \E x \in Encode(salt, parameter, r.leaf, r.message) :
                   r.signature = SignatureOf(parameter, r.leaf, salt, x)
<1>1. Genuine(r) /\ LeavesOK
  BY DEF HazmatInv, ReleasedOK
<1>2. kind \in Kinds /\ r.leaf \in 0 .. LeavesOf(kind) - 1
  BY <1>1 DEF Genuine, LeavesOK
<1>3. r.leaf \in 0 .. X!LEAVES - 1
  BY <1>2, Counts
<1> QED
  BY <1>1, <1>2, <1>3 DEF Genuine

LEMMA ShapedParts ==
  ASSUME kind = "xmss", NEW s, NEW elements, NEW path, s.elements = elements, s.path = path,
         s.leaf \in Nat, s.salt \in Salts,
         elements = [i \in Chains |-> elements[i]], path = [l \in 0 .. HEIGHT - 1 |-> path[l]]
  PROVE  Shaped(s)
<1>1. s.elements = [i \in Chains |-> s.elements[i]]
  BY Zenon
<1>2. s.path = [l \in 0 .. HEIGHT - 1 |-> s.path[l]]
  BY Zenon
<1> QED
  BY <1>1, <1>2 DEF Shaped, LeafOf

\* Values in the places of a signature's: the signature, and what one change makes of it.
LEMMA ChangedShaped ==
  ASSUME kind \in Kinds, NEW parameter, NEW leaf, leaf \in 0 .. LeavesOf(kind) - 1, NEW salt \in Salts, NEW x,
         NEW q, NEW s \in {SignatureOf(parameter, leaf, salt, x)} \cup Changed(SignatureOf(parameter, leaf, salt, x), q)
  PROVE  Shaped(s)
<1> DEFINE e == Elements(parameter, leaf, x)
           path == Path(parameter, leaf)
           signature == SignatureOf(parameter, leaf, salt, x)
<1>1. e = [i \in Chains |-> e[i]]
  BY DEF Elements
<1>2. path = [l \in 0 .. HEIGHT - 1 |-> path[l]]
  BY DEF Path
<1>3. leaf \in Nat /\ X!LEAVES \in Nat
  BY Counts
<1> HIDE DEF e, path
<1>4. \A v, i : [e EXCEPT ![i] = v] = [j \in Chains |-> [e EXCEPT ![i] = v][j]]
  BY <1>1
<1>5. \A v, i : [path EXCEPT ![i] = v] = [l \in 0 .. HEIGHT - 1 |-> [path EXCEPT ![i] = v][l]]
  BY <1>2
<1>6. CASE kind = "xmss"
  <2>1. signature = [leaf |-> leaf, salt |-> salt, elements |-> e, path |-> path]
    BY <1>6 DEF SignatureOf, e, path
  <2> HIDE DEF signature
  <2>2. \/ s = signature
        \/ \E t \in Salts : s = [signature EXCEPT !.salt = t]
        \/ \E i, v : s = [signature EXCEPT !.elements[i] = v]
        \/ \E l \in 0 .. X!LEAVES : s = [signature EXCEPT !.leaf = l]
        \/ \E l, v : s = [signature EXCEPT !.path[l] = v]
    <3>1. s \in {signature} \cup Changed(signature, q)
      BY DEF signature
    <3> DEFINE withSalt(t) == [signature EXCEPT !.salt = t]
               withElement(i, v) == [signature EXCEPT !.elements[i] = v]
               withLeaf(l) == [signature EXCEPT !.leaf = l]
               withNode(l, n) == [signature EXCEPT !.path[l] = n]
    <3> HIDE DEF withSalt, withElement, withLeaf, withNode
    <3>2. \/ s = signature
          \/ \E t \in Salts : s = withSalt(t)
          \/ \E i \in Chains, v \in ChainValues(q) : s = withElement(i, v)
          \/ \E l \in 0 .. X!LEAVES : s = withLeaf(l)
          \/ \E l \in 0 .. HEIGHT - 1, n \in TreeValues(q) : s = withNode(l, n)
      <4>1. Changed(signature, q)
              = {withSalt(t) : t \in Salts} \cup
                {withElement(i, v) : i \in Chains, v \in ChainValues(q)} \cup
                {withLeaf(l) : l \in 0 .. X!LEAVES} \cup
                {withNode(l, n) : l \in 0 .. HEIGHT - 1, n \in TreeValues(q)}
        BY <1>6 DEF Changed, withSalt, withElement, withLeaf, withNode
      <4> QED
        BY <3>1, <4>1
    <3> QED
      BY <3>2, Zenon DEF withSalt, withElement, withLeaf, withNode
  <2>3. CASE s = signature
    <3>1. s.salt = salt /\ s.leaf = leaf /\ s.elements = e /\ s.path = path
      BY <2>1, <2>3
    <3> QED
      BY <1>1, <1>2, <1>3, <1>6, <3>1, ShapedParts
  <2>4. CASE \E t \in Salts : s = [signature EXCEPT !.salt = t]
    <3> PICK t \in Salts : s = [signature EXCEPT !.salt = t]
      BY <2>4
    <3>1. s.salt = t /\ s.leaf = leaf /\ s.elements = e /\ s.path = path
      BY <2>1
    <3> QED
      BY <1>1, <1>2, <1>3, <1>6, <3>1, ShapedParts
  <2>5. CASE \E i, v : s = [signature EXCEPT !.elements[i] = v]
    <3> PICK i, v : s = [signature EXCEPT !.elements[i] = v]
      BY <2>5
    <3>1. s.salt = salt /\ s.leaf = leaf /\ s.elements = [e EXCEPT ![i] = v] /\ s.path = path
      BY <2>1
    <3> DEFINE changed == [e EXCEPT ![i] = v]
    <3>2. changed = [j \in Chains |-> changed[j]]
      BY <1>4
    <3>3. s.elements = changed
      BY <3>1
    <3> HIDE DEF changed
    <3> QED
      BY <1>2, <1>3, <1>6, <3>1, <3>2, <3>3, ShapedParts
  <2>6. CASE \E l \in 0 .. X!LEAVES : s = [signature EXCEPT !.leaf = l]
    <3> PICK l \in 0 .. X!LEAVES : s = [signature EXCEPT !.leaf = l]
      BY <2>6
    <3>1. s.salt = salt /\ s.leaf = l /\ s.elements = e /\ s.path = path
      BY <2>1
    <3>2. s.leaf \in Nat
      BY <3>1
    <3> QED
      BY <1>1, <1>2, <1>6, <3>1, <3>2, ShapedParts
  <2>7. CASE \E l, v : s = [signature EXCEPT !.path[l] = v]
    <3> PICK l, v : s = [signature EXCEPT !.path[l] = v]
      BY <2>7
    <3>1. s.salt = salt /\ s.leaf = leaf /\ s.elements = e /\ s.path = [path EXCEPT ![l] = v]
      BY <2>1
    <3> DEFINE changed == [path EXCEPT ![l] = v]
    <3>2. changed = [j \in 0 .. HEIGHT - 1 |-> changed[j]]
      BY <1>5
    <3>3. s.path = changed
      BY <3>1
    <3> HIDE DEF changed
    <3> QED
      BY <1>1, <1>3, <1>6, <3>1, <3>2, <3>3, ShapedParts
  <2> QED
    BY <2>2, <2>3, <2>4, <2>5, <2>6, <2>7
<1>7. CASE kind = "winternitz"
  <2>1. signature = [salt |-> salt, elements |-> e]
    BY <1>7 DEF SignatureOf, e
  <2>2. \/ s = signature
        \/ \E t \in Salts : s = [signature EXCEPT !.salt = t]
        \/ \E i, v : s = [signature EXCEPT !.elements[i] = v]
    BY <1>7 DEF Changed
  <2> HIDE DEF signature
  <2>3. s.salt \in Salts /\ s.elements = [i \in Chains |-> s.elements[i]]
    BY <1>1, <1>4, <2>1, <2>2
  <2> QED
    BY <1>7, <2>3 DEF Shaped, LeafOf
<1> QED
  BY <1>6, <1>7 DEF Kinds

LEMMA TypesMeant == HazmatInv => TypeOK
<1> SUFFICES ASSUME HazmatInv PROVE TypeOK
  OBVIOUS
<1> USE DEF HazmatInv
<1>1. Cardinality(key) <= 1
  <2>1. CASE key = {}
    BY <2>1, FS_EmptySet
  <2>2. ASSUME NEW k, key = {k} PROVE Cardinality(key) <= 1
    BY <2>2, FS_Singleton
  <2> QED
    BY <2>1, <2>2 DEF KeyOK
<1>2. \A r \in released : r.leaf \in attempted /\ r.message \in Messages
  BY DEF ReleasedOK, Genuine
<1> QED
  BY <1>1, <1>2 DEF TypeOK, CallOK, LeavesOK, ResultOK

LEMMA TreeMeant == HazmatInv => KeyIsTheTree
<1> SUFFICES ASSUME HazmatInv, NEW k \in key
             PROVE  /\ VerifyingKey(k) = [node |-> Root(k.parameter), parameter |-> k.parameter]
                    /\ kind = "xmss" =>
                         \A l \in 0 .. HEIGHT : \A j \in DOMAIN Tree(k.parameter)[l] :
                           k.nodes[X!Level(l) + j] = Tree(k.parameter)[l][j]
  BY DEF KeyIsTheTree
<1>1. PICK parameter \in Parameters : k = KeyOf(parameter) /\ k.parameter = parameter
  BY TheKey
<1>2. kind \in Kinds
  BY TheKey
<1>3. VerifyingKey(KeyOf(parameter)) = [node |-> Root(parameter), parameter |-> parameter]
  BY <1>2, KeyRoot
<1>4. ASSUME kind = "xmss"
      PROVE  \A l \in 0 .. HEIGHT : \A j \in DOMAIN Tree(parameter)[l] :
               KeyOf(parameter).nodes[X!Level(l) + j] = Tree(parameter)[l][j]
  BY <1>4, KeyTree
<1> QED
  BY <1>1, <1>3, <1>4

LEMMA SignaturesMeant == HazmatInv => ReleasedVerify
<1> SUFFICES ASSUME HazmatInv, NEW k \in key, NEW r \in released
             PROVE  /\ IsSignature(r.signature, k.parameter, r.message)
                    /\ LeafOf(r.signature) = r.leaf
                    /\ Verify(VerifyingKey(k), r.message, r.signature)
  BY DEF ReleasedVerify
<1>1. /\ kind \in Kinds /\ r.leaf \in 0 .. LeavesOf(kind) - 1 /\ r.message \in Messages
  BY TheSignature
<1>2. PICK parameter \in Parameters, salt \in Salts :
        /\ key = {KeyOf(parameter)}
        /\ \E x \in Encode(salt, parameter, r.leaf, r.message) :
             r.signature = SignatureOf(parameter, r.leaf, salt, x)
  BY TheSignature
<1>3. PICK x \in Encode(salt, parameter, r.leaf, r.message) :
        r.signature = SignatureOf(parameter, r.leaf, salt, x)
  BY <1>2
<1>4. k = KeyOf(parameter) /\ k.parameter = parameter
  BY <1>2 DEF KeyOf
<1>5. IsSignature(r.signature, parameter, r.message) /\ LeafOf(r.signature) = r.leaf
  <2>1. /\ IsSignature(SignatureOf(parameter, r.leaf, salt, x), parameter, r.message)
        /\ LeafOf(SignatureOf(parameter, r.leaf, salt, x)) = r.leaf
    BY <1>1, SignatureOfIs
  <2> QED
    BY <1>3, <2>1
<1>6. Shaped(r.signature)
  <2>1. Shaped(SignatureOf(parameter, r.leaf, salt, x))
    BY <1>1, ChangedShaped
  <2> QED
    BY <1>3, <2>1
<1>7. Verify([VerifyingKey(KeyOf(parameter)) EXCEPT !.parameter = parameter], r.message, r.signature)
  BY <1>1, <1>5, <1>6, Verdict
<1>8. [VerifyingKey(KeyOf(parameter)) EXCEPT !.parameter = parameter] = VerifyingKey(KeyOf(parameter))
  BY <1>1, KeyRoot
<1> QED
  BY <1>4, <1>5, <1>7, <1>8

LEMMA VerdictsMeant == HazmatInv => VerdictIsHonest
<1> SUFFICES ASSUME HazmatInv, NEW k \in key, NEW r \in released,
                    NEW s \in Changed(r.signature, k.parameter), NEW message \in Messages, NEW p \in Parameters
             PROVE  Verify([VerifyingKey(k) EXCEPT !.parameter = p], message, s)
                      <=> p = k.parameter /\ IsSignature(s, p, message)
  BY DEF VerdictIsHonest
<1>1. /\ kind \in Kinds /\ r.leaf \in 0 .. LeavesOf(kind) - 1
  BY TheSignature
<1>2. PICK parameter \in Parameters, salt \in Salts :
        /\ key = {KeyOf(parameter)}
        /\ \E x : r.signature = SignatureOf(parameter, r.leaf, salt, x)
  BY TheSignature
<1>3. PICK x : r.signature = SignatureOf(parameter, r.leaf, salt, x)
  BY <1>2
<1>4. k = KeyOf(parameter) /\ k.parameter = parameter
  BY <1>2 DEF KeyOf
<1>5. Shaped(s)
  <2>1. s \in Changed(SignatureOf(parameter, r.leaf, salt, x), k.parameter)
    BY <1>3
  <2> QED
    BY <1>1, <2>1, ChangedShaped
<1>6. Verify([VerifyingKey(KeyOf(parameter)) EXCEPT !.parameter = p], message, s)
        <=> p = parameter /\ IsSignature(s, p, message)
  BY <1>1, <1>5, Verdict
<1> QED
  BY <1>4, <1>6

LEMMA ExposureMeant == HazmatInv => OnlyTheSignedDigest
<1> DEFINE signed(k, r) == Digest(r.signature.salt, k.parameter, r.leaf, r.message)
           reached(k, r, i, z, to) == Walk(k.parameter, r.leaf, i, z[i], to, r.signature.elements[i])
           exposed(k, r) ==
             [i \in Chains |->
               UNION {{reached(k, r, i, z, to) : to \in z[i] .. POSITIONS - 1} : z \in Codeword(signed(k, r))}]
<1> SUFFICES ASSUME HazmatInv, NEW k \in key, NEW r \in released, NEW d \in Digests, NEW y \in Codeword(d),
                    \A i \in Chains : Elements(k.parameter, r.leaf, y)[i] \in exposed(k, r)[i]
             PROVE  d = signed(k, r)
  BY DEF OnlyTheSignedDigest
<1>1. /\ kind \in Kinds /\ r.leaf \in 0 .. LeavesOf(kind) - 1 /\ r.leaf \in 0 .. X!LEAVES - 1
      /\ r.message \in Messages
  BY TheSignature
<1>2. PICK parameter \in Parameters, salt \in Salts :
        /\ key = {KeyOf(parameter)}
        /\ \E x \in Encode(salt, parameter, r.leaf, r.message) :
             r.signature = SignatureOf(parameter, r.leaf, salt, x)
  BY TheSignature
<1>3. PICK x \in Encode(salt, parameter, r.leaf, r.message) :
        r.signature = SignatureOf(parameter, r.leaf, salt, x)
  BY <1>2
<1>4. k.parameter = parameter
  BY <1>2 DEF KeyOf
<1>5. r.signature.salt = salt /\ r.signature.elements = Elements(parameter, r.leaf, x)
  BY <1>3 DEF SignatureOf
<1>6. signed(k, r) = Digest(salt, parameter, r.leaf, r.message)
  BY <1>4, <1>5
<1>7. signed(k, r) \in Digests /\ x = Digits(signed(k, r)) /\ Sum(x) = TARGET_SUM
  <2>1. Hashed(salt, parameter, r.leaf, r.message)
    BY <1>1 DEF Hashed
  <2> HIDE DEF signed
  <2> QED
    BY <1>6, <2>1, EncodeIs, DigestsAreBytes DEF Hashed
<1> HIDE DEF signed
<1>8. Codeword(signed(k, r)) = {x}
  BY <1>7 DEF Codeword
<1>9. y = Digits(d) /\ Sum(y) = TARGET_SUM
  BY DEF Codeword
<1>10. ASSUME NEW i \in Chains
       PROVE  \E to \in x[i] .. POSITIONS - 1 :
                Elements(parameter, r.leaf, y)[i]
                  = Walk(parameter, r.leaf, i, x[i], to, Elements(parameter, r.leaf, x)[i])
  <2> HIDE DEF reached
  <2>1. Elements(parameter, r.leaf, y)[i]
          \in UNION {{reached(k, r, i, z, to) : to \in z[i] .. POSITIONS - 1} : z \in {x}}
    BY <1>4, <1>8
  <2>2. \E to \in x[i] .. POSITIONS - 1 : Elements(parameter, r.leaf, y)[i] = reached(k, r, i, x, to)
    BY <2>1
  <2> QED
    BY <1>4, <1>5, <2>2 DEF reached
<1> QED
  BY <1>7, <1>9, <1>10, Incomparable

LEMMA SignersMeant == HazmatInv => SignersAgree
<1> SUFFICES ASSUME HazmatInv, NEW k \in key
             PROVE  /\ TsVerifyingKey(k.secrets, k.parameter) = VerifyingKey(k)
                    /\ \A leaf \in 0 .. X!LEAVES, message \in Messages, salt \in Salts :
                         TsSignAtWithSalt(k.secrets, k.parameter, leaf, message, salt)
                           = SignAtWithSalt(k, leaf, message, salt)
  BY DEF SignersAgree
<1>1. kind \in Kinds
  BY TheKey
<1>2. PICK parameter \in Parameters :
        k = KeyOf(parameter) /\ k.parameter = parameter /\ k.secrets = Given(LeavesOf(kind))
  BY TheKey
<1>3. TsVerifyingKey(Given(LeavesOf(kind)), parameter) = VerifyingKey(KeyOf(parameter))
  BY <1>1, KeyRoot, TsKeyRoot
<1>4. ASSUME NEW leaf \in 0 .. X!LEAVES, NEW message \in Messages, NEW salt \in Salts
      PROVE  TsSignAtWithSalt(Given(LeavesOf(kind)), parameter, leaf, message, salt)
               = SignAtWithSalt(KeyOf(parameter), leaf, message, salt)
  <2>1. leaf \in Nat /\ (leaf < LeavesOf(kind) => Hashed(salt, parameter, leaf, message))
    BY <1>1, Counts DEF Hashed
  <2> QED
    BY <1>1, <2>1, SignAtWithSaltIs, TsSignAtWithSaltIs
<1> QED
  BY <1>2, <1>3, <1>4

LEMMA VerifiersMeant == HazmatInv => VerifiersAgree
<1> SUFFICES ASSUME HazmatInv, NEW k \in key, NEW r \in released,
                    NEW s \in {r.signature} \cup Changed(r.signature, k.parameter),
                    NEW message \in Messages, NEW p \in Parameters
             PROVE  TsVerify([VerifyingKey(k) EXCEPT !.parameter = p], message, s)
                      <=> Verify([VerifyingKey(k) EXCEPT !.parameter = p], message, s)
  BY DEF VerifiersAgree
<1>1. kind \in Kinds /\ r.leaf \in 0 .. LeavesOf(kind) - 1
  BY TheSignature
<1>2. PICK parameter \in Parameters, salt \in Salts :
        /\ key = {KeyOf(parameter)}
        /\ \E x : r.signature = SignatureOf(parameter, r.leaf, salt, x)
  BY TheSignature
<1>3. PICK x : r.signature = SignatureOf(parameter, r.leaf, salt, x)
  BY <1>2
<1>4. Shaped(s)
  <2>1. s \in {SignatureOf(parameter, r.leaf, salt, x)}
                \cup Changed(SignatureOf(parameter, r.leaf, salt, x), k.parameter)
    BY <1>3
  <2> QED
    BY <1>1, <2>1, ChangedShaped
<1>5. \E v : v = [VerifyingKey(k) EXCEPT !.parameter = p] /\ v.parameter \in Parameters
  <2>1. k = KeyOf(parameter)
    BY <1>2
  <2>2. VerifyingKey(k) = [node |-> Root(parameter), parameter |-> parameter]
    BY <1>1, <2>1, KeyRoot
  <2>3. [VerifyingKey(k) EXCEPT !.parameter = p].parameter = p
    BY <2>2
  <2> QED
    BY <2>3
<1>6. PICK v : v = [VerifyingKey(k) EXCEPT !.parameter = p] /\ v.parameter \in Parameters
  BY <1>5
<1>7. TsVerify(v, message, s) <=> Verify(v, message, s)
  BY <1>1, <1>4, <1>6, TsVerdict
<1> QED
  BY <1>6, <1>7

-----------------------------------------------------------------------------
(* The theorems *)

LEMMA HazmatInvariant == Spec => []HazmatInv
BY HazmatInit, HazmatStep, PTL DEF Spec

\* The variables stay in their ranges: a sampling call has a trial left and signs at
\* a leaf its caller has allocated before, and no call ends without a key or a
\* signature it had in hand (hazmat.rs generate, sample_salt and sign_at).
THEOREM TypeCorrect == Spec => []TypeOK
BY HazmatInvariant, TypesMeant, PTL

\* Between calls the buffer of generate holds no secrets, whether the call made a
\* key, or its random source failed at any request (hazmat.rs generate).
THEOREM NoSecretsLeft == Spec => []BufferWiped
<1>1. HazmatInv => BufferWiped
  BY DEF HazmatInv, BufferOK, BufferWiped
<1> QED
  BY HazmatInvariant, <1>1, PTL

\* For trees of every height, the array a generated or imported key caches holds the
\* Merkle tree level after level, and the public key is its root (xmss.rs
\* from_secrets and level).
THEOREM TreesAreRight == Spec => []KeyIsTheTree
BY HazmatInvariant, TreeMeant, PTL

\* Every signature handed out, and every repetition, is the scheme's for its leaf and
\* message, and verifies (winternitz.rs and xmss.rs sign_at_with_salt and verify).
THEOREM SignaturesVerify == Spec => []ReleasedVerify
BY HazmatInvariant, SignaturesMeant, PTL

\* A key's verifier accepts the signatures of the scheme and nothing else: whatever
\* the elements and the path shown to it, for any message and under any parameter
\* (winternitz.rs and xmss.rs verify).
THEOREM OnlySignaturesVerify ==
  Spec => [](\A k \in key, message \in Messages, p \in Parameters : \A s :
               Shaped(s) => (Verify([VerifyingKey(k) EXCEPT !.parameter = p], message, s)
                               <=> p = k.parameter /\ IsSignature(s, p, message)))
<1>1. ASSUME HazmatInv, NEW k \in key, NEW message \in Messages, NEW p \in Parameters, NEW s, Shaped(s)
      PROVE  Verify([VerifyingKey(k) EXCEPT !.parameter = p], message, s)
               <=> p = k.parameter /\ IsSignature(s, p, message)
  <2>1. kind \in Kinds
    BY <1>1, TheKey
  <2>2. PICK parameter \in Parameters : k = KeyOf(parameter) /\ k.parameter = parameter
    BY <1>1, TheKey
  <2>3. Verify([VerifyingKey(KeyOf(parameter)) EXCEPT !.parameter = p], message, s)
          <=> p = parameter /\ IsSignature(s, p, message)
    BY <1>1, <2>1, Verdict
  <2> QED
    BY <2>2, <2>3
<1>2. HazmatInv =>
        \A k \in key, message \in Messages, p \in Parameters : \A s :
          Shaped(s) => (Verify([VerifyingKey(k) EXCEPT !.parameter = p], message, s)
                          <=> p = k.parameter /\ IsSignature(s, p, message))
  BY <1>1
<1> QED
  BY HazmatInvariant, <1>2, PTL

\* In particular, a signature with one component replaced verifies exactly if it still
\* is one of the scheme.
THEOREM VerdictsHonest == Spec => []VerdictIsHonest
BY HazmatInvariant, VerdictsMeant, PTL

\* From what a signature exposes no walk reaches the elements of another digest,
\* for every number of chains and positions and every target (lib.rs encode).
THEOREM OtherDigestsUnreachable == Spec => []OnlyTheSignedDigest
BY HazmatInvariant, ExposureMeant, PTL

\* A key makes the same public key and the same signatures in both languages
\* (hazmat/xmss.ts, hazmat/winternitz.ts and core.ts against the crate).
THEOREM SignersOfBothLanguages == Spec => []SignersAgree
BY HazmatInvariant, SignersMeant, PTL

\* Both verifiers give one verdict on a released signature and on whatever one change
\* makes of it (verifying-key.ts against the crate).
THEOREM VerifiersOfBothLanguages == Spec => []VerifiersAgree
BY HazmatInvariant, VerifiersMeant, PTL
=============================================================================
