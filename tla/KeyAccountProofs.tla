--------------------------- MODULE KeyAccountProofs ---------------------------
(***************************************************************************)
(* Theorems about KeyAccount, for any accounts, keys, digests, submissions    *)
(* and leaves.                                                             *)
(***************************************************************************)
EXTENDS KeyAccount, TLAPS

\* Two leaves never share a bit.
LEMMA BitsTellLeavesApart ==
  ASSUME NEW leaf \in Nat, NEW other \in Nat, BitOf(leaf) = BitOf(other)
  PROVE  leaf = other
<1>1. leaf \div 8 = other \div 8 /\ leaf % 8 = other % 8
  BY DEF BitOf, KEY_END, PUBLIC_KEY_LEN
<1> QED
  BY <1>1

\* A leaf of the tree has its bit inside the account.
LEMMA BitsAreInside ==
  ASSUME NEW leaf \in Nat, leaf < XMSS_LEAVES
  PROVE  BitOf(leaf)[1] < KEY_ACCOUNT_LEN
BY DEF BitOf, XMSS_LEAVES, KEY_ACCOUNT_LEN, KEY_END, PUBLIC_KEY_LEN

LEMMA LeavesAreNat == Leaves \subseteq Nat
BY ProgramConstantsOK DEF ProgramConstantsOK, Leaves, SignatureRecord

\* The submissions verify takes carry a leaf of the tree.
LEMMA VerifiedLeaf ==
  ASSUME NEW s \in Submitted, NEW k, NEW digest, Verify(k, digest, s)
  PROVE  s.leaf \in Leaves /\ s.leaf \in Nat /\ s.leaf < XMSS_LEAVES
<1>1. s.leaf \in Leaves /\ s.leaf \in Nat /\ s.kind \in Kinds
  BY ProgramConstantsOK DEF ProgramConstantsOK, Leaves, SignatureRecord
<1>2. CASE s.kind = "xmss"
  BY <1>1, <1>2 DEF Verify
<1>3. CASE s.kind = "winternitz"
  BY <1>1, <1>3, ProgramConstantsOK DEF ProgramConstantsOK, XMSS_LEAVES
<1> QED
  BY <1>1, <1>2, <1>3 DEF Kinds

-----------------------------------------------------------------------------
\* Before registration an account has no history.
NoHistoryBeforeCreate ==
  \A a \in Accounts : tag[a] = 0 =>
    used[a] = {} /\ \A leaf \in Leaves : accepted[a][leaf] = 0

AccountInv ==
  /\ TypeOK
  /\ NoHistoryBeforeCreate
  /\ BitmapIsHistory
  /\ LeafAcceptedOnce
  /\ NeverPanics

LEMMA AccountInit == Init => AccountInv
BY DEF Init, AccountInv, TypeOK, NoHistoryBeforeCreate, BitmapIsHistory, LeafAcceptedOnce,
   NeverPanics, Results

\* A verification that is accepted sets a bit that was clear and counts its leaf.
LEMMA AcceptStep ==
  ASSUME AccountInv, NEW a \in Accounts, NEW digest \in Digests \cup {Malformed},
         NEW s \in Submitted \cup {Malformed}, VerifyGenuine(a, digest, s)
  PROVE  AccountInv'
<1> USE DEF AccountInv
<1>1. s \in Submitted /\ s.leaf \in Leaves /\ s.leaf \in Nat /\ s.leaf < XMSS_LEAVES
  BY VerifiedLeaf DEF VerifyGenuine, Decodes
<1>2. BitOf(s.leaf)[1] < len[a] /\ len[a] \in Nat /\ BitOf(s.leaf)[1] \in Nat
  BY <1>1, BitsAreInside DEF VerifyGenuine, Ours, BitOf, KEY_ACCOUNT_LEN, KEY_END, PUBLIC_KEY_LEN
<1>3. CASE BitOf(s.leaf) \in used[a]
  <2>1. result' = "LeafReused" /\ UNCHANGED accountVars
    BY <1>2, <1>3 DEF VerifyGenuine, Refuse
  <2> QED
    BY <2>1 DEF accountVars, TypeOK, NoHistoryBeforeCreate, BitmapIsHistory, LeafAcceptedOnce,
       NeverPanics, Results
<1>4. CASE BitOf(s.leaf) \notin used[a]
  <2>1. /\ used' = [used EXCEPT ![a] = @ \cup {BitOf(s.leaf)}]
        /\ accepted' = [accepted EXCEPT ![a][s.leaf] = @ + 1]
        /\ result' = "Ok"
        /\ UNCHANGED <<owner, len, tag, key>>
        /\ tag[a] # 0
    BY <1>2, <1>4 DEF VerifyGenuine
  <2>2. accepted[a][s.leaf] = 0
    BY <1>1, <1>4 DEF BitmapIsHistory, TypeOK
  <2>3. /\ accepted'[a] = [accepted[a] EXCEPT ![s.leaf] = 1]
        /\ \A b \in Accounts \ {a} : accepted'[b] = accepted[b]
        /\ accepted' \in [Accounts -> [Leaves -> Nat]]
    BY <1>1, <2>1, <2>2 DEF TypeOK
  <2>4. BitOf(s.leaf) \in Nat \X (0 .. 7)
    <3>1. s.leaf \div 8 \in Nat /\ s.leaf % 8 \in 0 .. 7
      BY <1>1
    <3> QED
      BY <3>1 DEF BitOf, KEY_END, PUBLIC_KEY_LEN
  <2>5. TypeOK'
    BY <2>1, <2>3, <2>4 DEF TypeOK, Results
  <2>6. NoHistoryBeforeCreate'
    BY <2>1, <2>3 DEF NoHistoryBeforeCreate, TypeOK
  <2>7. BitmapIsHistory'
    <3> SUFFICES ASSUME NEW b \in Accounts, NEW leaf \in Leaves
                 PROVE  BitOf(leaf) \in used'[b] <=> accepted'[b][leaf] > 0
      BY DEF BitmapIsHistory
    <3>1. CASE b # a
      BY <2>1, <2>3, <3>1 DEF BitmapIsHistory, TypeOK
    <3>2. CASE b = a /\ leaf = s.leaf
      BY <1>1, <2>1, <2>3, <3>2 DEF TypeOK
    <3>3. CASE b = a /\ leaf # s.leaf
      <4>1. BitOf(leaf) # BitOf(s.leaf)
        BY <1>1, <3>3, LeavesAreNat, BitsTellLeavesApart
      <4> QED
        BY <1>1, <2>1, <2>3, <3>3, <4>1 DEF BitmapIsHistory, TypeOK
    <3> QED
      BY <3>1, <3>2, <3>3
  <2>8. LeafAcceptedOnce'
    BY <1>1, <2>3 DEF LeafAcceptedOnce, TypeOK
  <2>9. NeverPanics'
    BY <2>1 DEF NeverPanics
  <2> QED
    BY <2>5, <2>6, <2>7, <2>8, <2>9
<1> QED
  BY <1>3, <1>4

LEMMA AccountStep == AccountInv /\ [Next]_vars => AccountInv'
<1> SUFFICES ASSUME AccountInv, [Next]_vars PROVE AccountInv'
  OBVIOUS
<1> USE DEF AccountInv, TypeOK, NoHistoryBeforeCreate, BitmapIsHistory, LeafAcceptedOnce,
      NeverPanics, accountVars, Results, Refuse
<1>1. ASSUME NEW a \in Accounts, NEW length \in Lengths, Allocate(a, length)
      PROVE  AccountInv'
  BY <1>1 DEF Allocate
<1>2. ASSUME NEW a \in Accounts, NEW writable \in BOOLEAN, WrongAccount(a, writable)
      PROVE  AccountInv'
  BY <1>2 DEF WrongAccount
<1>3. ASSUME NEW a \in Accounts, UnknownInstruction(a)
      PROVE  AccountInv'
  BY <1>3 DEF UnknownInstruction
<1>4. ASSUME NEW a \in Accounts, NEW signer \in BOOLEAN, NEW t \in {0, 1},
             NEW k \in PublicKeys \cup {Malformed}, Create(a, signer, t, k)
      PROVE  AccountInv'
  <2>1. CASE UNCHANGED accountVars /\ result' \in Results \ {"Panic"}
    BY <2>1
  <2>2. CASE /\ tag[a] = 0
             /\ k # Malformed
             /\ tag' = [tag EXCEPT ![a] = t + 1]
             /\ key' = [key EXCEPT ![a] = k]
             /\ used' = [used EXCEPT ![a] = {}]
             /\ result' = "Ok"
             /\ UNCHANGED <<owner, len, accepted>>
    <3>1. t + 1 \in 1 .. 2
      OBVIOUS
    <3> QED
      BY <2>2, <3>1
  <2> QED
    BY <1>4, <2>1, <2>2 DEF Create, Fresh
<1>5. ASSUME NEW a \in Accounts, NEW digest \in Digests \cup {Malformed},
             NEW s \in Submitted \cup {Malformed}, VerifyRefused(a, digest, s)
      PROVE  AccountInv'
  BY <1>5 DEF VerifyRefused
<1>6. CASE NoAccount \/ UNCHANGED vars
  BY <1>6 DEF NoAccount, vars
<1>7. CASE Next /\ ~NoAccount
  <2>1. PICK a \in Accounts :
          \/ \E length \in Lengths : Allocate(a, length)
          \/ \E writable \in BOOLEAN : WrongAccount(a, writable)
          \/ UnknownInstruction(a)
          \/ \E signer \in BOOLEAN, t \in {0, 1}, k \in PublicKeys \cup {Malformed} :
               Create(a, signer, t, k)
          \/ \E digest \in Digests \cup {Malformed}, s \in Submitted \cup {Malformed} :
               VerifyRefused(a, digest, s) \/ VerifyGenuine(a, digest, s)
    BY <1>7 DEF Next
  <2> HIDE DEF AccountInv
  <2> QED
    BY <1>1, <1>2, <1>3, <1>4, <1>5, <2>1, AcceptStep
<1> QED
  BY <1>6, <1>7

\* The bits of a registered account are its history; before that there is none.
THEOREM AccountInvariant == Spec => []AccountInv
BY AccountInit, AccountStep, PTL DEF Spec

\* The bytes of every account stay in their ranges.
THEOREM TypeCorrect == Spec => []TypeOK
<1>1. AccountInv => TypeOK
  BY DEF AccountInv
<1> QED
  BY <1>1, AccountInvariant, PTL

\* An account accepts each leaf of its key once, whatever is submitted and when.
THEOREM AcceptedOnce == Spec => []LeafAcceptedOnce
<1>1. AccountInv => LeafAcceptedOnce
  BY DEF AccountInv
<1> QED
  BY <1>1, AccountInvariant, PTL

\* A leaf is refused as used only if that very leaf was accepted.
THEOREM UsedMeansAccepted == Spec => []BitmapIsHistory
<1>1. AccountInv => BitmapIsHistory
  BY DEF AccountInv
<1> QED
  BY <1>1, AccountInvariant, PTL

\* The bitmap index is never out of the account, for any 32-bit leaf.
THEOREM IndexInBounds == Spec => []NeverPanics
<1>1. AccountInv => NeverPanics
  BY DEF AccountInv
<1> QED
  BY <1>1, AccountInvariant, PTL

LEMMA KeyStep ==
  ASSUME TypeOK, [Next]_vars, NEW b \in Accounts, tag[b] # 0
  PROVE  tag'[b] = tag[b] /\ key'[b] = key[b] /\ used[b] \subseteq used'[b]
<1> USE DEF TypeOK, Refuse, accountVars
<1>1. ASSUME NEW a \in Accounts, NEW signer \in BOOLEAN, NEW t \in {0, 1},
             NEW k \in PublicKeys \cup {Malformed}, Create(a, signer, t, k)
      PROVE  tag'[b] = tag[b] /\ key'[b] = key[b] /\ used[b] \subseteq used'[b]
  BY <1>1 DEF Create, Fresh
<1>2. ASSUME NEW a \in Accounts, NEW digest \in Digests \cup {Malformed},
             NEW s \in Submitted \cup {Malformed},
             VerifyRefused(a, digest, s) \/ VerifyGenuine(a, digest, s)
      PROVE  tag'[b] = tag[b] /\ key'[b] = key[b] /\ used[b] \subseteq used'[b]
  BY <1>2 DEF VerifyRefused, VerifyGenuine
<1>3. ASSUME NEW a \in Accounts,
             \/ \E length \in Lengths : Allocate(a, length)
             \/ \E writable \in BOOLEAN : WrongAccount(a, writable)
             \/ UnknownInstruction(a)
      PROVE  tag'[b] = tag[b] /\ key'[b] = key[b] /\ used[b] \subseteq used'[b]
  BY <1>3 DEF Allocate, WrongAccount, UnknownInstruction
<1>4. CASE NoAccount \/ UNCHANGED vars
  BY <1>4 DEF NoAccount, vars
<1>5. CASE Next /\ ~NoAccount
  <2>1. PICK a \in Accounts :
          \/ \E length \in Lengths : Allocate(a, length)
          \/ \E writable \in BOOLEAN : WrongAccount(a, writable)
          \/ UnknownInstruction(a)
          \/ \E signer \in BOOLEAN, t \in {0, 1}, k \in PublicKeys \cup {Malformed} :
               Create(a, signer, t, k)
          \/ \E digest \in Digests \cup {Malformed}, s \in Submitted \cup {Malformed} :
               VerifyRefused(a, digest, s) \/ VerifyGenuine(a, digest, s)
    BY <1>5 DEF Next
  <2> QED
    BY <1>1, <1>2, <1>3, <2>1
<1> QED
  BY <1>4, <1>5

\* A registered key, its instance and its used leaves stay for good.
THEOREM RegistrationStays == Spec => KeyStays
<1>1. AccountInv /\ [Next]_vars => [NothingTakenBack]_vars
  BY KeyStep DEF AccountInv, NothingTakenBack
<1> QED
  BY <1>1, AccountInvariant, PTL DEF Spec, KeyStays
=============================================================================
