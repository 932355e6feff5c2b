---------------------------- MODULE EndToEndProofs ----------------------------
(***************************************************************************)
(* Theorems about EndToEnd, for any number of signers, keys, messages, salts  *)
(* and leaves.  First what the minimum-leaf check covers, whatever a process  *)
(* dies of and whatever older copies of the key file are put back.  SignerInv *)
(* does not hold then: a restored copy changes the file under an open handle.  *)
(* What remains of it is that a handle holds a record and never goes back.     *)
(* Then what holds of the chain as long as nothing is put back, from the       *)
(* signer's own invariants.                                                 *)
(***************************************************************************)
EXTENDS EndToEnd, SigningKeyProofs, FiniteSetTheorems

\* A handle that has been returned to its caller: it may be checked and may sign.
InUse == {"ready", "return"} \cup Persisting

HandlesTyped ==
  /\ mem \in [Procs -> Record \cup {None}]
  /\ pc \in [Procs -> PCs]
  /\ HandleHasRecord

\* No handle of a step goes back to an earlier leaf, whatever the step does.
NeverBack ==
  \A q \in Procs : pc[q] \in InUse /\ pc'[q] # "closed" =>
    /\ pc'[q] \in InUse
    /\ mem'[q].next >= mem[q].next

ChecksHold ==
  /\ view \subseteq Leaves
  /\ checked \in [Procs -> SUBSET Leaves]
  /\ \A p \in Procs : checked[p] # {} => pc[p] \in InUse
  /\ LandedLeavesStaySpent

CheckInv == HandlesTyped /\ ChecksHold

-----------------------------------------------------------------------------
\* Whatever a signer does, handles hold records and do not go back.
LEMMA SignerKeepsHandles ==
  ASSUME HandlesTyped, NEW p \in Procs,
         \/ \E op \in {"create", "open"} : Lock(p, op)
         \/ \E minimum \in 0 .. LEAVES : RequireNextLeaf(p, minimum)
         \/ Drop(p)
         \/ SignUnusable(p)
         \/ \E m \in Messages : SignRetry(p, m) \/ SignExhausted(p, m) \/ SignAttempt(p, m)
         \/ Progress(p)
         \/ Failure(p)
  PROVE  HandlesTyped' /\ NeverBack
<1> USE DEF HandlesTyped, HandleHasRecord, HandleStates, NeverBack, InUse, Persisting, PCs,
            Goto, Close, procVars
<1>1. ASSUME NEW op \in {"create", "open"}, Lock(p, op)
      PROVE  HandlesTyped' /\ NeverBack
  BY <1>1, SMTT(30) DEF Lock, Record
<1>2. ASSUME NEW minimum \in 0 .. LEAVES, RequireNextLeaf(p, minimum)
      PROVE  HandlesTyped' /\ NeverBack
  BY <1>2, SMTT(30) DEF RequireNextLeaf, Record
<1>3. CASE Drop(p) \/ SignUnusable(p)
  BY <1>3, SMTT(30) DEF Drop, SignUnusable, Record
<1>4. ASSUME NEW m \in Messages, SignRetry(p, m) \/ SignExhausted(p, m)
      PROVE  HandlesTyped' /\ NeverBack
  BY <1>4, SMTT(30) DEF SignRetry, SignExhausted, Record
<1>5. ASSUME NEW m \in Messages, SignAttempt(p, m)
      PROVE  HandlesTyped' /\ NeverBack
  <2>1. mem[p] \in Record /\ mem[p].next \in Nat
    BY <1>5 DEF SignAttempt, Record
  <2>2. PICK t \in Messages \cup {None}, s \in Salts \cup {None} :
          mem' = [mem EXCEPT ![p] = Spent(mem[p], t, s)]
    BY <1>5 DEF SignAttempt, AcceptedSalts
  <2>3. mem'[p] \in Record /\ mem'[p].next = mem[p].next + 1
    BY <2>1, <2>2, SpentIsRecord
  <2>4. pc' = [pc EXCEPT ![p] = "open_tmp"] /\ \A q \in Procs \ {p} : mem'[q] = mem[q]
    BY <1>5, <2>2 DEF SignAttempt
  <2>5. mem' \in [Procs -> Record \cup {None}]
    BY <2>1, <2>2, SpentIsRecord
  <2>6. pc[p] = "ready" /\ \A q \in Procs \ {p} : pc'[q] = pc[q]
    BY <1>5 DEF SignAttempt
  <2>7. HandlesTyped'
    BY <2>3, <2>4, <2>5
  <2>8. NeverBack
    <3>1. mem'[p].next >= mem[p].next /\ pc'[p] = "open_tmp"
      BY <2>1, <2>3, <2>4
    <3>2. ASSUME NEW q \in Procs \ {p}, pc[q] \in InUse
          PROVE  pc'[q] = pc[q] /\ mem'[q].next >= mem[q].next
      <4>1. mem'[q] = mem[q] /\ mem[q].next \in Nat
        BY <2>4, <3>2 DEF Record
      <4> QED BY <2>6, <4>1
    <3> QED BY <3>1, <3>2
  <2> QED BY <2>7, <2>8
<1>6. CASE Progress(p)
  BY <1>6, SMTT(30) DEF Progress, CreateFile, DrawKey, CreateFill, CreateSyncFile, CreateSyncDir, Open,
     OpenTmp, WriteTmp, SyncTmpFile, Rename, WriteSyncDir, Return, Valid, Record
<1>7. CASE Failure(p)
  BY <1>7, SMTT(30) DEF Failure, CallFails, WriteFails, Kill, Record
<1> QED BY <1>1, <1>2, <1>3, <1>4, <1>5, <1>6, <1>7

\* A signer's own step, with what it does to the checks: a handle that stays keeps
\* the view it was checked against and does not go back.
LEMMA MoveKeepsChecks ==
  ASSUME CheckInv, NEW p \in Procs, HandlesTyped', NeverBack, SignerMoves(p),
         \A q \in Procs \ {p} : pc'[q] = pc[q]
  PROVE  CheckInv'
<1>1. /\ view' = view
      /\ checked' \in [Procs -> SUBSET Leaves]
      /\ \A q \in Procs : checked'[q] \in {{}, checked[q]}
      /\ pc'[p] = "closed" => checked'[p] = {}
  BY DEF CheckInv, ChecksHold, SignerMoves
<1>2. ASSUME NEW q \in Procs, checked'[q] # {}
      PROVE  /\ pc'[q] \in InUse
             /\ \A leaf \in checked'[q] : leaf < mem'[q].next
  <2>1. checked'[q] = checked[q] /\ pc[q] \in InUse /\ pc'[q] # "closed"
    BY <1>1, <1>2 DEF CheckInv, ChecksHold, InUse, Persisting
  <2>2. pc'[q] \in InUse /\ mem'[q].next >= mem[q].next
    BY <2>1 DEF NeverBack
  <2>3. mem[q] \in Record /\ mem'[q] \in Record
    BY <2>1, <2>2 DEF CheckInv, HandlesTyped, HandleHasRecord, HandleStates, InUse
  <2>4. mem[q].next \in Nat /\ mem'[q].next \in Nat
    BY <2>3 DEF Record
  <2>5. \A leaf \in checked[q] : leaf \in Nat /\ leaf < mem[q].next
    BY DEF CheckInv, ChecksHold, LandedLeavesStaySpent, Leaves
  <2> QED BY <2>1, <2>2, <2>4, <2>5
<1> QED
  BY <1>1, <1>2 DEF CheckInv, ChecksHold, LandedLeavesStaySpent

\* A signer's step is one of p's: no other signer moves.
LEMMA OthersStay ==
  ASSUME HandlesTyped, NEW p \in Procs,
         \/ \E op \in {"create", "open"} : Lock(p, op)
         \/ \E minimum \in 0 .. LEAVES : RequireNextLeaf(p, minimum)
         \/ Drop(p)
         \/ SignUnusable(p)
         \/ \E m \in Messages : SignRetry(p, m) \/ SignExhausted(p, m) \/ SignAttempt(p, m)
         \/ Progress(p)
         \/ Failure(p)
  PROVE  \A q \in Procs \ {p} : pc'[q] = pc[q]
<1>1. \/ pc' = pc
      \/ \E value \in PCs : pc' = [pc EXCEPT ![p] = value]
  BY SMTT(30) DEF Lock, RequireNextLeaf, Drop, SignUnusable, SignRetry, SignExhausted, SignAttempt, Progress,
     CreateFile, DrawKey, CreateFill, CreateSyncFile, CreateSyncDir, Open, OpenTmp, WriteTmp,
     SyncTmpFile, Rename, WriteSyncDir, Return, Failure, CallFails, WriteFails, Kill, Goto, Close,
     PCs, Persisting
<1> QED
  BY <1>1 DEF HandlesTyped

LEMMA CheckInit == EndToEndInit => CheckInv
BY DEF EndToEndInit, Init, CheckInv, HandlesTyped, HandleHasRecord, HandleStates, Persisting,
   ChecksHold, LandedLeavesStaySpent, PCs

LEMMA CheckStep == CheckInv /\ [EndToEndNext]_allVars => CheckInv'
<1> SUFFICES ASSUME CheckInv, [EndToEndNext]_allVars PROVE CheckInv'
  OBVIOUS
<1>1. ASSUME NEW p \in Procs, HostStep(p)
      PROVE  CheckInv'
  <2>1. HandlesTyped' /\ NeverBack
    BY <1>1, SignerKeepsHandles DEF HostStep, CheckInv
  <2>2. \A q \in Procs \ {p} : pc'[q] = pc[q]
    BY <1>1, OthersStay DEF HostStep, CheckInv
  <2> QED BY <1>1, <2>1, <2>2, MoveKeepsChecks DEF HostStep
<1>2. ASSUME NEW p \in Procs, NEW m \in Messages, Sign(p, m)
      PROVE  CheckInv'
  <2>1. HandlesTyped' /\ NeverBack
    BY <1>2, SignerKeepsHandles DEF Sign, CheckInv
  <2>2. \A q \in Procs \ {p} : pc'[q] = pc[q]
    BY <1>2, OthersStay DEF Sign, CheckInv
  <2> QED BY <1>2, <2>1, <2>2, MoveKeepsChecks DEF Sign
<1>3. ASSUME NEW p \in Procs, Check(p)
      PROVE  CheckInv'
  <2>1. PICK minimum \in Minimum(view) : RequireNextLeaf(p, minimum)
    BY <1>3 DEF Check
  <2>2. minimum \in 0 .. LEAVES /\ \A leaf \in view : leaf < minimum
    BY DEF Minimum
  <2>3. HandlesTyped' /\ NeverBack /\ \A q \in Procs \ {p} : pc'[q] = pc[q]
    BY <2>1, <2>2, SignerKeepsHandles, OthersStay DEF CheckInv
  <2>4. view' = view /\ checked' = [checked EXCEPT ![p] = IF pc'[p] = "closed" THEN {} ELSE view]
    BY <1>3 DEF Check
  <2>5. ASSUME NEW q \in Procs, checked'[q] # {}
        PROVE  /\ pc'[q] \in InUse
               /\ \A leaf \in checked'[q] : leaf < mem'[q].next
    <3>1. CASE q = p
      <4>1. checked'[p] = view /\ pc'[p] # "closed"
        BY <2>4, <2>5, <3>1 DEF CheckInv, ChecksHold
      <4>2. pc[p] = "ready" /\ pc'[p] = "ready" /\ mem' = mem /\ mem[p].next >= minimum
        BY <2>1, <4>1 DEF RequireNextLeaf, Close, CheckInv, HandlesTyped
      <4>3. mem[p].next \in Nat /\ minimum \in Nat /\ view \subseteq Nat
        BY <2>2, <4>2, ConstantsOK DEF CheckInv, HandlesTyped, HandleHasRecord, HandleStates, ChecksHold,
           Leaves, Record, ConstantsOK
      <4>4. \A leaf \in view : leaf < mem'[p].next
        BY <2>2, <4>2, <4>3
      <4> QED BY <3>1, <4>1, <4>2, <4>4 DEF InUse
    <3>2. CASE q # p
      <4>1. mem'[q] = mem[q]
        BY <2>1, <3>2 DEF RequireNextLeaf, Close, CheckInv, HandlesTyped
      <4>2. checked'[q] = checked[q] /\ pc'[q] = pc[q]
        BY <2>3, <2>4, <3>2 DEF CheckInv, ChecksHold
      <4> QED BY <2>5, <4>1, <4>2 DEF CheckInv, ChecksHold, LandedLeavesStaySpent
    <3> QED BY <3>1, <3>2
  <2>6. checked' \in [Procs -> SUBSET Leaves]
    BY <2>4 DEF CheckInv, ChecksHold
  <2> QED
    BY <2>3, <2>4, <2>5, <2>6 DEF CheckInv, ChecksHold, LandedLeavesStaySpent
<1>4. CASE Restore \/ ReadChain \/ Register \/ \E s \in released : Deliver(s)
  <2>1. UNCHANGED <<mem, pc, checked>> /\ view' \subseteq Leaves
    BY <1>4 DEF Restore, ReadChain, Register, Deliver, UsedLeaves, vars, procVars, clientVars,
       CheckInv, ChecksHold
  <2> QED
    BY <2>1 DEF CheckInv, HandlesTyped, HandleHasRecord, ChecksHold, LandedLeavesStaySpent
<1>5. CASE UNCHANGED allVars
  BY <1>5 DEF allVars, vars, clientVars, CheckInv, HandlesTyped, HandleHasRecord, ChecksHold,
     LandedLeavesStaySpent
<1> QED
  BY <1>1, <1>2, <1>3, <1>4, <1>5 DEF EndToEndNext

\* A handle that passed require_next_leaf_at_least with the account's state never
\* stands at a leaf that state shows as used: no restored copy, fault, race of two
\* signers or staleness of the state read changes that.
THEOREM MinimumCovers == EndToEndSpec => []LandedLeavesStaySpent
<1>1. CheckInv => LandedLeavesStaySpent
  BY DEF CheckInv, ChecksHold
<1> QED
  BY <1>1, CheckInit, CheckStep, PTL DEF EndToEndSpec

-----------------------------------------------------------------------------
(* As long as no older copy is put back, and the machine stays up.  The      *)
(* signer's own invariants then hold here as well.                           *)

\* The account's bits are those of the signatures that landed, and they left a signer.
Landing ==
  /\ landed \subseteq released
  /\ tag \in [{Account} -> Nat]
  /\ used = [a \in {Account} |-> {Program!BitOf(s.leaf) : s \in landed}]
  /\ tag[Account] = 0 => landed = {}

ChainInv == ~restored => SignerInv /\ LeafInv /\ Landing

LEMMA BitsTellApart ==
  ASSUME NEW leaf \in Nat, NEW other \in Nat, Program!BitOf(leaf) = Program!BitOf(other)
  PROVE  leaf = other
<1>1. leaf \div 8 = other \div 8 /\ leaf % 8 = other % 8
  BY DEF Program!BitOf, Program!KEY_END, Program!PUBLIC_KEY_LEN
<1> QED
  BY <1>1

\* The signer's part of a step is one of SigningKey's, and signatures stay released.
LEMMA SignerPart ==
  ASSUME [EndToEndNext]_allVars, ~restored'
  PROVE  /\ [Next]_vars
         /\ ~restored
         /\ released \subseteq released'
<1>1. ASSUME NEW p \in Procs, HostStep(p)
      PROVE  Next /\ restored' = restored
  BY <1>1 DEF HostStep, SignerMoves, Next, Calls
<1>2. ASSUME NEW p \in Procs, NEW m \in Messages, Sign(p, m)
      PROVE  Next /\ restored' = restored
  BY <1>2 DEF Sign, SignerMoves, Next, Calls
<1>3. ASSUME NEW p \in Procs, Check(p)
      PROVE  Next /\ restored' = restored
  <2>1. PICK minimum \in Minimum(view) : RequireNextLeaf(p, minimum)
    BY <1>3 DEF Check
  <2>2. minimum \in 0 .. LEAVES + 1
    BY Constants DEF Minimum
  <2> QED BY <1>3, <2>1, <2>2 DEF Check, Next, Calls
<1>4. ~Restore
  BY DEF Restore
<1>5. ASSUME ReadChain \/ Register \/ \E s \in released : Deliver(s)
      PROVE  [Next]_vars /\ restored' = restored
  <2>1. UNCHANGED vars
    BY <1>5 DEF ReadChain, Register, Deliver, vars, fileVars, procVars
  <2>2. UNCHANGED restored
    BY <1>5 DEF ReadChain, Register, Deliver, clientVars
  <2> QED BY <2>1, <2>2
<1>6. CASE UNCHANGED allVars
  BY <1>6 DEF allVars, clientVars, vars, fileVars, procVars
<1>7. [Next]_vars /\ ~restored
  BY <1>1, <1>2, <1>3, <1>4, <1>5, <1>6 DEF EndToEndNext
<1>8. released \subseteq released'
  BY <1>7, SMTT(30) DEF Next, Calls, Progress, Failure, Lock, RequireNextLeaf, Drop, SignUnusable, SignRetry,
     SignExhausted, SignAttempt, CreateFile, DrawKey, CreateFill, CreateSyncFile, CreateSyncDir, Open,
     OpenTmp, WriteTmp, SyncTmpFile, Rename, WriteSyncDir, Return, CallFails, WriteFails, Kill,
     PowerLoss, Flush, Release, vars
<1> QED BY <1>7, <1>8

\* What the chain does with a signature.
LEMMA DeliverLands ==
  ASSUME Landing, NEW s \in released, Deliver(s)
  PROVE  Landing'
<1> USE DEF Landing, Program!accountVars, Program!Refuse
<1>1. released' = released
  BY DEF Deliver, vars
<1>2. CASE Program!VerifyRefused(Account, s.msg, OnWire(s))
  <2>1. UNCHANGED <<tag, used>> /\ verdict' # "Ok"
    BY <1>2 DEF Program!VerifyRefused
  <2> QED BY <1>1, <2>1 DEF Deliver
<1>3. CASE Program!VerifyGenuine(Account, s.msg, OnWire(s))
  <2> DEFINE bit == Program!BitOf(OnWire(s).leaf)
  <2>1. bit = Program!BitOf(s.leaf)
    BY DEF OnWire
  <2>2. tag[Account] # 0
    BY <1>3 DEF Program!VerifyGenuine
  <2>3. \/ UNCHANGED <<tag, used>> /\ verdict' # "Ok"
        \/ /\ used' = [used EXCEPT ![Account] = @ \cup {bit}]
           /\ tag' = tag
           /\ verdict' = "Ok"
    BY <1>3 DEF Program!VerifyGenuine
  <2> HIDE DEF bit
  <2>4. CASE UNCHANGED <<tag, used>> /\ verdict' # "Ok"
    BY <1>1, <2>4 DEF Deliver
  <2>5. CASE /\ used' = [used EXCEPT ![Account] = @ \cup {bit}]
             /\ tag' = tag
             /\ verdict' = "Ok"
    <3>1. landed' = landed \cup {s}
      BY <2>5 DEF Deliver
    <3>2. used' = [a \in {Account} |-> {Program!BitOf(t.leaf) : t \in landed} \cup {Program!BitOf(s.leaf)}]
      BY <2>1, <2>5
    <3>3. {Program!BitOf(t.leaf) : t \in landed'}
            = {Program!BitOf(t.leaf) : t \in landed} \cup {Program!BitOf(s.leaf)}
      BY <3>1
    <3> QED BY <1>1, <2>2, <2>5, <3>1, <3>2, <3>3
  <2> QED BY <2>3, <2>4, <2>5
<1> QED BY <1>2, <1>3 DEF Deliver

LEMMA RegisterLands ==
  ASSUME Landing, Register
  PROVE  Landing'
<1> USE DEF Landing, Program!accountVars, Program!Refuse
<1>1. released' = released /\ landed' = landed
  BY DEF Register, vars
<1>2. CASE Program!Allocate(Account, Program!KEY_ACCOUNT_LEN)
  BY <1>1, <1>2 DEF Program!Allocate
<1>3. ASSUME NEW k \in drawn, Program!Create(Account, TRUE, IF LEAVES = 1 THEN 0 ELSE 1, k)
      PROVE  Landing'
  <2>1. \/ UNCHANGED <<tag, used>>
        \/ /\ tag[Account] = 0
           /\ tag' = [tag EXCEPT ![Account] = (IF LEAVES = 1 THEN 0 ELSE 1) + 1]
           /\ used' = [used EXCEPT ![Account] = {}]
    BY <1>3 DEF Program!Create, Program!Fresh
  <2>2. CASE UNCHANGED <<tag, used>>
    BY <1>1, <2>2
  <2>3. CASE /\ tag[Account] = 0
             /\ tag' = [tag EXCEPT ![Account] = (IF LEAVES = 1 THEN 0 ELSE 1) + 1]
             /\ used' = [used EXCEPT ![Account] = {}]
    <3>1. landed = {} /\ used' = [a \in {Account} |-> {}]
      BY <2>3
    <3>2. tag' \in [{Account} -> Nat] /\ tag'[Account] # 0
      BY <2>3
    <3> QED BY <1>1, <3>1, <3>2
  <2> QED BY <2>1, <2>2, <2>3
<1> QED BY <1>2, <1>3 DEF Register

LEMMA ChainInit == EndToEndInit => ChainInv
<1> SUFFICES ASSUME EndToEndInit PROVE ChainInv
  OBVIOUS
<1>1. SignerInv /\ LeafInv
  BY SignerInit, LeafInit DEF EndToEndInit
<1>2. Landing
  BY DEF EndToEndInit, Landing, Program!Init, Init
<1> QED BY <1>1, <1>2 DEF ChainInv

LEMMA ChainStep ==
  ASSUME "power" \notin Faults, ChainInv, [EndToEndNext]_allVars
  PROVE  ChainInv'
<1> SUFFICES ASSUME ~restored' PROVE (SignerInv /\ LeafInv /\ Landing)'
  BY DEF ChainInv
<1>1. [Next]_vars /\ released \subseteq released' /\ SignerInv /\ LeafInv /\ Landing
  BY SignerPart DEF ChainInv
<1>2. SignerInv'
  BY <1>1, SignerStep
<1>3. LeafInv'
  BY <1>1, <1>2, LeafStep DEF NotBoth
<1>4. ASSUME UNCHANGED <<accountVars, landed>> PROVE Landing'
  <2>1. tag' = tag /\ used' = used /\ landed' = landed
    BY <1>4 DEF accountVars
  <2> QED BY <1>1, <2>1 DEF Landing
<1>5. ASSUME Register \/ \E s \in released : Deliver(s) PROVE Landing'
  <2>1. CASE Register
    BY <1>1, <2>1, RegisterLands
  <2>2. ASSUME NEW s \in released, Deliver(s) PROVE Landing'
    BY <1>1, <2>2, DeliverLands
  <2> QED BY <1>5, <2>1, <2>2
<1>6. Register \/ (\E s \in released : Deliver(s)) \/ UNCHANGED <<accountVars, landed>>
  BY DEF EndToEndNext, HostStep, Sign, SignerMoves, Check, Restore, ReadChain, allVars
<1> QED
  BY <1>2, <1>3, <1>4, <1>5, <1>6

LEMMA ChainInvariant == ASSUME "power" \notin Faults PROVE EndToEndSpec => []ChainInv
<1>1. ChainInv /\ [EndToEndNext]_allVars => ChainInv'
  BY ChainStep
<1> QED
  BY <1>1, ChainInit, PTL DEF EndToEndSpec

\* A leaf the account has used is that of a signature that landed.
LEMMA UsedLeafLanded ==
  ASSUME SignerInv, Landing, NEW leaf \in UsedLeaves
  PROVE  \E t \in landed : t \in released /\ t.leaf = leaf /\ leaf \in Nat
<1>1. leaf \in Nat /\ Program!BitOf(leaf) \in used[Account]
  BY DEF UsedLeaves, Leaves
<1>2. PICK t \in landed : Program!BitOf(t.leaf) = Program!BitOf(leaf)
  BY <1>1 DEF Landing
<1>3. t \in released /\ t.leaf \in Nat
  BY Constants DEF Landing, SignerInv, FieldsOK, Signature
<1> QED BY <1>1, <1>2, <1>3, BitsTellApart

\* The record at the path is never behind the chain, so that the minimum check refuses
\* no signer that lost nothing.
THEOREM NoFalseAlarm == ASSUME "power" \notin Faults PROVE EndToEndSpec => []ChainNeverAhead
<1>1. ChainInv => ChainNeverAhead
  <2> SUFFICES ASSUME ChainInv, ~restored, NEW s \in released, NEW minimum \in Minimum(UsedLeaves)
               PROVE  file.data.next >= minimum
    BY DEF ChainNeverAhead
  <2>1. SignerInv /\ LeafInv /\ Landing
    BY DEF ChainInv
  <2>2. file.data \in Record /\ \A t \in released : t.leaf < file.data.next
    BY <2>1 DEF LeafInv, SurvivorsKnow, Survivable
  <2>3. minimum \in Nat /\ file.data.next \in Nat
    BY <2>2, Constants DEF Minimum, Record
  <2>4. CASE minimum = 0
    BY <2>3, <2>4
  <2>5. CASE minimum - 1 \in UsedLeaves
    <3>1. PICK t \in landed : t \in released /\ t.leaf = minimum - 1 /\ minimum - 1 \in Nat
      BY <2>1, <2>5, UsedLeafLanded
    <3> QED BY <2>2, <2>3, <3>1
  <2> QED BY <2>4, <2>5 DEF Minimum
<1> QED
  BY <1>1, ChainInvariant, PTL

\* Of the signer's signatures the program refuses as reused only repetitions.
THEOREM OnlyRepetitionsRefused ==
  ASSUME "power" \notin Faults PROVE EndToEndSpec => []RefusedOnlyIfLanded
<1>1. ChainInv => RefusedOnlyIfLanded
  <2> SUFFICES ASSUME ChainInv, ~restored, NEW s \in released, s.leaf \in UsedLeaves
               PROVE  s \in landed
    BY DEF RefusedOnlyIfLanded
  <2>1. SignerInv /\ LeafInv /\ Landing
    BY DEF ChainInv
  <2>2. PICK t \in landed : t \in released /\ t.leaf = s.leaf
    BY <2>1, UsedLeafLanded
  <2>3. t = s
    BY <2>1, <2>2 DEF LeafInv, OneKeyPerPath, OneSignaturePerLeaf
  <2> QED BY <2>2, <2>3
<1> QED
  BY <1>1, ChainInvariant, PTL

-----------------------------------------------------------------------------
(* Retries: as long as the callers stay with a message, its attempt is on     *)
(* record from the moment its first signature leaves, and nothing else is      *)
(* being written.                                                            *)

InFlight == Persisting \cup {"return"}

\* A message that was not asked for is in no record.
NotAsked ==
  \A m \in Messages : runs[m] = 0 =>
    /\ \A p \in Procs : mem[p] \in Record => mem[p].msg # m
    /\ file.data \in Record => file.data.msg # m
    /\ \A s \in released : s.msg # m

\* The attempt in flight is one for the message that was asked for.
AskedIsInFlight ==
  \A p \in Procs : pc[p] \in InFlight => mem[p].msg \in {asked, None}

\* In its first run the signatures of a message are of one leaf, and that of the record.
OneLeafInARun ==
  \A m \in Messages : runs[m] = 1 =>
    /\ \A s, t \in released : s.msg = m /\ t.msg = m => s.leaf = t.leaf
    /\ asked = m => \A s \in released : s.msg = m =>
         /\ file.data \in Record
         /\ file.data.msg = m
         /\ file.data.next = s.leaf + 1
         /\ \A p \in Procs : pc[p] \notin Persisting

Runs ==
  /\ runs \in [Messages -> 0 .. MaxRuns]
  /\ asked \in Messages \cup {None}
  /\ \A m \in Messages : asked = m => runs[m] # 0
  /\ NotAsked
  /\ AskedIsInFlight
  /\ OneLeafInARun

RunInv == ~restored => Runs

\* What a signer does when it is not asked to sign: a handle forgets its message or
\* takes the file's, a release is of the record at the path, no attempt begins.
QuietMove(p) ==
  /\ \A q \in Procs : mem'[q] \in {mem[q], None, file.data} \/ mem'[q].msg = None
  /\ file'.data \in {file.data, Partial, mem[p]}
  /\ file'.data # file.data => pc[p] = "rename" \/ released = {}
  /\ \/ released' = released
     \/ /\ pc[p] = "return"
        /\ released' \subseteq released \cup {SignatureOf(mem[p])}
        /\ file'.data = mem[p]
  /\ \A q \in Procs : /\ pc'[q] \in InFlight => pc[q] \in InFlight /\ mem'[q] = mem[q]
                      /\ pc'[q] \in Persisting => pc[q] \in Persisting

LEMMA QuietStep ==
  ASSUME "power" \notin Faults, SignerInv, LeafInv, NEW p \in Procs,
         \/ \E op \in {"create", "open"} : Lock(p, op)
         \/ \E minimum \in 0 .. LEAVES : RequireNextLeaf(p, minimum)
         \/ Drop(p)
         \/ SignUnusable(p)
         \/ Progress(p)
         \/ Failure(p)
  PROVE  QuietMove(p)
<1>0. /\ mem \in [Procs -> Record \cup {None}] /\ pc \in [Procs -> PCs]
      /\ Absent \notin Record /\ Partial \notin Record
      /\ file.data \notin Record => released = {}
      /\ pc[p] = "return" => file.data = mem[p]
      /\ pc[p] = "rename" => tmp.data = mem[p]
      /\ pc[p] = "fill" => file.data = Partial
  BY Constants DEF SignerInv, FieldsOK, FileFollowsMem, TmpFollowsMem, LeafInv, SurvivorsKnow, Survivable
<1> USE DEF InFlight, Persisting, PCs, Goto, Close, fileVars, procVars, Unsynced,
           QuietMove
<1>1. CASE \/ \E op \in {"create", "open"} : Lock(p, op)
           \/ \E minimum \in 0 .. LEAVES : RequireNextLeaf(p, minimum)
           \/ Drop(p)
           \/ SignUnusable(p)
           \/ Failure(p)
  BY <1>0, <1>1, SMTT(30) DEF Lock, RequireNextLeaf, Drop, SignUnusable, Failure, CallFails, WriteFails, Kill
<1>2. CASE CreateFile(p) \/ DrawKey(p) \/ CreateFill(p) \/ CreateSyncFile(p) \/ CreateSyncDir(p) \/ Open(p)
  <2>1. CASE CreateFile(p)
    BY <1>0, <2>1, SMTT(30) DEF CreateFile, CreateNew
  <2>2. CASE DrawKey(p)
    BY <1>0, <2>2, SMTT(30) DEF DrawKey
  <2>3. CASE CreateFill(p)
    BY <1>0, <2>3, SMTT(30) DEF CreateFill, Fill
  <2>4. CASE CreateSyncFile(p)
    BY <1>0, <2>4, SMTT(30) DEF CreateSyncFile, SyncFile
  <2>5. CASE CreateSyncDir(p)
    BY <1>0, <2>5, SMTT(30) DEF CreateSyncDir, SyncDir
  <2>6. CASE Open(p)
    BY <1>0, <2>6, SMTT(30) DEF Open, Valid
  <2> QED BY <1>2, <2>1, <2>2, <2>3, <2>4, <2>5, <2>6
<1>3. CASE OpenTmp(p) \/ WriteTmp(p) \/ SyncTmpFile(p) \/ Rename(p) \/ WriteSyncDir(p)
  BY <1>0, <1>3, SMTT(30) DEF OpenTmp, WriteTmp, SyncTmpFile, Rename, WriteSyncDir,
     TruncateTmp, FillTmp, SyncTmp, RenameTmp, SyncDir
<1>4. CASE Return(p)
  BY <1>0, <1>4, SMTT(30) DEF Return, Release
<1> QED
  BY <1>1, <1>2, <1>3, <1>4 DEF Progress

LEMMA QuietKeepsRuns ==
  ASSUME "power" \notin Faults, SignerInv, SignerInv', LeafInv, Runs, NEW p \in Procs,
         \/ \E op \in {"create", "open"} : Lock(p, op)
         \/ \E minimum \in 0 .. LEAVES : RequireNextLeaf(p, minimum)
         \/ Drop(p)
         \/ SignUnusable(p)
         \/ Progress(p)
         \/ Failure(p),
         UNCHANGED <<asked, runs>>
  PROVE  Runs'
<1>1. QuietMove(p)
  BY QuietStep
<1>2. /\ mem \in [Procs -> Record \cup {None}] /\ released \subseteq Signature /\ released' \subseteq Signature
      /\ Partial \notin Record /\ None \notin Record /\ None \notin Messages
      /\ pc[p] = "return" => mem[p] \in Record
  BY Constants DEF SignerInv, FieldsOK, HandleHasRecord, HandleStates
<1>3. ASSUME released' # released
      PROVE  /\ pc[p] = "return" /\ mem[p] \in Record /\ file'.data = mem[p] /\ file.data = mem[p]
             /\ released' = released \cup {SignatureOf(mem[p])}
             /\ mem[p].msg = asked /\ asked \in Messages
  <2>1. /\ pc[p] = "return"
        /\ released' \subseteq released \cup {SignatureOf(mem[p])}
        /\ file'.data = mem[p] /\ file.data = mem[p]
    BY <1>1, <1>3 DEF QuietMove, SignerInv, FileFollowsMem
  <2>2. released \subseteq released'
    BY <2>1, SMTT(30) DEF Lock, RequireNextLeaf, Drop, SignUnusable, Progress, Failure, CreateFile, DrawKey,
       CreateFill, CreateSyncFile, CreateSyncDir, Open, OpenTmp, WriteTmp, SyncTmpFile, Rename,
       WriteSyncDir, Return, CallFails, WriteFails, Kill, Release
  <2>3. SignatureOf(mem[p]) \in released' /\ released' = released \cup {SignatureOf(mem[p])}
    BY <1>3, <2>1, <2>2
  <2>4. mem[p].msg \in Messages
    BY <1>2, <2>3 DEF SignatureOf, Signature
  <2>5. mem[p].msg \in {asked, None}
    BY <2>1 DEF Runs, AskedIsInFlight, InFlight
  <2> QED BY <1>2, <2>1, <2>3, <2>4, <2>5
<1>4. NotAsked'
  <2> SUFFICES ASSUME NEW m \in Messages, runs[m] = 0
               PROVE  /\ \A q \in Procs : mem'[q] \in Record => mem'[q].msg # m
                      /\ file'.data \in Record => file'.data.msg # m
                      /\ \A s \in released' : s.msg # m
    BY DEF NotAsked
  <2>1. /\ \A q \in Procs : mem[q] \in Record => mem[q].msg # m
        /\ file.data \in Record => file.data.msg # m
        /\ \A s \in released : s.msg # m
        /\ asked # m
    BY DEF Runs, NotAsked
  <2>2. ASSUME NEW q \in Procs, mem'[q] \in Record PROVE mem'[q].msg # m
    BY <1>1, <1>2, <2>1, <2>2 DEF QuietMove
  <2>3. file'.data \in Record => file'.data.msg # m
    BY <1>1, <1>2, <2>1 DEF QuietMove
  <2>4. \A s \in released' : s.msg # m
    BY <1>3, <2>1 DEF SignatureOf
  <2> QED BY <2>2, <2>3, <2>4
<1>5. AskedIsInFlight'
  BY <1>1 DEF QuietMove, Runs, AskedIsInFlight
<1>6. OneLeafInARun'
  <2> SUFFICES ASSUME NEW m \in Messages, runs[m] = 1
               PROVE  /\ \A s, t \in released' : s.msg = m /\ t.msg = m => s.leaf = t.leaf
                      /\ asked = m => \A s \in released' : s.msg = m =>
                           /\ file'.data \in Record
                           /\ file'.data.msg = m
                           /\ file'.data.next = s.leaf + 1
                           /\ \A q \in Procs : pc'[q] \notin Persisting
    BY DEF OneLeafInARun
  <2>1. /\ \A s, t \in released : s.msg = m /\ t.msg = m => s.leaf = t.leaf
        /\ asked = m => \A s \in released : s.msg = m =>
             /\ file.data \in Record
             /\ file.data.msg = m
             /\ file.data.next = s.leaf + 1
             /\ \A q \in Procs : pc[q] \notin Persisting
    BY DEF Runs, OneLeafInARun
  <2>2. CASE released' = released
    <3>1. ASSUME NEW s \in released, s.msg = m, asked = m
          PROVE  file'.data = file.data /\ \A q \in Procs : pc'[q] \notin Persisting
      BY <1>1, <2>1, <3>1 DEF QuietMove, Persisting
    <3> QED BY <2>1, <2>2, <3>1
  <2>3. CASE released' # released
    <3> DEFINE sig == SignatureOf(mem[p])
    <3>1. /\ pc[p] = "return" /\ mem[p] \in Record /\ file'.data = mem[p] /\ file.data = mem[p]
          /\ released' = released \cup {sig}
          /\ mem[p].msg = asked /\ asked \in Messages
      BY <1>3, <2>3
    <3>2. sig.leaf = mem[p].next - 1 /\ sig.msg = asked /\ mem[p].next \in Nat
      BY <3>1 DEF SignatureOf, Record
    <3>3. \A q \in Procs : pc'[q] \in Persisting => pc[q] \in Persisting
      BY <1>1 DEF QuietMove
    <3>4. \A q \in Procs : pc[q] \notin Persisting
      BY <3>1 DEF SignerInv, LockedWhileOpen, Persisting
    <3> HIDE DEF sig
    <3>5. CASE asked # m
      BY <2>1, <3>1, <3>2, <3>5
    <3>6. CASE asked = m
      <4>1. ASSUME NEW s \in released', s.msg = m PROVE mem[p].next = s.leaf + 1 /\ s.leaf = sig.leaf
        <5>1. s.leaf \in Nat
          BY <1>2, Constants DEF Signature
        <5> QED BY <2>1, <3>1, <3>2, <3>6, <4>1, <5>1
      <4> QED BY <3>1, <3>3, <3>4, <3>6, <4>1
    <3> QED BY <3>5, <3>6
  <2> QED BY <2>2, <2>3
<1> QED
  BY <1>4, <1>5, <1>6 DEF Runs

\* A call of sign: the handle that answers it holds the lock and the record at the path.
LEMMA SignKeepsRuns ==
  ASSUME SignerInv, Runs, ~restored, NEW p \in Procs, NEW m \in Messages, Sign(p, m)
  PROVE  Runs'
<1>1. /\ mem \in [Procs -> Record \cup {None}] /\ pc \in [Procs -> PCs]
      /\ None \notin Record /\ None \notin Messages
      /\ released \subseteq Signature
      /\ runs \in [Messages -> 0 .. MaxRuns] /\ MaxRuns \in Nat /\ MaxRuns >= 2
  BY Constants, RunsOK DEF SignerInv, FieldsOK, Runs
<1>2. pc[p] = "ready" /\ ~failed[p] /\ asked' = m /\ runs' = [runs EXCEPT ![m] = Again(m)] /\ file' = file
  BY DEF Sign, SignRetry, SignExhausted, SignAttempt, Goto, fileVars
<1>3. /\ mem[p] \in Record /\ file.data = mem[p]
      /\ \A q \in Procs \ {p} : pc[q] = "closed"
  BY <1>2 DEF SignerInv, LockedWhileOpen, HandleHasRecord, HandleStates, FileFollowsMem
<1>4. \A q \in Procs \ {p} : pc'[q] = "closed" /\ mem'[q] = mem[q]
  BY <1>1, <1>3 DEF Sign, SignRetry, SignExhausted, SignAttempt, Goto
<1>5. \/ /\ mem' = mem /\ pc' = pc
         /\ \/ released' = released
            \/ mem[p].msg = m /\ released' \subseteq released \cup {SignatureOf(mem[p])}
      \/ /\ mem[p].msg # m
         /\ mem'[p].msg \in {m, None} /\ pc'[p] = "open_tmp"
         /\ released' = released
  <2>1. CASE SignRetry(p, m) \/ SignExhausted(p, m)
    BY <2>1 DEF SignRetry, SignExhausted, Release
  <2>2. CASE SignAttempt(p, m)
    BY <1>1, <2>2 DEF SignAttempt, Spent, Goto
  <2> QED BY <2>1, <2>2 DEF Sign
<1>6. /\ runs' \in [Messages -> 0 .. MaxRuns] /\ runs'[m] # 0
      /\ \A other \in Messages \ {m} : runs'[other] = runs[other]
      /\ runs'[m] = 1 => runs[m] = 0 \/ (asked = m /\ runs[m] = 1)
  <2>1. Again(m) \in 0 .. MaxRuns /\ Again(m) # 0
        /\ (Again(m) = 1 => runs[m] = 0 \/ (asked = m /\ runs[m] = 1))
    BY <1>1 DEF Again, Runs
  <2> QED BY <1>1, <1>2, <2>1
<1>7. \A s \in released' : s \in released \/ (s.msg = m /\ s.leaf = file.data.next - 1 /\ file.data.msg = m)
  BY <1>3, <1>5 DEF SignatureOf
<1>8. NotAsked'
  <2> SUFFICES ASSUME NEW other \in Messages, runs'[other] = 0
               PROVE  /\ \A q \in Procs : mem'[q] \in Record => mem'[q].msg # other
                      /\ file.data \in Record => file.data.msg # other
                      /\ \A s \in released' : s.msg # other
    BY <1>2 DEF NotAsked
  <2>1. other # m /\ runs[other] = 0
    BY <1>6
  <2>2. /\ \A q \in Procs : mem[q] \in Record => mem[q].msg # other
        /\ file.data \in Record => file.data.msg # other
        /\ \A s \in released : s.msg # other
    BY <2>1 DEF Runs, NotAsked
  <2>3. mem'[p] \in Record => mem'[p].msg # other
    BY <1>1, <1>5, <2>1, <2>2
  <2> QED BY <1>4, <1>7, <2>1, <2>2, <2>3
<1>9. AskedIsInFlight'
  <2>1. pc'[p] \in InFlight => mem'[p].msg \in {m, None}
    BY <1>2, <1>5 DEF InFlight, Persisting
  <2> QED BY <1>2, <1>4, <2>1 DEF AskedIsInFlight, InFlight, Persisting
<1>10. OneLeafInARun'
  <2> SUFFICES ASSUME NEW other \in Messages, runs'[other] = 1
               PROVE  /\ \A s, t \in released' : s.msg = other /\ t.msg = other => s.leaf = t.leaf
                      /\ m = other => \A s \in released' : s.msg = other =>
                           /\ file.data \in Record
                           /\ file.data.msg = other
                           /\ file.data.next = s.leaf + 1
                           /\ \A q \in Procs : pc'[q] \notin Persisting
    BY <1>2 DEF OneLeafInARun
  <2>1. CASE other # m
    <3>1. \A s, t \in released : s.msg = other /\ t.msg = other => s.leaf = t.leaf
      BY <1>6, <2>1 DEF Runs, OneLeafInARun
    <3> QED BY <1>7, <2>1, <3>1
  <2>2. CASE other = m /\ runs[m] = 0
    <3>1. (\A s \in released : s.msg # m) /\ mem[p].msg # m
      BY <1>3, <2>2 DEF Runs, NotAsked
    <3> QED BY <1>3, <1>7, <2>2, <3>1
  <2>3. CASE other = m /\ asked = m /\ runs[m] = 1
    <3>1. \A s \in released : s.msg = m => file.data.msg = m /\ file.data.next = s.leaf + 1
      BY <2>3 DEF Runs, OneLeafInARun
    <3>2. mem[p].next \in Nat /\ \A s \in released : s.leaf \in Nat
      BY <1>1, <1>3, Constants DEF Record, Signature
    <3>3. \A s \in released' : s.msg = m => file.data.msg = m /\ file.data.next = s.leaf + 1
      BY <1>3, <1>7, <3>1, <3>2
    <3>4. \A s \in released' : s.msg = m => \A q \in Procs : pc'[q] \notin Persisting
      BY <1>2, <1>3, <1>4, <1>5, <3>3 DEF Persisting
    <3>5. \A s \in released' : s.msg = m => s.leaf = file.data.next - 1
      <4> SUFFICES ASSUME NEW s \in released', s.msg = m PROVE s.leaf = file.data.next - 1
        OBVIOUS
      <4>1. CASE s \in released
        BY <1>3, <3>1, <3>2, <4>1
      <4> QED BY <1>7, <4>1
    <3> QED BY <1>3, <2>3, <3>3, <3>4, <3>5
  <2> QED BY <1>6, <2>1, <2>2, <2>3
<1>11. asked' \in Messages /\ \A other \in Messages : asked' = other => runs'[other] # 0
  BY <1>2, <1>6
<1> QED
  BY <1>6, <1>8, <1>9, <1>10, <1>11 DEF Runs

LEMMA RunInit == EndToEndInit => RunInv
<1> SUFFICES ASSUME EndToEndInit PROVE Runs
  BY DEF RunInv
<1>1. /\ asked = None /\ runs = [m \in Messages |-> 0] /\ released = {}
      /\ mem = [p \in Procs |-> None] /\ pc = [p \in Procs |-> "closed"] /\ file.data = Absent
  BY DEF EndToEndInit, Init, FileInit, NoFile
<1>2. None \notin Record /\ None \notin Messages /\ Absent \notin Record /\ 0 \in 0 .. MaxRuns
  BY Constants, RunsOK
<1> QED
  BY <1>1, <1>2 DEF Runs, NotAsked, AskedIsInFlight, OneLeafInARun, InFlight, Persisting

LEMMA RunStep ==
  ASSUME "power" \notin Faults, ChainInv, ChainInv', RunInv, [EndToEndNext]_allVars
  PROVE  RunInv'
<1> SUFFICES ASSUME ~restored' PROVE Runs'
  BY DEF RunInv
<1>1. ~restored
  BY SignerPart
<1>2. SignerInv /\ SignerInv' /\ LeafInv /\ Runs
  BY <1>1 DEF ChainInv, RunInv
<1>3. ASSUME NEW p \in Procs, HostStep(p)
      PROVE  Runs'
  BY <1>2, <1>3, QuietKeepsRuns DEF HostStep
<1>4. ASSUME NEW p \in Procs, NEW m \in Messages, Sign(p, m)
      PROVE  Runs'
  BY <1>1, <1>2, <1>4, SignKeepsRuns
<1>5. ASSUME NEW p \in Procs, Check(p)
      PROVE  Runs'
  <2>1. PICK minimum \in Minimum(view) : RequireNextLeaf(p, minimum)
    BY <1>5 DEF Check
  <2>2. minimum \in 0 .. LEAVES
    BY DEF Minimum
  <2>3. UNCHANGED <<asked, runs>>
    BY <1>5 DEF Check
  <2> QED BY <1>2, <2>1, <2>2, <2>3, QuietKeepsRuns
<1>6. ~Restore
  BY DEF Restore
<1>7. CASE ReadChain \/ Register \/ (\E s \in released : Deliver(s)) \/ UNCHANGED allVars
  <2>1. UNCHANGED <<vars, asked, runs>>
    BY <1>7 DEF ReadChain, Register, Deliver, clientVars, allVars
  <2> QED
    BY <1>2, <2>1 DEF vars, fileVars, procVars, Runs, NotAsked, AskedIsInFlight, OneLeafInARun
<1> QED
  BY <1>3, <1>4, <1>5, <1>6, <1>7 DEF EndToEndNext

\* A message that is asked for until it lands, without another one in between, lands
\* once: whatever the network does with the transactions and wherever signers die.
THEOREM RetriesLandOnce == ASSUME "power" \notin Faults PROVE EndToEndSpec => []RetryLandsOnce
<1>1. ChainInv /\ RunInv /\ [EndToEndNext]_allVars /\ ChainInv' => RunInv'
  BY RunStep
<1>2. ChainInv /\ RunInv => RetryLandsOnce
  <2> SUFFICES ASSUME ChainInv, RunInv, NEW m \in Messages, ~restored, runs[m] < 2
               PROVE  Cardinality({s.leaf : s \in {t \in landed : t.msg = m}}) <= 1
    BY DEF RetryLandsOnce
  <2> DEFINE leaves == {s.leaf : s \in {t \in landed : t.msg = m}}
  <2>1. landed \subseteq released /\ Runs
    BY DEF ChainInv, RunInv, Landing
  <2>2. runs[m] = 0 \/ runs[m] = 1
    BY <2>1 DEF Runs
  <2>3. ASSUME NEW s \in landed, NEW t \in landed, s.msg = m, t.msg = m
        PROVE  s.leaf = t.leaf
    BY <2>1, <2>2, <2>3 DEF Runs, NotAsked, OneLeafInARun
  <2>4. CASE leaves = {}
    BY <2>4, FS_EmptySet
  <2>5. CASE leaves # {}
    <3>1. PICK s \in landed : s.msg = m
      BY <2>5
    <3>2. leaves = {s.leaf}
      BY <2>3, <3>1
    <3>3. Cardinality(leaves) = 1
      BY <3>2, FS_Singleton
    <3> QED BY <3>3
  <2> QED BY <2>4, <2>5
<1> QED
  BY <1>1, <1>2, ChainInvariant, RunInit, PTL DEF EndToEndSpec
=============================================================================
