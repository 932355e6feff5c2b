-------------------------- MODULE SigningKeyTsProofs --------------------------
(***************************************************************************)
(* Rust and TypeScript signers on one path keep what signers in Rust keep,    *)
(* for any number of each, any keys, messages, salts and leaves.  All that a    *)
(* TypeScript signer does is a step of SigningKey, a mere reply, a handle that   *)
(* goes away or a sampling that comes to its end; the lemmas of                  *)
(* SigningKeyProofs say what each of these preserves.                           *)
(***************************************************************************)
EXTENDS SigningKeyTs, SigningKeyProofs

\* A handle of a TypeScript signer goes away: between calls, or when a write fails.
Ends(p, value) ==
  /\ pc[p] = "ready" \/ (pc[p] \in Persisting /\ "io" \in Faults)
  /\ Close(p, value)
  /\ UNCHANGED <<fileVars, drawn, released>>

\* What the variables of SigningKey may do when a signer of either language moves.
MixedStep ==
  \/ [Next]_vars
  \/ \E p \in TsProcs :
       \/ \E m \in Messages : Starts(p, m)
       \/ RepliesOnly(p)
       \/ \E value \in Answers \ {"Corrupt"} : Ends(p, value)

\* A signer that samples is between two calls of its handle's, at the leaf it began with.
SamplingOK ==
  /\ sampling \in [Procs -> [leaf : 0 .. LEAVES - 1, msg : Messages] \cup {None}]
  /\ closed \in [Procs -> Record \cup {None}]
  /\ \A p \in Procs : sampling[p] # None =>
       p \in TsProcs /\ lock = p /\ pc[p] = "ready" /\ mem[p].next = sampling[p].leaf

\* A failed write closes a TypeScript signer; it is never left unusable and open.
NeverPoisoned == \A p \in TsProcs : ~failed[p]

TsInv == SignerInv /\ SamplingOK /\ NeverPoisoned

LEMMA TsProcsAreProcs == TsProcs \subseteq Procs
BY TsConstantsOK DEF TsConstantsOK

\* None is no attempt: it is not the record of a leaf and a message.
LEMMA SampledAttempt ==
  ASSUME TsInv, NEW p \in Procs, sampling[p] # None
  PROVE  /\ sampling[p].leaf \in 0 .. LEAVES - 1
         /\ sampling[p].msg \in Messages
         /\ p \in TsProcs /\ lock = p /\ pc[p] = "ready"
         /\ mem[p] \in Record
         /\ sampling[p].leaf = mem[p].next
<1>1. sampling[p] \in [leaf : 0 .. LEAVES - 1, msg : Messages]
  BY DEF TsInv, SamplingOK
<1>2. p \in TsProcs /\ lock = p /\ pc[p] = "ready" /\ mem[p].next = sampling[p].leaf
  BY DEF TsInv, SamplingOK
<1>3. mem[p] \in Record
  BY <1>2 DEF TsInv, SignerInv, HandleHasRecord, HandleStates
<1> QED
  BY <1>1, <1>2, <1>3

-----------------------------------------------------------------------------
(* Every step is one of these *)

LEMMA SampledStarts ==
  ASSUME TsInv, NEW p \in TsProcs, Sampled(p)
  PROVE  \E m \in Messages : Starts(p, m)
<1> DEFINE a == sampling[p]
<1>1. p \in Procs /\ a # None
  BY TsProcsAreProcs DEF Sampled
<1>2. a.leaf = mem[p].next /\ a.leaf \in 0 .. LEAVES - 1 /\ a.msg \in Messages /\ mem[p] \in Record
  BY <1>1, SampledAttempt
<1>3. mem[p].next < LEAVES /\ ~failed[p]
  BY <1>2, Constants DEF TsInv, NeverPoisoned
<1>4. [mem[p] EXCEPT !.next = a.leaf] = mem[p]
  BY <1>2 DEF Record
<1>5. /\ Goto(p, "ready", "open_tmp")
      /\ UNCHANGED <<lock, fileVars, failed, drawn, released>>
      /\ \/ \E s \in AcceptedSalts(mem[p].key, mem[p].next, a.msg) :
              /\ mem' = [mem EXCEPT ![p] = Spent(mem[p], a.msg, s)]
              /\ Returns(p, "Ok")
         \/ \E error \in SamplingErrors \cup {"Unusable"} :
              /\ mem' = [mem EXCEPT ![p] = Spent(mem[p], None, None)]
              /\ Returns(p, error)
  <2>1. a.leaf = mem[p].next /\ [mem[p] EXCEPT !.next = a.leaf] = mem[p]
    BY <1>2, <1>4
  <2> QED
    BY <2>1 DEF Sampled
<1>6. Starts(p, a.msg)
  BY <1>3, <1>5 DEF Starts
<1> QED
  BY <1>2, <1>6

LEMMA EveryStepIsMixed ==
  ASSUME TsInv, [TsNext]_allVars
  PROVE  MixedStep
<1> USE TsProcsAreProcs DEF MixedStep
<1>1. ASSUME NEW p \in TsProcs, Acquire(p) \/ Create(p) \/ TsOpen(p) \/ Write(p) \/ TsReturn(p) \/ TsCallFails(p)
      PROVE  Next
  BY <1>1 DEF Acquire, Create, TsOpen, Write, TsReturn, TsCallFails, Next, Calls, Progress, Failure
<1>2. ASSUME NEW p \in TsProcs, Dispose(p) PROVE MixedStep
  <2>1. Ends(p, "none")
    BY <1>2 DEF Dispose, TsClose, Ends, Idle
  <2> QED
    BY <2>1 DEF Answers, Results
<1>3. ASSUME NEW p \in TsProcs, NEW minimum \in 0 .. LEAVES + 1, RequireNextLeafAtLeast(p, minimum)
      PROVE  MixedStep
  <2>1. CASE \E value \in {"InvalidEncoding", "LeafBelowMinimum"} : TsClose(p, value)
    <3>1. PICK value \in {"InvalidEncoding", "LeafBelowMinimum"} : TsClose(p, value)
      BY <2>1
    <3>2. Ends(p, value)
      BY <1>3, <3>1 DEF RequireNextLeafAtLeast, Idle, TsClose, Ends
    <3> QED
      BY <3>2 DEF Answers, Results
  <2>2. CASE ~\E value \in {"InvalidEncoding", "LeafBelowMinimum"} : TsClose(p, value)
    <3>1. RequireNextLeaf(p, minimum)
      BY <1>3, <2>2 DEF RequireNextLeafAtLeast, Idle, RequireNextLeaf
    <3> QED
      BY <3>1 DEF Next, Calls
  <2> QED
    BY <2>1, <2>2
<1>4. ASSUME NEW p \in TsProcs, NEW m \in Messages, SignClosed(p, m) \/ NestedSign(p, m)
      PROVE  MixedStep
  <2>1. pc[p] \in {"closed", "ready"}
    BY <1>4 DEF SignClosed, NestedSign, TsInv, SamplingOK
  <2>2. RepliesOnly(p)
    BY <1>4, <2>1 DEF SignClosed, NestedSign, RepliesOnly
  <2> QED
    BY <2>2
<1>5. ASSUME NEW p \in TsProcs, NestedClose(p) PROVE MixedStep
  <2>1. pc[p] = "ready"
    BY <1>5 DEF NestedClose, TsInv, SamplingOK
  <2>2. RepliesOnly(p)
    BY <1>5, <2>1 DEF NestedClose, RepliesOnly
  <2> QED
    BY <2>2
<1>15. ASSUME NEW p \in TsProcs, NEW minimum \in 0 .. LEAVES + 1,
              RequireClosed(p, minimum) \/ NestedRequire(p, minimum)
       PROVE  MixedStep
  <2>1. pc[p] \in {"closed", "ready"}
    BY <1>15 DEF RequireClosed, NestedRequire, TsInv, SamplingOK
  <2>2. RepliesOnly(p)
    BY <1>15, <2>1 DEF RequireClosed, NestedRequire, RepliesOnly
  <2> QED
    BY <2>2
<1>6. ASSUME NEW p \in TsProcs, NEW m \in Messages, Retry(p, m) \/ Exhausted(p, m) PROVE Next
  BY <1>6 DEF Retry, Exhausted, Next, Calls
<1>7. ASSUME NEW p \in TsProcs, NEW m \in Messages, Begin(p, m) PROVE UNCHANGED vars
  BY <1>7 DEF Begin
<1>8. ASSUME NEW p \in TsProcs, Sampled(p) PROVE MixedStep
  BY <1>8, SampledStarts
<1>9. ASSUME NEW p \in TsProcs, TsWriteFails(p) PROVE MixedStep
  <2>1. Ends(p, "Io")
    BY <1>9 DEF TsWriteFails, TsClose, Ends
  <2> QED
    BY <2>1 DEF Answers, Results
<1>10. ASSUME NEW p \in TsProcs, Kill(p) PROVE Next
  BY <1>10 DEF Next, Failure
<1>11. ASSUME NEW p \in Procs, Calls(p) \/ Progress(p) \/ Failure(p) PROVE Next
  BY <1>11 DEF Next
<1>12. CASE PowerLoss \/ Flush \/ UNCHANGED allVars
  BY <1>12 DEF Next, allVars
<1> HIDE DEF MixedStep
<1>13. Next \/ UNCHANGED vars => MixedStep
  BY DEF MixedStep
<1>14. ASSUME NEW p \in TsProcs, TsStep(p) PROVE MixedStep
  BY <1>1, <1>2, <1>3, <1>4, <1>5, <1>6, <1>7, <1>8, <1>9, <1>10, <1>13, <1>14, <1>15 DEF TsStep
<1> QED
  BY <1>11, <1>12, <1>13, <1>14 DEF TsNext

-----------------------------------------------------------------------------
(* What a TypeScript signer remembers *)

\* While one signer samples the others are closed, and their calls fail to lock.
LEMMA OthersWait ==
  ASSUME TsInv, NEW p \in Procs, sampling[p] # None, NEW q \in Procs \ {p},
         Calls(q) \/ Progress(q) \/ Failure(q)
  PROVE  UNCHANGED <<lock, mem, failed, pc>>
<1>1. pc[q] = "closed" /\ lock = p /\ lock # NoProc
  BY SampledAttempt, Constants DEF TsInv, SignerInv, LockedWhileOpen
<1>2. CASE Calls(q)
  BY <1>1, <1>2 DEF Calls, Lock, TryLock, RequireNextLeaf, Drop, SignUnusable, SignRetry,
     SignExhausted, SignAttempt, Goto
<1>3. CASE Progress(q)
  BY <1>1, <1>3 DEF Progress, CreateFile, DrawKey, CreateFill, CreateSyncFile, CreateSyncDir, Open, OpenTmp,
     WriteTmp, SyncTmpFile, Rename, WriteSyncDir, Return, Goto
<1>4. CASE Failure(q)
  BY <1>1, <1>4 DEF Failure, CallFails, WriteFails, Kill, Persisting
<1> QED
  BY <1>2, <1>3, <1>4

\* Only a Rust signer is left open by a write that failed.
LEMMA PoisonIsRust ==
  ASSUME FieldsOK, NEW q \in Procs, Calls(q) \/ Progress(q) \/ (Failure(q) /\ ~WriteFails(q))
  PROVE  \A p \in Procs : failed'[p] => failed[p]
<1> USE DEF FieldsOK, Close
<1>1. CASE Calls(q)
  BY <1>1 DEF Calls, Lock, RequireNextLeaf, Drop, SignUnusable, SignRetry, SignExhausted, SignAttempt
<1>2. CASE Progress(q)
  BY <1>2 DEF Progress, CreateFile, DrawKey, CreateFill, CreateSyncFile, CreateSyncDir, Open, OpenTmp,
     WriteTmp, SyncTmpFile, Rename, WriteSyncDir, Return
<1>3. CASE Failure(q) /\ ~WriteFails(q)
  BY <1>3 DEF Failure, CallFails, Kill
<1> QED
  BY <1>1, <1>2, <1>3

LEMMA NeverPoisonedStep ==
  ASSUME TsInv, [TsNext]_allVars
  PROVE  NeverPoisoned'
<1> USE TsProcsAreProcs DEF TsInv, SignerInv, NeverPoisoned
<1>1. ASSUME NEW q \in Procs, Calls(q) \/ Progress(q) \/ (Failure(q) /\ ~WriteFails(q))
      PROVE  NeverPoisoned'
  BY <1>1, PoisonIsRust
<1>2. ASSUME NEW q \in Procs \ TsProcs, WriteFails(q) PROVE NeverPoisoned'
  BY <1>2 DEF WriteFails, Poison, FieldsOK
<1>3. ASSUME NEW p \in TsProcs, TsStep(p) PROVE NeverPoisoned'
  <2>1. CASE UNCHANGED failed
    BY <2>1
  <2>2. CASE \E value : TsClose(p, value)
    BY <2>2 DEF TsClose, Close, FieldsOK
  <2>3. CASE Acquire(p) \/ Create(p) \/ TsOpen(p) \/ Write(p) \/ TsReturn(p)
    BY <1>1, <2>3 DEF Acquire, Create, TsOpen, Write, TsReturn, Calls, Progress
  <2>4. CASE TsCallFails(p)
    BY <2>4 DEF TsCallFails, CallFails, Close, FieldsOK
  <2>5. CASE Kill(p)
    BY <2>5 DEF Kill, Close, FieldsOK
  <2>6. ASSUME NEW minimum \in 0 .. LEAVES + 1, RequireNextLeafAtLeast(p, minimum) PROVE NeverPoisoned'
    BY <2>1, <2>2, <2>6 DEF RequireNextLeafAtLeast
  <2>10. ASSUME NEW minimum \in 0 .. LEAVES + 1, RequireClosed(p, minimum) \/ NestedRequire(p, minimum)
         PROVE  UNCHANGED failed
    BY <2>10 DEF RequireClosed, NestedRequire
  <2>7. ASSUME NEW m \in Messages,
               SignClosed(p, m) \/ Retry(p, m) \/ Exhausted(p, m) \/ Begin(p, m) \/ NestedSign(p, m)
        PROVE  UNCHANGED failed
    BY <2>7 DEF SignClosed, Retry, SignRetry, Exhausted, SignExhausted, Begin, NestedSign, vars
  <2>8. CASE NestedClose(p) \/ Sampled(p)
    BY <2>1, <2>8 DEF NestedClose, Sampled
  <2>9. CASE Dispose(p) \/ TsWriteFails(p)
    BY <2>2, <2>9 DEF Dispose, TsWriteFails
  <2> HIDE DEF NeverPoisoned
  <2> QED
    BY <1>3, <2>1, <2>3, <2>4, <2>5, <2>6, <2>7, <2>8, <2>9, <2>10 DEF TsStep
<1>4. CASE PowerLoss
  BY <1>4 DEF PowerLoss, FieldsOK
<1>5. CASE Flush \/ UNCHANGED allVars
  BY <1>5 DEF Flush, procVars, allVars, vars
<1> HIDE DEF NeverPoisoned
<1> QED
  BY <1>1, <1>2, <1>3, <1>4, <1>5 DEF TsNext

\* A signer's step, other than its own, leaves it where it samples.
LEMMA SamplingStays ==
  ASSUME TsInv, FieldsOK', UNCHANGED tsVars,
         \A p \in Procs : sampling[p] # None => UNCHANGED <<lock, pc[p], mem[p]>>
  PROVE  SamplingOK'
BY DEF TsInv, SamplingOK, tsVars

LEMMA SamplingStep ==
  ASSUME TsInv, SignerInv', [TsNext]_allVars
  PROVE  SamplingOK'
<1> USE TsProcsAreProcs, Constants DEF TsInv
<1>1. FieldsOK /\ FieldsOK' /\ result' \in [Procs -> Answers]
  BY DEF SignerInv
<1>2. ASSUME UNCHANGED <<lock, pc, mem, tsVars>> PROVE SamplingOK'
  BY <1>1, <1>2, SamplingStays
<1>3. ASSUME NEW q \in Procs, Calls(q) \/ Progress(q) \/ Failure(q), sampling[q] = None, UNCHANGED tsVars
      PROVE  SamplingOK'
  <2>1. ASSUME NEW p \in Procs, sampling[p] # None PROVE UNCHANGED <<lock, pc[p], mem[p]>>
    BY <1>3, <2>1, OthersWait
  <2> QED
    BY <1>1, <1>3, <2>1, SamplingStays
<1>4. ASSUME NEW p \in TsProcs, NEW value, TsClose(p, value), pc[p] # "closed", sampling[p] = None
      PROVE  SamplingOK'
  <2>1. lock = p
    BY <1>4 DEF SignerInv, LockedWhileOpen
  <2>2. \A q \in Procs : sampling[q] = None
    BY <1>4, <2>1, SampledAttempt
  <2> QED
    BY <1>1, <1>4, <2>2 DEF TsClose, SamplingOK, FieldsOK
<1>5. ASSUME NEW p \in TsProcs, TsStep(p) PROVE SamplingOK'
  <2>1. CASE Acquire(p)
    <3>1. sampling[p] = None
      BY <2>1, SampledAttempt DEF Acquire, Lock, Goto
    <3> QED
      BY <1>3, <2>1, <3>1 DEF Acquire, Calls
  <2>2. CASE Create(p) \/ TsOpen(p) \/ Write(p) \/ TsReturn(p) \/ TsCallFails(p)
    <3>1. /\ Progress(p) \/ Failure(p)
          /\ UNCHANGED tsVars
      BY <2>2 DEF Create, TsOpen, Write, TsReturn, TsCallFails, Progress, Failure
    <3>2. pc[p] # "ready"
      BY <2>2 DEF Create, CreateFile, DrawKey, CreateFill, CreateSyncFile, CreateSyncDir, TsOpen, Open,
         Write, OpenTmp, WriteTmp, SyncTmpFile, Rename, WriteSyncDir, TsReturn, Return, TsCallFails,
         CallFails, Goto
    <3> QED
      BY <1>3, <3>1, <3>2, SampledAttempt
  <2>3. CASE Dispose(p)
    BY <1>4, <2>3 DEF Dispose, Idle
  <2>4. ASSUME NEW minimum \in 0 .. LEAVES + 1, RequireNextLeafAtLeast(p, minimum) PROVE SamplingOK'
    BY <1>2, <1>4, <2>4 DEF RequireNextLeafAtLeast, Idle
  <2>11. ASSUME NEW minimum \in 0 .. LEAVES + 1, RequireClosed(p, minimum) \/ NestedRequire(p, minimum)
         PROVE  SamplingOK'
    BY <1>2, <2>11 DEF RequireClosed, NestedRequire
  <2>5. ASSUME NEW m \in Messages,
               SignClosed(p, m) \/ Retry(p, m) \/ Exhausted(p, m) \/ NestedSign(p, m)
        PROVE  SamplingOK'
    BY <1>2, <2>5 DEF SignClosed, Retry, SignRetry, Exhausted, SignExhausted, NestedSign
  <2>6. ASSUME NEW m \in Messages, Begin(p, m) PROVE SamplingOK'
    <3>1. /\ pc[p] = "ready" /\ lock = p
          /\ sampling' = [sampling EXCEPT ![p] = [leaf |-> mem[p].next, msg |-> m]]
          /\ UNCHANGED <<lock, pc, mem, closed>>
      BY <2>6 DEF Begin, Idle, vars, SignerInv, LockedWhileOpen
    <3>2. mem[p].next \in 0 .. LEAVES - 1
      BY <2>6, <3>1 DEF Begin, SignerInv, HandleHasRecord, HandleStates, Record
    <3>3. [leaf |-> mem[p].next, msg |-> m] \in [leaf : 0 .. LEAVES - 1, msg : Messages]
      BY <3>2
    <3> QED
      BY <3>1, <3>3 DEF SamplingOK
  <2>7. CASE NestedClose(p)
    BY <1>2, <2>7 DEF NestedClose
  <2>8. CASE Sampled(p)
    <3>1. /\ sampling' = [sampling EXCEPT ![p] = None] /\ UNCHANGED closed
          /\ lock = p
      BY <2>8, SampledAttempt DEF Sampled
    <3>2. \A q \in Procs : sampling'[q] = None
      BY <3>1, SampledAttempt DEF SamplingOK
    <3> QED
      BY <3>1, <3>2 DEF SamplingOK
  <2>9. CASE TsWriteFails(p)
    <3>1. pc[p] # "closed" /\ pc[p] # "ready"
      BY <2>9 DEF TsWriteFails, Persisting
    <3> QED
      BY <1>4, <2>9, <3>1, SampledAttempt DEF TsWriteFails
  <2>10. CASE Kill(p) /\ Forget(p)
    <3>1. /\ sampling' = [sampling EXCEPT ![p] = None] /\ closed' = [closed EXCEPT ![p] = None]
          /\ lock = p
      BY <2>10 DEF Kill, Forget, SignerInv, LockedWhileOpen
    <3>2. \A q \in Procs : sampling'[q] = None
      BY <3>1, SampledAttempt DEF SamplingOK
    <3> QED
      BY <3>1, <3>2 DEF SamplingOK
  <2> HIDE DEF TsInv
  <2> QED
    BY <1>5, <2>1, <2>2, <2>3, <2>4, <2>5, <2>6, <2>7, <2>8, <2>9, <2>10, <2>11 DEF TsStep
<1>6. ASSUME NEW q \in Procs \ TsProcs, Calls(q) \/ Progress(q) \/ Failure(q), UNCHANGED tsVars
      PROVE  SamplingOK'
  BY <1>3, <1>6, SampledAttempt
<1>7. CASE PowerLoss /\ sampling' = [p \in Procs |-> None] /\ closed' = [p \in Procs |-> None]
  BY <1>7 DEF SamplingOK
<1>8. CASE (Flush /\ UNCHANGED tsVars) \/ UNCHANGED allVars
  BY <1>2, <1>8 DEF Flush, Writeback, procVars, allVars, vars
<1> QED
  BY <1>5, <1>6, <1>7, <1>8 DEF TsNext

-----------------------------------------------------------------------------
(* The invariants of SigningKey, with TypeScript signers on the path *)

LEMMA MixedKeepsSignerInv ==
  ASSUME SignerInv, MixedStep
  PROVE  SignerInv'
<1> USE TsProcsAreProcs
<1>1. ASSUME NEW p \in TsProcs, NEW value \in Answers, Ends(p, value) PROVE SignerInv'
  BY <1>1, CloseKeepsSignerInv DEF Ends, Persisting
<1> QED
  BY <1>1, SignerStep, StartKeepsSignerInv, ReplyKeepsSignerInv DEF MixedStep

LEMMA MixedKeepsLeafInv ==
  ASSUME NotBoth, SignerInv, SignerInv', LeafInv, MixedStep
  PROVE  LeafInv'
<1> USE TsProcsAreProcs
<1>1. ASSUME NEW p \in TsProcs, NEW value \in Answers, Ends(p, value) PROVE LeafInv'
  <2>1. failed[p] => "power" \notin Faults
    BY NotBoth DEF NotBoth, LeafInv, FaultsAsAssumed
  <2>2. pc[p] = "ready" \/ (pc[p] # "closed" /\ "power" \notin Faults)
    BY <1>1, NotBoth DEF Ends, NotBoth, Persisting
  <2> QED
    BY <1>1, <2>1, <2>2, CloseKeepsLeafInv DEF Ends
<1> QED
  BY <1>1, NotBoth, LeafStep, StartKeepsLeafInv, ReplyKeepsLeafInv DEF MixedStep

LEMMA MixedKeepsRecordInv ==
  ASSUME SignerInv, RecordInv, MixedStep
  PROVE  RecordInv'
<1> USE TsProcsAreProcs
<1>1. HandleReproduces /\ SignNeverCorrupt /\ SurvivorsAgree
  BY DEF RecordInv
<1>2. CASE [Next]_vars
  BY <1>2, ReproducesStep, SurvivorsStep DEF RecordInv
<1>3. ASSUME NEW p \in TsProcs,
             \/ \E m \in Messages : Starts(p, m)
             \/ RepliesOnly(p)
             \/ \E value \in Answers \ {"Corrupt"} : Ends(p, value)
      PROVE  RecordInv'
  <2>1. UNCHANGED fileVars
    BY <1>3 DEF Starts, RepliesOnly, Ends
  <2>2. SurvivorsAgree'
    BY <1>1, <2>1 DEF SurvivorsAgree, fileVars
  <2>3. HandleReproduces' /\ SignNeverCorrupt'
    BY <1>1, <1>3, StartKeepsReproduces, ReplyKeepsReproduces, CloseKeepsReproduces DEF Ends
  <2> QED
    BY <2>2, <2>3 DEF RecordInv
<1> QED
  BY <1>2, <1>3 DEF MixedStep

LEMMA MixedIsAbstract ==
  ASSUME NotBoth, SignerInv, LeafInv, RecordInv, MixedStep
  PROVE  [Abstract!Next]_(Abstract!vars)
<1>1. CASE [Next]_vars
  BY <1>1, NotBoth, RefinementStep DEF Inv
<1>2. CASE UNCHANGED <<fileVars, released>>
  BY <1>2 DEF Abstract!vars, Committed, Survivable, fileVars
<1>3. CASE \E p \in TsProcs :
             \/ \E m \in Messages : Starts(p, m)
             \/ RepliesOnly(p)
             \/ \E value \in Answers \ {"Corrupt"} : Ends(p, value)
  BY <1>2, <1>3 DEF Starts, RepliesOnly, Ends
<1> QED
  BY <1>1, <1>3 DEF MixedStep

-----------------------------------------------------------------------------
(* Theorems *)

LEMMA TsInvInit == TsInit => TsInv
<1> SUFFICES ASSUME TsInit PROVE TsInv
  OBVIOUS
<1>1. SignerInv
  BY SignerInit DEF TsInit
<1>2. SamplingOK
  BY DEF TsInit, SamplingOK
<1>3. NeverPoisoned
  BY TsProcsAreProcs DEF TsInit, Init, NeverPoisoned
<1> QED
  BY <1>1, <1>2, <1>3 DEF TsInv

LEMMA TsInvStep == TsInv /\ [TsNext]_allVars => TsInv'
BY EveryStepIsMixed, MixedKeepsSignerInv, SamplingStep, NeverPoisonedStep DEF TsInv

\* A signer of either language that has the lock has the file; one that samples is at
\* the leaf it set aside.
THEOREM TsInvariant == TsSpec => []TsInv
BY TsInvInit, TsInvStep, PTL DEF TsSpec

\* Signers of both languages stay in their ranges: a TypeScript signer whose random
\* source runs holds the lock, and the leaf it set aside is still its handle's next.
THEOREM TsTypeCorrect == TsSpec => []TsTypeOK
<1>1. TsInv => TsTypeOK
  BY DEF TsInv, SignerInv, SamplingOK, TsTypeOK
<1> QED
  BY <1>1, TsInvariant, PTL

\* signing-key.ts and signer.rs lock one another out, and neither loses the lock.
THEOREM MixedLockExclusion == TsSpec => []LockedWhileOpen
<1>1. TsInv => LockedWhileOpen
  BY DEF TsInv, SignerInv
<1> QED
  BY <1>1, TsInvariant, PTL

\* A handle of either language that can sign holds the record at the path.
THEOREM MixedHandleIsCurrent == TsSpec => []SignerSeesTheFile
<1>1. TsInv => SignerSeesTheFile
  BY DEF TsInv, SignerInv, FileFollowsMem, SignerSeesTheFile
<1> QED
  BY <1>1, TsInvariant, PTL

\* signing-key.ts, persist: in either language an attempt is durable before its call returns.
THEOREM MixedAttemptIsDurable == TsSpec => []AttemptDurableBeforeReturn
<1>1. TsInv => AttemptDurableBeforeReturn
  BY DEF TsInv, SignerInv, FileFollowsMem, AttemptDurableBeforeReturn
<1> QED
  BY <1>1, TsInvariant, PTL

LEMMA MixedRecordInvariant == TsSpec => []RecordInv
<1>1. TsInit => RecordInv
  BY RecordInit DEF TsInit
<1>2. TsInv /\ RecordInv /\ [TsNext]_allVars => RecordInv'
  BY EveryStepIsMixed, MixedKeepsRecordInv DEF TsInv
<1> QED
  BY <1>1, <1>2, TsInvariant, PTL DEF TsSpec

\* No handle of either language finds its own record `Corrupt` when it signs.
THEOREM MixedNeverCorrupt == TsSpec => []SignNeverCorrupt
<1>1. RecordInv => SignNeverCorrupt
  BY DEF RecordInv
<1> QED
  BY <1>1, MixedRecordInvariant, PTL

LEMMA MixedLeafInvariant == ASSUME NotBoth PROVE TsSpec => []LeafInv
<1>1. TsInit => LeafInv
  BY LeafInit DEF TsInit
<1>2. TsInv /\ TsInv' /\ LeafInv /\ [TsNext]_allVars => LeafInv'
  BY NotBoth, EveryStepIsMixed, MixedKeepsLeafInv DEF TsInv
<1> QED
  BY <1>1, <1>2, TsInvariant, PTL DEF TsSpec

\* No leaf signs twice, in whichever languages and however often the key file changes hands.
THEOREM MixedOneSignature == ASSUME NotBoth PROVE TsSpec => []OneSignaturePerLeaf
<1>1. LeafInv => OneSignaturePerLeaf
  BY DEF LeafInv
<1> QED
  BY <1>1, MixedLeafInvariant, PTL

\* Nor does a path ever sign under two keys, whichever language created its file.
THEOREM MixedOneKey == ASSUME NotBoth PROVE TsSpec => []OneKeyPerPath
<1>1. LeafInv => OneKeyPerPath
  BY DEF LeafInv
<1> QED
  BY <1>1, MixedLeafInvariant, PTL

\* A step that is a TypeScript signer's own leaves the directory as it is.
LEMMA OwnStepsLeaveFiles ==
  ASSUME MixedStep
  PROVE  [Next]_vars \/ UNCHANGED fileVars
BY DEF MixedStep, Starts, RepliesOnly, Ends

\* While the machine stays up, the leaf at the path advances by single attempts, with
\* signers of both languages taking turns and their random sources calling back.
THEOREM MixedLeavesInOrder == ASSUME "power" \notin Faults PROVE TsSpec => LeavesSpentInOrder
<1>1. TsInv /\ [TsNext]_allVars =>
        [file.data \in Record /\ file'.data # file.data =>
           /\ file'.data \in Record
           /\ file'.data.key = file.data.key
           /\ file'.data.next = file.data.next + 1]_vars
  <2> SUFFICES ASSUME TsInv, [TsNext]_allVars, file.data \in Record, file'.data # file.data
               PROVE  /\ file'.data \in Record
                      /\ file'.data.key = file.data.key
                      /\ file'.data.next = file.data.next + 1
    OBVIOUS
  <2>1. SignerInv /\ [Next]_vars
    BY EveryStepIsMixed, OwnStepsLeaveFiles DEF TsInv, fileVars
  <2> QED
    BY <2>1, "power" \notin Faults, OrderStep
<1> QED
  BY <1>1, TsInvariant, PTL DEF TsSpec, LeavesSpentInOrder

\* signing-key.ts, persist: in either language, once a power loss is sure to find a
\* record it always finds one that open takes, of the same key.
THEOREM MixedNeverTorn == TsSpec => RecordNeverTorn
<1>1. TsInv /\ RecordInv /\ RecordInv' /\ [TsNext]_allVars =>
        [stable \subseteq Record =>
           \A c \in stable' : /\ Valid(c)
                              /\ \A r \in stable : c.key = r.key]_vars
  <2> SUFFICES ASSUME TsInv, RecordInv, RecordInv', [TsNext]_allVars, stable \subseteq Record,
                      NEW c \in stable'
               PROVE  Valid(c) /\ \A r \in stable : c.key = r.key
    OBVIOUS
  <2>1. CASE [Next]_vars
    <3>1. stable' \subseteq Record /\ stable \cap stable' # {}
      BY <2>1, SurvivorsStep DEF TsInv
    <3> QED
      BY <3>1 DEF RecordInv, SurvivorsAgree
  <2>2. CASE UNCHANGED fileVars
    BY <2>2 DEF RecordInv, SurvivorsAgree, fileVars
  <2> QED
    BY <2>1, <2>2, EveryStepIsMixed, OwnStepsLeaveFiles
<1> QED
  BY <1>1, MixedRecordInvariant, TsInvariant, PTL DEF TsSpec, RecordNeverTorn

\* Signers of both languages on one path, callbacks into a signer that samples
\* included, are one Definition 8 state.
THEOREM MixedSignersAreDefinition8 == ASSUME NotBoth PROVE TsSpec => ImplementsDefinition8
<1>1. TsInit => Abstract!Init
  BY RefinementInit DEF TsInit
<1>2. TsInv /\ LeafInv /\ RecordInv /\ [TsNext]_allVars => [Abstract!Next]_(Abstract!vars)
  BY NotBoth, EveryStepIsMixed, MixedIsAbstract DEF TsInv
<1> QED
  BY <1>1, <1>2, TsInvariant, MixedLeafInvariant, MixedRecordInvariant, NotBoth, PTL
     DEF TsSpec, ImplementsDefinition8, Abstract!Spec
=============================================================================
