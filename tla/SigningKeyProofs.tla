--------------------------- MODULE SigningKeyProofs ---------------------------
(***************************************************************************)
(* Theorems about SigningKey, for any number of signers, keys, messages,     *)
(* salts and leaves: the three layers of its invariant, what follows from      *)
(* them, and that signers on one path implement Definition8.                  *)
(***************************************************************************)
EXTENDS SigningKeyRefinement, TLAPS

\* Facts about the constants the steps below use.
LEMMA Constants ==
  /\ LEAVES \in Nat /\ LEAVES > 0
  /\ NoProc \notin Procs
  /\ Absent \notin Record /\ Partial \notin Record /\ None \notin Record
  /\ None \notin Keys /\ None \notin Messages /\ None \notin Salts
  /\ Absent # Partial
  /\ Accepting \subseteq Signature
BY ConstantsOK DEF ConstantsOK

\* The attempt that spends the next leaf of a record is a record.
LEMMA SpentIsRecord ==
  ASSUME NEW r \in Record, NEW m \in Messages \cup {None}, NEW s \in Salts \cup {None}
  PROVE  /\ Spent(r, m, s) \in Record
         /\ Spent(r, m, s).key = r.key
         /\ Spent(r, m, s).next = r.next + 1
BY DEF Spent, Record

-----------------------------------------------------------------------------
(***************************************************************************)
(* What every signer knows, under every fault.                              *)
(***************************************************************************)

\* A sampling that is over: the leaf is spent and about to be persisted.  SignAttempt is
\* one; a source that calls its own signer may also throw the refusal (SigningKeyTs).
Starts(p, m) ==
  /\ Goto(p, "ready", "open_tmp")
  /\ ~failed[p]
  /\ mem[p].next < LEAVES
  /\ \/ \E s \in AcceptedSalts(mem[p].key, mem[p].next, m) :
          /\ mem' = [mem EXCEPT ![p] = Spent(mem[p], m, s)]
          /\ Returns(p, "Ok")
     \/ \E error \in SamplingErrors \cup {"Unusable"} :
          /\ mem' = [mem EXCEPT ![p] = Spent(mem[p], None, None)]
          /\ Returns(p, error)
  /\ UNCHANGED <<lock, fileVars, failed, drawn, released>>

LEMMA AttemptStarts ==
  ASSUME NEW p \in Procs, NEW m \in Messages, SignAttempt(p, m), mem \in [Procs -> Record \cup {None}]
  PROVE  Starts(p, m)
BY DEF SignAttempt, Starts

\* A new attempt puts the record that spends the next leaf in memory.
LEMMA StartSpends ==
  ASSUME SignerInv, NEW p \in Procs, NEW m \in Messages, Starts(p, m)
  PROVE  /\ mem' = [mem EXCEPT ![p] = mem'[p]]
         /\ mem'[p] \in Record
         /\ mem'[p].key = mem[p].key
         /\ mem'[p].next = mem[p].next + 1
         /\ result' \in [Procs -> Answers]
<1> USE DEF SignerInv, FieldsOK, Returns, Answers, Results, SamplingErrors
<1>1. mem[p] \in Record
  BY DEF Starts, Goto, HandleHasRecord, HandleStates
<1>2. CASE \E s \in AcceptedSalts(mem[p].key, mem[p].next, m) :
             /\ mem' = [mem EXCEPT ![p] = Spent(mem[p], m, s)]
             /\ Returns(p, "Ok")
  <2>1. PICK s \in Salts : /\ mem' = [mem EXCEPT ![p] = Spent(mem[p], m, s)]
                           /\ Returns(p, "Ok")
    BY <1>2 DEF AcceptedSalts
  <2>2. mem'[p] = Spent(mem[p], m, s)
    BY <2>1
  <2> QED
    BY <1>1, <2>1, <2>2, SpentIsRecord
<1>3. CASE \E error \in SamplingErrors \cup {"Unusable"} :
             /\ mem' = [mem EXCEPT ![p] = Spent(mem[p], None, None)]
             /\ Returns(p, error)
  <2>1. mem'[p] = Spent(mem[p], None, None)
    BY <1>3
  <2> QED
    BY <1>1, <1>3, <2>1, SpentIsRecord
<1> QED
  BY <1>2, <1>3 DEF Starts

LEMMA StartKeepsSignerInv ==
  ASSUME SignerInv, NEW p \in Procs, NEW m \in Messages, Starts(p, m)
  PROVE  SignerInv'
<1> USE Constants DEF SignerInv, FieldsOK, LockedWhileOpen, HandleHasRecord, TmpFollowsMem,
      FileFollowsMem, HandleStates, BeforeRename, fileVars, Goto, PCs, Persisting
<1>1. mem[p] \in Record /\ file.data = mem[p]
  BY DEF Starts
<1>2. /\ mem' = [mem EXCEPT ![p] = mem'[p]]
      /\ mem'[p] \in Record
      /\ mem'[p].key = file.data.key
      /\ mem'[p].next = file.data.next + 1
      /\ result' \in [Procs -> Answers]
  BY <1>1, StartSpends
<1> QED
  BY <1>1, <1>2 DEF Starts

\* A call that changes nothing but what was answered last.
RepliesOnly(p) ==
  /\ pc[p] \in {"closed", "ready"}
  /\ \E value \in {"Ok", "Unusable", "InvalidEncoding", "LeafBelowMinimum"} : Returns(p, value)
  /\ UNCHANGED <<lock, fileVars, mem, failed, pc, drawn, released>>

LEMMA ReplyKeepsSignerInv ==
  ASSUME SignerInv, NEW p \in Procs, RepliesOnly(p)
  PROVE  SignerInv'
BY DEF RepliesOnly, Returns, fileVars, SignerInv, FieldsOK, LockedWhileOpen, HandleHasRecord, TmpFollowsMem,
   FileFollowsMem, HandleStates, Answers, Results

\* A handle that goes away, whatever the reason, takes nothing with it but its lock.
LEMMA CloseKeepsSignerInv ==
  ASSUME SignerInv, NEW p \in Procs, pc[p] # "closed", NEW value \in Answers, Close(p, value),
         UNCHANGED <<fileVars, drawn, released>>
  PROVE  SignerInv'
<1> USE Constants DEF SignerInv, FieldsOK, LockedWhileOpen, Close, Unlock, Returns, fileVars
<1>1. FieldsOK'
  BY DEF PCs
<1>2. LockedWhileOpen'
  OBVIOUS
<1>3. HandleHasRecord' /\ TmpFollowsMem' /\ FileFollowsMem'
  BY DEF HandleHasRecord, TmpFollowsMem, FileFollowsMem, HandleStates, BeforeRename, Persisting
<1> QED
  BY <1>1, <1>2, <1>3

LEMMA SignerStep == SignerInv /\ [Next]_vars => SignerInv'
<1> SUFFICES ASSUME SignerInv, [Next]_vars PROVE SignerInv'
  OBVIOUS
<1> USE Constants DEF SignerInv, FieldsOK, LockedWhileOpen, HandleHasRecord, TmpFollowsMem,
      FileFollowsMem, HandleStates, BeforeRename, fileVars, procVars, Goto, Returns, Close, Unlock,
      PCs, Answers, Results, Persisting, SamplingErrors
<1>1. ASSUME NEW p \in Procs, NEW op \in {"create", "open"}, Lock(p, op)
      PROVE  SignerInv'
  BY <1>1 DEF Lock, TryLock
<1>2. ASSUME NEW p \in Procs, NEW minimum \in 0 .. LEAVES + 1, RequireNextLeaf(p, minimum)
      PROVE  SignerInv'
  <2>1. CASE ~UNCHANGED <<lock, mem, failed, pc>>
    <3> HIDE DEF SignerInv, Close
    <3>1. /\ pc[p] # "closed" /\ Close(p, "LeafBelowMinimum")
          /\ UNCHANGED <<fileVars, drawn, released>>
      BY <1>2, <2>1 DEF RequireNextLeaf
    <3> QED
      BY <3>1, CloseKeepsSignerInv DEF Answers, Results
  <2>2. CASE UNCHANGED <<lock, mem, failed, pc>>
    BY <1>2, <2>2 DEF RequireNextLeaf
  <2> QED
    BY <2>1, <2>2
<1>3. ASSUME NEW p \in Procs, Drop(p)
      PROVE  SignerInv'
  BY <1>3 DEF Drop
<1>4. ASSUME NEW p \in Procs, SignUnusable(p)
      PROVE  SignerInv'
  BY <1>4, ReplyKeepsSignerInv DEF SignUnusable, RepliesOnly
<1>5. ASSUME NEW p \in Procs, NEW m \in Messages, SignRetry(p, m)
      PROVE  SignerInv'
  BY <1>5 DEF SignRetry, Release
<1>6. ASSUME NEW p \in Procs, NEW m \in Messages, SignExhausted(p, m)
      PROVE  SignerInv'
  BY <1>6 DEF SignExhausted
<1>7. ASSUME NEW p \in Procs, NEW m \in Messages, SignAttempt(p, m)
      PROVE  SignerInv'
  BY <1>7, AttemptStarts, StartKeepsSignerInv DEF FieldsOK
<1>8. ASSUME NEW p \in Procs, CreateFile(p)
      PROVE  SignerInv'
  <2>1. CASE file.data # Absent
    <3> HIDE DEF SignerInv, Close
    <3>1. /\ pc[p] # "closed" /\ Close(p, "Exists")
          /\ UNCHANGED <<fileVars, drawn, released>>
      BY <1>8, <2>1 DEF CreateFile, CreateNew
    <3> QED
      BY <3>1, CloseKeepsSignerInv DEF Answers, Results
  <2>2. CASE file.data = Absent
    <3>1. /\ pc' = [pc EXCEPT ![p] = "draw_key"]
          /\ pc[p] = "create"
          /\ file' = Unsynced(Partial)
          /\ stable' = stable \cup {Partial}
          /\ UNCHANGED <<lock, tmp, mem, failed, result, drawn, released>>
      BY <1>8, <2>2 DEF CreateFile, CreateNew
    <3> QED
      BY <3>1 DEF Unsynced
  <2> QED
    BY <2>1, <2>2
<1>9. ASSUME NEW p \in Procs, DrawKey(p)
      PROVE  SignerInv'
  <2>1. CASE pc'[p] = "closed"
    <3>0. ~Goto(p, "draw_key", "fill")
      BY <2>1
    <3> HIDE DEF SignerInv, Close, Goto
    <3>1. /\ pc[p] # "closed" /\ Close(p, "Random")
          /\ UNCHANGED <<fileVars, drawn, released>>
      BY <1>9, <3>0 DEF DrawKey
    <3> QED
      BY <3>1, CloseKeepsSignerInv DEF Answers, Results
  <2>2. CASE pc'[p] # "closed"
    <3>1. PICK k \in Keys \ drawn :
            /\ mem' = [mem EXCEPT ![p] = [key |-> k, next |-> 0, msg |-> None, salt |-> None]]
            /\ drawn' = drawn \cup {k}
      BY <1>9, <2>2 DEF DrawKey
    <3>2. mem'[p] \in Record
      BY <3>1 DEF Record
    <3> QED
      BY <1>9, <2>2, <3>1, <3>2 DEF DrawKey
  <2> QED
    BY <2>1, <2>2
<1>10. ASSUME NEW p \in Procs, CreateFill(p)
      PROVE  SignerInv'
  BY <1>10 DEF CreateFill, Fill, Unsynced
<1>11. ASSUME NEW p \in Procs, CreateSyncFile(p)
      PROVE  SignerInv'
  <2>1. /\ file'.data = file.data
        /\ file'.synced
        /\ file' \in [data : Record \cup {Absent, Partial}, synced : BOOLEAN]
    BY <1>11 DEF CreateSyncFile, SyncFile
  <2>2. stable' \subseteq Record \cup {Absent, Partial}
    BY <1>11 DEF CreateSyncFile, SyncFile
  <2> QED
    BY <1>11, <2>1, <2>2 DEF CreateSyncFile, SyncFile
<1>12. ASSUME NEW p \in Procs, CreateSyncDir(p)
      PROVE  SignerInv'
  BY <1>12 DEF CreateSyncDir, SyncDir, Survivors
<1>13. ASSUME NEW p \in Procs, Open(p)
      PROVE  SignerInv'
  <2>1. CASE Valid(file.data)
    BY <1>13, <2>1 DEF Open, Valid
  <2>2. CASE ~Valid(file.data)
    <3> DEFINE value == IF file.data = Absent THEN "Missing" ELSE "Corrupt"
    <3>1. value \in Answers
      OBVIOUS
    <3> HIDE DEF SignerInv, Close
    <3>2. /\ pc[p] # "closed" /\ Close(p, value)
          /\ UNCHANGED <<fileVars, drawn, released>>
      BY <1>13, <2>2 DEF Open
    <3> HIDE DEF value
    <3> QED
      BY <3>1, <3>2, CloseKeepsSignerInv
  <2> QED
    BY <2>1, <2>2
<1>14. ASSUME NEW p \in Procs, OpenTmp(p)
      PROVE  SignerInv'
  BY <1>14 DEF OpenTmp, TruncateTmp, Unsynced
<1>15. ASSUME NEW p \in Procs, WriteTmp(p)
      PROVE  SignerInv'
  BY <1>15 DEF WriteTmp, FillTmp, Unsynced
<1>16. ASSUME NEW p \in Procs, SyncTmpFile(p)
      PROVE  SignerInv'
  <2>1. /\ tmp'.data = tmp.data
        /\ tmp'.synced
        /\ tmp' \in [data : Record \cup {Absent, Partial}, synced : BOOLEAN]
    BY <1>16 DEF SyncTmpFile, SyncTmp
  <2> QED
    BY <1>16, <2>1 DEF SyncTmpFile, SyncTmp
<1>17. ASSUME NEW p \in Procs, Rename(p)
      PROVE  SignerInv'
  BY <1>17 DEF Rename, RenameTmp, Survivors, NoFile
<1>18. ASSUME NEW p \in Procs, WriteSyncDir(p)
      PROVE  SignerInv'
  BY <1>18 DEF WriteSyncDir, SyncDir, Survivors
<1>19. ASSUME NEW p \in Procs, Return(p)
      PROVE  SignerInv'
  BY <1>19 DEF Return, Release
<1>20. ASSUME NEW p \in Procs, CallFails(p)
      PROVE  SignerInv'
  BY <1>20 DEF CallFails
<1>21. ASSUME NEW p \in Procs, WriteFails(p)
      PROVE  SignerInv'
  BY <1>21 DEF WriteFails, Poison
<1>22. ASSUME NEW p \in Procs, Kill(p)
      PROVE  SignerInv'
  BY <1>22 DEF Kill
<1>23. CASE PowerLoss
  BY <1>23 DEF PowerLoss, FilePowerLoss, NoFile
<1>24. CASE Flush
  BY <1>24 DEF Flush, Writeback
<1>25. CASE UNCHANGED vars
  BY <1>25 DEF vars
<1>26. ASSUME NEW p \in Procs, Calls(p) PROVE SignerInv'
  <2> HIDE DEF SignerInv
  <2> QED
    BY <1>1, <1>2, <1>3, <1>4, <1>5, <1>6, <1>7, <1>26 DEF Calls
<1>27. ASSUME NEW p \in Procs, Progress(p) PROVE SignerInv'
  <2> HIDE DEF SignerInv
  <2> QED
    BY <1>8, <1>9, <1>10, <1>11, <1>12, <1>13, <1>14, <1>15, <1>16, <1>17, <1>18, <1>19, <1>27
       DEF Progress
<1>28. ASSUME NEW p \in Procs, Failure(p) PROVE SignerInv'
  <2> HIDE DEF SignerInv
  <2> QED
    BY <1>20, <1>21, <1>22, <1>28 DEF Failure
<1> HIDE DEF SignerInv
<1> QED
  BY <1>23, <1>24, <1>25, <1>26, <1>27, <1>28 DEF Next

\* A signer in Rust returns nothing else.
LEMMA AnswersInRange ==
  ASSUME result \in [Procs -> Results], [Next]_vars
  PROVE  result' \in [Procs -> Results]
<1> USE DEF Results, SamplingErrors, Returns, Close
<1>1. ASSUME NEW p \in Procs, Calls(p) PROVE result' \in [Procs -> Results]
  BY <1>1 DEF Calls, Lock, RequireNextLeaf, Drop, SignUnusable, SignRetry, Release, SignExhausted, SignAttempt
<1>2. ASSUME NEW p \in Procs, Progress(p) PROVE result' \in [Procs -> Results]
  BY <1>2 DEF Progress, CreateFile, DrawKey, CreateFill, CreateSyncFile, CreateSyncDir, Open, OpenTmp, WriteTmp,
     SyncTmpFile, Rename, WriteSyncDir, Return, Release
<1>3. ASSUME NEW p \in Procs, Failure(p) PROVE result' \in [Procs -> Results]
  BY <1>3 DEF Failure, CallFails, WriteFails, Kill
<1>4. CASE PowerLoss \/ Flush \/ UNCHANGED vars
  BY <1>4 DEF PowerLoss, Flush, vars, procVars
<1> QED
  BY <1>1, <1>2, <1>3, <1>4 DEF Next

LEMMA SignerInit == Init => SignerInv
BY Constants DEF Init, FileInit, NoFile, SignerInv, FieldsOK, LockedWhileOpen, HandleHasRecord, TmpFollowsMem,
     FileFollowsMem, HandleStates, BeforeRename, Persisting, PCs, Answers, Results

\* One signer has the lock, and the file and the temporary file follow its memory.
THEOREM SignerInvariant == Spec => []SignerInv
BY SignerInit, SignerStep, PTL DEF Spec

\* The variables of every reachable state are in range.
THEOREM TypeCorrect == Spec => []TypeOK
<1>1. Init => TypeOK
  BY SignerInit DEF Init, SignerInv, TypeOK, Results
<1>2. SignerInv' /\ TypeOK /\ [Next]_vars => TypeOK'
  BY AnswersInRange DEF SignerInv, TypeOK
<1> QED
  BY <1>1, <1>2, SignerInvariant, PTL DEF Spec

\* src/signer.rs, lock: one signer at a time, and no way to lose the lock.
THEOREM LockExclusion == Spec => []LockedWhileOpen
<1>1. SignerInv => LockedWhileOpen
  BY DEF SignerInv
<1> QED
  BY <1>1, SignerInvariant, PTL

\* A handle that can sign holds the record at the path.
THEOREM HandleIsCurrent == Spec => []SignerSeesTheFile
<1>1. SignerInv => SignerSeesTheFile
  BY DEF SignerInv, FileFollowsMem, SignerSeesTheFile
<1> QED
  BY <1>1, SignerInvariant, PTL

\* An attempt is durable before its call returns, under every fault.
THEOREM AttemptIsDurable == Spec => []AttemptDurableBeforeReturn
<1>1. SignerInv => AttemptDurableBeforeReturn
  BY DEF SignerInv, FileFollowsMem, AttemptDurableBeforeReturn
<1> QED
  BY <1>1, SignerInvariant, PTL

-----------------------------------------------------------------------------
(***************************************************************************)
(* What the survivors know, if not both a process and the machine may fail.   *)
(***************************************************************************)

\* The signature of the record at the path may leave when no other record survives.
LEMMA ReleaseIsSafe ==
  ASSUME SignerInv, LeafInv, NEW p \in Procs, mem[p] \in Record, Survivable = {mem[p]},
         UNCHANGED fileVars, Release(p, SignatureOf(mem[p]))
  PROVE  SurvivorsKnow' /\ OneKeyPerPath' /\ OneSignaturePerLeaf'
<1> DEFINE sig == SignatureOf(mem[p])
<1>1. /\ sig.key = mem[p].key
      /\ sig.leaf = mem[p].next - 1
      /\ sig.msg = mem[p].msg
      /\ sig.salt = mem[p].salt
  BY DEF SignatureOf
<1>2. mem[p].next \in Nat
  BY DEF Record
<1>3. Survivable' = {mem[p]}
  BY DEF Survivable, fileVars
<1>4. released' = released \/ (released' = released \cup {sig} /\ sig \in Signature)
  BY Constants DEF Release
<1>5. \A t \in released : /\ t \in Signature
                          /\ t.key = mem[p].key
                          /\ t.leaf < mem[p].next
                          /\ t.leaf + 1 = mem[p].next => t.msg = mem[p].msg /\ t.salt = mem[p].salt
  BY DEF SignerInv, FieldsOK, LeafInv, SurvivorsKnow
<1>6. ASSUME NEW t \in released, sig \in Signature, t.leaf = sig.leaf
      PROVE  t = sig
  <2>1. t.leaf + 1 = mem[p].next
    BY <1>1, <1>2, <1>5, <1>6 DEF Signature
  <2> QED
    BY <1>1, <1>5, <1>6, <2>1 DEF Signature
<1> HIDE DEF sig
<1>7. SurvivorsKnow'
  <2> SUFFICES ASSUME NEW t \in released'
               PROVE  /\ mem[p].key = t.key
                      /\ t.leaf < mem[p].next
                      /\ t.leaf + 1 = mem[p].next => t.msg = mem[p].msg /\ t.salt = mem[p].salt
    BY <1>3 DEF SurvivorsKnow
  <2> QED
    BY <1>1, <1>2, <1>4, <1>5
<1>8. OneKeyPerPath'
  BY <1>1, <1>4, <1>5 DEF OneKeyPerPath
<1>9. OneSignaturePerLeaf'
  BY <1>4, <1>6 DEF OneSignaturePerLeaf, LeafInv
<1> QED
  BY <1>7, <1>8, <1>9

\* An attempt that starts, a refusal and a handle that goes away leave the survivors alone.
LEMMA StartKeepsLeafInv ==
  ASSUME SignerInv, LeafInv, NEW p \in Procs, NEW m \in Messages, Starts(p, m)
  PROVE  LeafInv'
<1> USE Constants DEF SignerInv, FieldsOK, LockedWhileOpen, BeforeRename, fileVars, Goto, Persisting, LeafInv, FaultsAsAssumed
<1>1. /\ mem' = [mem EXCEPT ![p] = mem'[p]]
      /\ pc[p] = "ready" /\ pc' = [pc EXCEPT ![p] = "open_tmp"] /\ lock = p
      /\ UNCHANGED <<lock, file, tmp, stable, failed, drawn, released>>
  BY StartSpends DEF Starts
<1>2. Survivable' = Survivable /\ Survivable = {file.data}
  BY <1>1 DEF Survivable, Lag, Starts
<1> QED
  BY <1>1, <1>2 DEF Lag, Settled, SurvivorsKnow, OneKeyPerPath, OneSignaturePerLeaf

LEMMA ReplyKeepsLeafInv ==
  ASSUME LeafInv, NEW p \in Procs, RepliesOnly(p)
  PROVE  LeafInv'
BY DEF RepliesOnly, fileVars, LeafInv, FaultsAsAssumed, Lag, Settled, SurvivorsKnow, OneKeyPerPath,
   OneSignaturePerLeaf, Survivable

LEMMA CloseKeepsLeafInv ==
  ASSUME SignerInv, LeafInv, NEW p \in Procs, NEW value \in Answers, Close(p, value),
         pc[p] = "ready" \/ (pc[p] # "closed" /\ "power" \notin Faults),
         failed[p] => "power" \notin Faults,
         UNCHANGED <<fileVars, drawn, released>>
  PROVE  LeafInv'
<1> USE Constants DEF SignerInv, FieldsOK, LockedWhileOpen, BeforeRename, fileVars, Close, Unlock, Persisting,
      LeafInv, FaultsAsAssumed
<1>1. Survivable' = Survivable
  BY DEF Survivable
<1>2. \A q \in Procs : pc'[q] = "closed"
  OBVIOUS
<1>3. Settled'
  <2>1. CASE pc[p] = "ready" /\ ~failed[p]
    BY <1>1, <2>1 DEF Settled, Lag
  <2>2. CASE "power" \notin Faults
    BY <1>1, <2>2 DEF Settled, Survivable
  <2> QED
    BY <2>1, <2>2
<1> QED
  BY <1>1, <1>2, <1>3 DEF Lag, SurvivorsKnow, OneKeyPerPath, OneSignaturePerLeaf

LEMMA LeafStep ==
  ASSUME NotBoth, SignerInv, SignerInv', LeafInv, [Next]_vars
  PROVE  LeafInv'
<1> USE Constants DEF NotBoth, SignerInv, FieldsOK, LockedWhileOpen, HandleHasRecord, TmpFollowsMem,
      FileFollowsMem, HandleStates, BeforeRename, fileVars, procVars, Goto, Returns, Close, Unlock,
      Persisting, SamplingErrors, LeafInv, FaultsAsAssumed
<1>1. ASSUME NEW p \in Procs, NEW op \in {"create", "open"}, Lock(p, op)
      PROVE  LeafInv'
  BY <1>1 DEF Lock, TryLock, Lag, Settled, SurvivorsKnow,
     OneKeyPerPath, OneSignaturePerLeaf, Survivable
<1>2. ASSUME NEW p \in Procs, NEW minimum \in 0 .. LEAVES + 1, RequireNextLeaf(p, minimum)
      PROVE  LeafInv'
  BY <1>2 DEF RequireNextLeaf, Lag, Settled, SurvivorsKnow,
     OneKeyPerPath, OneSignaturePerLeaf, Survivable
<1>3. ASSUME NEW p \in Procs, Drop(p)
      PROVE  LeafInv'
  BY <1>3 DEF Drop, Lag, Settled, SurvivorsKnow,
     OneKeyPerPath, OneSignaturePerLeaf, Survivable
<1>4. ASSUME NEW p \in Procs, SignUnusable(p)
      PROVE  LeafInv'
  BY <1>4 DEF SignUnusable, Lag, Settled, SurvivorsKnow,
     OneKeyPerPath, OneSignaturePerLeaf, Survivable
<1>5. ASSUME NEW p \in Procs, NEW m \in Messages, SignRetry(p, m)
      PROVE  LeafInv'
  <2>1. FaultsAsAssumed'
    BY <1>5 DEF SignRetry, Release
  <2>2. Lag'
    BY <1>5 DEF SignRetry, Release, Lag, Survivable
  <2>3. Settled'
    BY <1>5 DEF SignRetry, Release, Settled, Lag, Survivable
  <2>4. mem[p] \in Record /\ Survivable = {mem[p]}
    BY <1>5 DEF SignRetry, Lag
  <2>5. SurvivorsKnow' /\ OneKeyPerPath' /\ OneSignaturePerLeaf'
    BY <1>5, <2>4, ReleaseIsSafe DEF SignRetry
  <2> QED
    BY <2>1, <2>2, <2>3, <2>5
<1>6. ASSUME NEW p \in Procs, NEW m \in Messages, SignExhausted(p, m)
      PROVE  LeafInv'
  BY <1>6 DEF SignExhausted, Lag, Settled, SurvivorsKnow,
     OneKeyPerPath, OneSignaturePerLeaf, Survivable
<1>7. ASSUME NEW p \in Procs, NEW m \in Messages, SignAttempt(p, m)
      PROVE  LeafInv'
  BY <1>7, AttemptStarts, StartKeepsLeafInv
<1>8. ASSUME NEW p \in Procs, CreateFile(p)
      PROVE  LeafInv'
  <2>1. FaultsAsAssumed'
    BY <1>8 DEF CreateFile, CreateNew, Unsynced
  <2>2. Lag'
    <3>1. CASE file.data # Absent
      BY <1>8, <3>1 DEF CreateFile, CreateNew, Lag
    <3>2. CASE file.data = Absent
      <4>1. \A q \in Procs : pc[q] = IF q = p THEN "create" ELSE "closed"
        BY <1>8 DEF CreateFile
      <4>2. Survivable \cap Record = {}
        BY <3>2, <4>1 DEF Settled
      <4>3. /\ pc' = [pc EXCEPT ![p] = "draw_key"]
            /\ Survivable' \subseteq Survivable \cup {Partial}
        BY <1>8, <3>2 DEF CreateFile, CreateNew, Unsynced, Survivable
      <4> QED
        BY <4>1, <4>2, <4>3 DEF Lag
    <3> QED
      BY <3>1, <3>2
  <2>3. Settled'
    BY <1>8 DEF CreateFile, CreateNew, Unsynced, Settled, Lag, Survivable
  <2>4. SurvivorsKnow'
    BY <1>8 DEF CreateFile, CreateNew, Unsynced, SurvivorsKnow, Survivable, Lag
  <2>5. (OneKeyPerPath /\ OneSignaturePerLeaf)'
    BY <1>8 DEF CreateFile, CreateNew, Unsynced, OneKeyPerPath, OneSignaturePerLeaf, SurvivorsKnow
  <2> QED
    BY <2>1, <2>2, <2>3, <2>4, <2>5
<1>9. ASSUME NEW p \in Procs, DrawKey(p)
      PROVE  LeafInv'
  BY <1>9 DEF DrawKey, Record, Lag, Settled, SurvivorsKnow,
     OneKeyPerPath, OneSignaturePerLeaf, Survivable
<1>10. ASSUME NEW p \in Procs, CreateFill(p)
      PROVE  LeafInv'
  <2>1. FaultsAsAssumed'
    BY <1>10 DEF CreateFill, Fill, Unsynced
  <2>2. Lag'
    <3>1. \A q \in Procs : pc[q] = IF q = p THEN "fill" ELSE "closed"
      BY <1>10 DEF CreateFill
    <3>2. /\ pc' = [pc EXCEPT ![p] = "sync_file"]
          /\ Survivable' \subseteq Survivable \cup {mem[p], Partial}
          /\ UNCHANGED <<mem, released>>
      BY <1>10 DEF CreateFill, Fill, Unsynced, Survivable
    <3>3. Survivable \cap Record = {}
      BY <3>1 DEF Lag
    <3>4. released = {}
      <4>1. file.data \in Survivable
        BY DEF Survivable
      <4> QED
        BY <3>3, <4>1 DEF SurvivorsKnow
    <3> QED
      BY <3>1, <3>2, <3>3, <3>4 DEF Lag
  <2>3. Settled'
    BY <1>10 DEF CreateFill, Fill, Unsynced, Settled, Lag, Survivable
  <2>4. SurvivorsKnow'
    BY <1>10 DEF CreateFill, Fill, Unsynced, SurvivorsKnow, Survivable, Lag
  <2>5. (OneKeyPerPath /\ OneSignaturePerLeaf)'
    BY <1>10 DEF CreateFill, Fill, Unsynced, OneKeyPerPath, OneSignaturePerLeaf, SurvivorsKnow
  <2> QED
    BY <2>1, <2>2, <2>3, <2>4, <2>5
<1>11. ASSUME NEW p \in Procs, CreateSyncFile(p)
      PROVE  LeafInv'
  BY <1>11 DEF CreateSyncFile, SyncFile, Lag, Settled, SurvivorsKnow,
     OneKeyPerPath, OneSignaturePerLeaf, Survivable
<1>12. ASSUME NEW p \in Procs, CreateSyncDir(p)
      PROVE  LeafInv'
  BY <1>12 DEF CreateSyncDir, SyncDir, Survivors, Lag, Settled, SurvivorsKnow,
     OneKeyPerPath, OneSignaturePerLeaf, Survivable
<1>13. ASSUME NEW p \in Procs, Open(p)
      PROVE  LeafInv'
  <2>1. FaultsAsAssumed'
    BY <1>13 DEF Open, Valid
  <2>2. Lag'
    <3>1. \A q \in Procs : pc[q] = IF q = p THEN "open" ELSE "closed"
      BY <1>13 DEF Open
    <3>2. file.data \in Record => Survivable = {file.data}
      BY <3>1 DEF Settled, Survivable
    <3>3. pc'[p] = "ready" => file.data \in Record
      BY <1>13 DEF Open, Valid
    <3>4. pc' = [pc EXCEPT ![p] = "ready"] \/ pc' = [pc EXCEPT ![p] = "closed"]
      BY <1>13 DEF Open
    <3>5. Survivable' = Survivable /\ file' = file
      BY <1>13 DEF Open, Survivable
    <3> QED
      BY <3>1, <3>2, <3>3, <3>4, <3>5 DEF Lag
  <2>3. Settled'
    BY <1>13 DEF Open, Valid, Settled, Lag, Survivable
  <2>4. SurvivorsKnow'
    BY <1>13 DEF Open, Valid, SurvivorsKnow, Survivable, Lag
  <2>5. (OneKeyPerPath /\ OneSignaturePerLeaf)'
    BY <1>13 DEF Open, Valid, OneKeyPerPath, OneSignaturePerLeaf, SurvivorsKnow
  <2> QED
    BY <2>1, <2>2, <2>3, <2>4, <2>5
<1>14. ASSUME NEW p \in Procs, OpenTmp(p)
      PROVE  LeafInv'
  BY <1>14 DEF OpenTmp, TruncateTmp, Unsynced, Lag, Settled, SurvivorsKnow,
     OneKeyPerPath, OneSignaturePerLeaf, Survivable
<1>15. ASSUME NEW p \in Procs, WriteTmp(p)
      PROVE  LeafInv'
  BY <1>15 DEF WriteTmp, FillTmp, Unsynced, Lag, Settled, SurvivorsKnow,
     OneKeyPerPath, OneSignaturePerLeaf, Survivable
<1>16. ASSUME NEW p \in Procs, SyncTmpFile(p)
      PROVE  LeafInv'
  BY <1>16 DEF SyncTmpFile, SyncTmp, Lag, Settled, SurvivorsKnow,
     OneKeyPerPath, OneSignaturePerLeaf, Survivable
<1>17. ASSUME NEW p \in Procs, Rename(p)
      PROVE  LeafInv'
  <2>1. FaultsAsAssumed'
    BY <1>17 DEF Rename, RenameTmp, Survivors, NoFile
  <2>2. Lag'
    BY <1>17 DEF Rename, RenameTmp, Survivors, NoFile, Lag, Survivable
  <2>3. Settled'
    BY <1>17 DEF Rename, RenameTmp, Survivors, NoFile, Settled, Lag, Survivable
  <2>4. SurvivorsKnow'
    <3>1. /\ Survivable = {file.data}
          /\ Survivable' \subseteq {file.data, mem[p]}
          /\ released' = released
      BY <1>17 DEF Rename, RenameTmp, Survivors, Survivable, Lag
    <3>2. mem[p] \in Record /\ mem[p].key = file.data.key /\ mem[p].next = file.data.next + 1
      BY <1>17 DEF Rename
    <3>3. \A t \in released : t.leaf \in Nat /\ file.data.next \in Nat
      BY <1>17 DEF Rename, Signature, Record
    <3> QED
      BY <3>1, <3>2, <3>3 DEF SurvivorsKnow
  <2>5. (OneKeyPerPath /\ OneSignaturePerLeaf)'
    BY <1>17 DEF Rename, RenameTmp, Survivors, NoFile, OneKeyPerPath, OneSignaturePerLeaf, SurvivorsKnow
  <2> QED
    BY <2>1, <2>2, <2>3, <2>4, <2>5
<1>18. ASSUME NEW p \in Procs, WriteSyncDir(p)
      PROVE  LeafInv'
  BY <1>18 DEF WriteSyncDir, SyncDir, Survivors, Lag, Settled, SurvivorsKnow,
     OneKeyPerPath, OneSignaturePerLeaf, Survivable
<1>19. ASSUME NEW p \in Procs, Return(p)
      PROVE  LeafInv'
  <2>1. FaultsAsAssumed'
    BY <1>19 DEF Return, Release
  <2>2. Lag'
    BY <1>19 DEF Return, Release, Lag, Survivable
  <2>3. Settled'
    BY <1>19 DEF Return, Release, Settled, Lag, Survivable
  <2>4. CASE result[p] = "Ok"
    <3>1. mem[p] \in Record /\ Survivable = {mem[p]}
      BY <1>19 DEF Return, Survivable
    <3>2. SurvivorsKnow' /\ OneKeyPerPath' /\ OneSignaturePerLeaf'
      BY <1>19, <2>4, <3>1, ReleaseIsSafe DEF Return
    <3> QED
      BY <2>1, <2>2, <2>3, <3>2
  <2>5. CASE result[p] # "Ok"
    <3>1. SurvivorsKnow' /\ OneKeyPerPath' /\ OneSignaturePerLeaf'
      BY <1>19, <2>5 DEF Return, SurvivorsKnow, Survivable, OneKeyPerPath, OneSignaturePerLeaf
    <3> QED
      BY <2>1, <2>2, <2>3, <3>1
  <2> QED
    BY <2>4, <2>5
<1>20. ASSUME NEW p \in Procs, CallFails(p)
      PROVE  LeafInv'
  BY <1>20 DEF CallFails, Lag, Settled, SurvivorsKnow,
     OneKeyPerPath, OneSignaturePerLeaf, Survivable
<1>21. ASSUME NEW p \in Procs, WriteFails(p)
      PROVE  LeafInv'
  BY <1>21 DEF WriteFails, Poison, Lag, Settled, SurvivorsKnow,
     OneKeyPerPath, OneSignaturePerLeaf, Survivable
<1>22. ASSUME NEW p \in Procs, Kill(p)
      PROVE  LeafInv'
  BY <1>22 DEF Kill, Lag, Settled, SurvivorsKnow,
     OneKeyPerPath, OneSignaturePerLeaf, Survivable
<1>23. CASE PowerLoss
  BY <1>23 DEF PowerLoss, FilePowerLoss, NoFile, Lag, Settled, SurvivorsKnow,
     OneKeyPerPath, OneSignaturePerLeaf, Survivable
<1>24. CASE Flush
  BY <1>24 DEF Flush, Writeback, Lag, Settled, SurvivorsKnow,
     OneKeyPerPath, OneSignaturePerLeaf, Survivable
<1>25. CASE UNCHANGED vars
  BY <1>25 DEF vars, Lag, Settled, SurvivorsKnow,
     OneKeyPerPath, OneSignaturePerLeaf, Survivable
<1>26. ASSUME NEW p \in Procs, Calls(p) PROVE LeafInv'
  <2> HIDE DEF LeafInv
  <2> QED
    BY <1>1, <1>2, <1>3, <1>4, <1>5, <1>6, <1>7, <1>26 DEF Calls
<1>27. ASSUME NEW p \in Procs, Progress(p) PROVE LeafInv'
  <2> HIDE DEF LeafInv
  <2> QED
    BY <1>8, <1>9, <1>10, <1>11, <1>12, <1>13, <1>14, <1>15, <1>16, <1>17, <1>18, <1>19, <1>27
       DEF Progress
<1>28. ASSUME NEW p \in Procs, Failure(p) PROVE LeafInv'
  <2> HIDE DEF LeafInv
  <2> QED
    BY <1>20, <1>21, <1>22, <1>28 DEF Failure
<1> HIDE DEF LeafInv
<1> QED
  BY <1>23, <1>24, <1>25, <1>26, <1>27, <1>28 DEF Next

LEMMA LeafInit == Init => LeafInv
BY Constants DEF Init, FileInit, NoFile, LeafInv, FaultsAsAssumed, Lag, Settled, SurvivorsKnow,
   OneKeyPerPath, OneSignaturePerLeaf, Survivable, BeforeRename

\* Every record that may survive has spent the leaves of all signatures that left.
THEOREM LeafInvariant == ASSUME NotBoth PROVE Spec => []LeafInv
<1>1. SignerInv /\ SignerInv' /\ LeafInv /\ [Next]_vars => LeafInv'
  BY NotBoth, LeafStep
<1> QED
  BY <1>1, LeafInit, SignerInvariant, PTL DEF Spec

\* Definition 8 on any number of signers: with processes that die and calls that
\* fail, or with power losses, no leaf ever signs twice.
THEOREM OneSignature == ASSUME NotBoth PROVE Spec => []OneSignaturePerLeaf
<1>1. LeafInv => OneSignaturePerLeaf
  BY DEF LeafInv
<1> QED
  BY <1>1, LeafInvariant, PTL

\* A path whose signatures have left never gets another key.
THEOREM OneKey == ASSUME NotBoth PROVE Spec => []OneKeyPerPath
<1>1. LeafInv => OneKeyPerPath
  BY DEF LeafInv
<1> QED
  BY <1>1, LeafInvariant, PTL

-----------------------------------------------------------------------------
(***************************************************************************)
(* The order in which leaves are spent, while the machine stays up.          *)
(***************************************************************************)

\* Only create and the rename change what is at the path.
LEMMA OrderStep ==
  ASSUME "power" \notin Faults, SignerInv, [Next]_vars,
         file.data \in Record, file'.data # file.data
  PROVE  /\ file'.data \in Record
         /\ file'.data.key = file.data.key
         /\ file'.data.next = file.data.next + 1
<1> USE Constants DEF SignerInv, fileVars, Goto
<1>1. ASSUME NEW p \in Procs, Rename(p)
      PROVE  file'.data \in Record /\ file'.data.key = file.data.key
               /\ file'.data.next = file.data.next + 1
  BY <1>1 DEF Rename, RenameTmp, TmpFollowsMem, FileFollowsMem, HandleHasRecord, BeforeRename,
     HandleStates, Persisting
<1>2. ASSUME NEW p \in Procs, CreateFile(p) \/ CreateFill(p) \/ CreateSyncFile(p)
      PROVE  FALSE
  BY <1>2 DEF CreateFile, CreateNew, CreateFill, CreateSyncFile, SyncFile, FileFollowsMem, FieldsOK
<1>3. ASSUME NEW p \in Procs, Calls(p) \/ Failure(p) PROVE FALSE
  BY <1>3 DEF Calls, Failure, Lock, RequireNextLeaf, Drop, SignUnusable, SignRetry, SignExhausted,
     SignAttempt, CallFails, WriteFails, Kill
<1>4. ASSUME NEW p \in Procs,
             \/ DrawKey(p) \/ CreateSyncDir(p) \/ Open(p) \/ OpenTmp(p) \/ WriteTmp(p)
             \/ SyncTmpFile(p) \/ WriteSyncDir(p) \/ Return(p)
      PROVE  FALSE
  BY <1>4 DEF DrawKey, CreateSyncDir, SyncDir, Open, OpenTmp, TruncateTmp, WriteTmp, FillTmp,
     SyncTmpFile, SyncTmp, WriteSyncDir, Return
<1>5. ~PowerLoss /\ ~Flush /\ ~UNCHANGED vars
  BY DEF PowerLoss, Flush, vars
<1> QED
  BY <1>1, <1>2, <1>3, <1>4, <1>5 DEF Next, Progress

\* Whoever signs, fails or dies, the leaf at the path advances one attempt at a time.
THEOREM LeavesInOrder == ASSUME "power" \notin Faults PROVE Spec => LeavesSpentInOrder
<1>1. SignerInv /\ [Next]_vars =>
        [file.data \in Record /\ file'.data # file.data =>
           /\ file'.data \in Record
           /\ file'.data.key = file.data.key
           /\ file'.data.next = file.data.next + 1]_vars
  BY "power" \notin Faults, OrderStep
<1> QED
  BY <1>1, SignerInvariant, PTL DEF Spec, LeavesSpentInOrder

-----------------------------------------------------------------------------
(***************************************************************************)
(* What the records say, under every fault.                                 *)
(***************************************************************************)

\* A handle that goes away.
LEMMA CloseKeepsReproduces ==
  ASSUME SignerInv, HandleReproduces, SignNeverCorrupt,
         NEW p \in Procs, NEW value \in Answers, Close(p, value)
  PROVE  HandleReproduces' /\ SignNeverCorrupt'
BY DEF SignerInv, FieldsOK, HandleReproduces, SignNeverCorrupt, Close, Returns, HandleStates, Persisting

\* The attempt a call starts can be signed again, and is if its salt was accepted.
LEMMA StartReproduces ==
  ASSUME SignerInv, NEW p \in Procs, NEW m \in Messages, Starts(p, m), Valid(mem[p])
  PROVE  /\ mem' = [mem EXCEPT ![p] = mem'[p]]
         /\ Valid(mem'[p])
         /\ result' = [result EXCEPT ![p] = result'[p]]
         /\ result'[p] \in {"Ok", "Unusable"} \cup SamplingErrors
         /\ result'[p] = "Ok" => mem'[p].msg # None
<1> USE Constants DEF SignerInv, FieldsOK
<1>1. mem[p] \in Record /\ mem[p].next \in Nat /\ mem[p].next < LEAVES
  BY DEF Starts, Valid, Record
<1>2. CASE \E s \in AcceptedSalts(mem[p].key, mem[p].next, m) :
             /\ mem' = [mem EXCEPT ![p] = Spent(mem[p], m, s)]
             /\ Returns(p, "Ok")
  <2>1. PICK s \in Salts :
          /\ [key |-> mem[p].key, leaf |-> mem[p].next, msg |-> m, salt |-> s] \in Accepting
          /\ mem' = [mem EXCEPT ![p] = Spent(mem[p], m, s)]
          /\ Returns(p, "Ok")
    BY <1>2 DEF AcceptedSalts
  <2>2. mem'[p] = Spent(mem[p], m, s)
    BY <2>1
  <2>3. SignatureOf(Spent(mem[p], m, s))
          = [key |-> mem[p].key, leaf |-> mem[p].next, msg |-> m, salt |-> s]
    BY <1>1 DEF SignatureOf, Spent
  <2>4. Spent(mem[p], m, s) \in Record
    BY <1>1, SpentIsRecord
  <2>5. Valid(Spent(mem[p], m, s))
    BY <1>1, <2>1, <2>3, <2>4 DEF Valid, Spent
  <2> QED
    BY <2>1, <2>2, <2>5 DEF Returns, Spent
<1>3. CASE \E error \in SamplingErrors \cup {"Unusable"} :
             /\ mem' = [mem EXCEPT ![p] = Spent(mem[p], None, None)]
             /\ Returns(p, error)
  <2>1. mem'[p] = Spent(mem[p], None, None)
    BY <1>3
  <2>2. Spent(mem[p], None, None) \in Record
    BY <1>1, SpentIsRecord
  <2>3. Valid(Spent(mem[p], None, None))
    BY <1>1, <2>2 DEF Valid, Spent
  <2> QED
    BY <1>3, <2>1, <2>3 DEF Returns, SamplingErrors
<1> QED
  BY <1>2, <1>3 DEF Starts

LEMMA StartKeepsReproduces ==
  ASSUME SignerInv, HandleReproduces, SignNeverCorrupt, NEW p \in Procs, NEW m \in Messages, Starts(p, m)
  PROVE  HandleReproduces' /\ SignNeverCorrupt'
<1> USE DEF SignerInv, FieldsOK, HandleReproduces, SignNeverCorrupt, HandleStates, Persisting, SamplingErrors, Goto
<1>1. Valid(mem[p])
  BY DEF Starts
<1>2. /\ mem' = [mem EXCEPT ![p] = mem'[p]]
      /\ Valid(mem'[p])
      /\ result' = [result EXCEPT ![p] = result'[p]]
      /\ result'[p] \in {"Ok", "Unusable"} \cup SamplingErrors
      /\ result'[p] = "Ok" => mem'[p].msg # None
  BY <1>1, StartReproduces
<1> QED
  BY <1>2 DEF Starts

LEMMA ReplyKeepsReproduces ==
  ASSUME SignerInv, HandleReproduces, SignNeverCorrupt, NEW p \in Procs, RepliesOnly(p)
  PROVE  HandleReproduces' /\ SignNeverCorrupt'
BY DEF SignerInv, FieldsOK, HandleReproduces, SignNeverCorrupt, RepliesOnly, Returns, HandleStates, Persisting

\* A record that reproduces a signature releases it.
LEMMA ValidIsReleased ==
  ASSUME result \in [Procs -> Answers], NEW p \in Procs, Valid(mem[p]), mem[p].msg # None,
         Release(p, SignatureOf(mem[p]))
  PROVE  result' = [result EXCEPT ![p] = "Ok"]
BY DEF Valid, Release, Returns

LEMMA ReproducesStep ==
  ASSUME SignerInv, RecordInv, [Next]_vars
  PROVE  HandleReproduces' /\ SignNeverCorrupt'
<1> DEFINE Goal == HandleReproduces' /\ SignNeverCorrupt'
<1> USE Constants DEF SignerInv, FieldsOK, RecordInv, HandleReproduces, SignNeverCorrupt,
      HandleStates, Persisting, SamplingErrors, Goto, Returns
<1>1. ASSUME NEW p \in Procs, NEW op \in {"create", "open"}, Lock(p, op) PROVE Goal
  BY <1>1 DEF Lock
<1>2. ASSUME NEW p \in Procs, NEW minimum \in 0 .. LEAVES + 1, RequireNextLeaf(p, minimum) PROVE Goal
  <2>1. CASE ~UNCHANGED <<lock, mem, failed, pc>>
    BY <1>2, <2>1, CloseKeepsReproduces DEF RequireNextLeaf, Answers, Results
  <2>2. CASE UNCHANGED <<lock, mem, failed, pc>>
    BY <1>2, <2>2 DEF RequireNextLeaf, Close
  <2> QED
    BY <2>1, <2>2
<1>3. ASSUME NEW p \in Procs, Drop(p) PROVE Goal
  BY <1>3, CloseKeepsReproduces DEF Drop, Answers, Results
<1>4. ASSUME NEW p \in Procs, SignUnusable(p) PROVE Goal
  BY <1>4 DEF SignUnusable
<1>5. ASSUME NEW p \in Procs, NEW m \in Messages, SignRetry(p, m) PROVE Goal
  <2>1. Valid(mem[p]) /\ mem[p].msg # None
    BY <1>5 DEF SignRetry
  <2>2. result' = [result EXCEPT ![p] = "Ok"]
    BY <1>5, <2>1, ValidIsReleased DEF SignRetry
  <2> QED
    BY <1>5, <2>2 DEF SignRetry
<1>6. ASSUME NEW p \in Procs, NEW m \in Messages, SignExhausted(p, m) PROVE Goal
  BY <1>6 DEF SignExhausted
<1>7. ASSUME NEW p \in Procs, NEW m \in Messages, SignAttempt(p, m) PROVE Goal
  BY <1>7, AttemptStarts, StartKeepsReproduces
<1>8. ASSUME NEW p \in Procs, CreateFile(p) PROVE Goal
  BY <1>8, CloseKeepsReproduces DEF CreateFile, Answers, Results
<1>9. ASSUME NEW p \in Procs, DrawKey(p) PROVE Goal
  <2>1. CASE pc'[p] = "closed"
    BY <1>9, <2>1, CloseKeepsReproduces DEF DrawKey, Answers, Results
  <2>2. CASE pc'[p] # "closed"
    <3>1. PICK key \in Keys :
            mem' = [mem EXCEPT ![p] = [key |-> key, next |-> 0, msg |-> None, salt |-> None]]
      BY <1>9, <2>2 DEF DrawKey, Close
    <3>2. Valid(mem'[p])
      BY <3>1 DEF Valid, Record
    <3> QED
      BY <1>9, <2>2, <3>1, <3>2 DEF DrawKey, Close
  <2> QED
    BY <2>1, <2>2
<1>10. ASSUME NEW p \in Procs, CreateFill(p) PROVE Goal
  BY <1>10 DEF CreateFill
<1>11. ASSUME NEW p \in Procs, CreateSyncFile(p) PROVE Goal
  BY <1>11 DEF CreateSyncFile
<1>12. ASSUME NEW p \in Procs, CreateSyncDir(p) PROVE Goal
  BY <1>12 DEF CreateSyncDir
<1>13. ASSUME NEW p \in Procs, Open(p) PROVE Goal
  <2>1. CASE Valid(file.data)
    BY <1>13, <2>1 DEF Open
  <2>2. CASE ~Valid(file.data)
    BY <1>13, <2>2, CloseKeepsReproduces DEF Open, Answers, Results
  <2> QED
    BY <2>1, <2>2
<1>14. ASSUME NEW p \in Procs, OpenTmp(p) PROVE Goal
  BY <1>14 DEF OpenTmp
<1>15. ASSUME NEW p \in Procs, WriteTmp(p) PROVE Goal
  BY <1>15 DEF WriteTmp
<1>16. ASSUME NEW p \in Procs, SyncTmpFile(p) PROVE Goal
  BY <1>16 DEF SyncTmpFile
<1>17. ASSUME NEW p \in Procs, Rename(p) PROVE Goal
  BY <1>17 DEF Rename
<1>18. ASSUME NEW p \in Procs, WriteSyncDir(p) PROVE Goal
  BY <1>18 DEF WriteSyncDir
<1>19. ASSUME NEW p \in Procs, Return(p) PROVE Goal
  <2>1. CASE result[p] = "Ok"
    <3>1. result' = [result EXCEPT ![p] = "Ok"]
      BY <1>19, <2>1, ValidIsReleased DEF Return
    <3> QED
      BY <1>19, <3>1 DEF Return
  <2>2. CASE result[p] # "Ok"
    BY <1>19, <2>2 DEF Return
  <2> QED
    BY <2>1, <2>2
<1>20. ASSUME NEW p \in Procs, CallFails(p) PROVE Goal
  BY <1>20, CloseKeepsReproduces DEF CallFails, Answers, Results
<1>21. ASSUME NEW p \in Procs, WriteFails(p) PROVE Goal
  BY <1>21 DEF WriteFails
<1>22. ASSUME NEW p \in Procs, Kill(p) PROVE Goal
  BY <1>22, CloseKeepsReproduces DEF Kill, Answers, Results
<1>23. ASSUME PowerLoss PROVE Goal
  BY <1>23 DEF PowerLoss
<1>24. ASSUME Flush \/ UNCHANGED vars PROVE Goal
  BY <1>24 DEF Flush, vars, procVars
<1> HIDE DEF Goal
<1>25. ASSUME NEW p \in Procs, Calls(p) PROVE Goal
  BY <1>1, <1>2, <1>3, <1>4, <1>5, <1>6, <1>7, <1>25 DEF Calls
<1>26. ASSUME NEW p \in Procs, Progress(p) PROVE Goal
  BY <1>8, <1>9, <1>10, <1>11, <1>12, <1>13, <1>14, <1>15, <1>16, <1>17, <1>18, <1>19, <1>26 DEF Progress
<1>27. ASSUME NEW p \in Procs, Failure(p) PROVE Goal
  BY <1>20, <1>21, <1>22, <1>27 DEF Failure
<1>28. Goal
  BY <1>23, <1>24, <1>25, <1>26, <1>27 DEF Next
<1> QED
  BY <1>28 DEF Goal

\* What may survive a power loss changes as if one signer used the path.
LEMMA SurvivorsStep ==
  ASSUME SignerInv, RecordInv, [Next]_vars
  PROVE  /\ SurvivorsAgree'
         /\ stable \cap stable' # {}
         /\ stable \subseteq Record => stable' \subseteq Record
<1> DEFINE Goal == /\ SurvivorsAgree'
                   /\ stable \cap stable' # {}
                   /\ stable \subseteq Record => stable' \subseteq Record
<1> USE Constants DEF RecordInv, SurvivorsAgree
<1>1. ASSUME UNCHANGED fileVars PROVE Goal
  BY <1>1 DEF fileVars
<1>2. ASSUME NEW p \in Procs, CreateFile(p) PROVE Goal
  <2>1. CASE file.data # Absent
    BY <1>1, <1>2, <2>1 DEF CreateFile, CreateNew
  <2>2. CASE file.data = Absent
    <3>1. file'.data = Partial /\ stable' = stable \cup {Partial}
      BY <1>2, <2>2 DEF CreateFile, CreateNew, Unsynced
    <3> QED
      BY <2>2, <3>1
  <2> QED
    BY <2>1, <2>2
<1>3. ASSUME NEW p \in Procs, CreateFill(p) PROVE Goal
  <2>1. file.data = Partial /\ Valid(mem[p]) /\ mem[p] \in Record
    BY <1>3 DEF CreateFill, Goto, SignerInv, FileFollowsMem, HandleReproduces, HandleStates, Valid
  <2>2. file'.data = mem[p] /\ stable' = stable \cup {mem[p], Partial}
    BY <1>3 DEF CreateFill, Fill, Unsynced
  <2>3. stable' \cap Record = {mem[p]}
    BY <2>1, <2>2
  <2>4. mem[p].next \in Nat
    BY <2>1 DEF Record
  <2> QED
    BY <2>1, <2>2, <2>3, <2>4
<1>4. ASSUME NEW p \in Procs, CreateSyncFile(p) PROVE Goal
  <2>1. file'.data = file.data /\ stable' = (stable \ {Partial}) \cup {file.data}
    BY <1>4 DEF CreateSyncFile, SyncFile, SignerInv, FieldsOK
  <2> QED
    BY <2>1
<1>5. ASSUME NEW p \in Procs, CreateSyncDir(p) \/ WriteSyncDir(p) PROVE Goal
  <2>1. file.synced
    BY <1>5 DEF CreateSyncDir, WriteSyncDir, Goto, SignerInv, FileFollowsMem
  <2>2. file'.data = file.data /\ stable' = {file.data}
    BY <1>5, <2>1 DEF CreateSyncDir, WriteSyncDir, SyncDir, Survivors
  <2> QED
    BY <2>2
<1>6. ASSUME NEW p \in Procs, Rename(p) PROVE Goal
  <2>1. /\ tmp.data = mem[p] /\ tmp.synced
        /\ Valid(mem[p]) /\ mem[p] \in Record
        /\ file.data \in Record /\ mem[p].key = file.data.key
    BY <1>6 DEF Rename, Goto, SignerInv, TmpFollowsMem, FileFollowsMem, HandleReproduces, HandleStates,
       BeforeRename, Persisting, Valid
  <2>2. file'.data = mem[p] /\ stable' = stable \cup {mem[p]}
    BY <1>6, <2>1 DEF Rename, RenameTmp, Survivors
  <2>3. mem[p].next \in Nat
    BY <2>1 DEF Record
  <2>4. mem[p].next = file.data.next + 1
    BY <1>6 DEF Rename, Goto, SignerInv, FileFollowsMem, BeforeRename
  <2>5. \A c \in stable \cap Record :
          c.next \in Nat /\ c.next < mem[p].next /\ c.key = mem[p].key /\ Valid(c)
    BY <2>1, <2>4 DEF Record
  <2>6. stable' \cap Record = (stable \cap Record) \cup {mem[p]}
    BY <2>1, <2>2
  <2>7. \A c, d \in stable' \cap Record : c.key = d.key /\ (c.next = d.next => c = d)
    BY <2>3, <2>5, <2>6
  <2>8. \A c \in stable' \cap Record : Valid(c) /\ file'.data \in Record /\ c.next <= file'.data.next
    BY <2>1, <2>2, <2>3, <2>5, <2>6
  <2> QED
    BY <2>1, <2>2, <2>7, <2>8
<1>7. ASSUME PowerLoss PROVE Goal
  <2>1. PICK content \in stable : file'.data = content /\ stable' = {content}
    BY <1>7 DEF PowerLoss, FilePowerLoss
  <2>2. content \in Record => content.next \in Nat
    BY DEF Record
  <2> QED
    BY <2>1, <2>2
<1>8. ASSUME Flush PROVE Goal
  <2>1. file'.data = file.data /\ stable' = {file.data}
    BY <1>8 DEF Flush, Writeback, SignerInv, FieldsOK
  <2> QED
    BY <2>1
<1>9. ASSUME NEW p \in Procs, Calls(p) \/ Failure(p) PROVE Goal
  <2>1. UNCHANGED fileVars
    BY <1>9 DEF Calls, Lock, RequireNextLeaf, Drop, SignUnusable, SignRetry, SignExhausted,
       SignAttempt, Failure, CallFails, WriteFails, Kill
  <2> QED
    BY <1>1, <2>1
<1>10. ASSUME NEW p \in Procs, DrawKey(p) \/ Open(p) \/ Return(p) PROVE Goal
  <2>1. UNCHANGED fileVars
    BY <1>10 DEF DrawKey, Open, Return
  <2> QED
    BY <1>1, <2>1
<1>11. ASSUME NEW p \in Procs, OpenTmp(p) \/ WriteTmp(p) \/ SyncTmpFile(p) PROVE Goal
  BY <1>11 DEF OpenTmp, TruncateTmp, WriteTmp, FillTmp, SyncTmpFile, SyncTmp
<1>12. ASSUME UNCHANGED vars PROVE Goal
  BY <1>1, <1>12 DEF vars, fileVars
<1> HIDE DEF Goal
<1>13. ASSUME NEW p \in Procs, Progress(p) PROVE Goal
  BY <1>2, <1>3, <1>4, <1>5, <1>6, <1>10, <1>11, <1>13 DEF Progress
<1>14. Goal
  BY <1>7, <1>8, <1>9, <1>12, <1>13 DEF Next
<1> QED
  BY <1>14 DEF Goal

LEMMA RecordInit == Init => RecordInv
BY Constants DEF Init, FileInit, NoFile, RecordInv, HandleReproduces, SurvivorsAgree, SignNeverCorrupt,
   HandleStates, Persisting

\* Every record, in memory or surviving, is a valid one of the one key at the path.
THEOREM RecordInvariant == Spec => []RecordInv
<1>1. SignerInv /\ RecordInv /\ [Next]_vars => RecordInv'
  BY ReproducesStep, SurvivorsStep DEF RecordInv
<1> QED
  BY <1>1, RecordInit, SignerInvariant, PTL DEF Spec

\* src/signer.rs:261,280: sign never finds its own record `Corrupt`, after any sequence
\* of failed samplings, failed writes, kills, power losses and reopenings.
THEOREM NeverCorrupt == Spec => []SignNeverCorrupt
<1>1. RecordInv => SignNeverCorrupt
  BY DEF RecordInv
<1> QED
  BY <1>1, RecordInvariant, PTL

\* src/signer.rs, write: once a power loss is sure to find a record it always finds one
\* that open takes, of the same key.
THEOREM NeverTorn == Spec => RecordNeverTorn
<1>1. SignerInv /\ RecordInv /\ RecordInv' /\ [Next]_vars =>
        [stable \subseteq Record =>
           \A c \in stable' : /\ Valid(c)
                              /\ \A r \in stable : c.key = r.key]_vars
  <2> SUFFICES ASSUME SignerInv, RecordInv, RecordInv', [Next]_vars, stable \subseteq Record,
                      NEW c \in stable'
               PROVE  Valid(c) /\ \A r \in stable : c.key = r.key
    OBVIOUS
  <2>1. stable' \subseteq Record /\ stable \cap stable' # {}
    BY SurvivorsStep
  <2> QED
    BY <2>1 DEF RecordInv, SurvivorsAgree
<1> QED
  BY <1>1, RecordInvariant, SignerInvariant, PTL DEF Spec, RecordNeverTorn
-----------------------------------------------------------------------------
(* The oldest of the contents that may survive *)

LEMMA OldestOfOne == ASSUME NEW r \in Record PROVE Oldest({r}) = r
<1>1. r.next \in Nat
  BY DEF Record
<1> QED
  BY <1>1 DEF Oldest

LEMMA OldestIsNone ==
  ASSUME NEW contents, NEW c \in contents, c \notin Record PROVE Oldest(contents) = None
BY DEF Oldest

\* The record behind all the others.
LEMMA OldestIsLeast ==
  ASSUME NEW contents \in SUBSET Record, NEW r \in contents,
         \A q \in contents \ {r} : r.next < q.next
  PROVE  Oldest(contents) = r
<1>1. \A q \in contents : q.next \in Nat
  BY DEF Record
<1>2. \A q \in contents : r.next <= q.next
  BY <1>1
<1>3. \A o \in contents : (\A q \in contents : o.next <= q.next) => o = r
  BY <1>1
<1> QED
  BY <1>2, <1>3 DEF Oldest

-----------------------------------------------------------------------------
(* What the abstract state may do *)

\* From none to a key's first record, or one attempt on.
Advances(old, new) ==
  \/ new = old
  \/ old = None /\ new \in Record /\ Valid(new) /\ new.next = 0
  \/ /\ old \in Record /\ new \in Record
     /\ new.key = old.key
     /\ new.next = old.next + 1
     /\ Valid(new)

\* Such a change is a step of Definition8.
LEMMA AdvanceIsAStep ==
  ASSUME Advances(Committed, Committed'), UNCHANGED released
  PROVE  Abstract!Next \/ UNCHANGED Abstract!vars
<1> USE Constants
<1> DEFINE old == Committed  new == Committed'
<1>1. CASE new = old
  BY <1>1 DEF Abstract!vars
<1>2. CASE old = None /\ new \in Record /\ Valid(new) /\ new.next = 0
  <2>1. new.key \in Keys /\ new.msg = None /\ new.salt = None
    BY <1>2 DEF Valid, Record
  <2>2. new = [key |-> new.key, next |-> 0, msg |-> None, salt |-> None]
    BY <1>2, <2>1 DEF Record
  <2>3. Abstract!Generate
    BY <1>2, <2>1, <2>2 DEF Abstract!Generate
  <2> QED
    BY <2>3 DEF Abstract!Next
<1>3. CASE /\ old \in Record /\ new \in Record
           /\ new.key = old.key
           /\ new.next = old.next + 1
           /\ Valid(new)
  <2>1. old # None /\ old.next \in Nat /\ old.next < LEAVES
    BY <1>3 DEF Valid, Record
  <2>2. new = [key |-> old.key, next |-> old.next + 1, msg |-> new.msg, salt |-> new.salt]
    BY <1>3 DEF Record
  <2>3. CASE new.msg = None
    <3>1. new.salt = None
      BY <1>3, <2>3 DEF Valid
    <3>2. Abstract!Attempt(None, None)
      BY <2>1, <2>2, <2>3, <3>1 DEF Abstract!Attempt
    <3> QED
      BY <3>2 DEF Abstract!Next
  <2>4. CASE new.msg # None
    <3>1. new.msg \in Messages
      BY <1>3, <2>4 DEF Record
    <3>2. SignatureOf(new) \in Signature
      BY <1>3, <2>4 DEF Valid
    <3>3. SignatureOf(new).salt = new.salt
      BY DEF SignatureOf
    <3>4. new.salt \in Salts
      BY <3>2, <3>3 DEF Signature
    <3>5. Abstract!Attempt(new.msg, new.salt)
      BY <2>1, <2>2 DEF Abstract!Attempt
    <3> QED
      BY <3>1, <3>4, <3>5 DEF Abstract!Next
  <2> QED
    BY <2>3, <2>4
<1> QED
  BY <1>1, <1>2, <1>3 DEF Advances

\* A signature of the record the abstract state is at may leave.
LEMMA ReleaseIsAStep ==
  ASSUME NEW p \in Procs, Release(p, SignatureOf(Committed)), Committed \in Record,
         UNCHANGED Committed
  PROVE  Abstract!Next \/ UNCHANGED Abstract!vars
<1> USE Constants
<1>1. CASE SignatureOf(Committed) \in Accepting
  <2>1. released' = released \cup {SignatureOf(Committed)}
    BY <1>1 DEF Release
  <2>2. Abstract!Recorded = SignatureOf(Committed)
    BY DEF Abstract!Recorded, SignatureOf
  <2>3. Abstract!Expose
    BY <1>1, <2>1, <2>2 DEF Abstract!Expose
  <2> QED
    BY <2>3 DEF Abstract!Next
<1>2. CASE SignatureOf(Committed) \notin Accepting
  <2>1. UNCHANGED released
    BY <1>2 DEF Release
  <2> QED
    BY <2>1 DEF Abstract!vars
<1> QED
  BY <1>1, <1>2

-----------------------------------------------------------------------------
(* What each step does to it *)

Inv == SignerInv /\ LeafInv /\ RecordInv

\* The contents shrink to one that may survive: a directory sync, a power loss or the
\* kernel's writeback.  Its record is the abstract state, or the next.
LEMMA ShrinkAdvances ==
  ASSUME NotBoth, Inv, NEW c \in Survivable
  PROVE  Advances(Committed, Oldest({c}))
<1> USE Constants DEF Inv, SignerInv, LeafInv, RecordInv
<1>1. Survivable \subseteq stable /\ file.data \in Survivable
  BY DEF FaultsAsAssumed, Survivable
<1>2. CASE c \notin Record
  <2>1. Oldest({c}) = None /\ Committed = None
    BY <1>2, OldestIsNone DEF Committed
  <2> QED
    BY <2>1 DEF Advances
<1>3. CASE Survivable = {c}
  BY <1>3 DEF Advances, Committed
<1>4. CASE c \in Record /\ Survivable # {c}
  <2>1. Oldest({c}) = c
    BY <1>4, OldestOfOne
  <2>2. Valid(c)
    BY <1>1, <1>4 DEF SurvivorsAgree
  <2>3. PICK p \in Procs : pc[p] \notin {"closed", "create", "open"}
    BY <1>1, <1>4 DEF Settled
  <2>4. CASE pc[p] \in {"sync_file", "sync_new_dir"}
    <3>1. Survivable \cap Record = {c} /\ c = mem[p] /\ c.next = 0
      BY <1>4, <2>4 DEF Lag, HandleReproduces
    <3>2. PICK d \in Survivable : d \notin Record
      BY <1>4, <3>1
    <3>3. Committed = None
      BY <3>2, OldestIsNone DEF Committed
    <3> QED
      BY <1>4, <2>1, <2>2, <3>1, <3>3 DEF Advances
  <2>5. CASE pc[p] = "sync_dir"
    <3>1. mem[p] \in Survivable /\ mem[p] \in Record /\ mem[p].next \in Nat
      BY <1>1, <2>5 DEF FileFollowsMem, HandleHasRecord, HandleStates, Persisting, Record
    <3>2. \A d \in Survivable \ {mem[p]} :
            d \in Record /\ d.key = mem[p].key /\ d.next + 1 = mem[p].next /\ d.next \in Nat
      BY <2>5 DEF Lag, Record
    <3>3. PICK d \in Survivable : d # mem[p]
      BY <1>4, <3>1
    <3>4. Survivable = {d, mem[p]}
      BY <1>1, <3>1, <3>2, <3>3 DEF SurvivorsAgree
    <3>5. Survivable \in SUBSET Record /\ \A q \in Survivable \ {d} : d.next < q.next
      BY <3>1, <3>2, <3>3, <3>4
    <3>6. Committed = d
      BY <3>5, OldestIsLeast DEF Committed
    <3>7. c = d \/ c = mem[p]
      BY <3>4
    <3> QED
      BY <1>4, <2>1, <2>2, <3>2, <3>3, <3>6, <3>7 DEF Advances
  <2>6. CASE pc[p] \in {"draw_key", "fill"}
    BY <1>4, <2>6 DEF Lag
  <2>7. CASE pc[p] \in BeforeRename \/ (pc[p] = "ready" /\ ~failed[p])
    BY <1>4, <2>7 DEF Lag
  <2>8. CASE pc[p] = "ready" /\ failed[p]
    <3>1. "power" \notin Faults
      BY NotBoth, <2>8 DEF NotBoth, FaultsAsAssumed
    <3> QED
      BY <1>4, <3>1 DEF Survivable
  <2>9. CASE pc[p] = "return"
    <3>1. stable = {mem[p]}
      BY <2>9 DEF FileFollowsMem
    <3> QED
      BY <1>1, <1>4, <3>1
  <2> QED
    BY <2>3, <2>4, <2>5, <2>6, <2>7, <2>8, <2>9 DEF FieldsOK, PCs, Persisting, BeforeRename
<1> QED
  BY <1>2, <1>3, <1>4

LEMMA RefinementStep ==
  ASSUME NotBoth, Inv, [Next]_vars
  PROVE  Abstract!Next \/ UNCHANGED Abstract!vars
<1> DEFINE Goal == Abstract!Next \/ UNCHANGED Abstract!vars
<1> USE Constants DEF Inv, SignerInv, LeafInv, RecordInv
<1>1. Survivable \subseteq stable /\ file.data \in Survivable
  BY DEF FaultsAsAssumed, Survivable
<1>2. ASSUME Survivable' = Survivable, UNCHANGED released PROVE Goal
  BY <1>2 DEF Committed, Abstract!vars
<1>3. ASSUME NEW c \in Survivable, Survivable' = {c}, UNCHANGED released PROVE Goal
  <2>1. Committed' = Oldest({c})
    BY <1>3 DEF Committed
  <2>2. Advances(Committed, Oldest({c}))
    BY NotBoth, ShrinkAdvances
  <2> QED
    BY <1>3, <2>1, <2>2, AdvanceIsAStep
<1>4. ASSUME UNCHANGED <<fileVars, released>> PROVE Goal
  BY <1>2, <1>4 DEF Survivable, fileVars
<1>5. ASSUME NEW p \in Procs, (pc[p] = "ready" /\ ~failed[p]) \/ pc[p] = "return",
             Release(p, SignatureOf(mem[p])), UNCHANGED fileVars
      PROVE  Goal
  <2>1. mem[p] \in Record
    BY <1>5 DEF HandleHasRecord, HandleStates
  <2>2. Survivable = {mem[p]}
    BY <1>1, <1>5 DEF FileFollowsMem, Lag
  <2>3. Committed = mem[p]
    BY <2>1, <2>2, OldestOfOne DEF Committed
  <2>4. UNCHANGED Committed
    BY <1>5 DEF Committed, Survivable, fileVars
  <2> QED
    BY <1>5, <2>1, <2>3, <2>4, ReleaseIsAStep
<1>6. ASSUME NEW p \in Procs, CreateFile(p) PROVE Goal
  <2>1. CASE file.data # Absent
    BY <1>4, <1>6, <2>1 DEF CreateFile, CreateNew
  <2>2. CASE file.data = Absent
    <3>1. file'.data = Partial /\ stable' = stable \cup {Partial} /\ UNCHANGED released
      BY <1>6, <2>2 DEF CreateFile, CreateNew, Unsynced
    <3>2. Partial \in Survivable'
      BY <3>1 DEF Survivable
    <3>3. Committed = None /\ Committed' = None
      BY <1>1, <2>2, <3>2, OldestIsNone DEF Committed
    <3> QED
      BY <3>1, <3>3 DEF Abstract!vars
  <2> QED
    BY <2>1, <2>2
<1>7. ASSUME NEW p \in Procs, CreateFill(p) PROVE Goal
  <2>1. /\ file.data = Partial
        /\ mem[p] \in Record /\ Valid(mem[p]) /\ mem[p].next = 0
    BY <1>7 DEF CreateFill, Goto, FileFollowsMem, HandleHasRecord, HandleStates, HandleReproduces
  <2>2. file'.data = mem[p] /\ stable' = stable \cup {mem[p], Partial} /\ UNCHANGED released
    BY <1>7 DEF CreateFill, Fill, Unsynced
  <2>3. Committed = None
    BY <1>1, <2>1, OldestIsNone DEF Committed
  <2>4. CASE "power" \in Faults
    <3>1. Partial \in Survivable'
      BY <2>2, <2>4 DEF Survivable
    <3>2. Committed' = None
      BY <3>1, OldestIsNone DEF Committed
    <3> QED
      BY <2>2, <2>3, <3>2 DEF Abstract!vars
  <2>5. CASE "power" \notin Faults
    <3>1. Survivable' = {mem[p]}
      BY <2>2, <2>5 DEF Survivable
    <3>2. Committed' = mem[p]
      BY <2>1, <3>1, OldestOfOne DEF Committed
    <3>3. Advances(Committed, Committed')
      BY <2>1, <2>3, <3>2 DEF Advances
    <3> QED
      BY <2>2, <3>3, AdvanceIsAStep
  <2> QED
    BY <2>4, <2>5
<1>8. ASSUME NEW p \in Procs, CreateSyncFile(p) PROVE Goal
  <2>1. /\ file'.data = file.data
        /\ stable' = (stable \ {Partial}) \cup {file.data}
        /\ UNCHANGED released
    BY <1>8 DEF CreateSyncFile, SyncFile, FieldsOK
  <2>2. mem[p] \in Record /\ file.data = mem[p] /\ Survivable \cap Record \subseteq {mem[p]}
    BY <1>8 DEF CreateSyncFile, Goto, FileFollowsMem, HandleHasRecord, HandleStates, Lag
  <2>3. CASE "power" \notin Faults \/ Partial \notin stable
    <3>1. Survivable' = Survivable
      BY <1>1, <2>1, <2>3 DEF Survivable, FaultsAsAssumed
    <3> QED
      BY <1>2, <2>1, <3>1
  <2>4. CASE "power" \in Faults /\ Absent \in stable
    <3>1. Absent \in Survivable /\ Absent \in Survivable'
      BY <2>1, <2>4 DEF Survivable
    <3>2. Committed = None /\ Committed' = None
      BY <3>1, OldestIsNone DEF Committed
    <3> QED
      BY <2>1, <3>2 DEF Abstract!vars
  <2>5. CASE "power" \in Faults /\ Absent \notin stable
    <3>1. Survivable' = {mem[p]} /\ mem[p] \in Survivable
      BY <1>1, <2>1, <2>2, <2>5 DEF Survivable, FieldsOK
    <3> QED
      BY <1>3, <2>1, <3>1
  <2> QED
    BY <2>3, <2>4, <2>5
<1>9. ASSUME NEW p \in Procs, CreateSyncDir(p) \/ WriteSyncDir(p) PROVE Goal
  <2>1. file.synced
    BY <1>9 DEF CreateSyncDir, WriteSyncDir, Goto, FileFollowsMem
  <2>2. file' = file /\ stable' = {file.data} /\ UNCHANGED released
    BY <1>9, <2>1 DEF CreateSyncDir, WriteSyncDir, SyncDir, Survivors
  <2>3. Survivable' = {file.data}
    BY <2>2 DEF Survivable
  <2> QED
    BY <1>1, <1>3, <2>2, <2>3
<1>10. ASSUME NEW p \in Procs, Rename(p) PROVE Goal
  <2>1. /\ tmp.data = mem[p] /\ tmp.synced
        /\ Valid(mem[p]) /\ mem[p] \in Record
        /\ file.data \in Record
        /\ mem[p].key = file.data.key /\ mem[p].next = file.data.next + 1
        /\ Survivable = {file.data}
    BY <1>10 DEF Rename, Goto, TmpFollowsMem, FileFollowsMem, HandleHasRecord, HandleReproduces,
       HandleStates, BeforeRename, Persisting, Lag
  <2>2. file'.data = mem[p] /\ stable' = stable \cup {mem[p]} /\ UNCHANGED released
    BY <1>10, <2>1 DEF Rename, RenameTmp, Survivors
  <2>3. Committed = file.data
    BY <2>1, OldestOfOne DEF Committed
  <2>4. CASE "power" \notin Faults
    <3>1. Survivable' = {mem[p]}
      BY <2>2, <2>4 DEF Survivable
    <3>2. Committed' = mem[p]
      BY <2>1, <3>1, OldestOfOne DEF Committed
    <3>3. Advances(Committed, Committed')
      BY <2>1, <2>3, <3>2 DEF Advances
    <3> QED
      BY <2>2, <3>3, AdvanceIsAStep
  <2>5. CASE "power" \in Faults
    <3>1. Survivable' = {file.data, mem[p]}
      BY <2>1, <2>2, <2>5 DEF Survivable
    <3>2. file.data.next < mem[p].next
      BY <2>1 DEF Record
    <3>3. Committed' = file.data
      BY <2>1, <3>1, <3>2, OldestIsLeast DEF Committed
    <3> QED
      BY <2>2, <2>3, <3>3 DEF Abstract!vars
  <2> QED
    BY <2>4, <2>5
<1>11. ASSUME PowerLoss PROVE Goal
  <2>1. "power" \in Faults /\ UNCHANGED released
    BY <1>11 DEF PowerLoss
  <2>2. PICK c \in stable : stable' = {c}
    BY <1>11 DEF PowerLoss, FilePowerLoss
  <2>3. c \in Survivable /\ Survivable' = {c}
    BY <2>1, <2>2 DEF Survivable
  <2> QED
    BY <1>3, <2>1, <2>3
<1>12. ASSUME Flush PROVE Goal
  <2>1. Survivable' = {file.data} /\ UNCHANGED released
    BY <1>12 DEF Flush, Writeback, Survivable
  <2> QED
    BY <1>1, <1>3, <2>1
<1>13. ASSUME NEW p \in Procs, NEW m \in Messages, SignRetry(p, m) PROVE Goal
  BY <1>5, <1>13 DEF SignRetry
<1>14. ASSUME NEW p \in Procs, Return(p) PROVE Goal
  <2>1. CASE result[p] = "Ok"
    BY <1>5, <1>14, <2>1 DEF Return, Goto
  <2>2. CASE result[p] # "Ok"
    BY <1>4, <1>14, <2>2 DEF Return
  <2> QED
    BY <2>1, <2>2
<1>15. ASSUME NEW p \in Procs, Calls(p) PROVE Goal
  <2>1. CASE \E m \in Messages : SignRetry(p, m)
    BY <1>13, <2>1
  <2>2. CASE ~\E m \in Messages : SignRetry(p, m)
    <3>1. UNCHANGED <<fileVars, released>>
      BY <1>15, <2>2 DEF Calls, Lock, RequireNextLeaf, Drop, SignUnusable, SignExhausted, SignAttempt
    <3> QED
      BY <1>4, <3>1
  <2> QED
    BY <2>1, <2>2
<1>16. ASSUME NEW p \in Procs, DrawKey(p) \/ Open(p) \/ Failure(p) PROVE Goal
  <2>1. UNCHANGED <<fileVars, released>>
    BY <1>16 DEF DrawKey, Open, Failure, CallFails, WriteFails, Kill
  <2> QED
    BY <1>4, <2>1
<1>17. ASSUME NEW p \in Procs, OpenTmp(p) \/ WriteTmp(p) \/ SyncTmpFile(p) PROVE Goal
  <2>1. UNCHANGED <<file, stable, released>>
    BY <1>17 DEF OpenTmp, TruncateTmp, WriteTmp, FillTmp, SyncTmpFile, SyncTmp
  <2> QED
    BY <1>2, <2>1 DEF Survivable
<1>18. ASSUME UNCHANGED vars PROVE Goal
  BY <1>4, <1>18 DEF vars, fileVars
<1> HIDE DEF Goal, Inv
<1>19. ASSUME NEW p \in Procs, Progress(p) PROVE Goal
  BY <1>6, <1>7, <1>8, <1>9, <1>10, <1>14, <1>16, <1>17, <1>19 DEF Progress
<1>20. Goal
  BY <1>11, <1>12, <1>15, <1>16, <1>18, <1>19 DEF Next
<1> QED
  BY <1>20 DEF Goal

LEMMA RefinementInit == Init => Abstract!Init
<1> SUFFICES ASSUME Init PROVE Abstract!Init
  OBVIOUS
<1>1. Absent \in Survivable
  BY DEF Init, FileInit, NoFile, Survivable
<1>2. Committed = None
  BY <1>1, OldestIsNone, Constants DEF Committed
<1> QED
  BY <1>2 DEF Init, Abstract!Init

\* src/signer.rs:1-2, 115, 269-270: any number of signers on one path, with processes
\* that die and calls that fail, or with power losses, are one Definition 8 state.
THEOREM SignersAreDefinition8 == ASSUME NotBoth PROVE Spec => ImplementsDefinition8
<1>1. SignerInv /\ LeafInv /\ RecordInv /\ [Next]_vars => [Abstract!Next]_(Abstract!vars)
  BY NotBoth, RefinementStep DEF Inv
<1> QED
  BY <1>1, RefinementInit, SignerInvariant, LeafInvariant, RecordInvariant, NotBoth, PTL
     DEF Spec, ImplementsDefinition8, Abstract!Spec

-----------------------------------------------------------------------------
(* What Definition8 promises by itself *)

\* The signature of a record's attempt, Definition8's Recorded.
SignatureOfAttempt(c) == [key |-> c.key, leaf |-> c.next - 1, msg |-> c.msg, salt |-> c.salt]

\* All that has left is of the key on record and of leaves that are spent, and what is
\* of the last one is the signature of the attempt on record.
SpentBefore(c, out) ==
  /\ out \subseteq Signature
  /\ c \in Record \cup {None}
  /\ c = None => out = {}
  /\ c # None => \A s \in out :
       /\ s.key = c.key
       /\ s.leaf < c.next
       /\ s.leaf = c.next - 1 => s = SignatureOfAttempt(c)

Definition8Inv == SpentBefore(Committed, released) /\ Abstract!OneSignaturePerLeaf

LEMMA Definition8Init == Abstract!Init => Definition8Inv
BY Constants DEF Abstract!Init, Definition8Inv, SpentBefore, Abstract!OneSignaturePerLeaf

LEMMA Definition8Step == Definition8Inv /\ [Abstract!Next]_(Abstract!vars) => Definition8Inv'
<1> SUFFICES ASSUME Definition8Inv, [Abstract!Next]_(Abstract!vars) PROVE Definition8Inv'
  OBVIOUS
<1>1. PICK c, d : c = Committed /\ d = Committed'
  OBVIOUS
<1>2. SpentBefore(c, released) /\ Abstract!OneSignaturePerLeaf
  BY <1>1 DEF Definition8Inv
<1>3. None \notin Record
  BY Constants
<1>4. ASSUME d = c, UNCHANGED released PROVE Definition8Inv'
  BY <1>1, <1>2, <1>4 DEF Definition8Inv, Abstract!OneSignaturePerLeaf
<1>5. ASSUME c = None, NEW k \in Keys, d = [key |-> k, next |-> 0, msg |-> None, salt |-> None],
             UNCHANGED released
      PROVE  Definition8Inv'
  <2>1. d \in Record /\ released = {}
    BY <1>2, <1>5 DEF SpentBefore, Record
  <2> QED
    BY <1>1, <1>3, <1>5, <2>1 DEF Definition8Inv, SpentBefore, Abstract!OneSignaturePerLeaf
<1>6. ASSUME c # None, NEW m \in Messages \cup {None}, NEW s \in Salts \cup {None},
             d = [key |-> c.key, next |-> c.next + 1, msg |-> m, salt |-> s], UNCHANGED released
      PROVE  Definition8Inv'
  <2>1. d \in Record /\ d # None /\ c.next \in Nat /\ d.key = c.key /\ d.next = c.next + 1
    BY <1>2, <1>3, <1>6 DEF SpentBefore, Record
  <2>2. ASSUME NEW t \in released
        PROVE  t.key = d.key /\ t.leaf < d.next /\ t.leaf # d.next - 1
    <3>1. t.key = c.key /\ t.leaf < c.next /\ t.leaf \in Nat
      BY <1>2, <1>6, <2>2 DEF SpentBefore, Signature
    <3> QED
      BY <2>1, <3>1
  <2>3. released \subseteq Signature
    BY <1>2 DEF SpentBefore
  <2>4. SpentBefore(d, released)
    BY <2>1, <2>2, <2>3 DEF SpentBefore
  <2> QED
    BY <1>1, <1>2, <1>6, <2>4 DEF Definition8Inv, Abstract!OneSignaturePerLeaf
<1>7. ASSUME c # None, SignatureOfAttempt(c) \in Accepting, d = c,
             released' = released \cup {SignatureOfAttempt(c)}
      PROVE  Definition8Inv'
  <2> DEFINE r == SignatureOfAttempt(c)
  <2>1. r \in Signature /\ r.key = c.key /\ r.leaf = c.next - 1 /\ c.next \in Nat
    BY <1>2, <1>7, Constants DEF SpentBefore, SignatureOfAttempt, Record
  <2> HIDE DEF r
  <2>2. \A s \in released : s.key = c.key /\ s.leaf < c.next /\ (s.leaf = c.next - 1 => s = r)
    BY <1>2, <1>7 DEF SpentBefore, r
  <2>3. SpentBefore(c, released \cup {r})
    <3>1. released \subseteq Signature /\ c \in Record \cup {None}
      BY <1>2 DEF SpentBefore
    <3>2. r.leaf < c.next
      BY <2>1
    <3> QED
      BY <1>7, <2>1, <2>2, <3>1, <3>2 DEF SpentBefore, r
  <2>4. \A s, t \in released \cup {r} : s.key = t.key /\ s.leaf = t.leaf => s = t
    BY <1>2, <2>1, <2>2, Zenon DEF Abstract!OneSignaturePerLeaf
  <2> QED
    BY <1>1, <1>7, <2>3, <2>4 DEF r, Definition8Inv, Abstract!OneSignaturePerLeaf
<1> QED
  BY <1>1, <1>4, <1>5, <1>6, <1>7
     DEF Abstract!Next, Abstract!vars, Abstract!Generate, Abstract!Attempt, Abstract!Expose,
         Abstract!Recorded, SignatureOfAttempt

\* Definition8 itself spends each leaf on one signature: whatever implements it does.
THEOREM Definition8OneSignature == Abstract!Spec => []Abstract!OneSignaturePerLeaf
<1>1. Definition8Inv => Abstract!OneSignaturePerLeaf
  BY DEF Definition8Inv
<1> QED
  BY <1>1, Definition8Init, Definition8Step, PTL DEF Abstract!Spec
=============================================================================
