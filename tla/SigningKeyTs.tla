----------------------------- MODULE SigningKeyTs -----------------------------
(***************************************************************************)
(* The TypeScript signer, packages/winternitz/src/signing-key.ts, on one      *)
(* path with Rust signers.  It makes the same system calls, so its steps are  *)
(* those of SigningKey except where it differs: the random source is the      *)
(* caller's code and may call the same signer, a failed write closes the       *)
(* signer and gives the lock back, and a closed signer is still an object       *)
(* whose methods can be called.                                             *)
(***************************************************************************)
EXTENDS SigningKeyRefinement

CONSTANT TsProcs  \* the signers in TypeScript

ASSUME TsConstantsOK == TsProcs \subseteq Procs

VARIABLES
  sampling,  \* sampling[p]: leaf and message of the attempt whose salt is sampled, or None
  closed     \* closed[p]: the fields of the signer p closed last, or None

tsVars == <<sampling, closed>>
allVars == <<vars, tsVars>>

Idle(p) == pc[p] = "ready" /\ sampling[p] = None

-----------------------------------------------------------------------------
(* create, open, close and requireNextLeafAtLeast *)

Create(p) ==
  /\ \/ CreateFile(p) \/ DrawKey(p) \/ CreateFill(p) \/ CreateSyncFile(p) \/ CreateSyncDir(p)
  /\ UNCHANGED tsVars

TsOpen(p) == Open(p) /\ UNCHANGED tsVars

Acquire(p) ==
  /\ \E op \in {"create", "open"} : Lock(p, op)
  /\ UNCHANGED tsVars

TsClose(p, value) ==
  /\ Close(p, value)
  /\ closed' = [closed EXCEPT ![p] = mem[p]]
  /\ UNCHANGED <<fileVars, drawn, released, sampling>>

Dispose(p) == Idle(p) /\ TsClose(p, "none")

\* A minimum outside 0 .. LEAVES is an error of the caller, and closes too.
RequireNextLeafAtLeast(p, minimum) ==
  /\ Idle(p)
  /\ \/ minimum > LEAVES /\ TsClose(p, "InvalidEncoding")
     \/ minimum <= LEAVES /\ mem[p].next < minimum /\ TsClose(p, "LeafBelowMinimum")
     \/ /\ minimum <= LEAVES /\ mem[p].next >= minimum
        /\ Returns(p, "Ok")
        /\ UNCHANGED <<lock, fileVars, mem, failed, pc, drawn, released, tsVars>>

\* A closed signer still compares its fields; there is nothing left to close.
RequireClosed(p, minimum) ==
  /\ pc[p] \in {"closed", "ready"}
  /\ closed[p] # None
  /\ \/ minimum > LEAVES /\ Returns(p, "InvalidEncoding")
     \/ minimum <= LEAVES /\ closed[p].next < minimum /\ Returns(p, "LeafBelowMinimum")
     \/ minimum <= LEAVES /\ closed[p].next >= minimum /\ Returns(p, "Ok")
  /\ UNCHANGED <<lock, fileVars, mem, failed, pc, drawn, released, tsVars>>

-----------------------------------------------------------------------------
(* signWithRng *)

SignClosed(p, m) ==
  /\ pc[p] \in {"closed", "ready"}
  /\ closed[p] # None
  /\ Returns(p, "Unusable")
  /\ UNCHANGED <<lock, fileVars, mem, failed, pc, drawn, released, tsVars>>

Retry(p, m) == Idle(p) /\ SignRetry(p, m) /\ UNCHANGED tsVars

Exhausted(p, m) == Idle(p) /\ SignExhausted(p, m) /\ UNCHANGED tsVars

BeginAnyLeaf(p, m) ==  \* mutant: the leaves are not counted
  /\ Idle(p)
  /\ mem[p].msg # m
  /\ sampling' = [sampling EXCEPT ![p] = [leaf |-> mem[p].next, msg |-> m]]
  /\ UNCHANGED <<vars, closed>>

\* The random source is about to run; the leaf is kept in a local variable.
Begin(p, m) ==
  /\ Idle(p)
  /\ mem[p].msg # m
  /\ mem[p].next < LEAVES
  /\ sampling' = [sampling EXCEPT ![p] = [leaf |-> mem[p].next, msg |-> m]]
  /\ UNCHANGED <<vars, closed>>

NestedAttempt(p, m) ==  \* mutant: no sampling flag, the nested call runs to its end
  /\ sampling[p] # None
  /\ mem[p].next < LEAVES
  /\ \E s \in AcceptedSalts(mem[p].key, mem[p].next, m) :
       LET r == Spent(mem[p], m, s) IN
       /\ mem' = [mem EXCEPT ![p] = r]
       /\ file' = [data |-> r, synced |-> TRUE]
       /\ stable' = {r}
       /\ Release(p, SignatureOf(r))
  /\ UNCHANGED <<lock, tmp, failed, pc, drawn, tsVars>>

\* The random source calls sign on the same signer.
NestedSign(p, m) ==
  /\ sampling[p] # None
  /\ Returns(p, "Unusable")
  /\ UNCHANGED <<lock, fileVars, mem, failed, pc, drawn, released, tsVars>>

NestedCloseAllowed(p) ==  \* mutant: no sampling flag
  /\ sampling[p] # None
  /\ Unlock
  /\ closed' = [closed EXCEPT ![p] = mem[p]]
  /\ UNCHANGED <<fileVars, procVars, drawn, released, sampling>>

\* It calls requireNextLeafAtLeast with a minimum the signer has reached.
NestedRequire(p, minimum) ==
  /\ sampling[p] # None
  /\ mem[p].next >= minimum
  /\ Returns(p, "Ok")
  /\ UNCHANGED <<lock, fileVars, mem, failed, pc, drawn, released, tsVars>>

\* It calls close, or requireNextLeafAtLeast with another minimum, which closes.
NestedClose(p) ==
  /\ sampling[p] # None
  /\ Returns(p, "Unusable")
  /\ UNCHANGED <<lock, fileVars, mem, failed, pc, drawn, released, tsVars>>

\* The random source is done, or throws; the refusal of a nested call may be
\* what it throws.  The fields move on from the local leaf.
Sampled(p) ==
  /\ sampling[p] # None
  /\ Goto(p, "ready", "open_tmp")
  /\ LET a == sampling[p]
         at == [mem[p] EXCEPT !.next = a.leaf] IN
       \/ \E s \in AcceptedSalts(mem[p].key, a.leaf, a.msg) :
            /\ mem' = [mem EXCEPT ![p] = Spent(at, a.msg, s)]
            /\ Returns(p, "Ok")
       \/ \E error \in {e \in SamplingErrors : "entropy" \in Faults} \cup ({"Unusable"} \cap {result[p]}) :
            /\ mem' = [mem EXCEPT ![p] = Spent(at, None, None)]
            /\ Returns(p, error)
  /\ sampling' = [sampling EXCEPT ![p] = None]
  /\ UNCHANGED <<lock, fileVars, failed, drawn, released, closed>>

Write(p) ==
  /\ OpenTmp(p) \/ WriteTmp(p) \/ SyncTmpFile(p) \/ Rename(p) \/ WriteSyncDir(p)
  /\ UNCHANGED tsVars

TsReturn(p) == Return(p) /\ UNCHANGED tsVars

-----------------------------------------------------------------------------
(* Faults *)

TsCallFails(p) == CallFails(p) /\ UNCHANGED tsVars

WriteFailsOpen(p) ==  \* mutant: the signer stays open
  /\ "io" \in Faults
  /\ pc[p] \in Persisting
  /\ pc' = [pc EXCEPT ![p] = "ready"]
  /\ Returns(p, "Io")
  /\ UNCHANGED <<lock, fileVars, mem, failed, drawn, released, tsVars>>

TsWriteFails(p) ==
  /\ "io" \in Faults
  /\ pc[p] \in Persisting
  /\ TsClose(p, "Io")

Forget(p) == sampling' = [sampling EXCEPT ![p] = None] /\ closed' = [closed EXCEPT ![p] = None]

-----------------------------------------------------------------------------
TsInit ==
  /\ Init
  /\ sampling = [p \in Procs |-> None]
  /\ closed = [p \in Procs |-> None]

TsStep(p) ==
  \/ Acquire(p) \/ Create(p) \/ TsOpen(p) \/ Dispose(p)
  \/ \E minimum \in 0 .. LEAVES + 1 :
       RequireNextLeafAtLeast(p, minimum) \/ RequireClosed(p, minimum) \/ NestedRequire(p, minimum)
  \/ \E m \in Messages :
       SignClosed(p, m) \/ Retry(p, m) \/ Exhausted(p, m) \/ Begin(p, m) \/ NestedSign(p, m)
  \/ NestedClose(p) \/ Sampled(p) \/ Write(p) \/ TsReturn(p)
  \/ TsCallFails(p) \/ TsWriteFails(p)
  \/ Kill(p) /\ Forget(p)

TsNext ==
  \/ \E p \in TsProcs : TsStep(p)
  \/ \E p \in Procs \ TsProcs : (Calls(p) \/ Progress(p) \/ Failure(p)) /\ UNCHANGED tsVars
  \/ /\ PowerLoss
     /\ sampling' = [p \in Procs |-> None]
     /\ closed' = [p \in Procs |-> None]
  \/ Flush /\ UNCHANGED tsVars

TsSpec == TsInit /\ [][TsNext]_allVars

-----------------------------------------------------------------------------
(* Properties *)

\* The variables stay in their ranges: an attempt in progress is for a leaf of the
\* key, the handle's next one, and only a signer that holds the lock samples.
TsTypeOK ==
  /\ FieldsOK
  /\ result \in [Procs -> Answers]
  /\ sampling \in [Procs -> [leaf : 0 .. LEAVES - 1, msg : Messages] \cup {None}]
  /\ closed \in [Procs -> Record \cup {None}]
  /\ \A p \in Procs : sampling[p] # None =>
       p \in TsProcs /\ lock = p /\ pc[p] = "ready" /\ mem[p].next = sampling[p].leaf
=============================================================================
