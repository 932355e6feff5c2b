------------------------------ MODULE SigningKey ------------------------------
(***************************************************************************)
(* The persistent signer of src/signer.rs: SigningKey::create, open, sign,  *)
(* require_next_leaf_at_least and drop, run by any number of signers        *)
(* (processes, or handles in one process: flock makes no difference) that   *)
(* use the same path.  Every system call is a step of its own, so a kill or *)
(* a power loss may fall between any two of them and other signers may run  *)
(* in between.                                                             *)
(*                                                                         *)
(* Abstractions.  The chain starts and the parameter P are one element of   *)
(* Keys.  A signature is the leaf, message and salt it was made from: the   *)
(* code computes the rest of its bytes from these.  `Accepting` says which  *)
(* salts hit the target sum (src/lib.rs, encode).  A record is the variable *)
(* part of the header: version, height and length never differ for one      *)
(* instance, and a file that is shorter than a record is Partial.          *)
(***************************************************************************)
EXTENDS KeyFile, Naturals

CONSTANTS
  Procs,      \* the signers
  Keys,       \* what key generation can draw; its size bounds the creations
  Messages,   \* 32-byte digests
  Salts,      \* salts
  LEAVES,     \* leaves per key: 1 (Winternitz) or 256 (XMSS) in the code
  None,       \* Option::None, and the zero salt stored with it
  Accepting,  \* the signatures whose salt the encoding accepts
  Faults      \* which of the faults below the environment may inject

Signature == [key : Keys, leaf : 0 .. LEAVES - 1, msg : Messages, salt : Salts]

Record == [key : Keys, next : Nat,
           msg : Messages \cup {None}, salt : Salts \cup {None}]

ASSUME ConstantsOK ==
  /\ LEAVES \in Nat \ {0}
  /\ None \notin Keys \cup Messages \cup Salts \cup Record
  /\ NoProc \notin Procs
  /\ Absent # Partial
  /\ {Absent, Partial} \cap (Record \cup {None}) = {}
  /\ Accepting \subseteq Signature
  /\ Faults \subseteq {"io", "entropy", "kill", "power"}

VARIABLES
  mem,       \* mem[p]: key, next_leaf, last_message and last_salt of p's SigningKey
  failed,    \* failed[p]: its `failed` flag
  pc,        \* pc[p]: the next call of p
  result,    \* result[p]: what p's last call returned; while an attempt is being
             \* persisted, what it will return if the write succeeds
  drawn,     \* keys already drawn: the random source does not repeat itself
  released   \* every signature that has left a signer (a history variable)

procVars == <<mem, failed, pc, result>>
vars == <<lock, file, tmp, stable, mem, failed, pc, result, drawn, released>>

\* A caller's random source may fail with any SigningError, which sign passes on; its
\* own "Corrupt" would say nothing of the record, and Random and Io stand for them all.
SamplingErrors == {"SaltsExhausted", "Random", "Io"}
Results == {"none", "Ok", "Exists", "Missing", "Locked", "Corrupt", "LeafBelowMinimum",
            "Exhausted", "Unusable", "Io"} \cup SamplingErrors
Persisting == {"open_tmp", "fill_tmp", "sync_tmp", "rename", "sync_dir"}
PCs == {"closed", "create", "draw_key", "fill", "sync_file", "sync_new_dir",
        "open", "ready", "return"} \cup Persisting

-----------------------------------------------------------------------------
(***************************************************************************)
(* Records and signatures.                                                 *)
(***************************************************************************)

\* The signature of the attempt a record names.
NextLeafSignature(r) ==  \* mutant: the leaf after the recorded one
  [key |-> r.key, leaf |-> r.next, msg |-> r.msg, salt |-> r.salt]
SignatureOf(r) == [key |-> r.key, leaf |-> r.next - 1, msg |-> r.msg, salt |-> r.salt]

\* The state once the next leaf is spent on message m; None after a failed sampling.
SpentOnSuccess(r, m, s) ==  \* mutant: a failed sampling leaves the leaf unspent
  [key |-> r.key, next |-> IF m = None THEN r.next ELSE r.next + 1, msg |-> m, salt |-> s]
Spent(r, m, s) == [key |-> r.key, next |-> r.next + 1, msg |-> m, salt |-> s]

\* The contents `open` takes: a complete record that passes its checks.
AnyFile(r) == r # Absent  \* mutant: open checks nothing
Valid(r) ==
  /\ r \in Record
  /\ r.next <= LEAVES
  /\ r.msg # None => r.next # 0 /\ SignatureOf(r) \in Accepting
  /\ r.msg = None => r.salt = None

\* The salts sample_salt can end on for this leaf and message.
AcceptedSalts(key, leaf, m) ==
  {s \in Salts : [key |-> key, leaf |-> leaf, msg |-> m, salt |-> s] \in Accepting}

-----------------------------------------------------------------------------
(***************************************************************************)
(* Steps of one signer.                                                    *)
(***************************************************************************)

Goto(p, from, to) == pc[p] = from /\ pc' = [pc EXCEPT ![p] = to]
Returns(p, value) == result' = [result EXCEPT ![p] = value]

\* The handle goes away: its fields are dropped and the sidecar is closed.
Close(p, value) ==
  /\ Unlock
  /\ pc' = [pc EXCEPT ![p] = "closed"]
  /\ mem' = [mem EXCEPT ![p] = None]
  /\ failed' = [failed EXCEPT ![p] = FALSE]
  /\ Returns(p, value)

\* sign_at_with_salt: no signature if the encoding misses the target sum.
Release(p, sig) ==
  /\ Returns(p, IF sig \in Accepting THEN "Ok" ELSE "Corrupt")
  /\ released' = released \cup ({sig} \cap Accepting)

\* `lock`, the first call of create and open.
Lock(p, op) ==
  \/ /\ TryLock(p)
     /\ Goto(p, "closed", op)
     /\ Returns(p, "none")
     /\ UNCHANGED <<fileVars, mem, failed, drawn, released>>
  \/ /\ pc[p] = "closed"
     /\ \/ lock # NoProc /\ Returns(p, "Locked")
        \/ "io" \in Faults /\ Returns(p, "Io")
     /\ UNCHANGED <<lock, fileVars, mem, failed, pc, drawn, released>>

-----------------------------------------------------------------------------
(***************************************************************************)
(* SigningKey::create                                                      *)
(***************************************************************************)

CreateFileWaiting(p) ==  \* mutant: create waits for an existing file to go away
  /\ Goto(p, "create", "draw_key")
  /\ CreateNew
  /\ UNCHANGED <<lock, mem, failed, result, drawn, released>>

CreateFile(p) ==
  \/ /\ Goto(p, "create", "draw_key")
     /\ CreateNew
     /\ UNCHANGED <<lock, mem, failed, result, drawn, released>>
  \/ /\ pc[p] = "create"
     /\ file.data # Absent
     /\ Close(p, "Exists")
     /\ UNCHANGED <<fileVars, drawn, released>>

\* The chain starts and P; on an error the empty file stays behind.
DrawKey(p) ==
  \/ /\ Goto(p, "draw_key", "fill")
     /\ \E k \in Keys \ drawn :
          /\ mem' = [mem EXCEPT ![p] = [key |-> k, next |-> 0, msg |-> None, salt |-> None]]
          /\ drawn' = drawn \cup {k}
     /\ UNCHANGED <<lock, fileVars, failed, result, released>>
  \/ /\ pc[p] = "draw_key"
     /\ "entropy" \in Faults \/ drawn = Keys
     /\ Close(p, "Random")
     /\ UNCHANGED <<fileVars, drawn, released>>

CreateFill(p) ==
  /\ Goto(p, "fill", "sync_file")
  /\ Fill(mem[p])
  /\ UNCHANGED <<lock, mem, failed, result, drawn, released>>

CreateSyncFile(p) ==
  /\ Goto(p, "sync_file", "sync_new_dir")
  /\ SyncFile
  /\ UNCHANGED <<lock, mem, failed, result, drawn, released>>

CreateSyncDir(p) ==
  /\ Goto(p, "sync_new_dir", "ready")
  /\ SyncDir
  /\ Returns(p, "Ok")
  /\ UNCHANGED <<lock, mem, failed, drawn, released>>

-----------------------------------------------------------------------------
(***************************************************************************)
(* SigningKey::open, require_next_leaf_at_least and drop                   *)
(***************************************************************************)

OpenForgetting(p) ==  \* mutant: the recorded attempt is not restored
  /\ pc[p] = "open"
  /\ \/ /\ Valid(file.data)
        /\ pc' = [pc EXCEPT ![p] = "ready"]
        /\ mem' = [mem EXCEPT ![p] = [file.data EXCEPT !.msg = None, !.salt = None]]
        /\ Returns(p, "Ok")
        /\ UNCHANGED <<lock, failed>>
     \/ /\ ~Valid(file.data)
        /\ Close(p, IF file.data = Absent THEN "Missing" ELSE "Corrupt")
  /\ UNCHANGED <<fileVars, drawn, released>>

Open(p) ==
  /\ pc[p] = "open"
  /\ \/ /\ Valid(file.data)
        /\ pc' = [pc EXCEPT ![p] = "ready"]
        /\ mem' = [mem EXCEPT ![p] = file.data]
        /\ Returns(p, "Ok")
        /\ UNCHANGED <<lock, failed>>
     \/ /\ ~Valid(file.data)
        /\ Close(p, IF file.data = Absent THEN "Missing" ELSE "Corrupt")
  /\ UNCHANGED <<fileVars, drawn, released>>

RequireLastLeaf(p, minimum) ==  \* mutant: the minimum is compared with the last leaf
  /\ pc[p] = "ready"
  /\ \/ /\ mem[p].next + 1 < minimum
        /\ Close(p, "LeafBelowMinimum")
     \/ /\ mem[p].next + 1 >= minimum
        /\ Returns(p, "Ok")
        /\ UNCHANGED <<lock, mem, failed, pc>>
  /\ UNCHANGED <<fileVars, drawn, released>>

RequireNextLeaf(p, minimum) ==
  /\ pc[p] = "ready"
  /\ \/ /\ mem[p].next < minimum
        /\ Close(p, "LeafBelowMinimum")
     \/ /\ mem[p].next >= minimum
        /\ Returns(p, "Ok")
        /\ UNCHANGED <<lock, mem, failed, pc>>
  /\ UNCHANGED <<fileVars, drawn, released>>

Drop(p) ==
  /\ pc[p] = "ready"
  /\ Close(p, "none")
  /\ UNCHANGED <<fileVars, drawn, released>>

-----------------------------------------------------------------------------
(***************************************************************************)
(* SigningKey::sign and sign_with_rng                                      *)
(***************************************************************************)

SignUnusable(p) ==
  /\ pc[p] = "ready"
  /\ failed[p]
  /\ Returns(p, "Unusable")
  /\ UNCHANGED <<lock, fileVars, mem, failed, pc, drawn, released>>

SignRetryFreshSalt(p, m) ==  \* mutant: a retry samples its salt again
  /\ pc[p] = "ready"
  /\ ~failed[p]
  /\ mem[p].msg = m
  /\ \E s \in AcceptedSalts(mem[p].key, mem[p].next - 1, m) :
       Release(p, SignatureOf([mem[p] EXCEPT !.salt = s]))
  /\ UNCHANGED <<lock, fileVars, mem, failed, pc, drawn>>

SignRetryAny(p, m) ==  \* mutant: the salt is recorded without the message it is for
  /\ pc[p] = "ready"
  /\ ~failed[p]
  /\ mem[p].msg # None
  /\ Release(p, SignatureOf([mem[p] EXCEPT !.msg = m]))
  /\ UNCHANGED <<lock, fileVars, mem, failed, pc, drawn>>

\* The recorded message: its signature is computed again, nothing is written.
SignRetry(p, m) ==
  /\ pc[p] = "ready"
  /\ ~failed[p]
  /\ mem[p].msg = m
  /\ Release(p, SignatureOf(mem[p]))
  /\ UNCHANGED <<lock, fileVars, mem, failed, pc, drawn>>

SignExhausted(p, m) ==
  /\ pc[p] = "ready"
  /\ ~failed[p]
  /\ mem[p].msg # m
  /\ mem[p].next >= LEAVES
  /\ Returns(p, "Exhausted")
  /\ UNCHANGED <<lock, fileVars, mem, failed, pc, drawn, released>>

\* A new attempt: sample a salt, advance the state in memory, start to persist.
SignAttempt(p, m) ==
  /\ Goto(p, "ready", "open_tmp")
  /\ ~failed[p]
  /\ mem[p].msg # m
  /\ mem[p].next < LEAVES
  /\ \/ \E s \in AcceptedSalts(mem[p].key, mem[p].next, m) :
          /\ mem' = [mem EXCEPT ![p] = Spent(@, m, s)]
          /\ Returns(p, "Ok")
     \/ \E error \in SamplingErrors :
          /\ "entropy" \in Faults
          /\ mem' = [mem EXCEPT ![p] = Spent(@, None, None)]
          /\ Returns(p, error)
  /\ UNCHANGED <<lock, fileVars, failed, drawn, released>>

\* `write`, one system call a step.
OpenTmp(p) ==
  /\ Goto(p, "open_tmp", "fill_tmp")
  /\ TruncateTmp
  /\ UNCHANGED <<lock, mem, failed, result, drawn, released>>

WriteTmp(p) ==
  /\ Goto(p, "fill_tmp", "sync_tmp")
  /\ FillTmp(mem[p])
  /\ UNCHANGED <<lock, mem, failed, result, drawn, released>>

SyncTmpFile(p) ==
  /\ Goto(p, "sync_tmp", "rename")
  /\ SyncTmp
  /\ UNCHANGED <<lock, mem, failed, result, drawn, released>>

Rename(p) ==
  /\ Goto(p, "rename", "sync_dir")
  /\ RenameTmp
  /\ UNCHANGED <<lock, mem, failed, result, drawn, released>>

WriteSyncDir(p) ==
  /\ Goto(p, "sync_dir", "return")
  /\ SyncDir
  /\ UNCHANGED <<lock, mem, failed, result, drawn, released>>

\* The attempt is on record: return its signature, or the sampling error.
Return(p) ==
  /\ Goto(p, "return", "ready")
  /\ \/ /\ result[p] = "Ok"
        /\ Release(p, SignatureOf(mem[p]))
     \/ /\ result[p] # "Ok"
        /\ UNCHANGED <<result, released>>
  /\ UNCHANGED <<lock, fileVars, mem, failed, drawn>>

-----------------------------------------------------------------------------
(***************************************************************************)
(* Faults: a system call returns an error, a signer is killed, the machine  *)
(* loses power.                                                            *)
(***************************************************************************)

\* An error in create or open drops the lock; what is on the disk stays.
CallFails(p) ==
  /\ "io" \in Faults
  /\ pc[p] \in {"create", "fill", "sync_file", "sync_new_dir", "open"}
  /\ Close(p, "Io")
  /\ UNCHANGED <<fileVars, drawn, released>>

\* `failed = true`, after which the handle refuses to sign.
KeepUsable(p) == UNCHANGED failed  \* mutant: the flag is not set
Poison(p) == failed' = [failed EXCEPT ![p] = TRUE]

\* An error in write poisons the handle, which keeps the lock until it is dropped.
WriteFails(p) ==
  /\ "io" \in Faults
  /\ pc[p] \in Persisting
  /\ pc' = [pc EXCEPT ![p] = "ready"]
  /\ Poison(p)
  /\ Returns(p, "Io")
  /\ UNCHANGED <<lock, fileVars, mem, drawn, released>>

Kill(p) ==
  /\ "kill" \in Faults
  /\ pc[p] # "closed"
  /\ Close(p, "none")
  /\ UNCHANGED <<fileVars, drawn, released>>

PowerLoss ==
  /\ "power" \in Faults
  /\ FilePowerLoss
  /\ pc' = [p \in Procs |-> "closed"]
  /\ mem' = [p \in Procs |-> None]
  /\ failed' = [p \in Procs |-> FALSE]
  /\ result' = [p \in Procs |-> "none"]
  /\ UNCHANGED <<drawn, released>>

\* The kernel writes the directory and the file back in its own time.
Flush ==
  /\ "power" \in Faults
  /\ Writeback
  /\ UNCHANGED <<procVars, drawn, released>>

-----------------------------------------------------------------------------
Init ==
  /\ FileInit
  /\ mem = [p \in Procs |-> None]
  /\ failed = [p \in Procs |-> FALSE]
  /\ pc = [p \in Procs |-> "closed"]
  /\ result = [p \in Procs |-> "none"]
  /\ drawn = {}
  /\ released = {}

\* What the caller decides to call.
Calls(p) ==
  \/ \E op \in {"create", "open"} : Lock(p, op)
  \/ \E minimum \in 0 .. LEAVES + 1 : RequireNextLeaf(p, minimum)
  \/ Drop(p)
  \/ SignUnusable(p)
  \/ \E m \in Messages : SignRetry(p, m) \/ SignExhausted(p, m) \/ SignAttempt(p, m)

\* What a call in progress does next.
Progress(p) ==
  \/ CreateFile(p)
  \/ DrawKey(p)
  \/ CreateFill(p)
  \/ CreateSyncFile(p)
  \/ CreateSyncDir(p)
  \/ Open(p)
  \/ OpenTmp(p)
  \/ WriteTmp(p)
  \/ SyncTmpFile(p)
  \/ Rename(p)
  \/ WriteSyncDir(p)
  \/ Return(p)

Failure(p) == CallFails(p) \/ WriteFails(p) \/ Kill(p)

Next ==
  \/ \E p \in Procs : Calls(p) \/ Progress(p) \/ Failure(p)
  \/ PowerLoss
  \/ Flush

Spec == Init /\ [][Next]_vars

\* The scheduler runs a call in progress; nothing is assumed of the callers.
FairSpec == Spec /\ \A p \in Procs : WF_vars(Progress(p))

-----------------------------------------------------------------------------
(***************************************************************************)
(* Properties.                                                             *)
(***************************************************************************)

\* What the calls leave behind.
FieldsOK ==
  /\ lock \in Procs \cup {NoProc}
  /\ file \in [data : Record \cup {Absent, Partial}, synced : BOOLEAN]
  /\ tmp \in [data : Record \cup {Absent, Partial}, synced : BOOLEAN]
  /\ stable \subseteq Record \cup {Absent, Partial}
  /\ mem \in [Procs -> Record \cup {None}]
  /\ failed \in [Procs -> BOOLEAN]
  /\ pc \in [Procs -> PCs]
  /\ drawn \subseteq Keys
  /\ released \subseteq Signature

\* The variables stay in their ranges.
TypeOK == FieldsOK /\ result \in [Procs -> Results]

\* From the lock in create or open until the handle is gone no second signer
\* works on the path, and no error, kill or power loss leaves the lock behind.
LockedWhileOpen ==
  \A p \in Procs : pc[p] # "closed" <=> lock = p

\* A handle that can sign holds what the file holds: the record it read or wrote
\* is still the one at `path`, whoever wrote, failed or died in between.
SignerSeesTheFile ==
  \A p \in Procs : pc[p] = "ready" /\ ~failed[p] => file.data = mem[p]

\* Definition 8, one attempt per leaf: two signatures that left the signers for
\* the same key and leaf are the same signature.
OneSignaturePerLeaf ==
  \A s, t \in released : s.key = t.key /\ s.leaf = t.leaf => s = t

\* `create` refuses an existing file, so one path never signs under two keys.
OneKeyPerPath ==
  \A s, t \in released : s.key = t.key

\* "Persist the attempt before returning either a signature or error": when the
\* call that made an attempt returns, no power loss can take it back.
AttemptDurableBeforeReturn ==
  \A p \in Procs : pc[p] = "return" => stable = {mem[p]}

\* The record a handle signs from always reproduces a signature: `Corrupt` is an
\* answer of `open`, never of `sign`.
SignNeverCorrupt ==
  \A p \in Procs : result[p] = "Corrupt" => pc[p] = "closed"

\* Temporary file, fsync, rename: once a power loss is sure to leave a record,
\* it always leaves a record that `open` accepts, of the same key.
RecordNeverTorn ==
  [][stable \subseteq Record =>
       \A c \in stable' : /\ Valid(c)
                          /\ \A r \in stable : c.key = r.key]_vars

\* While the machine stays up, the leaf at `path` advances by single attempts.
LeavesSpentInOrder ==
  [][file.data \in Record /\ file'.data # file.data =>
       /\ file'.data \in Record
       /\ file'.data.key = file.data.key
       /\ file'.data.next = file.data.next + 1]_vars

\* What the program says and the code does not keep (see README.md).
\*
\* SigningError::Exists, "a key file already exists at this path: open it instead".
ExistsMeansAKeyFile ==
  \A p \in Procs : result[p] = "Exists" => file.data \in Record

\* Every call comes to an end: the signer is back with its caller or gone.
CallsFinish ==
  \A p \in Procs : pc[p] \notin {"closed", "ready"} ~> pc[p] \in {"closed", "ready"}
=============================================================================
