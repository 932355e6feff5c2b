------------------------------- MODULE KeyFile -------------------------------
(***************************************************************************)
(* The directory that holds one key file, as the signers in                *)
(* src/signer.rs and packages/winternitz/src/signing-key.ts use it:     *)
(* the record at `path`, the sibling `path.tmp` it is replaced from, and    *)
(* the permanent sidecar `path.lock`.  This is the operating system's part  *)
(* (external to the repository), modelled from the calls the signers make.  *)
(*                                                                         *)
(* A file is what a reader sees (data) and whether that much is known to    *)
(* be on the medium (synced).  `stable` is what a reader may find at `path` *)
(* after a power loss: the kernel writes back in any order it likes until   *)
(* an fsync narrows the choice.                                            *)
(***************************************************************************)

CONSTANTS
  Absent,   \* there is no file at the path
  Partial,  \* a file that is not a complete record: empty, truncated or torn
  NoProc    \* nobody holds the lock

VARIABLES
  lock,     \* the signer that holds flock(2) on the sidecar, or NoProc
  file,     \* the file at `path`
  tmp,      \* the file at `path.tmp`
  stable    \* the contents `path` may have after a power loss

fileVars == <<file, tmp, stable>>

NoFile == [data |-> Absent, synced |-> TRUE]
Unsynced(content) == [data |-> content, synced |-> FALSE]

\* What a file holds after a power loss, if its directory entry survives.
Survivors(f) == IF f.synced THEN {f.data} ELSE {f.data, Partial}

FileInit ==
  /\ lock = NoProc
  /\ file = NoFile
  /\ tmp = NoFile
  /\ stable = {Absent}

(***************************************************************************)
(* The sidecar lock: flock on an inode that is never unlinked, so it dies   *)
(* with its holder and a new holder always finds the same inode.            *)
(***************************************************************************)
StealLock(p) == lock' = p  \* mutant: the lock is not exclusive
TryLock(p) == lock = NoProc /\ lock' = p
LeakLock == UNCHANGED lock  \* mutant: the handle outlives its signer
Unlock == lock' = NoProc

(***************************************************************************)
(* Calls on `path`.  CreateNew is open(O_CREAT | O_EXCL), Fill the writes    *)
(* that complete the record, SyncFile fsync on the file, SyncDir fsync on    *)
(* the directory.                                                          *)
(***************************************************************************)
CreateOrTruncate ==  \* mutant: O_CREAT without O_EXCL
  /\ file' = Unsynced(Partial)
  /\ stable' = stable \cup {Partial}
  /\ UNCHANGED tmp

CreateNew ==
  /\ file.data = Absent
  /\ file' = Unsynced(Partial)
  /\ stable' = stable \cup {Partial}
  /\ UNCHANGED tmp

Fill(record) ==
  /\ file' = Unsynced(record)
  /\ stable' = stable \cup {record, Partial}
  /\ UNCHANGED tmp

SyncFile ==
  /\ file' = [file EXCEPT !.synced = TRUE]
  /\ stable' = (stable \ {Partial}) \cup {file.data}
  /\ UNCHANGED tmp

SkipSyncDir == UNCHANGED fileVars  \* mutant: the directory is not synced
SyncDir ==
  /\ stable' = Survivors(file)
  /\ UNCHANGED <<file, tmp>>

(***************************************************************************)
(* Calls on `path.tmp`.  What a killed writer left there is truncated by    *)
(* the next one.                                                           *)
(***************************************************************************)
TruncateTmp == tmp' = Unsynced(Partial) /\ UNCHANGED <<file, stable>>
FillTmp(record) == tmp' = Unsynced(record) /\ UNCHANGED <<file, stable>>
SkipSyncTmp == UNCHANGED fileVars  \* mutant: the temporary file is not synced
SyncTmp == tmp' = [tmp EXCEPT !.synced = TRUE] /\ UNCHANGED <<file, stable>>

RenameTmp ==
  /\ file' = tmp
  /\ tmp' = NoFile
  /\ stable' = stable \cup Survivors(tmp)

(***************************************************************************)
(* What the machine does on its own.                                       *)
(***************************************************************************)
Writeback ==
  /\ file' = [file EXCEPT !.synced = TRUE]
  /\ stable' = {file.data}
  /\ UNCHANGED <<lock, tmp>>

FilePowerLoss ==
  /\ \E content \in stable :
       /\ file' = [data |-> content, synced |-> TRUE]
       /\ stable' = {content}
  /\ tmp' = NoFile
  /\ lock' = NoProc
=============================================================================
