------------------------- MODULE SigningKeyInvariant -------------------------
(***************************************************************************)
(* The inductive invariants behind the safety of SigningKey, in three layers. *)
(* The first says what the lock holder knows of the file at each of its      *)
(* steps; it holds under every fault.  The second says what every record     *)
(* that a later open may find knows of the signatures that have left; it     *)
(* needs that not both a process and the machine may fail (NotBoth).  The     *)
(* third says what the records themselves name, under every fault again.       *)
(***************************************************************************)
EXTENDS SigningKey

\* Before the rename of a new record.
BeforeRename == {"open_tmp", "fill_tmp", "sync_tmp", "rename"}

\* From key generation or open until the handle is gone.
HandleStates == {"fill", "sync_file", "sync_new_dir", "ready", "return"} \cup Persisting

\* A handle holds a record.
HandleHasRecord ==
  \A p \in Procs : pc[p] \in HandleStates => mem[p] \in Record

\* While a new record is written to the temporary file.
TmpFollowsMem ==
  \A p \in Procs :
    /\ pc[p] \in {"sync_tmp", "rename"} => tmp.data = mem[p]
    /\ pc[p] = "rename" => tmp.synced

\* The record at `path` is one attempt behind memory until the rename, and equals
\* it in every other state of a handle that has not failed.
FileFollowsMem ==
  \A p \in Procs :
    /\ pc[p] \in BeforeRename =>
         /\ file.data \in Record
         /\ mem[p].key = file.data.key
         /\ mem[p].next = file.data.next + 1
    /\ pc[p] \in {"draw_key", "fill"} => file.data = Partial
    /\ pc[p] \in {"sync_file", "sync_new_dir", "sync_dir", "return"} => file.data = mem[p]
    /\ pc[p] \in {"sync_new_dir", "sync_dir"} => file.synced
    /\ pc[p] = "ready" /\ ~failed[p] => file.data = mem[p]
    /\ pc[p] # "ready" => ~failed[p]
    /\ pc[p] = "return" => stable = {mem[p]}

\* What a call returns in either language (SigningKeyTs).
Answers == Results \cup {"InvalidEncoding"}

SignerInv ==
  /\ FieldsOK
  /\ result \in [Procs -> Answers]
  /\ LockedWhileOpen
  /\ HandleHasRecord
  /\ TmpFollowsMem
  /\ FileFollowsMem

-----------------------------------------------------------------------------
\* Processes may die or see errors, or the machine may lose power, but not both.
NotBoth == "power" \notin Faults \/ {"io", "kill"} \cap Faults = {}

\* The contents a later open may find at `path`.
Survivable == IF "power" \in Faults THEN stable ELSE {file.data}

\* What is visible may survive, and only an error fails a handle.
FaultsAsAssumed ==
  /\ file.data \in stable
  /\ \A p \in Procs : failed[p] => "io" \in Faults

\* How far the survivors lag behind the file.
Lag ==
  \A p \in Procs :
    /\ pc[p] \in {"draw_key", "fill"} => Survivable \cap Record = {}
    /\ pc[p] \in {"sync_file", "sync_new_dir"} => Survivable \cap Record \subseteq {mem[p]}
    /\ pc[p] \in {"sync_file", "sync_new_dir"} => released = {}
    /\ pc[p] \in BeforeRename => Survivable = {file.data}
    /\ pc[p] = "ready" /\ ~failed[p] => Survivable = {file.data}
    /\ pc[p] = "sync_dir" =>
         \A c \in Survivable \ {mem[p]} :
           c \in Record /\ c.key = mem[p].key /\ c.next + 1 = mem[p].next

\* Between calls, a record that may survive is the visible one.
Settled ==
  (\A p \in Procs : pc[p] \in {"closed", "create", "open"}) =>
    Survivable \cap Record = {} \/ Survivable = {file.data}

\* Every survivor has spent the leaves of the signatures that have left, and
\* still knows the last of them.
SurvivorsKnow ==
  \A s \in released, c \in Survivable :
    /\ c \in Record
    /\ c.key = s.key
    /\ s.leaf < c.next
    /\ s.leaf + 1 = c.next => s.msg = c.msg /\ s.salt = c.salt

LeafInv ==
  /\ FaultsAsAssumed
  /\ Lag
  /\ Settled
  /\ SurvivorsKnow
  /\ OneKeyPerPath
  /\ OneSignaturePerLeaf

-----------------------------------------------------------------------------
(* The third layer, about what the records say, under every fault.           *)

\* A handle's record reproduces a signature, an attempt that will return one names its
\* message, and a key that is being created has spent no leaf.
HandleReproduces ==
  \A p \in Procs :
    /\ pc[p] \in HandleStates => Valid(mem[p])
    /\ pc[p] \in Persisting \cup {"return"} /\ result[p] = "Ok" => mem[p].msg # None
    /\ pc[p] \in {"fill", "sync_file", "sync_new_dir"} => mem[p].next = 0

\* What is visible may survive; the records that may survive are valid, of one key and
\* one to a leaf, and none is ahead of the visible one.
SurvivorsAgree ==
  /\ file.data \in stable
  /\ \A c \in stable \cap Record :
       Valid(c) /\ file.data \in Record /\ c.next <= file.data.next
  /\ \A c, d \in stable \cap Record : c.key = d.key /\ (c.next = d.next => c = d)

RecordInv ==
  /\ HandleReproduces
  /\ SurvivorsAgree
  /\ SignNeverCorrupt
=============================================================================
