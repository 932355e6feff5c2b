----------------------------- MODULE Definition8 -----------------------------
(***************************************************************************)
(* What the persistent signers promise: the signing state of DKKW25         *)
(* Definition 8, as src/signer.rs:1-2, 115 and 269-270 describe it.         *)
(* There is one key; its state is the next unused leaf and the last attempt *)
(* on record.  An attempt spends a leaf whether or not it yields a           *)
(* signature, and the only signature that may leave the signer is that of   *)
(* the attempt on record, which may leave it any number of times.  There is  *)
(* no file, no lock, no failure and only one signer here.                   *)
(***************************************************************************)
EXTENDS Naturals

CONSTANTS
  Keys, Messages, Salts,
  LEAVES,     \* leaves per key
  None,       \* no key yet; no message or salt on record
  Accepting   \* the signatures the encoding accepts

VARIABLES
  state,      \* None, or the key, next leaf and last attempt on record
  out         \* the signatures that have left

vars == <<state, out>>

Records == [key : Keys, next : Nat,
            msg : Messages \cup {None}, salt : Salts \cup {None}]

\* The signature of the attempt on record.
Recorded == [key |-> state.key, leaf |-> state.next - 1, msg |-> state.msg, salt |-> state.salt]

Init == state = None /\ out = {}

Generate ==
  /\ state = None
  /\ \E k \in Keys : state' = [key |-> k, next |-> 0, msg |-> None, salt |-> None]
  /\ UNCHANGED out

Attempt(m, s) ==
  /\ state # None
  /\ state.next < LEAVES
  /\ state' = [key |-> state.key, next |-> state.next + 1, msg |-> m, salt |-> s]
  /\ UNCHANGED out

Expose ==
  /\ state # None
  /\ Recorded \in Accepting
  /\ out' = out \cup {Recorded}
  /\ UNCHANGED state

Next ==
  \/ Generate
  \/ \E m \in Messages, s \in Salts : Attempt(m, s)
  \/ Attempt(None, None)
  \/ Expose

Spec == Init /\ [][Next]_vars

\* One attempt per leaf: no two different signatures for one key and leaf.
OneSignaturePerLeaf ==
  \A s, t \in out : s.key = t.key /\ s.leaf = t.leaf => s = t
=============================================================================
