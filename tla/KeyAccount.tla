------------------------------ MODULE KeyAccount ------------------------------
(***************************************************************************)
(* The example program, program/src/lib.rs: one instruction registers a     *)
(* public key in an account, the other verifies a signature against it and   *)
(* marks its leaf used.  Instructions reach the program in any order and any *)
(* number of times: a transaction may be dropped, submitted again or land     *)
(* late.  The runtime runs the instructions that name one account one after   *)
(* the other, and undoes one that returns an error.                          *)
(*                                                                         *)
(* A signature is the key, leaf and digest it was made for; its kind is the   *)
(* instance its length says (849 or 1037 bytes).  Genuine holds those whose   *)
(* encoding, chains and path close on their key, at any 32-bit leaf: that the *)
(* leaf is one of the tree's is for the code to check.                        *)
(***************************************************************************)
EXTENDS Naturals

CONSTANTS
  Accounts,   \* addresses an instruction may name
  PublicKeys, \* root and P
  Digests,    \* 32-byte digests
  Submitted,  \* the signatures instructions may carry
  Genuine,    \* those that close on their key
  Malformed   \* an argument of the wrong length

PUBLIC_KEY_LEN == 41
XMSS_LEAVES == 256
KEY_END == 1 + PUBLIC_KEY_LEN
KEY_ACCOUNT_LEN == KEY_END + 32

Kinds == {"winternitz", "xmss"}
SignatureRecord == [kind : Kinds, key : PublicKeys, leaf : Nat, digest : Digests]

ASSUME ProgramConstantsOK ==
  /\ Malformed \notin PublicKeys \cup Digests \cup Submitted
  /\ Submitted \subseteq SignatureRecord
  /\ \A s \in Submitted : s.kind = "winternitz" => s.leaf = 0

VARIABLES
  owner,    \* owner[a]: "system" until the account is allocated to the program
  len,      \* len[a]: data length
  tag,      \* tag[a]: byte 0 of the data
  key,      \* key[a]: bytes 1 .. KEY_END - 1
  used,     \* used[a]: the set bits of the rest, as <<byte, bit>>
  accepted, \* accepted[a][leaf]: how often verify has returned Ok (history variable)
  result    \* what the last instruction returned

accountVars == <<owner, len, tag, key, used, accepted>>
vars == <<owner, len, tag, key, used, accepted, result>>

Lengths == {KEY_ACCOUNT_LEN - 1, KEY_ACCOUNT_LEN}
Results == {"Ok", "IncorrectProgramId", "InvalidAccountData", "InvalidInstructionData",
            "MissingRequiredSignature", "AccountAlreadyInitialized", "UninitializedAccount",
            "InvalidSignature", "LeafReused", "Panic", "NotEnoughAccountKeys"}

Leaves == {s.leaf : s \in Submitted}

-----------------------------------------------------------------------------
\* The bit of the account that stands for a leaf.
BitFromOne(leaf) == <<KEY_END + leaf \div 8, 1 + (leaf % 8)>>  \* mutant: shifted past the byte
CoarseBitOf(leaf) == <<KEY_END + leaf \div 8, leaf % 4>>  \* mutant: two leaves, one bit
BitOf(leaf) == <<KEY_END + leaf \div 8, leaf % 8>>

\* VerifyingKey::verify for the signature type of this kind.
VerifyUnbounded(k, digest, s) ==  \* mutant: the leaf is not compared with the tree
  s \in Genuine /\ s.key = k /\ s.digest = digest
Verify(k, digest, s) ==
  /\ s \in Genuine
  /\ s.key = k
  /\ s.digest = digest
  /\ s.kind = "xmss" => s.leaf < XMSS_LEAVES

\* ref_from_bytes of the instance the stored tag selects: the length must be its.  A tag
\* above 2, which verify answers with InvalidAccountData, is never stored (TypeOK).
Decodes(a, s) ==
  /\ s \in Submitted
  /\ s.kind = IF tag[a] = 1 THEN "winternitz" ELSE "xmss"

Refuse(error) == result' = error /\ UNCHANGED accountVars

\* The checks process_instruction makes before it looks at the instruction.
Ours(a, writable) == owner[a] = "program" /\ writable /\ len[a] = KEY_ACCOUNT_LEN

-----------------------------------------------------------------------------
\* The System Program allocates the account: zeroed data, owned by the program.
Allocate(a, length) ==
  /\ owner[a] = "system"
  /\ owner' = [owner EXCEPT ![a] = "program"]
  /\ len' = [len EXCEPT ![a] = length]
  /\ UNCHANGED <<tag, key, used, accepted, result>>

\* An instruction that names no account.
NoAccount == Refuse("NotEnoughAccountKeys")

WrongAccount(a, writable) ==
  \/ owner[a] # "program" /\ Refuse("IncorrectProgramId")
  \/ owner[a] = "program" /\ ~Ours(a, writable) /\ Refuse("InvalidAccountData")

\* No instruction tag, or one the program does not know.
UnknownInstruction(a) == Ours(a, TRUE) /\ Refuse("InvalidInstructionData")

\* Whether create still takes the account.
AlwaysFresh(a, t) == TRUE  \* mutant: an account may be registered again
FreshOrOtherInstance(a, t) == tag[a] # t + 1  \* mutant: the other instance may replace it
Fresh(a, t) == tag[a] = 0

Create(a, signer, t, k) ==
  /\ Ours(a, TRUE)
  /\ \/ ~signer /\ Refuse("MissingRequiredSignature")
     \/ signer /\ k = Malformed /\ Refuse("InvalidInstructionData")
     \/ signer /\ k # Malformed /\ ~Fresh(a, t) /\ Refuse("AccountAlreadyInitialized")
     \/ /\ signer
        /\ k # Malformed
        /\ Fresh(a, t)
        /\ tag' = [tag EXCEPT ![a] = t + 1]
        /\ key' = [key EXCEPT ![a] = k]
        /\ used' = [used EXCEPT ![a] = {}]
        /\ result' = "Ok"
        /\ UNCHANGED <<owner, len, accepted>>

VerifyRefused(a, digest, s) ==
  /\ Ours(a, TRUE)
  /\ \/ digest = Malformed /\ Refuse("InvalidInstructionData")
     \/ digest # Malformed /\ tag[a] = 0 /\ Refuse("UninitializedAccount")
     \/ /\ digest # Malformed
        /\ tag[a] # 0
        /\ \/ ~Decodes(a, s) /\ Refuse("InvalidInstructionData")
           \/ /\ Decodes(a, s)
              /\ ~Verify(key[a], digest, s)
              /\ Refuse("InvalidSignature")

VerifyGenuine(a, digest, s) ==
  /\ Ours(a, TRUE)
  /\ digest # Malformed
  /\ tag[a] # 0
  /\ Decodes(a, s)
  /\ Verify(key[a], digest, s)
  /\ LET bit == BitOf(s.leaf) IN
       \/ /\ bit[1] >= len[a] \/ bit \in used[a]
          /\ Refuse(IF bit[1] >= len[a] THEN "Panic" ELSE "LeafReused")
       \/ /\ bit[1] < len[a]
          /\ bit \notin used[a]
          /\ used' = [used EXCEPT ![a] = @ \cup {bit}]
          /\ accepted' = [accepted EXCEPT ![a][s.leaf] = @ + 1]
          /\ result' = "Ok"
          /\ UNCHANGED <<owner, len, tag, key>>

Init ==
  /\ owner = [a \in Accounts |-> "system"]
  /\ len = [a \in Accounts |-> 0]
  /\ tag = [a \in Accounts |-> 0]
  /\ key = [a \in Accounts |-> Malformed]
  /\ used = [a \in Accounts |-> {}]
  /\ accepted = [a \in Accounts |-> [leaf \in Leaves |-> 0]]
  /\ result = "Ok"

Next ==
  \/ NoAccount
  \/ \E a \in Accounts :
       \/ \E length \in Lengths : Allocate(a, length)
       \/ \E writable \in BOOLEAN : WrongAccount(a, writable)
       \/ UnknownInstruction(a)
       \/ \E signer \in BOOLEAN, t \in {0, 1}, k \in PublicKeys \cup {Malformed} :
            Create(a, signer, t, k)
       \/ \E digest \in Digests \cup {Malformed}, s \in Submitted \cup {Malformed} :
            VerifyRefused(a, digest, s) \/ VerifyGenuine(a, digest, s)

Spec == Init /\ [][Next]_vars

-----------------------------------------------------------------------------
(***************************************************************************)
(* Properties.                                                             *)
(***************************************************************************)

\* The variables stay in their ranges.
TypeOK ==
  /\ owner \in [Accounts -> {"system", "program"}]
  /\ len \in [Accounts -> Lengths \cup {0}]
  /\ tag \in [Accounts -> 0 .. 2]
  /\ key \in [Accounts -> PublicKeys \cup {Malformed}]
  /\ used \in [Accounts -> SUBSET (Nat \X (0 .. 7))]
  /\ accepted \in [Accounts -> [Leaves -> Nat]]
  /\ result \in Results

\* "Reused leaves are rejected": over all the transactions that ever land, in
\* whatever order and however often, an account accepts each leaf once.
LeafAcceptedOnce ==
  \A a \in Accounts, leaf \in Leaves : accepted[a][leaf] <= 1

\* "Unused XMSS leaves may arrive out of order": a leaf's bit is set exactly when
\* that leaf was accepted, so that no other leaf can use it up.
BitmapIsHistory ==
  \A a \in Accounts, leaf \in Leaves :
    BitOf(leaf) \in used[a] <=> accepted[a][leaf] > 0

\* "Verification checks the leaf bound before it is used to index the bitmap."
NeverPanics == result # "Panic"

\* A registered key stays: neither instruction replaces it, changes its instance
\* or gives a used leaf back.
NothingTakenBack ==
  \A a \in Accounts : tag[a] # 0 =>
    /\ tag'[a] = tag[a]
    /\ key'[a] = key[a]
    /\ used[a] \subseteq used'[a]
KeyStays == [][NothingTakenBack]_vars
=============================================================================
