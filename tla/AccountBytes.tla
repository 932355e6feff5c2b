----------------------------- MODULE AccountBytes -----------------------------
(***************************************************************************)
(* The example program on bytes, program/src/lib.rs: the 74 bytes of an        *)
(* account and the bytes of the instructions that reach it.  KeyAccount calls   *)
(* the account a tag, a key and a set of bits, and an instruction its parts;    *)
(* this module implements it.  Instructions of any content reach the program:   *)
(* cut short, extended, with a tag it does not know, signatures of the other    *)
(* instance, leaves no tree has.                                              *)
(***************************************************************************)
EXTENDS Encodings

CONSTANTS
  Address,       \* the account
  Keys,          \* public keys
  Digests,       \* digests, as bytes
  Signatures,    \* what signers of those keys made, at any 32-bit leaf: records of
                 \* kind, key, leaf, digest, salt, elements and path
  Instructions,  \* the instruction data that reach the program
  Malformed      \* an argument that is none, in KeyAccount

KEY_END == 1 + PUBLIC_KEY_LEN
KEY_ACCOUNT_LEN == KEY_END + 32
Lengths == {KEY_ACCOUNT_LEN - 1, KEY_ACCOUNT_LEN}

\* A signature's bytes, and what KeyAccount knows of it.
Wire(s) == NewSignature(s.kind, s.leaf, s.salt, s.elements, s.path)
Submission(s) == [kind |-> s.kind, key |-> s.key, leaf |-> s.leaf, digest |-> s.digest]

\* The sizes of the code, which KeyAccount counts with.
ASSUME AccountSizes == BYTE = 256 /\ PUBLIC_KEY_LEN = 41 /\ LEAVES = 256

\* Keys has the key of every instruction that creates an account.  There is more than
\* one digest, and a signature of either instance.
ASSUME AccountBytesOK ==
  /\ \A k \in Keys : DecodesKey(k)
  /\ \A d \in Digests : Len(d) = MESSAGE_LEN
  /\ \E d, e \in Digests : d # e
  /\ \A s \in Signatures :
       /\ s.kind \in Instances /\ s.key \in Keys /\ s.leaf \in Nat /\ s.digest \in Digests
       /\ s.kind = "winternitz" => s.leaf = 0
       /\ DecodesSignature(s.kind, Wire(s))
  /\ \A k \in Instances : \E s \in Signatures : s.kind = k
  /\ \A i \in Instructions :
       /\ i \in Seq(Byte)
       /\ i # <<>> /\ i[1] < 2 /\ DecodesKey(Tail(i)) => Tail(i) \in Keys
  /\ Malformed \notin Keys \cup Digests \cup {Submission(s) : s \in Signatures}

VARIABLES
  owner,    \* "system" until the account is allocated to the program
  data,     \* its bytes
  accepted, \* accepted[leaf]: how often verify has returned Ok (history variable)
  input,    \* the last instruction data, where they matter
  result    \* what it returned

vars == <<owner, data, accepted, input, result>>

Leaves == {s.leaf : s \in Signatures}
Zeros(n) == [i \in 1 .. n |-> 0]

-----------------------------------------------------------------------------
\* The encoding, the chains and the path close on the key.
Closes(k, root, parameter, leaf, salt, elements, path, digest) ==
  \E s \in Signatures :
    /\ s.kind = k
    /\ s.key = NewKey(root, parameter)
    /\ s.leaf = leaf
    /\ s.digest = digest
    /\ s.salt = salt /\ s.elements = elements /\ s.path = path

\* VerifyingKey::verify of a decoded signature.
Verify(k, key, digest, signature) ==
  LET leaf == Leaf(k, signature) IN
  /\ k = "xmss" => leaf < LEAVES
  /\ Closes(k, Node(key), Parameter(key), leaf, Salt(k, signature),
            Elements(k, signature), Path(k, signature), digest)

\* Byte and mask of a leaf in the account.
Mask(bit) == 2 ^ bit
ByteOf(leaf) == KEY_END + leaf \div 8
MaskOf(leaf) == Mask(leaf % 8)
IsSet(byte, mask) == (byte \div mask) % 2 = 1

Refuse(error) == result' = error /\ UNCHANGED <<owner, data, accepted>>

Create(signer, tag, key) ==
  \/ ~signer /\ Refuse("MissingRequiredSignature")
  \/ signer /\ ~DecodesKey(key) /\ Refuse("InvalidInstructionData")
  \/ signer /\ DecodesKey(key) /\ data[1] # 0 /\ Refuse("AccountAlreadyInitialized")
  \/ /\ signer
     /\ DecodesKey(key)
     /\ data[1] = 0
     /\ data' = <<tag + 1>> \o Slice(key, 0, PUBLIC_KEY_LEN) \o Zeros(KEY_ACCOUNT_LEN - KEY_END)
     /\ result' = "Ok"
     /\ UNCHANGED <<owner, accepted>>

\* The leaf's bit, once the signature has verified.
UseLeafAgain(leaf) ==  \* mutant: the bit is not looked at
  /\ data' = [data EXCEPT ![ByteOf(leaf) + 1] = IF IsSet(@, MaskOf(leaf)) THEN @ ELSE @ + MaskOf(leaf)]
  /\ accepted' = [accepted EXCEPT ![leaf] = @ + 1]
  /\ result' = "Ok"
  /\ UNCHANGED owner
UseLeaf(leaf) ==
  \/ ByteOf(leaf) >= Len(data) /\ Refuse("Panic")
  \/ /\ ByteOf(leaf) < Len(data)
     /\ IsSet(data[ByteOf(leaf) + 1], MaskOf(leaf))
     /\ Refuse("LeafReused")
  \/ /\ ByteOf(leaf) < Len(data)
     /\ ~IsSet(data[ByteOf(leaf) + 1], MaskOf(leaf))
     /\ data' = [data EXCEPT ![ByteOf(leaf) + 1] = @ + MaskOf(leaf)]
     /\ accepted' = [accepted EXCEPT ![leaf] = @ + 1]
     /\ result' = "Ok"
     /\ UNCHANGED owner

\* A tag above 2, which is InvalidAccountData, is never stored: ImplementsKeyAccount.
VerifySignature(digest, signature) ==
  LET kind == IF data[1] = 1 THEN "winternitz" ELSE "xmss"
      key == Slice(data, 1, KEY_END)
  IN
  \/ data[1] = 0 /\ Refuse("UninitializedAccount")
  \/ data[1] # 0 /\ ~DecodesSignature(kind, signature) /\ Refuse("InvalidInstructionData")
  \/ /\ data[1] # 0
     /\ DecodesSignature(kind, signature)
     /\ \/ ~Verify(kind, key, digest, signature) /\ Refuse("InvalidSignature")
        \/ Verify(kind, key, digest, signature) /\ UseLeaf(Leaf(kind, signature))

VerifyInstruction(arguments) ==
  \/ Len(arguments) < MESSAGE_LEN /\ Refuse("InvalidInstructionData")
  \/ /\ Len(arguments) >= MESSAGE_LEN
     /\ VerifySignature(Slice(arguments, 0, MESSAGE_LEN),
                        Slice(arguments, MESSAGE_LEN, Len(arguments)))

\* The checks process_instruction makes before it looks at the instruction.
Ours(writable) == owner = "program" /\ writable /\ Len(data) = KEY_ACCOUNT_LEN

\* process_instruction: the account first, then the tag.
ProcessInstruction(writable, signer, bytes) ==
  /\ input' = bytes
  /\ \/ owner # "program" /\ Refuse("IncorrectProgramId")
     \/ owner = "program" /\ ~Ours(writable) /\ Refuse("InvalidAccountData")
     \/ Ours(writable) /\ bytes = <<>> /\ Refuse("InvalidInstructionData")
     \/ /\ Ours(writable)
        /\ bytes # <<>>
        /\ \/ bytes[1] < 2 /\ Create(signer, bytes[1], Tail(bytes))
           \/ bytes[1] = 2 /\ VerifyInstruction(Tail(bytes))
           \/ bytes[1] > 2 /\ Refuse("InvalidInstructionData")

\* An instruction that names no account; its data are not looked at.
NoAccount == input' = <<>> /\ Refuse("NotEnoughAccountKeys")

\* The System Program allocates the account: zeroed data, owned by the program.
Allocate(length) ==
  /\ owner = "system"
  /\ owner' = "program"
  /\ data' = Zeros(length)
  /\ UNCHANGED <<accepted, input, result>>

Init ==
  /\ owner = "system"
  /\ data = <<>>
  /\ accepted = [leaf \in Leaves |-> 0]
  /\ input = <<>>
  /\ result = "Ok"

Next ==
  \/ \E length \in Lengths : Allocate(length)
  \/ \E writable, signer \in BOOLEAN, bytes \in Instructions :
       ProcessInstruction(writable, signer, bytes)
  \/ NoAccount

Spec == Init /\ [][Next]_vars

-----------------------------------------------------------------------------
(* Properties *)

\* An instruction succeeds only if, to the last byte, it registers a key or carries a
\* signature that the account's key made of the digest, at a leaf of its tree: nothing
\* cut short, extended or of the other instance does, and the bytes say which leaf.
ExactInstructions ==
  result = "Ok" /\ input # <<>> =>
    \/ \E tag \in {0, 1}, key \in Keys :
         /\ input = <<tag>> \o key
         /\ data = <<tag + 1>> \o key \o Zeros(KEY_ACCOUNT_LEN - KEY_END)
    \/ \E s \in Signatures :
         /\ input = <<2>> \o s.digest \o Wire(s)
         /\ Slice(data, 0, KEY_END) = <<IF s.kind = "winternitz" THEN 1 ELSE 2>> \o s.key
         /\ s.kind = "xmss" => s.leaf < LEAVES
         /\ IsSet(data[ByteOf(s.leaf) + 1], MaskOf(s.leaf))

\* What KeyAccount sees of the bytes.
Tag == IF data = <<>> THEN 0 ELSE data[1]
UsedBits ==
  {bit \in (KEY_END .. KEY_ACCOUNT_LEN - 1) \X (0 .. 7) :
     bit[1] < Len(data) /\ IsSet(data[bit[1] + 1], Mask(bit[2]))}

Abstract == INSTANCE KeyAccount WITH
  Accounts <- {Address}, PublicKeys <- Keys,
  Submitted <- {Submission(s) : s \in Signatures},
  Genuine <- {Submission(s) : s \in Signatures},
  owner <- [a \in {Address} |-> owner],
  len <- [a \in {Address} |-> Len(data)],
  tag <- [a \in {Address} |-> Tag],
  key <- [a \in {Address} |-> IF Tag = 0 THEN Malformed ELSE Slice(data, 1, KEY_END)],
  used <- [a \in {Address} |-> UsedBits],
  accepted <- [a \in {Address} |-> accepted]

\* The program on bytes is the program on keys, leaves and bits: what is proved of
\* KeyAccount, each leaf accepted once and a registered key for good, holds of the
\* account's bytes.
ImplementsKeyAccount == Abstract!Spec
=============================================================================
