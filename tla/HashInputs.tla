------------------------------ MODULE HashInputs ------------------------------
(***************************************************************************)
(* What src/lib.rs hashes, byte for byte.  hashv (src/hash.rs) hashes the      *)
(* concatenation of its slices and puts no length or separator between them,   *)
(* so that two calls are told apart by these layouts alone.  TargetSum, whose  *)
(* hashes are tuples, relies on this module.                                 *)
(***************************************************************************)
EXTENDS Bytes

CONSTANT MaxLeaf  \* bound for TLC: leaves and node indices that are hashed

VARIABLE call  \* the call of hashv that has been made, NoCall before it

\* Only the length tells the message input from the others: its role byte is not
\* where theirs is.  58 # 30, 834 and 52.
ASSUME LayoutOK ==
  /\ BYTE > 2
  /\ SALT_LENGTH + 5 + MESSAGE_LEN
       \notin {7 + ELEMENT_LENGTH, 6 + ELEMENTS_LENGTH, 6 + 2 * ELEMENT_LENGTH}
  /\ MaxLeaf \in Nat

ROLE_CHAIN == 0
ROLE_TREE == 1
ROLE_MESSAGE == 2

-----------------------------------------------------------------------------
(* The calls of the hash function and what each of them is about.  *)

MessageCalls == [of : {"message"}, salt : Strings(SALT_LENGTH), parameter : Strings(PARAMETER_LEN),
                 leaf : 0 .. MaxLeaf, message : Strings(MESSAGE_LEN)]
ChainCalls == [of : {"chain"}, parameter : Strings(PARAMETER_LEN), leaf : 0 .. MaxLeaf,
               i : Byte, k : Byte, value : Strings(ELEMENT_LENGTH)]
LeafCalls == [of : {"leaf"}, parameter : Strings(PARAMETER_LEN), leaf : 0 .. MaxLeaf,
              ends : Strings(ELEMENTS_LENGTH)]
NodeCalls == [of : {"node"}, parameter : Strings(PARAMETER_LEN), level : Byte \ {0},
              index : 0 .. MaxLeaf, left : Strings(ELEMENT_LENGTH), right : Strings(ELEMENT_LENGTH)]
Calls == MessageCalls \cup ChainCalls \cup LeafCalls \cup NodeCalls

-----------------------------------------------------------------------------
(* The bytes of a call *)

\* encode: the one tweak with a little-endian leaf.
MessageInput(c) ==
  c.salt \o (c.parameter \o (<<ROLE_MESSAGE>> \o (LittleEndian(c.leaf) \o c.message)))

\* Chain::walk: the one buffer, its value replaced at each step.
ChainInputNoPosition(c) ==  \* mutant: the position is not written
  c.parameter \o (<<ROLE_CHAIN>> \o (BigEndian(c.leaf) \o (<<c.i, 0>> \o c.value)))
ChainInput(c) ==
  c.parameter \o (<<ROLE_CHAIN>> \o (BigEndian(c.leaf) \o (<<c.i, c.k>> \o c.value)))

TweakNoLevel(level, index) == <<ROLE_TREE, 0>> \o BigEndian(index)  \* mutant: all levels alike
TreeTweak(level, index) == <<ROLE_TREE, level>> \o BigEndian(index)

LeafInput(c) == c.parameter \o (TreeTweak(0, c.leaf) \o c.ends)
NodeInput(c) == c.parameter \o (TreeTweak(c.level, c.index) \o (c.left \o c.right))

Input(c) ==
  CASE c.of = "message" -> MessageInput(c)
    [] c.of = "chain" -> ChainInput(c)
    [] c.of = "leaf" -> LeafInput(c)
    [] c.of = "node" -> NodeInput(c)

NoCall == [of |-> "none"]

HashInit == call = NoCall
Hash == call = NoCall /\ call' \in Calls
HashSpec == HashInit /\ [][Hash]_call

-----------------------------------------------------------------------------
\* Domain separation, DKKW25 eqs. (17) to (19): no two calls that differ in role,
\* parameter, leaf, chain, position, level, index or data hash the same bytes, for
\* any contents: neither inside a signature nor between leaves, keys or instances.
InputsTellCallsApart ==
  call # NoCall => \A other \in Calls : Input(call) = Input(other) => call = other
=============================================================================
