------------------------------ MODULE TargetSum ------------------------------
(***************************************************************************)
(* The target-sum encoding and the hash chains of src/lib.rs.  Keccak-256 is *)
(* symbolic: a hash is the tuple of what it hashes, so hashes are equal when  *)
(* their inputs are.  The inputs of different roles differ in length, so the  *)
(* role stands for the whole layout; the byte order of a tweak's integers      *)
(* changes no equality.  Digests are what the encoding takes apart, so they    *)
(* are given: Digest yields the first CHAINS / 2 bytes, two digits each.       *)
(* Indices count from 0, as in the code.                                     *)
(***************************************************************************)
EXTENDS Naturals

CONSTANTS
  CHAINS,           \* digits of a codeword, and chains of a leaf
  POSITIONS,        \* values of a digit, and positions of a chain
  TARGET_SUM,       \* what the digits of an accepted codeword add up to
  Digest(_, _, _, _) \* of salt, parameter, leaf and message

ASSUME EncodingOK ==
  /\ CHAINS \in Nat \ {0} /\ CHAINS % 2 = 0 /\ POSITIONS \in Nat \ {0}
  /\ TARGET_SUM \in Nat

Chains == 0 .. CHAINS - 1
Positions == 0 .. POSITIONS - 1
Digests == [0 .. (CHAINS \div 2) - 1 -> 0 .. POSITIONS * POSITIONS - 1]

-----------------------------------------------------------------------------
(* The encoding.  An option is a set of at most one value. *)

\* The digits of a digest, the low one of each byte first.
Digits(digest) ==
  [i \in Chains |-> (digest[i \div 2] \div (IF i % 2 = 0 THEN 1 ELSE POSITIONS)) % POSITIONS]

\* What the digits of a codeword add up to.
Sum(x) ==
  LET first[n \in 0 .. CHAINS] == IF n = 0 THEN 0 ELSE first[n - 1] + x[n - 1]
  IN first[CHAINS]

\* mutant: any digest at least as heavy as the target
CodewordAtLeast(digest) ==
  IF Sum(Digits(digest)) >= TARGET_SUM THEN {Digits(digest)} ELSE {}

\* The digits, if they hit the target.
Codeword(digest) ==
  IF Sum(Digits(digest)) = TARGET_SUM THEN {Digits(digest)} ELSE {}

Encode(salt, parameter, leaf, message) ==
  Codeword(Digest(salt, parameter, leaf, message))

-----------------------------------------------------------------------------
(* The chains *)

\* mutant: the tweak counts the steps of this walk
WalkRelative(parameter, leaf, i, from, to, start) ==
  LET at[k \in from .. to] ==
        IF k = from THEN start ELSE <<"chain", parameter, leaf, i, k - from, at[k - 1]>>
  IN at[to]

\* The step that enters position k uses tweak k, wherever the walk began.
Walk(parameter, leaf, i, from, to, start) ==
  LET at[k \in from .. to] ==
        IF k = from THEN start ELSE <<"chain", parameter, leaf, i, k, at[k - 1]>>
  IN at[to]

\* The verifier's ends: each element walked from its digit on.
Ends(parameter, leaf, x, elements) ==
  [i \in Chains |-> Walk(parameter, leaf, i, x[i], POSITIONS - 1, elements[i])]

LeafHash(parameter, leaf, ends) == <<"tree", parameter, 0, leaf, ends>>

Node(parameter, level, index, left, right) == <<"tree", parameter, level, index, left, right>>

\* The start of a chain, in a buffer that holds the chains of leaf after leaf.
Start(secrets, leaf, i) == secrets[leaf * CHAINS + i]

\* The signer's ends: each start walked from 0.
SecretEnds(secrets, parameter, leaf) ==
  [i \in Chains |-> Walk(parameter, leaf, i, 0, POSITIONS - 1, Start(secrets, leaf, i))]

\* The elements of a signature, for each accepted codeword.
SignElements(secrets, parameter, leaf, message, salt) ==
  {[i \in Chains |-> Walk(parameter, leaf, i, 0, x[i], Start(secrets, leaf, i))] :
     x \in Encode(salt, parameter, leaf, message)}
=============================================================================
