--------------------------------- MODULE Xmss ---------------------------------
(***************************************************************************)
(* The instance with a tree, src/xmss.rs.  A key caches its tree in an array, *)
(* level after level, the leaves first and the root last; a signature carries *)
(* its leaf and the siblings on the way to the root.                         *)
(***************************************************************************)
EXTENDS TargetSum

CONSTANT HEIGHT  \* of the tree

\* Powers of two: a shift of 1.
Pow2[n \in Nat] == IF n = 0 THEN 1 ELSE 2 * Pow2[n - 1]

LEAVES == Pow2[HEIGHT]

\* Where level l starts in the array.
Level(l) == 2 * LEAVES - 2 * Pow2[HEIGHT - l]

\* mutant: the children of neighbouring nodes overlap
OverlappingNodes(secrets, parameter) ==
  LET node[n \in 0 .. 2 * LEAVES - 2] ==
        IF n < LEAVES
        THEN LeafHash(parameter, n, SecretEnds(secrets, parameter, n))
        ELSE LET l == CHOOSE l \in 1 .. HEIGHT : n - Level(l) \in 0 .. LEAVES \div Pow2[l] - 1
                 child == Level(l - 1) + n - Level(l)
             IN Node(parameter, l, n - Level(l), node[child], node[child + 1])
  IN node

\* The array as the loops fill it: the leaves, then each level from the one below.
Nodes(secrets, parameter) ==
  LET node[n \in 0 .. 2 * LEAVES - 2] ==
        IF n < LEAVES
        THEN LeafHash(parameter, n, SecretEnds(secrets, parameter, n))
        ELSE LET l == CHOOSE l \in 1 .. HEIGHT : n - Level(l) \in 0 .. LEAVES \div Pow2[l] - 1
                 i == n - Level(l)
                 child == Level(l - 1) + 2 * i
             IN Node(parameter, l, i, node[child], node[child + 1])
  IN node

FromSecrets(secrets, parameter) ==
  IF DOMAIN secrets = 0 .. LEAVES * CHAINS - 1
  THEN {[secrets |-> secrets, parameter |-> parameter, nodes |-> Nodes(secrets, parameter)]}
  ELSE {}

VerifyingKey(key) == [node |-> key.nodes[Level(HEIGHT)], parameter |-> key.parameter]

\* i ^ 1
Sibling(i) == IF i % 2 = 0 THEN i + 1 ELSE i - 1

SignAtWithSalt(key, leaf, message, salt) ==
  IF leaf >= LEAVES THEN {} ELSE
  {[leaf |-> leaf, salt |-> salt, elements |-> e,
    path |-> [l \in 0 .. HEIGHT - 1 |-> key.nodes[Level(l) + Sibling(leaf \div Pow2[l])]]] :
     e \in SignElements(key.secrets, key.parameter, leaf, message, salt)}

\* mutant: the side is read from the parent's bit
RootByParent(parameter, signature, ends) ==
  LET leaf == signature.leaf
      current[level \in 0 .. HEIGHT] ==
        IF level = 0 THEN LeafHash(parameter, leaf, ends) ELSE
        LET index == leaf \div Pow2[level]
            sibling == signature.path[level - 1]
        IN IF index % 2 = 0
           THEN Node(parameter, level, index, current[level - 1], sibling)
           ELSE Node(parameter, level, index, sibling, current[level - 1])
  IN current[HEIGHT]

\* The root a signature leads to, given its chain ends.
RootOf(parameter, signature, ends) ==
  LET leaf == signature.leaf
      current[level \in 0 .. HEIGHT] ==
        IF level = 0 THEN LeafHash(parameter, leaf, ends) ELSE
        LET index == leaf \div Pow2[level]
            sibling == signature.path[level - 1]
        IN IF (leaf \div Pow2[level - 1]) % 2 = 0
           THEN Node(parameter, level, index, current[level - 1], sibling)
           ELSE Node(parameter, level, index, sibling, current[level - 1])
  IN current[HEIGHT]

\* mutant: the leaf is masked to the height of the tree
VerifyMasked(verifying_key, message, signature) ==
  LET parameter == verifying_key.parameter
      masked == [signature EXCEPT !.leaf = @ % LEAVES] IN
  \E x \in Encode(signature.salt, parameter, masked.leaf, message) :
    RootOf(parameter, masked, Ends(parameter, masked.leaf, x, signature.elements))
      = verifying_key.node

Verify(verifying_key, message, signature) ==
  LET parameter == verifying_key.parameter IN
  /\ signature.leaf < LEAVES
  /\ \E x \in Encode(signature.salt, parameter, signature.leaf, message) :
       RootOf(parameter, signature, Ends(parameter, signature.leaf, x, signature.elements))
         = verifying_key.node
=============================================================================
