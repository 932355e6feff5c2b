---------------------------- MODULE MCSigningKeyTs ----------------------------
(***************************************************************************)
(* A Rust and a TypeScript signer on one path, for TLC.                      *)
(***************************************************************************)
EXTENDS SigningKeyTs, TLC

CONSTANTS sa, sb  \* salts that tell the leaves apart

\* Both salts are accepted at the first leaf, one at the second.
LeafwiseAccepted == {s \in Signature : s.leaf = 0 \/ s.salt = sb}

MessageSymmetry == Permutations(Messages)
=============================================================================
