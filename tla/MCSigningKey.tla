---------------------------- MODULE MCSigningKey ----------------------------
(***************************************************************************)
(* Small instances of SigningKey for TLC.                                  *)
(***************************************************************************)
EXTENDS SigningKeyRefinement, TLC

CONSTANTS sa, sb, sc  \* salts that tell the leaves apart

\* Every salt is accepted.
AllAccepted == Signature

\* Two salts are accepted at every leaf, and neighbours share only one of them,
\* so a signature made for the wrong leaf is refused.
LeafwiseAccepted ==
  {s \in Signature : s.salt # (IF s.leaf % 2 = 0 THEN sc ELSE sa)}

\* Signers and messages are interchangeable.
SignerSymmetry == Permutations(Procs) \cup Permutations(Messages)
=============================================================================
