----------------------------- MODULE MCKeyAccount -----------------------------
(***************************************************************************)
(* A small instance of KeyAccount for TLC: leaves on both sides of a byte   *)
(* boundary, four apart, the last of the tree and the first past it.         *)
(***************************************************************************)
EXTENDS KeyAccount, TLC

CONSTANTS kw, kx  \* a Winternitz key and an XMSS key

TheSignatures ==
  [kind : {"winternitz"}, key : {kw}, leaf : {0}, digest : Digests] \cup
  [kind : {"xmss"}, key : {kx}, leaf : {0, 4, 7, 8, 255, 256}, digest : Digests]

\* At leaf 0 of the tree one digest was signed; the other submission is a forgery.
MadeByTheSigner ==
  {s \in TheSignatures : s.leaf # 0 \/ s.kind = "winternitz" \/ s.digest = CHOOSE d \in Digests : TRUE}

ProgramSymmetry == Permutations(Accounts)
=============================================================================
