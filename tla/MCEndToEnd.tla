------------------------------ MODULE MCEndToEnd ------------------------------
(***************************************************************************)
(* A small instance of EndToEnd for TLC.                                     *)
(***************************************************************************)
EXTENDS EndToEnd, TLC

EverySignature == Signature

MessageSymmetry == Permutations(Messages) \cup Permutations(Salts)
=============================================================================
