------------------------------- MODULE MCHazmat -------------------------------
(***************************************************************************)
(* A small instance of raw signing for TLC: trees of four leaves, four digits *)
(* of base three, and digests that leave one leaf and message without an        *)
(* accepted salt and the others with both accepted and rejected ones.          *)
(***************************************************************************)
EXTENDS CoreTs

TheDigest(salt, parameter, leaf, message) ==
  LET h == 6 * salt + 10 * message + leaf + 4 * parameter + 11 * (salt * message) + leaf * leaf
  IN [j \in 0 .. (CHAINS \div 2) - 1 |-> (h * (j + 1) + (h \div 3) * j + h * h) % (POSITIONS ^ 2)]
=============================================================================
