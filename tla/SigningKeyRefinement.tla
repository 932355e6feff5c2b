------------------------- MODULE SigningKeyRefinement -------------------------
(***************************************************************************)
(* SigningKey implements Definition8.  The abstract state is the record a    *)
(* reader is sure to find at `path` after the faults under consideration:    *)
(* the visible file if only processes fail, the oldest content a power loss  *)
(* may leave if the machine does.  While both may fail (a kill or an I/O     *)
(* error in the middle of `write`, then a power loss) SigningKey does not     *)
(* implement Definition8: the run reuse of MCSigningKey shows it.            *)
(***************************************************************************)
EXTENDS SigningKeyInvariant

Oldest(contents) ==
  IF contents \subseteq Record
  THEN CHOOSE r \in contents : \A q \in contents : r.next <= q.next
  ELSE None

Committed == Oldest(Survivable)

Abstract == INSTANCE Definition8 WITH state <- Committed, out <- released

\* The signers on one path, their files and their faults behave as one
\* Definition 8 state: attempts spend leaves one by one, and only the signature
\* of the attempt on record leaves.
ImplementsDefinition8 == Abstract!Spec
=============================================================================
