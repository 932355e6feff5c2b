------------------------------ MODULE Winternitz ------------------------------
(***************************************************************************)
(* The one-leaf instance, src/winternitz.rs.  A key is its chain starts and   *)
(* its parameter, a signature a salt and the chain elements.                 *)
(***************************************************************************)
EXTENDS TargetSum

LEAVES == 1

\* Starts of the right length make a key.
FromSecrets(secrets, parameter) ==
  IF DOMAIN secrets = 0 .. LEAVES * CHAINS - 1
  THEN {[secrets |-> secrets, parameter |-> parameter]}
  ELSE {}

VerifyingKey(key) ==
  [node |-> LeafHash(key.parameter, 0, SecretEnds(key.secrets, key.parameter, 0)),
   parameter |-> key.parameter]

SignAtWithSalt(key, leaf, message, salt) ==
  {[salt |-> salt, elements |-> e] :
     e \in IF leaf # 0 THEN {} ELSE SignElements(key.secrets, key.parameter, 0, message, salt)}

Verify(verifying_key, message, signature) ==
  \E x \in Encode(signature.salt, verifying_key.parameter, 0, message) :
    LeafHash(verifying_key.parameter, 0,
             Ends(verifying_key.parameter, 0, x, signature.elements)) = verifying_key.node
=============================================================================
