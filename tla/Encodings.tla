------------------------------- MODULE Encodings -------------------------------
(***************************************************************************)
(* The fixed encodings of public keys and signatures, src/lib.rs,             *)
(* src/winternitz.rs and src/xmss.rs: the fields, where they are, and what     *)
(* the verifier takes from them.  Decoding checks the length and nothing else;  *)
(* a decoded value is its bytes, copied or borrowed.                           *)
(***************************************************************************)
EXTENDS Bytes

CONSTANT HEIGHT  \* 8, of the XMSS tree

ASSUME EncodingsOK == HEIGHT \in Nat

Instances == {"winternitz", "xmss"}

LEAVES == 2 ^ HEIGHT
PUBLIC_KEY_LEN == ELEMENT_LENGTH + PARAMETER_LEN

\* The offsets of a signature; a Winternitz signature has no leaf and no path.
SALT(k) == IF k = "xmss" THEN 4 ELSE 0
ELEMENTS(k) == SALT(k) + SALT_LENGTH
PATH(k) == ELEMENTS(k) + ELEMENTS_LENGTH
SIGNATURE_LEN(k) == IF k = "xmss" THEN PATH(k) + HEIGHT * ELEMENT_LENGTH ELSE PATH(k)

-----------------------------------------------------------------------------
\* from_slice, ref_from_bytes: exactly this many bytes.
DecodesKey(bytes) == Len(bytes) = PUBLIC_KEY_LEN

DecodesWinternitz(bytes) == Len(bytes) = SIGNATURE_LEN("winternitz")
DecodesXmss(bytes) == Len(bytes) = SIGNATURE_LEN("xmss")

\* The instance selects the type, and with it the decoder.
DecodesSignaturePrefix(k, bytes) == Len(bytes) >= SIGNATURE_LEN(k)  \* mutant: more bytes are ignored
DecodesSignature(k, bytes) ==
  IF k = "xmss" THEN DecodesXmss(bytes) ELSE DecodesWinternitz(bytes)

\* VerifyingKey::new, node and parameter.
NewKey(root, parameter) == root \o parameter
Node(key) == Slice(key, 0, ELEMENT_LENGTH)
Parameter(key) == Slice(key, ELEMENT_LENGTH, PUBLIC_KEY_LEN)

\* What sign_at_with_salt puts together.
NewSignature(k, leaf, salt, elements, path) ==
  IF k = "xmss" THEN BigEndian(leaf) \o salt \o elements \o path ELSE salt \o elements

\* What verification takes apart.
Leaf(k, signature) ==
  IF k = "xmss" THEN FromBigEndian(Slice(signature, 0, 4)) ELSE 0
Salt(k, signature) == Slice(signature, SALT(k), ELEMENTS(k))
Elements(k, signature) == Slice(signature, ELEMENTS(k), PATH(k))
Path(k, signature) == Slice(signature, PATH(k), SIGNATURE_LEN(k))
=============================================================================
