-------------------------------- MODULE CoreTs --------------------------------
(***************************************************************************)
(* The TypeScript port of the scheme, packages/winternitz/src: core.ts, the    *)
(* raw keys of hazmat/ and the verifier of verifying-key.ts, on the same        *)
(* symbolic hashes as the Rust crate.  A key made in one language is used, and   *)
(* its signatures verified, in the other.                                     *)
(***************************************************************************)
EXTENDS Construction3

\* encode: the digits low nibble first; an option is a set.
TsEncode(salt, parameter, leaf, message) ==
  LET digest == Digest(salt, parameter, leaf, message)
      x == [i \in Chains |->
             IF i % 2 = 0 THEN digest[i \div 2] % POSITIONS ELSE digest[i \div 2] \div POSITIONS]
  IN IF Sum(x) = TARGET_SUM THEN {x} ELSE {}

\* walk: step k, counted from where the walk begins in the chain, enters k + 1.
TsWalk(parameter, leaf, i, from, to, x) ==
  LET after[k \in from .. to] ==
        IF k = from THEN x ELSE <<"chain", parameter, leaf, i, (k - 1) + 1, after[k - 1]>>
  IN after[to]

TsStart(secrets, leaf, i) == secrets[leaf * CHAINS + i]

TsEndsOf(secrets, parameter, leaf) ==
  [i \in Chains |-> TsWalk(parameter, leaf, i, 0, POSITIONS - 1, TsStart(secrets, leaf, i))]

TsEndsFromSignature(parameter, leaf, x, elements) ==
  [i \in Chains |-> TsWalk(parameter, leaf, i, x[i], POSITIONS - 1, elements[i])]

\* signLeaf, one value for an accepted salt.
TsSignLeaf(secrets, parameter, leaf, message, salt) ==
  {[salt |-> salt,
    elements |-> [i \in Chains |-> TsWalk(parameter, leaf, i, 0, x[i], TsStart(secrets, leaf, i))]] :
     x \in TsEncode(salt, parameter, leaf, message)}

-----------------------------------------------------------------------------
(* The keys *)

\* levelOffset
TsLevelOffset(l) == 2 * X!LEAVES - 2 * X!Pow2[HEIGHT - l]

\* The private constructor of the XMSS key.
TsNodes(secrets, parameter) ==
  LET nodes[n \in 0 .. 2 * X!LEAVES - 2] ==
        IF n < X!LEAVES THEN LeafHash(parameter, n, TsEndsOf(secrets, parameter, n)) ELSE
        LET l == CHOOSE l \in 1 .. HEIGHT : n \in TsLevelOffset(l) .. TsLevelOffset(l) + X!LEAVES \div X!Pow2[l] - 1
            i == n - TsLevelOffset(l)
            child == TsLevelOffset(l - 1) + 2 * i
        IN Node(parameter, l, i, nodes[child], nodes[child + 1])
  IN nodes

TsVerifyingKey(secrets, parameter) ==
  [node |-> IF kind = "xmss" THEN TsNodes(secrets, parameter)[TsLevelOffset(HEIGHT)]
            ELSE LeafHash(parameter, 0, TsEndsOf(secrets, parameter, 0)),
   parameter |-> parameter]

\* The path of a leaf: nodes[levelOffset(l) + ((leaf >> l) ^ 1)].
TsPathNext(secrets, parameter, leaf) ==  \* mutant: the next node, on either side
  LET nodes == TsNodes(secrets, parameter) IN
  [l \in 0 .. HEIGHT - 1 |-> nodes[TsLevelOffset(l) + (leaf \div X!Pow2[l]) + 1]]
TsPath(secrets, parameter, leaf) ==
  LET nodes == TsNodes(secrets, parameter) IN
  [l \in 0 .. HEIGHT - 1 |->
     LET index == leaf \div X!Pow2[l]
     IN nodes[TsLevelOffset(l) + (IF index % 2 = 0 THEN index + 1 ELSE index - 1)]]

TsSignAtWithSalt(secrets, parameter, leaf, message, salt) ==
  IF leaf >= LeavesOf(kind) THEN {}
  ELSE IF kind = "winternitz" THEN TsSignLeaf(secrets, parameter, 0, message, salt)
  ELSE {[leaf |-> leaf, salt |-> s.salt, elements |-> s.elements,
         path |-> TsPath(secrets, parameter, leaf)] :
          s \in TsSignLeaf(secrets, parameter, leaf, message, salt)}

-----------------------------------------------------------------------------
(* The verifier *)

\* From the leaf to the root: the bit of the level below says the side.
TsCurrentByLevel(parameter, leaf, first, path) ==  \* mutant: the bit of this level
  LET current[level \in 0 .. HEIGHT] ==
        IF level = 0 THEN first ELSE
        IF (leaf \div X!Pow2[level]) % 2 = 1
        THEN Node(parameter, level, leaf \div X!Pow2[level], path[level - 1], current[level - 1])
        ELSE Node(parameter, level, leaf \div X!Pow2[level], current[level - 1], path[level - 1])
  IN current[HEIGHT]
TsCurrent(parameter, leaf, first, path) ==
  LET current[level \in 0 .. HEIGHT] ==
        IF level = 0 THEN first ELSE
        IF (leaf \div X!Pow2[level - 1]) % 2 = 1
        THEN Node(parameter, level, leaf \div X!Pow2[level], path[level - 1], current[level - 1])
        ELSE Node(parameter, level, leaf \div X!Pow2[level], current[level - 1], path[level - 1])
  IN current[HEIGHT]

\* VerifyingKey.verify; the class of the signature selects the instance.
TsVerify(verifyingKey, message, s) ==
  LET isXmss == kind = "xmss"
      leaf == IF isXmss THEN s.leaf ELSE 0
      parameter == verifyingKey.parameter
  IN /\ leaf < X!LEAVES
     /\ \E x \in TsEncode(s.salt, parameter, leaf, message) :
          LET first == LeafHash(parameter, leaf, TsEndsFromSignature(parameter, leaf, x, s.elements))
          IN verifyingKey.node = IF isXmss THEN TsCurrent(parameter, leaf, first, s.path) ELSE first

-----------------------------------------------------------------------------
(* Properties *)

\* A key's secrets make the same public key and, at each leaf, message and salt, the
\* same signature or none in both languages: a key file opened, or a retry made, in
\* the other language gives no second signature on a leaf.
SignersAgree ==
  \A k \in key :
    /\ TsVerifyingKey(k.secrets, k.parameter) = VerifyingKey(k)
    /\ \A leaf \in 0 .. X!LEAVES, message \in Messages, salt \in Salts :
         TsSignAtWithSalt(k.secrets, k.parameter, leaf, message, salt)
           = SignAtWithSalt(k, leaf, message, salt)

\* Both verifiers give one verdict: on what was released and on anything one change
\* away from it, for any message and under any parameter.
VerifiersAgree ==
  \A k \in key, r \in released :
    \A s \in {r.signature} \cup Changed(r.signature, k.parameter),
       message \in Messages, p \in Parameters :
      LET verifying_key == [VerifyingKey(k) EXCEPT !.parameter = p]
      IN TsVerify(verifying_key, message, s) <=> Verify(verifying_key, message, s)
=============================================================================
