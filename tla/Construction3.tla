----------------------------- MODULE Construction3 -----------------------------
(***************************************************************************)
(* What raw signing promises: the scheme of the paper, stated without          *)
(* buffers, arrays, offsets or loops, and the agreement of Hazmat with it.    *)
(***************************************************************************)
EXTENDS Hazmat

\* Position k of every chain.
Chain(parameter, leaf, i) ==
  LET at[k \in Positions] ==
        IF k = 0 THEN <<"start", leaf, i>> ELSE <<"chain", parameter, leaf, i, k, at[k - 1]>>
  IN at

\* The Merkle tree over the ends of the chains, level by level.
Tree(parameter) ==
  LET level[l \in 0 .. HEIGHT] ==
        [j \in 0 .. X!Pow2[HEIGHT - l] - 1 |->
           IF l = 0
           THEN LeafHash(parameter, j, [i \in Chains |-> Chain(parameter, j, i)[POSITIONS - 1]])
           ELSE Node(parameter, l, j, level[l - 1][2 * j], level[l - 1][2 * j + 1])]
  IN level

Elements(parameter, leaf, x) == [i \in Chains |-> Chain(parameter, leaf, i)[x[i]]]

\* At each level the other child of the ancestor above.
Path(parameter, leaf) ==
  [l \in 0 .. HEIGHT - 1 |->
     Tree(parameter)[l][CHOOSE j \in 0 .. X!Pow2[HEIGHT - l] - 1 :
                          j # leaf \div X!Pow2[l] /\ j \div 2 = leaf \div X!Pow2[l + 1]]]

LeafOf(s) == IF kind = "winternitz" THEN 0 ELSE s.leaf

\* The signatures of a message at the salt and leaf s names.
IsSignature(s, parameter, message) ==
  /\ LeafOf(s) < LeavesOf(kind)
  /\ \E x \in Encode(s.salt, parameter, LeafOf(s), message) :
       s.elements = Elements(parameter, LeafOf(s), x)
  /\ kind = "xmss" => s.path = Path(parameter, s.leaf)

Root(parameter) ==
  IF kind = "xmss" THEN Tree(parameter)[HEIGHT][0]
  ELSE LeafHash(parameter, 0, [i \in Chains |-> Chain(parameter, 0, i)[POSITIONS - 1]])

-----------------------------------------------------------------------------
(* Changes of a signature: one component replaced by another value of its sort *)

ChainValues(parameter) ==
  {Zero} \cup {Chain(parameter, l, i)[k] : l \in 0 .. LeavesOf(kind) - 1, i \in Chains, k \in Positions}

TreeValues(parameter) ==
  {Zero} \cup UNION {{Tree(parameter)[l][j] : j \in DOMAIN Tree(parameter)[l]} : l \in 0 .. HEIGHT}

Changed(s, parameter) ==
  {[s EXCEPT !.salt = t] : t \in Salts} \cup
  {[s EXCEPT !.elements[i] = e] : i \in Chains, e \in ChainValues(parameter)} \cup
  IF kind = "winternitz" THEN {} ELSE
    {[s EXCEPT !.leaf = l] : l \in 0 .. X!LEAVES} \cup
    {[s EXCEPT !.path[l] = n] : l \in 0 .. HEIGHT - 1, n \in TreeValues(parameter)}

-----------------------------------------------------------------------------
(* Properties *)

\* The variables stay in their ranges: only allocated leaves have signatures and
\* a call in progress has tried fewer than MAX_TRIALS salts.
TypeOK ==
  /\ kind \in Kinds
  /\ Cardinality(key) <= 1
  /\ attempted \subseteq 0 .. LeavesOf(kind) - 1
  /\ call \in {Idle} \cup [op : {"generate"}, filled : 0 .. LeavesOf(kind)] \cup
       [op : {"sign_at"}, leaf : attempted, message : Messages, trials : 0 .. MAX_TRIALS - 1]
  /\ \A r \in released : r.leaf \in attempted /\ r.message \in Messages
  /\ result \in {"none", "Ok", "Random", "InvalidLength", "InvalidLeaf", "SaltsExhausted"}

\* The cached array, level after level, holds the Merkle tree over the chains of
\* every leaf, and the public key is its root: for a generated and an imported key
\* (xmss.rs from_secrets and level, hazmat.rs generate).
KeyIsTheTree ==
  \A k \in key :
    /\ VerifyingKey(k) = [node |-> Root(k.parameter), parameter |-> k.parameter]
    /\ kind = "xmss" =>
         \A l \in 0 .. HEIGHT : \A j \in DOMAIN Tree(k.parameter)[l] :
           k.nodes[X!Level(l) + j] = Tree(k.parameter)[l][j]

\* Whatever sign_at or a repetition returns is the signature of the scheme and
\* verifies: signer and verifier agree on digits, tweaks, offsets and siblings.
ReleasedVerify ==
  \A k \in key, r \in released :
    /\ IsSignature(r.signature, k.parameter, r.message)
    /\ LeafOf(r.signature) = r.leaf
    /\ Verify(VerifyingKey(k), r.message, r.signature)

\* A signature with one component replaced, or shown for another message or under
\* another parameter, verifies exactly if it still is a signature of the scheme
\* (winternitz.rs and xmss.rs verify).
VerdictIsHonest ==
  \A k \in key, r \in released :
    \A s \in Changed(r.signature, k.parameter), message \in Messages, p \in Parameters :
      Verify([VerifyingKey(k) EXCEPT !.parameter = p], message, s)
        <=> p = k.parameter /\ IsSignature(s, p, message)

\* What a signature exposes of its chains, walking on, reaches the elements of no
\* other digest: codewords of one sum are incomparable and fix all their digest's
\* bytes (lib.rs encode and the comment at TARGET_SUM).
OnlyTheSignedDigest ==
  \A k \in key, r \in released :
    LET signed == Digest(r.signature.salt, k.parameter, r.leaf, r.message)
        exposed == [i \in Chains |->
          UNION {{Walk(k.parameter, r.leaf, i, x[i], to, r.signature.elements[i]) : to \in x[i] .. POSITIONS - 1} :
                   x \in Codeword(signed)}]
    IN \A d \in Digests : \A x \in Codeword(d) :
         (\A i \in Chains : Elements(k.parameter, r.leaf, x)[i] \in exposed[i]) => d = signed

\* Between calls the buffer of generate holds no secrets, however the call ended.
BufferWiped ==
  call.op # "generate" => \A n \in DOMAIN buffer : buffer[n] = Zero

\* Every call returns, even if no salt is ever accepted.
CallsReturn == call # Idle ~> call = Idle
=============================================================================
