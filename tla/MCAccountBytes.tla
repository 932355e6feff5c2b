---------------------------- MODULE MCAccountBytes ----------------------------
(***************************************************************************)
(* AccountBytes for TLC, at the sizes of the code: 41-byte keys, signatures of *)
(* 849 and 1,037 bytes.  Each field is filled with one byte; the leaves are on  *)
(* both sides of a byte of the bitmap, the last of the tree, the first past it  *)
(* and one whose bytes read backwards name another leaf.                      *)
(***************************************************************************)
EXTENDS AccountBytes

Fill(n, byte) == [i \in 1 .. n |-> byte]

Key(id) == NewKey(Fill(ELEMENT_LENGTH, id), Fill(PARAMETER_LEN, id + 1))
TheKeys == {Key(10), Key(20)}
TheDigests == {Fill(MESSAGE_LEN, 30), Fill(MESSAGE_LEN, 31)}

Signed(kind, key, leaf, digest) ==
  [kind |-> kind, key |-> key, leaf |-> leaf, digest |-> digest,
   salt |-> Fill(SALT_LENGTH, 40 + (leaf % 8)), elements |-> Fill(ELEMENTS_LENGTH, 50),
   path |-> IF kind = "xmss" THEN Fill(HEIGHT * ELEMENT_LENGTH, 60) ELSE <<>>]

TheSignatures ==
  {Signed("winternitz", Key(10), 0, d) : d \in TheDigests} \cup
  {Signed("xmss", Key(20), leaf, Fill(MESSAGE_LEN, 30)) : leaf \in {0, 7, 8, 255, 256, 16777216}}

\* As they are, cut short by a byte and with a byte more.
Changed(instructions) ==
  instructions \cup {SubSeq(i, 1, Len(i) - 1) : i \in instructions}
               \cup {Append(i, 0) : i \in instructions}

\* Nothing, an unknown tag, no whole digest, a digest that was not signed; and what
\* was sent, changed.
TheInstructions ==
  {<<>>, <<3>> \o Key(10), <<2>> \o Fill(MESSAGE_LEN - 1, 30)} \cup
  {<<2>> \o Fill(MESSAGE_LEN, 32) \o Wire(s) : s \in {t \in TheSignatures : t.leaf = 0}} \cup
  Changed({<<tag>> \o key : tag \in {0, 1}, key \in TheKeys} \cup
          {<<2>> \o s.digest \o Wire(s) : s \in TheSignatures})
=============================================================================
