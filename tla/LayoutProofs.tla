---------------------------- MODULE LayoutProofs ----------------------------
(***************************************************************************)
(* The theorems about byte layouts, for every length and byte size            *)
(* LayoutOK allows: hash inputs tell their calls apart (HashInputs), and a      *)
(* record, for fields of any length and any tree, is read as it was written     *)
(* (KeyRecord).                                                              *)
(***************************************************************************)
EXTENDS KeyRecord, HashInputs, BytesProofs

-----------------------------------------------------------------------------
(* Inputs *)

\* The parts of an input are sequences of numbers.
LEMMA PartsAreSeqs ==
  /\ \A c \in MessageCalls :
       /\ {c.salt, c.parameter, c.message} \subseteq Seq(Nat)
       /\ Len(c.salt) = SALT_LENGTH /\ Len(c.parameter) = PARAMETER_LEN
       /\ Len(c.message) = MESSAGE_LEN
       /\ c.leaf \in Nat
  /\ \A c \in ChainCalls :
       /\ {c.parameter, c.value} \subseteq Seq(Nat)
       /\ Len(c.parameter) = PARAMETER_LEN /\ Len(c.value) = ELEMENT_LENGTH
       /\ c.leaf \in Nat /\ c.i \in Nat /\ c.k \in Nat
  /\ \A c \in LeafCalls :
       /\ {c.parameter, c.ends} \subseteq Seq(Nat)
       /\ Len(c.parameter) = PARAMETER_LEN /\ Len(c.ends) = ELEMENTS_LENGTH
       /\ c.leaf \in Nat
  /\ \A c \in NodeCalls :
       /\ {c.parameter, c.left, c.right} \subseteq Seq(Nat)
       /\ Len(c.parameter) = PARAMETER_LEN
       /\ Len(c.left) = ELEMENT_LENGTH /\ Len(c.right) = ELEMENT_LENGTH
       /\ c.level \in Nat /\ c.index \in Nat /\ c.level # 0
<1>1. {SALT_LENGTH, PARAMETER_LEN, MESSAGE_LEN, ELEMENT_LENGTH, CHAINS, ELEMENTS_LENGTH} \subseteq Nat
  BY SizesOK DEF ELEMENTS_LENGTH
<1>2. /\ \A n \in 0 .. MaxLeaf : n \in Nat
      /\ \A n \in Byte : n \in Nat
      /\ \A n \in Byte \ {0} : n \in Nat /\ n # 0
  BY SizesOK, LayoutOK, ByteOK DEF Byte
<1>3. ASSUME NEW c \in MessageCalls
      PROVE  /\ {c.salt, c.parameter, c.message} \subseteq Seq(Nat)
             /\ Len(c.salt) = SALT_LENGTH /\ Len(c.parameter) = PARAMETER_LEN
             /\ Len(c.message) = MESSAGE_LEN
             /\ c.leaf \in Nat
  BY <1>1, <1>2, StringIsSeq DEF MessageCalls
<1>4. ASSUME NEW c \in ChainCalls
      PROVE  /\ {c.parameter, c.value} \subseteq Seq(Nat)
             /\ Len(c.parameter) = PARAMETER_LEN /\ Len(c.value) = ELEMENT_LENGTH
             /\ c.leaf \in Nat /\ c.i \in Nat /\ c.k \in Nat
  <2>1. /\ c.parameter \in Strings(PARAMETER_LEN) /\ c.value \in Strings(ELEMENT_LENGTH)
        /\ c.leaf \in 0 .. MaxLeaf /\ c.i \in Byte /\ c.k \in Byte
    BY DEF ChainCalls
  <2>2. c.leaf \in Nat /\ c.i \in Nat /\ c.k \in Nat
    BY <2>1, <1>2, Zenon
  <2> QED BY <1>1, <2>1, <2>2, StringIsSeq
<1>5. ASSUME NEW c \in LeafCalls
      PROVE  /\ {c.parameter, c.ends} \subseteq Seq(Nat)
             /\ Len(c.parameter) = PARAMETER_LEN /\ Len(c.ends) = ELEMENTS_LENGTH
             /\ c.leaf \in Nat
  BY <1>1, <1>2, StringIsSeq DEF LeafCalls
<1>6. ASSUME NEW c \in NodeCalls
      PROVE  /\ {c.parameter, c.left, c.right} \subseteq Seq(Nat)
             /\ Len(c.parameter) = PARAMETER_LEN
             /\ Len(c.left) = ELEMENT_LENGTH /\ Len(c.right) = ELEMENT_LENGTH
             /\ c.level \in Nat /\ c.index \in Nat /\ c.level # 0
  <2>1. /\ c.parameter \in Strings(PARAMETER_LEN)
        /\ c.left \in Strings(ELEMENT_LENGTH) /\ c.right \in Strings(ELEMENT_LENGTH)
        /\ c.level \in Byte \ {0} /\ c.index \in 0 .. MaxLeaf
    BY DEF NodeCalls
  <2>2. c.level \in Nat /\ c.index \in Nat /\ c.level # 0
    BY <2>1, <1>2, Zenon
  <2> QED BY <1>1, <2>1, <2>2, StringIsSeq
<1> QED BY <1>3, <1>4, <1>5, <1>6

\* A tweak of the tree is six numbers that start with its role.
LEMMA TreeTweakFacts ==
  ASSUME NEW l \in Nat, NEW i \in Nat
  PROVE  /\ TreeTweak(l, i) \in Seq(Nat) /\ Len(TreeTweak(l, i)) = 6
         /\ TreeTweak(l, i)[1] = ROLE_TREE
<1>1. /\ BigEndian(i) \in Seq(Nat) /\ Len(BigEndian(i)) = 4
      /\ <<ROLE_TREE, l>> \in Seq(Nat) /\ Len(<<ROLE_TREE, l>>) = 2
      /\ <<ROLE_TREE, l>>[1] = ROLE_TREE
  BY FourBytes DEF ROLE_TREE
<1>2. /\ <<ROLE_TREE, l>> \o BigEndian(i) \in Seq(Nat)
      /\ Len(<<ROLE_TREE, l>> \o BigEndian(i)) = Len(<<ROLE_TREE, l>>) + Len(BigEndian(i))
      /\ Len(<<ROLE_TREE, l>>) # 0 =>
           (<<ROLE_TREE, l>> \o BigEndian(i))[1] = <<ROLE_TREE, l>>[1]
  BY <1>1, ConcatFacts, Zenon
<1> QED BY <1>1, <1>2 DEF TreeTweak

\* It gives away its level and its index.
LEMMA TreeTweakInjective ==
  ASSUME NEW l \in Nat, NEW i \in Nat, NEW m \in Nat, NEW j \in Nat,
         TreeTweak(l, i) = TreeTweak(m, j)
  PROVE  l = m /\ i = j
<1>1. <<ROLE_TREE, l>> \o BigEndian(i) = <<ROLE_TREE, m>> \o BigEndian(j)
  BY DEF TreeTweak
<1>2. /\ BigEndian(i) \in Seq(Nat) /\ BigEndian(j) \in Seq(Nat)
      /\ <<ROLE_TREE, l>> \in Seq(Nat) /\ <<ROLE_TREE, m>> \in Seq(Nat)
      /\ Len(<<ROLE_TREE, l>>) = Len(<<ROLE_TREE, m>>)
  BY FourBytes DEF ROLE_TREE
<1>3. <<ROLE_TREE, l>> = <<ROLE_TREE, m>> /\ BigEndian(i) = BigEndian(j)
  BY <1>1, <1>2, SplitEqual, Zenon
<1> QED BY <1>3, BigEndianInjective

\* What stands behind the parameter in the roles that start with it: its sort, its
\* length and its first byte.
ChainTail(c) == <<ROLE_CHAIN>> \o (BigEndian(c.leaf) \o (<<c.i, c.k>> \o c.value))
LeafTail(c) == TreeTweak(0, c.leaf) \o c.ends
NodeTail(c) == TreeTweak(c.level, c.index) \o (c.left \o c.right)

LEMMA Tails ==
  /\ \A c \in ChainCalls :
       /\ ChainTail(c) \in Seq(Nat) /\ Len(ChainTail(c)) = 7 + ELEMENT_LENGTH
       /\ ChainTail(c)[1] = ROLE_CHAIN
  /\ \A c \in LeafCalls :
       /\ LeafTail(c) \in Seq(Nat) /\ Len(LeafTail(c)) = 6 + ELEMENTS_LENGTH
       /\ LeafTail(c)[1] = ROLE_TREE
  /\ \A c \in NodeCalls :
       /\ NodeTail(c) \in Seq(Nat) /\ Len(NodeTail(c)) = 6 + 2 * ELEMENT_LENGTH
       /\ NodeTail(c)[1] = ROLE_TREE
<1>1. {ELEMENT_LENGTH, ELEMENTS_LENGTH} \subseteq Nat
  BY SizesOK DEF ELEMENTS_LENGTH
<1>2. ASSUME NEW c \in ChainCalls
      PROVE  /\ ChainTail(c) \in Seq(Nat) /\ Len(ChainTail(c)) = 7 + ELEMENT_LENGTH
             /\ ChainTail(c)[1] = ROLE_CHAIN
  <2> DEFINE rest == <<c.i, c.k>> \o c.value
             more == BigEndian(c.leaf) \o rest
  <2>1. /\ c.value \in Seq(Nat) /\ Len(c.value) = ELEMENT_LENGTH
        /\ c.leaf \in Nat /\ <<c.i, c.k>> \in Seq(Nat) /\ Len(<<c.i, c.k>>) = 2
    BY PartsAreSeqs
  <2>2. rest \in Seq(Nat) /\ Len(rest) = 2 + ELEMENT_LENGTH
    BY <2>1, ConcatFacts
  <2> HIDE DEF rest
  <2>3. more \in Seq(Nat) /\ Len(more) = 6 + ELEMENT_LENGTH
    <3>1. BigEndian(c.leaf) \in Seq(Nat) /\ Len(BigEndian(c.leaf)) = 4
      BY <2>1, FourBytes
    <3>2. more \in Seq(Nat) /\ Len(more) = Len(BigEndian(c.leaf)) + Len(rest)
      BY <2>2, <3>1, ConcatFacts, Zenon
    <3> QED BY <1>1, <2>2, <3>1, <3>2
  <2> HIDE DEF more
  <2>4. <<ROLE_CHAIN>> \in Seq(Nat) /\ Len(<<ROLE_CHAIN>>) = 1
    BY DEF ROLE_CHAIN
  <2>5. /\ <<ROLE_CHAIN>> \o more \in Seq(Nat)
        /\ Len(<<ROLE_CHAIN>> \o more) = 7 + ELEMENT_LENGTH
        /\ (<<ROLE_CHAIN>> \o more)[1] = ROLE_CHAIN
    BY <1>1, <2>3, <2>4, ConcatFacts
  <2> QED BY <2>5 DEF ChainTail, more, rest
<1>3. ASSUME NEW c \in LeafCalls
      PROVE  /\ LeafTail(c) \in Seq(Nat) /\ Len(LeafTail(c)) = 6 + ELEMENTS_LENGTH
             /\ LeafTail(c)[1] = ROLE_TREE
  <2> DEFINE tweak == TreeTweak(0, c.leaf)
  <2>1. c.ends \in Seq(Nat) /\ Len(c.ends) = ELEMENTS_LENGTH /\ c.leaf \in Nat
    BY PartsAreSeqs
  <2>2. tweak \in Seq(Nat) /\ Len(tweak) = 6 /\ tweak[1] = ROLE_TREE
    BY <2>1, TreeTweakFacts
  <2> HIDE DEF tweak
  <2>3. /\ tweak \o c.ends \in Seq(Nat)
        /\ Len(tweak \o c.ends) = Len(tweak) + Len(c.ends)
        /\ Len(tweak) # 0 => (tweak \o c.ends)[1] = tweak[1]
    BY <2>1, <2>2, ConcatFacts, Zenon
  <2>4. /\ Len(tweak \o c.ends) = 6 + ELEMENTS_LENGTH
        /\ (tweak \o c.ends)[1] = ROLE_TREE
    BY <1>1, <2>1, <2>2, <2>3
  <2> QED BY <2>3, <2>4, Zenon DEF LeafTail, tweak
<1>4. ASSUME NEW c \in NodeCalls
      PROVE  /\ NodeTail(c) \in Seq(Nat) /\ Len(NodeTail(c)) = 6 + 2 * ELEMENT_LENGTH
             /\ NodeTail(c)[1] = ROLE_TREE
  <2> DEFINE both == c.left \o c.right
  <2>1. /\ c.left \in Seq(Nat) /\ Len(c.left) = ELEMENT_LENGTH
        /\ c.right \in Seq(Nat) /\ Len(c.right) = ELEMENT_LENGTH
        /\ c.level \in Nat /\ c.index \in Nat
    BY PartsAreSeqs
  <2>2. /\ TreeTweak(c.level, c.index) \in Seq(Nat) /\ Len(TreeTweak(c.level, c.index)) = 6
        /\ TreeTweak(c.level, c.index)[1] = ROLE_TREE
    BY <2>1, TreeTweakFacts
  <2>3. both \in Seq(Nat) /\ Len(both) = 2 * ELEMENT_LENGTH
    <3>1. both \in Seq(Nat) /\ Len(both) = Len(c.left) + Len(c.right)
      BY <2>1, ConcatFacts, Zenon
    <3> QED BY <1>1, <2>1, <3>1
  <2> HIDE DEF both
  <2>4. /\ NodeTail(c) \in Seq(Nat)
        /\ Len(NodeTail(c)) = Len(TreeTweak(c.level, c.index)) + Len(both)
        /\ Len(TreeTweak(c.level, c.index)) # 0 =>
             NodeTail(c)[1] = TreeTweak(c.level, c.index)[1]
    BY <2>2, <2>3, ConcatFacts, Zenon DEF NodeTail, both
  <2> QED BY <1>1, <2>2, <2>3, <2>4
<1> QED BY <1>2, <1>3, <1>4

\* What stands behind the salt of a message input.
MessageTail(c) == c.parameter \o (<<ROLE_MESSAGE>> \o (LittleEndian(c.leaf) \o c.message))

LEMMA MessageTailFacts ==
  ASSUME NEW c \in MessageCalls
  PROVE  /\ LittleEndian(c.leaf) \o c.message \in Seq(Nat)
         /\ <<ROLE_MESSAGE>> \o (LittleEndian(c.leaf) \o c.message) \in Seq(Nat)
         /\ MessageTail(c) \in Seq(Nat)
         /\ Len(MessageTail(c)) = PARAMETER_LEN + 5 + MESSAGE_LEN
<1> DEFINE end == LittleEndian(c.leaf) \o c.message
           more == <<ROLE_MESSAGE>> \o end
<1>1. /\ c.parameter \in Seq(Nat) /\ Len(c.parameter) = PARAMETER_LEN
      /\ c.message \in Seq(Nat) /\ Len(c.message) = MESSAGE_LEN
      /\ LittleEndian(c.leaf) \in Seq(Nat) /\ Len(LittleEndian(c.leaf)) = 4
      /\ <<ROLE_MESSAGE>> \in Seq(Nat) /\ Len(<<ROLE_MESSAGE>>) = 1
  BY PartsAreSeqs, FourBytes DEF ROLE_MESSAGE
<1>2. end \in Seq(Nat) /\ Len(end) = Len(LittleEndian(c.leaf)) + Len(c.message)
  BY <1>1, ConcatFacts, Zenon
<1> HIDE DEF end
<1>3. more \in Seq(Nat) /\ Len(more) = Len(<<ROLE_MESSAGE>>) + Len(end)
  BY <1>1, <1>2, ConcatFacts, Zenon
<1> HIDE DEF more
<1>4. /\ c.parameter \o more \in Seq(Nat)
      /\ Len(c.parameter \o more) = Len(c.parameter) + Len(more)
  BY <1>1, <1>3, ConcatFacts, Zenon
<1>5. Len(c.parameter \o more) = PARAMETER_LEN + 5 + MESSAGE_LEN
  <2>1. /\ PARAMETER_LEN \in Nat /\ MESSAGE_LEN \in Nat
        /\ Len(c.parameter \o more) = PARAMETER_LEN + (1 + (4 + MESSAGE_LEN))
    BY <1>1, <1>2, <1>3, <1>4, SizesOK, Zenon
  <2> QED BY <2>1
<1> QED
  BY <1>2, <1>3, <1>4, <1>5, Zenon DEF MessageTail, more, end

\* The inputs of the four roles: a head of a known length and a tail.
LEMMA InputForms ==
  /\ \A c \in MessageCalls : Input(c) = c.salt \o MessageTail(c)
  /\ \A c \in ChainCalls : Input(c) = c.parameter \o ChainTail(c)
  /\ \A c \in LeafCalls : Input(c) = c.parameter \o LeafTail(c)
  /\ \A c \in NodeCalls : Input(c) = c.parameter \o NodeTail(c)
<1>1. ASSUME NEW c \in MessageCalls PROVE Input(c) = c.salt \o MessageTail(c)
  <2>1. c.of = "message"
    BY DEF MessageCalls
  <2> QED BY <2>1 DEF Input, MessageInput, MessageTail
<1>2. ASSUME NEW c \in ChainCalls PROVE Input(c) = c.parameter \o ChainTail(c)
  <2>1. c.of = "chain"
    BY DEF ChainCalls
  <2> QED BY <2>1 DEF Input, ChainInput, ChainTail
<1>3. ASSUME NEW c \in LeafCalls PROVE Input(c) = c.parameter \o LeafTail(c)
  <2>1. c.of = "leaf"
    BY DEF LeafCalls
  <2> QED BY <2>1 DEF Input, LeafInput, LeafTail
<1>4. ASSUME NEW c \in NodeCalls PROVE Input(c) = c.parameter \o NodeTail(c)
  <2>1. c.of = "node"
    BY DEF NodeCalls
  <2> QED BY <2>1 DEF Input, NodeInput, NodeTail
<1> QED BY <1>1, <1>2, <1>3, <1>4

\* The tails of the roles that start with the parameter are sequences.
LEMMA TailOf ==
  ASSUME NEW c \in ChainCalls \cup LeafCalls \cup NodeCalls
  PROVE  \E tail \in Seq(Nat) :
           /\ c.parameter \in Seq(Nat) /\ Len(c.parameter) = PARAMETER_LEN
           /\ Input(c) = c.parameter \o tail
           /\ Len(tail) \in {7 + ELEMENT_LENGTH, 6 + ELEMENTS_LENGTH, 6 + 2 * ELEMENT_LENGTH}
           /\ c \in ChainCalls => tail = ChainTail(c) /\ tail[1] = ROLE_CHAIN
           /\ c \in LeafCalls => tail = LeafTail(c) /\ tail[1] = ROLE_TREE
           /\ c \in NodeCalls => tail = NodeTail(c) /\ tail[1] = ROLE_TREE
<1>1. /\ c \in ChainCalls => c \notin LeafCalls /\ c \notin NodeCalls
      /\ c \in LeafCalls => c \notin NodeCalls
  BY DEF ChainCalls, LeafCalls, NodeCalls
<1>2. CASE c \in ChainCalls
  <2>1. /\ c.parameter \in Seq(Nat) /\ Len(c.parameter) = PARAMETER_LEN
        /\ ChainTail(c) \in Seq(Nat) /\ Input(c) = c.parameter \o ChainTail(c)
        /\ Len(ChainTail(c)) \in {7 + ELEMENT_LENGTH, 6 + ELEMENTS_LENGTH, 6 + 2 * ELEMENT_LENGTH}
        /\ ChainTail(c)[1] = ROLE_CHAIN
    BY <1>2, InputForms, PartsAreSeqs, Tails
  <2> QED BY <1>1, <1>2, <2>1, Zenon
<1>3. CASE c \in LeafCalls
  <2>1. /\ c.parameter \in Seq(Nat) /\ Len(c.parameter) = PARAMETER_LEN
        /\ LeafTail(c) \in Seq(Nat) /\ Input(c) = c.parameter \o LeafTail(c)
        /\ Len(LeafTail(c)) \in {7 + ELEMENT_LENGTH, 6 + ELEMENTS_LENGTH, 6 + 2 * ELEMENT_LENGTH}
        /\ LeafTail(c)[1] = ROLE_TREE
    BY <1>3, InputForms, PartsAreSeqs, Tails
  <2> QED BY <1>1, <1>3, <2>1, Zenon
<1>4. CASE c \in NodeCalls
  <2>1. /\ c.parameter \in Seq(Nat) /\ Len(c.parameter) = PARAMETER_LEN
        /\ NodeTail(c) \in Seq(Nat) /\ Input(c) = c.parameter \o NodeTail(c)
        /\ Len(NodeTail(c)) \in {7 + ELEMENT_LENGTH, 6 + ELEMENTS_LENGTH, 6 + 2 * ELEMENT_LENGTH}
        /\ NodeTail(c)[1] = ROLE_TREE
    BY <1>4, InputForms, PartsAreSeqs, Tails
  <2> QED BY <1>1, <1>4, <2>1, Zenon
<1> QED BY <1>2, <1>3, <1>4

\* A message input is not the input of another role: its length is its own.
LEMMA MessagesApart ==
  ASSUME NEW c \in MessageCalls, NEW d \in ChainCalls \cup LeafCalls \cup NodeCalls
  PROVE  Input(c) # Input(d)
<1>1. PICK tail \in Seq(Nat) :
        /\ d.parameter \in Seq(Nat) /\ Len(d.parameter) = PARAMETER_LEN
        /\ Input(d) = d.parameter \o tail
        /\ Len(tail) \in {7 + ELEMENT_LENGTH, 6 + ELEMENTS_LENGTH, 6 + 2 * ELEMENT_LENGTH}
  BY TailOf, Zenon
<1>2. Len(Input(d)) = Len(d.parameter) + Len(tail)
  BY <1>1, ConcatFacts, Zenon
<1>3. c.salt \in Seq(Nat) /\ Len(c.salt) = SALT_LENGTH
  BY PartsAreSeqs
<1>4. Len(Input(c)) = Len(c.salt) + Len(MessageTail(c))
  BY <1>3, MessageTailFacts, InputForms, ConcatFacts, Zenon
<1>5. Len(MessageTail(c)) = PARAMETER_LEN + 5 + MESSAGE_LEN
  BY MessageTailFacts
<1>6. {SALT_LENGTH, PARAMETER_LEN, MESSAGE_LEN, Len(tail)} \subseteq Nat
  BY SizesOK, LenProperties
<1>7. SALT_LENGTH + 5 + MESSAGE_LEN # Len(tail)
  BY <1>1, LayoutOK, Zenon
<1>8. Len(Input(c)) = SALT_LENGTH + (PARAMETER_LEN + 5 + MESSAGE_LEN)
  BY <1>3, <1>4, <1>5, Zenon
<1>9. Len(Input(d)) = PARAMETER_LEN + Len(tail)
  BY <1>1, <1>2, Zenon
<1> DEFINE left == Len(Input(c))
           right == Len(Input(d))
           length == Len(tail)
<1> HIDE DEF left, right, length
<1>10. left # right
  BY <1>6, <1>7, <1>8, <1>9 DEF left, right, length
<1> QED
  BY <1>10 DEF left, right

\* Two message inputs.
LEMMA SameMessage ==
  ASSUME NEW c \in MessageCalls, NEW d \in MessageCalls, Input(c) = Input(d)
  PROVE  c = d
<1> DEFINE end(a) == LittleEndian(a.leaf) \o a.message
           more(a) == <<ROLE_MESSAGE>> \o end(a)
<1>1. ASSUME NEW a \in MessageCalls
      PROVE  /\ a.salt \in Seq(Nat) /\ Len(a.salt) = SALT_LENGTH
             /\ a.parameter \in Seq(Nat) /\ Len(a.parameter) = PARAMETER_LEN
             /\ a.message \in Seq(Nat) /\ a.leaf \in Nat
             /\ LittleEndian(a.leaf) \in Seq(Nat) /\ Len(LittleEndian(a.leaf)) = 4
             /\ end(a) \in Seq(Nat) /\ more(a) \in Seq(Nat) /\ MessageTail(a) \in Seq(Nat)
  BY PartsAreSeqs, FourBytes, MessageTailFacts
<1>2. c.salt = d.salt /\ MessageTail(c) = MessageTail(d)
  <2>1. c.salt \o MessageTail(c) = d.salt \o MessageTail(d)
    BY InputForms
  <2>2. /\ {c.salt, d.salt, MessageTail(c), MessageTail(d)} \subseteq Seq(Nat)
        /\ Len(c.salt) = Len(d.salt)
    BY <1>1
  <2>3. /\ c.salt \in Seq(Nat) /\ d.salt \in Seq(Nat)
        /\ MessageTail(c) \in Seq(Nat) /\ MessageTail(d) \in Seq(Nat)
    BY <2>2
  <2> QED BY <2>1, <2>2, <2>3, SplitEqual, Zenon
<1> HIDE DEF end, more
<1>3. c.parameter = d.parameter /\ more(c) = more(d)
  <2>1. c.parameter \o more(c) = d.parameter \o more(d)
    BY <1>2 DEF MessageTail, more, end
  <2>2. /\ {c.parameter, d.parameter, more(c), more(d)} \subseteq Seq(Nat)
        /\ Len(c.parameter) = Len(d.parameter)
    BY <1>1
  <2>3. /\ c.parameter \in Seq(Nat) /\ d.parameter \in Seq(Nat)
        /\ more(c) \in Seq(Nat) /\ more(d) \in Seq(Nat)
    BY <2>2
  <2> QED BY <2>1, <2>2, <2>3, SplitEqual, Zenon
<1>4. <<ROLE_MESSAGE>> = <<ROLE_MESSAGE>> /\ end(c) = end(d)
  <2>1. <<ROLE_MESSAGE>> \o end(c) = <<ROLE_MESSAGE>> \o end(d)
    BY <1>3 DEF more
  <2>2. /\ {<<ROLE_MESSAGE>>, <<ROLE_MESSAGE>>, end(c), end(d)} \subseteq Seq(Nat)
        /\ Len(<<ROLE_MESSAGE>>) = Len(<<ROLE_MESSAGE>>)
    BY <1>1 DEF ROLE_MESSAGE
  <2>3. /\ <<ROLE_MESSAGE>> \in Seq(Nat) /\ <<ROLE_MESSAGE>> \in Seq(Nat)
        /\ end(c) \in Seq(Nat) /\ end(d) \in Seq(Nat)
    BY <2>2
  <2> QED BY <2>1, <2>2, <2>3, SplitEqual, Zenon
<1>5. LittleEndian(c.leaf) = LittleEndian(d.leaf) /\ c.message = d.message
  <2>1. LittleEndian(c.leaf) \o c.message = LittleEndian(d.leaf) \o d.message
    BY <1>4 DEF end
  <2>2. /\ {LittleEndian(c.leaf), LittleEndian(d.leaf), c.message, d.message} \subseteq Seq(Nat)
        /\ Len(LittleEndian(c.leaf)) = Len(LittleEndian(d.leaf))
    BY <1>1
  <2>3. /\ LittleEndian(c.leaf) \in Seq(Nat) /\ LittleEndian(d.leaf) \in Seq(Nat)
        /\ c.message \in Seq(Nat) /\ d.message \in Seq(Nat)
    BY <2>2
  <2> QED BY <2>1, <2>2, <2>3, SplitEqual, Zenon
<1>6. c.leaf = d.leaf
  BY <1>1, <1>5, LittleEndianInjective
<1> QED
  BY <1>2, <1>3, <1>5, <1>6 DEF MessageCalls

\* Two chain inputs.
LEMMA SameChain ==
  ASSUME NEW c \in ChainCalls, NEW d \in ChainCalls,
         c.parameter = d.parameter, ChainTail(c) = ChainTail(d)
  PROVE  c = d
<1> DEFINE rest(a) == <<a.i, a.k>> \o a.value
           more(a) == BigEndian(a.leaf) \o rest(a)
<1>1. ASSUME NEW a \in ChainCalls
      PROVE  /\ a.value \in Seq(Nat) /\ a.leaf \in Nat
             /\ BigEndian(a.leaf) \in Seq(Nat) /\ Len(BigEndian(a.leaf)) = 4
             /\ <<a.i, a.k>> \in Seq(Nat) /\ Len(<<a.i, a.k>>) = 2
  BY PartsAreSeqs, FourBytes
<1>2. ASSUME NEW a \in ChainCalls
      PROVE  rest(a) \in Seq(Nat) /\ more(a) \in Seq(Nat)
  BY <1>1, ConcatFacts
<1> HIDE DEF rest, more
<1>3. <<ROLE_CHAIN>> = <<ROLE_CHAIN>> /\ more(c) = more(d)
  <2>1. <<ROLE_CHAIN>> \o more(c) = <<ROLE_CHAIN>> \o more(d)
    BY DEF ChainTail, more, rest
  <2>2. /\ {<<ROLE_CHAIN>>, <<ROLE_CHAIN>>, more(c), more(d)} \subseteq Seq(Nat)
        /\ Len(<<ROLE_CHAIN>>) = Len(<<ROLE_CHAIN>>)
    BY <1>2 DEF ROLE_CHAIN
  <2>3. /\ <<ROLE_CHAIN>> \in Seq(Nat) /\ <<ROLE_CHAIN>> \in Seq(Nat)
        /\ more(c) \in Seq(Nat) /\ more(d) \in Seq(Nat)
    BY <2>2
  <2> QED BY <2>1, <2>2, <2>3, SplitEqual, Zenon
<1>4. BigEndian(c.leaf) = BigEndian(d.leaf) /\ rest(c) = rest(d)
  <2>1. BigEndian(c.leaf) \o rest(c) = BigEndian(d.leaf) \o rest(d)
    BY <1>3 DEF more
  <2>2. /\ {BigEndian(c.leaf), BigEndian(d.leaf), rest(c), rest(d)} \subseteq Seq(Nat)
        /\ Len(BigEndian(c.leaf)) = Len(BigEndian(d.leaf))
    BY <1>1, <1>2
  <2>3. /\ BigEndian(c.leaf) \in Seq(Nat) /\ BigEndian(d.leaf) \in Seq(Nat)
        /\ rest(c) \in Seq(Nat) /\ rest(d) \in Seq(Nat)
    BY <2>2
  <2> QED BY <2>1, <2>2, <2>3, SplitEqual, Zenon
<1>5. <<c.i, c.k>> = <<d.i, d.k>> /\ c.value = d.value
  <2> DEFINE head1 == <<c.i, c.k>>
             head2 == <<d.i, d.k>>
             tail1 == c.value
             tail2 == d.value
  <2>1. head1 \o tail1 = head2 \o tail2
    BY <1>4 DEF rest
  <2>2. /\ head1 \in Seq(Nat) /\ head2 \in Seq(Nat) /\ Len(head1) = Len(head2)
        /\ tail1 \in Seq(Nat) /\ tail2 \in Seq(Nat)
    BY <1>1
  <2> HIDE DEF head1, head2, tail1, tail2
  <2>3. head1 = head2 /\ tail1 = tail2
    BY <2>1, <2>2, SplitEqual, Zenon
  <2> QED BY <2>3 DEF head1, head2, tail1, tail2
<1>6. c.leaf = d.leaf /\ c.i = d.i /\ c.k = d.k
  BY <1>1, <1>4, <1>5, BigEndianInjective
<1> QED
  BY <1>5, <1>6 DEF ChainCalls

\* Two leaf inputs.
LEMMA SameLeaf ==
  ASSUME NEW c \in LeafCalls, NEW d \in LeafCalls,
         c.parameter = d.parameter, LeafTail(c) = LeafTail(d)
  PROVE  c = d
<1>1. ASSUME NEW a \in LeafCalls
      PROVE  /\ a.ends \in Seq(Nat) /\ a.leaf \in Nat
             /\ TreeTweak(0, a.leaf) \in Seq(Nat) /\ Len(TreeTweak(0, a.leaf)) = 6
  BY PartsAreSeqs, TreeTweakFacts
<1>2. TreeTweak(0, c.leaf) = TreeTweak(0, d.leaf) /\ c.ends = d.ends
  <2>1. TreeTweak(0, c.leaf) \o c.ends = TreeTweak(0, d.leaf) \o d.ends
    BY DEF LeafTail
  <2>2. /\ {TreeTweak(0, c.leaf), TreeTweak(0, d.leaf), c.ends, d.ends} \subseteq Seq(Nat)
        /\ Len(TreeTweak(0, c.leaf)) = Len(TreeTweak(0, d.leaf))
    BY <1>1
  <2>3. /\ TreeTweak(0, c.leaf) \in Seq(Nat) /\ TreeTweak(0, d.leaf) \in Seq(Nat)
        /\ c.ends \in Seq(Nat) /\ d.ends \in Seq(Nat)
    BY <2>2
  <2> QED BY <2>1, <2>2, <2>3, SplitEqual, Zenon
<1>3. c.leaf = d.leaf
  BY <1>1, <1>2, TreeTweakInjective
<1> QED
  BY <1>2, <1>3 DEF LeafCalls

\* Two node inputs.
LEMMA SameNode ==
  ASSUME NEW c \in NodeCalls, NEW d \in NodeCalls,
         c.parameter = d.parameter, NodeTail(c) = NodeTail(d)
  PROVE  c = d
<1>1. ASSUME NEW a \in NodeCalls
      PROVE  /\ a.left \in Seq(Nat) /\ Len(a.left) = ELEMENT_LENGTH
             /\ a.right \in Seq(Nat) /\ a.left \o a.right \in Seq(Nat)
             /\ a.level \in Nat /\ a.index \in Nat
             /\ TreeTweak(a.level, a.index) \in Seq(Nat)
             /\ Len(TreeTweak(a.level, a.index)) = 6
  BY PartsAreSeqs, TreeTweakFacts, ConcatFacts
<1>2. TreeTweak(c.level, c.index) = TreeTweak(d.level, d.index) /\ c.left \o c.right = d.left \o d.right
  <2> DEFINE head1 == TreeTweak(c.level, c.index)
             head2 == TreeTweak(d.level, d.index)
             tail1 == c.left \o c.right
             tail2 == d.left \o d.right
  <2>1. head1 \o tail1 = head2 \o tail2
    BY DEF NodeTail
  <2>2. /\ head1 \in Seq(Nat) /\ head2 \in Seq(Nat) /\ Len(head1) = Len(head2)
        /\ tail1 \in Seq(Nat) /\ tail2 \in Seq(Nat)
    BY <1>1
  <2> HIDE DEF head1, head2, tail1, tail2
  <2>3. head1 = head2 /\ tail1 = tail2
    BY <2>1, <2>2, SplitEqual, Zenon
  <2> QED BY <2>3 DEF head1, head2, tail1, tail2
<1>3. c.left = d.left /\ c.right = d.right
  <2>1. c.left \o c.right = d.left \o d.right
    BY <1>2
  <2>2. /\ {c.left, d.left, c.right, d.right} \subseteq Seq(Nat)
        /\ Len(c.left) = Len(d.left)
    BY <1>1
  <2>3. /\ c.left \in Seq(Nat) /\ d.left \in Seq(Nat)
        /\ c.right \in Seq(Nat) /\ d.right \in Seq(Nat)
    BY <2>2
  <2> QED BY <2>1, <2>2, <2>3, SplitEqual, Zenon
<1>4. c.level = d.level /\ c.index = d.index
  <2>1. c.level \in Nat /\ c.index \in Nat /\ d.level \in Nat /\ d.index \in Nat
    BY <1>1
  <2>2. TreeTweak(c.level, c.index) = TreeTweak(d.level, d.index)
    BY <1>2
  <2> QED BY <2>1, <2>2, TreeTweakInjective
<1> QED
  BY <1>3, <1>4 DEF NodeCalls

\* A node is not taken for a leaf: its level is not zero.
LEMMA LeafIsNoNode ==
  ASSUME NEW c \in LeafCalls, NEW d \in NodeCalls
  PROVE  LeafTail(c) # NodeTail(d)
<1> SUFFICES ASSUME LeafTail(c) = NodeTail(d) PROVE FALSE
  OBVIOUS
<1>1. /\ c.ends \in Seq(Nat) /\ c.leaf \in Nat
      /\ d.left \in Seq(Nat) /\ d.right \in Seq(Nat)
      /\ d.level \in Nat /\ d.level # 0 /\ d.index \in Nat
  BY PartsAreSeqs
<1>2. d.left \o d.right \in Seq(Nat)
  BY <1>1, ConcatFacts
<1>3. /\ TreeTweak(0, c.leaf) \in Seq(Nat) /\ TreeTweak(d.level, d.index) \in Seq(Nat)
      /\ Len(TreeTweak(0, c.leaf)) = Len(TreeTweak(d.level, d.index))
  BY <1>1, TreeTweakFacts
<1>4. TreeTweak(0, c.leaf) = TreeTweak(d.level, d.index)
  <2> DEFINE head1 == TreeTweak(0, c.leaf)
             head2 == TreeTweak(d.level, d.index)
             tail1 == c.ends
             tail2 == d.left \o d.right
  <2>1. head1 \o tail1 = head2 \o tail2
    BY DEF LeafTail, NodeTail
  <2>2. /\ head1 \in Seq(Nat) /\ head2 \in Seq(Nat) /\ Len(head1) = Len(head2)
        /\ tail1 \in Seq(Nat) /\ tail2 \in Seq(Nat)
    BY <1>1, <1>2, <1>3
  <2> HIDE DEF head1, head2, tail1, tail2
  <2>3. head1 = head2 /\ tail1 = tail2
    BY <2>1, <2>2, SplitEqual, Zenon
  <2> QED BY <2>3 DEF head1, head2, tail1, tail2
<1> QED
  BY <1>1, <1>4, TreeTweakInjective

-----------------------------------------------------------------------------
\* InputsTellCallsApart: whatever is hashed, for any lengths of the parts that keep
\* the message input's length its own, the input of a call of hashv is no other's.
THEOREM DomainSeparation == HashSpec => []InputsTellCallsApart
<1> DEFINE Inv == call \in Calls \cup {NoCall}
<1>1. ASSUME NEW c \in Calls, NEW d \in Calls, Input(c) = Input(d)
      PROVE  c = d
  <2> DEFINE Others == ChainCalls \cup LeafCalls \cup NodeCalls
  <2>1. CASE c \in MessageCalls /\ d \in MessageCalls
    BY <1>1, <2>1, SameMessage
  <2>2. CASE c \in MessageCalls /\ d \in Others
    BY <1>1, <2>2, MessagesApart
  <2>3. CASE c \in Others /\ d \in MessageCalls
    BY <1>1, <2>3, MessagesApart
  <2>4. CASE c \in Others /\ d \in Others
    <3>1. PICK t \in Seq(Nat) :
            /\ c.parameter \in Seq(Nat) /\ Len(c.parameter) = PARAMETER_LEN
            /\ Input(c) = c.parameter \o t
            /\ c \in ChainCalls => t = ChainTail(c) /\ t[1] = ROLE_CHAIN
            /\ c \in LeafCalls => t = LeafTail(c) /\ t[1] = ROLE_TREE
            /\ c \in NodeCalls => t = NodeTail(c) /\ t[1] = ROLE_TREE
      BY <2>4, TailOf, Zenon
    <3>2. PICK u \in Seq(Nat) :
            /\ d.parameter \in Seq(Nat) /\ Len(d.parameter) = PARAMETER_LEN
            /\ Input(d) = d.parameter \o u
            /\ d \in ChainCalls => u = ChainTail(d) /\ u[1] = ROLE_CHAIN
            /\ d \in LeafCalls => u = LeafTail(d) /\ u[1] = ROLE_TREE
            /\ d \in NodeCalls => u = NodeTail(d) /\ u[1] = ROLE_TREE
      BY <2>4, TailOf, Zenon
    <3>3. c.parameter = d.parameter /\ t = u
      <4>1. c.parameter \o t = d.parameter \o u /\ Len(c.parameter) = Len(d.parameter)
        BY <1>1, <3>1, <3>2
      <4>2. c.parameter \in Seq(Nat) /\ d.parameter \in Seq(Nat)
        BY <3>1, <3>2
      <4> QED BY <4>1, <4>2, SplitEqual, Zenon
    <3>4. ROLE_CHAIN # ROLE_TREE
      BY DEF ROLE_CHAIN, ROLE_TREE
    <3>5. CASE c \in ChainCalls
      BY <2>4, <3>1, <3>2, <3>3, <3>4, <3>5, SameChain
    <3>6. CASE c \in LeafCalls
      BY <2>4, <3>1, <3>2, <3>3, <3>4, <3>6, SameLeaf, LeafIsNoNode
    <3>7. CASE c \in NodeCalls
      BY <2>4, <3>1, <3>2, <3>3, <3>4, <3>7, SameNode, LeafIsNoNode
    <3> QED BY <2>4, <3>5, <3>6, <3>7
  <2> QED BY <2>1, <2>2, <2>3, <2>4 DEF Calls
<1>2. Inv => InputsTellCallsApart
  BY <1>1 DEF InputsTellCallsApart
<1>3. HashInit => Inv
  BY DEF HashInit
<1>4. Inv /\ [Hash]_call => Inv'
  BY DEF Hash
<1> QED
  BY <1>2, <1>3, <1>4, PTL DEF HashSpec

-----------------------------------------------------------------------------
(* Records *)

IsBytes(f) == f \in Seq(Nat) /\ \A i \in 1 .. Len(f) : f[i] \in Byte

SecretsLength(k) == LEAVES(k) * ELEMENTS_LENGTH

\* The handles signers have: what open reads and attempts make of it.
HandleOK(k, h) ==
  /\ k \in Instances
  /\ h = [parameter |-> h.parameter, next |-> h.next, message |-> h.message,
          salt |-> h.salt, secrets |-> h.secrets]
  /\ h.parameter \in Strings(PARAMETER_LEN)
  /\ h.next \in Nat /\ h.next <= LEAVES(k)
  /\ h.secrets \in Strings(SecretsLength(k))
  /\ \/ h.message = None /\ h.salt = None
     \/ /\ h.message \in Strings(MESSAGE_LEN) /\ h.salt \in Strings(SALT_LENGTH)
        /\ h.next # 0
        /\ Accepts(h.salt, h.parameter, h.next - 1, h.message)

IsRecord(f) == \E k, h : HandleOK(k, h) /\ f = WriteRecord(k, h)

\* Anything may be found at the path; what a signer wrote is a record.
RecordInv ==
  /\ IsBytes(file) \/ IsRecord(file)
  /\ handle # None => HandleOK(kind, handle) /\ file = WriteRecord(kind, handle)

-----------------------------------------------------------------------------
\* The lengths and offsets are numbers in their order.
LEMMA Offsets ==
  /\ {PARAMETER_LEN, MESSAGE_LEN, SALT_LENGTH, ELEMENTS_LENGTH} \subseteq Nat
  /\ \A k \in Instances : SecretsLength(k) \in Nat /\ LEAVES(k) \in Nat
  /\ HEIGHT("winternitz") # HEIGHT("xmss")
  /\ HEIGHT("winternitz") \in Byte /\ HEIGHT("xmss") \in Byte
  /\ VERSION \in Byte /\ 0 \in Byte /\ 1 \in Byte
<1>1. {PARAMETER_LEN, MESSAGE_LEN, SALT_LENGTH, ELEMENTS_LENGTH} \subseteq Nat
  BY SizesOK DEF ELEMENTS_LENGTH
<1>2. XMSS_LEAVES \in Nat
  <2>1. XMSS_LEAVES \in 0 .. BYTE ^ 4 - 1
    BY RecordOK DEF U32
  <2> DEFINE top == BYTE ^ 4 - 1
  <2>2. XMSS_LEAVES \in 0 .. top
    BY <2>1
  <2> HIDE DEF top
  <2> QED BY <2>2
<1>3. \A k \in Instances : LEAVES(k) \in Nat
  BY <1>2 DEF LEAVES
<1>4. \A k \in Instances : SecretsLength(k) \in Nat
  BY <1>1, <1>3 DEF SecretsLength
<1>5. XMSS_HEIGHT \in Byte /\ XMSS_HEIGHT # 0 /\ BYTE > 2 /\ BYTE \in Nat
  BY RecordOK, ByteOK
<1> QED
  BY <1>1, <1>3, <1>4, <1>5 DEF HEIGHT, VERSION, Byte

\* Strings of the model and sequences of bytes.
LEMMA BytesOfSlice ==
  ASSUME NEW f, IsBytes(f), NEW a \in Nat, NEW b \in Nat, a <= b, b <= Len(f)
  PROVE  Slice(f, a, b) \in Strings(b - a) /\ Slice(f, a, b) \in Seq(Nat)
<1>1. f \in Seq(Nat) /\ Len(f) \in Nat /\ \A i \in 1 .. Len(f) : f[i] \in Byte
  BY LenProperties DEF IsBytes
<1>2. /\ Slice(f, a, b) \in Seq(Nat)
      /\ Len(Slice(f, a, b)) = b - a
      /\ \A i \in 1 .. b - a : Slice(f, a, b)[i] = f[a + i]
  BY <1>1, SliceFacts
<1> DEFINE s == Slice(f, a, b)
           n == b - a
<1>3. s = [i \in 1 .. Len(s) |-> s[i]]
  BY <1>2
<1>4. ASSUME NEW i \in 1 .. n PROVE s[i] \in Byte
  <2>1. a + i \in 1 .. Len(f)
    BY <1>1
  <2>2. s[i] = f[a + i]
    BY <1>2
  <2> QED BY <1>1, <2>1, <2>2
<1> HIDE DEF s, n
<1>5. s \in [1 .. n -> Byte]
  BY <1>2, <1>3, <1>4 DEF s, n
<1> QED
  BY <1>2, <1>5 DEF Strings, s, n

-----------------------------------------------------------------------------
\* The distances between the offsets are the lengths of the fields.
LEMMA Layout ==
  /\ 0 \in Nat /\ PARAMETER \in Nat /\ NEXT_LEAF \in Nat /\ HAS_MESSAGE \in Nat
  /\ MESSAGE \in Nat /\ SALT \in Nat /\ SECRETS \in Nat
  /\ PARAMETER = 2
  /\ NEXT_LEAF = PARAMETER + PARAMETER_LEN
  /\ HAS_MESSAGE = NEXT_LEAF + 4
  /\ MESSAGE = HAS_MESSAGE + 1
  /\ SALT = MESSAGE + MESSAGE_LEN
  /\ SECRETS = SALT + SALT_LENGTH
  /\ SECRETS = HAS_MESSAGE + (1 + MESSAGE_LEN + SALT_LENGTH)
  /\ NEXT_LEAF - PARAMETER = PARAMETER_LEN
  /\ HAS_MESSAGE - NEXT_LEAF = 4
  /\ SALT - MESSAGE = MESSAGE_LEN
  /\ SECRETS - SALT = SALT_LENGTH
  /\ SECRETS - MESSAGE = MESSAGE_LEN + SALT_LENGTH
  /\ 0 <= PARAMETER /\ PARAMETER <= NEXT_LEAF /\ NEXT_LEAF <= HAS_MESSAGE
  /\ HAS_MESSAGE <= MESSAGE /\ MESSAGE <= SALT /\ SALT <= SECRETS
  /\ HAS_MESSAGE <= SECRETS /\ MESSAGE <= SECRETS /\ PARAMETER <= SECRETS
  /\ HAS_MESSAGE + 1 <= SECRETS
<1>1. PARAMETER_LEN \in Nat /\ MESSAGE_LEN \in Nat /\ SALT_LENGTH \in Nat
  BY SizesOK
<1>2. PARAMETER = 2 /\ NEXT_LEAF = 2 + PARAMETER_LEN
  BY DEF PARAMETER, NEXT_LEAF
<1>3. HAS_MESSAGE = NEXT_LEAF + 4 /\ MESSAGE = HAS_MESSAGE + 1
  BY DEF HAS_MESSAGE, MESSAGE
<1>4. SALT = MESSAGE + MESSAGE_LEN /\ SECRETS = SALT + SALT_LENGTH
  BY DEF SALT, SECRETS
<1> QED
  BY <1>1, <1>2, <1>3, <1>4

\* A slice of one byte.
LEMMA OneByte ==
  ASSUME NEW f \in Seq(Nat), NEW a \in Nat, NEW b \in Nat, b = a + 1, b <= Len(f)
  PROVE  Slice(f, a, b) = <<f[b]>> /\ f[b] \in Nat
<1>1. a <= b /\ b - a = 1 /\ a + 1 = b /\ b \in 1 .. Len(f)
  BY LenProperties
<1>2. /\ Slice(f, a, b) \in Seq(Nat) /\ Len(Slice(f, a, b)) = b - a
      /\ \A i \in 1 .. b - a : Slice(f, a, b)[i] = f[a + i]
  BY <1>1, SliceFacts
<1> DEFINE s == Slice(f, a, b)
<1>3. s \in Seq(Nat) /\ Len(s) = 1 /\ s[1] = f[b]
  <2>1. s \in Seq(Nat) /\ Len(s) = 1
    BY <1>1, <1>2
  <2>2. 1 \in 1 .. b - a
    BY <1>1
  <2>3. s[1] = f[a + 1]
    BY <1>2, <2>2
  <2> QED
    BY <1>1, <2>1, <2>3
<1> HIDE DEF s
<1>4. s = <<f[b]>>
  BY <1>3
<1>5. f[b] \in Nat
  BY <1>1
<1> QED
  BY <1>4, <1>5 DEF s

\* Zeros are one zero and the rest.
LEMMA ZerosCut ==
  ASSUME NEW n \in Nat
  PROVE  /\ Zeros(n) \in Seq(Nat) /\ Len(Zeros(n)) = n
         /\ Zeros(1 + n) = <<0>> \o Zeros(n)
<1> DEFINE s == <<0>>
           t == Zeros(n)
           w == Zeros(1 + n)
<1>1. /\ s \in Seq(Nat) /\ Len(s) = 1 /\ s[1] = 0
      /\ t \in Seq(Nat) /\ Len(t) = n /\ \A i \in 1 .. n : t[i] = 0
      /\ w \in Seq(Nat) /\ Len(w) = 1 + n /\ \A i \in 1 .. 1 + n : w[i] = 0
  BY DEF Zeros
<1> HIDE DEF s, t, w
<1>2. s \o t \in Seq(Nat) /\ Len(s \o t) = 1 + n
  <2>1. s \o t \in Seq(Nat) /\ Len(s \o t) = Len(s) + Len(t)
    BY <1>1, ConcatFacts
  <2> QED BY <1>1, <2>1
<1>3. ASSUME NEW i \in 1 .. 1 + n PROVE (s \o t)[i] = 0
  <2>1. CASE i = 1
    BY <1>1, <2>1, ConcatFacts
  <2>2. CASE i # 1
    <3>1. i - 1 \in 1 .. Len(t) /\ Len(s) + (i - 1) = i
      BY <1>1, <2>2
    <3>2. t[i - 1] = (s \o t)[Len(s) + (i - 1)]
      BY <1>1, <3>1, ConcatRight
    <3> QED BY <1>1, <3>1, <3>2
  <2> QED BY <2>1, <2>2
<1>4. w = s \o t
  BY <1>1, <1>2, <1>3, SeqEqual
<1> QED
  BY <1>1, <1>4 DEF s, t, w

\* The retry state is the flag, the message and the salt.
LEMMA RetryCut ==
  ASSUME NEW f \in Seq(Nat), SECRETS <= Len(f)
  PROVE  /\ Slice(f, HAS_MESSAGE, SECRETS) = <<f[HAS_MESSAGE + 1]>> \o Slice(f, MESSAGE, SECRETS)
         /\ Slice(f, MESSAGE, SECRETS) = Slice(f, MESSAGE, SALT) \o Slice(f, SALT, SECRETS)
         /\ f[HAS_MESSAGE + 1] \in Nat
<1> DEFINE a == HAS_MESSAGE
           b == MESSAGE
           c == SALT
           d == SECRETS
<1>1. /\ a \in Nat /\ b \in Nat /\ c \in Nat /\ d \in Nat
      /\ a <= b /\ b <= c /\ c <= d /\ b <= d /\ d <= Len(f) /\ b = a + 1
  BY Layout
<1>2. b <= Len(f)
  BY <1>1, LenProperties
<1> HIDE DEF a, b, c, d
<1>3. Slice(f, a, d) = Slice(f, a, b) \o Slice(f, b, d)
  BY <1>1, SliceCut, Zenon
<1>4. Slice(f, b, d) = Slice(f, b, c) \o Slice(f, c, d)
  BY <1>1, SliceCut, Zenon
<1>5. Slice(f, a, b) = <<f[b]>> /\ f[b] \in Nat
  BY <1>1, <1>2, OneByte, Zenon
<1>6. b = HAS_MESSAGE + 1
  BY <1>1 DEF a
<1> QED
  BY <1>3, <1>4, <1>5, <1>6 DEF a, b, c, d

-----------------------------------------------------------------------------
\* A file that open takes has the form write_record gives.
LEMMA OpenedIsWritten ==
  ASSUME NEW k \in Instances, NEW f, IsBytes(f), ~Corrupt(k, f)
  PROVE  HandleOK(k, Read(f)) /\ f = WriteRecord(k, Read(f))
<1> DEFINE n == SecretsLength(k)
           h == Read(f)
           retry == Slice(f, HAS_MESSAGE, SECRETS)
<1>1. /\ {PARAMETER_LEN, MESSAGE_LEN, SALT_LENGTH} \subseteq Nat /\ n \in Nat
      /\ f \in Seq(Nat) /\ Len(f) = SECRETS + n
      /\ \A i \in 1 .. Len(f) : f[i] \in Byte
  BY Offsets DEF Corrupt, SecretsLength, IsBytes
<1>2. /\ f[1] = VERSION /\ f[2] = HEIGHT(k)
      /\ ~(f[HAS_MESSAGE + 1] > 1)
      /\ ~(NextLeaf(f) > LEAVES(k))
      /\ LastMessage(f) # None =>
           /\ NextLeaf(f) # 0
           /\ Accepts(LastSalt(f), Parameter(f), RecordedLeaf(f), LastMessage(f))
      /\ LastMessage(f) = None => Slice(f, MESSAGE, SECRETS) = Zeros(MESSAGE_LEN + SALT_LENGTH)
  BY DEF Corrupt
<1> HIDE DEF n
<1>3. SECRETS <= Len(f) /\ SECRETS \in Nat /\ Len(f) \in Nat /\ Len(f) - SECRETS = n
  <2> DEFINE d == SECRETS
  <2>1. d \in Nat
    BY Layout
  <2> HIDE DEF d
  <2>2. d <= d + n /\ d + n - d = n /\ d + n \in Nat
    BY <1>1, <2>1
  <2> QED BY <1>1, <2>1, <2>2 DEF d
<1>4. ASSUME NEW a \in Nat, NEW b \in Nat, a <= b, b <= SECRETS
      PROVE  Slice(f, a, b) \in Strings(b - a) /\ Slice(f, a, b) \in Seq(Nat)
  <2>1. b <= Len(f)
    BY <1>3, <1>4
  <2> QED BY <1>4, <2>1, BytesOfSlice
<1>5. Slice(f, SECRETS, Len(f)) \in Strings(n)
  <2> DEFINE a == SECRETS
             b == Len(f)
  <2>1. a \in Nat /\ b \in Nat /\ a <= b /\ b <= Len(f) /\ b - a = n
    BY <1>3
  <2> HIDE DEF a, b
  <2>2. Slice(f, a, b) \in Strings(b - a)
    BY <2>1, BytesOfSlice
  <2> QED BY <2>1, <2>2 DEF a, b
<1>6. Parameter(f) \in Strings(PARAMETER_LEN)
  <2>1. Slice(f, PARAMETER, NEXT_LEAF) \in Strings(NEXT_LEAF - PARAMETER)
    <3>1. NEXT_LEAF <= SECRETS
      BY Layout
    <3> QED BY <1>4, <3>1, Layout
  <2> QED BY <2>1, Layout DEF Parameter
<1>7. Slice(f, MESSAGE, SALT) \in Strings(MESSAGE_LEN) /\ LastSalt(f) \in Strings(SALT_LENGTH)
  <2>1. Slice(f, MESSAGE, SALT) \in Strings(SALT - MESSAGE)
    BY <1>4, Layout
  <2>2. Slice(f, SALT, SECRETS) \in Strings(SECRETS - SALT)
    <3>1. SECRETS <= SECRETS
      BY <1>3
    <3> QED BY <1>4, <3>1, Layout
  <2> QED BY <2>1, <2>2, Layout DEF LastSalt
<1>8. Slice(f, 0, PARAMETER) = <<VERSION, HEIGHT(k)>>
  <2> DEFINE z == 0
             b == PARAMETER
             s == Slice(f, z, b)
             t == <<VERSION, HEIGHT(k)>>
  <2>1. z \in Nat /\ b \in Nat /\ z <= b /\ b <= Len(f) /\ b - z = 2 /\ z + 1 = 1 /\ z + 2 = 2
    BY <1>3, Layout
  <2>2. t \in Seq(Nat) /\ Len(t) = 2 /\ t[1] = VERSION /\ t[2] = HEIGHT(k)
    BY Offsets DEF Instances, Byte
  <2> HIDE DEF z, b, t
  <2>3. s \in Seq(Nat) /\ Len(s) = b - z /\ \A i \in 1 .. b - z : s[i] = f[z + i]
    BY <1>1, <2>1, SliceFacts
  <2> HIDE DEF s
  <2>4. s[1] = f[1] /\ s[2] = f[2] /\ Len(s) = 2
    <3>1. 1 \in 1 .. b - z /\ 2 \in 1 .. b - z
      BY <2>1
    <3> QED BY <2>1, <2>3, <3>1
  <2>5. f[1] = VERSION /\ f[2] = HEIGHT(k)
    BY <1>2
  <2>6. s[1] = t[1] /\ s[2] = t[2] /\ Len(s) = 2 /\ Len(t) = 2
    BY <2>2, <2>4, <2>5
  <2>7. ASSUME NEW i \in 1 .. Len(s) PROVE s[i] = t[i]
    <3>1. i = 1 \/ i = 2
      BY <2>6
    <3> QED BY <2>6, <3>1
  <2>8. s = t
    BY <2>2, <2>3, <2>6, <2>7, SeqEqual
  <2> QED BY <2>8 DEF s, t, z, b
<1>9. Slice(f, NEXT_LEAF, HAS_MESSAGE) = BigEndian(NextLeaf(f)) /\ NextLeaf(f) \in Nat
  <2> DEFINE s == Slice(f, NEXT_LEAF, HAS_MESSAGE)
  <2>1. s \in Strings(4)
    <3>1. s \in Strings(HAS_MESSAGE - NEXT_LEAF)
      BY <1>4, Layout
    <3> QED BY <3>1, Layout
  <2> HIDE DEF s
  <2>2. s = <<s[1], s[2], s[3], s[4]>> /\ s[1] \in Byte /\ s[2] \in Byte /\ s[3] \in Byte /\ s[4] \in Byte
    BY <2>1 DEF Strings
  <2>3. BigEndian(FromBigEndian(<<s[1], s[2], s[3], s[4]>>)) = <<s[1], s[2], s[3], s[4]>>
    BY <2>2, BigEndianOfValue
  <2>4. BigEndian(FromBigEndian(s)) = s
    BY <2>2, <2>3, Zenon
  <2>5. FromBigEndian(s) \in Nat
    BY <2>2, ByteOK DEF FromBigEndian, Byte
  <2> QED BY <2>4, <2>5 DEF NextLeaf, s
<1>10. /\ h.parameter = Parameter(f) /\ h.next = NextLeaf(f) /\ h.message = LastMessage(f)
       /\ h.salt = IF LastMessage(f) = None THEN None ELSE LastSalt(f)
       /\ h.secrets = Slice(f, SECRETS, Len(f))
       /\ h = [parameter |-> h.parameter, next |-> h.next, message |-> h.message,
               salt |-> h.salt, secrets |-> h.secrets]
  BY DEF Read
<1> HIDE DEF h
<1>11. /\ retry = <<f[HAS_MESSAGE + 1]>> \o Slice(f, MESSAGE, SECRETS)
       /\ Slice(f, MESSAGE, SECRETS) = Slice(f, MESSAGE, SALT) \o Slice(f, SALT, SECRETS)
       /\ f[HAS_MESSAGE + 1] \in Nat
  BY <1>1, <1>3, RetryCut
<1> HIDE DEF retry
<1>12. ASSUME f[HAS_MESSAGE + 1] = 1
       PROVE  /\ retry = RetryState(h)
              /\ h.message \in Strings(MESSAGE_LEN) /\ h.salt \in Strings(SALT_LENGTH)
              /\ h.next # 0
              /\ Accepts(h.salt, h.parameter, h.next - 1, h.message)
  <2>1. LastMessage(f) = Slice(f, MESSAGE, SALT) /\ LastMessage(f) # None
    BY <1>7, <1>12, RecordOK DEF LastMessage
  <2>2. retry = RetryState(h)
    BY <1>10, <1>11, <1>12, <2>1 DEF RetryState, LastSalt
  <2>3. /\ h.message \in Strings(MESSAGE_LEN)
        /\ h.salt \in Strings(SALT_LENGTH)
        /\ h.next # 0
        /\ Accepts(h.salt, h.parameter, h.next - 1, h.message)
    <3>1. NextLeaf(f) # 0 /\ RecordedLeaf(f) = h.next - 1
      BY <1>2, <1>10, <2>1 DEF RecordedLeaf
    <3>2. h.message = LastMessage(f) /\ h.salt = LastSalt(f) /\ h.parameter = Parameter(f)
      BY <1>10, <2>1
    <3>3. Accepts(h.salt, h.parameter, h.next - 1, h.message)
      BY <1>2, <2>1, <3>1, <3>2, Zenon
    <3> QED BY <1>7, <1>10, <2>1, <3>1, <3>2, <3>3
  <2> QED BY <2>2, <2>3
<1>13. ASSUME f[HAS_MESSAGE + 1] # 1
       PROVE  retry = RetryState(h) /\ h.message = None /\ h.salt = None
  <2>1. f[HAS_MESSAGE + 1] = 0
    <3> DEFINE flag == f[HAS_MESSAGE + 1]
    <3>1. flag \in Nat /\ ~(flag > 1) /\ flag # 1
      BY <1>2, <1>11, <1>13
    <3> HIDE DEF flag
    <3>2. flag = 0
      BY <3>1
    <3> QED BY <3>2 DEF flag
  <2>2. LastMessage(f) = None
    BY <1>13 DEF LastMessage
  <2>3. retry = Zeros(1 + (MESSAGE_LEN + SALT_LENGTH))
    <3>1. MESSAGE_LEN + SALT_LENGTH \in Nat
      BY <1>1
    <3>2. Zeros(1 + (MESSAGE_LEN + SALT_LENGTH)) = <<0>> \o Zeros(MESSAGE_LEN + SALT_LENGTH)
      BY <3>1, ZerosCut
    <3> QED BY <1>2, <1>11, <2>1, <2>2, <3>2
  <2>4. 1 + (MESSAGE_LEN + SALT_LENGTH) = 1 + MESSAGE_LEN + SALT_LENGTH
    BY <1>1
  <2>5. retry = RetryState(h)
    BY <1>10, <2>2, <2>3, <2>4 DEF RetryState
  <2>6. h.message = None /\ h.salt = None
    BY <1>10, <2>2
  <2> QED BY <2>5, <2>6
<1>14. f = WriteRecord(k, h)
  <2> DEFINE a == PARAMETER
             b == NEXT_LEAF
             c == HAS_MESSAGE
             d == SECRETS
  <2>1. /\ a \in Nat /\ b \in Nat /\ c \in Nat /\ d \in Nat
        /\ a <= b /\ b <= c /\ c <= d /\ d <= Len(f)
    BY <1>3, Layout
  <2> HIDE DEF a, b, c, d
  <2>2. Len(f) \in Nat /\ f \in Seq(Nat)
    BY <1>1, <1>3
  <2>3. f = Joined(Slice(f, 0, a), Slice(f, a, b), Slice(f, b, c), Slice(f, c, d),
                   Slice(f, d, Len(f)))
    BY <2>1, <2>2, FiveFields
  <2>4. /\ Slice(f, 0, a) = <<VERSION, HEIGHT(k)>> /\ Slice(f, a, b) = h.parameter
        /\ Slice(f, b, c) = BigEndian(h.next) /\ Slice(f, c, d) = RetryState(h)
        /\ Slice(f, d, Len(f)) = h.secrets
    BY <1>8, <1>9, <1>10, <1>12, <1>13, Zenon DEF a, b, c, d, Parameter, retry
  <2> QED BY <2>3, <2>4, Zenon DEF WriteRecord, Joined
<1>15. h.next \in Nat /\ h.next <= LEAVES(k)
  BY <1>2, <1>9, <1>10, Offsets
<1>16. HandleOK(k, h)
  <2>1. h.parameter \in Strings(PARAMETER_LEN) /\ h.secrets \in Strings(SecretsLength(k))
    BY <1>5, <1>6, <1>10, Zenon DEF n
  <2>2. \/ h.message = None /\ h.salt = None
        \/ /\ h.message \in Strings(MESSAGE_LEN) /\ h.salt \in Strings(SALT_LENGTH)
           /\ h.next # 0
           /\ Accepts(h.salt, h.parameter, h.next - 1, h.message)
    BY <1>12, <1>13, Zenon
  <2> QED BY <1>10, <1>15, <2>1, <2>2, Zenon DEF HandleOK
<1> QED
  BY <1>14, <1>16 DEF h

-----------------------------------------------------------------------------
\* The fields of a record, as strings.
LEMMA Written ==
  ASSUME NEW k, NEW h, HandleOK(k, h), NEW f, f = WriteRecord(k, h)
  PROVE  /\ f \in Seq(Nat) /\ Len(f) = SECRETS + SecretsLength(k)
         /\ Slice(f, 0, PARAMETER) = <<VERSION, HEIGHT(k)>>
         /\ Slice(f, PARAMETER, NEXT_LEAF) = h.parameter
         /\ Slice(f, NEXT_LEAF, HAS_MESSAGE) = BigEndian(h.next)
         /\ Slice(f, HAS_MESSAGE, SECRETS) = RetryState(h)
         /\ Slice(f, SECRETS, Len(f)) = h.secrets
<1> DEFINE s == <<VERSION, HEIGHT(k)>>
           t == h.parameter
           u == BigEndian(h.next)
           v == RetryState(h)
           w == h.secrets
           n == SecretsLength(k)
           m == 1 + MESSAGE_LEN + SALT_LENGTH
<1>1. k \in Instances /\ n \in Nat
  BY Offsets DEF HandleOK
<1>2. PARAMETER_LEN \in Nat /\ MESSAGE_LEN \in Nat /\ SALT_LENGTH \in Nat /\ m \in Nat
  BY SizesOK
<1>3. s \in Seq(Nat) /\ Len(s) = 2
  BY <1>1, Offsets DEF Instances, Byte
<1> HIDE DEF n, m
<1>4. t \in Seq(Nat) /\ Len(t) = PARAMETER_LEN /\ w \in Seq(Nat) /\ Len(w) = n
  <2>1. t \in Strings(PARAMETER_LEN) /\ w \in Strings(n)
    BY DEF HandleOK, n
  <2> HIDE DEF t, w
  <2> QED BY <1>1, <1>2, <2>1, StringIsSeq
<1>5. u \in Seq(Nat) /\ Len(u) = 4
  BY FourBytes DEF HandleOK
<1>6. v \in Seq(Nat) /\ Len(v) = m
  <2>1. CASE h.message = None
    <3>1. v = Zeros(m)
      BY <2>1 DEF RetryState, m
    <3> HIDE DEF v
    <3>2. Zeros(m) \in Seq(Nat) /\ Len(Zeros(m)) = m
      BY <1>2, ZerosCut
    <3> QED BY <3>1, <3>2
  <2>2. CASE h.message # None
    <3> DEFINE x == h.message
               y == h.salt
               z == <<1>>
    <3>1. v = z \o (x \o y)
      BY <2>2 DEF RetryState
    <3>2. x \in Strings(MESSAGE_LEN) /\ y \in Strings(SALT_LENGTH)
      BY <2>2 DEF HandleOK
    <3>3. z \in Seq(Nat) /\ Len(z) = 1
      OBVIOUS
    <3> HIDE DEF v, x, y, z
    <3>4. /\ x \in Seq(Nat) /\ Len(x) = MESSAGE_LEN
          /\ y \in Seq(Nat) /\ Len(y) = SALT_LENGTH
      BY <1>2, <3>2, StringIsSeq
    <3>5. x \o y \in Seq(Nat) /\ Len(x \o y) = MESSAGE_LEN + SALT_LENGTH
      BY <3>4, ConcatFacts
    <3> DEFINE xy == x \o y
    <3>6. xy \in Seq(Nat) /\ Len(xy) = MESSAGE_LEN + SALT_LENGTH /\ v = z \o xy
      BY <3>1, <3>5
    <3> HIDE DEF xy
    <3>7. z \o xy \in Seq(Nat) /\ Len(z \o xy) = Len(z) + Len(xy)
      BY <3>3, <3>6, ConcatFacts
    <3>8. 1 + (MESSAGE_LEN + SALT_LENGTH) = m
      BY <1>2 DEF m
    <3> QED BY <3>3, <3>6, <3>7, <3>8
  <2> QED BY <2>1, <2>2
<1>7. f = Joined(s, t, u, v, w)
  BY DEF WriteRecord, Joined
<1> DEFINE a == PARAMETER
           b == NEXT_LEAF
           c == HAS_MESSAGE
           d == SECRETS
<1>8. a \in Nat /\ b \in Nat /\ c \in Nat /\ d \in Nat
  BY Layout
<1>9. a = 2 /\ b = a + PARAMETER_LEN /\ c = b + 4 /\ d = c + m
  BY Layout DEF m
<1> HIDE DEF s, t, u, v, w, a, b, c, d
<1>10. FieldsAt(f, s, t, u, v, w, a, b, c, d)
  BY <1>3, <1>4, <1>5, <1>6, <1>7, <1>8, <1>9 DEF FieldsAt
<1>11. /\ f \in Seq(Nat) /\ Len(f) = a + (Len(t) + (Len(u) + (Len(v) + Len(w))))
       /\ Slice(f, 0, a) = s
       /\ Slice(f, a, b) = t
       /\ Slice(f, b, c) = u
       /\ Slice(f, c, d) = v
       /\ Slice(f, d, Len(f)) = w
  BY <1>10, FiveParts
<1>12. Len(f) = d + n
  BY <1>1, <1>2, <1>4, <1>5, <1>6, <1>8, <1>9, <1>11
<1> QED
  BY <1>11, <1>12 DEF s, t, u, v, w, a, b, c, d, n

\* The signer of the instance that wrote a record opens it as it was written, the
\* signer of the other instance finds it corrupt.
LEMMA WrittenReopens ==
  ASSUME NEW k, NEW h, HandleOK(k, h), NEW f, f = WriteRecord(k, h)
  PROVE  /\ ~Corrupt(k, f)
         /\ Read(f) = h
         /\ \A j \in Instances \ {k} : Corrupt(j, f)
<1>1. /\ f \in Seq(Nat) /\ Len(f) = SECRETS + SecretsLength(k)
      /\ Slice(f, 0, PARAMETER) = <<VERSION, HEIGHT(k)>>
      /\ Slice(f, PARAMETER, NEXT_LEAF) = h.parameter
      /\ Slice(f, NEXT_LEAF, HAS_MESSAGE) = BigEndian(h.next)
      /\ Slice(f, HAS_MESSAGE, SECRETS) = RetryState(h)
      /\ Slice(f, SECRETS, Len(f)) = h.secrets
  BY Written
<1>2. /\ k \in Instances /\ SecretsLength(k) \in Nat
      /\ MESSAGE_LEN \in Nat /\ SALT_LENGTH \in Nat /\ MESSAGE_LEN + SALT_LENGTH \in Nat
      /\ 1 + (MESSAGE_LEN + SALT_LENGTH) = 1 + MESSAGE_LEN + SALT_LENGTH
  BY RecordOK, Offsets DEF HandleOK
<1>3. SECRETS <= Len(f)
  <2> DEFINE d == SECRETS
             n == SecretsLength(k)
  <2>1. d \in Nat /\ n \in Nat
    BY <1>2, Layout
  <2> HIDE DEF d, n
  <2>2. d <= d + n
    BY <2>1
  <2> QED BY <1>1, <2>2 DEF d, n
<1>4. f[1] = VERSION /\ f[2] = HEIGHT(k)
  <2> DEFINE z == 0
             b == PARAMETER
             s == Slice(f, z, b)
  <2>1. z \in Nat /\ b \in Nat /\ z <= b /\ b <= Len(f) /\ b - z = 2 /\ z + 1 = 1 /\ z + 2 = 2
    <3>1. PARAMETER = 2 /\ PARAMETER <= SECRETS /\ SECRETS \in Nat
      BY Layout
    <3>2. Len(f) \in Nat
      BY <1>1, LenProperties
    <3> HIDE DEF b
    <3>3. b <= Len(f)
      BY <1>3, <3>1, <3>2 DEF b
    <3> QED BY <3>1, <3>3 DEF b
  <2>2. s = <<VERSION, HEIGHT(k)>>
    BY <1>1
  <2> HIDE DEF z, b
  <2>3. s \in Seq(Nat) /\ Len(s) = b - z /\ \A i \in 1 .. b - z : s[i] = f[z + i]
    BY <1>1, <2>1, SliceFacts
  <2> HIDE DEF s
  <2>4. s[1] = f[1] /\ s[2] = f[2]
    <3>1. 1 \in 1 .. b - z /\ 2 \in 1 .. b - z
      BY <2>1
    <3> QED BY <2>1, <2>3, <3>1
  <2> QED BY <2>2, <2>4
<1>5. NextLeaf(f) = h.next /\ Parameter(f) = h.parameter /\ h.next \in Nat /\ h.next <= LEAVES(k)
  BY <1>1, ValueOfBigEndian DEF NextLeaf, Parameter, HandleOK
<1> DEFINE flag == f[HAS_MESSAGE + 1]
           both == Slice(f, MESSAGE, SECRETS)
           message == Slice(f, MESSAGE, SALT)
           salt == Slice(f, SALT, SECRETS)
<1>6. <<flag>> \o both = RetryState(h) /\ both = message \o salt /\ flag \in Nat
  BY <1>1, <1>3, RetryCut
<1>7. message \in Seq(Nat) /\ Len(message) = MESSAGE_LEN /\ salt \in Seq(Nat) /\ both \in Seq(Nat)
  <2> DEFINE b == MESSAGE
             c == SALT
             d == SECRETS
  <2>1. /\ b \in Nat /\ c \in Nat /\ d \in Nat /\ b <= c /\ c <= d /\ b <= d /\ d <= Len(f)
        /\ c - b = MESSAGE_LEN
    BY <1>3, Layout
  <2>2. c <= Len(f)
    <3> HIDE DEF c, d
    <3>1. Len(f) \in Nat
      BY <1>1, LenProperties
    <3> QED BY <2>1, <3>1
  <2> HIDE DEF b, c, d
  <2>3. Slice(f, b, c) \in Seq(Nat) /\ Len(Slice(f, b, c)) = c - b
    BY <1>1, <2>1, <2>2, SliceFacts
  <2>4. Slice(f, c, d) \in Seq(Nat) /\ Slice(f, b, d) \in Seq(Nat)
    BY <1>1, <2>1, <2>2, SliceFacts
  <2> QED BY <2>1, <2>3, <2>4 DEF b, c, d
<1>8. <<flag>> \in Seq(Nat) /\ Len(<<flag>>) = 1 /\ <<0>> \in Seq(Nat) /\ Len(<<0>>) = 1
      /\ <<1>> \in Seq(Nat) /\ Len(<<1>>) = 1
  BY <1>6
<1>9. LastMessage(f) = (IF flag = 1 THEN message ELSE None) /\ LastSalt(f) = salt
  BY DEF LastMessage, LastSalt
<1> HIDE DEF flag, both, message, salt
<1>10. ASSUME h.message = None
       PROVE  /\ flag = 0 /\ LastMessage(f) = None /\ h.salt = None
              /\ both = Zeros(MESSAGE_LEN + SALT_LENGTH)
  <2> DEFINE n == MESSAGE_LEN + SALT_LENGTH
             x == <<flag>>
             y == <<0>>
             v == Zeros(n)
  <2>1. n \in Nat
    BY <1>2
  <2>2. RetryState(h) = Zeros(1 + n)
    BY <1>2, <1>10 DEF RetryState
  <2> HIDE DEF n
  <2>3. v \in Seq(Nat) /\ Zeros(1 + n) = y \o v
    BY <2>1, ZerosCut
  <2>4. x \in Seq(Nat) /\ y \in Seq(Nat) /\ Len(x) = Len(y) /\ x \o both = y \o v
    BY <1>6, <1>8, <2>2, <2>3
  <2> HIDE DEF x, y, v
  <2>5. x = y /\ both = v
    BY <1>7, <2>3, <2>4, SplitEqual
  <2>6. flag = 0
    BY <2>5 DEF x, y
  <2>7. LastMessage(f) = None
    BY <1>9, <2>6
  <2>8. h.salt = None
    BY <1>2, <1>10, RecordOK DEF HandleOK
  <2> QED BY <2>5, <2>6, <2>7, <2>8 DEF v, n
<1>11. ASSUME h.message # None
       PROVE  flag = 1 /\ LastMessage(f) = h.message /\ LastSalt(f) = h.salt
  <2> DEFINE x == <<flag>>
             y == <<1>>
             m == h.message
             s == h.salt
             v == m \o s
  <2>1. m \in Strings(MESSAGE_LEN) /\ s \in Strings(SALT_LENGTH)
    BY <1>11 DEF HandleOK
  <2>2. RetryState(h) = y \o v
    BY <1>11 DEF RetryState
  <2> HIDE DEF m, s
  <2>3. m \in Seq(Nat) /\ Len(m) = MESSAGE_LEN /\ s \in Seq(Nat)
    BY <1>2, <2>1, StringIsSeq
  <2>4. v \in Seq(Nat)
    BY <2>3, ConcatFacts
  <2>5. x \in Seq(Nat) /\ y \in Seq(Nat) /\ Len(x) = Len(y) /\ x \o both = y \o v
    BY <1>6, <1>8, <2>2
  <2>6. message \o salt = m \o s \/ both # v
    BY <1>6
  <2> HIDE DEF x, y, v
  <2>7. x = y /\ both = v
    BY <1>7, <2>4, <2>5, SplitEqual
  <2>8. message = m /\ salt = s
    BY <1>7, <2>3, <2>6, <2>7, SplitEqual
  <2>9. flag = 1
    BY <2>7 DEF x, y
  <2> QED BY <1>9, <2>8, <2>9 DEF m, s
<1>12. Read(f) = h
  <2>1. h = [parameter |-> h.parameter, next |-> h.next, message |-> h.message,
             salt |-> h.salt, secrets |-> h.secrets]
    BY DEF HandleOK
  <2>2. /\ LastMessage(f) = h.message
        /\ h.salt = IF LastMessage(f) = None THEN None ELSE LastSalt(f)
    BY <1>10, <1>11
  <2> QED BY <1>1, <1>5, <2>1, <2>2, Zenon DEF Read
<1>13. ~Corrupt(k, f)
  <2>1. Len(f) = SECRETS + LEAVES(k) * ELEMENTS_LENGTH
    BY <1>1 DEF SecretsLength
  <2>2. ~(f[HAS_MESSAGE + 1] > 1)
    <3>1. flag = 0 \/ flag = 1
      BY <1>10, <1>11
    <3>2. ~(flag > 1)
      BY <3>1
    <3> QED BY <3>2 DEF flag
  <2>3. ~(NextLeaf(f) > LEAVES(k))
    BY <1>2, <1>5, Offsets
  <2>4. ASSUME LastMessage(f) # None
        PROVE  /\ NextLeaf(f) # 0
               /\ Accepts(LastSalt(f), Parameter(f), RecordedLeaf(f), LastMessage(f))
    <3>1. h.message # None
      BY <1>10, <2>4
    <3>2. h.next # 0 /\ Accepts(h.salt, h.parameter, h.next - 1, h.message)
      BY <3>1 DEF HandleOK
    <3>3. RecordedLeaf(f) = h.next - 1
      BY <1>5, <3>2 DEF RecordedLeaf
    <3> QED BY <1>5, <1>11, <3>1, <3>2, <3>3
  <2>5. LastMessage(f) = None => Slice(f, MESSAGE, SECRETS) = Zeros(MESSAGE_LEN + SALT_LENGTH)
    BY <1>10, <1>11 DEF both
  <2> QED BY <1>4, <2>1, <2>2, <2>3, <2>4, <2>5, Zenon DEF Corrupt
<1>14. ASSUME NEW j \in Instances \ {k} PROVE Corrupt(j, f)
  <2>1. HEIGHT(j) # HEIGHT(k)
    BY <1>2, Offsets DEF Instances
  <2> QED BY <1>4, <2>1 DEF Corrupt
<1> QED
  BY <1>12, <1>13, <1>14

-----------------------------------------------------------------------------
\* Whatever is at the path, open takes it only as a record of the instance.
LEMMA OpenTakesRecords ==
  ASSUME NEW k \in Instances, NEW f, IsBytes(f) \/ IsRecord(f), ~Corrupt(k, f)
  PROVE  HandleOK(k, Read(f)) /\ f = WriteRecord(k, Read(f))
<1>1. CASE IsBytes(f)
  BY <1>1, OpenedIsWritten
<1>2. CASE IsRecord(f)
  <2>1. PICK j, h : HandleOK(j, h) /\ f = WriteRecord(j, h)
    BY <1>2 DEF IsRecord
  <2>2. Read(f) = h /\ \A i \in Instances \ {j} : Corrupt(i, f)
    BY <2>1, WrittenReopens
  <2>3. j = k
    BY <2>2
  <2> QED BY <2>1, <2>2, <2>3
<1> QED BY <1>1, <1>2

\* An attempt of a handle leaves it one.
LEMMA AttemptedOK ==
  ASSUME NEW k, HandleOK(k, handle), handle.next < LEAVES(k), NEW m \in Digests,
         NEW s \in Strings(SALT_LENGTH) \cup {None},
         s # None => Accepts(s, handle.parameter, handle.next, m)
  PROVE  HandleOK(k, Attempted(m, s))
<1> DEFINE h == Attempted(m, s)
           n == handle.next
<1>1. h = [parameter |-> handle.parameter, next |-> n + 1,
           message |-> IF s = None THEN None ELSE m, salt |-> s, secrets |-> handle.secrets]
  BY DEF Attempted
<1>2. k \in Instances /\ LEAVES(k) \in Nat /\ n \in Nat /\ n < LEAVES(k)
  BY Offsets DEF HandleOK
<1> HIDE DEF n
<1>3. n + 1 \in Nat /\ n + 1 <= LEAVES(k) /\ n + 1 # 0 /\ (n + 1) - 1 = n
  BY <1>2
<1>4. m \in Strings(MESSAGE_LEN)
  BY RecordOK
<1>5. handle.parameter \in Strings(PARAMETER_LEN) /\ handle.secrets \in Strings(SecretsLength(k))
  BY DEF HandleOK
<1>6. /\ h.parameter = handle.parameter /\ h.next = n + 1 /\ h.salt = s
      /\ h.message = (IF s = None THEN None ELSE m) /\ h.secrets = handle.secrets
      /\ h = [parameter |-> h.parameter, next |-> h.next, message |-> h.message,
              salt |-> h.salt, secrets |-> h.secrets]
  BY <1>1
<1> HIDE DEF h
<1>7. \/ h.message = None /\ h.salt = None
      \/ /\ h.message \in Strings(MESSAGE_LEN) /\ h.salt \in Strings(SALT_LENGTH)
         /\ h.next # 0
         /\ Accepts(h.salt, h.parameter, h.next - 1, h.message)
  <2>1. CASE s = None
    BY <1>6, <2>1
  <2>2. CASE s # None
    <3>1. s \in Strings(SALT_LENGTH) /\ h.message = m /\ h.next - 1 = n
      BY <1>3, <1>6, <2>2
    <3>2. Accepts(h.salt, h.parameter, h.next - 1, h.message)
      BY <1>6, <2>2, <3>1 DEF n
    <3> QED BY <1>3, <1>4, <1>6, <3>1, <3>2
  <2> QED BY <2>1, <2>2
<1>8. HandleOK(k, h)
  <2>1. h.next \in Nat /\ h.next <= LEAVES(k)
    BY <1>3, <1>6
  <2>2. h.parameter \in Strings(PARAMETER_LEN) /\ h.secrets \in Strings(SecretsLength(k))
    BY <1>5, <1>6
  <2> QED BY <1>2, <1>6, <1>7, <2>1, <2>2, Zenon DEF HandleOK
<1> QED BY <1>8 DEF h

\* Any file at first; then what the actions make of it.
THEOREM RecordInvariant == Spec => []RecordInv
<1>1. Init => RecordInv
  <2> SUFFICES ASSUME Init PROVE RecordInv
    OBVIOUS
  <2>1. file \in Seq(Byte) /\ handle = None
    BY RecordOK DEF Init
  <2>2. IsBytes(file)
    <3>1. \A i \in 1 .. Len(file) : file[i] \in Byte
      BY <2>1
    <3>2. file \in Seq(Nat)
      <4>1. \A i \in 1 .. Len(file) : file[i] \in Nat
        BY <3>1, ByteOK DEF Byte
      <4>2. Len(file) \in Nat /\ file = [i \in 1 .. Len(file) |-> file[i]]
        BY <2>1
      <4> QED BY <4>1, <4>2
    <3> QED BY <3>1, <3>2 DEF IsBytes
  <2> QED BY <2>1, <2>2 DEF RecordInv
<1>2. RecordInv /\ [Next]_vars => RecordInv'
  <2> SUFFICES ASSUME RecordInv, [Next]_vars PROVE RecordInv'
    OBVIOUS
  <2>1. ASSUME NEW k \in Instances, Open(k) PROVE RecordInv'
    <3>1. file' = file /\ kind' = k /\ (IsBytes(file) \/ IsRecord(file)) /\ handle = None
      BY <2>1 DEF Open, RecordInv
    <3>2. CASE Corrupt(k, file) /\ UNCHANGED handle
      BY <3>1, <3>2 DEF RecordInv
    <3>3. CASE ~Corrupt(k, file) /\ handle' = Read(file)
      <4>1. HandleOK(k, Read(file)) /\ file = WriteRecord(k, Read(file))
        BY <3>1, <3>3, OpenTakesRecords
      <4> QED BY <3>1, <3>3, <4>1 DEF RecordInv
    <3> QED BY <2>1, <3>2, <3>3 DEF Open
  <2>2. ASSUME NEW m \in Digests, Attempt(m) PROVE RecordInv'
    <3>1. HandleOK(kind, handle) /\ handle.next < LEAVES(kind) /\ kind' = kind
      BY <2>2 DEF Attempt, RecordInv
    <3>2. PICK s \in Strings(SALT_LENGTH) \cup {None} :
            /\ s # None => Accepts(s, handle.parameter, handle.next, m)
            /\ handle' = Attempted(m, s)
            /\ file' = WriteRecord(kind, Attempted(m, s))
      BY <2>2 DEF Attempt
    <3>3. HandleOK(kind, Attempted(m, s))
      BY <3>1, <3>2, AttemptedOK
    <3>4. IsRecord(file')
      BY <3>2, <3>3 DEF IsRecord
    <3> QED BY <3>1, <3>2, <3>3, <3>4 DEF RecordInv
  <2>3. CASE Drop
    BY <2>3 DEF Drop, RecordInv
  <2>4. CASE UNCHANGED vars
    BY <2>4 DEF vars, RecordInv
  <2> QED BY <2>1, <2>2, <2>3, <2>4 DEF Next
<1> QED
  BY <1>1, <1>2, PTL DEF Spec

\* What open takes is a record to the last byte, whatever is at the path: nothing of
\* a file goes unread.
THEOREM NothingUnread == Spec => []OnlyWrittenFilesOpen
<1>1. RecordInv => OnlyWrittenFilesOpen
  BY DEF RecordInv, OnlyWrittenFilesOpen
<1> QED
  BY <1>1, RecordInvariant, PTL

\* A signer opens the file again as it left it, and the other instance's refuses it,
\* for fields and trees of any size and whatever salts the encoding accepts.
THEOREM RoundTrip == Spec => []ReopensAsItself
<1>1. RecordInv => ReopensAsItself
  BY WrittenReopens DEF RecordInv, ReopensAsItself
<1> QED
  BY <1>1, RecordInvariant, PTL
=============================================================================
