-------------------------------- MODULE Bytes --------------------------------
(***************************************************************************)
(* Byte strings: what the code takes apart and puts together with slices,     *)
(* to_be_bytes, to_le_bytes and from_be_bytes.  A byte string is a sequence    *)
(* of bytes; offsets count from 0, as in the code.  And the sizes of the        *)
(* fields that the records, signatures and hash inputs are made of.            *)
(***************************************************************************)
EXTENDS Naturals, Sequences

CONSTANTS
  BYTE,            \* values of a byte: 256
  CHAINS,          \* 36
  ELEMENT_LENGTH,  \* 23
  SALT_LENGTH,     \* 21
  PARAMETER_LEN,   \* 18
  MESSAGE_LEN      \* 32

ASSUME ByteOK == BYTE \in Nat \ {0}
ASSUME SizesOK == {CHAINS, ELEMENT_LENGTH, SALT_LENGTH, PARAMETER_LEN, MESSAGE_LEN} \subseteq Nat

ELEMENTS_LENGTH == CHAINS * ELEMENT_LENGTH

Byte == 0 .. BYTE - 1

\* Byte strings of n bytes.
Strings(n) == [1 .. n -> Byte]

\* bytes[from..to]
Slice(bytes, from, to) == SubSeq(bytes, from + 1, to)

\* The four bytes of a u32, the least significant first, and their value.
LittleEndian(n) ==
  <<n % BYTE, (n \div BYTE) % BYTE, ((n \div BYTE) \div BYTE) % BYTE,
    ((n \div BYTE) \div BYTE) \div BYTE>>
FromLittleEndian(b) == b[1] + BYTE * (b[2] + BYTE * (b[3] + BYTE * b[4]))

\* The same, the most significant first.
BigEndian(n) ==
  <<((n \div BYTE) \div BYTE) \div BYTE, ((n \div BYTE) \div BYTE) % BYTE,
    (n \div BYTE) % BYTE, n % BYTE>>
FromBigEndian(b) == b[4] + BYTE * (b[3] + BYTE * (b[2] + BYTE * b[1]))

U32 == 0 .. BYTE ^ 4 - 1
=============================================================================
