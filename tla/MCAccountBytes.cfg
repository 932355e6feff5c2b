SPECIFICATION Spec
CONSTANTS
  BYTE = 256
  CHAINS = 36
  ELEMENT_LENGTH = 23
  SALT_LENGTH = 21
  PARAMETER_LEN = 18
  MESSAGE_LEN = 32
  HEIGHT = 8
  Address = a1
  Keys <- TheKeys
  Digests <- TheDigests
  Signatures <- TheSignatures
  Instructions <- TheInstructions
  Malformed = Malformed
INVARIANT ExactInstructions
PROPERTY ImplementsKeyAccount
