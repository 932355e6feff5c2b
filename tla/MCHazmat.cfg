SPECIFICATION FairSpec
CONSTANTS
  CHAINS = 4
  POSITIONS = 3
  TARGET_SUM = 5
  HEIGHT = 2
  MAX_TRIALS = 2
  Parameters = {1, 2}
  Salts = {0, 1, 2}
  Messages = {0, 1}
  MaxAttempts = 2
  Digest <- TheDigest
CHECK_DEADLOCK FALSE
INVARIANTS
  TypeOK
  KeyIsTheTree
  ReleasedVerify
  OnlyTheSignedDigest
  BufferWiped
  VerdictIsHonest
  SignersAgree
  VerifiersAgree
PROPERTIES
  CallsReturn
