SPECIFICATION MCSpec
CONSTANTS
  BYTE = 3
  CHAINS = 2
  ELEMENT_LENGTH = 1
  SALT_LENGTH = 1
  PARAMETER_LEN = 1
  MESSAGE_LEN = 1
  XMSS_HEIGHT = 2
  XMSS_LEAVES = 4
  Accepts <- SomeSalts
  None = None
  Files <- EveryHeader
  Digests <- AllDigests
  MaxLeaf = 3
INVARIANTS
  OnlyWrittenFilesOpen
  ReopensAsItself
  InputsTellCallsApart
