SPECIFICATION EndToEndSpec
CONSTANTS
  Absent = Absent
  Partial = Partial
  NoProc = NoProc
  None = None
  Malformed = Malformed
  Account = Account
  Procs = {p1}
  Keys = {k1}
  Messages = {m1, m2}
  Salts = {sa}
  LEAVES = 2
  Accepting <- EverySignature
  Faults = {"kill", "io"}
  Backups = TRUE
  MaxRuns = 2
SYMMETRY MessageSymmetry
INVARIANTS
  LandedLeavesStaySpent
  ChainNeverAhead
  RetryLandsOnce
  RefusedOnlyIfLanded
