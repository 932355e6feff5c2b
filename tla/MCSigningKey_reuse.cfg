SPECIFICATION Spec
CONSTANTS
  Absent = Absent
  Partial = Partial
  NoProc = NoProc
  None = None
  Procs = {p1}
  Keys = {k1}
  Messages = {m1, m2}
  sa = sa
  sb = sb
  sc = sc
  Salts = {sa}
  LEAVES = 1
  Accepting <- AllAccepted
  Faults = {"kill", "power"}
INVARIANTS
  OneSignaturePerLeaf
