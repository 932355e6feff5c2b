SPECIFICATION Spec
CONSTANTS
  Absent = Absent
  Partial = Partial
  NoProc = NoProc
  None = None
  Procs = {p1, p2}
  Keys = {k1, k2}
  Messages = {m1, m2}
  sa = sa
  sb = sb
  sc = sc
  Salts = {sa, sb, sc}
  LEAVES = 2
  Accepting <- LeafwiseAccepted
  Faults = {"entropy", "power"}
SYMMETRY SignerSymmetry
PROPERTIES
  ImplementsDefinition8
