SPECIFICATION TsSpec
CONSTANTS
  Absent = Absent
  Partial = Partial
  NoProc = NoProc
  None = None
  Procs = {rust, ts}
  TsProcs = {ts}
  Keys = {k1}
  Messages = {m1, m2}
  sa = sa
  sb = sb
  Salts = {sa, sb}
  LEAVES = 2
  Accepting <- LeafwiseAccepted
  Faults = {"entropy", "power"}
SYMMETRY MessageSymmetry
PROPERTIES
  ImplementsDefinition8
