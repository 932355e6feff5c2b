SPECIFICATION FairSpec
CONSTANTS
  Absent = Absent
  Partial = Partial
  NoProc = NoProc
  None = None
  Procs = {p1, p2}
  Keys = {k1}
  Messages = {m1, m2}
  sa = sa
  sb = sb
  sc = sc
  Salts = {sa}
  LEAVES = 2
  Accepting <- AllAccepted
  Faults = {"io", "entropy", "kill", "power"}
INVARIANTS
  AttemptDurableBeforeReturn
PROPERTIES
  RecordNeverTorn
  CallsFinish
