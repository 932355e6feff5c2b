SPECIFICATION Spec
CONSTANTS
  Accounts = {a1, a2}
  kw = kw
  kx = kx
  PublicKeys = {kw, kx}
  Digests = {d1, d2}
  Submitted <- TheSignatures
  Genuine <- MadeByTheSigner
  Malformed = Malformed
SYMMETRY ProgramSymmetry
INVARIANTS
  TypeOK
  LeafAcceptedOnce
  BitmapIsHistory
  NeverPanics
PROPERTIES
  KeyStays
