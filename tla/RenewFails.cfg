SPECIFICATION Spec
CONSTANTS
  NoId = NoId
  CertId = {l1, l2}
  CommonName = {web}
  SANs = {s1, s2}
  Command = {c1, c2}
  Lifetime = 1
  SkipIfExpiresWithin = 0
  Days = 0
  MaxTime = 2
SYMMETRY Symmetry
INVARIANTS RenewalsAreStored
