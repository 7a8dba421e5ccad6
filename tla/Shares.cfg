\* One share and three accesses at once; limits of 1 and 2 views or none.
SPECIFICATION Spec
CONSTANTS
  NoId = NoId
  ShareId = {s1}
  CertId = {l1, l2}
  CommonName = {web}
  Client = {b1, b2, b3}
  Creator = {p1}
  MaxViews = {0, 1, 2}
  ExpiresIn = {0, 1}
  MaxTime = 1
  MaxAnswers = 3
  WarnDays = 1
SYMMETRY Symmetry
INVARIANTS SharedCertStored EveryAnswerCounted OvershootBounded ReportsMatchAccess
PROPERTIES KeepsShareLink
