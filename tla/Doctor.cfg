\* One command beside the reports: a root, an intermediate and a leaf that last one
\* tick, so that each of them is expiring, then expired.
SPECIFICATION DoctorSpec
CONSTANTS
  NoId = NoId
  RootId = {r1}
  IcaId = {i1}
  CertId = {l1}
  CAName = {corp}
  CommonName = {web}
  Command = {c1}
  Lifetime = {1}
  MaxTime = 2
  WarnDays = 1
INVARIANTS NoFalseDamage ExpiredIssuingIsNews
PROPERTIES ExpiryTakesEffect
