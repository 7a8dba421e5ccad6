\* The whole chain: a root, two intermediates of one name or of two, and two leaves
\* of a name, made, rotated, retired, promoted and expiring under two commands at once.
SPECIFICATION Spec
CONSTANTS
  NoId = NoId
  RootId = {r1}
  IcaId = {i1, i2}
  CertId = {l1, l2}
  CAName = {corp, lab}
  CommonName = {web}
  Command = {c1, c2}
  Lifetime = {0}
  MaxTime = 1
SYMMETRY Symmetry
INVARIANTS TypeOK OneActivePerName IssuingMatchesStatus GenerationsInOrder LineageSound IssuersStored
PROPERTIES HistoryPreserved StatusMovesLegal RotationHasNoGap KeepsGenerations
