\* Two requests of either kind, two approvals at once, three certificates.
SPECIFICATION Spec
CONSTANTS
  NoId = NoId
  RequestId = {q1, q2}
  CertId = {l1, l2, l3}
  IssuerId = {ica}
  CommonName = {web}
  Approver = {a1, a2}
  Lifetime = {0}
  MaxTime = 1
SYMMETRY Symmetry
INVARIANTS TablesSound IssuedLinksHold
PROPERTIES KeepsLifecycle
