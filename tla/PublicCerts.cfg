\* Two commands at once, three certificates of one name, up to their expiry.
SPECIFICATION Spec
CONSTANTS
  NoId = NoId
  CertId = {l1, l2, l3}
  CommonName = {web}
  SANs = {s1, s2}
  Command = {c1, c2}
  Lifetime = 1
  SkipIfExpiresWithin = 0
  Days = 0
  MaxTime = 2
SYMMETRY Symmetry
INVARIANTS TablesSound
PROPERTIES NameKeepsActive HistoryPreserved
