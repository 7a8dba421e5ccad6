\* Two processes, and one certificate made after the migration.
SPECIFICATION DatabaseSpec
CONSTANTS
  NoId = NoId
  Process = {p1, p2}
  Order <- BothTables
  LegacyId <- OneAndTwo
  MaxId = 4
  Issued = {"public_certs"}
  Revoked = {"private_certs"}
SYMMETRY Symmetry
INVARIANTS OpenedIsCurrent CertificatesKept AlwaysOpens
PROPERTIES HistoryStands
