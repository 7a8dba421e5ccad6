\* One issuer and its user, one binding and one rule, and a request and a command
\* at once besides the commands of one call.  A second issuer, the host of the first
\* without its port, is there only while nobody is under way (HostIsQuiet): it is
\* for what doctor and /metrics make of a binding that the URLs of both begin.  A
\* disabled binding, which no request sees, is there only while none is under way.
SPECIFICATION Spec
CONSTANTS
  NoId = NoId
  i1 = i1
  i2 = i2
  u1 = u1
  u2 = u2
  admins = admins
  staff = staff
  b1 = b1
  b2 = b2
  PrefixOf <- Host
  Issuer = {i1, i2}
  User = {u1}
  LocalRole = {admins}
  TokenOf <- TokenOfOne
  BindingId = {b1}
  NewBinding <- FewBindings
  RuleName = {n1}
  NewRule <- FewRules
  Wanted <- WantApproval
  Client = {c1}
  Operator = {o1}
CONSTRAINTS HostIsQuiet DisabledIsQuiet
INVARIANTS PreviewIsWhatHappens ScopedBindingsConfine 
PROPERTIES OffUntilAskedOrOverlapped LateRequestsRefused DeletionLeavesNoReference
