SPECIFICATION Spec
CONSTANTS
  NoId = NoId
  i1 = i1
  i2 = i2
  u1 = u1
  u2 = u2
  admins = admins
  staff = staff
  b1 = b1
  b2 = b2
  PrefixOf <- Port
  Issuer = {i1, i2}
  User = {u1}
  LocalRole = {}
  TokenOf <- TokenOfOne
  BindingId = {b1}
  NewBinding <- TwoIssuersBindings
  RuleName = {}
  NewRule = {}
  Wanted = {}
  Client = {}
  Operator = {o1}
PROPERTIES ForcedDeletionSparesOthers
