\* Two keys, of which the first verifies the tokens, two addresses, and two requests
\* at once; an entry lasts two ticks, a fetch at most one, and the clock is set back
\* by one while an entry is kept.
SPECIFICATION Spec
CONSTANTS
  NoId = NoId
  Key = {k1, k2}
  KidOf <- OwnKid
  Url = {a1, a2}
  JWKSURL = {NoId, a1}
  Token = {k1}
  Request = {q1, q2}
  TTL = 2
  Timeout = 1
  EntrySetback = 1
SYMMETRY Symmetry
INVARIANTS GoodTokenNotRefused
PROPERTIES WithdrawnKeyStops
