\* A quarter of a second to the tick and the two seconds that are the default, so
\* that every way to round occurs; the clock is set back by two ticks in all, and
\* forward at any time.
SPECIFICATION LimiterSpec
CONSTANTS
  c1 = c1  c2 = c2  c3 = c3  c4 = c4  a1 = a1  a2 = a2  a3 = a3
  Client = {c1, c2, c3, c4}
  Address = {a1, a2, a3}
  AddressOf <- OneShared
  Allowed = {a1, a2}
  Second = 4
  Interval = 8
  Setback = 2
SYMMETRY Symmetry
INVARIANTS PatientClientAdmitted
PROPERTIES AdmittedApart
