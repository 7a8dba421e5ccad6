\* One name with two values, and two write tests with a name each; two commands at
\* once, each any number of times, its write test once.
SPECIFICATION Spec
CONSTANTS
  NoId = NoId
  Name = {n1}
  Value = {v1, v2}
  Command = {c1, c2}
  TestName <- OwnName
SYMMETRY Symmetry
INVARIANTS OthersUntouched LostOnlyToOverlap
