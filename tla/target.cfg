SPECIFICATION TargetSpec
CONSTANTS
  Undefined = Undefined
  NoThis = NoThis
  a1 = a1
  Scalars = {Undefined}
  Arrays = {a1}
  Nothing = Nothing
  TestCases <- Files
  Misread = {0, 2}
  Known = {2}
  MaxValues = 2
INVARIANTS ArraysComplete OnlyEarlierResults
