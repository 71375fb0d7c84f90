SPECIFICATION Spec
CONSTANTS
  Undefined = Undefined
  other = other
  NoThis = NoThis
  fs = fs
  a1 = a1
  a2 = a2
  Scalars = {Undefined, other}
  Arrays = {a1, a2}
  Nothing = Nothing
  ModuleOf <- MCModuleOf
  TestCases <- SmallTestCases
INVARIANT ArgumentsPassed
