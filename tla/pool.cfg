SPECIFICATION Spec
CONSTANTS
  Address = {x1, x2, x3, x4}
  Null = Null
  Singletons = {undefined}
  ShortStrings = {short}
  LongStrings = {long}
  MinInt <- MinInt3
  MaxInt = 3
  Bias = 1
  TableSize = 3
  SizeModulus = 16
  NaN = NaN
  PosInf = PosInf
  NegInf = NegInf
  SpecialFloats = {NaN, PosInf}
  FiniteFloats = {half}
  NewArray = NewArray
SYMMETRY Symmetry
INVARIANTS TypeOK HeldIsAsked OneObject
