SPECIFICATION Spec
CONSTANTS
  MaxCalls = 3
  MaxArguments = 1
  GeneratedArguments = 1
  MaxArrayLength = 1
  MaxDepth = 2
  MaxTree = 1
  MaxLive = 1
  Scalar = Scalar
  NoThis = NoThis
  a1 = a1
  a2 = a2
  f = f
  Functions = {f, g}
  Arrays = {a1, a2, a3}
  Seeds <- AllSeeds
SYMMETRY Symmetry
VIEW References
INVARIANTS TypeOK BackwardRefs
PROPERTIES TreesStayTrees CyclesOnlyRead EditsReferences
