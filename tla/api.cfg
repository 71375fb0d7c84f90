SPECIFICATION MCSpec
CONSTANTS
  global = global
  o1 = o1
  o2 = o2
  none = none
  Global = global
  Objects = {global, o1, o2}
  Absent = none
  Parts <- Texts
  NameOrder <- Names
  Excluded <- SkippedNames
  Dangerous = {"kill"}
  Graphs <- Engines
  Lists <- Files
CHECK_DEADLOCK FALSE
INVARIANTS TypeOK EveryFunctionOnce IndexAndTreeAgree DescendentsExact CalleesResolve
