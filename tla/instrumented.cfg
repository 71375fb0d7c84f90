SPECIFICATION Spec
CONSTANTS
  Types <- MCTypes
  Functions <- MCFunctions
  Modules <- MCModules
  CallbackInfo = {"info"}
  PrefixedCallbackInfo = {"info2"}
  MaxCount = 2
  MaxInput = 10
  StackSize = 5
INVARIANTS Candidates Numbering
PROPERTIES Terminates
CHECK_DEADLOCK FALSE
