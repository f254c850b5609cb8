SPECIFICATION Spec
CONSTANTS
  MaxItems = 3
  MaxHashes = 3
  MaxVectors = 0
  MaxFrames = 2
  MaxStack = 2
  MaxNative = 2
  MaxLength = 0
  Features = {"local", "value", "call", "noresult"}
CHECK_DEADLOCK FALSE
INVARIANT OperandsInUse
