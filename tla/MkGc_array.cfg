SPECIFICATION Spec
CONSTANTS
  MaxItems = 3
  MaxHashes = 4
  MaxVectors = 1
  MaxFrames = 3
  MaxStack = 2
  MaxNative = 4
  MaxLength = 1
  Features = {"value", "static", "local", "array", "raise", "conditioncall", "assign"}
CHECK_DEADLOCK FALSE
INVARIANT ReachableInUse
