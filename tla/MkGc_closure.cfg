SPECIFICATION Spec
CONSTANTS
  MaxItems = 3
  MaxHashes = 3
  MaxVectors = 0
  MaxFrames = 3
  MaxStack = 2
  MaxNative = 4
  MaxLength = 0
  Features = {"local", "node", "invoke", "localcall"}
CHECK_DEADLOCK FALSE
INVARIANTS TypeOK ReachableInUse
PROPERTY GarbageFreed
