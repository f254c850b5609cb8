SPECIFICATION Spec
CONSTANTS
  MaxItems = 4
  MaxHashes = 4
  MaxVectors = 0
  MaxFrames = 4
  MaxStack = 2
  MaxNative = 3
  MaxLength = 0
  Features = {"this", "memberref", "new", "call"}
CHECK_DEADLOCK FALSE
INVARIANT SuperclassPartKept
