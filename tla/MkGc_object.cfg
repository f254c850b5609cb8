SPECIFICATION FairSpec
CONSTANTS
  MaxItems = 4
  MaxHashes = 4
  MaxVectors = 0
  MaxFrames = 3
  MaxStack = 2
  MaxNative = 2
  MaxLength = 0
  Features = {"local", "this", "super", "member", "new", "call"}
CHECK_DEADLOCK FALSE
INVARIANT ReachableInUse
PROPERTY CollectionEnds
