SPECIFICATION Spec
CONSTANTS
  Operators = {"==", "=", "+"}
  Signs = {"+"}
  Rank <- MCRank
  MaxTokens = 6
CHECK_DEADLOCK FALSE
INVARIANTS TypeOK RightEdge TreeInOrder PrecedenceKept ErrorLeavesHole
