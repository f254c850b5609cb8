SPECIFICATION MCSpec
CONSTANTS
  MaxDepth = 9
  MaxArgs = 1
  MaxHeight = 20
  LeavesHeight = 1
  e1 = e1
  err = err
  nil = nil
  Raised = {e1}
  Error = err
  Nil = nil
  Features = {"operation", "call", "on", "super", "callback", "new", "if", "while", "try", "raise", "jump", "backif"}
  LeavesFeatures = {"call", "on", "super", "callback", "new", "array", "element", "while", "try", "condition", "raise"}
INVARIANTS TypeOK Balanced NoExceptionLost JumpsStayInside NoUnderflowWithLeftovers
