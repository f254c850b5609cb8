SPECIFICATION Spec
CONSTANTS
  Internals <- MCInternals
  ValueClasses = {"Integer"}
  ScriptNames = {"A", "B"}
  Declared = {"A", "B", "Object"}
  MemberNames = {"x", "y"}
  Declarations <- MCDeclarations
  None = None
  BlockNames = 4
  MaxBlocks = 2
  MaxLines = 4
CHECK_DEADLOCK FALSE
INVARIANTS TypeOK Interned Hierarchy  Inherited ReadableByHeirs
