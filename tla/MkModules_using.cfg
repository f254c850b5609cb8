SPECIFICATION Spec
CONSTANTS
  MemberNames = {1, 4}
  ImportNames = {2, 6}
  Super = 3
  Owner = 5
  Modules <- MCModules
  Declarations <- MCDeclarations
  Values = {10, 20}
  Left <- MCLeft
  MaxUsings = 2
  Outside = Outside
  None = None
CHECK_DEADLOCK FALSE
INVARIANTS TypeOK AliasIntact DeclaredAccess
PROPERTY MethodsKept
