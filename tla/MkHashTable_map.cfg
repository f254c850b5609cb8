SPECIFICATION FairSpec
CONSTANTS
  Keys = {0, 1, 2, 3}
  Super = 2
  v1 = v1
  v2 = v2
  absent = absent
  none = none
  Values = {v1, v2}
  DefaultSize = 2
  Extend = 1
  IntWidth = 3
  Fresh = {"free", "final"}
  Absent = absent
  None = none
INVARIANTS TypeOK Sorted DeclaredKept
PROPERTIES ImplementsDictionary SearchEnds FinalKept
