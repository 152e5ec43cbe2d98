SPECIFICATION Spec
CHECK_DEADLOCK FALSE
CONSTANTS
  CharKind <- KindOf
  CharFold <- FoldOf
  Requests <- SmallRequests
  Extensions <- SmallExtensions
INVARIANTS
  RankingExact
  ColumnsMatchPrefix
  BoundSound
  WorkAccounted
