CONSTANTS
  MaxParseDepth = 12
  TypeLike = {"Q", "P", "T", "Some", "No", "Opt"}
SPECIFICATION Spec
INVARIANTS
  WrittenIsRead
  ShapeByPrecedence
  NothingLost
CHECK_DEADLOCK FALSE
