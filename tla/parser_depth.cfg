CONSTANTS
  MaxParseDepth = 3
  TypeLike = {"Q", "P", "T", "Some", "No", "Opt"}
SPECIFICATION DeepSpec
INVARIANT NeverStuck
CHECK_DEADLOCK FALSE
