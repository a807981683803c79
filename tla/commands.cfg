SPECIFICATION Spec
CONSTANTS
  MaxEvalDepth = 40
  MaxLoop = 3
  Fuel = 80
  Temporaries = {"_t"}
  TypeParameters = {"T"}
  Requests <- MCRequests
INVARIANTS
  LlvmAgrees
  CodeCompiles
  TextReadBack
  MovesCaught
  TypesSound
  PassesAgree
PROPERTIES
  NestingKeepsTypes
CHECK_DEADLOCK FALSE
