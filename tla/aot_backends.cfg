SPECIFICATION Spec
CONSTANTS
  MaxEvalDepth = 40
  MaxLoop = 3
  Fuel = 80
  Temporaries = {"_t"}
  TypeParameters = {"T"}
  Requests <- MCRequests
INVARIANTS
  BackendsAgree
CHECK_DEADLOCK FALSE
