SPECIFICATION Spec
CONSTANTS
  Vars = {"x", "y"}
  Flag = "x"
  Program <- Owned
  MaxAlloc = 3
  MaxDepth = 3
  MaxArena = 0
  MaxHandles = 2
  MaxWeak = 1
\* A program may end.
CHECK_DEADLOCK FALSE
INVARIANTS BoundAlive ChildAlive FinalizersWait
