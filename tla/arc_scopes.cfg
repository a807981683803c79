SPECIFICATION Spec
CONSTANTS
  Vars = {"x"}
  Flag = "x"
  Program <- Scopes
  MaxAlloc = 2
  MaxDepth = 4
  MaxArena = 2
  MaxHandles = 2
  MaxWeak = 1
\* A program may end.
CHECK_DEADLOCK FALSE
INVARIANTS TypeOK AliveIffStrong ArenaDrained
PROPERTY DeadStaysDead
