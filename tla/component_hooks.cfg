CONSTANTS
  Components <- AllComponents
  Calls <- AllCalls
  StateValues = {0, 1}
  MaxPending = 2
  Globals = {"round"}
  ExprRefs <- CollectExprRefs
  TemplateRefs <- CollectTemplateRefs
  JsNames <- EmittedNames
  Emitted <- EmittedNodes
SPECIFICATION Spec
INVARIANTS
  HooksRun
CHECK_DEADLOCK FALSE
