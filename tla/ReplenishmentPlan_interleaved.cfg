SPECIFICATION Spec
CONSTANTS
  Handlers = {h1, h2}
  Scanners = {w1}
  Products <- OneProduct
  NeedNothing <- NoZeroLine
  MaxPlans = 2
  MaxInputs = 0
  Commands <- AllCommands
  Overlap = TRUE
CHECK_DEADLOCK FALSE
SYMMETRY HandlerSymmetry
VIEW WithoutAlerts
INVARIANTS OneActiveLine SuggestionsEnd DecisionIsDelivered PlanHasLines
PROPERTY KnowsCommitments
