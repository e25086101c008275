\* Each of these is violated: leave one uncommented.
SPECIFICATION Spec
CONSTANTS
  Handlers = {h1}
  Scanners = {}
  Products <- OneProduct
  NeedNothing <- NoZeroLine
  MaxPlans = 2
  MaxInputs = 0
  Commands <- DraftingAndRevising
  Overlap = FALSE
CHECK_DEADLOCK FALSE
INVARIANT ReplacementIsDelivered
\* PROPERTY AlertsCloseOnRecovery
