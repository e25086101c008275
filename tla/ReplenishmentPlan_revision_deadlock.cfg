SPECIFICATION Spec
CONSTANTS
  Handlers = {h1}
  Scanners = {w1}
  Products <- TwoProducts
  NeedNothing <- NoZeroLine
  MaxPlans = 1
  MaxInputs = 0
  Commands <- DraftingAndRevising
  Overlap = TRUE
CHECK_DEADLOCK FALSE
INVARIANT NoDeadlock
