SPECIFICATION Spec
CONSTANTS
  Handlers = {h1, h2, h3}
  Scanners = {}
  Products <- TwoProducts
  NeedNothing <- NoZeroLine
  MaxPlans = 1
  MaxInputs = 0
  Commands <- DraftingAndDeciding
  Overlap = TRUE
CHECK_DEADLOCK FALSE
SYMMETRY HandlerSymmetry
INVARIANT NoDeadlock
