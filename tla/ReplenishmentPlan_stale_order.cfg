SPECIFICATION Spec
CONSTANTS
  Handlers = {h1}
  Scanners = {}
  Products <- OneProduct
  NeedNothing <- NoZeroLine
  MaxPlans = 1
  MaxInputs = 1
  Commands <- PlainCommands
  Overlap = TRUE
CHECK_DEADLOCK FALSE
PROPERTY OrderedWhenFresh
