SPECIFICATION Spec
CONSTANTS
  Handlers = {h1}
  Scanners = {w1}
  Products <- TwoProducts
  NeedNothing <- OneZeroLine
  MaxPlans = 2
  MaxInputs = 1
  Commands <- AllCommands
  Overlap = FALSE
CHECK_DEADLOCK FALSE
VIEW WithoutAlerts
INVARIANT SupersededHasNoOrder
PROPERTIES ImplementsLifecycle OrderedWhenFresh
