\* Each of these is violated: leave one uncommented.
SPECIFICATION Spec
CONSTANTS
  Handlers = {h1, h2}
  Scanners = {}
  Products <- TwoProducts
  NeedNothing <- NoZeroLine
  MaxPlans = 2
  MaxInputs = 0
  Commands <- AllCommands
  Overlap = TRUE
CHECK_DEADLOCK FALSE
PROPERTY LegalTransitions
\* INVARIANT ApprovedHasLine
\* INVARIANT SupersededHasNoOrder
\* PROPERTY KnowsEveryCommitment
