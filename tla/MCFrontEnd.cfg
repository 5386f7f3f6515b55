SPECIFICATION Spec
CONSTANTS
  Programs <- MCPrograms
  MainFile <- Main
  MaxPasses = 4
INVARIANT IncludedOnce
INVARIANT ExpandedAsMeant
INVARIANT RejectedRightly
PROPERTY Terminates
CHECK_DEADLOCK FALSE
