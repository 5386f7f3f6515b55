SPECIFICATION Spec
CONSTANTS
  Calls <- ExtractDeposit
  Few <- ExtractDeposit
  Labels = {}
  Sections <- SomeSections
  Options <- OnePlainOption
  MaxItems = 1
  Page = 16
INVARIANT BitFieldsAsDocumented
\* A linked program is finished.
CHECK_DEADLOCK FALSE
