SPECIFICATION Spec
CONSTANTS
  Calls <- MCCalls
  Few <- MCFew
  Labels <- MCLabels
  Sections <- MCSections
  Options <- MCOptions
  MaxItems = 4
  Page = 16
INVARIANT Disassembles
INVARIANT ReferencesReach
INVARIANT SegmentsApart
\* A linked or refused program is finished.
CHECK_DEADLOCK FALSE
