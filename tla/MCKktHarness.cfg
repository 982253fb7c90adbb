SPECIFICATION Spec
CONSTANTS
  Selected = 3
  Cases <- MCCases
INVARIANTS
  ReleasedOnce
  NothingReleasedInUse
  TimesMeasuredOnly
  ExitTells
