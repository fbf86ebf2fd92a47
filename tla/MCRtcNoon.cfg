\* A chip that keeps 12 hours.
SPECIFICATION Spec
CONSTANTS
  First <- DayFirst
  Count <- DayCount
  Times <- Noon
  Formats <- Hours12
  QuietReads = 14
  CURRENT_YEAR = 2023
INVARIANTS
  TimeDelivered
