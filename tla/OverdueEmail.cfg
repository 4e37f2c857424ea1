\* Two scans on one day, for a member who wants mail and no row in the app.
SPECIFICATION JobsSpec
CONSTANTS
  Consumers = {w1}
  Operators = {o1}
  Occurrences = {e1}
  Invites = {i1}
  Repeating = {"overdue"}
  MaxDays = 1
  DaysPerWeek = 2
  MaxJobs = 2
  MaxStalls = 0
INVARIANT OneDraftPerDay
CHECK_DEADLOCK FALSE
