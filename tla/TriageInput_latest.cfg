SPECIFICATION Spec
CONSTANTS
  Rule <- AlertRule
  MaxEntries = 4
  MaxGroups = 2
  MaxEvents = 6
INVARIANT LatestStateShown
CHECK_DEADLOCK FALSE
