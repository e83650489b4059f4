SPECIFICATION Spec
CONSTANTS
  Prices = {100, 120}
  Units = {2}
  StopPct = 10
  TrailPct = 10
  MaxTime = 4
  MaxEntries = 2
  MaxCrashes = 1
INVARIANTS TypeOK ExitEarned StopsSurvive
CHECK_DEADLOCK FALSE
