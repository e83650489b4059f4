SPECIFICATION FairSpec
CONSTANTS
  Markets = {1, 2, 3}
  Broken = {2}
  Listable = {3}
  Surgeable = {3}
  MaxReloads = 1
  MaxFaults = 1
INVARIANTS TypeOK
PROPERTIES HeldWatched HeldJudged BuysWereTargets
