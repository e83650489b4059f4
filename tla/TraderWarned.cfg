SPECIFICATION FairSpec
CONSTANTS
  Markets = {btc}
  Commands = {}
  Delistable = {btc}
  ExcludedMarkets = {}
  PartialTake = FALSE
  MaxAdds = 0
  MaxOrders = 1
  MaxCommands = 0
  MaxRetries = 0
  MaxFaults = 1
  MaxCrashes = 0
PROPERTIES WarnedSold
