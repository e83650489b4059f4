SPECIFICATION Spec
CONSTANTS
  Markets = {btc}
  Commands = {}
  Delistable = {}
  ExcludedMarkets = {}
  PartialTake = FALSE
  MaxAdds = 0
  MaxOrders = 2
  MaxCommands = 0
  MaxRetries = 0
  MaxFaults = 0
  MaxCrashes = 0
PROPERTIES NoDoubleEntry
