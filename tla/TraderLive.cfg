SPECIFICATION FairSpec
CONSTANTS
  Markets = {btc}
  Commands = {"block", "sell"}
  Delistable = {btc}
  ExcludedMarkets = {btc}
  PartialTake = FALSE
  MaxAdds = 0
  MaxOrders = 1
  MaxCommands = 2
  MaxRetries = 0
  MaxFaults = 0
  MaxCrashes = 1
INVARIANTS RowsAgree
PROPERTIES PhantomCleaned
