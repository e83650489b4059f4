SPECIFICATION Spec
CONSTANTS
  Markets = {btc}
  Commands = {"set", "sync", "panic"}
  Delistable = {}
  ExcludedMarkets = {}
  PartialTake = TRUE
  MaxAdds = 1
  MaxOrders = 1
  MaxCommands = 1
  MaxRetries = 1
  MaxFaults = 1
  MaxCrashes = 0
INVARIANTS TypeOK RowsAgree PartialTakenOnce
PROPERTIES GateKept
