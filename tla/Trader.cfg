SPECIFICATION Spec
CONSTANTS
  Markets = {btc}
  Commands = {"halt", "resume"}
  Delistable = {}
  ExcludedMarkets = {}
  PartialTake = FALSE
  MaxAdds = 0
  MaxOrders = 2
  MaxCommands = 1
  MaxRetries = 1
  MaxFaults = 1
  MaxCrashes = 1
INVARIANTS OneCallAfterHalt
PROPERTY GateKept
