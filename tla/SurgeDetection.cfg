SPECIFICATION Spec
CONSTANTS
  Markets = {btc, eth, xrp}
  Targets = {btc}
  TopN = 1
  Caps = {1, 2}
  Ttl = 2
  RefreshEvery = 2
  Suspects = {xrp}
  MaxCommands = 2
INVARIANTS TypeOK MarkedIsNew
PROPERTIES CapKept
