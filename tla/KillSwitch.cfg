SPECIFICATION Spec
CONSTANTS
  Markets = {btc}
  Equities = {100, 80}
  Quotes = {100, 90}
  MacroPct = 15
  MicroPct = 3
  MaxFaults = 1
  MaxCrashes = 1
INVARIANTS TypeOK AckDurable NoLostUpdate
PROPERTIES PeakKept GateSpec
