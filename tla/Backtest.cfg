SPECIFICATION Spec
CONSTANTS
  Names = {"pyramid_breakout", "pyramid_breakout_ls", "breakout_n", "trend_follow", "ma_cross", "turtle", "momentum", "mean_reversion"}
  Closes = {8, 12, 18, 24}
  Capital = 14450
  FeePct = 1
  Grain = 100
  MaxBars = 8
  MaxMoody = 6
  EntryPct = 40
  StopPct = 40
  TrailPct = 30
  AddPct = 40
  ProfitPct = 90
  Unit = 7200
  Window = 2
  EntryPeriod = 2
  ExitPeriod = 1
  AtrPeriod = 1
  StopMult = 2
  UseFilter = TRUE
  MaExit = TRUE
INVARIANTS TypeOK InStep RecordsAddUp AddsWithinPeak HeldAboveStop IndicatorsAgree
PROPERTIES FillsNeverProfit
CHECK_DEADLOCK FALSE
