SPECIFICATION FairSpec
CONSTANTS
  Statements <- SourceStatements
  Additive <- SourceAdditive
  Names = {"pyramid_breakout", "ma_cross"}
  Pyramids = {"pyramid_breakout"}
  Default = "pyramid_breakout"
  MaxEdits = 3
  MaxCrashes = 1
INVARIANTS TypeOK SchemaComplete FreshStrategy SettingsInForce
PROPERTIES TradesAgain
CHECK_DEADLOCK FALSE
