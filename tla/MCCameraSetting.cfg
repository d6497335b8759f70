SPECIFICATION Spec
CONSTANTS
  Tables <- MCTables
  Lengths <- MCLengths
  Controls <- MCControls
  Info <- MCInfo
  Resets <- MCResets
  Values <- MCValues
  QPs = {0, 30}
  BitRates = {0, 1600, 30000}
INVARIANTS
  PassesAgree
  RegistersAsAsked
  SettingComplete
CHECK_DEADLOCK FALSE
