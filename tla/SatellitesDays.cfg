SPECIFICATION Spec
CONSTANTS
  s1 = s1
  s2 = s2
  Satellite = {s1, s2}
  MaxConnections = 1
  LastHour = 3
  Scenarios <- Days
INVARIANTS PairedIsConnected HoursAreRight
PROPERTIES AdministratorDecides StatisticsOnlyGrow StatisticsArrive SettingsArrive
CHECK_DEADLOCK FALSE
