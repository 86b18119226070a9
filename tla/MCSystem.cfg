SPECIFICATION SysSpec
CONSTANTS
  FirstPort = 3000
  LastPort = 3002
  Amount <- Amounts
  MaxExits = 1
  MaxFaults = 2
  MaxBreaks = 1
  Breaks = {"crash", "sample"}
  Window = 1
INVARIANTS
  ReachesForecast
  StartsOnFreePorts
  SysTypeOK
  PoolIsCurrent
PROPERTIES
  RoundIsPublished
  ScalingGoesOn
  GoneBackendsLeave
  BackendsAreMonitored
