SPECIFICATION TendedSpec
CONSTANTS
  FirstPort = 3000
  LastPort = 3002
  Amount <- Amounts
  MaxExits = 0
  MaxFaults = 0
  MaxBreaks = 2
  Breaks = {"sample"}
  Window = 1
PROPERTY
  RoundsGoOn
