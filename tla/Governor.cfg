\* The monitor task of a debug build; it may stop by a panic.
CONSTANTS
  Metrics <- MCMetrics
  SurvivalCpu = 90
  BalancedCpu = 60
  SurvivalRam = 512
  BalancedRam = 2048
  Thresholds <- MCThresholds
  OverflowChecks = TRUE
  Memory = 4
SPECIFICATION FairSpec
CHECK_DEADLOCK FALSE
INVARIANTS
  TypeOK
  NoLateSwitch
PROPERTIES
  NoEarlySwitch
  Settles
