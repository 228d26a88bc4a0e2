\* A connection is reported while the advertising set is being stopped.
CONSTANTS
  MaxFaults = 0
  MaxPowerLoss = 0
  Conns = {c1, c2}
  Races = {"late_connect"}
SPECIFICATION Spec
INVARIANT OneFastPairLink
CHECK_DEADLOCK FALSE
