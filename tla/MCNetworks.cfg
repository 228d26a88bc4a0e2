\* The selector: two networks, three failing calls, two power losses.
CONSTANTS
  MaxFaults = 3
  MaxPowerLoss = 2
  Conns = {c1, c2}
  Races = {}
SPECIFICATION Spec
CHECK_DEADLOCK FALSE
INVARIANTS
  DataOfSelected
  OneFastPairLink
  ProvisioningTimed
PROPERTIES
  ImplementsChoice
  ResetCompletes
  HalfProvisionedEnds
