\* The reset button is held while the device starts unselected.
CONSTANTS
  MaxFaults = 0
  MaxPowerLoss = 0
  Conns = {c1, c2}
  Races = {"reset_unselected"}
SPECIFICATION Spec
INVARIANT ResetLeaves
CHECK_DEADLOCK FALSE
