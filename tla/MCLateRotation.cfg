\* A rotation is due when the last owner of an unpaired accessory leaves.
CONSTANTS
  BT_MAX_CONN = 1
  PRIMARY_KEYS_PER_SECONDARY_KEY = 4
  STORAGE_UPDATE_PERIOD = 2
  SECONDARY_KEY_EVAL_INDEX_LOWER_BOUND = 1
  OwnerCommands = {"UNPAIR"}
  KeyRaces = {"late_rotation"}
  MaxIndex = 3
  MaxPairings = 2
  MaxTorn = 0
  MaxKeyEvents = 1
  MaxQueries = 0
SPECIFICATION Spec
CHECK_DEADLOCK FALSE
INVARIANTS
  SecondarySynced
