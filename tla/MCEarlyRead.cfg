\* A reader comes between the start of the work item and its first step.
CONSTANTS
  BT_MAX_CONN = 1
  PRIMARY_KEYS_PER_SECONDARY_KEY = 4
  STORAGE_UPDATE_PERIOD = 2
  SECONDARY_KEY_EVAL_INDEX_LOWER_BOUND = 1
  OwnerCommands = {"UNPAIR"}
  KeyRaces = {"early_read"}
  MaxIndex = 3
  MaxPairings = 1
  MaxTorn = 0
  MaxKeyEvents = 1
  MaxQueries = 2
SPECIFICATION Spec
CHECK_DEADLOCK FALSE
INVARIANTS
  IncrementPositive
