\* The keys: two pairings, small periods.
CONSTANTS
  BT_MAX_CONN = 1
  PRIMARY_KEYS_PER_SECONDARY_KEY = 3
  STORAGE_UPDATE_PERIOD = 2
  SECONDARY_KEY_EVAL_INDEX_LOWER_BOUND = 1
  OwnerCommands = {"UNPAIR", "LATCH_SEPARATED_KEY", "CONFIGURE_SEPARATED_STATE"}
  KeyRaces = {}
  MaxIndex = 5
  MaxPairings = 2
  MaxTorn = 0
  MaxKeyEvents = 1
  MaxQueries = 0
SPECIFICATION Spec
CHECK_DEADLOCK FALSE
INVARIANTS
  KeysInStep
  StoredKeysCurrent
  EvaluationKept
PROPERTIES
  KeysNeverReturn
