\* The serial number: NFC readers and an owner query it.
CONSTANTS
  BT_MAX_CONN = 1
  PRIMARY_KEYS_PER_SECONDARY_KEY = 4
  STORAGE_UPDATE_PERIOD = 2
  SECONDARY_KEY_EVAL_INDEX_LOWER_BOUND = 1
  OwnerCommands = {"UNPAIR"}
  KeyRaces = {}
  MaxIndex = 2
  MaxPairings = 2
  MaxTorn = 1
  MaxKeyEvents = 1
  MaxQueries = 2
SPECIFICATION Spec
CHECK_DEADLOCK FALSE
INVARIANTS
  OnePairingRestored
  TagCurrent
