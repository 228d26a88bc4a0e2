\* Disabling and enabling, the persistent connection, rotations of the keys.
CONSTANTS
  BT_MAX_CONN = 2
  FMNA_MAX_CONN = 2
  Races = {}
  AUTO_ENTER = TRUE
  Commands <- LifecycleCommands
  AppCalls = {"fmna_enable", "fmna_disable", "pairing_mode"}
  NearbyTimeouts = {0}
  MaxRequests = {1}
  MaxPending = 1
  MaxPendingKeys = 1
SPECIFICATION Spec
INVARIANTS
  TemporaryModesEnd
  OneReferencePerLink
