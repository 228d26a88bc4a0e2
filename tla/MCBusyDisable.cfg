\* The stack is disabled while events wait.
CONSTANTS
  BT_MAX_CONN = 2
  FMNA_MAX_CONN = 2
  Races = {"busy_disable"}
  AUTO_ENTER = TRUE
  Commands <- NoCommands
  AppCalls = {"fmna_enable", "fmna_disable"}
  NearbyTimeouts = {0}
  MaxRequests = {1}
  MaxPending = 1
  MaxPendingKeys = 0
SPECIFICATION Spec
INVARIANTS
  SilentWhenDisabled
