\* Paired advertising is paused and then the accessory is paired.
CONSTANTS
  BT_MAX_CONN = 2
  FMNA_MAX_CONN = 2
  Races = {}
  AUTO_ENTER = TRUE
  Commands <- SessionCommands
  AppCalls = {"fmna_enable", "paired_adv"}
  NearbyTimeouts = {0}
  MaxRequests = {1}
  MaxPending = 1
  MaxPendingKeys = 0
SPECIFICATION Spec
INVARIANTS
  AdvMatchesState
