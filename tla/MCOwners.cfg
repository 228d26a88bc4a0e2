\* Owners that write every configuration command.
CONSTANTS
  BT_MAX_CONN = 2
  FMNA_MAX_CONN = 2
  Races = {}
  AUTO_ENTER = TRUE
  Commands <- OwnerCommands
  AppCalls = {"fmna_enable", "pairing_mode", "paired_adv"}
  NearbyTimeouts = {0}
  MaxRequests = {1}
  MaxPending = 1
  MaxPendingKeys = 0
SPECIFICATION Spec
INVARIANTS
  UnsecuredLinkTimed
  OwnerTracked
  Findable
  AdvMatchesState
  TemporaryModesEnd
