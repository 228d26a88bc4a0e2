\* What must end, and disabling: no commands, no rotation of the keys.
CONSTANTS
  BT_MAX_CONN = 2
  FMNA_MAX_CONN = 2
  Races = {"late_nearby"}
  AUTO_ENTER = TRUE
  Commands <- NoCommands
  AppCalls = {"fmna_enable", "fmna_disable", "pairing_mode"}
  NearbyTimeouts = {0}
  MaxRequests = {1}
  MaxPending = 1
  MaxPendingKeys = 0
SPECIFICATION FairSpec
INVARIANTS
  OneReferencePerLink
PROPERTIES
  UnsecuredLinkEnds
  NearbyEnds
