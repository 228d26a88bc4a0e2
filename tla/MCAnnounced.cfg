\* As many links as the host has connection objects.
CONSTANTS
  BT_MAX_CONN = 2
  FMNA_MAX_CONN = 2
  Races = {}
  AUTO_ENTER = TRUE
  Commands <- NoCommands
  AppCalls = {"fmna_enable", "pairing_mode"}
  NearbyTimeouts = {0}
  MaxRequests = {1}
  MaxPending = 1
  MaxPendingKeys = 0
SPECIFICATION Spec
INVARIANTS
  StateAnnounced
