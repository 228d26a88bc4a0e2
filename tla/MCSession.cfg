\* Pairing, unpairing, the nearby timeout of 0, rotations of the keys.
CONSTANTS
  BT_MAX_CONN = 2
  FMNA_MAX_CONN = 2
  Races = {"hasty_complete"}
  AUTO_ENTER = TRUE
  Commands <- SessionCommands
  AppCalls = {"fmna_enable", "pairing_mode"}
  NearbyTimeouts = {0, 3601}
  MaxRequests = {1}
  MaxPending = 1
  MaxPendingKeys = 1
SPECIFICATION Spec
INVARIANTS
  TypeOK
  RecordsTracked
  UnsecuredLinkTimed
  KeysWithPairing
  PairingConnLive
  AvailabilityReported
