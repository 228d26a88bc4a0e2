\* Two peers write pairing packets.
CONSTANTS
  BT_MAX_CONN = 2
  Mtus = {3}
  ResponseLen = 2
  DataLen = 5
  PairingChunks = 2
  GattRaces = {}
  MaxPeers = 2
  MaxCommands = 2
SPECIFICATION Spec
CHECK_DEADLOCK FALSE
PROPERTY
  PairingPacketOfPeer
