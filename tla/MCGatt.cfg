\* The control points: two links, three peers, answers of one to three chunks.
CONSTANTS
  BT_MAX_CONN = 2
  Mtus = {3}
  ResponseLen = 2
  DataLen = 5
  PairingChunks = 2
  GattRaces = {}
  MaxPeers = 3
  MaxCommands = 3
SPECIFICATION Spec
CHECK_DEADLOCK FALSE
INVARIANTS
  BufferReleased
  ChunksWhole
  IndicationToItsPeer
