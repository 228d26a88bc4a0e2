\* The update protocol: two links, one image with metadata, every message.
CONSTANTS
  MaxOffers = 2
  Versions = {3}
  OldVersions = {}
  CorruptVersions = {}
  MetaVersions = {3}
  PlainVersions = {}
  BadHashVersions = {}
  FastVersions = {}
  Payloads = 2
  AppPayloads = {1}
  LENGTH = 3
  WINDOW = 2
  BT_MAX_CONN = 2
  MaxLinks = 2
  MaxCommands = 2
  Races = {}
SPECIFICATION Spec
CHECK_DEADLOCK FALSE
INVARIANTS
  AssertionsHold
  TransferNotStuck
  MessagesWhole
  BuffersAgree
