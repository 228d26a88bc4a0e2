\* A transfer is resumed while the header of its next payload was requested.
CONSTANTS
  MaxOffers = 2
  Versions = {3}
  OldVersions = {}
  CorruptVersions = {}
  MetaVersions = {3}
  PlainVersions = {}
  BadHashVersions = {}
  FastVersions = {}
  Payloads = 2
  AppPayloads = {1}
  LENGTH = 3
  WINDOW = 2
  BT_MAX_CONN = 1
  MaxLinks = 2
  MaxCommands = 0
  Races = {"header_orphan"}
SPECIFICATION Spec
INVARIANTS
  DataOnlyInTransfer
CHECK_DEADLOCK FALSE
