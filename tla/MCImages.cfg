\* Whole updates: five images that differ in what is wrong with them.
CONSTANTS
  MaxOffers = 2
  Versions = {1, 2, 3, 4, 5}
  OldVersions = {1}
  CorruptVersions = {3}
  MetaVersions = {2}
  PlainVersions = {}
  BadHashVersions = {4}
  FastVersions = {5}
  Payloads = 2
  AppPayloads = {1, 2}
  LENGTH = 3
  WINDOW = 2
  BT_MAX_CONN = 1
  MaxLinks = 2
  MaxCommands = 1
  Races = {}
SPECIFICATION Spec
CHECK_DEADLOCK FALSE
INVARIANTS
  AppliedWhole
  ResumePoint
