\* Sound and motion detection: two peers, three sounds to the back-off.
CONSTANTS
  BT_MAX_CONN = 2
  SoundRaces = {}
  MaxSoundEvents = 1
  SEPARATED_UT_MAX_SOUND_COUNT = 3
SPECIFICATION Spec
INVARIANTS
  SoundTimed
  CompletionToInitiator
  QuietWithOwner
PROPERTIES
  SoundEnds
  DetectionContinues
