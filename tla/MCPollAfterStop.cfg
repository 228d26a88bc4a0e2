\* A timer expires inside a handler.
CONSTANTS
  BT_MAX_CONN = 1
  SoundRaces = {"isr"}
  MaxSoundEvents = 1
  SEPARATED_UT_MAX_SOUND_COUNT = 3
SPECIFICATION Spec
INVARIANTS
  PollsWhileStarted
