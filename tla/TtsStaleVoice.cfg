CONSTANTS
  Voices = {"v"}
  Narrator = "narrator"
  Sparse = {}
  Lines = {"v1"}
  VoiceOf <- MCVoiceOf
  ProviderIds = {"i1", "i2"}
  Ops = {"o1", "o2"}
  BatchLimit = 2
  DirectSize = 1
  FlushSize = 1
  MaxFaults = 2
  None = None
SPECIFICATION Spec
INVARIANT SpokenByBound
