CONSTANTS
  Voices = {"s", "t"}
  Narrator = "narrator"
  Sparse = {"s", "t"}
  Lines = {"s1", "t1"}
  VoiceOf <- MCVoiceOf
  ProviderIds = {"i1"}
  Ops = {"o1", "o2"}
  BatchLimit = 2
  DirectSize = 1
  FlushSize = 1
  MaxFaults = 2
  None = None
SPECIFICATION Spec
INVARIANTS RunningBatchDirected RunningBatchOwnsAudio
PROPERTY ClosedBatchAccounted
