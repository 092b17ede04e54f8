CONSTANTS
  Families = {"citizen", "thug"}
  GenericFamilies = {"citizen"}
  Races = {0, 1, 2}
  Genders = {"male", "female", "neutral"}
  Neutral = "neutral"
  DialogueNames = {"d1", "d2", "d3", "d4", "gone"}
  Dialogues = {"d1", "d2", "d3", "d4"}
  SpokenDialogues = {"d1", "d2", "d3", "d4"}
  NpcTexts <- MCNpcTexts
  DeathVariables = {"captain"}
  Campaigns <- MCCampaigns
  TableRows <- MCTableRows
  GenericFamilyMinProxies = 2
  VoiceVariantMinProxies = 1
  VoiceVariantMinTexts = 1
  NeutralVariantMinDialogues = 2
  Lines <- MCLines
  LineOf <- MCLineOf
  OtherRaces = {0}
  GenericMaxLines = 2
  NamedRaceCount = 1
  MaxRegenerated = 1
  None = None
  Scenes = {1, 2}
  MaxStateIndex = 2
  MaxTransitionIndex = 1
  NoTurn = NoTurn
  BatchCharacterLimit = 4
  BatchItemLimit = 3
  DirectionIds = {1, 2, 3, 4}
  AuditBatchSize = 2
  AuditConcurrency = 2
  Unasked = Unasked
SPECIFICATION MCSpec
INVARIANT ProxiesAreComponents
INVARIANT OneVoicePerSpeaker
INVARIANT FamilyShape
INVARIANT RacesNamedByNeed
INVARIANT FamilyIsHeard
INVARIANT ExportIsWhole
INVARIANT InstalledAsAttributed
INVARIANT NoForeignGender
INVARIANT HistoryIsPath
INVARIANT PackingIsTight
INVARIANT ReportIsJudged
CHECK_DEADLOCK FALSE
