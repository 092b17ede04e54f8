CONSTANTS
  Catalogs = {"characters", "dialogues"}
  Bulks = {"metadata", "portraits", "readable_items"}
  BulkTables <- MCBulkTables
  Resources = {"c", "d"}
  KindOf <- MCKindOf
  Identities = {"a"}
  Children = {"sound", "line", "edge"}
  ParentOf <- MCParentOf
  TableOf <- MCTableOf
  LastTable <- MCLastTable
  Roots = {"game"}
  BatchSize = 1
  MaxRuns = 6
  None = None
  Tables <- MCTables
  NoSearch = ""
  Searches = {"", "x"}
  MatchesOf <- MCMatchesOf
  PageSizes <- MCPageSizes
  ReaderPageSize = 2
  OldOffsets = {3}
  MaxRemembered = 1
  MaxEdits = 1
  NoToken = NoToken
  Unread = Unread
SPECIFICATION MCSpec
INVARIANTS PublishedIsCurrent PublishedIsWhole InputsAreWhole PageOfOneGeneration VoicesResolve
INVARIANTS ShownAnswersQuery PageIsWindow
CHECK_DEADLOCK FALSE
