CONSTANTS
  Catalogs = {"dialogues"}
  Bulks = {"readable_items"}
  BulkTables <- MCBulkTables
  Resources = {"d1", "d2"}
  KindOf <- MCKindOf
  Identities = {"a", "b"}
  Children = {"line1", "edge", "line2"}
  ParentOf <- MCParentOf
  TableOf <- MCTableOf
  LastTable <- MCLastTable
  Roots = {"game"}
  BatchSize = 2
  MaxRuns = 3
  None = None
SPECIFICATION Spec
INVARIANTS TypeOK CompleteHasItsRows NoLinesWithoutDetails CompleteRunLeavesNone
PROPERTIES DetailsKept CatalogSpec
CHECK_DEADLOCK FALSE
