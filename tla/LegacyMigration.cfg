CONSTANTS
  m1 = m1
  m2 = m2
  Migrators <- TwoMigrators
  SourceVersions <- OldVersions
  SourceHistory <- OldStores
  FileSets <- OldFileSets
  Destinations <- NewRoots
  Runs <- RunIds
  MaxFaults = 2
SPECIFICATION Spec
INVARIANTS
  MigratedRowsHaveTheirFiles
  MigratedRunsAreWhole
  MigrationIsRepeatable
PROPERTIES
  FailedMigrationLeavesNoTrace
CHECK_DEADLOCK FALSE
