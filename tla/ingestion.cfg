\* Two uploads of one file, a queue that may come and go, two restarts.
CONSTANTS
  Upload = {u1, u2}
  Source = {s1}
  MaxChunks = 2
  MaxRestarts = 2
  QueueDeployed = TRUE
SPECIFICATION FairSpec
INVARIANTS TypeOK VersionsDistinct JobsMatchDocuments NeverInBothProcesses
PROPERTIES JobsOnlyAdvance TasksSettle ImplementsCatalog
