CONSTANTS
  N = 4
  SliceSize = 2
  SaveEvery = 2
  Storages = {"single", "bundle"}
  BatchSize = 2
  RateLimit = 2
  MaxRuns = 3
SPECIFICATION Spec
INVARIANTS
  LinesOnRecordedMachine
  ConcurrentSlicesDisjoint
  BundleMessagesTrue
  MarkedIsWritten
PROPERTIES
  CachedNotUploadedAgain
CHECK_DEADLOCK FALSE
