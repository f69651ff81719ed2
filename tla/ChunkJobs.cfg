\* Each kind of queue: two workers, two documents, a backfill, two disruptions.
SPECIFICATION FairSpec
CONSTANTS
  w1 = w1
  w2 = w2
  b1 = b1
  c1 = c1
  c2 = c2
  Workers = {w1, w2}
  Backfills = {b1}
  Chunks = {c1, c2}
  DocOf <- TwoDocs
  OwnedDocs = {"d1", "d2"}
  Kinds = {"embedding", "entity", "event"}
  AutoQueue = TRUE
  MaxBatch = 2
  RecoveryLimit = 2
  MaxDisruptions = 2
INVARIANTS
  ResultsMatchJobs
PROPERTIES
  ResultsStay
  EveryJobSettles
\* When every job has ended and no document is processed again, nothing is left to do.
CHECK_DEADLOCK FALSE
