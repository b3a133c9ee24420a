\* Three reports, the second of them a crash, in overlapping batches of two, a
\* queue of two, one retry, a late post and an ingest that throws or dies.
SPECIFICATION Spec
CONSTANTS
  MaxReports = 3
  Crashes = {2}
  MaxBatches = 2
  MaxQueue = 2
  BatchSize = 2
  MaxRetries = 2
  MaxBroken = 1
  MaxLate = 1
INVARIANTS OnePlace SentWasStored
PROPERTY ReportsSettle
CHECK_DEADLOCK FALSE
