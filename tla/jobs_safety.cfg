\* One workflow, two workers: takeovers, zombies, resumes and evictions.
CONSTANTS
  Workflows = {w1}
  Workers = {p1, p2}
  Tokens = {t1, t2, t3}
  NoWorkflow = NoWorkflow
  NoToken = NoToken
  NoWorker = NoWorker
  TtlPeriods = 2
  MaxEvents = 2
  MaxEnqueues = 2
  MaxQueue = 2
  MaxFaults = 3
SPECIFICATION Spec
SYMMETRY Symmetry
INVARIANTS TypeOK SoleLeaseHolder JournalGapFree
PROPERTIES ProgressKept OnlyExpiredLeasesRevoked SettledSnapshotComplete ImplementsLifecycle
\* the system stops when every job is settled and the enqueues are used up
CHECK_DEADLOCK FALSE
