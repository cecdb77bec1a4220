\* Every queued job is settled: one workflow, two workers, one fault.
CONSTANTS
  Workflows = {w1}
  Workers = {p1, p2}
  Tokens = {t1, t2, t3}
  NoWorkflow = NoWorkflow
  NoToken = NoToken
  NoWorker = NoWorker
  TtlPeriods = 4
  MaxEvents = 1
  MaxEnqueues = 2
  MaxQueue = 4
  MaxFaults = 1
SPECIFICATION FairSpec
PROPERTIES EveryJobSettles
\* the system stops when every job is settled and the enqueues are used up
CHECK_DEADLOCK FALSE
