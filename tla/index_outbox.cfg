SPECIFICATION FairSpec
CONSTANTS
  k1 = k1
  t1 = t1
  t2 = t2
  f1 = f1
  Keys = {k1}
  Texts = {t1, t2}
  NoText = NoText
  Facts = {f1}
  RemovedFact = RemovedFact
  Workers = {p1}
  BatchSize = 2
  MaxIncarnations = 2
  MaxGeneration = 2
  MaxDeletions = 1
  MaxRows = 2
  MaxFaults = 1
INVARIANTS
  TypeOK
  
  
PROPERTIES OutboxDrains
\* the writers are used up in the end
CHECK_DEADLOCK FALSE
