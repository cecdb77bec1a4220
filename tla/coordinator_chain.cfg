SPECIFICATION Spec
CONSTANTS
  station = station
  weather = weather
  extra = extra
  report = report
  NoNode = NoNode
  Nodes = {station, weather, report}
  Dependencies <- Chain
  Source <- Unrouted
  AllowPartial = {report}
  Required = {station, weather}
  ResourceGaps = {}
  MaxAttempts <- TwoForStation
  MaxRetries = 2
  MaxConcurrency = 1
  Failures = {"transient", "stop", "quota", "quota_untimed", "local"}
  MaxStarts = 3
  MaxCrashes = 1
INVARIANTS
  TypeOK
  EvidenceBeforeExecution
  RunsFollowNodes
  StatusMatchesGraph
  
PROPERTIES
  ResultsKept
CHECK_DEADLOCK FALSE
