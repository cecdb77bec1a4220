SPECIFICATION Spec
CONSTANTS
  station = station
  weather = weather
  extra = extra
  report = report
  NoNode = NoNode
  Nodes = {station, weather, extra, report}
  Dependencies <- Join
  Source <- RoutedByStation
  AllowPartial = {report}
  Required = {station, report}
  ResourceGaps = {weather}
  MaxAttempts <- TwoForWeather
  MaxRetries = 1
  MaxConcurrency = 2
  Failures = {"transient"}
  MaxStarts = 2
  MaxCrashes = 1
INVARIANTS
  EvidenceBeforeExecution
PROPERTIES
  NoWorkAfterCancel
CHECK_DEADLOCK FALSE
