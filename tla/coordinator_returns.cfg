SPECIFICATION FairSpec
CONSTANTS
  station = station
  weather = weather
  extra = extra
  report = report
  NoNode = NoNode
  Nodes = {station, weather, report}
  Dependencies <- Join
  Source <- RoutedByStation
  AllowPartial = {report}
  Required = {station, report}
  ResourceGaps = {}
  MaxAttempts <- TwoForWeather
  MaxRetries = 1
  MaxConcurrency = 1
  Failures = {"transient"}
  MaxStarts = 1
  MaxCrashes = 0
PROPERTIES
  RunReturns
CHECK_DEADLOCK FALSE
