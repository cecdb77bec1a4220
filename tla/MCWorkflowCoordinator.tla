----------------------- MODULE MCWorkflowCoordinator -----------------------
(***************************************************************************)
(* Graphs for WorkflowCoordinator: a chain whose last node takes partial   *)
(* input, and a join with a routed node.                                   *)
(***************************************************************************)
EXTENDS WorkflowCoordinator

CONSTANTS station, weather, extra, report

(* station, then weather, then the optional report.                        *)
Chain ==
  [n \in Nodes |-> CASE n = station -> {} [] n = weather -> {station} [] n = report -> {weather}]

(* The others side by side; report joins them and is routed by station.    *)
Join == [n \in Nodes |-> IF n = report THEN Nodes \ {report} ELSE {}]
RoutedByStation == [n \in Nodes |-> IF n = report THEN station ELSE NoNode]

Unrouted == [n \in Nodes |-> NoNode]

TwoForStation == [n \in Nodes |-> IF n = station THEN 2 ELSE 1]
TwoForWeather == [n \in Nodes |-> IF n = weather THEN 2 ELSE 1]
One == [n \in Nodes |-> 1]
=============================================================================
