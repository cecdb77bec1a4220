--------------------------- MODULE MCEventClaims ---------------------------
(***************************************************************************)
(* Instances of EventClaims: the one process of the role all, which serves *)
(* requests too; a worker beside a web process.                            *)
(***************************************************************************)
EXTENDS EventClaims

CONSTANTS w, web, c1, c2
=============================================================================
