---------------------------- MODULE MCAgentRuns ----------------------------
(***************************************************************************)
(* Instances of AgentRuns: two requests of one session.                    *)
(***************************************************************************)
EXTENDS AgentRuns

CONSTANTS p1, p2, q1, q2

(* The processes are alike: one request may stay at p1.                    *)
OneMayMove == [q \in Requests |-> IF q = q1 THEN {p1} ELSE Webs]
=============================================================================
