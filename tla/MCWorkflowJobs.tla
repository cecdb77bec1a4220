--------------------------- MODULE MCWorkflowJobs ---------------------------
(* Instances of WorkflowJobs for TLC.                                      *)
EXTENDS WorkflowJobs, TLC

(* Tokens are interchangeable, and so are worker processes.                *)
Symmetry == Permutations(Tokens) \cup Permutations(Workers)
=============================================================================
