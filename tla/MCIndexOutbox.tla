--------------------------- MODULE MCIndexOutbox ---------------------------
(***************************************************************************)
(* Instances of IndexOutbox: one outbox worker, as deployed.               *)
(***************************************************************************)
EXTENDS IndexOutbox

CONSTANTS k1, t1, t2, f1
=============================================================================
