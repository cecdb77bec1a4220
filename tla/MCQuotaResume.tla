--------------------------- MODULE MCQuotaResume ---------------------------
(***************************************************************************)
(* Instances of QuotaResume: the one background worker of a deployment and *)
(* one web process.                                                        *)
(***************************************************************************)
EXTENDS QuotaResume

CONSTANTS w1, w2, web, early, late
=============================================================================
