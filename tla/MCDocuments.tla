---------------------------- MODULE MCDocuments ----------------------------
(***************************************************************************)
(* Instances of Documents: two processes, the requests served by one.      *)
(***************************************************************************)
EXTENDS Documents

CONSTANTS w1, w2, r1, r2, d1, upload, new1, new2

ServedByW1 == [r \in Requests |-> w1]

NewContents == [r \in Replacers |-> IF r = r1 THEN new1 ELSE new2]
=============================================================================
