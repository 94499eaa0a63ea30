----------------------------- MODULE MCReportStore -----------------------------
(* Instances of ReportStore: who shares the runs directory, and which run  *)
(* each publisher writes.                                                  *)
EXTENDS ReportStore, TLC

CONSTANTS a, b, c, pruner, deleter, reader

(* Runs that finish in one order and may be published in another.          *)
Distinct == (a :> 1) @@ (b :> 2) @@ (c :> 3)

(* a and c publish the same results: a retry, possibly concurrent, maybe   *)
(* of a run that is not the newest.                                        *)
Retried  == (a :> 1) @@ (b :> 2) @@ (c :> 1)
==============================================================================
