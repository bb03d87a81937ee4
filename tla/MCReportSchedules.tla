-------------------------- MODULE MCReportSchedules --------------------------
(***************************************************************************)
(* Instances of ReportSchedules for TLC.                                   *)
(***************************************************************************)
EXTENDS ReportSchedules

\* Every event may happen, once.
EveryEvent == [e \in Events |-> 1]
=============================================================================
