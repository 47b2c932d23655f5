---------------------------- MODULE MCReportStep ----------------------------
(* ReportStep with three attempts and every timer a few ticks apart. *)
EXTENDS ReportStep
=============================================================================
