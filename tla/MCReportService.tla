--------------------------- MODULE MCReportService ---------------------------
(* The requests of MCGateService and a reader of reports.                     *)
EXTENDS ReportService, MCGateService
=============================================================================
