---------------------------- MODULE MCReportQueue ----------------------------
(* One report of public.reports, which the watchdog can see. *)
EXTENDS ReportQueue
CONSTANTS r1, p1
MCReports == {r1}
MCProjects == {p1}
MCProjectOf == [r \in MCReports |-> p1]
=============================================================================
