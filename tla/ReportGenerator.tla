--------------------------- MODULE ReportGenerator ---------------------------
(***************************************************************************)
(* report_generator.py: the order and the figures of a report, and which   *)
(* figures each format shows.                                              *)
(***************************************************************************)
EXTENDS IssueClassifier

Count(list, severity) ==
  Cardinality({i \in DOMAIN list : list[i].severity = severity})

\* Stable, by SEVERITY_SCORE from the highest.
SortedIssues(list) ==
  FlattenSeq([n \in DOMAIN Severities |->
                Picked(list, {i \in DOMAIN list : list[i].severity = Severities[n]})])

\* ScanSummary
Summary(list, endpoints, requests) ==
  [endpoints |-> endpoints, requests |-> requests, total |-> Len(list),
   count |-> [severity \in ToSet(Severities) |-> Count(list, severity)]]

Formats == {"json", "html", "md"}

\* The severities whose number a format shows.
ShownSeverities(format) ==
  IF format = "json" THEN ToSet(Severities) ELSE ToSet(Severities) \ {"INFO"}
=============================================================================
