\* Scans in any order of calls: processing before the flush, resets.
CONSTANTS
  Texts <- Texts4
  Similarity <- Alike
  Uuids = {}
  Numbers = {"42", "7"}
  IdKeys = {"id", "owner"}
  PiiKeys = {"email"}
  SensitiveKeys = {"secret"}
  AdminEndpoints = {"/y"}
  Responses <- TwoEndpoints
  ReferenceRole = "admin"
  Threshold = 65000
  Calls = {"process", "reset"}
  MaxResponses = 3
  MaxProcessed = 2
  MaxReports = 1
SPECIFICATION Spec
INVARIANTS
  ReportCoversBuffer
  EveryAnomalyReported
  EveryFormatAddsUp
  NothingStale
  EveryReportedIssueTold
PROPERTY ReportsStand
CHECK_DEADLOCK FALSE
