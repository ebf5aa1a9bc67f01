\* A worker is signalled, restarted and signalled again.
CONSTANTS
  t1 = t1  t2 = t2  s1 = s1  r1 = r1  r2 = r2  j1 = j1  j2 = j2
  Tasks = {t1, t2}
  RetryCount <- OneRetry
  DueBatch = 2
  Scans = {s1}
  Engines = {e1}
  Jobs = {j1, j2}
  Concurrency = 1
  Faults = {"refuse", "rollback", "signal"}
  Requests = {r1}
  ScanOf <- MixedScanOf
  High <- MixedHigh
  Standard <- MixedStandard
SPECIFICATION FairSpec
PROPERTIES
  StopCompletes
