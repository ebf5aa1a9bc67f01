\* Two workers share the queue, no faults.
CONSTANTS
  t1 = t1  t2 = t2  s1 = s1  r1 = r1  r2 = r2  j1 = j1  j2 = j2
  Tasks = {t1}
  RetryCount <- TwoRetries
  DueBatch = 2
  Scans = {s1}
  Engines = {e1, e2}
  Jobs = {j1, j2}
  Concurrency = 2
  Faults = {}
  Requests = {r1}
  ScanOf <- MixedScanOf
  High <- OneHigh
  Standard <- OneStandard
SPECIFICATION FairSpec
INVARIANTS
  NothingLost
PROPERTIES
  EveryTaskSettles
