\* Commands and transactions fail, replies are lost, processes die.
CONSTANTS
  t1 = t1  t2 = t2  s1 = s1  r1 = r1  r2 = r2  j1 = j1  j2 = j2
  Tasks = {t1, t2}
  RetryCount <- MixedRetries
  DueBatch = 2
  Scans = {s1}
  Engines = {e1, e2}
  Jobs = {j1, j2}
  Concurrency = 2
  Faults = {"refuse", "reply", "db", "crash"}
  Requests = {r1}
  ScanOf <- MixedScanOf
  High <- MixedHigh
  Standard <- MixedStandard
SYMMETRY Symmetry
SPECIFICATION Spec
INVARIANTS
  SemaphoreAccounting
  DeadLettersExhausted
  AttemptsWereSent
  VerdictsAreReal
PROPERTIES
  FirstVerdictStands
  ProgressNeverRegresses
