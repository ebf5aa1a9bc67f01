\* Two processes: one caller needs the global and the domain bucket, the other
\* the domain bucket. Commands are refused or lose their reply, both report.
CONSTANTS
  c1 = c1  c2 = c2  p1 = p1  p2 = p2  g = g  d = d
  Callers = {c1, c2}
  Processes = {p1, p2}
  ProcessOf <- TwoProcesses
  Keys = {g, d}
  Rate <- OneEach
  BucketsOf <- SharedDomain
  DomainOf <- ReportsDomain
  Reporters = {c1, c2}
  Timeout = 2
  Faults = {"refuse", "reply"}
  MaxTime = 4
  MaxCalls = 1
SPECIFICATION FairSpec
INVARIANTS
  GrantsBounded
  ServedFromEveryBucket
PROPERTIES
  ReducedUntilExpiry
  CallsReturn
CHECK_DEADLOCK FALSE
