-------------------------- MODULE ScanExecutionMC --------------------------
(***************************************************************************)
(* Small instances of ScanExecution for TLC: values for its constants.     *)
(***************************************************************************)
EXTENDS ScanExecution

CONSTANTS t1, t2, s1, r1, r2, j1, j2

\* One request with a task of each priority.
MixedScanOf == [r \in Requests |-> s1]
MixedHigh == [r \in Requests |-> <<t1>>]
MixedStandard == [r \in Requests |-> <<t2>>]

\* One request with one task.
OneHigh == [r \in Requests |-> <<>>]
OneStandard == [r \in Requests |-> <<t1>>]

\* Two requests with one task each.

\* t1 may be retried once, t2 never; or every task once.
MixedRetries == [t \in Tasks |-> IF t = t1 THEN 1 ELSE 0]
OneRetry == [t \in Tasks |-> 1]
TwoRetries == [t \in Tasks |-> 2]

Symmetry == Permutations(Jobs) \cup Permutations(Engines)
=============================================================================
