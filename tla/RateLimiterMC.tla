--------------------------- MODULE RateLimiterMC ---------------------------
(***************************************************************************)
(* Small instances of RateLimiter for TLC: values for its constants.       *)
(***************************************************************************)
EXTENDS RateLimiter, TLC

CONSTANTS c1, c2, p1, p2, g, d

\* The callers in one process, or each in its own.
TwoProcesses == (c1 :> p1) @@ (c2 :> p2)

\* c1 needs the global bucket and that of the domain, c2 that of the domain.
SharedDomain == [c \in Callers |-> IF c = c1 THEN <<g, d>> ELSE <<d>>]

\* One bucket for all.
OneEach == [k \in Keys |-> 1]

ReportsDomain == [c \in Callers |-> d]
=============================================================================
