----------------------------- MODULE RateLimiter -----------------------------
(***************************************************************************)
(* The rate limiter of executor/rate_limiter/limiter.py: token buckets in  *)
(* Redis, updated by a Lua script that is given the caller's clock, and a  *)
(* bucket of each process as the fallback.  acquire() takes a token from   *)
(* one bucket after the other and starts again when one refuses;           *)
(* report_429() reads the multiplier and writes it in two commands.        *)
(*                                                                         *)
(* One tick is a second.  Tokens and multipliers are counted in fortieths: *)
(* 1, 1/2, 1/4, 1/8 and the lower bound 1/10 are 40, 20, 10, 5 and 4.      *)
(***************************************************************************)
EXTENDS Integers, FiniteSets, Sequences, SequencesExt

CONSTANTS
  Callers,    \* coroutines that call acquire() and report_429()
  Processes,  \* each with one RateLimiter
  ProcessOf,  \* ProcessOf[c]: the process c runs in
  Keys,       \* rl:global, rl:domain:..., rl:scan:...
  Rate,       \* Rate[k]: tokens per second, and the capacity, of bucket k
  BucketsOf,  \* BucketsOf[c]: the buckets c needs, in the order of acquire()
  DomainOf,   \* DomainOf[c]: the bucket c reports a 429 for
  Reporters,  \* callers whose requests may be answered 429
  Timeout,    \* the timeout of acquire(): 30
  Faults,     \* a subset of LimiterFaults
  MaxTime,    \* bound: the last tick
  MaxCalls    \* bound: calls of acquire() per caller

LimiterFaults ==
  {"refuse",  \* a Redis command fails and has no effect
   "reply"}   \* EVALSHA or HSET takes effect and its reply is lost

ASSUME LimiterAssumption ==
  /\ ProcessOf \in [Callers -> Processes]
  /\ Rate \in [Keys -> Nat \ {0}]
  /\ BucketsOf \in [Callers -> Seq(Keys) \ {<<>>}]
  /\ DomainOf \in [Callers -> Keys]
  /\ Reporters \subseteq Callers
  /\ Timeout \in Nat /\ MaxTime \in Nat /\ MaxCalls \in Nat
  /\ Faults \subseteq LimiterFaults

\* The processes and their coroutines are finitely many.
ASSUME FiniteAssumption == IsFiniteSet(Callers) /\ IsFiniteSet(Processes)

Unit == 40
Capacity(k) == Unit * Rate[k]
Floor == 4

Redis == "redis"
Stores == {Redis} \cup Processes

ASSUME StoresAssumption == Redis \notin Processes

None == -1   \* the field is not in the hash, or the key has no expiry

VARIABLES
  now,      \* the clock all processes share
  bucket,   \* bucket[s][k]: the hash of key k in Redis or in a process
  backend,  \* _scripting_supported of a process
  call,     \* call[c]: what c is doing
  calls,    \* calls[c]: how often c has called acquire()
  granted,  \* granted[s][k]: tokens taken from a bucket
  served,   \* served[k]: calls of acquire() that needed k and returned True
  late      \* late[k]: seconds scripts for k have been under way, in total

limiterVars == <<now, bucket, backend, call, calls, granted, served, late>>

Bucket ==
  [tokens : Nat \cup {None}, last : Nat, mult : Floor .. Unit,
   expires : Nat \cup {None}]

\* A key that does not exist reads as one without fields.
NoBucket == [tokens |-> None, last |-> 0, mult |-> Unit, expires |-> None]

Steps == {"idle", "load", "top", "next", "eval", "local", "sleep", "granted", "halve"}

\* i: the bucket it is at; start, stamp: start_time and the script's time;
\* seen: the multiplier it has read.
Call ==
  [pc : Steps, i : Nat \ {0}, start : Nat, stamp : Nat, seen : Floor .. Unit]

Resting == [pc |-> "idle", i |-> 1, start |-> 0, stamp |-> 0, seen |-> Unit]

TypeOK ==
  /\ now \in 0 .. MaxTime
  /\ bucket \in [Stores -> [Keys -> Bucket]]
  /\ backend \in [Processes -> {"unknown", "redis", "local"}]
  /\ call \in [Callers -> Call]
  /\ \A c \in Callers : call[c].i \in DOMAIN BucketsOf[c]
  /\ calls \in [Callers -> 0 .. MaxCalls]
  /\ granted \in [Stores -> [Keys -> Nat]]
  /\ served \in [Keys -> Nat]
  /\ late \in [Keys -> Nat]

Init ==
  /\ now = 0
  /\ bucket = [s \in Stores |-> [k \in Keys |-> NoBucket]]
  /\ backend = [p \in Processes |-> "unknown"]
  /\ call = [c \in Callers |-> Resting]
  /\ calls = [c \in Callers |-> 0]
  /\ granted = [s \in Stores |-> [k \in Keys |-> 0]]
  /\ served = [k \in Keys |-> 0]
  /\ late = [k \in Keys |-> 0]

Fault(f) == f \in Faults
Backend(c) == backend[ProcessOf[c]]
Key(c) == BucketsOf[c][call[c].i]
AtStep(c, pc) == call[c].pc = pc
SwitchToLocal(c) == backend' = [backend EXCEPT ![ProcessOf[c]] = "local"]

-----------------------------------------------------------------------------
(* The bucket *)

Smaller(m, n) == IF m < n THEN m ELSE n
Larger(m, n) == IF m > n THEN m ELSE n

Halved(m) == Larger(Floor, m \div 2)

\* math.ceil(capacity / effective_rate) * 2, where capacity = refill_rate.
Ttl(m) == 2 * ((Unit + m - 1) \div m)

\* Mutants: last_refill is not kept, every call refills from the first one on;
\* the script does not carry the multiplier over.
RefilledSinceFirst(b, k, t) ==
  [b EXCEPT
     !.tokens = IF b.tokens = None THEN Capacity(k)
                ELSE Smaller(Capacity(k),
                             @ + Larger(0, t - b.last) * Rate[k] * b.mult),
     !.last = IF b.tokens = None THEN t ELSE @]

RefilledForgetting(b, k, t) ==
  [b EXCEPT
     !.tokens = IF b.tokens = None THEN Capacity(k)
                ELSE Smaller(Capacity(k),
                             @ + Larger(0, t - b.last) * Rate[k] * b.mult),
     !.last = t,
     !.mult = Unit]

\* The bucket b of key k as it stands at time t.
Refilled(b, k, t) ==
  [b EXCEPT
     !.tokens = IF b.tokens = None THEN Capacity(k)
                ELSE Smaller(Capacity(k),
                             @ + Larger(0, t - b.last) * Rate[k] * b.mult),
     !.last = t]

Covers(b) == b.tokens >= Unit

\* What one request leaves of b; expiry is what a grant sets it to.
Taken(b, expiry) ==
  IF Covers(b) THEN [b EXCEPT !.tokens = @ - Unit, !.expires = expiry] ELSE b

\* One request takes from bucket k of store s at time t.
TakeFrom(s, k, t) ==
  LET b == Refilled(bucket[s][k], k, t)
      expiry == IF s = Redis THEN now + Ttl(b.mult) ELSE None
  IN /\ bucket' = [bucket EXCEPT ![s][k] = Taken(b, expiry)]
     /\ granted' = [granted EXCEPT ![s][k] = IF Covers(b) THEN @ + 1 ELSE @]
     /\ late' = [late EXCEPT ![k] = @ + (now - t)]

Grants(s, k, t) == Covers(Refilled(bucket[s][k], k, t))

-----------------------------------------------------------------------------
(* acquire() *)

Goto(c, pc) == call' = [call EXCEPT ![c].pc = pc]

Return(c) == call' = [call EXCEPT ![c] = Resting]

Grant(c) ==
  /\ call' = [call EXCEPT ![c] = [Resting EXCEPT !.pc = "granted"]]
  /\ served' = [k \in Keys |-> IF k \in ToSet(BucketsOf[c]) THEN served[k] + 1
                                                         ELSE served[k]]

\* The script is loaded by every call that finds the backend unknown.
Begin(c) ==
  /\ AtStep(c, "idle")
  /\ calls[c] < MaxCalls /\ now + Timeout <= MaxTime
  /\ calls' = [calls EXCEPT ![c] = @ + 1]
  /\ call' = [call EXCEPT ![c].pc = IF Backend(c) = "unknown" THEN "load" ELSE "top",
                          ![c].start = now]
  /\ UNCHANGED <<now, bucket, backend, granted, served, late>>

\* The end of _ensure_backend, which sets the backend to what it has met, also
\* when another call has set it meanwhile.  Then the clock of the call starts.
Load(c) ==
  /\ AtStep(c, "load")
  /\ \/ backend' = [backend EXCEPT ![ProcessOf[c]] = "redis"]
     \/ Fault("refuse") /\ SwitchToLocal(c)
  /\ call' = [call EXCEPT ![c].pc = "top", ![c].start = now]
  /\ UNCHANGED <<now, bucket, calls, granted, served, late>>

\* The time of a script is taken here and travels with it.
Send(c, i) ==
  /\ call' = [call EXCEPT ![c].pc = IF Backend(c) = "redis" THEN "eval" ELSE "local",
                          ![c].i = i,
                          ![c].stamp = now]
  /\ UNCHANGED <<now, bucket, backend, calls, granted, served, late>>

\* Mutant: the loop does not look at the clock.
SendFirstAlways(c) == AtStep(c, "top") /\ Send(c, 1)

SendFirst(c) == AtStep(c, "top") /\ now - call[c].start < Timeout /\ Send(c, 1)

SendNext(c) == AtStep(c, "next") /\ Send(c, call[c].i + 1)

GiveUp(c) ==
  /\ AtStep(c, "top")
  /\ now - call[c].start >= Timeout
  /\ Return(c)
  /\ UNCHANGED <<now, bucket, backend, calls, granted, served, late>>

\* Mutant: a refused bucket does not end the round.
ProceedAnyway(c, ok) ==
  IF call[c].i = Len(BucketsOf[c])
    THEN Grant(c)
    ELSE Goto(c, "next") /\ served' = served

\* True once every bucket has granted; a refusal ends the round, and what the
\* buckets before it have granted is not given back.
Proceed(c, ok) ==
  IF ~ok
    THEN /\ call' = [call EXCEPT ![c] = [Resting EXCEPT !.pc = "sleep",
                                                       !.start = call[c].start]]
         /\ served' = served
  ELSE IF call[c].i = Len(BucketsOf[c])
    THEN Grant(c)
    ELSE Goto(c, "next") /\ served' = served

\* The script runs in Redis, on its own.
Evaluate(c) ==
  /\ AtStep(c, "eval")
  /\ \/ /\ TakeFrom(Redis, Key(c), call[c].stamp)
        /\ Proceed(c, Grants(Redis, Key(c), call[c].stamp))
        /\ backend' = backend
     \/ /\ Fault("reply")
        /\ TakeFrom(Redis, Key(c), call[c].stamp)
        /\ Goto(c, "local") /\ SwitchToLocal(c) /\ served' = served
     \/ /\ Fault("refuse")
        /\ Goto(c, "local") /\ SwitchToLocal(c)
        /\ UNCHANGED <<bucket, granted, served, late>>
  /\ UNCHANGED <<now, calls>>

\* The process's own bucket reads the clock under its lock.
TakeLocal(c) ==
  /\ AtStep(c, "local")
  /\ TakeFrom(ProcessOf[c], Key(c), now)
  /\ Proceed(c, Grants(ProcessOf[c], Key(c), now))
  /\ UNCHANGED <<now, backend, calls>>

Wake(c) ==
  /\ AtStep(c, "sleep")
  /\ Goto(c, "top")
  /\ UNCHANGED <<now, bucket, backend, calls, granted, served, late>>

-----------------------------------------------------------------------------
(* report_429() *)

Answered(c) ==
  /\ AtStep(c, "granted")
  /\ Return(c)
  /\ UNCHANGED <<now, bucket, backend, calls, granted, served, late>>

ReadMultiplier(c) ==
  /\ AtStep(c, "granted") /\ c \in Reporters
  /\ Backend(c) = "redis"
  /\ call' = [call EXCEPT ![c].pc = "halve",
                          ![c].seen = bucket[Redis][DomainOf[c]].mult]
  /\ UNCHANGED <<now, bucket, backend, calls, granted, served, late>>

\* HSET leaves the other fields and the expiry of the key alone.
Written(c) == [bucket EXCEPT ![Redis][DomainOf[c]].mult = Halved(call[c].seen)]

WriteMultiplier(c) ==
  /\ AtStep(c, "halve")
  /\ bucket' = Written(c)
  /\ Return(c)
  /\ UNCHANGED <<now, backend, calls, granted, served, late>>

\* The bucket b of a process after a report.
HalvedBucket(b) ==
  IF b.tokens = None
    THEN [tokens |-> 0, last |-> now, mult |-> Halved(Unit), expires |-> None]
    ELSE [b EXCEPT !.mult = Halved(b.mult)]

\* Of the buckets at hand, the process's own one for the domain of c is halved.
HalveLocal(c, buckets) ==
  bucket' = [buckets EXCEPT ![ProcessOf[c]][DomainOf[c]] = HalvedBucket(@)]

\* HSET took effect and its reply is lost: the 429 counts in both stores.
WriteUnheard(c) ==
  /\ AtStep(c, "halve") /\ Fault("reply")
  /\ HalveLocal(c, Written(c))
  /\ SwitchToLocal(c)
  /\ Return(c)
  /\ UNCHANGED <<now, calls, granted, served, late>>

\* The fallback, from the start or after a command that failed.
ReportLocal(c) ==
  /\ \/ AtStep(c, "granted") /\ c \in Reporters
     \/ AtStep(c, "halve")
  /\ \/ AtStep(c, "granted") /\ Backend(c) # "redis" /\ backend' = backend
     \/ Fault("refuse") /\ SwitchToLocal(c)
  /\ HalveLocal(c, bucket)
  /\ Return(c)
  /\ UNCHANGED <<now, calls, granted, served, late>>

-----------------------------------------------------------------------------
\* A second passes, and Redis drops the keys whose time is up.  The bound on
\* the clock leaves a call that is loading its script the time to time out.
Tick ==
  /\ now < MaxTime
  /\ \A c \in Callers : AtStep(c, "load") => now + Timeout < MaxTime
  /\ now' = now + 1
  /\ bucket' = [bucket EXCEPT ![Redis] =
                  [k \in Keys |-> IF @[k].expires # None /\ @[k].expires <= now + 1
                                    THEN NoBucket ELSE @[k]]]
  /\ UNCHANGED <<backend, call, calls, granted, served, late>>

CallStep(c) ==
  \/ Load(c) \/ SendFirst(c) \/ SendNext(c) \/ GiveUp(c) \/ Evaluate(c) \/ TakeLocal(c)
  \/ Wake(c) \/ Answered(c) \/ ReadMultiplier(c) \/ WriteMultiplier(c)
  \/ WriteUnheard(c) \/ ReportLocal(c)

Next == Tick \/ \E c \in Callers : Begin(c) \/ CallStep(c)

Spec == Init /\ [][Next]_limiterVars

\* Replies arrive, the event loop runs what is ready and time passes.
FairSpec ==
  /\ Spec
  /\ WF_limiterVars(Tick)
  /\ \A c \in Callers : WF_limiterVars(CallStep(c))

-----------------------------------------------------------------------------
(* Properties *)

\* No bucket grants more than its capacity and its rate allow: in a process
\* exactly, in Redis up to the seconds its scripts were under way, since a late
\* script sets last_refill back.  Expiry, a lower multiplier and a change of
\* backend grant nothing.
GrantsBounded ==
  \A s \in Stores, k \in Keys :
    granted[s][k] <= Rate[k] * (1 + now + (IF s = Redis THEN late[k] ELSE 0))

\* The tokens of key k that were handed out, numbered in each store.
Tokens(k) == UNION {{s} \X (1 .. granted[s][k]) : s \in Stores}

\* acquire() returns True only with a token of every bucket it needs, one of its
\* own: as many tokens of a key are handed out as calls that needed it returned.
ServedFromEveryBucket == \A k \in Keys : served[k] <= Cardinality(Tokens(k))

\* A domain that has answered 429 does not get its full rate back before its key
\* expires: however reports read and write the multiplier between each other's
\* commands and scripts, none puts back a multiplier that no 429 has halved.
ReducedUntilExpiry ==
  [][\A s \in Stores, k \in Keys :
       bucket[s][k].mult <= Halved(Unit) =>
         bucket'[s][k].mult <= Halved(Unit) \/ bucket'[s][k] = NoBucket]_limiterVars

\* Every acquire() and every report_429() returns.
CallsReturn == \A c \in Callers : call[c].pc # "idle" ~> call[c].pc = "idle"
=============================================================================
