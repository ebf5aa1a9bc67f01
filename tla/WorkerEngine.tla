---------------------------- MODULE WorkerEngine ----------------------------
(***************************************************************************)
(* The worker processes (worker_main, WorkerEngine, QueueConsumer,         *)
(* HttpExecutor).  A process runs the fetch loop of start(), one coroutine *)
(* per payload (_process_payload) and, after a signal, stop().  Coroutines *)
(* interleave at every await, so a step below ends where the code awaits.  *)
(*                                                                         *)
(* loop[e]: "off"      the process is not running                          *)
(*          "top"      at the `while self._running` test                   *)
(*          "blocked"  inside semaphore.acquire(), no permit free          *)
(*          "poll"     about to send ZRANGEBYSCORE                         *)
(*          "move"     due members read, about to send MULTI/EXEC          *)
(*          "pop"      in BLPOP                                            *)
(***************************************************************************)
EXTENDS RedisQueue, ScanStore

CONSTANTS
  Engines,      \* worker processes
  Jobs,         \* identities for the coroutines of one process
  Concurrency,  \* WORKER_CONCURRENCY, the semaphore's permits
  Faults        \* the faults that may happen, a subset of FaultKinds

FaultKinds ==
  {"refuse",    \* a Redis command fails and has no effect
   "reply",     \* BLPOP takes effect, its reply is lost or cannot be parsed
   "db",        \* a database transaction fails
   "rollback",  \* and the rollback in the except block raises as well
   "signal",    \* SIGINT or SIGTERM to a worker
   "crash"}     \* a worker or the API process dies between two steps

ASSUME ConcurrencyAssumption == Concurrency \in Nat \ {0}
ASSUME EnginesAssumption == IsFiniteSet(Engines)
ASSUME JobsAssumption == IsFiniteSet(Jobs) /\ Cardinality(Jobs) >= Concurrency
ASSUME FaultsAssumption == Faults \subseteq FaultKinds

Fault(f) == f \in Faults

VARIABLES
  loop,      \* loop[e], see above
  running,   \* self._running
  permits,   \* free permits of self.semaphore
  batch,     \* due_tasks as read by _process_delayed_tasks
  ripe,      \* members whose score is at most the `now` taken before that read
  job,       \* job[e][j]: the coroutine's payload and the step it is at
  stopper,   \* progress of stop()
  httpOpen,  \* the httpx client is open
  hits,      \* hits[t]: how often an open HTTP client was called for t
  answered   \* tasks for which some execution got an answer

\* What the outside world has seen; no code reads it.
worldVars == <<hits, answered>>

engineVars ==
  <<loop, running, permits, batch, ripe, job, stopper, httpOpen, worldVars>>

Idle == [pc |-> "idle"]
JobSteps == {"new", "http", "save", "retry", "dlq"}
JobState == {Idle} \cup [pc : JobSteps, payload : Payload, ok : BOOLEAN]

EngineTypeOK ==
  /\ loop \in [Engines -> {"off", "top", "blocked", "poll", "move", "pop"}]
  /\ running \in [Engines -> BOOLEAN]
  /\ permits \in [Engines -> 0 .. Concurrency]
  /\ batch \in [Engines -> Seq(Payload)]
  /\ ripe \in [Engines -> SUBSET Payload]
  /\ job \in [Engines -> [Jobs -> JobState]]
  /\ stopper \in [Engines -> {"none", "heartbeat", "close", "gather", "failed"}]
  /\ httpOpen \in [Engines -> BOOLEAN]
  /\ hits \in [Tasks -> Nat]
  /\ answered \subseteq Tasks

NoJobs == [j \in Jobs |-> Idle]

EngineInit ==
  /\ loop = [e \in Engines |-> "off"]
  /\ running = [e \in Engines |-> FALSE]
  /\ permits = [e \in Engines |-> Concurrency]
  /\ batch = [e \in Engines |-> <<>>]
  /\ ripe = [e \in Engines |-> {}]
  /\ job = [e \in Engines |-> NoJobs]
  /\ stopper = [e \in Engines |-> "none"]
  /\ httpOpen = [e \in Engines |-> FALSE]
  /\ hits = [t \in Tasks |-> 0]
  /\ answered = {}

Busy(e) == {j \in Jobs : job[e][j] # Idle}

\* The loop has taken a permit and not yet passed it on to a coroutine.
LoopHoldsPermit(e) == loop[e] \in {"poll", "move", "pop"}

-----------------------------------------------------------------------------
(* The process *)

Start(e) ==
  /\ loop[e] = "off"
  /\ loop' = [loop EXCEPT ![e] = "top"]
  /\ running' = [running EXCEPT ![e] = TRUE]
  /\ httpOpen' = [httpOpen EXCEPT ![e] = TRUE]
  /\ UNCHANGED <<queueVars, storeVars, permits, batch, ripe, job, stopper,
                 worldVars>>

\* The process is gone and everything it held in memory with it.
Vanish(e) ==
  /\ loop' = [loop EXCEPT ![e] = "off"]
  /\ running' = [running EXCEPT ![e] = FALSE]
  /\ permits' = [permits EXCEPT ![e] = Concurrency]
  /\ batch' = [batch EXCEPT ![e] = <<>>]
  /\ ripe' = [ripe EXCEPT ![e] = {}]
  /\ job' = [job EXCEPT ![e] = NoJobs]
  /\ stopper' = [stopper EXCEPT ![e] = "none"]
  /\ httpOpen' = [httpOpen EXCEPT ![e] = FALSE]
  /\ UNCHANGED <<queueVars, storeVars, worldVars>>

Crash(e) ==
  /\ Fault("crash")
  /\ loop[e] # "off"
  /\ Vanish(e)

\* start() returns once it sees _running false, main() returns after it, and
\* asyncio.run cancels what is left: the gather of stop() and every coroutine.
\* `except Exception` in _process_payload does not catch the cancellation.
Exit(e) ==
  /\ ~running[e]
  /\ \/ loop[e] = "top"
     \/ loop[e] = "blocked" /\ permits[e] > 0
  /\ Vanish(e)

-----------------------------------------------------------------------------
(* The fetch loop *)

Acquire(e) ==
  /\ running[e]
  /\ loop[e] \in {"top", "blocked"}
  /\ permits[e] > 0
  /\ loop' = [loop EXCEPT ![e] = "poll"]
  /\ permits' = [permits EXCEPT ![e] = @ - 1]
  /\ UNCHANGED <<queueVars, storeVars, running, batch, ripe, job, stopper,
                 httpOpen, worldVars>>

Block(e) ==
  /\ running[e]
  /\ loop[e] = "top"
  /\ permits[e] = 0
  /\ loop' = [loop EXCEPT ![e] = "blocked"]
  /\ UNCHANGED <<queueVars, storeVars, running, permits, batch, ripe, job,
                 stopper, httpOpen, worldVars>>

ReadDue(e) ==
  /\ loop[e] = "poll"
  /\ \/ /\ due # {}
        /\ \E ps \in DueReplies : batch' = [batch EXCEPT ![e] = ps]
        /\ ripe' = [ripe EXCEPT ![e] = due]
        /\ loop' = [loop EXCEPT ![e] = "move"]
     \/ /\ due = {} \/ Fault("refuse")
        /\ loop' = [loop EXCEPT ![e] = "pop"]
        /\ UNCHANGED <<batch, ripe>>
  /\ UNCHANGED <<queueVars, storeVars, running, permits, job, stopper, httpOpen,
                 worldVars>>

MoveDue(e) ==
  /\ loop[e] = "move"
  /\ \/ MoveDueTasks(batch[e], ripe[e])
     \/ Fault("refuse") /\ UNCHANGED queueVars
  /\ loop' = [loop EXCEPT ![e] = "pop"]
  /\ batch' = [batch EXCEPT ![e] = <<>>]
  /\ ripe' = [ripe EXCEPT ![e] = {}]
  /\ UNCHANGED <<storeVars, running, permits, job, stopper, httpOpen,
                 worldVars>>

\* BLPOP returned a payload: a coroutine takes it and the permit over.
Pop(e) ==
  /\ loop[e] = "pop"
  /\ queue # <<>>
  /\ queue' = Tail(queue)
  /\ \E j \in Jobs \ Busy(e) :
       job' = [job EXCEPT ![e][j] =
                 [pc |-> "new", payload |-> Head(queue), ok |-> FALSE]]
  /\ loop' = [loop EXCEPT ![e] = "top"]
  /\ UNCHANGED <<waiting, due, dlq, storeVars, running, permits, batch, ripe,
                 stopper, httpOpen, worldVars>>

\* Mutant: the early return keeps the permit.
PopNothingLeak(e) ==
  /\ loop[e] = "pop"
  /\ queue = <<>>
  /\ loop' = [loop EXCEPT ![e] = "top"]
  /\ UNCHANGED <<queueVars, storeVars, permits, running, batch, ripe, job,
                 stopper, httpOpen, worldVars>>

\* consume() returned None: the timeout, or an exception it has swallowed.
PopNothing(e) ==
  /\ loop[e] = "pop"
  /\ \/ (queue = <<>> \/ Fault("refuse")) /\ queue' = queue
     \/ Fault("reply") /\ queue # <<>> /\ queue' = Tail(queue)
  /\ loop' = [loop EXCEPT ![e] = "top"]
  /\ permits' = [permits EXCEPT ![e] = @ + 1]
  /\ UNCHANGED <<waiting, due, dlq, storeVars, running, batch, ripe, job,
                 stopper, httpOpen, worldVars>>

-----------------------------------------------------------------------------
(* _process_payload *)

At(e, j, pc) == job[e][j].pc = pc

Continue(e, j, pc, ok) ==
  /\ job' = [job EXCEPT ![e][j] = [pc |-> pc, payload |-> @.payload, ok |-> ok]]
  /\ permits' = permits

\* Mutant: the permit is released twice.
FinishTwice(e, j) ==
  /\ job' = [job EXCEPT ![e][j] = Idle]
  /\ permits' = [permits EXCEPT ![e] = @ + 2]

\* Mutant: the permit is not released.
FinishLeak(e, j) ==
  /\ job' = [job EXCEPT ![e][j] = Idle]
  /\ permits' = permits

\* The finally block.
Finish(e, j) ==
  /\ job' = [job EXCEPT ![e][j] = Idle]
  /\ permits' = [permits EXCEPT ![e] = @ + 1]

\* A closed client raises before anything is sent.
SendRequest(e, j) ==
  /\ At(e, j, "new")
  /\ IF httpOpen[e]
       THEN /\ Continue(e, j, "http", FALSE)
            /\ hits' = [hits EXCEPT ![job[e][j].payload.task] = @ + 1]
       ELSE /\ Continue(e, j, "save", FALSE)
            /\ hits' = hits
  /\ UNCHANGED <<queueVars, storeVars, loop, running, batch, ripe, stopper,
                 httpOpen, answered>>

\* Any status code is a success; a timeout or a connection error is a failure.
Answer(e, j) ==
  /\ At(e, j, "http")
  /\ \E ok \in BOOLEAN :
       /\ Continue(e, j, "save", ok)
       /\ answered' = IF ok THEN answered \cup {job[e][j].payload.task}
                            ELSE answered
  /\ UNCHANGED <<queueVars, storeVars, loop, running, batch, ripe, stopper,
                 httpOpen, hits>>

AfterSave(e, j) ==
  IF job[e][j].ok THEN Finish(e, j) ELSE Continue(e, j, "retry", FALSE)

\* An exception of the transaction is swallowed, unless the rollback raises.
Save(e, j) ==
  /\ At(e, j, "save")
  /\ \/ /\ \/ SaveResponse(job[e][j].payload.task, job[e][j].ok)
           \/ Fault("db") /\ UNCHANGED storeVars
        /\ AfterSave(e, j)
     \/ /\ Fault("rollback")
        /\ UNCHANGED storeVars
        /\ Continue(e, j, "dlq", job[e][j].ok)
  /\ UNCHANGED <<queueVars, loop, running, batch, ripe, stopper, httpOpen,
                 worldVars>>

\* Mutants of the retry: one too many, not counted, counted twice.
RetryIf(e, j, allowed, step) ==
  LET p == job[e][j].payload
      q == [p EXCEPT !.attempt = @ + step]
  IN /\ At(e, j, "retry")
     /\ allowed
     /\ ZAdd(q)
     /\ ripe' = [f \in Engines |-> ripe[f] \ {q}]
     /\ Finish(e, j)
     /\ UNCHANGED <<queue, dlq, storeVars, loop, running, batch, stopper,
                    httpOpen, worldVars>>

RetryOnceMore(e, j) ==
  LET p == job[e][j].payload
  IN RetryIf(e, j, p.attempt <= RetryCount[p.task], 1)

RetryUncounted(e, j) ==
  LET p == job[e][j].payload
  IN RetryIf(e, j, p.attempt < RetryCount[p.task], 0)

RetryCountedTwice(e, j) ==
  LET p == job[e][j].payload
  IN RetryIf(e, j, p.attempt < RetryCount[p.task], 2)

\* _handle_retry below the limit.  A failed ZADD returns False to a caller that
\* ignores it.  The new score is in the future of every consumer's `now`.
ScheduleRetry(e, j) ==
  LET p == job[e][j].payload
      q == [p EXCEPT !.attempt = @ + 1]
  IN /\ At(e, j, "retry")
     /\ p.attempt < RetryCount[p.task]
     /\ \/ ZAdd(q) /\ ripe' = [f \in Engines |-> ripe[f] \ {q}]
        \/ Fault("refuse") /\ UNCHANGED <<waiting, due, ripe>>
     /\ Finish(e, j)
     /\ UNCHANGED <<queue, dlq, storeVars, loop, running, batch, stopper,
                    httpOpen, worldVars>>

\* Mutant: a payload is dead one attempt too early.
DeadLetterEarly(e, j) ==
  LET p == job[e][j].payload
  IN /\ At(e, j, "retry") /\ p.attempt + 1 >= RetryCount[p.task]
     /\ SendToDlq(p)
     /\ Finish(e, j)
     /\ UNCHANGED <<queue, waiting, due, storeVars, loop, running, batch, ripe,
                    stopper, httpOpen, worldVars>>

\* _handle_retry at the limit, or the outer except block.
DeadLetter(e, j) ==
  LET p == job[e][j].payload
  IN /\ \/ At(e, j, "dlq")
        \/ At(e, j, "retry") /\ p.attempt >= RetryCount[p.task]
     /\ \/ SendToDlq(p)
        \/ Fault("refuse") /\ dlq' = dlq
     /\ Finish(e, j)
     /\ UNCHANGED <<queue, waiting, due, storeVars, loop, running, batch, ripe,
                    stopper, httpOpen, worldVars>>

-----------------------------------------------------------------------------
(* stop(), started by the signal handler *)

Signal(e) ==
  /\ Fault("signal")
  /\ running[e]
  /\ running' = [running EXCEPT ![e] = FALSE]
  /\ stopper' = [stopper EXCEPT ![e] = "heartbeat"]
  /\ UNCHANGED <<queueVars, storeVars, loop, permits, batch, ripe, job, httpOpen,
                 worldVars>>

\* heartbeat.stop() deletes its key; an exception there ends stop().
StopHeartbeat(e) ==
  /\ stopper[e] = "heartbeat"
  /\ \/ stopper' = [stopper EXCEPT ![e] = "close"]
     \/ Fault("refuse") /\ stopper' = [stopper EXCEPT ![e] = "failed"]
  /\ UNCHANGED <<queueVars, storeVars, loop, running, permits, batch, ripe, job,
                 httpOpen, worldVars>>

\* http_executor.close() comes before the wait for the coroutines that use it.
CloseClient(e) ==
  /\ stopper[e] = "close"
  /\ stopper' = [stopper EXCEPT ![e] = "gather"]
  /\ httpOpen' = [httpOpen EXCEPT ![e] = FALSE]
  /\ UNCHANGED <<queueVars, storeVars, loop, running, permits, batch, ripe, job,
                 worldVars>>

-----------------------------------------------------------------------------
LoopStep(e) ==
  Acquire(e) \/ Block(e) \/ ReadDue(e) \/ MoveDue(e) \/ Pop(e) \/ PopNothing(e)

JobStep(e, j) ==
  \/ SendRequest(e, j) \/ Answer(e, j) \/ Save(e, j)
  \/ ScheduleRetry(e, j) \/ DeadLetter(e, j)

ProcessStep(e) ==
  \/ Start(e) \/ Exit(e) \/ Crash(e)
  \/ Signal(e) \/ StopHeartbeat(e) \/ CloseClient(e)

EngineNext ==
  \E e \in Engines :
    LoopStep(e) \/ ProcessStep(e) \/ (\E j \in Jobs : JobStep(e, j))
=============================================================================
