---------------------------- MODULE ScanExecution ----------------------------
(***************************************************************************)
(* The execution service: the API routes that create scans and submit      *)
(* tasks, PostgreSQL, Redis and the worker processes.                      *)
(*                                                                         *)
(* submit_tasks writes two stores one after the other: it commits the task *)
(* rows, then pushes the payloads of priority > 0 with one LPUSH, then the *)
(* others with one RPUSH.                                                  *)
(***************************************************************************)
EXTENDS WorkerEngine

CONSTANTS
  Requests,  \* the POST /scans/{scan_id}/tasks requests
  ScanOf,    \* ScanOf[r]: the scan_id in the path of r
  High,      \* High[r]: its tasks of priority > 0, in the order submitted
  Standard   \* Standard[r]: its other tasks, in the order submitted

ASSUME RequestsAssumption ==
  /\ ScanOf \in [Requests -> Scans]
  /\ High \in [Requests -> Seq(Tasks)]
  /\ Standard \in [Requests -> Seq(Tasks)]

VARIABLE api  \* api[r]: the step submit_tasks is at for r

vars == <<queueVars, storeVars, engineVars, api>>

TasksOf(r) == ToSet(High[r]) \cup ToSet(Standard[r])

\* Task ids are fresh: no task is submitted by two requests or twice in one.
ASSUME FreshTasksAssumption ==
  /\ \A r \in Requests :
       /\ IsInjective(High[r]) /\ IsInjective(Standard[r])
       /\ ToSet(High[r]) \cap ToSet(Standard[r]) = {}
  /\ \A r, q \in Requests : r # q => TasksOf(r) \cap TasksOf(q) = {}

ApiSteps == {"idle", "high", "standard", "done"}

TypeOK ==
  /\ QueueTypeOK
  /\ StoreTypeOK
  /\ EngineTypeOK
  /\ api \in [Requests -> ApiSteps]

Init ==
  /\ QueueInit
  /\ StoreInit
  /\ EngineInit
  /\ api = [r \in Requests |-> "idle"]

-----------------------------------------------------------------------------
(* The API *)

PostScan(s) ==
  /\ s \notin scans
  /\ CreateScan(s)
  /\ UNCHANGED <<queueVars, engineVars, api>>

Goto(r, step) == api' = [api EXCEPT ![r] = step]

\* 404 for a scan that does not exist, 500 when the commit fails.
SubmitTasks(r) ==
  /\ api[r] = "idle"
  /\ IF ScanOf[r] \in scans
       THEN \/ InsertTasks(TasksOf(r)) /\ Goto(r, "high")
            \/ Fault("db") /\ UNCHANGED storeVars /\ Goto(r, "done")
       ELSE UNCHANGED storeVars /\ Goto(r, "done")
  /\ UNCHANGED <<queueVars, engineVars>>

Payloads(ts) == [i \in DOMAIN ts |-> FirstAttempt(ts[i])]

\* publish_batch returns 0 for a push that failed; nobody acts on the count.
PublishHigh(r) ==
  /\ api[r] = "high"
  /\ \/ LPush(Payloads(High[r]))
     \/ Fault("refuse") /\ queue' = queue
  /\ Goto(r, "standard")
  /\ UNCHANGED <<waiting, due, dlq, storeVars, engineVars>>

PublishStandard(r) ==
  /\ api[r] = "standard"
  /\ \/ RPush(Payloads(Standard[r]))
     \/ Fault("refuse") /\ queue' = queue
  /\ Goto(r, "done")
  /\ UNCHANGED <<waiting, due, dlq, storeVars, engineVars>>

\* The API process dies between the commit and the last push.
ApiCrash(r) ==
  /\ Fault("crash")
  /\ api[r] \in {"high", "standard"}
  /\ Goto(r, "done")
  /\ UNCHANGED <<queueVars, storeVars, engineVars>>

ApiStep(r) == SubmitTasks(r) \/ PublishHigh(r) \/ PublishStandard(r)

-----------------------------------------------------------------------------
Next ==
  \/ \E s \in Scans : PostScan(s)
  \/ \E r \in Requests : ApiStep(r) \/ ApiCrash(r)
  \/ \E p \in waiting : BecomeDue(p) /\ UNCHANGED <<storeVars, engineVars, api>>
  \/ EngineNext /\ UNCHANGED api

Spec == Init /\ [][Next]_vars

DelayEnds(t) ==
  /\ \E p \in waiting : p.task = t /\ BecomeDue(p)
  /\ UNCHANGED <<storeVars, engineVars, api>>

\* An event loop runs every coroutine that is ready, Redis and PostgreSQL
\* answer, the HTTP client times out and the clock advances; somebody starts
\* the workers.  Nobody promises a submission, a signal or a crash.
Fairness ==
  /\ \A r \in Requests : WF_vars(api[r] # "idle" /\ ApiStep(r))
  /\ \A t \in Tasks : WF_vars(DelayEnds(t))
  /\ \A e \in Engines :
       /\ WF_vars(Start(e) /\ UNCHANGED api)
       /\ WF_vars(Exit(e) /\ UNCHANGED api)
       /\ WF_vars(LoopStep(e) /\ UNCHANGED api)
       /\ \A j \in Jobs : WF_vars(JobStep(e, j) /\ UNCHANGED api)

FairSpec == Spec /\ Fairness

-----------------------------------------------------------------------------
(* Where a task is *)

InSeq(s, t) == {i \in DOMAIN s : s[i].task = t}
InSet(S, t) == {p \in S : p.task = t}
RunningJobs(t) ==
  {w \in Engines \X Jobs :
     job[w[1]][w[2]] # Idle /\ job[w[1]][w[2]].payload.task = t}

LiveCopies(t) ==
  Cardinality(InSeq(queue, t)) + Cardinality(InSet(waiting \cup due, t))
    + Cardinality(RunningJobs(t))
DeadLetters(t) == Cardinality(InSeq(dlq, t))

\* The rows of t are committed, its push is still to come.
Unpublished(t) ==
  \E r \in Requests :
    \/ api[r] = "high" /\ t \in TasksOf(r)
    \/ api[r] = "standard" /\ t \in ToSet(Standard[r])

Settled(t) == db[t].status \in {"SUCCESS", "FAILED"} /\ LiveCopies(t) = 0

-----------------------------------------------------------------------------
(* Invariants *)

\* The permits of a worker are free, held by its loop, or held by a coroutine:
\* none is lost on an early return and none is released twice.
SemaphoreAccounting ==
  \A e \in Engines :
    permits[e] + Cardinality(Busy(e)) + (IF LoopHoldsPermit(e) THEN 1 ELSE 0)
      = Concurrency

\* With one worker a task is in one place at most: the list, the sorted set, a
\* coroutine or the dead letter list.  The move of due members must not copy.
OneCopyPerTask == \A t \in Tasks : LiveCopies(t) + DeadLetters(t) <= 1

\* A published task is somewhere in Redis or in a coroutine until an execution
\* of it is answered: no hand-over between the structures drops it.
NothingLost ==
  \A t \in Tasks :
    db[t].status # "ABSENT" /\ ~Unpublished(t) /\ t \notin answered
      => LiveCopies(t) + DeadLetters(t) > 0

\* max_retries counts the executions after the first: a task is never sent more
\* than max_retries + 1 times.
RequestsBounded ==
  \A t \in Tasks :
    hits[t] <= 1 + (IF RetryCount[t] > 0 THEN RetryCount[t] ELSE 0)

\* Only a payload that has used its retries up is in the dead letter list.
DeadLettersExhausted ==
  \A i \in DOMAIN dlq : dlq[i].attempt >= RetryCount[dlq[i].task]

\* Every attempt a queued or delayed payload counts was handed to an open HTTP
\* client: duplicates, lost replies and crashes never burn a retry unsent.
AttemptsWereSent ==
  \A p \in ToSet(queue) \cup waiting \cup due : p.attempt <= hits[p.task]

\* A verdict in the database comes from an execution: SUCCESS with a body for a
\* task that was answered, FAILED only for one an open HTTP client was given.
VerdictsAreReal ==
  \A t \in Tasks :
    /\ db[t].status = "SUCCESS" => t \in answered /\ db[t].response = "body"
    /\ db[t].status = "FAILED" => hits[t] > 0

(* Action properties *)

\* The first response recorded for a task stands: however often the task is
\* run afterwards, its status, its attempts and its response never change.
FirstVerdictStands ==
  [][\A t \in Tasks : db[t].response # "none" => db'[t] = db[t]]_vars

\* The counts get_scan_progress reports for the tasks of a request never fall,
\* except pending, which never rises once the request has rows.
ProgressNeverRegresses ==
  [][\A r \in Requests :
       LET before == Progress(TasksOf(r))
           after  == Progress(TasksOf(r))'
       IN /\ after.completed >= before.completed
          /\ after.failed >= before.failed
          /\ before.total > 0 => after.pending <= before.pending]_vars

\* An execution that was answered leaves its task SUCCESS once its transaction
\* is through.
SuccessIsRecorded ==
  [][\A e \in Engines, j \in Jobs :
       job[e][j] # Idle /\ At(e, j, "save") /\ job[e][j].ok
         /\ job'[e][j] # job[e][j]
       => db'[job[e][j].payload.task].status = "SUCCESS"]_vars

(* Liveness *)

\* Every task a request has committed gets a verdict and leaves the queues.
EveryTaskSettles ==
  \A t \in Tasks : db[t].status = "QUEUED" ~> Settled(t)

\* A worker that was asked to stop does stop: its loop gets the permit or the
\* reply it waits for.
StopCompletes ==
  \A e \in Engines : stopper[e] # "none" ~> loop[e] = "off"

-----------------------------------------------------------------------------
(* Refinement: one worker, no faults, no more due members than one reply holds *)

LivePayloads(t) ==
  InSet(ToSet(queue) \cup waiting \cup due
          \cup {job[w[1]][w[2]].payload : w \in RunningJobs(t)}, t)

PhaseOf(t) ==
  IF db[t].status = "ABSENT" THEN "absent"
  ELSE IF DeadLetters(t) > 0 THEN "dead"
  ELSE IF RunningJobs(t) # {} THEN "running"
  ELSE IF Unpublished(t) \/ LivePayloads(t) # {} THEN "pending"
  ELSE "answered"

TriesOf(t) ==
  IF LivePayloads(t) = {} THEN 0
  ELSE (CHOOSE p \in LivePayloads(t) : TRUE).attempt

Lifecycle == INSTANCE TaskLifecycle
  WITH phase <- [t \in Tasks |-> PhaseOf(t)],
       tries <- [t \in Tasks |-> TriesOf(t)]

LifecycleSpec == Lifecycle!Spec
=============================================================================
