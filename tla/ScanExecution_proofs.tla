------------------------ MODULE ScanExecution_proofs ------------------------
(***************************************************************************)
(* Proofs about ScanExecution for every value of its constants: types and  *)
(* permits; and what the database and the queues say of a task, where the  *)
(* first verdict stands and every attempt that is counted was sent.        *)
(***************************************************************************)
EXTENDS ScanExecution, FiniteSetTheorems, SequenceTheorems, TLAPS

-----------------------------------------------------------------------------
(* Coroutines *)

\* The coroutines of a worker are finitely many.
LEMMA BusyFinite ==
  ASSUME NEW e \in Engines
  PROVE  IsFiniteSet(Busy(e)) /\ Cardinality(Busy(e)) \in Nat
BY JobsAssumption, FS_Subset, FS_CardinalityType DEF Busy

\* A coroutine that moves on stays a coroutine of its worker.
LEMMA ContinueJobs ==
  ASSUME EngineTypeOK, NEW e \in Engines, NEW j \in Jobs, job[e][j] # Idle,
         NEW pc \in JobSteps, NEW ok \in BOOLEAN, Continue(e, j, pc, ok)
  PROVE  /\ job' \in [Engines -> [Jobs -> JobState]]
         /\ \A f \in Engines : Busy(f)' = Busy(f)
         /\ job' = [job EXCEPT ![e][j] =
                      [pc |-> pc, payload |-> job[e][j].payload, ok |-> ok]]
<1> DEFINE s == [pc |-> pc, payload |-> job[e][j].payload, ok |-> ok]
<1>1. job[e][j] \in [pc : JobSteps, payload : Payload, ok : BOOLEAN]
  BY DEF EngineTypeOK, JobState
<1>2. job' = [job EXCEPT ![e][j] = s]
  BY DEF Continue, EngineTypeOK
<1>3. s \in JobState /\ s # Idle
  BY <1>1 DEF JobState, Idle, JobSteps
<1> HIDE DEF s
<1>4. job' \in [Engines -> [Jobs -> JobState]]
  BY <1>2, <1>3 DEF EngineTypeOK
<1>5. \A f \in Engines : Busy(f)' = Busy(f)
  BY <1>2, <1>3 DEF EngineTypeOK, Busy
<1> QED BY <1>2, <1>4, <1>5 DEF s


\* A coroutine that ends gives its permit back, which was taken.
LEMMA FinishJobs ==
  ASSUME EngineTypeOK, SemaphoreAccounting, NEW e \in Engines, NEW j \in Jobs,
         job[e][j] # Idle, Finish(e, j), loop' = loop
  PROVE  /\ job' \in [Engines -> [Jobs -> JobState]]
         /\ permits' \in [Engines -> 0 .. Concurrency]
         /\ SemaphoreAccounting'
<1>1. job' = [job EXCEPT ![e][j] = Idle] /\ permits' = [permits EXCEPT ![e] = @ + 1]
  BY DEF Finish
<1>2. job' \in [Engines -> [Jobs -> JobState]]
  BY <1>1 DEF EngineTypeOK, JobState
<1>3. Busy(e)' = Busy(e) \ {j} /\ \A f \in Engines \ {e} : Busy(f)' = Busy(f)
  BY <1>1 DEF EngineTypeOK, Busy
<1>4. j \in Busy(e)
  BY DEF Busy
<1>5. Cardinality(Busy(e)') = Cardinality(Busy(e)) - 1 /\ Cardinality(Busy(e)) \in Nat
  BY <1>3, <1>4, BusyFinite, FS_RemoveElement
<1>6. Cardinality(Busy(e)) - 1 \in Nat
  BY <1>5, <1>3, BusyFinite, FS_RemoveElement, FS_CardinalityType
<1>7. permits[e] + 1 \in 0 .. Concurrency
  <2>1. permits[e] + Cardinality(Busy(e)) + (IF LoopHoldsPermit(e) THEN 1 ELSE 0)
          = Concurrency
    BY DEF SemaphoreAccounting
  <2> QED BY <2>1, <1>5, <1>6, ConcurrencyAssumption DEF EngineTypeOK
<1>8. permits' \in [Engines -> 0 .. Concurrency]
  BY <1>1, <1>7 DEF EngineTypeOK
<1>9. SemaphoreAccounting'
  <2> SUFFICES ASSUME NEW f \in Engines
               PROVE  permits'[f] + Cardinality(Busy(f)')
                        + (IF LoopHoldsPermit(f)' THEN 1 ELSE 0) = Concurrency
    BY DEF SemaphoreAccounting
  <2>1. LoopHoldsPermit(f)' = LoopHoldsPermit(f)
    BY DEF LoopHoldsPermit
  <2>2. permits[f] + Cardinality(Busy(f)) + (IF LoopHoldsPermit(f) THEN 1 ELSE 0)
          = Concurrency
    BY DEF SemaphoreAccounting
  <2>3. CASE f = e
    BY <2>1, <2>2, <2>3, <1>1, <1>5, ConcurrencyAssumption DEF EngineTypeOK
  <2>4. CASE f # e
    BY <2>1, <2>2, <2>4, <1>1, <1>3 DEF EngineTypeOK
  <2> QED BY <2>3, <2>4
<1> QED BY <1>2, <1>8, <1>9

\* Nothing the accounting speaks of has changed.
LEMMA SameAccounting ==
  ASSUME SemaphoreAccounting, permits' = permits,
         \A f \in Engines : Busy(f)' = Busy(f) /\ LoopHoldsPermit(f)' = LoopHoldsPermit(f)
  PROVE  SemaphoreAccounting'
BY DEF SemaphoreAccounting

\* The accounting of one worker has changed, and it still adds up.
LEMMA OneAccounting ==
  ASSUME SemaphoreAccounting, NEW e \in Engines,
         permits'[e] + Cardinality(Busy(e)')
           + (IF LoopHoldsPermit(e)' THEN 1 ELSE 0) = Concurrency,
         \A f \in Engines \ {e} :
           /\ permits'[f] = permits[f]
           /\ Busy(f)' = Busy(f)
           /\ LoopHoldsPermit(f)' = LoopHoldsPermit(f)
  PROVE  SemaphoreAccounting'
BY DEF SemaphoreAccounting

-----------------------------------------------------------------------------
(* Type correctness and the accounting of permits are inductive together:  *)
(* that a permit given back stays within 0 .. Concurrency is what the      *)
(* accounting says.                                                        *)

IInv == TypeOK /\ SemaphoreAccounting

\* The initial state satisfies the invariant.
LEMMA InitIInv == Init => IInv
<1> SUFFICES ASSUME Init PROVE IInv
  OBVIOUS
<1>1. QueueTypeOK
  BY DEF Init, QueueInit, QueueTypeOK
<1>2. StoreTypeOK
  BY DEF Init, StoreInit, StoreTypeOK, Absent, Row
<1>3. EngineTypeOK
  BY ConcurrencyAssumption
  DEF Init, EngineInit, EngineTypeOK, NoJobs, JobState
<1>4. TypeOK
  BY <1>1, <1>2, <1>3 DEF Init, TypeOK, ApiSteps
<1>5. SemaphoreAccounting
  <2> SUFFICES ASSUME NEW e \in Engines
               PROVE  permits[e] + Cardinality(Busy(e))
                        + (IF LoopHoldsPermit(e) THEN 1 ELSE 0) = Concurrency
    BY DEF SemaphoreAccounting
  <2>1. Busy(e) = {}
    BY DEF Init, EngineInit, Busy, NoJobs
  <2> QED BY <2>1, FS_EmptySet, ConcurrencyAssumption
          DEF Init, EngineInit, LoopHoldsPermit
<1> QED BY <1>4, <1>5 DEF IInv

\* The process: it starts, and it vanishes with everything in its memory.
LEMMA ProcessIInv ==
  ASSUME IInv, NEW e \in Engines, ProcessStep(e), UNCHANGED api
  PROVE  IInv'
<1> USE DEF IInv, TypeOK, EngineTypeOK
<1>1. CASE Start(e)
  <2>1. TypeOK'
    BY <1>1 DEF Start, queueVars, storeVars, worldVars, QueueTypeOK, StoreTypeOK
  <2>2. \A f \in Engines : Busy(f)' = Busy(f) /\ LoopHoldsPermit(f)' = LoopHoldsPermit(f)
    BY <1>1 DEF Start, Busy, LoopHoldsPermit
  <2> QED BY <2>1, <2>2, <1>1, SameAccounting DEF Start
<1>2. CASE Vanish(e)
  <2>1. TypeOK'
    BY <1>2, ConcurrencyAssumption
    DEF Vanish, queueVars, storeVars, worldVars, QueueTypeOK, StoreTypeOK, NoJobs,
        JobState
  <2>2. SemaphoreAccounting'
    <3> SUFFICES ASSUME NEW f \in Engines
                 PROVE  permits'[f] + Cardinality(Busy(f)')
                          + (IF LoopHoldsPermit(f)' THEN 1 ELSE 0) = Concurrency
      BY DEF SemaphoreAccounting
    <3>1. CASE f = e
      <4>1. Busy(f)' = {}
        BY <1>2, <3>1 DEF Vanish, Busy, NoJobs
      <4>2. permits'[f] = Concurrency /\ ~LoopHoldsPermit(f)'
        BY <1>2, <3>1 DEF Vanish, LoopHoldsPermit
      <4>3. Cardinality(Busy(f)') = 0
        BY <4>1, FS_EmptySet
      <4> QED BY <4>2, <4>3, ConcurrencyAssumption
    <3>2. CASE f # e
      <4>1. /\ Busy(f)' = Busy(f) /\ permits'[f] = permits[f]
            /\ LoopHoldsPermit(f)' = LoopHoldsPermit(f)
        BY <1>2, <3>2 DEF Vanish, Busy, LoopHoldsPermit
      <4> QED BY <4>1 DEF SemaphoreAccounting
    <3> QED BY <3>1, <3>2
  <2> QED BY <2>1, <2>2
<1>3. CASE Signal(e) \/ StopHeartbeat(e) \/ CloseClient(e)
  <2>1. TypeOK'
    BY <1>3 DEF Signal, StopHeartbeat, CloseClient, queueVars, storeVars, worldVars,
                QueueTypeOK, StoreTypeOK
  <2>2. job' = job /\ loop' = loop /\ permits' = permits
    BY <1>3 DEF Signal, StopHeartbeat, CloseClient
  <2>3. \A f \in Engines : Busy(f)' = Busy(f) /\ LoopHoldsPermit(f)' = LoopHoldsPermit(f)
    BY <2>2 DEF Busy, LoopHoldsPermit
  <2> QED BY <2>1, <2>2, <2>3, SameAccounting
<1> QED BY <1>1, <1>2, <1>3 DEF ProcessStep, Exit, Crash

\* A reply of ZRANGEBYSCORE is a list of due members.
LEMMA DueRepliesType ==
  ASSUME due \subseteq Payload, NEW ps \in DueReplies, IsFiniteSet(due)
  PROVE  ps \in Seq(Payload)
<1>1. \E n \in Nat : ps \in [1 .. n -> due]
  BY DueBatchAssumption, FS_CardinalityType DEF DueReplies
<1> QED BY <1>1

\* The fetch loop takes a permit, and gives it back or passes it on.
LEMMA LoopIInv ==
  ASSUME IInv, IsFiniteSet(due), NEW e \in Engines, LoopStep(e), UNCHANGED api
  PROVE  IInv'
<1> USE DEF IInv, TypeOK, EngineTypeOK
<1>0. permits[e] + Cardinality(Busy(e)) + (IF LoopHoldsPermit(e) THEN 1 ELSE 0)
        = Concurrency
  BY DEF SemaphoreAccounting
<1>1. CASE Acquire(e)
  <2>1. TypeOK'
    BY <1>1, ConcurrencyAssumption
    DEF Acquire, queueVars, storeVars, worldVars, QueueTypeOK, StoreTypeOK
  <2>2. job' = job /\ permits' = [permits EXCEPT ![e] = @ - 1]
        /\ loop' = [loop EXCEPT ![e] = "poll"] /\ loop[e] \in {"top", "blocked"}
    BY <1>1 DEF Acquire
  <2>3. \A f \in Engines : Busy(f)' = Busy(f)
    BY <2>2 DEF Busy
  <2>4. /\ ~LoopHoldsPermit(e) /\ LoopHoldsPermit(e)'
        /\ \A f \in Engines \ {e} : LoopHoldsPermit(f)' = LoopHoldsPermit(f)
    BY <2>2 DEF LoopHoldsPermit
  <2>5. permits'[e] + Cardinality(Busy(e)')
          + (IF LoopHoldsPermit(e)' THEN 1 ELSE 0) = Concurrency
    BY <1>0, <2>2, <2>3, <2>4, BusyFinite, ConcurrencyAssumption
  <2>6. \A f \in Engines \ {e} : permits'[f] = permits[f]
    BY <2>2
  <2>7. SemaphoreAccounting'
    BY <2>3, <2>4, <2>5, <2>6, OneAccounting
  <2> QED BY <2>1, <2>7
<1>2. CASE Block(e) \/ ReadDue(e) \/ MoveDue(e)
  <2>1. job' = job /\ permits' = permits
    BY <1>2 DEF Block, ReadDue, MoveDue
  <2>2. \A f \in Engines : Busy(f)' = Busy(f)
    BY <2>1 DEF Busy
  <2>3. \A f \in Engines : LoopHoldsPermit(f)' = LoopHoldsPermit(f)
    <3>1. CASE Block(e)
      BY <3>1 DEF Block, LoopHoldsPermit
    <3>2. CASE ReadDue(e)
      BY <3>2 DEF ReadDue, LoopHoldsPermit
    <3>3. CASE MoveDue(e)
      BY <3>3 DEF MoveDue, LoopHoldsPermit
    <3> QED BY <1>2, <3>1, <3>2, <3>3
  <2>4. TypeOK'
    <3>1. CASE Block(e)
      BY <3>1 DEF Block, queueVars, storeVars, worldVars, QueueTypeOK, StoreTypeOK
    <3>2. CASE ReadDue(e)
      <4>1. batch' \in [Engines -> Seq(Payload)]
        <5>1. CASE batch' = batch
          BY <5>1
        <5>2. ASSUME NEW ps \in DueReplies, batch' = [batch EXCEPT ![e] = ps]
              PROVE  batch' \in [Engines -> Seq(Payload)]
          <6>1. ps \in Seq(Payload)
            BY DueRepliesType DEF QueueTypeOK
          <6> QED BY <5>2, <6>1
        <5> QED BY <3>2, <5>1, <5>2 DEF ReadDue
      <4> QED BY <3>2, <4>1
              DEF ReadDue, queueVars, storeVars, worldVars, QueueTypeOK, StoreTypeOK
    <3>3. CASE MoveDue(e)
      <4>1. queue \o batch[e] \in Seq(Payload)
        BY ConcatProperties DEF QueueTypeOK
      <4>2. QueueTypeOK'
        BY <3>3, <4>1 DEF MoveDue, MoveDueTasks, RPush, queueVars, QueueTypeOK
      <4> QED BY <3>3, <4>2 DEF MoveDue, storeVars, worldVars, StoreTypeOK
    <3> QED BY <1>2, <3>1, <3>2, <3>3
  <2> QED BY <2>1, <2>2, <2>3, <2>4, SameAccounting
<1>3. CASE Pop(e)
  <2>1. PICK j \in Jobs \ Busy(e) :
          job' = [job EXCEPT ![e][j] =
                    [pc |-> "new", payload |-> Head(queue), ok |-> FALSE]]
    BY <1>3 DEF Pop
  <2> DEFINE s == [pc |-> "new", payload |-> Head(queue), ok |-> FALSE]
  <2>2. Head(queue) \in Payload /\ Tail(queue) \in Seq(Payload)
    BY <1>3, HeadTailProperties DEF Pop, QueueTypeOK
  <2>3. s \in JobState /\ s # Idle
    BY <2>2 DEF JobState, JobSteps, Idle
  <2>4. job' = [job EXCEPT ![e][j] = s]
    BY <2>1
  <2> HIDE DEF s
  <2>5. job' \in [Engines -> [Jobs -> JobState]]
    BY <2>3, <2>4
  <2>6. TypeOK'
    BY <1>3, <2>2, <2>5
    DEF Pop, QueueTypeOK, StoreTypeOK, storeVars, worldVars
  <2>7. Busy(e)' = Busy(e) \cup {j} /\ \A f \in Engines \ {e} : Busy(f)' = Busy(f)
    BY <2>3, <2>4 DEF Busy
  <2>8. Cardinality(Busy(e)') = Cardinality(Busy(e)) + 1
    BY <2>7, BusyFinite, FS_AddElement
  <2>9. /\ permits' = permits
        /\ LoopHoldsPermit(e) /\ ~LoopHoldsPermit(e)'
        /\ \A f \in Engines \ {e} : LoopHoldsPermit(f)' = LoopHoldsPermit(f)
    BY <1>3 DEF Pop, LoopHoldsPermit
  <2>10. permits'[e] + Cardinality(Busy(e)')
           + (IF LoopHoldsPermit(e)' THEN 1 ELSE 0) = Concurrency
    BY <1>0, <2>8, <2>9, BusyFinite, ConcurrencyAssumption
  <2> QED BY <2>6, <2>7, <2>9, <2>10, OneAccounting
<1>4. CASE PopNothing(e)
  <2>1. /\ permits' = [permits EXCEPT ![e] = @ + 1] /\ job' = job
        /\ LoopHoldsPermit(e) /\ ~LoopHoldsPermit(e)'
        /\ \A f \in Engines \ {e} : LoopHoldsPermit(f)' = LoopHoldsPermit(f)
    BY <1>4 DEF PopNothing, LoopHoldsPermit
  <2>2. permits[e] + 1 \in 0 .. Concurrency
    BY <1>0, <2>1, BusyFinite, ConcurrencyAssumption
  <2>3. queue' \in Seq(Payload)
    BY <1>4, HeadTailProperties DEF PopNothing, QueueTypeOK
  <2>4. TypeOK'
    BY <1>4, <2>1, <2>2, <2>3
    DEF PopNothing, QueueTypeOK, StoreTypeOK, storeVars, worldVars
  <2>5. \A f \in Engines : Busy(f)' = Busy(f)
    BY <2>1 DEF Busy
  <2>6. permits'[e] + Cardinality(Busy(e)')
          + (IF LoopHoldsPermit(e)' THEN 1 ELSE 0) = Concurrency
    BY <1>0, <2>1, <2>5, BusyFinite, ConcurrencyAssumption
  <2> QED BY <2>1, <2>4, <2>5, <2>6, OneAccounting
<1> QED BY <1>1, <1>2, <1>3, <1>4 DEF LoopStep

\* A payload that is retried stays a payload.
LEMMA RetryPayload ==
  ASSUME NEW p \in Payload
  PROVE  [p EXCEPT !.attempt = @ + 1] \in Payload
BY DEF Payload

\* A coroutine that takes a step is one.
LEMMA StepOfBusyJob ==
  ASSUME NEW e \in Engines, NEW j \in Jobs, JobStep(e, j)
  PROVE  job[e][j] # Idle
<1>1. \E pc \in JobSteps : job[e][j].pc = pc
  BY DEF JobStep, SendRequest, Answer, Save, ScheduleRetry, DeadLetter, At, JobSteps
<1> QED BY <1>1 DEF Idle, JobSteps

\* A coroutine sends its request, waits, saves, and schedules what follows.
LEMMA JobIInv ==
  ASSUME IInv, NEW e \in Engines, NEW j \in Jobs, JobStep(e, j), UNCHANGED api
  PROVE  IInv'
<1> USE DEF IInv, TypeOK
<1>0. /\ job[e][j] # Idle
      /\ job[e][j] \in [pc : JobSteps, payload : Payload, ok : BOOLEAN]
  BY StepOfBusyJob DEF EngineTypeOK, JobState
<1>1. job[e][j].payload \in Payload /\ job[e][j].payload.task \in Tasks
  BY <1>0 DEF Payload
<1>2. loop' = loop /\ \A f \in Engines : LoopHoldsPermit(f)' = LoopHoldsPermit(f)
  BY DEF JobStep, SendRequest, Answer, Save, ScheduleRetry, DeadLetter, LoopHoldsPermit
<1>3. \/ Finish(e, j)
      \/ \E pc \in JobSteps, ok \in BOOLEAN : Continue(e, j, pc, ok)
  BY <1>0 DEF JobStep, SendRequest, Answer, Save, AfterSave, ScheduleRetry,
              DeadLetter, JobSteps
<1>4. /\ job' \in [Engines -> [Jobs -> JobState]]
      /\ permits' \in [Engines -> 0 .. Concurrency]
      /\ SemaphoreAccounting'
  <2>1. CASE Finish(e, j)
    BY <1>0, <1>2, <2>1, FinishJobs
  <2>2. ASSUME NEW pc \in JobSteps, NEW ok \in BOOLEAN, Continue(e, j, pc, ok)
        PROVE  /\ job' \in [Engines -> [Jobs -> JobState]]
               /\ permits' \in [Engines -> 0 .. Concurrency]
               /\ SemaphoreAccounting'
    <3>1. permits' = permits
      BY <2>2 DEF Continue
    <3>2. /\ job' \in [Engines -> [Jobs -> JobState]]
          /\ \A f \in Engines : Busy(f)' = Busy(f)
      BY <1>0, <2>2, ContinueJobs
    <3> QED BY <1>2, <3>1, <3>2, SameAccounting DEF EngineTypeOK
  <2> QED BY <1>3, <2>1, <2>2
<1>5. QueueTypeOK' /\ ripe' \in [Engines -> SUBSET Payload]
  <2>1. CASE SendRequest(e, j) \/ Answer(e, j) \/ Save(e, j)
    BY <2>1 DEF SendRequest, Answer, Save, queueVars, QueueTypeOK, EngineTypeOK
  <2>2. CASE ScheduleRetry(e, j)
    BY <1>1, <2>2, RetryPayload
    DEF ScheduleRetry, ZAdd, QueueTypeOK, EngineTypeOK
  <2>3. CASE DeadLetter(e, j)
    <3>1. Append(dlq, job[e][j].payload) \in Seq(Payload)
      BY <1>1, AppendProperties DEF QueueTypeOK
    <3> QED BY <2>3, <3>1 DEF DeadLetter, SendToDlq, QueueTypeOK, EngineTypeOK
  <2> QED BY <2>1, <2>2, <2>3 DEF JobStep
<1>6. StoreTypeOK'
  <2>1. CASE Save(e, j)
    <3>1. CASE db' = db
      BY <2>1, <3>1 DEF Save, SaveResponse, storeVars, StoreTypeOK
    <3>2. CASE db' # db
      <4> DEFINE t == job[e][j].payload.task
                 row(ok) == [status |-> IF ok THEN "SUCCESS" ELSE "FAILED",
                             attempts |-> db[t].attempts + 1,
                             response |-> IF ok THEN "body" ELSE "error"]
      <4>1. row(job[e][j].ok) \in Row
        BY <1>1 DEF StoreTypeOK, Row, TaskStatus
      <4>2. db' = [db EXCEPT ![t] = row(job[e][j].ok)] /\ scans' = scans
        BY <2>1, <3>2, <1>1 DEF Save, SaveResponse, storeVars, StoreTypeOK
      <4> QED BY <4>1, <4>2, <1>1 DEF StoreTypeOK
    <3> QED BY <3>1, <3>2
  <2>2. CASE ~Save(e, j)
    BY <2>2 DEF JobStep, SendRequest, Answer, ScheduleRetry, DeadLetter, storeVars,
                StoreTypeOK
  <2> QED BY <2>1, <2>2
<1>7. hits' \in [Tasks -> Nat] /\ answered' \subseteq Tasks
  <2>1. CASE SendRequest(e, j)
    <3> DEFINE t == job[e][j].payload.task
    <3>1. hits' = hits \/ hits' = [hits EXCEPT ![t] = @ + 1]
      BY <2>1 DEF SendRequest
    <3>2. answered' = answered
      BY <2>1 DEF SendRequest
    <3>3. t \in Tasks
      BY <1>1
    <3>4. hits \in [Tasks -> Nat] /\ answered \subseteq Tasks
      BY DEF EngineTypeOK
    <3> HIDE DEF t
    <3>5. CASE hits' = hits
      BY <3>2, <3>4, <3>5
    <3>6. CASE hits' = [hits EXCEPT ![t] = @ + 1]
      BY <3>2, <3>3, <3>4, <3>6
    <3> QED BY <3>1, <3>5, <3>6
  <2>2. CASE Answer(e, j)
    <3>1. answered' \in {answered, answered \cup {job[e][j].payload.task}}
      BY <2>2 DEF Answer
    <3> QED BY <1>1, <2>2, <3>1 DEF Answer, EngineTypeOK
  <2>3. CASE Save(e, j) \/ ScheduleRetry(e, j) \/ DeadLetter(e, j)
    BY <2>3 DEF Save, ScheduleRetry, DeadLetter, worldVars, EngineTypeOK
  <2> QED BY <2>1, <2>2, <2>3 DEF JobStep
<1>8. UNCHANGED <<loop, running, batch, stopper, httpOpen>>
  BY DEF JobStep, SendRequest, Answer, Save, ScheduleRetry, DeadLetter
<1> QED BY <1>4, <1>5, <1>6, <1>7, <1>8 DEF EngineTypeOK

\* The payloads of a request are payloads, in either order.
LEMMA PayloadsType ==
  ASSUME NEW ts \in Seq(Tasks)
  PROVE  Payloads(ts) \in Seq(Payload) /\ Reverse(Payloads(ts)) \in Seq(Payload)
<1>1. Payloads(ts) \in Seq(Payload)
  <2>1. DOMAIN ts = 1 .. Len(ts) /\ Len(ts) \in Nat
    BY LenProperties
  <2>2. \A i \in DOMAIN ts : FirstAttempt(ts[i]) \in Payload
    BY <2>1, ElementOfSeq DEF FirstAttempt, Payload
  <2>3. Payloads(ts) \in [1 .. Len(ts) -> Payload]
    BY <2>1, <2>2 DEF Payloads
  <2> QED BY <2>1, <2>3
<1>2. ASSUME NEW ps \in Seq(Payload) PROVE Reverse(ps) \in Seq(Payload)
  BY <1>2 DEF Reverse
<1> QED BY <1>1, <1>2

\* The API touches the store and the list, and no worker.
LEMMA ApiIInv ==
  ASSUME IInv, UNCHANGED engineVars,
         \/ \E s \in Scans : PostScan(s)
         \/ \E r \in Requests : ApiStep(r) \/ ApiCrash(r)
  PROVE  IInv'
<1> USE DEF IInv, TypeOK
<1>1. EngineTypeOK' /\ SemaphoreAccounting'
  BY DEF engineVars, worldVars, EngineTypeOK, SemaphoreAccounting, Busy,
         LoopHoldsPermit
<1>2. api' \in [Requests -> ApiSteps]
  BY DEF PostScan, ApiStep, SubmitTasks, PublishHigh, PublishStandard, ApiCrash,
         Goto, ApiSteps
<1>3. QueueTypeOK'
  <2>1. CASE \E r \in Requests : PublishHigh(r)
    <3>1. PICK r \in Requests : PublishHigh(r)
      BY <2>1
    <3>2. Reverse(Payloads(High[r])) \in Seq(Payload)
      BY PayloadsType, RequestsAssumption
    <3>3. Reverse(Payloads(High[r])) \o queue \in Seq(Payload)
      BY <3>2, ConcatProperties DEF QueueTypeOK
    <3> QED BY <3>1, <3>3 DEF PublishHigh, LPush, QueueTypeOK
  <2>2. CASE \E r \in Requests : PublishStandard(r)
    <3>1. PICK r \in Requests : PublishStandard(r)
      BY <2>2
    <3>2. Payloads(Standard[r]) \in Seq(Payload)
      BY PayloadsType, RequestsAssumption
    <3>3. queue \o Payloads(Standard[r]) \in Seq(Payload)
      BY <3>2, ConcatProperties DEF QueueTypeOK
    <3> QED BY <3>1, <3>3 DEF PublishStandard, RPush, QueueTypeOK
  <2>3. CASE UNCHANGED queueVars
    BY <2>3 DEF queueVars, QueueTypeOK
  <2> QED BY <2>1, <2>2, <2>3 DEF PostScan, ApiStep, SubmitTasks, ApiCrash
<1>4. StoreTypeOK'
  BY DEF PostScan, CreateScan, ApiStep, SubmitTasks, InsertTasks, PublishHigh,
         PublishStandard, ApiCrash, storeVars, StoreTypeOK, NewRow, Row, TaskStatus
<1> QED BY <1>1, <1>2, <1>3, <1>4

\* The clock moves a member from one half of the sorted set to the other.
LEMMA DelayIInv ==
  ASSUME IInv, NEW p \in waiting, BecomeDue(p), UNCHANGED <<storeVars, engineVars, api>>
  PROVE  IInv'
<1>1. QueueTypeOK'
  BY DEF IInv, TypeOK, BecomeDue, QueueTypeOK
<1>2. StoreTypeOK' /\ EngineTypeOK' /\ SemaphoreAccounting'
  BY DEF IInv, TypeOK, storeVars, engineVars, worldVars, StoreTypeOK, EngineTypeOK,
         SemaphoreAccounting, Busy, LoopHoldsPermit
<1> QED BY <1>1, <1>2 DEF IInv, TypeOK

-----------------------------------------------------------------------------
(* The sorted set stays finite, so that the reply of ZRANGEBYSCORE, cut to  *)
(* its first members, is a sequence.                                       *)

DelayedFinite == IsFiniteSet(waiting) /\ IsFiniteSet(due)

\* The sorted set is empty at first,
LEMMA InitDelayedFinite == Init => DelayedFinite
BY FS_EmptySet DEF Init, QueueInit, DelayedFinite

\* and every step leaves it finite.
LEMMA StepDelayedFinite == DelayedFinite /\ [Next]_vars => DelayedFinite'
<1> SUFFICES ASSUME DelayedFinite, [Next]_vars PROVE DelayedFinite'
  OBVIOUS
<1> USE DEF DelayedFinite
<1>1. ASSUME NEW p \in waiting, BecomeDue(p) PROVE DelayedFinite'
  BY <1>1, FS_AddElement, FS_RemoveElement DEF BecomeDue
<1>2. ASSUME NEW e \in Engines, NEW j \in Jobs, ScheduleRetry(e, j)
      PROVE  DelayedFinite'
  <2>1. \/ UNCHANGED <<waiting, due>>
        \/ \E q : waiting' = waiting \cup {q} /\ due' = due \ {q}
    BY <1>2 DEF ScheduleRetry, ZAdd
  <2> QED BY <2>1, FS_AddElement, FS_RemoveElement
<1>3. ASSUME NEW e \in Engines, MoveDue(e) PROVE DelayedFinite'
  <2>1. waiting' = waiting /\ due' \subseteq due
    BY <1>3 DEF MoveDue, MoveDueTasks, queueVars
  <2>2. IsFiniteSet(due')
    BY <2>1, FS_Subset
  <2>3. IsFiniteSet(waiting')
    BY <2>1
  <2> QED BY <2>2, <2>3
<1>4. CASE UNCHANGED <<waiting, due>>
  BY <1>4
<1>5. ASSUME NEW e \in Engines,
             \/ LoopStep(e) /\ ~MoveDue(e)
             \/ ProcessStep(e)
             \/ \E j \in Jobs : JobStep(e, j) /\ ~ScheduleRetry(e, j)
      PROVE  UNCHANGED <<waiting, due>>
  BY <1>5 DEF LoopStep, ProcessStep, JobStep, Acquire, Block, ReadDue, Pop,
              PopNothing, Start, Exit, Crash, Vanish, Signal, StopHeartbeat,
              CloseClient, SendRequest, Answer, Save, DeadLetter, queueVars
<1>6. ASSUME \/ \E s \in Scans : PostScan(s)
             \/ \E r \in Requests : ApiStep(r) \/ ApiCrash(r)
      PROVE  UNCHANGED <<waiting, due>>
  BY <1>6 DEF PostScan, ApiStep, SubmitTasks, PublishHigh, PublishStandard, ApiCrash,
              queueVars
<1>7. CASE UNCHANGED vars
  BY <1>7 DEF vars, queueVars
<1> QED BY <1>1, <1>2, <1>3, <1>4, <1>5, <1>6, <1>7 DEF Next, EngineNext

-----------------------------------------------------------------------------
\* The invariant is inductive.
LEMMA StepIInv == IInv /\ DelayedFinite /\ [Next]_vars => IInv'
<1> SUFFICES ASSUME IInv, DelayedFinite, [Next]_vars PROVE IInv'
  OBVIOUS
<1>1. CASE \/ \E s \in Scans : PostScan(s)
           \/ \E r \in Requests : ApiStep(r) \/ ApiCrash(r)
  <2>1. UNCHANGED engineVars
    BY <1>1 DEF PostScan, ApiStep, SubmitTasks, PublishHigh, PublishStandard, ApiCrash
  <2> QED BY <1>1, <2>1, ApiIInv
<1>2. CASE \E p \in waiting : BecomeDue(p) /\ UNCHANGED <<storeVars, engineVars, api>>
  BY <1>2, DelayIInv
<1>3. CASE EngineNext /\ UNCHANGED api
  BY <1>3, LoopIInv, ProcessIInv, JobIInv DEF EngineNext, DelayedFinite
<1>4. CASE UNCHANGED vars
  BY <1>4 DEF vars, queueVars, storeVars, engineVars, worldVars, IInv, TypeOK,
              QueueTypeOK, StoreTypeOK, EngineTypeOK, SemaphoreAccounting, Busy,
              LoopHoldsPermit
<1> QED BY <1>1, <1>2, <1>3, <1>4 DEF Next

\* Every reachable state is well typed; in particular a permit given back never
\* raises the semaphore above WORKER_CONCURRENCY.
THEOREM TypeCorrect == Spec => []TypeOK
<1>1. Init => IInv /\ DelayedFinite
  BY InitIInv, InitDelayedFinite
<1>2. (IInv /\ DelayedFinite) /\ [Next]_vars => (IInv /\ DelayedFinite)'
  BY StepIInv, StepDelayedFinite
<1>3. IInv => TypeOK
  BY DEF IInv
<1> QED BY <1>1, <1>2, <1>3, PTL DEF Spec

\* In every worker each permit of the semaphore is free, held by the fetch loop
\* or held by one coroutine: the early returns of start() and the finally block
\* of _process_payload balance, under every fault the model knows.
THEOREM PermitsBalance == Spec => []SemaphoreAccounting
<1>1. Init => IInv /\ DelayedFinite
  BY InitIInv, InitDelayedFinite
<1>2. (IInv /\ DelayedFinite) /\ [Next]_vars => (IInv /\ DelayedFinite)'
  BY StepIInv, StepDelayedFinite
<1>3. IInv => SemaphoreAccounting
  BY DEF IInv
<1> QED BY <1>1, <1>2, <1>3, PTL DEF Spec

-----------------------------------------------------------------------------
(* Elements of sequences *)

\* What a concatenation has.
LEMMA ConcatElements ==
  ASSUME NEW S, NEW s \in Seq(S), NEW t \in Seq(S)
  PROVE  ToSet(s \o t) = ToSet(s) \cup ToSet(t)
<1>1. /\ DOMAIN s = 1 .. Len(s) /\ DOMAIN t = 1 .. Len(t)
      /\ DOMAIN (s \o t) = 1 .. Len(s) + Len(t)
      /\ Len(s) \in Nat /\ Len(t) \in Nat
  BY ConcatProperties, LenProperties
<1>2. /\ \A i \in 1 .. Len(s) : (s \o t)[i] = s[i]
      /\ \A i \in 1 .. Len(t) : (s \o t)[Len(s) + i] = t[i]
      /\ \A i \in 1 .. Len(s) + Len(t) :
           i \in 1 .. Len(s) \/ \E k \in 1 .. Len(t) : i = Len(s) + k
  <2>1. \A i \in 1 .. Len(s) + Len(t) :
          i \notin 1 .. Len(s) => i - Len(s) \in 1 .. Len(t) /\ i = Len(s) + (i - Len(s))
    BY <1>1
  <2> QED BY <1>1, <2>1, ConcatProperties
<1>3. ToSet(s \o t) \subseteq ToSet(s) \cup ToSet(t)
  BY <1>1, <1>2 DEF ToSet
<1>4. ToSet(s) \subseteq ToSet(s \o t)
  BY <1>1, <1>2 DEF ToSet
<1>5. ToSet(t) \subseteq ToSet(s \o t)
  <2>1. \A i \in 1 .. Len(t) : Len(s) + i \in 1 .. Len(s) + Len(t)
    BY <1>1
  <2> QED BY <1>1, <1>2, <2>1 DEF ToSet
<1> QED BY <1>3, <1>4, <1>5

\* What the first and the other entries of a list are.
LEMMA HeadTailElements ==
  ASSUME NEW S, NEW s \in Seq(S), s # <<>>
  PROVE  Head(s) \in ToSet(s) /\ ToSet(Tail(s)) \subseteq ToSet(s)
<1>1. /\ Len(s) \in Nat \ {0} /\ DOMAIN s = 1 .. Len(s) /\ Head(s) = s[1]
      /\ DOMAIN Tail(s) = 1 .. Len(s) - 1
      /\ \A i \in 1 .. Len(s) - 1 : Tail(s)[i] = s[i + 1]
  BY EmptySeq, LenProperties, HeadTailProperties
<1>2. 1 \in 1 .. Len(s) /\ \A i \in 1 .. Len(s) - 1 : i + 1 \in 1 .. Len(s)
  BY <1>1
<1> QED BY <1>1, <1>2 DEF ToSet

\* Reversing adds nothing.
LEMMA ReverseElements ==
  ASSUME NEW S, NEW s \in Seq(S)
  PROVE  ToSet(Reverse(s)) \subseteq ToSet(s)
<1>1. DOMAIN s = 1 .. Len(s) /\ Len(s) \in Nat
  BY LenProperties
<1>2. \A i \in 1 .. Len(s) : (Len(s) - i) + 1 \in 1 .. Len(s)
  BY <1>1
<1> QED BY <1>1, <1>2 DEF ToSet, Reverse

-----------------------------------------------------------------------------
(* The first verdict stands.  The only step that could overwrite a row     *)
(* besides SaveResponse is InsertTasks, and it inserts fresh ids: a        *)
(* request that has not been handled has no rows yet.                      *)

Fresh ==
  \A r \in Requests : api[r] = "idle" => \A t \in TasksOf(r) : db[t] = Absent

\* The initial state satisfies Fresh.
LEMMA InitFresh == Init => Fresh
<1>1. \A r \in Requests : TasksOf(r) \subseteq Tasks
  BY RequestsAssumption, LenProperties, ElementOfSeq DEF TasksOf, ToSet
<1> QED BY <1>1 DEF Init, StoreInit, Fresh

\* A step of a worker changes no row but by a first response.
LEMMA WorkerRows ==
  ASSUME IInv, EngineNext
  PROVE  \/ db' = db
         \/ \E t \in Tasks :
              /\ db[t].status # "ABSENT" /\ db[t].response = "none"
              /\ \A u \in Tasks \ {t} : db'[u] = db[u]
<1>1. PICK e \in Engines :
        LoopStep(e) \/ ProcessStep(e) \/ \E j \in Jobs : JobStep(e, j)
  BY DEF EngineNext
<1>2. CASE LoopStep(e) \/ ProcessStep(e)
  BY <1>2 DEF LoopStep, ProcessStep, Acquire, Block, ReadDue, MoveDue, Pop,
              PopNothing, Start, Exit, Crash, Vanish, Signal, StopHeartbeat,
              CloseClient, storeVars
<1>3. ASSUME NEW j \in Jobs, JobStep(e, j), ~Save(e, j)
      PROVE  db' = db
  BY <1>3 DEF JobStep, SendRequest, Answer, ScheduleRetry, DeadLetter, storeVars
<1>4. ASSUME NEW j \in Jobs, Save(e, j), db' # db
      PROVE  \E t \in Tasks :
               /\ db[t].status # "ABSENT" /\ db[t].response = "none"
               /\ \A u \in Tasks \ {t} : db'[u] = db[u]
  <2> DEFINE t == job[e][j].payload.task
  <2>1. job[e][j] # Idle
    BY <1>4 DEF Save, At, Idle
  <2>2. t \in Tasks
    BY <2>1 DEF IInv, TypeOK, EngineTypeOK, JobState, Payload
  <2>3. SaveResponse(t, job[e][j].ok)
    BY <1>4 DEF Save, storeVars
  <2>4. db \in [Tasks -> Row]
    BY DEF IInv, TypeOK, StoreTypeOK
  <2> HIDE DEF t
  <2>5. /\ db[t].status # "ABSENT" /\ db[t].response = "none"
        /\ \A u \in Tasks \ {t} : db'[u] = db[u]
    BY <1>4, <2>2, <2>3, <2>4 DEF SaveResponse
  <2> QED BY <2>2, <2>5
<1> QED BY <1>1, <1>2, <1>3, <1>4

\* Rows appear only when their request is handled.
LEMMA ApiRows ==
  ASSUME IInv, NEW r \in Requests, ApiStep(r) \/ ApiCrash(r)
  PROVE  /\ api'[r] # "idle"
         /\ \A q \in Requests \ {r} : api'[q] = api[q]
         /\ \A t \in Tasks : db'[t] # db[t] => api[r] = "idle" /\ t \in TasksOf(r)
<1>1. PICK step \in {"high", "standard", "done"} : api' = [api EXCEPT ![r] = step]
  BY DEF ApiStep, SubmitTasks, PublishHigh, PublishStandard, ApiCrash, Goto
<1>2. api'[r] # "idle" /\ \A q \in Requests \ {r} : api'[q] = api[q]
  BY <1>1 DEF IInv, TypeOK
<1>3. \A t \in Tasks : db'[t] # db[t] => api[r] = "idle" /\ t \in TasksOf(r)
  BY DEF ApiStep, SubmitTasks, InsertTasks, PublishHigh, PublishStandard, ApiCrash,
         storeVars
<1> QED BY <1>2, <1>3

\* Every step keeps it.
LEMMA StepFresh == IInv /\ Fresh /\ [Next]_vars => Fresh'
<1> SUFFICES ASSUME IInv, Fresh, [Next]_vars,
                    NEW r \in Requests, api'[r] = "idle", NEW t \in TasksOf(r)
             PROVE  db'[t] = Absent
  BY DEF Fresh, TasksOf
<1>1. t \in Tasks
  BY RequestsAssumption, LenProperties, ElementOfSeq DEF TasksOf, ToSet
<1>2. ASSUME NEW q \in Requests, ApiStep(q) \/ ApiCrash(q)
      PROVE  db'[t] = Absent
  <2>1. q # r /\ api[r] = "idle"
    BY <1>2, ApiRows
  <2>2. t \notin TasksOf(q)
    BY <2>1, FreshTasksAssumption
  <2>3. db'[t] = db[t]
    BY <1>1, <1>2, <2>2, ApiRows
  <2> QED BY <2>1, <2>3 DEF Fresh
<1>3. CASE EngineNext /\ UNCHANGED api
  <2>1. db[t] = Absent
    BY <1>3 DEF Fresh
  <2>2. db[t].status = "ABSENT"
    BY <2>1 DEF Absent
  <2>3. db'[t] = db[t]
    BY <1>1, <1>3, <2>2, WorkerRows
  <2> QED BY <2>1, <2>3
<1>4. CASE db' = db /\ api' = api
  BY <1>4 DEF Fresh
<1>5. CASE \E s \in Scans : PostScan(s)
  BY <1>4, <1>5 DEF PostScan, CreateScan
<1>6. CASE \E p \in waiting : BecomeDue(p) /\ UNCHANGED <<storeVars, engineVars, api>>
  BY <1>4, <1>6 DEF storeVars
<1>7. CASE UNCHANGED vars
  BY <1>4, <1>7 DEF vars, storeVars
<1> QED BY <1>2, <1>3, <1>5, <1>6, <1>7 DEF Next

\* The unique response freezes the row: no later run of the task, no duplicate
\* and no other request changes what get_scan_progress reports of it.
THEOREM VerdictFrozen == Spec => FirstVerdictStands
<1>1. ASSUME IInv, Fresh, [Next]_vars, NEW t \in Tasks, db[t].response # "none"
      PROVE  db'[t] = db[t]
  <2>1. CASE EngineNext
    BY <1>1, <2>1, WorkerRows
  <2>2. ASSUME NEW r \in Requests, ApiStep(r) \/ ApiCrash(r)
        PROVE  db'[t] = db[t]
    <3>1. db[t] # Absent
      BY <1>1 DEF Absent
    <3> QED BY <1>1, <2>2, <3>1, ApiRows DEF Fresh
  <2>3. CASE \E s \in Scans : PostScan(s)
    BY <2>3 DEF PostScan, CreateScan
  <2>4. CASE \E p \in waiting : BecomeDue(p) /\ UNCHANGED <<storeVars, engineVars, api>>
    BY <2>4 DEF storeVars
  <2>5. CASE UNCHANGED vars
    BY <2>5 DEF vars, storeVars
  <2> QED BY <1>1, <2>1, <2>2, <2>3, <2>4, <2>5 DEF Next
<1>2. IInv /\ Fresh /\ [Next]_vars
        => [\A t \in Tasks : db[t].response # "none" => db'[t] = db[t]]_vars
  BY <1>1
<1>3. Init => IInv /\ DelayedFinite /\ Fresh
  BY InitIInv, InitDelayedFinite, InitFresh
<1>4. (IInv /\ DelayedFinite /\ Fresh) /\ [Next]_vars
        => (IInv /\ DelayedFinite /\ Fresh)'
  BY StepIInv, StepDelayedFinite, StepFresh
<1> QED BY <1>2, <1>3, <1>4, PTL DEF Spec, FirstVerdictStands

-----------------------------------------------------------------------------
(* What get_scan_progress counts.  A row has a verdict just when it has a  *)
(* response, so that a row changes at most from queued to a verdict, and   *)
(* the rows of a request appear all at once.                               *)

\* A verdict comes with a response.
Judged ==
  \A t \in Tasks : db[t].status \in {"SUCCESS", "FAILED"} <=> db[t].response # "none"

\* A worker changes the rows by a transaction of _save_response only.
LEMMA WorkerSaves ==
  ASSUME IInv, EngineNext
  PROVE  db' = db \/ \E t \in Tasks : \E ok \in BOOLEAN : SaveResponse(t, ok)
<1>1. PICK e \in Engines :
        LoopStep(e) \/ ProcessStep(e) \/ \E j \in Jobs : JobStep(e, j)
  BY DEF EngineNext
<1>2. CASE LoopStep(e) \/ ProcessStep(e)
  BY <1>2 DEF LoopStep, ProcessStep, Acquire, Block, ReadDue, MoveDue, Pop,
              PopNothing, Start, Exit, Crash, Vanish, Signal, StopHeartbeat,
              CloseClient, storeVars
<1>3. ASSUME NEW j \in Jobs, JobStep(e, j)
      PROVE  db' = db \/ \E t \in Tasks : \E ok \in BOOLEAN : SaveResponse(t, ok)
  <2>1. CASE Save(e, j)
    <3>1. job[e][j] # Idle
      BY <2>1 DEF Save, At, Idle
    <3>2. job[e][j].payload.task \in Tasks /\ job[e][j].ok \in BOOLEAN
      BY <3>1 DEF IInv, TypeOK, EngineTypeOK, JobState, Payload
    <3> QED BY <2>1, <3>2 DEF Save, storeVars
  <2>2. CASE ~Save(e, j)
    BY <1>3, <2>2 DEF JobStep, SendRequest, Answer, ScheduleRetry, DeadLetter, storeVars
  <2> QED BY <2>1, <2>2
<1> QED BY <1>1, <1>2, <1>3

\* A transaction of _save_response judges one queued row or none.
LEMMA SaveJudges ==
  ASSUME IInv, Judged, NEW t \in Tasks, NEW ok \in BOOLEAN, SaveResponse(t, ok)
  PROVE  \/ db' = db
         \/ /\ db[t].status = "QUEUED" /\ \A u \in Tasks \ {t} : db'[u] = db[u]
            /\ db'[t].status \in {"SUCCESS", "FAILED"} /\ db'[t].response # "none"
<1>1. db \in [Tasks -> Row]
  BY DEF IInv, TypeOK, StoreTypeOK
<1>2. db[t].status \in {"QUEUED", "SUCCESS", "FAILED", "ABSENT"}
  BY <1>1 DEF Row, TaskStatus
<1>3. CASE db[t].status # "ABSENT" /\ db[t].response = "none"
  <2>1. db[t].status = "QUEUED"
    BY <1>2, <1>3 DEF Judged
  <2> DEFINE v == [status |-> IF ok THEN "SUCCESS" ELSE "FAILED",
                   attempts |-> db[t].attempts + 1,
                   response |-> IF ok THEN "body" ELSE "error"]
  <2>2. db' = [db EXCEPT ![t] = v]
    BY <1>3 DEF SaveResponse
  <2>3. v.status \in {"SUCCESS", "FAILED"} /\ v.response # "none"
    OBVIOUS
  <2> HIDE DEF v
  <2> QED BY <1>1, <2>1, <2>2, <2>3
<1> QED BY <1>3 DEF SaveResponse

\* The rows of a request are added all at once, when it had none, and no others.
LEMMA RequestInserts ==
  ASSUME IInv, Fresh, NEW r \in Requests, ApiStep(r) \/ ApiCrash(r)
  PROVE  \/ db' = db
         \/ /\ \A t \in TasksOf(r) : db[t] = Absent /\ db'[t] = NewRow
            /\ \A t \in Tasks \ TasksOf(r) : db'[t] = db[t]
<1>1. TasksOf(r) \subseteq Tasks
  BY RequestsAssumption, LenProperties, ElementOfSeq DEF TasksOf, ToSet
<1>2. CASE SubmitTasks(r) /\ InsertTasks(TasksOf(r))
  BY <1>1, <1>2 DEF SubmitTasks, InsertTasks, Fresh
<1>3. CASE ~(SubmitTasks(r) /\ InsertTasks(TasksOf(r)))
  BY <1>3 DEF ApiStep, SubmitTasks, PublishHigh, PublishStandard, ApiCrash, storeVars
<1> QED BY <1>2, <1>3

\* What a step does to the rows.
RowsMove ==
  \/ db' = db
  \/ \E t \in Tasks :
       /\ db[t].status = "QUEUED" /\ \A u \in Tasks \ {t} : db'[u] = db[u]
       /\ db'[t].status \in {"SUCCESS", "FAILED"} /\ db'[t].response # "none"
  \/ \E r \in Requests :
       /\ \A t \in TasksOf(r) : db[t] = Absent /\ db'[t] = NewRow
       /\ \A t \in Tasks \ TasksOf(r) : db'[t] = db[t]

\* A step judges a queued row, adds the rows of one request, or changes none.
LEMMA StepRows == IInv /\ Fresh /\ Judged /\ [Next]_vars => RowsMove
<1> SUFFICES ASSUME IInv, Fresh, Judged, [Next]_vars PROVE RowsMove
  OBVIOUS
<1>1. CASE EngineNext
  BY <1>1, WorkerSaves, SaveJudges DEF RowsMove
<1>2. ASSUME NEW r \in Requests, ApiStep(r) \/ ApiCrash(r)
      PROVE  RowsMove
  BY <1>2, RequestInserts DEF RowsMove
<1>3. CASE \E s \in Scans : PostScan(s)
  BY <1>3 DEF PostScan, CreateScan, RowsMove
<1>4. CASE \E p \in waiting : BecomeDue(p) /\ UNCHANGED <<storeVars, engineVars, api>>
  BY <1>4 DEF storeVars, RowsMove
<1>5. CASE UNCHANGED vars
  BY <1>5 DEF vars, storeVars, RowsMove
<1> QED BY <1>1, <1>2, <1>3, <1>4, <1>5 DEF Next

\* Every step keeps verdicts and responses together.
LEMMA StepJudged == Judged /\ RowsMove => Judged'
BY DEF Judged, RowsMove, Absent, NewRow

\* The tasks of a request are finitely many.
LEMMA TasksOfFinite ==
  ASSUME NEW r \in Requests
  PROVE  TasksOf(r) \subseteq Tasks /\ IsFiniteSet(TasksOf(r))
<1>1. High[r] \in Seq(Tasks) /\ Standard[r] \in Seq(Tasks)
  BY RequestsAssumption
<1>2. ASSUME NEW s \in Seq(Tasks) PROVE IsFiniteSet(ToSet(s)) /\ ToSet(s) \subseteq Tasks
  <2>1. Len(s) \in Nat /\ DOMAIN s = 1 .. Len(s) /\ \A i \in 1 .. Len(s) : s[i] \in Tasks
    BY LenProperties, ElementOfSeq
  <2>2. IsFiniteSet(1 .. Len(s))
    BY <2>1, FS_Interval
  <2>3. s \in Surjection(1 .. Len(s), ToSet(s))
    BY <2>1 DEF Surjection, ToSet
  <2> QED BY <2>1, <2>2, <2>3, FS_Surjection DEF ToSet
<1> QED BY <1>1, <1>2, FS_Union DEF TasksOf

\* The verdicts of a request grow, and what is pending shrinks once it has rows.
LEMMA CountedRows ==
  ASSUME Fresh, Judged, RowsMove, NEW r \in Requests
  PROVE  /\ \A S \in {{"SUCCESS"}, {"FAILED"}} :
              {t \in TasksOf(r) : db[t].status \in S}
                \subseteq {t \in TasksOf(r) : db'[t].status \in S}
         /\ \/ {t \in TasksOf(r) : db'[t].status = "QUEUED"}
                 \subseteq {t \in TasksOf(r) : db[t].status = "QUEUED"}
            \/ \A t \in TasksOf(r) : db[t].status = "ABSENT"
<1>1. TasksOf(r) \subseteq Tasks
  BY TasksOfFinite
<1>2. CASE \E q \in Requests :
             /\ \A t \in TasksOf(q) : db[t] = Absent /\ db'[t] = NewRow
             /\ \A t \in Tasks \ TasksOf(q) : db'[t] = db[t]
  <2>1. PICK q \in Requests :
               /\ \A t \in TasksOf(q) : db[t] = Absent /\ db'[t] = NewRow
               /\ \A t \in Tasks \ TasksOf(q) : db'[t] = db[t]
    BY <1>2
  <2>2. CASE q = r
    BY <2>1, <2>2 DEF Absent
  <2>3. CASE q # r
    <3>1. \A t \in TasksOf(r) : db'[t] = db[t]
      BY <1>1, <2>1, <2>3, FreshTasksAssumption
    <3> QED BY <3>1
  <2> QED BY <2>2, <2>3
<1>3. CASE \E t \in Tasks :
             /\ db[t].status = "QUEUED" /\ \A u \in Tasks \ {t} : db'[u] = db[u]
             /\ db'[t].status \in {"SUCCESS", "FAILED"} /\ db'[t].response # "none"
  BY <1>1, <1>3
<1> QED BY <1>2, <1>3 DEF RowsMove

\* The counts get_scan_progress reports never fall but for pending, and pending
\* never rises once a request has rows: its rows come in one transaction, and
\* _save_response takes one row out of pending into one verdict.
THEOREM ProgressHolds == Spec => ProgressNeverRegresses
<1>1. ASSUME Fresh, Judged, RowsMove, NEW r \in Requests
      PROVE  LET before == Progress(TasksOf(r))
                 after  == Progress(TasksOf(r))'
             IN /\ after.completed >= before.completed
                /\ after.failed >= before.failed
                /\ before.total > 0 => after.pending <= before.pending
  <2> DEFINE Had(S) == {t \in TasksOf(r) : db[t].status \in S}
             Has(S) == {t \in TasksOf(r) : db'[t].status \in S}
  <2>1. IsFiniteSet(TasksOf(r))
    BY TasksOfFinite
  <2>2. ASSUME NEW A \in SUBSET TasksOf(r), NEW B \in SUBSET TasksOf(r), A \subseteq B
        PROVE  Cardinality(A) <= Cardinality(B)
    BY <2>1, <2>2, FS_Subset
  <2>3. Had({"SUCCESS"}) \subseteq Has({"SUCCESS"}) /\ Had({"FAILED"}) \subseteq Has({"FAILED"})
    BY <1>1, CountedRows
  <2>4. /\ Cardinality(Has({"SUCCESS"})) >= Cardinality(Had({"SUCCESS"}))
        /\ Cardinality(Has({"FAILED"})) >= Cardinality(Had({"FAILED"}))
    BY <2>1, <2>3, FS_Subset, FS_CardinalityType
  <2>5. ASSUME Cardinality(Had(TaskStatus)) > 0
        PROVE  Cardinality(Has({"QUEUED"})) <= Cardinality(Had({"QUEUED"}))
    <3>1. Had(TaskStatus) # {}
      <4>1. PICK had : had = Had(TaskStatus)
        OBVIOUS
      <4> HIDE DEF Had
      <4>2. Cardinality(had) > 0
        BY <2>5, <4>1
      <4>3. had # {}
        BY <4>2, FS_EmptySet
      <4> QED BY <4>1, <4>3
    <3>2. ~ \A t \in TasksOf(r) : db[t].status = "ABSENT"
      BY <3>1 DEF TaskStatus
    <3>3. Has({"QUEUED"}) \subseteq Had({"QUEUED"})
      BY <1>1, <3>2, CountedRows
    <3> QED BY <2>2, <3>3
  <2>6. Progress(TasksOf(r)).total = Cardinality(Had(TaskStatus))
        /\ Progress(TasksOf(r)).completed = Cardinality(Had({"SUCCESS"}))
        /\ Progress(TasksOf(r)).failed = Cardinality(Had({"FAILED"}))
        /\ Progress(TasksOf(r)).pending = Cardinality(Had({"QUEUED"}))
        /\ Progress(TasksOf(r))'.completed = Cardinality(Has({"SUCCESS"}))
        /\ Progress(TasksOf(r))'.failed = Cardinality(Has({"FAILED"}))
        /\ Progress(TasksOf(r))'.pending = Cardinality(Has({"QUEUED"}))
    BY DEF Progress, WithStatus
  <2> HIDE DEF Had, Has
  <2> QED BY <2>4, <2>5, <2>6
<1>2. Init => IInv /\ DelayedFinite /\ Fresh /\ Judged
  BY InitIInv, InitDelayedFinite, InitFresh DEF Init, StoreInit, Judged, Absent
<1>3. (IInv /\ DelayedFinite /\ Fresh /\ Judged) /\ [Next]_vars
        => (IInv /\ DelayedFinite /\ Fresh /\ Judged)' /\ RowsMove
  BY StepIInv, StepDelayedFinite, StepFresh, StepRows, StepJudged
<1>4. (IInv /\ DelayedFinite /\ Fresh /\ Judged) /\ [Next]_vars
        => [\A r \in Requests :
              LET before == Progress(TasksOf(r))
                  after  == Progress(TasksOf(r))'
              IN /\ after.completed >= before.completed
                 /\ after.failed >= before.failed
                 /\ before.total > 0 => after.pending <= before.pending]_vars
  BY <1>1, <1>3
<1> QED BY <1>2, <1>3, <1>4, PTL DEF Spec, ProgressNeverRegresses

-----------------------------------------------------------------------------
(* Every attempt that is counted was sent, as long as no worker is asked   *)
(* to stop: a client that stop() has closed fails attempts unsent.  The    *)
(* strengthening follows a payload through the read of due members and     *)
(* through the steps of its coroutine.                                     *)

Sent(p) == p.attempt <= hits[p.task]

Backed(w) ==
  /\ w.pc = "new" => Sent(w.payload)
  /\ w.pc \in {"http", "save", "retry"} => w.payload.attempt < hits[w.payload.task]
  /\ w.pc = "save" /\ w.ok => w.payload.task \in answered

Serving ==
  \A e \in Engines :
    /\ stopper[e] = "none"
    /\ loop[e] # "off" => httpOpen[e]
    /\ loop[e] = "off" => \A j \in Jobs : job[e][j] = Idle

BatchesSent == \A e \in Engines : \A p \in ToSet(batch[e]) : Sent(p)

JobsBacked == \A e \in Engines, j \in Jobs : job[e][j] # Idle => Backed(job[e][j])

SInv == Serving /\ AttemptsWereSent /\ BatchesSent /\ JobsBacked /\ VerdictsAreReal

\* The initial state satisfies the invariant.
LEMMA InitSInv == Init => SInv
<1> SUFFICES ASSUME Init PROVE SInv
  OBVIOUS
<1>1. ToSet(<<>>) = {}
  BY DEF ToSet
<1>2. Serving /\ JobsBacked
  BY DEF Init, EngineInit, NoJobs, Serving, JobsBacked
<1>3. AttemptsWereSent /\ BatchesSent
  BY <1>1 DEF Init, QueueInit, EngineInit, AttemptsWereSent, BatchesSent
<1>4. VerdictsAreReal
  BY DEF Init, StoreInit, Absent, VerdictsAreReal
<1> QED BY <1>2, <1>3, <1>4 DEF SInv

\* A worker only adds to what the outside world has seen.
LEMMA WorldGrows ==
  ASSUME IInv, [Next]_vars
  PROVE  /\ \A t \in Tasks : hits[t] \in Nat /\ hits'[t] \in Nat /\ hits[t] <= hits'[t]
         /\ answered \subseteq answered'
<1>0. hits \in [Tasks -> Nat]
  BY DEF IInv, TypeOK, EngineTypeOK
<1>1. ASSUME NEW e \in Engines, NEW j \in Jobs, JobStep(e, j)
      PROVE  /\ \/ hits' = hits
                \/ hits' = [hits EXCEPT ![job[e][j].payload.task] = @ + 1]
             /\ answered \subseteq answered'
  <2>1. CASE SendRequest(e, j)
    BY <2>1 DEF SendRequest
  <2>2. CASE Answer(e, j)
    BY <2>2 DEF Answer
  <2>3. CASE Save(e, j) \/ ScheduleRetry(e, j) \/ DeadLetter(e, j)
    BY <2>3 DEF Save, ScheduleRetry, DeadLetter, worldVars
  <2> QED BY <1>1, <2>1, <2>2, <2>3 DEF JobStep
<1>2. ASSUME NEW e \in Engines, LoopStep(e) \/ ProcessStep(e)
      PROVE  hits' = hits /\ answered' = answered
  BY <1>2 DEF LoopStep, ProcessStep, Acquire, Block, ReadDue, MoveDue, Pop,
              PopNothing, Start, Exit, Crash, Vanish, Signal, StopHeartbeat,
              CloseClient, worldVars
<1>3. ASSUME \/ \E s \in Scans : PostScan(s)
             \/ \E r \in Requests : ApiStep(r) \/ ApiCrash(r)
             \/ \E p \in waiting : UNCHANGED <<storeVars, engineVars, api>>
             \/ UNCHANGED vars
      PROVE  hits' = hits /\ answered' = answered
  BY <1>3 DEF PostScan, ApiStep, SubmitTasks, PublishHigh, PublishStandard, ApiCrash,
              vars, engineVars, worldVars
<1>4. \/ hits' = hits
      \/ \E u : hits' = [hits EXCEPT ![u] = @ + 1]
  BY <1>1, <1>2, <1>3 DEF Next, EngineNext
<1>5. answered \subseteq answered'
  BY <1>1, <1>2, <1>3 DEF Next, EngineNext
<1>6. \A t \in Tasks : hits[t] \in Nat /\ hits'[t] \in Nat /\ hits[t] <= hits'[t]
  BY <1>0, <1>4
<1> QED BY <1>5, <1>6

\* Hence what was sent stays sent.
LEMMA SentStays ==
  ASSUME IInv, [Next]_vars
  PROVE  /\ \A p \in Payload : Sent(p) => Sent(p)'
         /\ \A w \in JobState : w # Idle /\ Backed(w) => Backed(w)'
<1>1. \A p \in Payload : p.attempt \in Nat /\ p.task \in Tasks
  BY DEF Payload
<1>2. \A p \in Payload : Sent(p) => Sent(p)'
  BY <1>1, WorldGrows DEF Sent
<1>3. ASSUME NEW w \in JobState, w # Idle, Backed(w)
      PROVE  Backed(w)'
  <2>1. w.payload \in Payload
    BY <1>3 DEF JobState
  <2>2. w.payload.attempt < hits[w.payload.task]
          => w.payload.attempt < hits'[w.payload.task]
    BY <1>1, <2>1, WorldGrows
  <2>3. w.payload.task \in answered => w.payload.task \in answered'
    BY WorldGrows
  <2> QED BY <1>2, <1>3, <2>1, <2>2, <2>3 DEF Backed
<1> QED BY <1>2, <1>3

\* Without signals no client is closed while its worker runs.
LEMMA ServingStep ==
  ASSUME "signal" \notin Faults, IInv, Serving, [Next]_vars
  PROVE  Serving'
<1> USE DEF Serving
<1>0. /\ loop \in [Engines -> {"off", "top", "blocked", "poll", "move", "pop"}]
      /\ httpOpen \in [Engines -> BOOLEAN]
      /\ job \in [Engines -> [Jobs -> JobState]]
      /\ stopper \in [Engines -> {"none", "heartbeat", "close", "gather", "failed"}]
  BY DEF IInv, TypeOK, EngineTypeOK
<1>1. ASSUME NEW e \in Engines, ProcessStep(e)
      PROVE  Serving'
  <2>1. CASE Start(e)
    BY <1>0, <2>1 DEF Start
  <2>2. CASE Vanish(e)
    BY <1>0, <2>2 DEF Vanish, NoJobs
  <2> QED BY <1>1, <2>1, <2>2
          DEF ProcessStep, Exit, Crash, Signal, StopHeartbeat, CloseClient, Fault
<1>2. ASSUME NEW e \in Engines, LoopStep(e)
      PROVE  Serving'
  <2>1. /\ stopper' = stopper /\ httpOpen' = httpOpen
        /\ loop[e] # "off"
        /\ \E pc \in {"top", "blocked", "poll", "move", "pop"} :
             loop' = [loop EXCEPT ![e] = pc]
        /\ job' = job \/ \E j \in Jobs : \E w : job' = [job EXCEPT ![e][j] = w]
    BY <1>2 DEF LoopStep, Acquire, Block, ReadDue, MoveDue, Pop, PopNothing
  <2>2. loop'[e] # "off" /\ \A f \in Engines \ {e} : loop'[f] = loop[f]
    BY <1>0, <2>1
  <2>3. \A f \in Engines \ {e} : job'[f] = job[f]
    BY <1>0, <2>1
  <2> QED BY <2>1, <2>2, <2>3
<1>3. ASSUME NEW e \in Engines, NEW j \in Jobs, JobStep(e, j)
      PROVE  Serving'
  <2>1. loop' = loop /\ stopper' = stopper /\ httpOpen' = httpOpen
    BY <1>3 DEF JobStep, SendRequest, Answer, Save, ScheduleRetry, DeadLetter
  <2>2. \E w : job' = [job EXCEPT ![e][j] = w]
    BY <1>3 DEF JobStep, SendRequest, Answer, Save, AfterSave, ScheduleRetry,
                DeadLetter, Continue, Finish
  <2>3. job[e][j] # Idle
    BY <1>3, StepOfBusyJob
  <2>4. \A f \in Engines \ {e} : job'[f] = job[f]
    BY <1>0, <2>2
  <2> QED BY <2>1, <2>3, <2>4
<1>4. CASE UNCHANGED <<loop, httpOpen, job, stopper>>
  BY <1>4
<1>5. ASSUME \/ \E s \in Scans : PostScan(s)
             \/ \E r \in Requests : ApiStep(r) \/ ApiCrash(r)
             \/ \E p \in waiting : UNCHANGED <<storeVars, engineVars, api>>
             \/ UNCHANGED vars
      PROVE  UNCHANGED <<loop, httpOpen, job, stopper>>
  BY <1>5 DEF PostScan, ApiStep, SubmitTasks, PublishHigh, PublishStandard, ApiCrash,
              vars, engineVars
<1> QED BY <1>1, <1>2, <1>3, <1>4, <1>5 DEF Next, EngineNext

\* The payloads a step can add to the list or the sorted set were sent.
LEMMA AttemptsStep ==
  ASSUME IInv, DelayedFinite, SInv, [Next]_vars
  PROVE  AttemptsWereSent'
<1> DEFINE Live == ToSet(queue) \cup waiting \cup due
<1>0. /\ Live \subseteq Payload
      /\ \A e \in Engines : ToSet(batch[e]) \subseteq Payload
  BY ElementOfSeq, LenProperties DEF IInv, TypeOK, QueueTypeOK, EngineTypeOK, ToSet
<1>1. \A p \in Live : Sent(p)'
  BY <1>0, SentStays DEF SInv, AttemptsWereSent, Sent
<1>2. \A e \in Engines : \A p \in ToSet(batch[e]) : Sent(p)'
  BY <1>0, SentStays DEF SInv, BatchesSent
<1>3. SUFFICES \A p \in Live' : Sent(p)'
  BY DEF AttemptsWereSent, Sent
<1>q. queue \in Seq(Payload)
  BY DEF IInv, TypeOK, QueueTypeOK
<1>4. CASE Live' \subseteq Live
  BY <1>1, <1>4
<1>5. ASSUME NEW e \in Engines, MoveDue(e)
      PROVE  Live' \subseteq Live \cup ToSet(batch[e])
  <2>1. batch[e] \in Seq(Payload)
    BY DEF IInv, TypeOK, EngineTypeOK
  <2>2. ToSet(queue \o batch[e]) = ToSet(queue) \cup ToSet(batch[e])
    BY <1>q, <2>1, ConcatElements
  <2>3. waiting' = waiting /\ due' \subseteq due /\ queue' \in {queue, queue \o batch[e]}
    BY <1>5 DEF MoveDue, MoveDueTasks, RPush, queueVars
  <2> QED BY <2>2, <2>3
<1>6. ASSUME NEW e \in Engines, Pop(e) \/ PopNothing(e)
      PROVE  Live' \subseteq Live
  <2>1. waiting' = waiting /\ due' = due
    BY <1>6 DEF Pop, PopNothing
  <2>2. \/ queue' = queue
        \/ queue # <<>> /\ queue' = Tail(queue)
    BY <1>6 DEF Pop, PopNothing
  <2>3. ToSet(queue') \subseteq ToSet(queue)
    BY <1>q, <2>2, HeadTailElements
  <2> QED BY <2>1, <2>3
<1>7. ASSUME NEW e \in Engines, NEW j \in Jobs, ScheduleRetry(e, j)
      PROVE  \A p \in Live' : Sent(p)'
  <2>1. job[e][j] # Idle /\ job[e][j].pc = "retry"
    BY <1>7 DEF ScheduleRetry, At, Idle
  <2>2. PICK p \in Payload : p = job[e][j].payload
    BY <2>1 DEF IInv, TypeOK, EngineTypeOK, JobState
  <2>3. PICK q \in Payload : q = [p EXCEPT !.attempt = @ + 1]
    BY RetryPayload
  <2>4. p.attempt < hits[p.task]
    BY <2>1, <2>2 DEF SInv, JobsBacked, Backed
  <2>5. Sent(q)
    <3>1. p.task \in Tasks /\ p.attempt \in Nat /\ hits[p.task] \in Nat
      BY WorldGrows DEF Payload
    <3>2. q.task = p.task /\ q.attempt = p.attempt + 1
      BY <2>3 DEF Payload
    <3> QED BY <2>4, <3>1, <3>2 DEF Sent
  <2>6. Live' \subseteq Live \cup {q}
    BY <1>7, <2>2, <2>3 DEF ScheduleRetry, ZAdd
  <2>7. Sent(q)'
    BY <2>5, SentStays
  <2> QED BY <1>1, <2>6, <2>7
<1>8. ASSUME NEW r \in Requests, PublishHigh(r) \/ PublishStandard(r)
      PROVE  \A p \in Live' : Sent(p)'
  <2> DEFINE Fst == {FirstAttempt(t) : t \in Tasks}
  <2>1. \A p \in Fst : Sent(p)'
    BY WorldGrows DEF FirstAttempt, Sent
  <2>2. ASSUME NEW ts \in Seq(Tasks)
        PROVE  ToSet(Payloads(ts)) \subseteq Fst
    BY ElementOfSeq, LenProperties DEF Payloads, ToSet
  <2>3. High[r] \in Seq(Tasks) /\ Standard[r] \in Seq(Tasks)
    BY RequestsAssumption
  <2>4. ToSet(queue') \subseteq ToSet(queue) \cup Fst
    <3>1. /\ Payloads(High[r]) \in Seq(Payload)
          /\ Payloads(Standard[r]) \in Seq(Payload)
          /\ Reverse(Payloads(High[r])) \in Seq(Payload)
      BY <2>3, PayloadsType
    <3>2. ToSet(Reverse(Payloads(High[r])) \o queue) \subseteq ToSet(queue) \cup Fst
      BY <1>q, <2>2, <2>3, <3>1, ConcatElements, ReverseElements
    <3>3. ToSet(queue \o Payloads(Standard[r])) \subseteq ToSet(queue) \cup Fst
      BY <1>q, <2>2, <2>3, <3>1, ConcatElements
    <3>4. \/ queue' = queue
          \/ queue' = Reverse(Payloads(High[r])) \o queue
          \/ queue' = queue \o Payloads(Standard[r])
      BY <1>8 DEF PublishHigh, PublishStandard, LPush, RPush
    <3> QED BY <3>2, <3>3, <3>4
  <2>5. waiting' = waiting /\ due' = due
    BY <1>8 DEF PublishHigh, PublishStandard
  <2> QED BY <1>1, <2>1, <2>4, <2>5
<1>9. ASSUME \/ \E s \in Scans : PostScan(s)
             \/ \E r \in Requests : SubmitTasks(r) \/ ApiCrash(r)
             \/ UNCHANGED vars
      PROVE  Live' \subseteq Live
  BY <1>9 DEF PostScan, SubmitTasks, ApiCrash, vars, queueVars
<1>10. ASSUME NEW p \in waiting, BecomeDue(p)
       PROVE  Live' \subseteq Live
  BY <1>10 DEF BecomeDue
<1>11. ASSUME NEW e \in Engines,
              \/ LoopStep(e) /\ ~MoveDue(e) /\ ~Pop(e) /\ ~PopNothing(e)
              \/ ProcessStep(e)
              \/ \E j \in Jobs : JobStep(e, j) /\ ~ScheduleRetry(e, j)
       PROVE  Live' \subseteq Live
  BY <1>11 DEF LoopStep, ProcessStep, JobStep, Acquire, Block, ReadDue, Start, Exit,
               Crash, Vanish, Signal, StopHeartbeat, CloseClient, SendRequest, Answer,
               Save, DeadLetter, queueVars
<1> HIDE DEF Live
<1>12. ASSUME NEW e \in Engines, MoveDue(e) PROVE \A p \in Live' : Sent(p)'
  BY <1>1, <1>2, <1>5, <1>12
<1> QED BY <1>4, <1>6, <1>7, <1>8, <1>9, <1>10, <1>11, <1>12
        DEF Next, EngineNext, LoopStep, ApiStep

\* A batch is read from the due members.
LEMMA BatchesStep ==
  ASSUME IInv, DelayedFinite, SInv, [Next]_vars
  PROVE  BatchesSent'
<1>0. /\ batch \in [Engines -> Seq(Payload)] /\ due \subseteq Payload
      /\ \A e \in Engines : ToSet(batch[e]) \subseteq Payload
  BY ElementOfSeq, LenProperties DEF IInv, TypeOK, QueueTypeOK, EngineTypeOK, ToSet
<1>1. \A e \in Engines : \A p \in ToSet(batch[e]) : Sent(p)'
  BY <1>0, SentStays DEF SInv, BatchesSent
<1>2. \A p \in due : Sent(p)'
  BY <1>0, SentStays DEF SInv, AttemptsWereSent, Sent
<1>3. SUFFICES ASSUME NEW f \in Engines, NEW p \in ToSet(batch'[f])
               PROVE  Sent(p)'
  BY DEF BatchesSent
<1>4. CASE batch'[f] = batch[f]
  BY <1>1, <1>3, <1>4
<1>5. CASE batch'[f] = <<>>
  BY <1>3, <1>5 DEF ToSet
<1>6. ASSUME NEW ps \in DueReplies, batch'[f] = ps
      PROVE  Sent(p)'
  <2>1. \A i \in DOMAIN ps : ps[i] \in due
    BY <1>6 DEF DueReplies
  <2>2. p \in due
    BY <1>3, <1>6, <2>1 DEF ToSet
  <2> QED BY <1>2, <2>2
<1>7. ASSUME NEW e \in Engines, LoopStep(e) \/ ProcessStep(e)
      PROVE  \/ batch'[f] = batch[f]
             \/ batch'[f] = <<>>
             \/ \E ps \in DueReplies : batch'[f] = ps
  <2>1. \/ batch' = batch
        \/ batch' = [batch EXCEPT ![e] = <<>>]
        \/ \E ps \in DueReplies : batch' = [batch EXCEPT ![e] = ps]
    BY <1>7 DEF LoopStep, ProcessStep, Acquire, Block, ReadDue, MoveDue, Pop,
                PopNothing, Start, Exit, Crash, Vanish, Signal, StopHeartbeat,
                CloseClient
  <2> QED BY <1>0, <2>1
<1>8. ASSUME NEW e \in Engines, NEW j \in Jobs, JobStep(e, j)
      PROVE  batch' = batch
  BY <1>8 DEF JobStep, SendRequest, Answer, Save, ScheduleRetry, DeadLetter
<1>9. ASSUME \/ \E s \in Scans : PostScan(s)
             \/ \E r \in Requests : ApiStep(r) \/ ApiCrash(r)
             \/ \E q \in waiting : UNCHANGED <<storeVars, engineVars, api>>
             \/ UNCHANGED vars
      PROVE  batch' = batch
  BY <1>9 DEF PostScan, ApiStep, SubmitTasks, PublishHigh, PublishStandard, ApiCrash,
              vars, engineVars
<1> QED BY <1>4, <1>5, <1>6, <1>7, <1>8, <1>9 DEF Next, EngineNext

\* A coroutine is born with a payload of the list, and counts its attempt as
\* sent from the moment it has sent it.
LEMMA JobsStep ==
  ASSUME "signal" \notin Faults, IInv, DelayedFinite, SInv, [Next]_vars
  PROVE  JobsBacked'
<1>0. /\ job \in [Engines -> [Jobs -> JobState]]
      /\ \A e \in Engines, j \in Jobs : job[e][j] \in JobState
      /\ queue \in Seq(Payload) /\ hits \in [Tasks -> Nat]
  BY DEF IInv, TypeOK, QueueTypeOK, EngineTypeOK
<1>1. \A e \in Engines, j \in Jobs : job[e][j] # Idle => Backed(job[e][j])
  BY DEF SInv, JobsBacked
<1>2. SUFFICES ASSUME NEW f \in Engines, NEW k \in Jobs, NEW v,
                      v = job'[f][k], v # Idle
               PROVE  Backed(v)'
  BY DEF JobsBacked, Backed, Sent
<1>3. CASE v = job[f][k]
  BY <1>0, <1>1, <1>2, <1>3, SentStays
<1>4. ASSUME NEW e \in Engines, Pop(e), v # job[f][k]
      PROVE  Backed(v)'
  <2>1. Head(queue) \in ToSet(queue) /\ Head(queue) \in Payload
    BY <1>0, <1>4, HeadTailElements, HeadTailProperties DEF Pop
  <2>2. v = [pc |-> "new", payload |-> Head(queue), ok |-> FALSE]
    BY <1>0, <1>2, <1>4 DEF Pop
  <2>3. Sent(Head(queue))
    BY <2>1 DEF SInv, AttemptsWereSent, Sent
  <2>4. v \in JobState /\ v # Idle
    BY <2>1, <2>2 DEF JobState, JobSteps, Idle
  <2>5. Backed(v)
    BY <2>2, <2>3 DEF Backed
  <2> QED BY <2>4, <2>5, SentStays
<1>5. ASSUME NEW e \in Engines, NEW j \in Jobs, JobStep(e, j), v # job[f][k]
      PROVE  Backed(v)'
  <2>1. PICK w \in JobState : w = job[e][j]
    BY <1>0
  <2>2. w # Idle /\ Backed(w) /\ Backed(w)' /\ w.payload \in Payload
    BY <1>1, <1>5, <2>1, StepOfBusyJob, SentStays DEF JobState
  <2>3. CASE Finish(e, j)
    BY <1>0, <1>2, <1>5, <2>3 DEF Finish
  <2>4. ASSUME NEW pc, NEW ok, Continue(e, j, pc, ok)
        PROVE  v = [pc |-> pc, payload |-> w.payload, ok |-> ok]
    BY <1>0, <1>2, <1>5, <2>1, <2>4 DEF Continue
  <2>5. CASE SendRequest(e, j)
    <3>1. httpOpen[e]
      BY <2>1, <2>2 DEF SInv, Serving
    <3>2. v = [pc |-> "http", payload |-> w.payload, ok |-> FALSE]
      BY <2>4, <2>5, <3>1 DEF SendRequest
    <3>3. w.payload.attempt <= hits[w.payload.task]
      BY <2>1, <2>2, <2>5 DEF SendRequest, At, Backed, Sent
    <3>4. hits' = [hits EXCEPT ![w.payload.task] = @ + 1]
      BY <2>1, <2>5, <3>1 DEF SendRequest
    <3>5. w.payload.attempt \in Nat /\ w.payload.task \in Tasks
      BY <2>2 DEF Payload
    <3>6. w.payload.attempt < hits'[w.payload.task]
      BY <1>0, <3>3, <3>4, <3>5
    <3> QED BY <3>2, <3>6 DEF Backed
  <2>6. CASE Answer(e, j)
    <3>1. PICK ok \in BOOLEAN :
            /\ v = [pc |-> "save", payload |-> w.payload, ok |-> ok]
            /\ ok => w.payload.task \in answered'
      BY <2>1, <2>4, <2>6 DEF Answer
    <3>2. w.payload.attempt < hits'[w.payload.task]
      BY <2>1, <2>2, <2>6 DEF Answer, At, Backed
    <3> QED BY <3>1, <3>2 DEF Backed
  <2>7. CASE Save(e, j) /\ ~Finish(e, j)
    <3>1. \E pc \in {"retry", "dlq"} : \E ok :
            v = [pc |-> pc, payload |-> w.payload, ok |-> ok]
      BY <2>4, <2>7 DEF Save, AfterSave
    <3>2. w.payload.attempt < hits'[w.payload.task]
      BY <2>1, <2>2, <2>7 DEF Save, At, Backed
    <3> QED BY <3>1, <3>2 DEF Backed
  <2> QED BY <1>5, <2>3, <2>5, <2>6, <2>7 DEF JobStep, ScheduleRetry, DeadLetter
<1>6. ASSUME NEW e \in Engines, ProcessStep(e)
      PROVE  v = job[f][k] \/ v = Idle
  <2>1. job' = job \/ job' = [job EXCEPT ![e] = NoJobs]
    BY <1>6 DEF ProcessStep, Start, Exit, Crash, Vanish, Signal, StopHeartbeat,
                CloseClient
  <2> QED BY <1>0, <1>2, <2>1 DEF NoJobs
<1>7. ASSUME NEW e \in Engines, LoopStep(e), ~Pop(e)
      PROVE  v = job[f][k]
  BY <1>2, <1>7 DEF LoopStep, Acquire, Block, ReadDue, MoveDue, PopNothing
<1>8. ASSUME \/ \E s \in Scans : PostScan(s)
             \/ \E r \in Requests : ApiStep(r) \/ ApiCrash(r)
             \/ \E q \in waiting : UNCHANGED <<storeVars, engineVars, api>>
             \/ UNCHANGED vars
      PROVE  v = job[f][k]
  BY <1>2, <1>8 DEF PostScan, ApiStep, SubmitTasks, PublishHigh, PublishStandard, ApiCrash,
              vars, engineVars
<1> QED BY <1>2, <1>3, <1>4, <1>5, <1>6, <1>7, <1>8 DEF Next, EngineNext

\* A row takes its verdict from an execution that was sent, and SUCCESS from one
\* that was answered.
LEMMA VerdictsStep ==
  ASSUME IInv, SInv, [Next]_vars
  PROVE  VerdictsAreReal'
<1>0. db \in [Tasks -> Row] /\ job \in [Engines -> [Jobs -> JobState]]
  BY DEF IInv, TypeOK, StoreTypeOK, EngineTypeOK
<1>1. SUFFICES ASSUME NEW t \in Tasks
               PROVE  /\ db'[t].status = "SUCCESS" =>
                           t \in answered' /\ db'[t].response = "body"
                      /\ db'[t].status = "FAILED" => hits'[t] > 0
  BY DEF VerdictsAreReal
<1>2. CASE db'[t] = db[t]
  <2>1. /\ hits[t] \in Nat /\ hits'[t] \in Nat /\ hits[t] <= hits'[t]
        /\ answered \subseteq answered'
    BY WorldGrows
  <2> QED BY <1>2, <2>1 DEF SInv, VerdictsAreReal
<1>3. CASE db'[t] = NewRow
  BY <1>3 DEF NewRow
<1>4. ASSUME NEW e \in Engines, NEW j \in Jobs, Save(e, j), db'[t] # db[t]
      PROVE  /\ db'[t].status = "SUCCESS" =>
                  t \in answered' /\ db'[t].response = "body"
             /\ db'[t].status = "FAILED" => hits'[t] > 0
  <2>1. PICK w \in JobState : w = job[e][j]
    BY <1>0
  <2>2. w.pc = "save" /\ w # Idle /\ Backed(w)
    BY <1>4, <2>1 DEF Save, At, Idle, SInv, JobsBacked
  <2>3. w.payload.task \in Tasks /\ w.payload.attempt \in Nat
    BY <2>2 DEF JobState, Payload
  <2>4. SaveResponse(w.payload.task, w.ok)
    BY <1>4, <2>1 DEF Save, storeVars
  <2>5. db' = [db EXCEPT ![w.payload.task] =
                 [status |-> IF w.ok THEN "SUCCESS" ELSE "FAILED",
                  attempts |-> @.attempts + 1,
                  response |-> IF w.ok THEN "body" ELSE "error"]]
    BY <1>4, <2>4 DEF SaveResponse
  <2>6. t = w.payload.task
    BY <1>0, <1>4, <2>3, <2>5
  <2>7. /\ db'[t].status = IF w.ok THEN "SUCCESS" ELSE "FAILED"
        /\ db'[t].response = IF w.ok THEN "body" ELSE "error"
    BY <1>0, <2>5, <2>6
  <2>8. hits' = hits /\ answered' = answered
    BY <1>4 DEF Save, worldVars
  <2>9. hits[t] \in Nat /\ w.payload.attempt < hits[t]
    BY <2>2, <2>6, WorldGrows DEF Backed
  <2>10. w.ok => t \in answered
    BY <2>2, <2>6 DEF Backed
  <2>11. hits[t] > 0
    BY <2>3, <2>9
  <2> QED BY <2>7, <2>8, <2>10, <2>11
<1>5. ASSUME NEW e \in Engines,
             \/ LoopStep(e) \/ ProcessStep(e)
             \/ \E j \in Jobs : JobStep(e, j) /\ ~Save(e, j)
      PROVE  db' = db
  BY <1>5 DEF LoopStep, ProcessStep, JobStep, Acquire, Block, ReadDue, MoveDue, Pop,
              PopNothing, Start, Exit, Crash, Vanish, Signal, StopHeartbeat,
              CloseClient, SendRequest, Answer, ScheduleRetry, DeadLetter, storeVars
<1>6. ASSUME NEW r \in Requests, ApiStep(r) \/ ApiCrash(r)
      PROVE  db'[t] = db[t] \/ db'[t] = NewRow
  BY <1>6 DEF ApiStep, SubmitTasks, InsertTasks, PublishHigh, PublishStandard,
              ApiCrash, storeVars
<1>7. ASSUME \/ \E s \in Scans : PostScan(s)
             \/ \E p \in waiting : UNCHANGED <<storeVars, engineVars, api>>
             \/ UNCHANGED vars
      PROVE  db' = db
  BY <1>7 DEF PostScan, CreateScan, vars, storeVars
<1> QED BY <1>2, <1>3, <1>4, <1>5, <1>6, <1>7 DEF Next, EngineNext

\* Without signals the invariant always holds.
LEMMA SentInv ==
  ASSUME "signal" \notin Faults
  PROVE  Spec => []SInv
<1>1. Init => IInv /\ DelayedFinite /\ SInv
  BY InitIInv, InitDelayedFinite, InitSInv
<1>2. ASSUME IInv, DelayedFinite, SInv, [Next]_vars
      PROVE  SInv'
  <2>1. Serving'
    BY <1>2, ServingStep DEF SInv
  <2>2. AttemptsWereSent' /\ BatchesSent' /\ JobsBacked' /\ VerdictsAreReal'
    BY <1>2, AttemptsStep, BatchesStep, JobsStep, VerdictsStep
  <2> QED BY <2>1, <2>2 DEF SInv
<1>3. (IInv /\ DelayedFinite /\ SInv) /\ [Next]_vars
        => (IInv /\ DelayedFinite /\ SInv)'
  BY <1>2, StepIInv, StepDelayedFinite
<1> QED BY <1>1, <1>3, PTL DEF Spec

\* Without signals no retry is counted that was not sent to the target: the
\* duplicates racing consumers make, lost replies and crashes included.
THEOREM AttemptsSent ==
  ASSUME "signal" \notin Faults
  PROVE  Spec => []AttemptsWereSent
<1>1. SInv => AttemptsWereSent
  BY DEF SInv
<1> QED BY <1>1, SentInv, PTL

\* Without signals a status get_scan_progress counts as completed or failed is
\* one the target gave.
THEOREM VerdictsGiven ==
  ASSUME "signal" \notin Faults
  PROVE  Spec => []VerdictsAreReal
<1>1. SInv => VerdictsAreReal
  BY DEF SInv
<1> QED BY <1>1, SentInv, PTL

-----------------------------------------------------------------------------
(* The dead letter list.  Only the outer except block of _process_payload  *)
(* sends a payload there before its retries are used up, and it needs a    *)
(* rollback that raises.                                                   *)

NoneFailing == \A e \in Engines, j \in Jobs : job[e][j] # Idle => ~At(e, j, "dlq")

\* Unless a rollback raises, no coroutine goes to the dead letter list before its last retry.
LEMMA NoneFailingInv ==
  ASSUME "rollback" \notin Faults
  PROVE  Spec => [](NoneFailing /\ DeadLettersExhausted)
<1> DEFINE Inv == NoneFailing /\ DeadLettersExhausted
<1>1. Init => Inv
  BY DEF Init, QueueInit, EngineInit, NoJobs, NoneFailing, DeadLettersExhausted
<1>2. ASSUME IInv, Inv, [Next]_vars
      PROVE  NoneFailing'
  <2>0. job \in [Engines -> [Jobs -> JobState]]
    BY <1>2 DEF IInv, TypeOK, EngineTypeOK
  <2>1. SUFFICES ASSUME NEW f \in Engines, NEW k \in Jobs, job'[f][k] # Idle
                 PROVE  job'[f][k].pc # "dlq"
    BY DEF NoneFailing, At
  <2>2. CASE job'[f][k] = job[f][k]
    BY <1>2, <2>1, <2>2 DEF NoneFailing, At
  <2>3. ASSUME NEW e \in Engines, LoopStep(e) \/ ProcessStep(e), job'[f][k] # job[f][k]
        PROVE  job'[f][k].pc # "dlq"
    <3>1. CASE Pop(e)
      BY <2>0, <2>3, <3>1 DEF Pop
    <3>2. CASE ~Pop(e)
      <4>1. job' = job \/ job' = [job EXCEPT ![e] = NoJobs]
        BY <2>3, <3>2 DEF LoopStep, ProcessStep, Acquire, Block, ReadDue, MoveDue,
             PopNothing, Start, Exit, Crash, Vanish, Signal, StopHeartbeat, CloseClient
      <4> QED BY <2>0, <2>1, <2>3, <4>1 DEF NoJobs
    <3> QED BY <3>1, <3>2
  <2>4. ASSUME NEW e \in Engines, NEW j \in Jobs, JobStep(e, j), job'[f][k] # job[f][k]
        PROVE  job'[f][k].pc # "dlq"
    <3>1. CASE Finish(e, j)
      BY <2>0, <2>1, <2>4, <3>1 DEF Finish
    <3>2. ASSUME NEW pc \in {"http", "save", "retry"}, NEW ok, Continue(e, j, pc, ok)
          PROVE  job'[f][k].pc # "dlq"
      BY <2>0, <2>4, <3>2 DEF Continue
    <3> QED BY <2>4, <3>1, <3>2
            DEF JobStep, SendRequest, Answer, Save, AfterSave, ScheduleRetry,
                DeadLetter, Fault
  <2>5. ASSUME \/ \E s \in Scans : PostScan(s)
               \/ \E r \in Requests : ApiStep(r) \/ ApiCrash(r)
               \/ \E p \in waiting : UNCHANGED <<storeVars, engineVars, api>>
               \/ UNCHANGED vars
        PROVE  job' = job
    BY <2>5 DEF PostScan, ApiStep, SubmitTasks, PublishHigh, PublishStandard,
                ApiCrash, vars, engineVars
  <2> QED BY <1>2, <2>2, <2>3, <2>4, <2>5 DEF Next, EngineNext
<1>3. ASSUME IInv, Inv, [Next]_vars
      PROVE  DeadLettersExhausted'
  <2>0. /\ dlq \in Seq(Payload) /\ job \in [Engines -> [Jobs -> JobState]]
        /\ \A i \in DOMAIN dlq : dlq[i].attempt >= RetryCount[dlq[i].task]
    BY <1>3 DEF IInv, TypeOK, QueueTypeOK, EngineTypeOK, DeadLettersExhausted
  <2>1. CASE dlq' = dlq
    BY <2>0, <2>1 DEF DeadLettersExhausted
  <2>2. ASSUME NEW e \in Engines, NEW j \in Jobs, DeadLetter(e, j), dlq' # dlq
        PROVE  DeadLettersExhausted'
    <3>1. job[e][j] # Idle
      BY <2>2 DEF DeadLetter, At, Idle
    <3>2. PICK p \in Payload : p = job[e][j].payload
      BY <2>0, <3>1 DEF JobState
    <3>3. p.attempt >= RetryCount[p.task]
      BY <1>3, <2>2, <3>1, <3>2 DEF DeadLetter, NoneFailing
    <3>4. dlq' = Append(dlq, p)
      BY <2>2, <3>2 DEF DeadLetter, SendToDlq
    <3>5. /\ DOMAIN dlq = 1 .. Len(dlq) /\ DOMAIN dlq' = 1 .. Len(dlq) + 1
          /\ Len(dlq) \in Nat /\ dlq'[Len(dlq) + 1] = p
          /\ \A i \in 1 .. Len(dlq) : dlq'[i] = dlq[i]
      BY <2>0, <3>4, AppendProperties, LenProperties
    <3>6. \A i \in 1 .. Len(dlq) + 1 : i \in 1 .. Len(dlq) \/ i = Len(dlq) + 1
      BY <3>5
    <3> QED BY <2>0, <3>3, <3>5, <3>6 DEF DeadLettersExhausted
  <2>3. ASSUME NEW e \in Engines,
               \/ LoopStep(e) \/ ProcessStep(e)
               \/ \E j \in Jobs : JobStep(e, j) /\ ~DeadLetter(e, j)
        PROVE  dlq' = dlq
    BY <2>3 DEF LoopStep, ProcessStep, JobStep, Acquire, Block, ReadDue, MoveDue, Pop,
         PopNothing, Start, Exit, Crash, Vanish, Signal, StopHeartbeat, CloseClient,
         SendRequest, Answer, Save, ScheduleRetry, MoveDueTasks, queueVars
  <2>4. ASSUME \/ \E s \in Scans : PostScan(s)
               \/ \E r \in Requests : ApiStep(r) \/ ApiCrash(r)
               \/ \E p \in waiting : BecomeDue(p)
               \/ UNCHANGED vars
        PROVE  dlq' = dlq
    BY <2>4 DEF PostScan, ApiStep, SubmitTasks, PublishHigh, PublishStandard,
                ApiCrash, BecomeDue, vars, queueVars
  <2> QED BY <1>3, <2>1, <2>2, <2>3, <2>4 DEF Next, EngineNext
<1>4. (IInv /\ DelayedFinite /\ Inv) /\ [Next]_vars => (IInv /\ DelayedFinite /\ Inv)'
  BY <1>2, <1>3, StepIInv, StepDelayedFinite
<1>5. Init => IInv /\ DelayedFinite /\ Inv
  BY <1>1, InitIInv, InitDelayedFinite
<1> QED BY <1>4, <1>5, PTL DEF Spec

\* Without a rollback that raises a payload is dead only after its last retry.
THEOREM DeadAreExhausted ==
  ASSUME "rollback" \notin Faults
  PROVE  Spec => []DeadLettersExhausted
<1>1. NoneFailing /\ DeadLettersExhausted => DeadLettersExhausted
  OBVIOUS
<1> QED BY <1>1, NoneFailingInv, PTL

=============================================================================
