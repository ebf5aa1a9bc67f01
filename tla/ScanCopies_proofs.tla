------------------------- MODULE ScanCopies_proofs -------------------------
(***************************************************************************)
(* Proofs about where a task is: never in two places at once, and never    *)
(* nowhere before it is answered.  A task's place is the list, the sorted  *)
(* set, a coroutine or the dead letter list.                               *)
(***************************************************************************)
EXTENDS ScanExecution_proofs

-----------------------------------------------------------------------------
(* Sets of at most one element, and the positions of a task in a sequence  *)

AtMostOne(S) == \A x, y \in S : x = y

\* Such a set has no or one element.
LEMMA AtMostOneCardinality ==
  ASSUME NEW S, AtMostOne(S)
  PROVE  Cardinality(S) = IF S = {} THEN 0 ELSE 1
<1>1. CASE S = {}
  BY <1>1, FS_EmptySet
<1>2. CASE S # {}
  <2>1. PICK x : x \in S
    BY <1>2
  <2>2. S = {x}
    BY <2>1 DEF AtMostOne
  <2> QED BY <1>2, <2>2, FS_Singleton
<1> QED BY <1>1, <1>2

\* What BLPOP leaves of the list.
LEMMA PositionsInTail ==
  ASSUME NEW s \in Seq(Payload), s # <<>>, NEW t
  PROVE  /\ AtMostOne(InSeq(s, t)) => AtMostOne(InSeq(Tail(s), t))
         /\ InSeq(s, t) = {} => InSeq(Tail(s), t) = {} /\ Head(s).task # t
         /\ AtMostOne(InSeq(s, t)) /\ Head(s).task = t => InSeq(Tail(s), t) = {}
         /\ Head(s).task # t /\ InSeq(s, t) # {} => InSeq(Tail(s), t) # {}
<1>1. /\ Len(s) \in Nat \ {0} /\ DOMAIN s = 1 .. Len(s) /\ Head(s) = s[1]
      /\ DOMAIN Tail(s) = 1 .. Len(s) - 1
      /\ \A i \in 1 .. Len(s) - 1 : Tail(s)[i] = s[i + 1]
  BY EmptySeq, LenProperties, HeadTailProperties
<1>2. \A i \in InSeq(Tail(s), t) : i \in Int /\ i + 1 \in InSeq(s, t) /\ i + 1 # 1
  BY <1>1 DEF InSeq
<1>3. \A i \in InSeq(s, t) : i = 1 \/ i - 1 \in InSeq(Tail(s), t)
  <2>1. \A i \in 1 .. Len(s) : i = 1 \/ (i - 1 \in 1 .. Len(s) - 1 /\ (i - 1) + 1 = i)
    BY <1>1
  <2> QED BY <1>1, <2>1 DEF InSeq
<1>4. 1 \in InSeq(s, t) <=> Head(s).task = t
  BY <1>1 DEF InSeq
<1>5. AtMostOne(InSeq(s, t)) => AtMostOne(InSeq(Tail(s), t))
  <2> SUFFICES ASSUME AtMostOne(InSeq(s, t)),
                      NEW i \in InSeq(Tail(s), t), NEW k \in InSeq(Tail(s), t)
               PROVE  i = k
    BY DEF AtMostOne
  <2>1. i + 1 = k + 1 /\ i \in Int /\ k \in Int
    BY <1>2 DEF AtMostOne
  <2> QED BY <2>1
<1> QED BY <1>2, <1>3, <1>4, <1>5 DEF AtMostOne

\* What RPUSH and LPUSH make of the list.
LEMMA PositionsInConcat ==
  ASSUME NEW s \in Seq(Payload), NEW u \in Seq(Payload), NEW t
  PROVE  /\ InSeq(s \o u, t) = {} <=> InSeq(s, t) = {} /\ InSeq(u, t) = {}
         /\ InSeq(u, t) = {} /\ AtMostOne(InSeq(s, t)) => AtMostOne(InSeq(s \o u, t))
         /\ InSeq(s, t) = {} /\ AtMostOne(InSeq(u, t)) => AtMostOne(InSeq(s \o u, t))
<1>1. /\ DOMAIN s = 1 .. Len(s) /\ DOMAIN u = 1 .. Len(u)
      /\ DOMAIN (s \o u) = 1 .. Len(s) + Len(u)
      /\ Len(s) \in Nat /\ Len(u) \in Nat
  BY ConcatProperties, LenProperties
<1>2. /\ \A i \in 1 .. Len(s) : (s \o u)[i] = s[i]
      /\ \A i \in 1 .. Len(u) : (s \o u)[Len(s) + i] = u[i]
  BY ConcatProperties
<1>3. \A i \in 1 .. Len(s) + Len(u) :
        i \notin 1 .. Len(s) => i - Len(s) \in 1 .. Len(u) /\ i = Len(s) + (i - Len(s))
  BY <1>1
<1>4. \A i \in InSeq(s \o u, t) :
        /\ i \in Int
        /\ i \in InSeq(s, t) \/ i - Len(s) \in InSeq(u, t)
  BY <1>1, <1>2, <1>3 DEF InSeq
<1>5. InSeq(s, t) \subseteq InSeq(s \o u, t)
  BY <1>1, <1>2 DEF InSeq
<1>6. \A i \in InSeq(u, t) : Len(s) + i \in InSeq(s \o u, t)
  <2>1. \A i \in 1 .. Len(u) : Len(s) + i \in 1 .. Len(s) + Len(u)
    BY <1>1
  <2> QED BY <1>1, <1>2, <2>1 DEF InSeq
<1>7. InSeq(u, t) = {} /\ AtMostOne(InSeq(s, t)) => AtMostOne(InSeq(s \o u, t))
  BY <1>4 DEF AtMostOne
<1>8. InSeq(s, t) = {} /\ AtMostOne(InSeq(u, t)) => AtMostOne(InSeq(s \o u, t))
  <2> SUFFICES ASSUME InSeq(s, t) = {}, AtMostOne(InSeq(u, t)),
                      NEW i \in InSeq(s \o u, t), NEW k \in InSeq(s \o u, t)
               PROVE  i = k
    BY DEF AtMostOne
  <2>1. i - Len(s) = k - Len(s) /\ i \in Int /\ k \in Int
    BY <1>4 DEF AtMostOne
  <2> QED BY <1>1, <2>1
<1> QED BY <1>4, <1>5, <1>6, <1>7, <1>8

\* LPUSH reverses its batch.
LEMMA PositionsInReverse ==
  ASSUME NEW s \in Seq(Payload), NEW t
  PROVE  /\ InSeq(Reverse(s), t) = {} <=> InSeq(s, t) = {}
         /\ AtMostOne(InSeq(s, t)) => AtMostOne(InSeq(Reverse(s), t))
<1>1. DOMAIN s = 1 .. Len(s) /\ Len(s) \in Nat
  BY LenProperties
<1>2. \A i \in 1 .. Len(s) :
        (Len(s) - i) + 1 \in 1 .. Len(s) /\ (Len(s) - ((Len(s) - i) + 1)) + 1 = i
  BY <1>1
<1>3. /\ DOMAIN Reverse(s) = 1 .. Len(s)
      /\ \A i \in 1 .. Len(s) : Reverse(s)[i] = s[(Len(s) - i) + 1]
  BY <1>1 DEF Reverse
<1>4. \A i \in InSeq(Reverse(s), t) : i \in Int /\ (Len(s) - i) + 1 \in InSeq(s, t)
  BY <1>1, <1>2, <1>3 DEF InSeq
<1>5. \A i \in InSeq(s, t) : (Len(s) - i) + 1 \in InSeq(Reverse(s), t)
  BY <1>1, <1>2, <1>3 DEF InSeq
<1>6. AtMostOne(InSeq(s, t)) => AtMostOne(InSeq(Reverse(s), t))
  <2> SUFFICES ASSUME AtMostOne(InSeq(s, t)),
                      NEW i \in InSeq(Reverse(s), t), NEW k \in InSeq(Reverse(s), t)
               PROVE  i = k
    BY DEF AtMostOne
  <2>1. (Len(s) - i) + 1 = (Len(s) - k) + 1 /\ i \in Int /\ k \in Int
    BY <1>4 DEF AtMostOne
  <2> QED BY <1>1, <2>1
<1> QED BY <1>4, <1>5, <1>6

\* What one more dead letter makes of the dead letter list.
LEMMA PositionsInAppend ==
  ASSUME NEW s \in Seq(Payload), NEW p \in Payload, NEW t
  PROVE  /\ p.task # t => InSeq(Append(s, p), t) = InSeq(s, t)
         /\ p.task = t => InSeq(Append(s, p), t) = InSeq(s, t) \cup {Len(s) + 1}
<1>1. /\ Len(s) \in Nat /\ DOMAIN s = 1 .. Len(s)
      /\ DOMAIN Append(s, p) = 1 .. Len(s) + 1
      /\ \A i \in 1 .. Len(s) : Append(s, p)[i] = s[i]
      /\ Append(s, p)[Len(s) + 1] = p
  BY LenProperties, AppendProperties
<1>2. 1 .. Len(s) + 1 = (1 .. Len(s)) \cup {Len(s) + 1} /\ Len(s) + 1 \notin 1 .. Len(s)
  BY <1>1
<1> QED BY <1>1, <1>2 DEF InSeq

\* Where the tasks of a request are in its batch.
LEMMA PositionsInPayloads ==
  ASSUME NEW ts \in Seq(Tasks), IsInjective(ts), NEW t
  PROVE  /\ AtMostOne(InSeq(Payloads(ts), t))
         /\ InSeq(Payloads(ts), t) # {} <=> t \in ToSet(ts)
<1>1. /\ DOMAIN Payloads(ts) = DOMAIN ts
      /\ \A i \in DOMAIN ts : Payloads(ts)[i].task = ts[i]
  BY DEF Payloads, FirstAttempt
<1>2. InSeq(Payloads(ts), t) = {i \in DOMAIN ts : ts[i] = t}
  BY <1>1 DEF InSeq
<1> QED BY <1>2 DEF AtMostOne, IsInjective, ToSet

\* Where a task is in a reply of ZRANGEBYSCORE.
LEMMA PositionsInReply ==
  ASSUME NEW ps, IsInjective(ps), NEW t
  PROVE  /\ AtMostOne(InSet(ToSet(ps), t)) => AtMostOne(InSeq(ps, t))
         /\ InSeq(ps, t) = {} <=> InSet(ToSet(ps), t) = {}
BY DEF AtMostOne, IsInjective, ToSet, InSeq, InSet

-----------------------------------------------------------------------------
(* Where a task is *)

\* The copies of a task in the list, in the sorted set and among the dead.
Listed(t) == InSeq(queue, t)
Delayed(t) == InSet(waiting \cup due, t)
Dead(t) == InSeq(dlq, t)

\* The push of t is still to come.
Awaited(t) ==
  \E r \in Requests :
    \/ api[r] \in {"idle", "high"} /\ t \in TasksOf(r)
    \/ api[r] = "standard" /\ t \in ToSet(Standard[r])

Nowhere(t) == Listed(t) = {} /\ Delayed(t) = {} /\ RunningJobs(t) = {} /\ Dead(t) = {}

OnePlace(t) ==
  /\ AtMostOne(Listed(t)) /\ AtMostOne(Delayed(t))
  /\ AtMostOne(RunningJobs(t)) /\ AtMostOne(Dead(t))
  /\ Listed(t) # {} => Delayed(t) = {} /\ RunningJobs(t) = {} /\ Dead(t) = {}
  /\ Delayed(t) # {} => RunningJobs(t) = {} /\ Dead(t) = {}
  /\ RunningJobs(t) # {} => Dead(t) = {}
  /\ Awaited(t) => Nowhere(t)

OnePlaces == \A t \in Tasks : OnePlace(t)

\* What a worker has read of the sorted set is still due when it moves it.
BatchIsDue ==
  /\ waiting \cap due = {}
  /\ \A e \in Engines : loop[e] = "move" =>
       IsInjective(batch[e]) /\ ToSet(batch[e]) \subseteq ripe[e] /\ ripe[e] \subseteq due

CInv == OnePlaces /\ BatchIsDue

\* There is one worker process at most.
OneWorker == \A e, f \in Engines : e = f

\* A task in at most one place is there once.
LEMMA OnePlaceCounts ==
  ASSUME NEW t \in Tasks, OnePlace(t)
  PROVE  /\ LiveCopies(t) + DeadLetters(t) = IF Nowhere(t) THEN 0 ELSE 1
         /\ LiveCopies(t) = IF Nowhere(t) \/ Dead(t) # {} THEN 0 ELSE 1
         /\ DeadLetters(t) = IF Dead(t) # {} THEN 1 ELSE 0
<1>1. /\ Cardinality(Listed(t)) = IF Listed(t) = {} THEN 0 ELSE 1
      /\ Cardinality(Delayed(t)) = IF Delayed(t) = {} THEN 0 ELSE 1
      /\ Cardinality(RunningJobs(t)) = IF RunningJobs(t) = {} THEN 0 ELSE 1
      /\ Cardinality(Dead(t)) = IF Dead(t) = {} THEN 0 ELSE 1
  BY AtMostOneCardinality DEF OnePlace
<1>2. /\ LiveCopies(t) = Cardinality(Listed(t)) + Cardinality(Delayed(t))
                           + Cardinality(RunningJobs(t))
      /\ DeadLetters(t) = Cardinality(Dead(t))
  BY DEF LiveCopies, DeadLetters, Listed, Delayed, Dead
<1> HIDE DEF OnePlace
<1>3. /\ Listed(t) # {} => Delayed(t) = {} /\ RunningJobs(t) = {} /\ Dead(t) = {}
      /\ Delayed(t) # {} => RunningJobs(t) = {} /\ Dead(t) = {}
      /\ RunningJobs(t) # {} => Dead(t) = {}
  BY DEF OnePlace
<1> QED BY <1>1, <1>2, <1>3 DEF Nowhere

\* The initial state satisfies the invariant.
LEMMA InitCInv == Init => CInv
<1> SUFFICES ASSUME Init PROVE CInv
  OBVIOUS
<1>1. \A t \in Tasks : Nowhere(t)
  <2>1. \A e \in Engines, j \in Jobs : job[e][j] = Idle
    BY DEF Init, EngineInit, NoJobs
  <2>2. \A t \in Tasks : RunningJobs(t) = {}
    BY <2>1 DEF RunningJobs
  <2>3. \A t \in Tasks : Listed(t) = {} /\ Dead(t) = {} /\ Delayed(t) = {}
    BY DEF Init, QueueInit, Listed, Delayed, Dead, InSeq, InSet
  <2> QED BY <2>2, <2>3 DEF Nowhere
<1>2. OnePlaces
  BY <1>1 DEF OnePlaces, OnePlace, Nowhere, AtMostOne
<1>3. BatchIsDue
  BY DEF Init, QueueInit, EngineInit, BatchIsDue
<1> QED BY <1>2, <1>3 DEF CInv

\* Nothing the place of t depends on has changed, or it left one without
\* entering another.
LEMMA NoNewPlace ==
  ASSUME NEW t \in Tasks, OnePlace(t), Awaited(t)' => Awaited(t),
         Listed(t)' = Listed(t) \/ Listed(t)' = {},
         Delayed(t)' \subseteq Delayed(t),
         RunningJobs(t)' \subseteq RunningJobs(t),
         Dead(t)' = Dead(t)
  PROVE  OnePlace(t)'
BY DEF OnePlace, Nowhere, AtMostOne

\* The requests wait for less and less.
LEMMA AwaitedShrinks ==
  ASSUME IInv, NEW r \in Requests, ApiStep(r) \/ ApiCrash(r), NEW t
  PROVE  /\ Awaited(t)' => Awaited(t)
         /\ PublishHigh(r) /\ t \in ToSet(High[r]) => Awaited(t) /\ ~Awaited(t)'
         /\ PublishStandard(r) /\ t \in ToSet(Standard[r]) => Awaited(t) /\ ~Awaited(t)'
<1>1. \A q \in Requests \ {r} : api'[q] = api[q]
  BY ApiRows
<1>2. \A q \in Requests \ {r} : t \in TasksOf(r) => t \notin TasksOf(q)
  BY FreshTasksAssumption
<1>3. \A q \in Requests : ToSet(High[q]) \subseteq TasksOf(q) /\ ToSet(Standard[q]) \subseteq TasksOf(q)
  BY DEF TasksOf
<1>4. \/ api[r] = "idle" /\ api'[r] \in {"high", "done"} /\ ~PublishHigh(r) /\ ~PublishStandard(r)
      \/ api[r] = "high" /\ api'[r] = "standard" /\ ~PublishStandard(r)
      \/ api[r] = "standard" /\ api'[r] = "done" /\ ~PublishHigh(r)
      \/ ApiCrash(r) /\ api'[r] = "done" /\ ~PublishHigh(r) /\ ~PublishStandard(r)
  <2>1. api \in [Requests -> ApiSteps]
    BY DEF IInv, TypeOK
  <2>2. CASE SubmitTasks(r)
    BY <2>1, <2>2 DEF SubmitTasks, Goto, PublishHigh, PublishStandard
  <2>3. CASE PublishHigh(r)
    BY <2>1, <2>3 DEF Goto, PublishHigh, PublishStandard
  <2>4. CASE PublishStandard(r)
    BY <2>1, <2>4 DEF Goto, PublishHigh, PublishStandard
  <2>5. CASE ApiCrash(r)
    BY <2>1, <2>5 DEF Goto, ApiCrash, PublishHigh, PublishStandard
  <2> QED BY <2>2, <2>3, <2>4, <2>5 DEF ApiStep
<1>5. ToSet(High[r]) \cap ToSet(Standard[r]) = {}
  BY FreshTasksAssumption
<1>6. Awaited(t)' => Awaited(t)
  BY <1>1, <1>3, <1>4 DEF Awaited
<1>7. PublishHigh(r) /\ t \in ToSet(High[r]) => Awaited(t) /\ ~Awaited(t)'
  BY <1>1, <1>2, <1>3, <1>4, <1>5 DEF Awaited, PublishHigh
<1>8. PublishStandard(r) /\ t \in ToSet(Standard[r]) => Awaited(t) /\ ~Awaited(t)'
  BY <1>1, <1>2, <1>3, <1>4 DEF Awaited, PublishStandard
<1> QED BY <1>6, <1>7, <1>8

-----------------------------------------------------------------------------
(* What the steps do to the places *)

\* One coroutine has changed.
LEMMA RunningAfter ==
  ASSUME EngineTypeOK, NEW e \in Engines, NEW j \in Jobs,
         \E w : job' = [job EXCEPT ![e][j] = w], NEW t
  PROVE  /\ job'[e][j] # Idle /\ job'[e][j].payload.task = t
              => RunningJobs(t)' = RunningJobs(t) \cup {<<e, j>>}
         /\ job'[e][j] = Idle => RunningJobs(t)' = RunningJobs(t) \ {<<e, j>>}
         /\ job'[e][j].payload.task # t
              => RunningJobs(t)' = RunningJobs(t) \ {<<e, j>>}
<1> DEFINE all == Engines \X Jobs
           here == <<e, j>>
           before == RunningJobs(t)
           after == RunningJobs(t)'
<1>1. \A f \in Engines, k \in Jobs : <<f, k>> # here => job'[f][k] = job[f][k]
  BY DEF EngineTypeOK
<1>2. \A x \in all : x # here => job'[x[1]][x[2]] = job[x[1]][x[2]]
  BY <1>1
<1>3. here \in all /\ here[1] = e /\ here[2] = j
  OBVIOUS
<1>4. after = {x \in all :
                  job'[x[1]][x[2]] # Idle /\ job'[x[1]][x[2]].payload.task = t}
  BY DEF RunningJobs
<1>5. \A x \in all : x # here => (x \in after <=> x \in before)
  BY <1>2, <1>4 DEF RunningJobs
<1>6. here \in after <=> job'[e][j] # Idle /\ job'[e][j].payload.task = t
  BY <1>3, <1>4
<1>7. after \subseteq all /\ before \subseteq all
  BY <1>4 DEF RunningJobs
<1> HIDE DEF all, here, before, after
<1>8. here \in after => after = before \cup {here}
  BY <1>3, <1>5, <1>7
<1>9. here \notin after => after = before \ {here}
  BY <1>3, <1>5, <1>7
<1> QED BY <1>6, <1>8, <1>9 DEF here, before, after

\* A coroutine that goes on with its payload is where it was.
LEMMA RunningContinues ==
  ASSUME IInv, NEW e \in Engines, NEW j \in Jobs, job[e][j] # Idle,
         NEW pc \in JobSteps, NEW ok \in BOOLEAN, Continue(e, j, pc, ok), NEW t
  PROVE  /\ RunningJobs(t)' = RunningJobs(t)
         /\ job'[e][j] = [pc |-> pc, payload |-> job[e][j].payload, ok |-> ok]
         /\ job'[e][j] # Idle
<1>1. job' = [job EXCEPT ![e][j] =
                [pc |-> pc, payload |-> job[e][j].payload, ok |-> ok]]
  BY ContinueJobs DEF IInv, TypeOK
<1>2. job'[e][j] = [pc |-> pc, payload |-> job[e][j].payload, ok |-> ok]
  BY <1>1 DEF IInv, TypeOK, EngineTypeOK
<1>3. job'[e][j] # Idle /\ job'[e][j].payload = job[e][j].payload
  BY <1>2 DEF Idle, JobSteps
<1>4. \A f \in Engines, k \in Jobs : <<f, k>> # <<e, j>> => job'[f][k] = job[f][k]
  BY <1>1 DEF IInv, TypeOK, EngineTypeOK
<1>5. \A x \in Engines \X Jobs :
        /\ job'[x[1]][x[2]] # Idle <=> job[x[1]][x[2]] # Idle
        /\ job'[x[1]][x[2]].payload = job[x[1]][x[2]].payload
  BY <1>3, <1>4
<1>6. RunningJobs(t)' = RunningJobs(t)
  BY <1>5 DEF RunningJobs
<1> QED BY <1>2, <1>3, <1>6

\* A coroutine that ends has left its place.
LEMMA RunningEnds ==
  ASSUME IInv, NEW e \in Engines, NEW j \in Jobs, job[e][j] # Idle, Finish(e, j), NEW t
  PROVE  /\ RunningJobs(t)' = RunningJobs(t) \ {<<e, j>>}
         /\ <<e, j>> \in RunningJobs(t) <=> job[e][j].payload.task = t
         /\ job'[e][j] = Idle
<1>1. job' = [job EXCEPT ![e][j] = Idle]
  BY DEF Finish
<1>2. job'[e][j] = Idle
  BY <1>1 DEF IInv, TypeOK, EngineTypeOK
<1>3. EngineTypeOK /\ \E w : job' = [job EXCEPT ![e][j] = w]
  BY <1>1 DEF IInv, TypeOK
<1>4. RunningJobs(t)' = RunningJobs(t) \ {<<e, j>>}
  BY <1>2, <1>3, RunningAfter
<1> QED BY <1>2, <1>4 DEF RunningJobs

\* The API writes the list and nothing else, and it waits for what it writes.
LEMMA ApiPlaces ==
  ASSUME IInv, OnePlaces, NEW r \in Requests, ApiStep(r) \/ ApiCrash(r), UNCHANGED engineVars
  PROVE  OnePlaces'
<1> SUFFICES ASSUME NEW t \in Tasks PROVE OnePlace(t)'
  BY DEF OnePlaces
<1>1. Delayed(t)' = Delayed(t) /\ RunningJobs(t)' = RunningJobs(t) /\ Dead(t)' = Dead(t)
  <2>1. waiting' = waiting /\ due' = due /\ dlq' = dlq /\ job' = job
    BY DEF ApiStep, SubmitTasks, PublishHigh, PublishStandard, ApiCrash, queueVars,
           engineVars
  <2> QED BY <2>1 DEF Delayed, RunningJobs, Dead
<1>2. OnePlace(t)
  BY DEF OnePlaces
<1>3. Awaited(t)' => Awaited(t)
  BY AwaitedShrinks
<1>4. CASE queue' = queue
  <2>1. Listed(t)' = Listed(t)
    BY <1>4 DEF Listed
  <2> QED BY <1>1, <1>2, <1>3, <2>1, NoNewPlace
<1>5. ASSUME NEW ts \in Seq(Tasks), IsInjective(ts), NEW ps \in Seq(Payload),
             AtMostOne(InSeq(ps, t)), InSeq(ps, t) # {} <=> t \in ToSet(ts),
             queue' = ps \o queue \/ queue' = queue \o ps,
             t \in ToSet(ts) => Awaited(t) /\ ~Awaited(t)'
      PROVE  OnePlace(t)'
  <2>1. queue \in Seq(Payload)
    BY DEF IInv, TypeOK, QueueTypeOK
  <2>2. CASE t \in ToSet(ts)
    <3>1. Nowhere(t) /\ ~Awaited(t)'
      BY <1>2, <1>5, <2>2 DEF OnePlace
    <3>2. AtMostOne(Listed(t)')
      BY <1>5, <2>1, <3>1, PositionsInConcat DEF Nowhere, Listed
    <3> QED BY <1>1, <1>2, <3>1, <3>2 DEF OnePlace, Nowhere
  <2>3. CASE t \notin ToSet(ts)
    <3>1. /\ AtMostOne(Listed(t)')
          /\ Listed(t)' = {} <=> Listed(t) = {}
      BY <1>2, <1>5, <2>1, <2>3, PositionsInConcat DEF OnePlace, Listed
    <3> QED BY <1>1, <1>2, <1>3, <3>1 DEF OnePlace, Nowhere
  <2> QED BY <2>2, <2>3
<1>6. High[r] \in Seq(Tasks) /\ Standard[r] \in Seq(Tasks)
      /\ IsInjective(High[r]) /\ IsInjective(Standard[r])
  BY RequestsAssumption, FreshTasksAssumption
<1>7. CASE PublishHigh(r) /\ queue' # queue
  <2> DEFINE ps == Reverse(Payloads(High[r]))
  <2>1. ps \in Seq(Payload)
    BY <1>6, PayloadsType
  <2>2. AtMostOne(InSeq(ps, t)) /\ (InSeq(ps, t) # {} <=> t \in ToSet(High[r]))
    BY <1>6, PayloadsType, PositionsInPayloads, PositionsInReverse
  <2>3. queue' = ps \o queue
    BY <1>7 DEF PublishHigh, LPush
  <2>4. t \in ToSet(High[r]) => Awaited(t) /\ ~Awaited(t)'
    BY <1>7, AwaitedShrinks
  <2> HIDE DEF ps
  <2> QED BY <1>5, <1>6, <2>1, <2>2, <2>3, <2>4
<1>8. CASE PublishStandard(r) /\ queue' # queue
  <2> DEFINE ps == Payloads(Standard[r])
  <2>1. ps \in Seq(Payload)
    BY <1>6, PayloadsType
  <2>2. AtMostOne(InSeq(ps, t)) /\ (InSeq(ps, t) # {} <=> t \in ToSet(Standard[r]))
    BY <1>6, PositionsInPayloads
  <2>3. queue' = queue \o ps
    BY <1>8 DEF PublishStandard, RPush
  <2>4. t \in ToSet(Standard[r]) => Awaited(t) /\ ~Awaited(t)'
    BY <1>8, AwaitedShrinks
  <2> HIDE DEF ps
  <2> QED BY <1>5, <1>6, <2>1, <2>2, <2>3, <2>4
<1> QED BY <1>4, <1>7, <1>8 DEF ApiStep, SubmitTasks, ApiCrash, queueVars

\* BLPOP hands the head of the list to a coroutine.
LEMMA PopPlaces ==
  ASSUME IInv, NEW e \in Engines, Pop(e), NEW t
  PROVE  /\ queue # <<>> /\ queue \in Seq(Payload)
         /\ Head(queue).task # t => RunningJobs(t)' = RunningJobs(t)
         /\ Head(queue).task = t =>
              \E j \in Jobs : RunningJobs(t)' = RunningJobs(t) \cup {<<e, j>>}
<1>1. queue # <<>> /\ queue \in Seq(Payload)
  BY DEF IInv, TypeOK, QueueTypeOK, Pop
<1>2. PICK j \in Jobs \ Busy(e) :
        job' = [job EXCEPT ![e][j] =
                  [pc |-> "new", payload |-> Head(queue), ok |-> FALSE]]
  BY DEF Pop
<1>3. job[e][j] = Idle
  BY <1>2 DEF Busy
<1>4. job'[e][j] = [pc |-> "new", payload |-> Head(queue), ok |-> FALSE]
  BY <1>2 DEF IInv, TypeOK, EngineTypeOK
<1>5. job'[e][j] # Idle /\ job'[e][j].payload = Head(queue)
  BY <1>4 DEF Idle
<1>6. \A f \in Engines, k \in Jobs : <<f, k>> # <<e, j>> => job'[f][k] = job[f][k]
  BY <1>2 DEF IInv, TypeOK, EngineTypeOK
<1>7. CASE Head(queue).task = t
  <2>1. EngineTypeOK /\ \E w : job' = [job EXCEPT ![e][j] = w]
    BY <1>2 DEF IInv, TypeOK
  <2>2. RunningJobs(t)' = RunningJobs(t) \cup {<<e, j>>}
    BY <1>5, <1>7, <2>1, RunningAfter
  <2> QED BY <1>1, <1>7, <2>2
<1>8. CASE Head(queue).task # t
  <2>1. \A x \in Engines \X Jobs :
          (job'[x[1]][x[2]] # Idle /\ job'[x[1]][x[2]].payload.task = t)
            <=> (job[x[1]][x[2]] # Idle /\ job[x[1]][x[2]].payload.task = t)
    BY <1>3, <1>5, <1>6, <1>8
  <2> QED BY <1>1, <1>8, <2>1 DEF RunningJobs
<1> QED BY <1>7, <1>8

\* The move takes a task out of the sorted set into the list.
LEMMA MovePlaces ==
  ASSUME IInv, BatchIsDue, NEW e \in Engines, loop[e] = "move",
         MoveDueTasks(batch[e], ripe[e]), UNCHANGED <<job, api>>,
         NEW t \in Tasks, OnePlace(t)
  PROVE  OnePlace(t)'
<1>1. /\ queue \in Seq(Payload) /\ batch[e] \in Seq(Payload)
      /\ queue' = queue \o batch[e] /\ waiting' = waiting /\ due' = due \ ripe[e]
      /\ dlq' = dlq
  BY DEF IInv, TypeOK, QueueTypeOK, EngineTypeOK, MoveDueTasks, RPush
<1>2. /\ IsInjective(batch[e]) /\ ToSet(batch[e]) \subseteq ripe[e]
      /\ ripe[e] \subseteq due /\ waiting \cap due = {}
  BY DEF BatchIsDue
<1>3. /\ RunningJobs(t)' = RunningJobs(t) /\ Dead(t)' = Dead(t)
      /\ Awaited(t)' = Awaited(t) /\ Delayed(t)' \subseteq Delayed(t)
  BY <1>1 DEF RunningJobs, Dead, Awaited, Delayed, InSet
<1>4. AtMostOne(Listed(t)) /\ AtMostOne(Delayed(t))
  BY DEF OnePlace
<1>5. InSet(ToSet(batch[e]), t) \subseteq Delayed(t)
  BY <1>2 DEF InSet, Delayed
<1>6. /\ AtMostOne(InSeq(batch[e], t))
      /\ InSeq(batch[e], t) = {} <=> InSet(ToSet(batch[e]), t) = {}
  BY <1>2, <1>4, <1>5, PositionsInReply DEF AtMostOne
<1>7. CASE InSet(ToSet(batch[e]), t) = {}
  <2>1. AtMostOne(Listed(t)') /\ (Listed(t)' = {} <=> Listed(t) = {})
    BY <1>1, <1>4, <1>6, <1>7, PositionsInConcat DEF Listed
  <2> QED BY <1>3, <2>1 DEF OnePlace, Nowhere, AtMostOne
<1>8. CASE InSet(ToSet(batch[e]), t) # {}
  <2>1. Listed(t) = {} /\ RunningJobs(t) = {} /\ Dead(t) = {} /\ ~Awaited(t)
    BY <1>5, <1>8 DEF OnePlace, Nowhere
  <2>2. AtMostOne(Listed(t)')
    BY <1>1, <1>6, <2>1, PositionsInConcat DEF Listed
  <2>3. Delayed(t)' = {}
    <3>1. PICK p : p \in InSet(ToSet(batch[e]), t)
      BY <1>8
    <3>2. Delayed(t) = {p}
      BY <1>4, <1>5, <3>1 DEF AtMostOne
    <3>3. p \in ripe[e] /\ p \notin waiting
      BY <1>2, <3>1 DEF InSet
    <3> QED BY <1>1, <1>3, <3>2, <3>3 DEF Delayed, InSet
  <2> QED BY <1>3, <2>1, <2>2, <2>3 DEF OnePlace, AtMostOne
<1> QED BY <1>7, <1>8

\* The fetch loop passes a task on and never copies it.
LEMMA LoopPlaces ==
  ASSUME IInv, CInv, NEW e \in Engines, LoopStep(e), UNCHANGED api
  PROVE  OnePlaces'
<1> SUFFICES ASSUME NEW t \in Tasks PROVE OnePlace(t)'
  BY DEF OnePlaces
<1>1. OnePlace(t) /\ BatchIsDue /\ Awaited(t)' = Awaited(t)
  BY DEF CInv, OnePlaces, Awaited
<1>2. queue \in Seq(Payload) /\ AtMostOne(Listed(t))
  BY <1>1 DEF IInv, TypeOK, QueueTypeOK, OnePlace
<1>3. CASE UNCHANGED <<queueVars, job>>
  <2>1. /\ Listed(t)' = Listed(t) /\ Delayed(t)' = Delayed(t) /\ Dead(t)' = Dead(t)
        /\ RunningJobs(t)' = RunningJobs(t)
    BY <1>3 DEF queueVars, Listed, Delayed, Dead, RunningJobs
  <2> QED BY <1>1, <2>1, NoNewPlace
<1>4. CASE Pop(e)
  <2>1. /\ queue' = Tail(queue) /\ queue # <<>>
        /\ Delayed(t)' = Delayed(t) /\ Dead(t)' = Dead(t)
    BY <1>4 DEF Pop, Delayed, Dead
  <2>2. CASE Head(queue).task # t
    <3>1. /\ RunningJobs(t)' = RunningJobs(t)
          /\ AtMostOne(Listed(t)') /\ (Listed(t)' = {} <=> Listed(t) = {})
      BY <1>2, <1>4, <2>1, <2>2, PopPlaces, PositionsInTail DEF Listed
    <3> QED BY <1>1, <2>1, <3>1 DEF OnePlace, Nowhere
  <2>3. CASE Head(queue).task = t
    <3>1. Listed(t) # {} /\ Listed(t)' = {}
      BY <1>2, <2>1, <2>3, PositionsInTail DEF Listed
    <3>2. PICK j \in Jobs : RunningJobs(t)' = RunningJobs(t) \cup {<<e, j>>}
      BY <1>4, <2>3, PopPlaces
    <3>3. RunningJobs(t) = {} /\ Delayed(t) = {} /\ Dead(t) = {} /\ ~Awaited(t)
      BY <1>1, <3>1 DEF OnePlace, Nowhere
    <3>4. AtMostOne(RunningJobs(t)')
      BY <3>2, <3>3 DEF AtMostOne
    <3> QED BY <1>1, <2>1, <3>1, <3>3, <3>4 DEF OnePlace, AtMostOne
  <2> QED BY <2>2, <2>3
<1>5. CASE PopNothing(e)
  <2>1. /\ Delayed(t)' = Delayed(t) /\ Dead(t)' = Dead(t)
        /\ RunningJobs(t)' = RunningJobs(t)
    BY <1>5 DEF PopNothing, Delayed, Dead, RunningJobs
  <2>2. \/ queue' = queue
        \/ queue # <<>> /\ queue' = Tail(queue)
    BY <1>5 DEF PopNothing
  <2>3. AtMostOne(Listed(t)') /\ (Listed(t) = {} => Listed(t)' = {})
    BY <1>2, <2>2, PositionsInTail DEF Listed
  <2> QED BY <1>1, <2>1, <2>3 DEF OnePlace, Nowhere
<1>6. CASE MoveDue(e)
  <2>1. \/ UNCHANGED <<queueVars, job>>
        \/ loop[e] = "move" /\ MoveDueTasks(batch[e], ripe[e])
    BY <1>6 DEF MoveDue
  <2>2. UNCHANGED <<job, api>>
    BY <1>6 DEF MoveDue
  <2> QED BY <1>1, <1>3, <2>1, <2>2, MovePlaces
<1>7. CASE Acquire(e) \/ Block(e) \/ ReadDue(e)
  BY <1>3, <1>7 DEF Acquire, Block, ReadDue
<1> QED BY <1>4, <1>5, <1>6, <1>7 DEF LoopStep

\* What a coroutine is at when it takes a step.
LEMMA JobPayload ==
  ASSUME IInv, NEW e \in Engines, NEW j \in Jobs, JobStep(e, j)
  PROVE  /\ job[e][j] # Idle
         /\ job[e][j] \in [pc : JobSteps, payload : Payload, ok : BOOLEAN]
         /\ job[e][j].payload \in Payload /\ job[e][j].payload.task \in Tasks
         /\ job[e][j].payload.attempt \in Nat
         /\ <<e, j>> \in RunningJobs(job[e][j].payload.task)
<1>1. job[e][j] # Idle
  BY StepOfBusyJob
<1>2. job[e][j] \in [pc : JobSteps, payload : Payload, ok : BOOLEAN]
  BY <1>1 DEF IInv, TypeOK, EngineTypeOK, JobState
<1>3. job[e][j].payload \in Payload
  BY <1>2
<1>4. <<e, j>> \in RunningJobs(job[e][j].payload.task)
  BY <1>1 DEF RunningJobs
<1> QED BY <1>1, <1>2, <1>3, <1>4 DEF Payload

\* A coroutine that has not ended keeps its payload.
LEMMA JobContinues ==
  ASSUME IInv, NEW e \in Engines, NEW j \in Jobs,
         SendRequest(e, j) \/ Answer(e, j) \/ (Save(e, j) /\ ~Finish(e, j)), NEW t
  PROVE  /\ RunningJobs(t)' = RunningJobs(t)
         /\ job'[e][j] # Idle /\ job'[e][j].payload = job[e][j].payload
         /\ UNCHANGED queueVars
<1>1. job[e][j] # Idle /\ job[e][j].ok \in BOOLEAN
  BY JobPayload DEF JobStep
<1>2. PICK pc \in JobSteps, ok \in BOOLEAN : Continue(e, j, pc, ok)
  BY <1>1 DEF SendRequest, Answer, Save, AfterSave, JobSteps
<1>3. UNCHANGED queueVars
  BY DEF SendRequest, Answer, Save
<1>4. /\ RunningJobs(t)' = RunningJobs(t)
      /\ job'[e][j] = [pc |-> pc, payload |-> job[e][j].payload, ok |-> ok]
      /\ job'[e][j] # Idle
  BY <1>1, <1>2, RunningContinues
<1> QED BY <1>3, <1>4

\* A coroutine that ends hands its task to the sorted set, to the dead letter
\* list, or to nobody.
LEMMA JobPlaces ==
  ASSUME IInv, OnePlaces, NEW e \in Engines, NEW j \in Jobs, JobStep(e, j), UNCHANGED api
  PROVE  OnePlaces'
<1> SUFFICES ASSUME NEW t \in Tasks PROVE OnePlace(t)'
  BY DEF OnePlaces
<1> DEFINE p == job[e][j].payload
<1>1. OnePlace(t) /\ Awaited(t)' = Awaited(t)
  BY DEF OnePlaces, Awaited
<1>2. job[e][j] # Idle /\ p \in Payload
  BY JobPayload
<1>3. Finish(e, j) => /\ RunningJobs(t)' = RunningJobs(t) \ {<<e, j>>}
                      /\ p.task = t <=> <<e, j>> \in RunningJobs(t)
  BY <1>2, RunningEnds
<1>4. CASE /\ UNCHANGED queueVars
           /\ RunningJobs(t)' \subseteq RunningJobs(t)
  <2>1. Listed(t)' = Listed(t) /\ Delayed(t)' = Delayed(t) /\ Dead(t)' = Dead(t)
    BY <1>4 DEF queueVars, Listed, Delayed, Dead
  <2> QED BY <1>1, <1>4, <2>1, NoNewPlace
<1>5. CASE SendRequest(e, j) \/ Answer(e, j) \/ Save(e, j)
  <2>1. CASE Save(e, j) /\ Finish(e, j)
    BY <1>3, <1>4, <2>1 DEF Save
  <2>2. CASE SendRequest(e, j) \/ Answer(e, j) \/ (Save(e, j) /\ ~Finish(e, j))
    BY <1>4, <2>2, JobContinues
  <2> QED BY <1>5, <2>1, <2>2
<1>6. CASE ScheduleRetry(e, j)
  <2>1. /\ Finish(e, j) /\ queue' = queue /\ dlq' = dlq
        /\ \/ UNCHANGED <<waiting, due>>
           \/ /\ waiting' = waiting \cup {[p EXCEPT !.attempt = @ + 1]}
              /\ due' = due \ {[p EXCEPT !.attempt = @ + 1]}
    BY <1>6 DEF ScheduleRetry, ZAdd
  <2>2. CASE UNCHANGED <<waiting, due>>
    BY <1>3, <1>4, <2>1, <2>2 DEF queueVars
  <2>3. ASSUME NEW q \in Payload, q.task = p.task,
               waiting' = waiting \cup {q}, due' = due \ {q}
        PROVE  OnePlace(t)'
    <3>1. Listed(t)' = Listed(t) /\ Dead(t)' = Dead(t)
      BY <2>1 DEF Listed, Dead
    <3>2. CASE p.task # t
      <4>1. Delayed(t)' = Delayed(t)
        BY <2>3, <3>2 DEF Delayed, InSet
      <4> QED BY <1>1, <1>3, <2>1, <3>1, <4>1, NoNewPlace
    <3>3. CASE p.task = t
      <4>1. /\ RunningJobs(t) = {<<e, j>>} /\ ~Awaited(t)
            /\ Listed(t) = {} /\ Delayed(t) = {} /\ Dead(t) = {}
        BY <1>1, <1>3, <2>1, <3>3 DEF OnePlace, AtMostOne, Nowhere
      <4>2. Delayed(t)' \subseteq {q}
        BY <2>3, <4>1 DEF Delayed, InSet
      <4>3. AtMostOne(Delayed(t)') /\ RunningJobs(t)' = {}
        BY <1>3, <2>1, <4>1, <4>2 DEF AtMostOne
      <4> QED BY <1>1, <3>1, <4>1, <4>3 DEF OnePlace, AtMostOne
    <3> QED BY <3>2, <3>3
  <2>4. [p EXCEPT !.attempt = @ + 1] \in Payload
        /\ [p EXCEPT !.attempt = @ + 1].task = p.task
    BY <1>2 DEF Payload
  <2> QED BY <2>1, <2>2, <2>3, <2>4
<1>7. CASE DeadLetter(e, j)
  <2>1. /\ Finish(e, j) /\ UNCHANGED <<queue, waiting, due>>
        /\ dlq' = dlq \/ dlq' = Append(dlq, p)
    BY <1>7 DEF DeadLetter, SendToDlq
  <2>2. CASE dlq' = dlq
    BY <1>3, <1>4, <2>1, <2>2 DEF queueVars
  <2>3. CASE dlq' = Append(dlq, p)
    <3>1. Listed(t)' = Listed(t) /\ Delayed(t)' = Delayed(t) /\ dlq \in Seq(Payload)
      BY <2>1 DEF Listed, Delayed, IInv, TypeOK, QueueTypeOK
    <3>2. CASE p.task # t
      <4>1. Dead(t)' = Dead(t)
        BY <1>2, <2>3, <3>1, <3>2, PositionsInAppend DEF Dead
      <4> QED BY <1>1, <1>3, <2>1, <3>1, <4>1, NoNewPlace
    <3>3. CASE p.task = t
      <4>1. /\ RunningJobs(t) = {<<e, j>>} /\ ~Awaited(t)
            /\ Listed(t) = {} /\ Delayed(t) = {} /\ Dead(t) = {}
        BY <1>1, <1>3, <2>1, <3>3 DEF OnePlace, AtMostOne, Nowhere
      <4>2. InSeq(Append(dlq, p), t) = InSeq(dlq, t) \cup {Len(dlq) + 1}
        BY <1>2, <3>1, <3>3, PositionsInAppend
      <4>3. Dead(t)' = {Len(dlq) + 1}
        BY <2>3, <4>1, <4>2 DEF Dead
      <4>4. AtMostOne(Dead(t)') /\ RunningJobs(t)' = {}
        BY <1>3, <2>1, <4>1, <4>3 DEF AtMostOne
      <4> QED BY <1>1, <3>1, <4>1, <4>4 DEF OnePlace, AtMostOne
    <3> QED BY <3>2, <3>3
  <2> QED BY <2>1, <2>2, <2>3
<1> QED BY <1>5, <1>6, <1>7 DEF JobStep

\* A worker that starts has no coroutine and one that vanishes loses its own.
LEMMA ProcessPlaces ==
  ASSUME IInv, OnePlaces, NEW e \in Engines, ProcessStep(e), UNCHANGED api
  PROVE  OnePlaces'
<1> SUFFICES ASSUME NEW t \in Tasks PROVE OnePlace(t)'
  BY DEF OnePlaces
<1>1. OnePlace(t) /\ Awaited(t)' = Awaited(t)
  BY DEF OnePlaces, Awaited
<1>2. UNCHANGED queueVars /\ (job' = job \/ job' = [job EXCEPT ![e] = NoJobs])
  BY DEF ProcessStep, Start, Exit, Crash, Vanish, Signal, StopHeartbeat, CloseClient
<1>3. Listed(t)' = Listed(t) /\ Delayed(t)' = Delayed(t) /\ Dead(t)' = Dead(t)
  BY <1>2 DEF queueVars, Listed, Delayed, Dead
<1>4. RunningJobs(t)' \subseteq RunningJobs(t)
  <2>1. CASE job' = job
    BY <2>1 DEF RunningJobs
  <2>2. CASE job' = [job EXCEPT ![e] = NoJobs]
    <3>1. \A f \in Engines, k \in Jobs : job'[f][k] # Idle => job'[f][k] = job[f][k]
      BY <2>2 DEF NoJobs, IInv, TypeOK, EngineTypeOK
    <3>2. \A x \in Engines \X Jobs :
            job'[x[1]][x[2]] # Idle => job'[x[1]][x[2]] = job[x[1]][x[2]]
      BY <3>1
    <3> QED BY <3>2 DEF RunningJobs
  <2> QED BY <1>2, <2>1, <2>2
<1> QED BY <1>1, <1>3, <1>4, NoNewPlace

\* A member that becomes due stays in the sorted set.
LEMMA DelayPlaces ==
  ASSUME OnePlaces, NEW p \in waiting, BecomeDue(p), UNCHANGED <<storeVars, engineVars, api>>
  PROVE  OnePlaces'
<1>1. waiting' \cup due' = waiting \cup due /\ queue' = queue /\ dlq' = dlq
      /\ job' = job /\ api' = api
  BY DEF BecomeDue, engineVars
<1>2. \A t \in Tasks :
        /\ Listed(t)' = Listed(t) /\ Delayed(t)' = Delayed(t) /\ Dead(t)' = Dead(t)
        /\ RunningJobs(t)' = RunningJobs(t) /\ Awaited(t)' = Awaited(t)
  BY <1>1 DEF Listed, Delayed, Dead, RunningJobs, Awaited
<1> QED BY <1>2, NoNewPlace DEF OnePlaces

-----------------------------------------------------------------------------
(* With one worker nobody moves the members another has read.  The only     *)
(* step that could take one back is ZADD, and its task is running, so it is *)
(* not among them.                                                         *)

\* Every step of a single worker keeps the batch it has read among the due members.
LEMMA BatchStep ==
  ASSUME OneWorker, IInv, CInv, [Next]_vars
  PROVE  BatchIsDue'
<1>0. BatchIsDue /\ loop \in [Engines -> {"off", "top", "blocked", "poll", "move", "pop"}]
      /\ batch \in [Engines -> Seq(Payload)] /\ ripe \in [Engines -> SUBSET Payload]
  BY DEF CInv, IInv, TypeOK, EngineTypeOK
<1>1. CASE UNCHANGED <<waiting, due, loop, batch, ripe>>
  BY <1>0, <1>1 DEF BatchIsDue
<1>2. ASSUME NEW e \in Engines, loop'[e] # "move", waiting' = waiting, due' \subseteq due
      PROVE  BatchIsDue'
  BY <1>0, <1>2 DEF BatchIsDue, OneWorker
<1>3. ASSUME NEW e \in Engines, LoopStep(e)
      PROVE  BatchIsDue'
  <2>1. CASE ReadDue(e) /\ loop'[e] = "move"
    <3>1. PICK ps \in DueReplies : batch' = [batch EXCEPT ![e] = ps]
      BY <1>0, <2>1 DEF ReadDue
    <3>2. ripe' = [ripe EXCEPT ![e] = due] /\ waiting' = waiting /\ due' = due
      BY <1>0, <2>1 DEF ReadDue, queueVars
    <3>3. batch'[e] = ps /\ ripe'[e] = due
      BY <1>0, <3>1, <3>2
    <3>4. IsInjective(ps) /\ ToSet(ps) \subseteq due
      <4>1. IsInjective(ps) /\ \E n : ps \in [1 .. n -> due]
        BY DEF DueReplies
      <4> QED BY <4>1 DEF ToSet
    <3>5. \A f \in Engines : f = e
      BY DEF OneWorker
    <3> QED BY <1>0, <3>2, <3>3, <3>4, <3>5 DEF BatchIsDue
  <2>2. CASE ~(ReadDue(e) /\ loop'[e] = "move")
    <3>1. loop'[e] # "move"
      BY <1>0, <1>3, <2>2 DEF LoopStep, Acquire, Block, ReadDue, MoveDue, Pop, PopNothing
    <3>2. waiting' = waiting /\ due' \subseteq due
      BY <1>3 DEF LoopStep, Acquire, Block, ReadDue, MoveDue, MoveDueTasks, Pop,
                  PopNothing, queueVars
    <3> QED BY <1>2, <3>1, <3>2
  <2> QED BY <2>1, <2>2
<1>4. ASSUME NEW e \in Engines, ProcessStep(e)
      PROVE  BatchIsDue'
  <2>1. \/ UNCHANGED <<waiting, due, loop, batch, ripe>>
        \/ loop'[e] # "move" /\ waiting' = waiting /\ due' = due
    BY <1>0, <1>4 DEF ProcessStep, Start, Exit, Crash, Vanish, Signal, StopHeartbeat,
                      CloseClient, queueVars
  <2> QED BY <1>1, <1>2, <2>1
<1>5. ASSUME NEW e \in Engines, NEW j \in Jobs, JobStep(e, j)
      PROVE  BatchIsDue'
  <2>1. CASE ~ScheduleRetry(e, j)
    BY <1>1, <1>5, <2>1 DEF JobStep, SendRequest, Answer, Save, DeadLetter, queueVars
  <2>2. CASE ScheduleRetry(e, j)
    <3> DEFINE p == job[e][j].payload
               q == [p EXCEPT !.attempt = @ + 1]
    <3>1. q.task = p.task /\ p.task \in Tasks /\ <<e, j>> \in RunningJobs(p.task)
      BY <1>5, JobPayload DEF Payload
    <3>2. Delayed(p.task) = {}
      BY <3>1 DEF CInv, OnePlaces, OnePlace
    <3>3. q \notin due
      BY <3>1, <3>2 DEF Delayed, InSet
    <3>4. loop' = loop /\ batch' = batch
      BY <2>2 DEF ScheduleRetry
    <3>5. \/ UNCHANGED <<waiting, due, ripe>>
          \/ /\ waiting' = waiting \cup {q} /\ due' = due \ {q}
             /\ ripe' = [f \in Engines |-> ripe[f] \ {q}]
      BY <2>2 DEF ScheduleRetry, ZAdd
    <3> HIDE DEF q
    <3>6. CASE UNCHANGED <<waiting, due, ripe>>
      BY <1>1, <3>4, <3>6
    <3>7. CASE /\ waiting' = waiting \cup {q} /\ due' = due \ {q}
               /\ ripe' = [f \in Engines |-> ripe[f] \ {q}]
      <4>1. waiting' \cap due' = {} /\ due' = due
        BY <1>0, <3>3, <3>7 DEF BatchIsDue
      <4>2. \A f \in Engines : loop[f] = "move" => ripe'[f] = ripe[f]
        BY <1>0, <3>3, <3>7 DEF BatchIsDue
      <4> QED BY <1>0, <3>4, <4>1, <4>2 DEF BatchIsDue
    <3> QED BY <3>5, <3>6, <3>7
  <2> QED BY <2>1, <2>2
<1>6. ASSUME NEW p \in waiting, BecomeDue(p), UNCHANGED <<storeVars, engineVars, api>>
      PROVE  BatchIsDue'
  BY <1>0, <1>6 DEF BecomeDue, engineVars, BatchIsDue
<1>7. CASE \/ \E s \in Scans : PostScan(s)
           \/ \E r \in Requests : ApiStep(r) \/ ApiCrash(r)
           \/ UNCHANGED vars
  BY <1>1, <1>7 DEF PostScan, ApiStep, SubmitTasks, PublishHigh, PublishStandard,
                    ApiCrash, vars, queueVars, engineVars
<1> QED BY <1>3, <1>4, <1>5, <1>6, <1>7 DEF Next, EngineNext

\* Every step keeps each task in one place.
LEMMA PlacesStep ==
  ASSUME IInv, CInv, [Next]_vars
  PROVE  OnePlaces'
<1>0. OnePlaces
  BY DEF CInv
<1>1. ASSUME NEW r \in Requests, ApiStep(r) \/ ApiCrash(r)
      PROVE  OnePlaces'
  <2>1. UNCHANGED engineVars
    BY <1>1 DEF ApiStep, SubmitTasks, PublishHigh, PublishStandard, ApiCrash
  <2> QED BY <1>0, <1>1, <2>1, ApiPlaces
<1>2. CASE EngineNext /\ UNCHANGED api
  BY <1>0, <1>2, LoopPlaces, ProcessPlaces, JobPlaces DEF EngineNext
<1>3. CASE \E p \in waiting : BecomeDue(p) /\ UNCHANGED <<storeVars, engineVars, api>>
  BY <1>0, <1>3, DelayPlaces
<1>4. CASE (\E s \in Scans : PostScan(s)) \/ UNCHANGED vars
  <2>1. UNCHANGED <<queueVars, job, api>>
    BY <1>4 DEF PostScan, vars, engineVars
  <2>2. \A t \in Tasks :
          /\ Listed(t)' = Listed(t) /\ Delayed(t)' = Delayed(t) /\ Dead(t)' = Dead(t)
          /\ RunningJobs(t)' = RunningJobs(t) /\ Awaited(t)' = Awaited(t)
    BY <2>1 DEF queueVars, Listed, Delayed, Dead, RunningJobs, Awaited
  <2> QED BY <1>0, <2>2, NoNewPlace DEF OnePlaces
<1> QED BY <1>1, <1>2, <1>3, <1>4 DEF Next

\* With one worker process a task is in one place at most, under every fault
\* the model knows: the reading and the moving of due members, two commands of
\* _process_delayed_tasks, do not copy it, nor does any hand-over between the
\* list, the sorted set, a coroutine and the dead letter list.
THEOREM NoSecondCopy == OneWorker /\ Spec => []OneCopyPerTask
<1>1. OneWorker /\ Init => IInv /\ DelayedFinite /\ CInv
  BY InitIInv, InitDelayedFinite, InitCInv
<1>2. OneWorker /\ (IInv /\ DelayedFinite /\ CInv) /\ [Next]_vars
        => (IInv /\ DelayedFinite /\ CInv)'
  BY StepIInv, StepDelayedFinite, PlacesStep, BatchStep DEF CInv
<1>3. CInv => OneCopyPerTask
  <2> SUFFICES ASSUME CInv, NEW t \in Tasks PROVE LiveCopies(t) + DeadLetters(t) <= 1
    BY DEF OneCopyPerTask
  <2>1. LiveCopies(t) + DeadLetters(t) = IF Nowhere(t) THEN 0 ELSE 1
    BY OnePlaceCounts DEF CInv, OnePlaces
  <2> QED BY <2>1
<1>4. OneWorker => OneWorker'
  OBVIOUS
<1> QED BY <1>1, <1>2, <1>3, <1>4, PTL DEF Spec

-----------------------------------------------------------------------------
(* How often a task is sent: a payload that is queued or delayed was sent   *)
(* as often as it counts, one in a coroutine at most once more.             *)

\* The payloads in the list and in the sorted set.
Queued == ToSet(queue) \cup waiting \cup due

\* The retries a task is allowed: none when its count is negative.
Allowed(t) == IF RetryCount[t] > 0 THEN RetryCount[t] ELSE 0

\* A payload's executions are within its attempts, its attempts within the allowed.
SpentBy(p, n) == hits[p.task] <= n /\ p.attempt <= Allowed(p.task)

\* A coroutine past its request has made one more.
SpentByJob(w) ==
  SpentBy(w.payload, IF w.pc = "new" THEN w.payload.attempt ELSE w.payload.attempt + 1)

\* The inductive invariant behind RequestsBounded.
Spent ==
  /\ \A t \in Tasks : hits[t] <= 1 + Allowed(t) /\ (Awaited(t) => hits[t] = 0)
  /\ \A p \in Queued : SpentBy(p, p.attempt)
  /\ \A e \in Engines, j \in Jobs : job[e][j] # Idle => SpentByJob(job[e][j])

\* The initial state satisfies Spent.
LEMMA InitSpent == Init => Spent
<1> SUFFICES ASSUME Init PROVE Spent
  OBVIOUS
<1>1. \A t \in Tasks : Allowed(t) \in Nat
  BY RetryCountAssumption DEF Allowed
<1>2. Queued = {}
  BY DEF Init, QueueInit, Queued, ToSet
<1>3. \A e \in Engines, j \in Jobs : job[e][j] = Idle
  BY DEF Init, EngineInit, NoJobs
<1> QED BY <1>1, <1>2, <1>3 DEF Init, EngineInit, Spent

\* The step is the push of t.
Pushes(r, t) ==
  \/ PublishHigh(r) /\ t \in ToSet(High[r])
  \/ PublishStandard(r) /\ t \in ToSet(Standard[r])

\* A payload that is queued or delayed was before, or is the first attempt of a
\* task this step pushes, or comes from a retry.
LEMMA QueuedAfter ==
  ASSUME IInv, BatchIsDue, [Next]_vars, NEW p \in Queued'
  PROVE  \/ p \in Queued
         \/ \E r \in Requests, t \in Tasks : p = FirstAttempt(t) /\ Pushes(r, t)
         \/ \E e \in Engines, j \in Jobs :
              ScheduleRetry(e, j) /\ p = [job[e][j].payload EXCEPT !.attempt = @ + 1]
<1>q. queue \in Seq(Payload)
  BY DEF IInv, TypeOK, QueueTypeOK
<1>1. CASE Queued' \subseteq Queued
  BY <1>1
<1>2. ASSUME NEW e \in Engines, MoveDue(e)
      PROVE  Queued' \subseteq Queued
  <2>1. batch[e] \in Seq(Payload) /\ ToSet(batch[e]) \subseteq due
    BY <1>2 DEF IInv, TypeOK, EngineTypeOK, BatchIsDue, MoveDue
  <2>2. ToSet(queue \o batch[e]) = ToSet(queue) \cup ToSet(batch[e])
    BY <1>q, <2>1, ConcatElements
  <2>3. waiting' = waiting /\ due' \subseteq due /\ queue' \in {queue, queue \o batch[e]}
    BY <1>2 DEF MoveDue, MoveDueTasks, RPush, queueVars
  <2> QED BY <2>1, <2>2, <2>3 DEF Queued
<1>3. ASSUME NEW e \in Engines, Pop(e) \/ PopNothing(e)
      PROVE  Queued' \subseteq Queued
  <2>1. waiting' = waiting /\ due' = due
    BY <1>3 DEF Pop, PopNothing
  <2>2. \/ queue' = queue
        \/ queue # <<>> /\ queue' = Tail(queue)
    BY <1>3 DEF Pop, PopNothing
  <2>3. ToSet(queue') \subseteq ToSet(queue)
    BY <1>q, <2>2, HeadTailElements
  <2> QED BY <2>1, <2>3 DEF Queued
<1>4. ASSUME NEW e \in Engines, NEW j \in Jobs, ScheduleRetry(e, j)
      PROVE  p \in Queued \cup {[job[e][j].payload EXCEPT !.attempt = @ + 1]}
  BY <1>4 DEF ScheduleRetry, ZAdd, Queued
<1>5. ASSUME NEW r \in Requests, PublishHigh(r) \/ PublishStandard(r)
      PROVE  p \in Queued \/ \E t \in Tasks : p = FirstAttempt(t) /\ Pushes(r, t)
  <2>1. High[r] \in Seq(Tasks) /\ Standard[r] \in Seq(Tasks)
    BY RequestsAssumption
  <2>2. ASSUME NEW ts \in Seq(Tasks)
        PROVE  \A x \in ToSet(Payloads(ts)) : \E t \in Tasks : t \in ToSet(ts) /\ x = FirstAttempt(t)
    BY ElementOfSeq, LenProperties DEF Payloads, ToSet
  <2>3. /\ PublishHigh(r) => \A t \in ToSet(High[r]) : Pushes(r, t)
        /\ PublishStandard(r) => \A t \in ToSet(Standard[r]) : Pushes(r, t)
    BY DEF Pushes
  <2>4. /\ Payloads(High[r]) \in Seq(Payload)
        /\ Payloads(Standard[r]) \in Seq(Payload)
        /\ Reverse(Payloads(High[r])) \in Seq(Payload)
    BY <2>1, PayloadsType
  <2>5. /\ ToSet(Reverse(Payloads(High[r])) \o queue)
             \subseteq ToSet(queue) \cup ToSet(Payloads(High[r]))
        /\ ToSet(queue \o Payloads(Standard[r]))
             \subseteq ToSet(queue) \cup ToSet(Payloads(Standard[r]))
    BY <1>q, <2>4, ConcatElements, ReverseElements
  <2>6. waiting' = waiting /\ due' = due
    BY <1>5 DEF PublishHigh, PublishStandard
  <2>7. CASE PublishHigh(r)
    <3>1. p \in Queued \/ p \in ToSet(Payloads(High[r]))
      BY <2>5, <2>6, <2>7 DEF PublishHigh, LPush, Queued
    <3> QED BY <2>1, <2>2, <2>3, <2>7, <3>1
  <2>8. CASE PublishStandard(r)
    <3>1. p \in Queued \/ p \in ToSet(Payloads(Standard[r]))
      BY <2>5, <2>6, <2>8 DEF PublishStandard, RPush, Queued
    <3> QED BY <2>1, <2>2, <2>3, <2>8, <3>1
  <2> QED BY <1>5, <2>7, <2>8
<1>6. ASSUME NEW x \in waiting, BecomeDue(x)
      PROVE  Queued' \subseteq Queued
  BY <1>6 DEF BecomeDue, Queued
<1>7. CASE UNCHANGED <<queue, waiting, due>>
  BY <1>7 DEF Queued
<1>8. ASSUME NEW e \in Engines,
             \/ LoopStep(e) /\ ~MoveDue(e) /\ ~Pop(e) /\ ~PopNothing(e)
             \/ ProcessStep(e)
             \/ \E j \in Jobs : JobStep(e, j) /\ ~ScheduleRetry(e, j)
      PROVE  UNCHANGED <<queue, waiting, due>>
  BY <1>8 DEF LoopStep, ProcessStep, JobStep, Acquire, Block, ReadDue, Start, Exit,
              Crash, Vanish, Signal, StopHeartbeat, CloseClient, SendRequest, Answer,
              Save, DeadLetter, queueVars
<1>9. ASSUME \/ \E s \in Scans : PostScan(s)
             \/ \E r \in Requests : SubmitTasks(r) \/ ApiCrash(r)
             \/ UNCHANGED vars
      PROVE  UNCHANGED <<queue, waiting, due>>
  BY <1>9 DEF PostScan, SubmitTasks, ApiCrash, vars, queueVars
<1> QED BY <1>1, <1>2, <1>3, <1>4, <1>5, <1>6, <1>7, <1>8, <1>9
        DEF Next, EngineNext, ApiStep

\* A coroutine is as it was, or has just got the head of the list, or has gone
\* on with its payload past the request.
LEMMA JobAfter ==
  ASSUME IInv, [Next]_vars, NEW e \in Engines, NEW j \in Jobs, job'[e][j] # Idle
  PROVE  \/ job'[e][j] = job[e][j]
         \/ /\ queue # <<>> /\ Head(queue) \in ToSet(queue)
            /\ job'[e][j].pc = "new" /\ job'[e][j].payload = Head(queue)
         \/ /\ job[e][j] # Idle /\ job'[e][j].pc # "new"
            /\ job'[e][j].payload = job[e][j].payload
            /\ JobStep(e, j)
<1>0. job \in [Engines -> [Jobs -> JobState]]
  BY DEF IInv, TypeOK, EngineTypeOK
<1>1. ASSUME NEW f \in Engines, Pop(f)
      PROVE  \/ job'[e][j] = job[e][j]
             \/ /\ queue # <<>> /\ Head(queue) \in ToSet(queue)
                /\ job'[e][j].pc = "new" /\ job'[e][j].payload = Head(queue)
  <2>1. PICK k \in Jobs : job' = [job EXCEPT ![f][k] =
                 [pc |-> "new", payload |-> Head(queue), ok |-> FALSE]]
    BY <1>1 DEF Pop
  <2>2. queue # <<>> /\ Head(queue) \in ToSet(queue)
    BY <1>1, HeadTailElements DEF Pop, IInv, TypeOK, QueueTypeOK
  <2>3. CASE f = e /\ k = j
    <3>1. job'[e][j] = [pc |-> "new", payload |-> Head(queue), ok |-> FALSE]
      BY <1>0, <2>1, <2>3
    <3> QED BY <2>2, <3>1
  <2>4. CASE ~(f = e /\ k = j)
    BY <1>0, <2>1, <2>4
  <2> QED BY <2>3, <2>4
<1>2. ASSUME NEW f \in Engines, ProcessStep(f)
      PROVE  job'[e][j] = job[e][j]
  <2>1. job' = job \/ job' = [job EXCEPT ![f] = NoJobs]
    BY <1>2 DEF ProcessStep, Start, Exit, Crash, Vanish, Signal, StopHeartbeat, CloseClient
  <2>2. NoJobs[j] = Idle
    BY DEF NoJobs
  <2>3. CASE job' = [job EXCEPT ![f] = NoJobs]
    <3>1. f # e
      BY <1>0, <2>2, <2>3
    <3> QED BY <1>0, <2>3, <3>1
  <2> QED BY <2>1, <2>3
<1>3. ASSUME NEW f \in Engines, NEW k \in Jobs, JobStep(f, k)
      PROVE  \/ job'[e][j] = job[e][j]
             \/ /\ job[e][j] # Idle /\ job'[e][j].pc # "new"
                /\ job'[e][j].payload = job[e][j].payload
                /\ JobStep(e, j)
  <2>1. job[f][k] # Idle
    BY <1>3, StepOfBusyJob
  <2>2. \/ Finish(f, k)
        \/ \E pc \in JobSteps \ {"new"}, ok \in BOOLEAN : Continue(f, k, pc, ok)
    <3>1. job[f][k].ok \in BOOLEAN
      BY <1>3, JobPayload
    <3> QED BY <1>3, <3>1 DEF JobStep, SendRequest, Answer, Save, AfterSave,
              ScheduleRetry, DeadLetter, JobSteps
  <2>3. CASE Finish(f, k)
    <3>1. job' = [job EXCEPT ![f][k] = Idle]
      BY <2>3 DEF Finish
    <3>2. ~(f = e /\ k = j)
      BY <1>0, <3>1
    <3> QED BY <1>0, <3>1, <3>2
  <2>4. ASSUME NEW pc \in JobSteps \ {"new"}, NEW ok \in BOOLEAN, Continue(f, k, pc, ok)
        PROVE  \/ job'[e][j] = job[e][j]
               \/ /\ job[e][j] # Idle /\ job'[e][j].pc # "new"
                  /\ job'[e][j].payload = job[e][j].payload
                  /\ JobStep(e, j)
    <3>1. job' = [job EXCEPT ![f][k] =
                    [pc |-> pc, payload |-> job[f][k].payload, ok |-> ok]]
      BY <2>1, <2>4, ContinueJobs DEF IInv, TypeOK
    <3>2. CASE f = e /\ k = j
      <4>1. job'[e][j] = [pc |-> pc, payload |-> job[e][j].payload, ok |-> ok]
        BY <1>0, <3>1, <3>2
      <4> QED BY <1>3, <2>1, <2>4, <3>2, <4>1
    <3>3. CASE ~(f = e /\ k = j)
      BY <1>0, <3>1, <3>3
    <3> QED BY <3>2, <3>3
  <2> QED BY <2>2, <2>3, <2>4
<1>4. CASE job' = job
  BY <1>4
<1>5. ASSUME NEW f \in Engines, LoopStep(f), ~Pop(f)
      PROVE  job' = job
  BY <1>5 DEF LoopStep, Acquire, Block, ReadDue, MoveDue, PopNothing
<1>6. ASSUME \/ \E s \in Scans : PostScan(s)
             \/ \E r \in Requests : ApiStep(r) \/ ApiCrash(r)
             \/ \E p \in waiting : UNCHANGED <<storeVars, engineVars, api>>
             \/ UNCHANGED vars
      PROVE  job' = job
  BY <1>6 DEF PostScan, ApiStep, SubmitTasks, PublishHigh, PublishStandard, ApiCrash,
              vars, engineVars
<1> QED BY <1>1, <1>2, <1>3, <1>4, <1>5, <1>6 DEF Next, EngineNext

\* Only an open client sends, and only for a coroutine that has not yet.
LEMMA HitsAfter ==
  ASSUME IInv, [Next]_vars
  PROVE  \/ hits' = hits
         \/ \E e \in Engines, j \in Jobs :
              /\ SendRequest(e, j) /\ job[e][j].pc = "new"
              /\ hits' = [hits EXCEPT ![job[e][j].payload.task] = @ + 1]
              /\ api' = api
<1>1. ASSUME NEW e \in Engines, NEW j \in Jobs, JobStep(e, j)
      PROVE  \/ hits' = hits
             \/ /\ SendRequest(e, j) /\ job[e][j].pc = "new"
                /\ hits' = [hits EXCEPT ![job[e][j].payload.task] = @ + 1]
  BY <1>1 DEF JobStep, SendRequest, Answer, Save, ScheduleRetry, DeadLetter, At, worldVars
<1>2. ASSUME NEW e \in Engines, LoopStep(e) \/ ProcessStep(e)
      PROVE  hits' = hits
  BY <1>2 DEF LoopStep, ProcessStep, Acquire, Block, ReadDue, MoveDue, Pop,
              PopNothing, Start, Exit, Crash, Vanish, Signal, StopHeartbeat,
              CloseClient, worldVars
<1>3. ASSUME \/ \E s \in Scans : PostScan(s)
             \/ \E r \in Requests : ApiStep(r) \/ ApiCrash(r)
             \/ \E p \in waiting : UNCHANGED <<storeVars, engineVars, api>>
             \/ UNCHANGED vars
      PROVE  hits' = hits
  BY <1>3 DEF PostScan, ApiStep, SubmitTasks, PublishHigh, PublishStandard, ApiCrash,
              vars, engineVars, worldVars
<1> QED BY <1>1, <1>2, <1>3 DEF Next, EngineNext

\* What is awaited was awaited.
LEMMA AwaitedAfter ==
  ASSUME IInv, [Next]_vars, NEW t, Awaited(t)'
  PROVE  Awaited(t)
<1>1. CASE \E r \in Requests : ApiStep(r) \/ ApiCrash(r)
  BY <1>1, AwaitedShrinks
<1>2. CASE api' = api
  BY <1>2 DEF Awaited
<1> QED BY <1>1, <1>2 DEF Next, PostScan, vars

\* Every step keeps the requests within the attempts.
LEMMA SpentStep ==
  ASSUME IInv, CInv, Spent, [Next]_vars
  PROVE  Spent'
<1>0. /\ hits \in [Tasks -> Nat]
      /\ \A e \in Engines, j \in Jobs : job[e][j] # Idle =>
           job[e][j].payload.task \in Tasks /\ job[e][j].payload.attempt \in Nat
  BY DEF IInv, TypeOK, EngineTypeOK, JobState, Payload
<1>1. \A t \in Tasks : Allowed(t) \in Nat
  BY RetryCountAssumption DEF Allowed
<1>2. Queued \subseteq Payload
  BY ElementOfSeq, LenProperties DEF IInv, TypeOK, QueueTypeOK, ToSet, Queued
<1>3. IInv' => Queued' \subseteq Payload
  BY ElementOfSeq, LenProperties DEF IInv, TypeOK, QueueTypeOK, ToSet, Queued
<1>4. \A p \in Queued : ~Nowhere(p.task) /\ Listed(p.task) \cup Delayed(p.task) # {}
  BY DEF Queued, ToSet, Nowhere, Listed, Delayed, InSeq, InSet
\* The bounds as they were, for the payloads the step can leave behind.
<1>5. ASSUME NEW p \in Queued'
      PROVE  p.task \in Tasks /\ p.attempt \in Nat /\ SpentBy(p, p.attempt)
  <2>1. CASE p \in Queued
    BY <1>2, <2>1 DEF Spent, Payload
  <2>2. ASSUME NEW r \in Requests, NEW t \in Tasks, p = FirstAttempt(t), Pushes(r, t)
        PROVE  p.task \in Tasks /\ p.attempt \in Nat /\ SpentBy(p, p.attempt)
    <3>0. Awaited(t)
      BY <2>2 DEF Pushes, PublishHigh, PublishStandard, Awaited, TasksOf
    <3>1. p.task = t /\ p.attempt = 0 /\ hits[t] = 0
      BY <2>2, <3>0 DEF FirstAttempt, Spent
    <3> QED BY <1>1, <3>1 DEF SpentBy
  <2>3. ASSUME NEW e \in Engines, NEW j \in Jobs, ScheduleRetry(e, j),
               p = [job[e][j].payload EXCEPT !.attempt = @ + 1]
        PROVE  p.task \in Tasks /\ p.attempt \in Nat /\ SpentBy(p, p.attempt)
    <3> DEFINE o == job[e][j].payload
    <3>1. o \in Payload /\ job[e][j] # Idle
      BY <2>3, JobPayload DEF JobStep
    <3>2. p.task = o.task /\ p.attempt = o.attempt + 1 /\ o.task \in Tasks /\ o.attempt \in Nat
      BY <2>3, <3>1 DEF Payload
    <3>3. o.attempt < RetryCount[o.task] /\ job[e][j].pc # "new"
      BY <2>3 DEF ScheduleRetry, At
    <3>4. p.attempt <= Allowed(p.task)
      BY <3>2, <3>3, RetryCountAssumption DEF Allowed
    <3>5. hits[o.task] <= o.attempt + 1
      BY <3>1, <3>3 DEF Spent, SpentByJob, SpentBy
    <3> QED BY <3>2, <3>4, <3>5 DEF SpentBy
  <2> QED BY <2>1, <2>2, <2>3, QueuedAfter DEF CInv
<1>6. ASSUME NEW e \in Engines, NEW j \in Jobs, job'[e][j] # Idle
      PROVE  /\ job'[e][j].payload.task \in Tasks /\ job'[e][j].payload.attempt \in Nat
             /\ job'[e][j] = job[e][j] \/ Listed(job'[e][j].payload.task) # {}
                  \/ (job[e][j] # Idle /\ job'[e][j].payload = job[e][j].payload
                        /\ job'[e][j].pc # "new" /\ JobStep(e, j))
             /\ SpentBy(job'[e][j].payload, IF job'[e][j].pc = "new"
                                              THEN job'[e][j].payload.attempt
                                              ELSE job'[e][j].payload.attempt + 1)
  <2>1. CASE job'[e][j] = job[e][j]
    BY <1>0, <1>6, <2>1 DEF Spent, SpentByJob
  <2>2. CASE /\ queue # <<>> /\ Head(queue) \in ToSet(queue)
             /\ job'[e][j].pc = "new" /\ job'[e][j].payload = Head(queue)
    <3>1. Head(queue) \in Queued /\ Head(queue) \in Payload
      BY <1>2, <2>2 DEF Queued
    <3>2. Listed(Head(queue).task) # {}
      BY <2>2 DEF Listed, InSeq, ToSet
    <3> QED BY <2>2, <3>1, <3>2 DEF Spent, Payload
  <2>3. CASE /\ job[e][j] # Idle /\ job'[e][j].pc # "new"
             /\ job'[e][j].payload = job[e][j].payload
             /\ JobStep(e, j)
    <3>1. SpentByJob(job[e][j])
      BY <2>3 DEF Spent
    <3> DEFINE o == job[e][j].payload
    <3>2. o.task \in Tasks /\ o.attempt \in Nat
      BY <1>0, <2>3
    <3>3. hits[o.task] \in Nat /\ hits[o.task] <= o.attempt + 1 /\ o.attempt <= Allowed(o.task)
      <4> HIDE DEF o
      <4>1. hits[o.task] <= o.attempt \/ hits[o.task] <= o.attempt + 1
        BY <3>1 DEF SpentByJob, SpentBy, o
      <4>2. o.attempt <= Allowed(o.task)
        BY <3>1 DEF SpentByJob, SpentBy, o
      <4> QED BY <1>0, <3>2, <4>1, <4>2
    <3> QED BY <2>3, <3>2, <3>3 DEF SpentBy
  <2> QED BY <1>6, <2>1, <2>2, <2>3, JobAfter
<1>7. \A t \in Tasks : Awaited(t)' => Awaited(t)
  BY AwaitedAfter
<1>8. CASE hits' = hits
  <2>1. \A p : \A n : SpentBy(p, n)' <=> SpentBy(p, n)
    BY <1>8 DEF SpentBy, Allowed
  <2>2. \A p \in Queued' : SpentBy(p, p.attempt)'
    BY <1>5, <2>1
  <2>3. \A e \in Engines, j \in Jobs : job'[e][j] # Idle => SpentByJob(job[e][j])'
    BY <1>6, <1>8 DEF SpentByJob, SpentBy, Allowed
  <2>4. \A t \in Tasks : hits'[t] <= 1 + Allowed(t) /\ (Awaited(t)' => hits'[t] = 0)
    BY <1>7, <1>8 DEF Spent
  <2> QED BY <1>8, <2>2, <2>3, <2>4 DEF Spent, SpentBy, Allowed
<1>9. ASSUME NEW e \in Engines, NEW j \in Jobs, SendRequest(e, j), job[e][j].pc = "new",
             hits' = [hits EXCEPT ![job[e][j].payload.task] = @ + 1], api' = api
      PROVE  Spent'
  <2>0. PICK p \in Payload : p = job[e][j].payload
    BY <1>9, JobPayload DEF JobStep
  <2> DEFINE t == p.task
  <2>1. job[e][j] # Idle /\ t \in Tasks /\ p.attempt \in Nat /\ <<e, j>> \in RunningJobs(t)
    BY <1>9, <2>0, JobPayload DEF JobStep
  <2>2. hits[t] <= p.attempt /\ p.attempt <= Allowed(t) /\ hits[t] \in Nat
    BY <1>0, <1>9, <2>0, <2>1 DEF Spent, SpentByJob, SpentBy
  <2>3. Listed(t) = {} /\ Delayed(t) = {} /\ ~Awaited(t) /\ RunningJobs(t) = {<<e, j>>}
    BY <2>1 DEF CInv, OnePlaces, OnePlace, AtMostOne, Nowhere
  <2>4. hits'[t] = hits[t] + 1 /\ \A u \in Tasks \ {t} : hits'[u] = hits[u]
    BY <1>0, <1>9, <2>0, <2>1
  <2>5. \A u \in Tasks : hits'[u] <= 1 + Allowed(u) /\ (Awaited(u)' => hits'[u] = 0)
    <3>1. hits'[t] <= 1 + Allowed(t)
      BY <1>1, <2>1, <2>2, <2>4
    <3>2. ~Awaited(t)'
      BY <1>9, <2>3 DEF Awaited
    <3> QED BY <1>7, <2>4, <3>1, <3>2 DEF Spent
  <2>6. queue' = queue /\ waiting' = waiting /\ due' = due
    BY <1>9 DEF SendRequest, queueVars
  <2>7. \A x \in Queued' : SpentBy(x, x.attempt)'
    <3> SUFFICES ASSUME NEW x \in Queued' PROVE SpentBy(x, x.attempt)'
      OBVIOUS
    <3>1. x \in Queued /\ x.task # t
      BY <1>4, <2>3, <2>6 DEF Queued
    <3>2. x.task \in Tasks /\ SpentBy(x, x.attempt)
      BY <1>5
    <3> QED BY <2>4, <3>1, <3>2 DEF SpentBy, Allowed
  <2>8. ASSUME NEW f \in Engines, NEW k \in Jobs, job'[f][k] # Idle
        PROVE  SpentByJob(job[f][k])'
    <3>1. PICK pc \in {"http", "save"} : Continue(e, j, pc, FALSE)
      BY <1>9 DEF SendRequest
    <3>2. job' = [job EXCEPT ![e][j] = [pc |-> pc, payload |-> p, ok |-> FALSE]]
      <4>1. pc \in JobSteps
        BY DEF JobSteps
      <4> QED BY <2>0, <2>1, <3>1, <4>1, ContinueJobs DEF IInv, TypeOK
    <3>3. CASE f = e /\ k = j
      <4>1. job'[f][k] = [pc |-> pc, payload |-> p, ok |-> FALSE]
        BY <3>2, <3>3 DEF IInv, TypeOK, EngineTypeOK
      <4>2. hits'[t] <= p.attempt + 1 /\ p.attempt <= Allowed(t)
        BY <2>1, <2>2, <2>4
      <4>3. job'[f][k].pc # "new" /\ job'[f][k].payload = p
        BY <4>1
      <4> QED BY <4>2, <4>3 DEF SpentByJob, SpentBy, Allowed
    <3>4. CASE ~(f = e /\ k = j)
      <4>1. job'[f][k] = job[f][k]
        BY <3>2, <3>4 DEF IInv, TypeOK, EngineTypeOK
      <4>2. job[f][k] # Idle /\ <<f, k>> # <<e, j>>
        BY <2>8, <3>4, <4>1
      <4>3. job[f][k].payload.task # t
        BY <2>3, <4>2 DEF RunningJobs
      <4>4. job[f][k].payload.task \in Tasks
        BY <1>0, <4>2
      <4>5. hits'[job[f][k].payload.task] = hits[job[f][k].payload.task]
        BY <2>4, <4>3, <4>4
      <4> QED BY <4>1, <4>2, <4>5 DEF Spent, SpentByJob, SpentBy, Allowed
    <3> QED BY <3>3, <3>4
  <2> QED BY <2>5, <2>7, <2>8 DEF Spent, SpentBy, Allowed
<1> QED BY <1>8, <1>9, HitsAfter

\* With one worker process a task is sent at most 1 + max(0, max_retries) times,
\* however often its payload is moved, requeued or delayed and whatever fails:
\* max_retries counts the executions after the first.
THEOREM RetriesBoundRequests == OneWorker /\ Spec => []RequestsBounded
<1>1. OneWorker /\ Init => IInv /\ DelayedFinite /\ CInv /\ Spent
  BY InitIInv, InitDelayedFinite, InitCInv, InitSpent
<1>2. OneWorker /\ (IInv /\ DelayedFinite /\ CInv /\ Spent) /\ [Next]_vars
        => (IInv /\ DelayedFinite /\ CInv /\ Spent)'
  BY StepIInv, StepDelayedFinite, PlacesStep, BatchStep, SpentStep DEF CInv
<1>3. Spent => RequestsBounded
  BY DEF Spent, RequestsBounded, Allowed
<1>4. OneWorker => OneWorker'
  OBVIOUS
<1> QED BY <1>1, <1>2, <1>3, <1>4, PTL DEF Spec

-----------------------------------------------------------------------------
(* Nothing is lost, as long as only the database fails and one reply of     *)
(* ZRANGEBYSCORE holds all the retries that can be delayed at once.  This   *)
(* needs no bound on the number of workers: copies lose nothing.           *)

\* The payloads that can be in the sorted set.
Retried == {p \in Payload : 1 <= p.attempt /\ p.attempt <= RetryCount[p.task]}

\* One reply of ZRANGEBYSCORE holds them all.
FewRetries == IsFiniteSet(Retried) /\ Cardinality(Retried) <= DueBatch

\* No command is refused, no reply lost, and no process stops or crashes.
OnlyDatabaseFails == Faults \subseteq {"db", "rollback"}

\* The rows of t are committed and its push is over, and it has no answer yet.
Owed(t) == db[t].status # "ABSENT" /\ ~Unpublished(t) /\ t \notin answered

\* Such a task is somewhere.
OwedAreKept == \A t \in Tasks : Owed(t) => ~Nowhere(t)

\* A worker that is up has not been stopped.
WorkersStay == \A e \in Engines : loop[e] # "off" => running[e]

\* A worker removes no member it has not read.
RipeIsRead == \A e \in Engines : ripe[e] \subseteq ToSet(batch[e])

\* The sorted set holds retries only.
DelayedAreRetried == waiting \cup due \subseteq Retried

\* The inductive invariant behind NothingLost.
KInv == OwedAreKept /\ WorkersStay /\ RipeIsRead /\ DelayedAreRetried

\* The initial state satisfies the invariant.
LEMMA InitKInv == Init => KInv
<1> SUFFICES ASSUME Init PROVE KInv
  OBVIOUS
<1>1. OwedAreKept
  BY DEF Init, StoreInit, Absent, OwedAreKept, Owed
<1>2. WorkersStay /\ RipeIsRead /\ DelayedAreRetried
  BY DEF Init, QueueInit, EngineInit, WorkersStay, RipeIsRead, DelayedAreRetried
<1> QED BY <1>1, <1>2 DEF KInv

\* A reply that may hold all due members does.
LEMMA WholeReply ==
  ASSUME IsFiniteSet(due), Cardinality(due) <= DueBatch, NEW ps \in DueReplies
  PROVE  ToSet(ps) = due
<1> DEFINE n == Cardinality(due)
<1>1. n \in Nat
  BY FS_CardinalityType
<1>2. ps \in [1 .. n -> due] /\ IsInjective(ps)
  <2>1. CASE n < DueBatch
    BY <2>1 DEF DueReplies
  <2>2. CASE ~(n < DueBatch)
    <3>1. n = DueBatch
      BY <1>1, <2>2, DueBatchAssumption
    <3> QED BY <2>2, <3>1 DEF DueReplies
  <2> QED BY <2>1, <2>2
<1>3. IsFiniteSet(1 .. n) /\ Cardinality(1 .. n) = n
  <2>1. Cardinality(1 .. n) = IF 1 > n THEN 0 ELSE n - 1 + 1
    BY <1>1, FS_Interval
  <2> QED BY <1>1, <2>1, FS_Interval
<1>4. ps \in Injection(1 .. n, due)
  BY <1>2 DEF Injection
<1>5. ps \in Surjection(1 .. n, due)
  BY <1>3, <1>4, FS_Injection
<1> QED BY <1>2, <1>5 DEF Surjection, ToSet

\* What waits in the sorted set fits one reply.
LEMMA FewDue ==
  ASSUME FewRetries, DelayedAreRetried
  PROVE  IsFiniteSet(due) /\ Cardinality(due) <= DueBatch
<1>1. due \in SUBSET Retried
  BY DEF DelayedAreRetried
<1>2. /\ IsFiniteSet(due) /\ Cardinality(due) <= Cardinality(Retried)
      /\ Cardinality(due) \in Nat /\ Cardinality(Retried) \in Nat
  BY <1>1, FS_Subset, FS_CardinalityType DEF FewRetries
<1> QED BY <1>2, DueBatchAssumption DEF FewRetries

\* A task some payload of which remains is kept.
LEMMA SomewhereCounts ==
  ASSUME DelayedFinite, IInv, NEW t \in Tasks, ~Nowhere(t)
  PROVE  LiveCopies(t) + DeadLetters(t) > 0
<1>1. /\ IsFiniteSet(Listed(t)) /\ IsFiniteSet(Dead(t))
  <2>1. ASSUME NEW s \in Seq(Payload) PROVE IsFiniteSet(InSeq(s, t))
    <3>1. DOMAIN s = 1 .. Len(s) /\ Len(s) \in Nat
      BY LenProperties
    <3>2. IsFiniteSet(1 .. Len(s))
      BY <3>1, FS_Interval
    <3> QED BY <3>1, <3>2, FS_Subset DEF InSeq
  <2> QED BY <2>1 DEF Listed, Dead, IInv, TypeOK, QueueTypeOK
<1>2. IsFiniteSet(Delayed(t))
  <2>1. IsFiniteSet(waiting \cup due)
    BY FS_Union DEF DelayedFinite
  <2> QED BY <2>1, FS_Subset DEF Delayed, InSet
<1>3. IsFiniteSet(RunningJobs(t))
  <2>1. IsFiniteSet(Engines \X Jobs)
    BY EnginesAssumption, JobsAssumption, FS_Product
  <2> QED BY <2>1, FS_Subset DEF RunningJobs
<1>4. ASSUME NEW S, IsFiniteSet(S)
      PROVE  Cardinality(S) \in Nat /\ (S # {} => Cardinality(S) > 0)
  BY <1>4, FS_EmptySet, FS_CardinalityType
<1>5. /\ LiveCopies(t) = Cardinality(Listed(t)) + Cardinality(Delayed(t))
                           + Cardinality(RunningJobs(t))
      /\ DeadLetters(t) = Cardinality(Dead(t))
  BY DEF LiveCopies, DeadLetters, Listed, Delayed, Dead
<1>6. /\ Cardinality(Listed(t)) \in Nat /\ Cardinality(Delayed(t)) \in Nat
      /\ Cardinality(RunningJobs(t)) \in Nat /\ Cardinality(Dead(t)) \in Nat
  BY <1>1, <1>2, <1>3, <1>4
<1>7. \/ Cardinality(Listed(t)) > 0 \/ Cardinality(Delayed(t)) > 0
      \/ Cardinality(RunningJobs(t)) > 0 \/ Cardinality(Dead(t)) > 0
  BY <1>1, <1>2, <1>3, <1>4 DEF Nowhere
<1> QED BY <1>5, <1>6, <1>7

\* Only the commit of a request makes rows, and its push is then to come.
LEMMA RowsAfter ==
  ASSUME IInv, Fresh, [Next]_vars, NEW t \in Tasks, Owed(t)'
  PROVE  \/ Owed(t)
         \/ \E r \in Requests : Pushes(r, t) \/ ApiCrash(r)
<1>0. answered \subseteq answered'
  BY WorldGrows
<1>1. ASSUME NEW r \in Requests, SubmitTasks(r)
      PROVE  Owed(t)
  <2>1. /\ api[r] = "idle" /\ api'[r] \in {"high", "done"}
        /\ \A q \in Requests \ {r} : api'[q] = api[q]
    BY <1>1, ApiRows DEF SubmitTasks, Goto, ApiStep, IInv, TypeOK
  <2>2. CASE InsertTasks(TasksOf(r)) /\ api'[r] = "high"
    <3>1. t \notin TasksOf(r)
      BY <2>2 DEF Owed, Unpublished
    <3>2. db'[t] = db[t]
      BY <2>2, <3>1 DEF InsertTasks
    <3>3. ~Unpublished(t)
      BY <2>1, <3>1 DEF Owed, Unpublished
    <3> QED BY <1>0, <3>2, <3>3 DEF Owed
  <2>3. CASE UNCHANGED storeVars
    <3>1. db'[t] = db[t]
      BY <2>3 DEF storeVars
    <3>2. ~Unpublished(t)
      BY <2>1 DEF Owed, Unpublished
    <3> QED BY <1>0, <3>1, <3>2 DEF Owed
  <2> QED BY <1>1, <2>2, <2>3 DEF SubmitTasks, Goto, IInv, TypeOK
<1>2. ASSUME NEW r \in Requests, PublishHigh(r), t \notin ToSet(High[r])
      PROVE  Owed(t)
  <2>1. /\ api[r] = "high" /\ api'[r] = "standard" /\ db' = db
        /\ \A q \in Requests \ {r} : api'[q] = api[q]
    BY <1>2, ApiRows DEF PublishHigh, Goto, ApiStep, IInv, TypeOK, storeVars
  <2>2. ~Unpublished(t)
    BY <1>2, <2>1 DEF Owed, Unpublished, TasksOf
  <2> QED BY <1>0, <2>1, <2>2 DEF Owed
<1>3. ASSUME NEW r \in Requests, PublishStandard(r), t \notin ToSet(Standard[r])
      PROVE  Owed(t)
  <2>1. /\ api[r] = "standard" /\ api'[r] = "done" /\ db' = db
        /\ \A q \in Requests \ {r} : api'[q] = api[q]
    BY <1>3, ApiRows DEF PublishStandard, Goto, ApiStep, IInv, TypeOK, storeVars
  <2>2. ~Unpublished(t)
    BY <1>3, <2>1 DEF Owed, Unpublished
  <2> QED BY <1>0, <2>1, <2>2 DEF Owed
<1>4. CASE api' = api /\ (db' = db \/ EngineNext)
  <2>1. ~Unpublished(t)
    BY <1>4 DEF Owed, Unpublished
  <2>2. db[t].status # "ABSENT"
    <3>1. CASE db' = db
      BY <3>1 DEF Owed
    <3>2. CASE EngineNext /\ db' # db
      BY <3>2, WorkerRows DEF Owed
    <3> QED BY <1>4, <3>1, <3>2
  <2> QED BY <1>0, <2>1, <2>2 DEF Owed
<1>5. ASSUME \/ \E s \in Scans : PostScan(s)
             \/ \E p \in waiting : UNCHANGED <<storeVars, engineVars, api>>
             \/ UNCHANGED vars
      PROVE  db' = db /\ api' = api
  BY <1>5 DEF PostScan, CreateScan, vars, storeVars
<1> QED BY <1>1, <1>2, <1>3, <1>4, <1>5 DEF Next, ApiStep, Pushes

\* A step that leaves the places of t alone.
LEMMA SamePlaces ==
  ASSUME UNCHANGED <<queue, dlq, job>>, waiting \cup due \subseteq waiting' \cup due',
         NEW t, ~Nowhere(t)
  PROVE  ~Nowhere(t)'
<1>1. /\ Listed(t)' = Listed(t) /\ RunningJobs(t)' = RunningJobs(t)
      /\ Dead(t)' = Dead(t) /\ Delayed(t) \subseteq Delayed(t)'
  BY DEF Listed, RunningJobs, Dead, Delayed, InSet
<1> QED BY <1>1 DEF Nowhere

\* A push brings its tasks into the list and takes none out.
LEMMA PushKeeps ==
  ASSUME OnlyDatabaseFails, IInv, NEW r \in Requests,
         PublishHigh(r) \/ PublishStandard(r), UNCHANGED engineVars, NEW t,
         ~Nowhere(t) \/ Pushes(r, t)
  PROVE  ~Nowhere(t)'
<1>0. queue \in Seq(Payload) /\ ~Fault("refuse")
  BY DEF OnlyDatabaseFails, Fault, IInv, TypeOK, QueueTypeOK
<1>1. Delayed(t)' = Delayed(t) /\ RunningJobs(t)' = RunningJobs(t) /\ Dead(t)' = Dead(t)
  <2>1. waiting' = waiting /\ due' = due /\ dlq' = dlq /\ job' = job
    BY DEF PublishHigh, PublishStandard, engineVars
  <2> QED BY <2>1 DEF Delayed, RunningJobs, Dead
<1>2. High[r] \in Seq(Tasks) /\ Standard[r] \in Seq(Tasks)
      /\ IsInjective(High[r]) /\ IsInjective(Standard[r])
  BY RequestsAssumption, FreshTasksAssumption
<1>3. CASE PublishHigh(r)
  <2> DEFINE ps == Reverse(Payloads(High[r]))
  <2>1. ps \in Seq(Payload) /\ (InSeq(ps, t) # {} <=> t \in ToSet(High[r]))
    BY <1>2, PayloadsType, PositionsInPayloads, PositionsInReverse
  <2>2. queue' = ps \o queue
    BY <1>0, <1>3 DEF PublishHigh, LPush
  <2> HIDE DEF ps
  <2>3. Listed(t)' = {} <=> t \notin ToSet(High[r]) /\ Listed(t) = {}
    BY <1>0, <2>1, <2>2, PositionsInConcat DEF Listed
  <2>4. ~PublishStandard(r)
    BY <1>3 DEF PublishHigh, PublishStandard
  <2> QED BY <1>1, <2>3, <2>4 DEF Nowhere, Pushes
<1>4. CASE PublishStandard(r)
  <2> DEFINE ps == Payloads(Standard[r])
  <2>1. ps \in Seq(Payload) /\ (InSeq(ps, t) # {} <=> t \in ToSet(Standard[r]))
    BY <1>2, PayloadsType, PositionsInPayloads
  <2>2. queue' = queue \o ps
    BY <1>0, <1>4 DEF PublishStandard, RPush
  <2> HIDE DEF ps
  <2>3. Listed(t)' = {} <=> t \notin ToSet(Standard[r]) /\ Listed(t) = {}
    BY <1>0, <2>1, <2>2, PositionsInConcat DEF Listed
  <2>4. ~PublishHigh(r)
    BY <1>4 DEF PublishHigh, PublishStandard
  <2> QED BY <1>1, <2>3, <2>4 DEF Nowhere, Pushes
<1> QED BY <1>3, <1>4

\* The fetch loop drops no task when Redis answers.
LEMMA LoopKeeps ==
  ASSUME OnlyDatabaseFails, IInv, RipeIsRead, NEW e \in Engines, LoopStep(e),
         NEW t, ~Nowhere(t)
  PROVE  ~Nowhere(t)'
<1>0. queue \in Seq(Payload) /\ ~Fault("refuse") /\ ~Fault("reply")
  BY DEF OnlyDatabaseFails, Fault, IInv, TypeOK, QueueTypeOK
<1>1. CASE UNCHANGED <<queue, waiting, due, dlq, job>>
  BY <1>1, SamePlaces
<1>2. CASE Pop(e)
  <2>1. /\ queue' = Tail(queue) /\ queue # <<>>
        /\ Delayed(t)' = Delayed(t) /\ Dead(t)' = Dead(t)
    BY <1>2 DEF Pop, Delayed, Dead
  <2>2. CASE Head(queue).task # t
    <3>1. /\ RunningJobs(t)' = RunningJobs(t)
          /\ Listed(t) # {} => Listed(t)' # {}
      BY <1>0, <1>2, <2>1, <2>2, PopPlaces, PositionsInTail DEF Listed
    <3> QED BY <2>1, <3>1 DEF Nowhere
  <2>3. CASE Head(queue).task = t
    <3>1. RunningJobs(t)' # {}
      BY <1>2, <2>3, PopPlaces
    <3> QED BY <3>1 DEF Nowhere
  <2> QED BY <2>2, <2>3
<1>3. CASE MoveDue(e)
  <2>1. /\ queue' = queue \o batch[e] /\ waiting' = waiting /\ due' = due \ ripe[e]
        /\ dlq' = dlq /\ job' = job /\ batch[e] \in Seq(Payload)
        /\ ripe[e] \subseteq ToSet(batch[e])
    BY <1>0, <1>3 DEF MoveDue, MoveDueTasks, RPush, IInv, TypeOK, EngineTypeOK, RipeIsRead
  <2>2. RunningJobs(t)' = RunningJobs(t) /\ Dead(t)' = Dead(t)
    BY <2>1 DEF RunningJobs, Dead
  <2>3. Listed(t)' = {} <=> Listed(t) = {} /\ InSeq(batch[e], t) = {}
    BY <1>0, <2>1, PositionsInConcat DEF Listed
  <2>4. Delayed(t) # {} => Delayed(t)' # {} \/ InSeq(batch[e], t) # {}
    BY <2>1 DEF Delayed, InSet, InSeq, ToSet
  <2> QED BY <2>2, <2>3, <2>4 DEF Nowhere
<1>4. CASE PopNothing(e) \/ Acquire(e) \/ Block(e) \/ ReadDue(e)
  BY <1>0, <1>1, <1>4 DEF PopNothing, Acquire, Block, ReadDue, queueVars
<1> QED BY <1>2, <1>3, <1>4 DEF LoopStep

\* A coroutine that ends without an answer hands its task on.
LEMMA JobKeeps ==
  ASSUME OnlyDatabaseFails, IInv, JobsBacked, NEW e \in Engines, NEW j \in Jobs,
         JobStep(e, j), NEW t, ~Nowhere(t), t \notin answered'
  PROVE  ~Nowhere(t)'
<1>0. PICK p \in Payload : p = job[e][j].payload
  BY JobPayload
<1>1. job[e][j] # Idle /\ ~Fault("refuse")
  BY JobPayload DEF OnlyDatabaseFails, Fault
<1>2. Finish(e, j) => /\ RunningJobs(t)' = RunningJobs(t) \ {<<e, j>>}
                      /\ p.task = t <=> <<e, j>> \in RunningJobs(t)
  BY <1>0, <1>1, RunningEnds
<1>3. CASE SendRequest(e, j) \/ Answer(e, j) \/ (Save(e, j) /\ ~Finish(e, j))
  <2>1. RunningJobs(t)' = RunningJobs(t) /\ UNCHANGED queueVars
    BY <1>3, JobContinues
  <2> QED BY <2>1 DEF queueVars, Nowhere, Listed, Delayed, Dead
<1>4. CASE Save(e, j) /\ Finish(e, j)
  <2>1. job'[e][j] = Idle /\ UNCHANGED queueVars /\ answered' = answered
    BY <1>1, <1>4, RunningEnds DEF Save, worldVars
  <2>2. job[e][j].ok
    <3>1. job[e][j].ok \in BOOLEAN
      BY JobPayload
    <3>2. \A pc \in JobSteps, ok \in BOOLEAN : ~Continue(e, j, pc, ok)
      BY <1>1, <2>1, RunningContinues
    <3> QED BY <1>4, <3>1, <3>2 DEF Save, AfterSave, JobSteps
  <2>3. p.task \in answered
    BY <1>0, <1>1, <1>4, <2>2 DEF JobsBacked, Backed, Save, At
  <2>4. RunningJobs(t)' = RunningJobs(t)
    BY <1>2, <1>4, <2>1, <2>3
  <2> QED BY <2>1, <2>4 DEF queueVars, Nowhere, Listed, Delayed, Dead
<1>5. CASE ScheduleRetry(e, j)
  <2>1. /\ Finish(e, j) /\ queue' = queue /\ dlq' = dlq
        /\ waiting' = waiting \cup {[p EXCEPT !.attempt = @ + 1]}
        /\ due' = due \ {[p EXCEPT !.attempt = @ + 1]}
    BY <1>0, <1>1, <1>5 DEF ScheduleRetry, ZAdd
  <2>2. Delayed(t) # {} => Delayed(t)' # {}
    BY <2>1 DEF Delayed, InSet
  <2>3. p.task = t => Delayed(t)' # {}
    <3>1. [p EXCEPT !.attempt = @ + 1].task = p.task
      BY DEF Payload
    <3> QED BY <2>1, <3>1 DEF Delayed, InSet
  <2>4. Listed(t)' = Listed(t) /\ Dead(t)' = Dead(t)
    BY <2>1 DEF Listed, Dead
  <2> QED BY <1>2, <2>1, <2>2, <2>3, <2>4 DEF Nowhere
<1>6. CASE DeadLetter(e, j)
  <2>1. /\ Finish(e, j) /\ UNCHANGED <<queue, waiting, due>>
        /\ dlq' = Append(dlq, p) /\ dlq \in Seq(Payload)
    BY <1>0, <1>1, <1>6 DEF DeadLetter, SendToDlq, IInv, TypeOK, QueueTypeOK
  <2>2. Listed(t)' = Listed(t) /\ Delayed(t)' = Delayed(t)
    BY <2>1 DEF Listed, Delayed
  <2>3. /\ p.task # t => InSeq(Append(dlq, p), t) = InSeq(dlq, t)
        /\ p.task = t => InSeq(Append(dlq, p), t) = InSeq(dlq, t) \cup {Len(dlq) + 1}
    BY <2>1, PositionsInAppend
  <2>4. (Dead(t) # {} => Dead(t)' # {}) /\ (p.task = t => Dead(t)' # {})
    BY <2>1, <2>3 DEF Dead
  <2> QED BY <1>2, <2>1, <2>2, <2>4 DEF Nowhere
<1> QED BY <1>3, <1>4, <1>5, <1>6 DEF JobStep

\* Nobody stops a worker, and none stops by itself.
LEMMA ProcessKeeps ==
  ASSUME OnlyDatabaseFails, IInv, WorkersStay, SInv, NEW e \in Engines, ProcessStep(e)
  PROVE  Start(e)
<1>1. ~Fault("crash") /\ ~Fault("signal")
  BY DEF OnlyDatabaseFails, Fault
<1>2. ~Exit(e)
  BY DEF Exit, WorkersStay
<1>3. stopper[e] = "none"
  BY DEF SInv, Serving
<1> QED BY <1>1, <1>2, <1>3 DEF ProcessStep, Crash, Signal, StopHeartbeat, CloseClient

\* Every step keeps what is owed somewhere.
LEMMA OwedStep ==
  ASSUME OnlyDatabaseFails, IInv, Fresh, SInv, KInv, [Next]_vars
  PROVE  OwedAreKept'
<1> SUFFICES ASSUME NEW t \in Tasks, Owed(t)' PROVE ~Nowhere(t)'
  BY DEF OwedAreKept
<1>0. t \notin answered' /\ ~Fault("crash")
  BY DEF Owed, OnlyDatabaseFails, Fault
<1>1. ASSUME NEW r \in Requests, PublishHigh(r) \/ PublishStandard(r),
             ~Nowhere(t) \/ Pushes(r, t)
      PROVE  ~Nowhere(t)'
  <2>1. UNCHANGED engineVars
    BY <1>1 DEF PublishHigh, PublishStandard
  <2> QED BY <1>1, <2>1, PushKeeps
<1>2. CASE ~Owed(t)
  <2>1. PICK r \in Requests : Pushes(r, t)
    BY <1>0, <1>2, RowsAfter DEF ApiCrash
  <2> QED BY <1>1, <2>1 DEF Pushes
<1>3. CASE Owed(t)
  <2>1. ~Nowhere(t)
    BY <1>3 DEF KInv, OwedAreKept
  <2>2. ASSUME NEW e \in Engines, LoopStep(e) PROVE ~Nowhere(t)'
    BY <2>1, <2>2, LoopKeeps DEF KInv
  <2>3. ASSUME NEW e \in Engines, NEW j \in Jobs, JobStep(e, j) PROVE ~Nowhere(t)'
    BY <1>0, <2>1, <2>3, JobKeeps DEF SInv
  <2>4. ASSUME NEW e \in Engines, ProcessStep(e) PROVE ~Nowhere(t)'
    <3>1. Start(e)
      BY <2>4, ProcessKeeps DEF KInv
    <3> QED BY <2>1, <3>1, SamePlaces DEF Start, queueVars
  <2>5. ASSUME NEW p \in waiting, BecomeDue(p), UNCHANGED <<storeVars, engineVars, api>>
        PROVE  ~Nowhere(t)'
    BY <2>1, <2>5, SamePlaces DEF BecomeDue, engineVars
  <2>6. ASSUME \/ \E s \in Scans : PostScan(s)
               \/ \E r \in Requests : SubmitTasks(r) \/ ApiCrash(r)
               \/ UNCHANGED vars
        PROVE  UNCHANGED <<queue, waiting, due, dlq, job>>
    BY <2>6 DEF PostScan, SubmitTasks, ApiCrash, vars, queueVars, engineVars
  <2>7. CASE UNCHANGED <<queue, waiting, due, dlq, job>>
    BY <2>1, <2>7, SamePlaces
  <2> QED BY <1>1, <2>1, <2>2, <2>3, <2>4, <2>5, <2>6, <2>7 DEF Next, EngineNext, ApiStep
<1> QED BY <1>2, <1>3

\* Every step keeps the workers up.
LEMMA StayStep ==
  ASSUME OnlyDatabaseFails, IInv, SInv, KInv, [Next]_vars
  PROVE  WorkersStay'
<1>0. /\ WorkersStay /\ loop \in [Engines -> {"off", "top", "blocked", "poll", "move", "pop"}]
      /\ running \in [Engines -> BOOLEAN]
  BY DEF KInv, IInv, TypeOK, EngineTypeOK
<1>1. CASE UNCHANGED <<loop, running>>
  BY <1>0, <1>1 DEF WorkersStay
<1>2. ASSUME NEW e \in Engines, LoopStep(e) PROVE WorkersStay'
  <2>1. /\ running' = running /\ loop[e] # "off"
        /\ \E pc \in {"top", "blocked", "poll", "move", "pop"} :
             loop' = [loop EXCEPT ![e] = pc]
    BY <1>2 DEF LoopStep, Acquire, Block, ReadDue, MoveDue, Pop, PopNothing
  <2> QED BY <1>0, <2>1 DEF WorkersStay
<1>3. ASSUME NEW e \in Engines, ProcessStep(e) PROVE WorkersStay'
  <2>1. Start(e)
    BY <1>3, ProcessKeeps DEF KInv
  <2> QED BY <1>0, <2>1 DEF Start, WorkersStay
<1>4. ASSUME NEW e \in Engines, NEW j \in Jobs, JobStep(e, j) PROVE UNCHANGED <<loop, running>>
  BY <1>4 DEF JobStep, SendRequest, Answer, Save, ScheduleRetry, DeadLetter
<1>5. ASSUME \/ \E s \in Scans : PostScan(s)
             \/ \E r \in Requests : ApiStep(r) \/ ApiCrash(r)
             \/ \E p \in waiting : UNCHANGED <<storeVars, engineVars, api>>
             \/ UNCHANGED vars
      PROVE  UNCHANGED <<loop, running>>
  BY <1>5 DEF PostScan, ApiStep, SubmitTasks, PublishHigh, PublishStandard, ApiCrash,
              vars, engineVars
<1> QED BY <1>1, <1>2, <1>3, <1>4, <1>5 DEF Next, EngineNext

\* A read takes all due members, and only a later ZADD takes one back.
LEMMA RipeStep ==
  ASSUME FewRetries, OnlyDatabaseFails, IInv, SInv, KInv, [Next]_vars
  PROVE  RipeIsRead'
<1>0. /\ RipeIsRead /\ batch \in [Engines -> Seq(Payload)] /\ ripe \in [Engines -> SUBSET Payload]
  BY DEF KInv, IInv, TypeOK, EngineTypeOK
<1>1. CASE UNCHANGED <<batch, ripe>>
  BY <1>0, <1>1 DEF RipeIsRead
<1>2. ASSUME NEW e \in Engines, ReadDue(e) PROVE RipeIsRead'
  <2>1. CASE UNCHANGED <<batch, ripe>>
    BY <1>1, <2>1
  <2>2. ASSUME NEW ps \in DueReplies, batch' = [batch EXCEPT ![e] = ps],
               ripe' = [ripe EXCEPT ![e] = due]
        PROVE  RipeIsRead'
    <3>1. ToSet(ps) = due
      BY FewDue, WholeReply DEF KInv
    <3> QED BY <1>0, <2>2, <3>1 DEF RipeIsRead
  <2> QED BY <1>2, <2>1, <2>2 DEF ReadDue
<1>3. ASSUME NEW e \in Engines, MoveDue(e) PROVE RipeIsRead'
  <2>1. ripe' = [ripe EXCEPT ![e] = {}] /\ batch' = [batch EXCEPT ![e] = <<>>]
    BY <1>3 DEF MoveDue
  <2> QED BY <1>0, <2>1 DEF RipeIsRead
<1>4. ASSUME NEW e \in Engines, NEW j \in Jobs, JobStep(e, j) PROVE RipeIsRead'
  <2>1. batch' = batch /\ (ripe' = ripe \/ \E q : ripe' = [f \in Engines |-> ripe[f] \ {q}])
    BY <1>4 DEF JobStep, SendRequest, Answer, Save, ScheduleRetry, DeadLetter
  <2> QED BY <1>0, <2>1 DEF RipeIsRead
<1>5. ASSUME NEW e \in Engines, ProcessStep(e) PROVE UNCHANGED <<batch, ripe>>
  BY <1>5, ProcessKeeps DEF KInv, Start
<1>6. ASSUME NEW e \in Engines, LoopStep(e), ~ReadDue(e), ~MoveDue(e)
      PROVE  UNCHANGED <<batch, ripe>>
  BY <1>6 DEF LoopStep, Acquire, Block, Pop, PopNothing
<1>7. ASSUME \/ \E s \in Scans : PostScan(s)
             \/ \E r \in Requests : ApiStep(r) \/ ApiCrash(r)
             \/ \E p \in waiting : UNCHANGED <<storeVars, engineVars, api>>
             \/ UNCHANGED vars
      PROVE  UNCHANGED <<batch, ripe>>
  BY <1>7 DEF PostScan, ApiStep, SubmitTasks, PublishHigh, PublishStandard, ApiCrash,
              vars, engineVars
<1> QED BY <1>1, <1>2, <1>3, <1>4, <1>5, <1>6, <1>7 DEF Next, EngineNext

\* Only a retry enters the sorted set.
LEMMA RetriedStep ==
  ASSUME IInv, KInv, [Next]_vars
  PROVE  DelayedAreRetried'
<1>0. DelayedAreRetried
  BY DEF KInv
<1>1. CASE waiting' \cup due' \subseteq waiting \cup due
  BY <1>0, <1>1 DEF DelayedAreRetried
<1>2. ASSUME NEW e \in Engines, NEW j \in Jobs, ScheduleRetry(e, j)
      PROVE  DelayedAreRetried'
  <2>1. PICK p \in Payload : p = job[e][j].payload
    BY <1>2, JobPayload DEF JobStep
  <2>2. PICK q \in Payload : q = [p EXCEPT !.attempt = @ + 1]
    BY RetryPayload
  <2>3. p.attempt < RetryCount[p.task] /\ waiting' \cup due' \subseteq waiting \cup due \cup {q}
    BY <1>2, <2>1, <2>2 DEF ScheduleRetry, ZAdd
  <2>4. q.task = p.task /\ q.attempt = p.attempt + 1 /\ p.attempt \in Nat /\ p.task \in Tasks
    BY <2>2 DEF Payload
  <2>5. q \in Retried
    BY <2>3, <2>4, RetryCountAssumption DEF Retried
  <2> QED BY <1>0, <2>3, <2>5 DEF DelayedAreRetried
<1>3. ASSUME NEW e \in Engines,
             \/ LoopStep(e) \/ ProcessStep(e)
             \/ \E j \in Jobs : JobStep(e, j) /\ ~ScheduleRetry(e, j)
      PROVE  waiting' \cup due' \subseteq waiting \cup due
  BY <1>3 DEF LoopStep, ProcessStep, JobStep, Acquire, Block, ReadDue, MoveDue,
              MoveDueTasks, Pop, PopNothing, Start, Exit, Crash, Vanish, Signal,
              StopHeartbeat, CloseClient, SendRequest, Answer, Save, DeadLetter, queueVars
<1>4. ASSUME \/ \E s \in Scans : PostScan(s)
             \/ \E r \in Requests : ApiStep(r) \/ ApiCrash(r)
             \/ UNCHANGED vars
      PROVE  waiting' \cup due' \subseteq waiting \cup due
  BY <1>4 DEF PostScan, ApiStep, SubmitTasks, PublishHigh, PublishStandard, ApiCrash,
              vars, queueVars
<1>5. ASSUME NEW p \in waiting, BecomeDue(p)
      PROVE  waiting' \cup due' \subseteq waiting \cup due
  BY <1>5 DEF BecomeDue
<1> QED BY <1>1, <1>2, <1>3, <1>4, <1>5 DEF Next, EngineNext

\* The invariants of ScanExecution_proofs always hold.
LEMMA AlwaysIInv == Spec => [](IInv /\ DelayedFinite /\ Fresh)
<1>1. Init => IInv /\ DelayedFinite /\ Fresh
  BY InitIInv, InitDelayedFinite, InitFresh
<1>2. (IInv /\ DelayedFinite /\ Fresh) /\ [Next]_vars => (IInv /\ DelayedFinite /\ Fresh)'
  BY StepIInv, StepDelayedFinite, StepFresh
<1> QED BY <1>1, <1>2, PTL DEF Spec

\* Nothing that is owed is ever nowhere.
LEMMA AlwaysKInv ==
  ASSUME OnlyDatabaseFails, FewRetries
  PROVE  Spec => []KInv
<1>1. Spec => []SInv
  BY SentInv DEF OnlyDatabaseFails
<1>2. IInv /\ Fresh /\ SInv /\ KInv /\ [Next]_vars => KInv'
  BY OwedStep, StayStep, RipeStep, RetriedStep DEF KInv
<1> QED BY <1>1, <1>2, InitKInv, AlwaysIInv, PTL DEF Spec

\* As long as only the database fails and one reply holds all the retries that
\* can be delayed, a task that was published is in the list, in the sorted set,
\* in a coroutine or in the dead letter list until an execution of it is
\* answered.  This holds for any number of workers.
THEOREM PublishedAreKept ==
  ASSUME OnlyDatabaseFails, FewRetries
  PROVE  Spec => []NothingLost
<1>1. IInv /\ DelayedFinite /\ KInv => NothingLost
  <2> SUFFICES ASSUME IInv, DelayedFinite, KInv, NEW t \in Tasks, Owed(t)
               PROVE  LiveCopies(t) + DeadLetters(t) > 0
    BY DEF NothingLost, Owed
  <2> QED BY SomewhereCounts DEF KInv, OwedAreKept
<1> QED BY <1>1, AlwaysIInv, AlwaysKInv, PTL

-----------------------------------------------------------------------------
(* Rows and payloads: a task whose row does not exist has no payload.       *)

\* Before its rows are committed a task is nowhere; a push follows the commit.
Recorded ==
  /\ \A t \in Tasks : db[t].status = "ABSENT" => Nowhere(t)
  /\ \A r \in Requests : api[r] \in {"high", "standard"} =>
       \A t \in TasksOf(r) : db[t].status # "ABSENT"

\* The initial state satisfies Recorded.
LEMMA InitRecorded == Init => Recorded
<1> SUFFICES ASSUME Init PROVE Recorded
  OBVIOUS
<1>1. \A t \in Tasks : Nowhere(t)
  <2>1. \A e \in Engines, j \in Jobs : job[e][j] = Idle
    BY DEF Init, EngineInit, NoJobs
  <2>2. \A t \in Tasks : RunningJobs(t) = {}
    BY <2>1 DEF RunningJobs
  <2>3. \A t \in Tasks : Listed(t) = {} /\ Dead(t) = {} /\ Delayed(t) = {}
    BY DEF Init, QueueInit, Listed, Delayed, Dead, InSeq, InSet
  <2> QED BY <2>2, <2>3 DEF Nowhere
<1> QED BY <1>1 DEF Init, Recorded

\* A row, once there, stays.
LEMMA RowsStay ==
  ASSUME IInv, [Next]_vars, NEW t \in Tasks, db[t].status # "ABSENT"
  PROVE  db'[t].status # "ABSENT"
<1>0. db \in [Tasks -> Row]
  BY DEF IInv, TypeOK, StoreTypeOK
<1>1. ASSUME NEW e \in Engines, NEW j \in Jobs, Save(e, j) PROVE db'[t].status # "ABSENT"
  <2>1. PICK u : u = job[e][j].payload.task
    OBVIOUS
  <2>2. \/ db' = db
        \/ \E n : db' = [db EXCEPT ![u] =
                      [status |-> IF job[e][j].ok THEN "SUCCESS" ELSE "FAILED",
                       attempts |-> n,
                       response |-> IF job[e][j].ok THEN "body" ELSE "error"]]
    BY <1>1, <2>1 DEF Save, SaveResponse, storeVars
  <2>3. ASSUME NEW n, db' = [db EXCEPT ![u] =
                      [status |-> IF job[e][j].ok THEN "SUCCESS" ELSE "FAILED",
                       attempts |-> n,
                       response |-> IF job[e][j].ok THEN "body" ELSE "error"]]
        PROVE  db'[t].status # "ABSENT"
    BY <1>0, <2>3
  <2> QED BY <2>2, <2>3
<1>2. ASSUME NEW r \in Requests, SubmitTasks(r) PROVE db'[t].status # "ABSENT"
  BY <1>2 DEF SubmitTasks, InsertTasks, NewRow, storeVars
<1>3. CASE db' = db
  BY <1>3
<1>4. ASSUME NEW e \in Engines, \/ LoopStep(e) \/ ProcessStep(e)
                                \/ \E j \in Jobs : JobStep(e, j) /\ ~Save(e, j)
      PROVE  db' = db
  BY <1>4 DEF LoopStep, ProcessStep, JobStep, Acquire, Block, ReadDue, MoveDue, Pop,
              PopNothing, Start, Exit, Crash, Vanish, Signal, StopHeartbeat, CloseClient,
              SendRequest, Answer, ScheduleRetry, DeadLetter, storeVars
<1>5. ASSUME \/ \E s \in Scans : PostScan(s)
             \/ \E r \in Requests : PublishHigh(r) \/ PublishStandard(r) \/ ApiCrash(r)
             \/ \E p \in waiting : UNCHANGED <<storeVars, engineVars, api>>
             \/ UNCHANGED vars
      PROVE  db' = db
  BY <1>5 DEF PostScan, CreateScan, PublishHigh, PublishStandard, ApiCrash, vars, storeVars
<1> QED BY <1>1, <1>2, <1>3, <1>4, <1>5 DEF Next, EngineNext, ApiStep

-----------------------------------------------------------------------------
(* The payloads in flight                                                  *)

InFlight ==
  Queued \cup {job[w[1]][w[2]].payload : w \in {x \in Engines \X Jobs : job[x[1]][x[2]] # Idle}}

\* What is in flight is queued or with a coroutine.
LEMMA InFlightElements ==
  \A p : p \in InFlight <=>
    p \in Queued \/ \E e \in Engines, j \in Jobs : job[e][j] # Idle /\ p = job[e][j].payload
<1>1. ASSUME NEW e \in Engines, NEW j \in Jobs, job[e][j] # Idle
      PROVE  job[e][j].payload \in InFlight
  <2>1. <<e, j>> \in {x \in Engines \X Jobs : job[x[1]][x[2]] # Idle}
    BY <1>1
  <2> QED BY <2>1 DEF InFlight
<1> QED BY <1>1 DEF InFlight

\* The payloads of t, and the three places they can be in.
LEMMA LivePayloadsAre ==
  ASSUME NEW t
  PROVE  /\ LivePayloads(t) = InSet(InFlight, t)
         /\ LivePayloads(t) = {} <=>
              Listed(t) = {} /\ Delayed(t) = {} /\ RunningJobs(t) = {}
<1>1. LivePayloads(t) = InSet(InFlight, t)
  <2>1. ASSUME NEW p, p.task = t
        PROVE  p \in {job[w[1]][w[2]].payload : w \in RunningJobs(t)}
                 <=> \E w \in Engines \X Jobs :
                       job[w[1]][w[2]] # Idle /\ p = job[w[1]][w[2]].payload
    BY <2>1 DEF RunningJobs
  <2> QED BY <2>1 DEF LivePayloads, InFlight, Queued, InSet
<1>2. InSet(Queued, t) = {} <=> Listed(t) = {} /\ Delayed(t) = {}
  BY DEF InSet, Queued, Listed, Delayed, InSeq, ToSet
<1>3. RunningJobs(t) = {} <=>
        ~ \E e \in Engines, j \in Jobs : job[e][j] # Idle /\ job[e][j].payload.task = t
  <2>1. ASSUME NEW e \in Engines, NEW j \in Jobs, job[e][j] # Idle, job[e][j].payload.task = t
        PROVE  <<e, j>> \in RunningJobs(t)
    BY <2>1 DEF RunningJobs
  <2> QED BY <2>1 DEF RunningJobs
<1>4. InSet(InFlight, t) = {} <=> InSet(Queued, t) = {} /\ RunningJobs(t) = {}
  BY <1>3, InFlightElements DEF InSet
<1> QED BY <1>1, <1>2, <1>4

\* A task in one place has one payload, and its attempt counts the tries.
LEMMA TriesAre ==
  ASSUME IInv, NEW t \in Tasks, OnePlace(t)
  PROVE  /\ AtMostOne(LivePayloads(t))
         /\ \A p \in LivePayloads(t) : TriesOf(t) = p.attempt
         /\ LivePayloads(t) = {} => TriesOf(t) = 0
<1>1. AtMostOne(LivePayloads(t))
  <2> SUFFICES ASSUME NEW p \in LivePayloads(t), NEW q \in LivePayloads(t) PROVE p = q
    BY DEF AtMostOne
  <2>1. p \in InFlight /\ p.task = t /\ q \in InFlight /\ q.task = t
    BY LivePayloadsAre DEF InSet
  <2>2. ASSUME NEW x \in InFlight, x.task = t
        PROVE  \/ \E i \in Listed(t) : queue[i] = x
               \/ x \in Delayed(t)
               \/ \E w \in RunningJobs(t) : x = job[w[1]][w[2]].payload
    <3>1. CASE x \in Queued
      BY <2>2, <3>1 DEF Queued, Listed, Delayed, InSeq, InSet, ToSet
    <3>2. ASSUME NEW e \in Engines, NEW j \in Jobs, job[e][j] # Idle, x = job[e][j].payload
          PROVE  \E w \in RunningJobs(t) : x = job[w[1]][w[2]].payload
      <4>1. <<e, j>> \in RunningJobs(t)
        BY <2>2, <3>2 DEF RunningJobs
      <4> QED BY <3>2, <4>1
    <3> QED BY <3>1, <3>2, InFlightElements
  <2> QED BY <2>1, <2>2 DEF OnePlace, AtMostOne
<1> QED BY <1>1 DEF TriesOf, AtMostOne

\* A payload in flight was, or is the first attempt of a task this step pushes,
\* or comes from a retry.
LEMMA InFlightAfter ==
  ASSUME IInv, BatchIsDue, [Next]_vars, NEW p \in InFlight'
  PROVE  \/ p \in InFlight
         \/ \E r \in Requests, t \in Tasks : p = FirstAttempt(t) /\ Pushes(r, t)
         \/ \E e \in Engines, j \in Jobs :
              ScheduleRetry(e, j) /\ p = [job[e][j].payload EXCEPT !.attempt = @ + 1]
<1>1. CASE p \in Queued'
  BY <1>1, QueuedAfter, InFlightElements
<1>2. CASE p \notin Queued'
  <2>1. p \in {job'[w[1]][w[2]].payload :
                  w \in {x \in Engines \X Jobs : job'[x[1]][x[2]] # Idle}}
    BY <1>2 DEF InFlight
  <2>2. PICK e \in Engines, j \in Jobs : job'[e][j] # Idle /\ p = job'[e][j].payload
    BY <2>1
  <2>3. CASE job'[e][j] = job[e][j]
    BY <2>2, <2>3, InFlightElements
  <2>4. CASE Head(queue) \in ToSet(queue) /\ job'[e][j].payload = Head(queue)
    BY <2>2, <2>4, InFlightElements DEF Queued
  <2>5. CASE job[e][j] # Idle /\ job'[e][j].payload = job[e][j].payload
    BY <2>2, <2>5, InFlightElements
  <2> QED BY <2>2, <2>3, <2>4, <2>5, JobAfter
<1> QED BY <1>1, <1>2

\* The step ends the coroutine of p.
Ends(p) ==
  \E e \in Engines, j \in Jobs :
    JobStep(e, j) /\ Finish(e, j) /\ p = job[e][j].payload

\* A payload in flight stays so until its coroutine ends.
LEMMA InFlightStays ==
  ASSUME OnlyDatabaseFails, IInv, SInv, KInv, [Next]_vars, NEW p \in InFlight, ~Ends(p)
  PROVE  p \in InFlight'
<1>0. queue \in Seq(Payload) /\ ~Fault("refuse") /\ ~Fault("reply")
  BY DEF OnlyDatabaseFails, Fault, IInv, TypeOK, QueueTypeOK
<1>i. \A x : x \in InFlight' <=>
        x \in Queued' \/ \E e \in Engines, j \in Jobs : job'[e][j] # Idle /\ x = job'[e][j].payload
  <2>1. ASSUME NEW e \in Engines, NEW j \in Jobs, job'[e][j] # Idle
        PROVE  job'[e][j].payload \in InFlight'
    <3>1. <<e, j>> \in {x \in Engines \X Jobs : job'[x[1]][x[2]] # Idle}
      BY <2>1
    <3> QED BY <3>1 DEF InFlight
  <2> QED BY <2>1 DEF InFlight
<1>1. CASE Queued \subseteq Queued' /\ job' = job
  BY <1>1, <1>i, InFlightElements
<1>2. ASSUME NEW e \in Engines, Pop(e) PROVE p \in InFlight'
  <2>1. queue' = Tail(queue) /\ queue # <<>> /\ waiting' = waiting /\ due' = due
    BY <1>2 DEF Pop
  <2>2. PICK j \in Jobs \ Busy(e) : job' = [job EXCEPT ![e][j] =
                 [pc |-> "new", payload |-> Head(queue), ok |-> FALSE]]
    BY <1>2 DEF Pop
  <2>3. job'[e][j] = [pc |-> "new", payload |-> Head(queue), ok |-> FALSE]
    BY <2>2 DEF IInv, TypeOK, EngineTypeOK
  <2>4. job'[e][j] # Idle /\ job'[e][j].payload = Head(queue)
    BY <2>3 DEF Idle
  <2>5. CASE p \in Queued
    <3>1. ToSet(queue) \subseteq ToSet(Tail(queue)) \cup {Head(queue)}
      <4>1. /\ Len(queue) \in Nat \ {0} /\ DOMAIN queue = 1 .. Len(queue)
            /\ Head(queue) = queue[1] /\ DOMAIN Tail(queue) = 1 .. Len(queue) - 1
            /\ \A i \in 1 .. Len(queue) - 1 : Tail(queue)[i] = queue[i + 1]
        BY <1>0, <2>1, EmptySeq, LenProperties, HeadTailProperties
      <4>2. ASSUME NEW i \in 1 .. Len(queue)
            PROVE  queue[i] \in ToSet(Tail(queue)) \cup {Head(queue)}
        <5>1. CASE i = 1
          BY <4>1, <5>1
        <5>2. CASE i # 1
          <6>1. i - 1 \in 1 .. Len(queue) - 1 /\ (i - 1) + 1 = i
            BY <4>1, <5>2
          <6>2. Tail(queue)[i - 1] = queue[i]
            BY <4>1, <6>1
          <6>3. i - 1 \in DOMAIN Tail(queue)
            BY <4>1, <6>1
          <6> QED BY <6>2, <6>3 DEF ToSet
        <5> QED BY <5>1, <5>2
      <4> QED BY <4>1, <4>2 DEF ToSet
    <3>2. p \in Queued' \/ p = Head(queue)
      BY <2>1, <2>5, <3>1 DEF Queued
    <3> QED BY <1>i, <2>4, <3>2
  <2>6. ASSUME NEW f \in Engines, NEW k \in Jobs, job[f][k] # Idle, p = job[f][k].payload
        PROVE  p \in InFlight'
    <3>1. ~(f = e /\ k = j)
      BY <2>2, <2>6 DEF Busy
    <3>2. job'[f][k] = job[f][k]
      BY <2>2, <3>1 DEF IInv, TypeOK, EngineTypeOK
    <3> QED BY <1>i, <2>6, <3>2
  <2> QED BY <2>5, <2>6, InFlightElements
<1>3. ASSUME NEW e \in Engines, MoveDue(e) PROVE Queued \subseteq Queued' /\ job' = job
  <2>1. /\ queue' = queue \o batch[e] /\ waiting' = waiting /\ due' = due \ ripe[e]
        /\ batch[e] \in Seq(Payload) /\ ripe[e] \subseteq ToSet(batch[e]) /\ job' = job
    BY <1>0, <1>3 DEF MoveDue, MoveDueTasks, RPush, IInv, TypeOK, EngineTypeOK, KInv, RipeIsRead
  <2>2. ToSet(queue') = ToSet(queue) \cup ToSet(batch[e])
    BY <1>0, <2>1, ConcatElements
  <2> QED BY <2>1, <2>2 DEF Queued
<1>4. ASSUME NEW e \in Engines, NEW j \in Jobs, JobStep(e, j) PROVE p \in InFlight'
  <2>1. Queued \subseteq Queued'
    BY <1>4 DEF JobStep, SendRequest, Answer, Save, ScheduleRetry, DeadLetter, ZAdd,
                Queued, queueVars
  <2>2. ASSUME NEW f \in Engines, NEW k \in Jobs, job[f][k] # Idle, p = job[f][k].payload
        PROVE  p \in InFlight'
    <3>1. CASE f = e /\ k = j
      <4>1. ~Finish(e, j)
        BY <1>4, <2>2, <3>1 DEF Ends
      <4>2. SendRequest(e, j) \/ Answer(e, j) \/ (Save(e, j) /\ ~Finish(e, j))
        BY <1>4, <4>1 DEF JobStep, ScheduleRetry, DeadLetter
      <4>3. job'[e][j] # Idle /\ job'[e][j].payload = job[e][j].payload
        BY <4>2, JobContinues
      <4> QED BY <1>i, <2>2, <3>1, <4>3
    <3>2. CASE ~(f = e /\ k = j)
      <4>1. \E w : job' = [job EXCEPT ![e][j] = w]
        BY <1>4 DEF JobStep, SendRequest, Answer, Save, AfterSave, ScheduleRetry,
                    DeadLetter, Continue, Finish
      <4>2. job'[f][k] = job[f][k]
        BY <3>2, <4>1 DEF IInv, TypeOK, EngineTypeOK
      <4> QED BY <1>i, <2>2, <4>2
    <3> QED BY <3>1, <3>2
  <2> QED BY <1>i, <2>1, <2>2, InFlightElements
<1>5. ASSUME NEW r \in Requests, PublishHigh(r) \/ PublishStandard(r)
      PROVE  Queued \subseteq Queued' /\ job' = job
  <2>1. /\ Reverse(Payloads(High[r])) \in Seq(Payload)
        /\ Payloads(Standard[r]) \in Seq(Payload)
    BY PayloadsType, RequestsAssumption
  <2>2. /\ ToSet(queue) \subseteq ToSet(Reverse(Payloads(High[r])) \o queue)
        /\ ToSet(queue) \subseteq ToSet(queue \o Payloads(Standard[r]))
    BY <1>0, <2>1, ConcatElements
  <2>3. waiting' = waiting /\ due' = due /\ job' = job
    BY <1>5 DEF PublishHigh, PublishStandard, engineVars
  <2> QED BY <1>5, <2>2, <2>3 DEF PublishHigh, PublishStandard, LPush, RPush, Queued
<1>6. ASSUME NEW x \in waiting, BecomeDue(x), UNCHANGED <<storeVars, engineVars, api>>
      PROVE  Queued \subseteq Queued' /\ job' = job
  BY <1>6 DEF BecomeDue, engineVars, Queued
<1>7. ASSUME NEW e \in Engines, LoopStep(e), ~Pop(e), ~MoveDue(e)
      PROVE  Queued \subseteq Queued' /\ job' = job
  BY <1>0, <1>7 DEF LoopStep, Acquire, Block, ReadDue, PopNothing, queueVars, Queued
<1>8. ASSUME NEW e \in Engines, ProcessStep(e) PROVE Queued \subseteq Queued' /\ job' = job
  BY <1>8, ProcessKeeps DEF KInv, Start, queueVars, Queued
<1>9. ASSUME \/ \E s \in Scans : PostScan(s)
             \/ \E r \in Requests : SubmitTasks(r) \/ ApiCrash(r)
             \/ UNCHANGED vars
      PROVE  Queued \subseteq Queued' /\ job' = job
  BY <1>9 DEF PostScan, SubmitTasks, ApiCrash, vars, queueVars, engineVars, Queued
<1> QED BY <1>1, <1>2, <1>3, <1>4, <1>5, <1>6, <1>7, <1>8, <1>9
        DEF Next, EngineNext, ApiStep

\* Only a coroutine's end adds to the dead letter list.
LEMMA DeadAfter ==
  ASSUME IInv, [Next]_vars, NEW t
  PROVE  \/ Dead(t)' = Dead(t)
         \/ \E e \in Engines, j \in Jobs :
              DeadLetter(e, j) /\ job[e][j].payload.task = t
<1>1. CASE dlq' = dlq
  BY <1>1 DEF Dead
<1>2. ASSUME NEW e \in Engines, NEW j \in Jobs, DeadLetter(e, j), job[e][j].payload.task # t
      PROVE  Dead(t)' = Dead(t)
  <2>1. PICK p \in Payload : p = job[e][j].payload
    BY <1>2, JobPayload DEF JobStep
  <2>2. dlq \in Seq(Payload) /\ (dlq' = dlq \/ dlq' = Append(dlq, p))
    BY <1>2, <2>1 DEF DeadLetter, SendToDlq, IInv, TypeOK, QueueTypeOK
  <2>3. InSeq(Append(dlq, p), t) = InSeq(dlq, t)
    BY <1>2, <2>1, <2>2, PositionsInAppend
  <2> QED BY <2>2, <2>3 DEF Dead
<1>3. ASSUME NEW e \in Engines,
             \/ LoopStep(e) \/ ProcessStep(e)
             \/ \E j \in Jobs : JobStep(e, j) /\ ~DeadLetter(e, j)
      PROVE  dlq' = dlq
  BY <1>3 DEF LoopStep, ProcessStep, JobStep, Acquire, Block, ReadDue, MoveDue, Pop,
       PopNothing, Start, Exit, Crash, Vanish, Signal, StopHeartbeat, CloseClient,
       SendRequest, Answer, Save, ScheduleRetry, MoveDueTasks, queueVars
<1>4. ASSUME \/ \E s \in Scans : PostScan(s)
             \/ \E r \in Requests : ApiStep(r) \/ ApiCrash(r)
             \/ \E p \in waiting : BecomeDue(p)
             \/ UNCHANGED vars
      PROVE  dlq' = dlq
  BY <1>4 DEF PostScan, ApiStep, SubmitTasks, PublishHigh, PublishStandard,
              ApiCrash, BecomeDue, vars, queueVars
<1> QED BY <1>1, <1>2, <1>3, <1>4 DEF Next, EngineNext

\* A task appears somewhere only by its push.
LEMMA RecordedStep ==
  ASSUME IInv, BatchIsDue, Recorded, [Next]_vars
  PROVE  Recorded'
<1>1. ASSUME NEW t \in Tasks, db'[t].status = "ABSENT"
      PROVE  Nowhere(t)'
  <2>1. db[t].status = "ABSENT"
    BY <1>1, RowsStay
  <2>2. Nowhere(t)
    BY <2>1 DEF Recorded
  <2>3. \A e \in Engines, j \in Jobs : job[e][j] # Idle => job[e][j].payload.task # t
    <3>1. ASSUME NEW e \in Engines, NEW j \in Jobs, job[e][j] # Idle, job[e][j].payload.task = t
          PROVE  <<e, j>> \in RunningJobs(t)
      BY <3>1 DEF RunningJobs
    <3> QED BY <2>2, <3>1 DEF Nowhere
  <2>4. \A p \in InFlight : p.task # t
    BY <2>2, LivePayloadsAre DEF InSet, Nowhere
  <2>5. \A r \in Requests : ~Pushes(r, t)
    BY <2>1 DEF Recorded, Pushes, PublishHigh, PublishStandard, TasksOf
  <2>6. ASSUME NEW p \in InFlight' PROVE p.task # t
    <3>1. ASSUME NEW e \in Engines, NEW j \in Jobs, ScheduleRetry(e, j),
                 p = [job[e][j].payload EXCEPT !.attempt = @ + 1]
          PROVE  p.task # t
      <4>1. job[e][j] # Idle /\ job[e][j].payload \in Payload
        BY <3>1, JobPayload DEF JobStep
      <4>2. p.task = job[e][j].payload.task
        BY <3>1, <4>1 DEF Payload
      <4> QED BY <2>3, <4>1, <4>2
    <3>2. ASSUME NEW r \in Requests, NEW u \in Tasks, p = FirstAttempt(u), Pushes(r, u)
          PROVE  p.task # t
      BY <2>5, <3>2 DEF FirstAttempt
    <3> QED BY <2>4, <3>1, <3>2, InFlightAfter
  <2>7. Dead(t)' = {}
    <3>1. ASSUME NEW e \in Engines, NEW j \in Jobs, DeadLetter(e, j)
          PROVE  job[e][j].payload.task # t
      BY <2>3, <3>1, JobPayload DEF JobStep
    <3> QED BY <2>2, <3>1, DeadAfter DEF Nowhere
  <2>8. Listed(t)' = {} /\ Delayed(t)' = {}
    <3>1. \A p \in Queued' : p.task # t
      BY <2>6 DEF InFlight
    <3> QED BY <3>1 DEF Queued, Listed, Delayed, InSeq, InSet, ToSet
  <2>9. RunningJobs(t)' = {}
    <3>1. \A w \in Engines \X Jobs : job'[w[1]][w[2]] # Idle => job'[w[1]][w[2]].payload \in InFlight'
      BY DEF InFlight
    <3> QED BY <2>6, <3>1 DEF RunningJobs
  <2> QED BY <2>7, <2>8, <2>9 DEF Nowhere
<1>2. ASSUME NEW r \in Requests, api'[r] \in {"high", "standard"}, NEW t \in TasksOf(r)
      PROVE  db'[t].status # "ABSENT"
  <2>1. t \in Tasks
    BY RequestsAssumption, LenProperties, ElementOfSeq DEF TasksOf, ToSet
  <2>2. CASE api[r] \in {"high", "standard"}
    BY <2>1, <2>2, RowsStay DEF Recorded
  <2>3. CASE api[r] \notin {"high", "standard"}
    <3>1. SubmitTasks(r)
      <4>1. api'[r] # api[r]
        BY <1>2, <2>3
      <4>2. PICK q \in Requests : ApiStep(q) \/ ApiCrash(q)
        BY <4>1 DEF Next, PostScan, vars
      <4>3. q = r
        BY <4>1, <4>2, ApiRows
      <4> QED BY <2>3, <4>2, <4>3 DEF ApiStep, ApiCrash, PublishHigh, PublishStandard
    <3>2. api'[r] = "high" \/ api'[r] = "done"
      BY <3>1 DEF SubmitTasks, Goto, IInv, TypeOK
    <3>3. InsertTasks(TasksOf(r))
      BY <1>2, <3>1, <3>2 DEF SubmitTasks, Goto, IInv, TypeOK
    <3> QED BY <1>2, <2>1, <3>3 DEF InsertTasks, NewRow
  <2> QED BY <2>2, <2>3
<1> QED BY <1>1, <1>2 DEF Recorded, TasksOf

-----------------------------------------------------------------------------
(* The refinement of TaskLifecycle.  The places of a task determine its     *)
(* phase; a step of the queue or of a worker moves one task at most.        *)

\* Transactions may fail, rollbacks do not.
OnlyTransactionsFail == Faults \subseteq {"db"}

\* What the phase and the tries of a task say about where it is.
PhasesFit ==
  \A t \in Tasks :
    /\ LivePayloads(t) = InSet(InFlight, t)
    /\ \A p \in LivePayloads(t) : TriesOf(t) = p.attempt
    /\ LivePayloads(t) = {} => TriesOf(t) = 0
    /\ Dead(t) # {} => PhaseOf(t) = "dead" /\ LivePayloads(t) = {}
    /\ RunningJobs(t) # {} => PhaseOf(t) = "running"
    /\ Listed(t) # {} \/ Delayed(t) # {} => PhaseOf(t) = "pending"
    /\ Nowhere(t) =>
         /\ LivePayloads(t) = {}
         /\ PhaseOf(t) = IF db[t].status = "ABSENT" THEN "absent"
                         ELSE IF Unpublished(t) THEN "pending" ELSE "answered"

\* The phase the mapping gives a task is that of the place it is in.
LEMMA PhasesFitPlaces == IInv /\ OnePlaces /\ Recorded => PhasesFit
<1> SUFFICES ASSUME IInv, OnePlaces, Recorded, NEW t \in Tasks
             PROVE  /\ LivePayloads(t) = InSet(InFlight, t)
                    /\ \A p \in LivePayloads(t) : TriesOf(t) = p.attempt
                    /\ LivePayloads(t) = {} => TriesOf(t) = 0
                    /\ Dead(t) # {} => PhaseOf(t) = "dead" /\ LivePayloads(t) = {}
                    /\ RunningJobs(t) # {} => PhaseOf(t) = "running"
                    /\ Listed(t) # {} \/ Delayed(t) # {} => PhaseOf(t) = "pending"
                    /\ Nowhere(t) =>
                         /\ LivePayloads(t) = {}
                         /\ PhaseOf(t) = IF db[t].status = "ABSENT" THEN "absent"
                                         ELSE IF Unpublished(t) THEN "pending" ELSE "answered"
  BY DEF PhasesFit
<1>1. OnePlace(t)
  BY DEF OnePlaces
<1>2. /\ LivePayloads(t) = InSet(InFlight, t)
      /\ LivePayloads(t) = {} <=>
           Listed(t) = {} /\ Delayed(t) = {} /\ RunningJobs(t) = {}
  BY LivePayloadsAre
<1>3. /\ \A p \in LivePayloads(t) : TriesOf(t) = p.attempt
      /\ LivePayloads(t) = {} => TriesOf(t) = 0
  BY <1>1, TriesAre
<1>4. DeadLetters(t) = IF Dead(t) # {} THEN 1 ELSE 0
  BY <1>1, OnePlaceCounts
<1>5. /\ Listed(t) # {} => Delayed(t) = {} /\ RunningJobs(t) = {} /\ Dead(t) = {}
      /\ Delayed(t) # {} => RunningJobs(t) = {} /\ Dead(t) = {}
      /\ RunningJobs(t) # {} => Dead(t) = {}
      /\ db[t].status = "ABSENT" => Nowhere(t)
  BY <1>1 DEF OnePlace, Recorded
<1>6. PhaseOf(t) = IF db[t].status = "ABSENT" THEN "absent"
                   ELSE IF Dead(t) # {} THEN "dead"
                   ELSE IF RunningJobs(t) # {} THEN "running"
                   ELSE IF Unpublished(t) \/ LivePayloads(t) # {} THEN "pending"
                   ELSE "answered"
  BY <1>4 DEF PhaseOf
<1> QED BY <1>2, <1>3, <1>5, <1>6 DEF Nowhere

\* The invariants the steps of the refinement need.
LInv ==
  /\ IInv /\ Fresh /\ SInv /\ CInv /\ KInv /\ Recorded /\ NoneFailing /\ PhasesFit

\* The step ends a coroutine of t.
EndsFor(t) ==
  \E e \in Engines, j \in Jobs :
    JobStep(e, j) /\ Finish(e, j) /\ job[e][j].payload.task = t

\* The payloads of a task that is not pushed and no coroutine of which ends.
LEMMA PayloadsSame ==
  ASSUME OnlyDatabaseFails, LInv, LInv', [Next]_vars, NEW t \in Tasks,
         \A r \in Requests : ~Pushes(r, t), ~EndsFor(t)
  PROVE  LivePayloads(t)' = LivePayloads(t)
<1>1. /\ LivePayloads(t) = InSet(InFlight, t)
      /\ LivePayloads(t)' = InSet(InFlight', t)
  BY DEF LInv, PhasesFit, InSet
<1>2. ASSUME NEW p \in InFlight, p.task = t
      PROVE  p \in InFlight'
  <2>1. ~Ends(p)
    BY <1>2 DEF Ends, EndsFor
  <2> QED BY <1>2, <2>1, InFlightStays DEF LInv
<1>3. ASSUME NEW p \in InFlight', p.task = t
      PROVE  p \in InFlight
  <2>1. ASSUME NEW e \in Engines, NEW j \in Jobs, ScheduleRetry(e, j),
               p = [job[e][j].payload EXCEPT !.attempt = @ + 1]
        PROVE  FALSE
    <3>1. job[e][j].payload \in Payload /\ Finish(e, j) /\ JobStep(e, j)
      BY <2>1, JobPayload DEF JobStep, ScheduleRetry, LInv
    <3>2. p.task = job[e][j].payload.task
      BY <2>1, <3>1 DEF Payload
    <3> QED BY <1>3, <3>1, <3>2 DEF EndsFor
  <2>2. ASSUME NEW r \in Requests, NEW u \in Tasks, p = FirstAttempt(u), Pushes(r, u)
        PROVE  FALSE
    BY <1>3, <2>2 DEF FirstAttempt
  <2> QED BY <2>1, <2>2, InFlightAfter DEF LInv, CInv
<1> QED BY <1>1, <1>2, <1>3 DEF InSet

\* A task whose row, push, payloads and coroutines are as they were.
LEMMA PhaseSame ==
  ASSUME OnlyDatabaseFails, LInv, LInv', [Next]_vars, NEW t \in Tasks,
         \A r \in Requests : ~Pushes(r, t), ~EndsFor(t),
         db'[t].status = "ABSENT" <=> db[t].status = "ABSENT",
         Unpublished(t)' <=> Unpublished(t),
         RunningJobs(t)' = {} <=> RunningJobs(t) = {}
  PROVE  PhaseOf(t)' = PhaseOf(t) /\ TriesOf(t)' = TriesOf(t)
<1>1. LivePayloads(t)' = LivePayloads(t)
  BY PayloadsSame
<1>2. Dead(t)' = Dead(t)
  <2>1. ASSUME NEW e \in Engines, NEW j \in Jobs, DeadLetter(e, j),
               job[e][j].payload.task = t
        PROVE  FALSE
    BY <2>1 DEF EndsFor, JobStep, DeadLetter
  <2> QED BY <2>1, DeadAfter DEF LInv
<1>3. DeadLetters(t)' = DeadLetters(t)
  BY <1>2 DEF DeadLetters, Dead
<1> QED BY <1>1, <1>3 DEF PhaseOf, TriesOf

\* Only the commit of its request makes the row of a task.
LEMMA AbsentAfter ==
  ASSUME IInv, [Next]_vars, NEW t \in Tasks,
         \A r \in Requests : SubmitTasks(r) /\ t \in TasksOf(r) => UNCHANGED storeVars
  PROVE  db'[t].status = "ABSENT" <=> db[t].status = "ABSENT"
<1>1. ASSUME db[t].status = "ABSENT" PROVE db'[t] = db[t]
  <2>1. CASE EngineNext
    BY <1>1, <2>1, WorkerRows
  <2>2. ASSUME NEW r \in Requests, SubmitTasks(r) PROVE db'[t] = db[t]
    <3>1. CASE UNCHANGED storeVars
      BY <3>1 DEF storeVars
    <3>2. CASE t \notin TasksOf(r)
      BY <2>2, <3>2, ApiRows DEF ApiStep
    <3> QED BY <2>2, <3>1, <3>2
  <2>3. ASSUME \/ \E s \in Scans : PostScan(s)
               \/ \E r \in Requests : PublishHigh(r) \/ PublishStandard(r) \/ ApiCrash(r)
               \/ \E p \in waiting : UNCHANGED <<storeVars, engineVars, api>>
               \/ UNCHANGED vars
        PROVE  db' = db
    BY <2>3 DEF PostScan, CreateScan, PublishHigh, PublishStandard, ApiCrash, vars, storeVars
  <2> QED BY <2>1, <2>2, <2>3 DEF Next, ApiStep
<1> QED BY <1>1, RowsStay

\* A step that moves the phase of one task.
LEMMA MoveOfOne ==
  ASSUME NEW t \in Tasks, NEW from, NEW to, NEW n,
         PhaseOf(t) = from, PhaseOf(t)' = to, TriesOf(t)' = n,
         \A u \in Tasks \ {t} : PhaseOf(u)' = PhaseOf(u) /\ TriesOf(u)' = TriesOf(u)
  PROVE  Lifecycle!Move(t, from, to, n)
BY DEF Lifecycle!Move

\* No task changes its phase or its count.
Stutter == \A t \in Tasks : PhaseOf(t)' = PhaseOf(t) /\ TriesOf(t)' = TriesOf(t)

\* The commit of a request submits its tasks, a failed one nothing.
LEMMA SubmitRefines ==
  ASSUME LInv, LInv', [Next]_vars, NEW r \in Requests, SubmitTasks(r)
  PROVE  Lifecycle!Submit(TasksOf(r)) \/ Stutter
<1>1. /\ api[r] = "idle" /\ api \in [Requests -> ApiSteps]
      /\ \A q \in Requests \ {r} : api'[q] = api[q]
      /\ UNCHANGED <<queueVars, engineVars>>
  BY ApiRows DEF SubmitTasks, ApiStep, LInv, IInv, TypeOK
<1>2. \A t : /\ LivePayloads(t)' = LivePayloads(t) /\ DeadLetters(t)' = DeadLetters(t)
             /\ RunningJobs(t)' = RunningJobs(t)
  BY <1>1 DEF queueVars, engineVars, LivePayloads, DeadLetters, RunningJobs
<1>3. ASSUME NEW t PROVE TriesOf(t)' = TriesOf(t)
  <2>1. LivePayloads(t)' = LivePayloads(t)
    BY <1>2
  <2> QED BY <2>1 DEF TriesOf
<1>4. CASE InsertTasks(TasksOf(r)) /\ Goto(r, "high")
  <2>1. api'[r] = "high"
    BY <1>1, <1>4 DEF Goto
  <2>2. ASSUME NEW t \in TasksOf(r), t \in Tasks
        PROVE  PhaseOf(t) = "absent" /\ PhaseOf(t)' = "pending"
    <3>1. db[t].status = "ABSENT"
      BY <1>1, <2>2 DEF LInv, Fresh, Absent
    <3>2. Nowhere(t)
      BY <2>2, <3>1 DEF LInv, Recorded
    <3>3. Nowhere(t)'
      BY <1>1, <3>2 DEF Nowhere, Listed, Delayed, RunningJobs, Dead, queueVars, engineVars
    <3>4. db'[t].status # "ABSENT" /\ Unpublished(t)'
      BY <1>4, <2>1, <2>2 DEF InsertTasks, NewRow, Unpublished
    <3> QED BY <2>2, <3>1, <3>2, <3>3, <3>4 DEF LInv, PhasesFit
  <2>3. ASSUME NEW t \in Tasks, t \notin TasksOf(r)
        PROVE  PhaseOf(t)' = PhaseOf(t)
    <3>1. db'[t] = db[t]
      BY <1>4, <2>3 DEF InsertTasks
    <3>2. Unpublished(t)' <=> Unpublished(t)
      BY <1>1, <2>1, <2>3 DEF Unpublished, TasksOf
    <3> QED BY <1>2, <3>1, <3>2 DEF PhaseOf
  <2>4. TasksOf(r) \subseteq Tasks
    BY RequestsAssumption, LenProperties, ElementOfSeq DEF TasksOf, ToSet
  <2> QED BY <1>3, <2>2, <2>3, <2>4 DEF Lifecycle!Submit
<1>5. CASE UNCHANGED storeVars /\ Goto(r, "done")
  <2>1. api'[r] = "done"
    BY <1>1, <1>5 DEF Goto
  <2>2. \A t : Unpublished(t)' <=> Unpublished(t)
    BY <1>1, <2>1 DEF Unpublished
  <2> QED BY <1>2, <1>3, <1>5, <2>2 DEF Stutter, PhaseOf, storeVars
<1> QED BY <1>4, <1>5 DEF SubmitTasks

\* A push leaves its tasks pending, with no try counted.
LEMMA PushRefines ==
  ASSUME OnlyDatabaseFails, LInv, LInv', [Next]_vars, NEW r \in Requests,
         PublishHigh(r) \/ PublishStandard(r)
  PROVE  Stutter
<1>1. /\ api \in [Requests -> ApiSteps] /\ UNCHANGED <<storeVars, engineVars>>
      /\ \A q \in Requests \ {r} : api'[q] = api[q]
      /\ \/ PublishHigh(r) /\ api[r] = "high" /\ api'[r] = "standard"
         \/ PublishStandard(r) /\ api[r] = "standard" /\ api'[r] = "done"
  BY ApiRows DEF PublishHigh, PublishStandard, Goto, ApiStep, LInv, IInv, TypeOK
<1>2. \A e \in Engines, j \in Jobs : ~(JobStep(e, j) /\ Finish(e, j))
  <2>1. job' = job
    BY <1>1 DEF engineVars
  <2>2. ASSUME NEW e \in Engines, NEW j \in Jobs, JobStep(e, j), Finish(e, j) PROVE FALSE
    <3>1. job[e][j] # Idle /\ job'[e][j] = Idle
      BY <2>2, JobPayload, RunningEnds DEF LInv
    <3> QED BY <2>1, <3>1
  <2> QED BY <2>2
<1>3. ASSUME NEW t \in Tasks, Pushes(r, t)
      PROVE  PhaseOf(t)' = PhaseOf(t) /\ TriesOf(t)' = TriesOf(t)
  <2>0. \/ api[r] = "high" /\ t \in TasksOf(r)
        \/ api[r] = "standard" /\ t \in ToSet(Standard[r]) /\ t \in TasksOf(r)
    BY <1>3 DEF Pushes, PublishHigh, PublishStandard, TasksOf
  <2>1. Awaited(t) /\ Unpublished(t) /\ t \in TasksOf(r)
    BY <2>0 DEF Awaited, Unpublished
  <2>2. Nowhere(t)
    BY <2>1 DEF LInv, CInv, OnePlaces, OnePlace
  <2>3. db[t].status # "ABSENT"
    BY <1>1, <2>1 DEF LInv, Recorded
  <2>4. PhaseOf(t) = "pending" /\ TriesOf(t) = 0
    BY <2>1, <2>2, <2>3 DEF LInv, PhasesFit
  <2>5. ~Nowhere(t)'
    BY <1>1, <1>3, PushKeeps DEF LInv
  <2>6. Delayed(t)' = {} /\ RunningJobs(t)' = {} /\ Dead(t)' = {}
    <3>1. waiting' = waiting /\ due' = due /\ dlq' = dlq /\ job' = job
      BY <1>1 DEF PublishHigh, PublishStandard, engineVars
    <3> QED BY <2>2, <3>1 DEF Nowhere, Delayed, RunningJobs, Dead
  <2>7. Listed(t)' # {}
    BY <2>5, <2>6 DEF Nowhere
  <2>8. PhaseOf(t)' = "pending"
    BY <2>7 DEF LInv, PhasesFit
  <2>9. PICK p \in InFlight' : p.task = t
    BY <2>7 DEF Listed, InSeq, InFlight, Queued, ToSet
  <2>10. p.attempt = 0
    <3>1. p \notin InFlight
      BY <2>2, <2>9 DEF LInv, PhasesFit, InSet
    <3>2. \A e \in Engines, j \in Jobs : ~ScheduleRetry(e, j)
      BY <1>2 DEF JobStep, ScheduleRetry
    <3> QED BY <3>1, <3>2, InFlightAfter DEF LInv, CInv, FirstAttempt
  <2>11. TriesOf(t)' = 0
    <3>1. p \in LivePayloads(t)'
      BY <2>9 DEF LInv, PhasesFit, InSet
    <3> QED BY <2>10, <3>1 DEF LInv, PhasesFit
  <2> QED BY <2>4, <2>8, <2>11
<1>4. ASSUME NEW t \in Tasks, ~Pushes(r, t)
      PROVE  PhaseOf(t)' = PhaseOf(t) /\ TriesOf(t)' = TriesOf(t)
  <2>1. \A q \in Requests : ~Pushes(q, t)
    <3>1. ASSUME NEW q \in Requests, Pushes(q, t) PROVE q = r
      <4>1. api'[q] # api[q]
        BY <1>1, <3>1 DEF Pushes, PublishHigh, PublishStandard, Goto
      <4> QED BY <1>1, <4>1
    <3> QED BY <1>4, <3>1
  <2>2. Unpublished(t)' <=> Unpublished(t)
    BY <1>1, <1>4 DEF Unpublished, Pushes, TasksOf
  <2>3. db' = db /\ RunningJobs(t)' = RunningJobs(t)
    BY <1>1 DEF storeVars, engineVars, RunningJobs
  <2>4. ~EndsFor(t)
    BY <1>2 DEF EndsFor
  <2> QED BY <2>1, <2>2, <2>3, <2>4, PhaseSame
<1> QED BY <1>3, <1>4 DEF Stutter

\* BLPOP dispatches the head of the list.
LEMMA PopRefines ==
  ASSUME OnlyDatabaseFails, LInv, LInv', [Next]_vars, NEW e \in Engines, Pop(e),
         UNCHANGED api
  PROVE  Lifecycle!Dispatch(Head(queue).task)
<1>0. PICK p, t : p = Head(queue) /\ t = p.task
  OBVIOUS
<1>1. p \in ToSet(queue) /\ p \in Payload /\ t \in Tasks
  <2>1. p \in ToSet(queue) /\ p \in Payload
    BY <1>0, HeadTailElements, ElementOfSeq, EmptySeq, LenProperties, HeadTailProperties
       DEF Pop, LInv, IInv, TypeOK, QueueTypeOK, ToSet
  <2> QED BY <1>0, <2>1 DEF Payload
<1>2. PICK j \in Jobs \ Busy(e) : job' = [job EXCEPT ![e][j] =
                 [pc |-> "new", payload |-> p, ok |-> FALSE]]
  BY <1>0 DEF Pop
<1>3. /\ job'[e][j] = [pc |-> "new", payload |-> p, ok |-> FALSE]
      /\ job[e][j] = Idle /\ EngineTypeOK
  BY <1>2 DEF LInv, IInv, TypeOK, EngineTypeOK, Busy
<1>4. job'[e][j] # Idle /\ job'[e][j].payload.task = t
  BY <1>0, <1>3 DEF Idle
<1>5. IInv
  BY DEF LInv
<1>6. RunningJobs(t)' # {}
  BY <1>0, <1>5, PopPlaces
<1>7. ASSUME NEW u \in Tasks \ {t} PROVE RunningJobs(u)' = RunningJobs(u)
  BY <1>0, <1>5, <1>7, PopPlaces
<1>8. db' = db /\ UNCHANGED api
  BY DEF Pop, storeVars
<1>9. \A u \in Tasks, r \in Requests : ~Pushes(r, u)
  BY <1>8 DEF Pushes, PublishHigh, PublishStandard, Goto, LInv, IInv, TypeOK
<1>10. \A u \in Tasks : ~EndsFor(u)
  <2>1. ASSUME NEW f \in Engines, NEW k \in Jobs, JobStep(f, k), Finish(f, k) PROVE FALSE
    <3>1. job[f][k] # Idle /\ job'[f][k] = Idle
      BY <2>1, JobPayload, RunningEnds DEF LInv
    <3> QED BY <1>2, <1>3, <1>4, <3>1 DEF EngineTypeOK
  <2> QED BY <2>1 DEF EndsFor
<1>11. \A u \in Tasks : Unpublished(u)' <=> Unpublished(u)
  BY <1>8 DEF Unpublished
<1>12. \A u \in Tasks \ {t} : PhaseOf(u)' = PhaseOf(u) /\ TriesOf(u)' = TriesOf(u)
  BY <1>7, <1>8, <1>9, <1>10, <1>11, PhaseSame
<1>13. PhaseOf(t) = "pending"
  <2>1. Listed(t) # {}
    BY <1>0, <1>1 DEF Listed, InSeq, ToSet
  <2> QED BY <1>1, <2>1 DEF LInv, PhasesFit
<1>14. PhaseOf(t)' = "running"
  BY <1>1, <1>6 DEF LInv, PhasesFit
<1>15. TriesOf(t)' = TriesOf(t)
  <2>1. LivePayloads(t)' = LivePayloads(t)
    BY <1>1, <1>9, <1>10, PayloadsSame
  <2> QED BY <2>1 DEF TriesOf
<1>16. Lifecycle!Move(t, "pending", "running", TriesOf(t))
  BY <1>1, <1>12, <1>13, <1>14, <1>15, MoveOfOne
<1> QED BY <1>0, <1>1, <1>16 DEF Lifecycle!Dispatch

\* A step that neither pushes, takes nor ends anything.
LEMMA QuietRefines ==
  ASSUME OnlyDatabaseFails, LInv, LInv', [Next]_vars, UNCHANGED api,
         \A r \in Requests : ~SubmitTasks(r),
         \A t \in Tasks : RunningJobs(t)' = RunningJobs(t),
         \A e \in Engines, j \in Jobs : ~(JobStep(e, j) /\ Finish(e, j))
  PROVE  Stutter
<1> SUFFICES ASSUME NEW t \in Tasks
             PROVE  PhaseOf(t)' = PhaseOf(t) /\ TriesOf(t)' = TriesOf(t)
  BY DEF Stutter
<1>1. \A r \in Requests : ~Pushes(r, t)
  BY DEF Pushes, PublishHigh, PublishStandard, Goto, LInv, IInv, TypeOK
<1>2. ~EndsFor(t)
  BY DEF EndsFor
<1>3. Unpublished(t)' <=> Unpublished(t)
  BY DEF Unpublished
<1>4. db'[t].status = "ABSENT" <=> db[t].status = "ABSENT"
  BY AbsentAfter DEF LInv
<1> QED BY <1>1, <1>2, <1>3, <1>4, PhaseSame

\* A coroutine ends its task's execution, or goes on with it.
LEMMA JobRefines ==
  ASSUME OnlyDatabaseFails, LInv, LInv', [Next]_vars, NEW e \in Engines, NEW j \in Jobs,
         JobStep(e, j), UNCHANGED api
  PROVE  Stutter \/ \E t \in Tasks : Lifecycle!Finish(t)
<1>0. IInv /\ ~Fault("refuse")
  BY DEF LInv, OnlyDatabaseFails, Fault
<1>1. PICK p, t : p = job[e][j].payload /\ t = p.task
  OBVIOUS
<1>2. /\ job[e][j] # Idle /\ p \in Payload /\ t \in Tasks /\ p.attempt \in Nat
      /\ <<e, j>> \in RunningJobs(t)
  BY <1>0, <1>1, JobPayload
<1>3. \A r \in Requests : ~SubmitTasks(r)
  BY DEF SubmitTasks, Goto, LInv, IInv, TypeOK
<1>4. ASSUME NEW f \in Engines, NEW k \in Jobs, JobStep(f, k), Finish(f, k)
      PROVE  f = e /\ k = j
  <2>1. job[f][k] # Idle /\ job'[f][k] = Idle
    BY <1>0, <1>4, JobPayload, RunningEnds
  <2>2. \E w : job' = [job EXCEPT ![e][j] = w]
    BY DEF JobStep, SendRequest, Answer, Save, AfterSave, ScheduleRetry,
           DeadLetter, Continue, Finish
  <2> QED BY <1>0, <2>1, <2>2 DEF IInv, TypeOK, EngineTypeOK
<1>5. CASE ~Finish(e, j)
  <2>1. SendRequest(e, j) \/ Answer(e, j) \/ (Save(e, j) /\ ~Finish(e, j))
    BY <1>5 DEF JobStep, ScheduleRetry, DeadLetter
  <2>2. \A u \in Tasks : RunningJobs(u)' = RunningJobs(u)
    BY <1>0, <2>1, JobContinues
  <2>3. \A f \in Engines, k \in Jobs : ~(JobStep(f, k) /\ Finish(f, k))
    BY <1>4, <1>5
  <2> QED BY <1>3, <2>2, <2>3, QuietRefines
<1>6. CASE Finish(e, j)
  <2>1. /\ \A u \in Tasks : RunningJobs(u)' = RunningJobs(u) \ {<<e, j>>}
        /\ \A u \in Tasks \ {t} : <<e, j>> \notin RunningJobs(u)
    <3>1. ASSUME NEW u \in Tasks
          PROVE  /\ RunningJobs(u)' = RunningJobs(u) \ {<<e, j>>}
                 /\ <<e, j>> \in RunningJobs(u) <=> job[e][j].payload.task = u
      BY <1>0, <1>2, <1>6, RunningEnds
    <3> QED BY <1>1, <3>1
  <2>2. \A u \in Tasks, r \in Requests : ~Pushes(r, u)
    BY DEF Pushes, PublishHigh, PublishStandard, Goto, LInv, IInv, TypeOK
  <2>3. ASSUME NEW u \in Tasks \ {t}
        PROVE  PhaseOf(u)' = PhaseOf(u) /\ TriesOf(u)' = TriesOf(u)
    <3>1. ~EndsFor(u)
      BY <1>1, <1>4, <2>3 DEF EndsFor
    <3>2. Unpublished(u)' <=> Unpublished(u)
      BY DEF Unpublished
    <3>3. db'[u].status = "ABSENT" <=> db[u].status = "ABSENT"
      BY <1>0, <1>3, AbsentAfter
    <3>4. RunningJobs(u)' = RunningJobs(u)
      BY <2>1
    <3> QED BY <2>2, <3>1, <3>2, <3>3, <3>4, PhaseSame
  <2>4. /\ OnePlace(t) /\ OnePlace(t)'
        /\ Listed(t) = {} /\ Delayed(t) = {} /\ Dead(t) = {} /\ RunningJobs(t) = {<<e, j>>}
    <3>1. OnePlace(t) /\ OnePlace(t)'
      BY <1>2 DEF LInv, CInv, OnePlaces
    <3> QED BY <1>2, <3>1 DEF OnePlace, AtMostOne
  <2>5. RunningJobs(t)' = {}
    BY <1>2, <2>1, <2>4
  <2>6. PhaseOf(t) = "running" /\ TriesOf(t) = p.attempt
    <3>1. p \in InFlight
      BY <1>1, <1>2, InFlightElements
    <3>2. p \in LivePayloads(t)
      BY <1>1, <1>2, <3>1 DEF LInv, PhasesFit, InSet
    <3> QED BY <1>2, <2>4, <3>2 DEF LInv, PhasesFit
  <2>7. db'[t].status # "ABSENT" /\ ~Unpublished(t)'
    <3>1. db[t].status # "ABSENT"
      BY <1>2, <2>4 DEF LInv, Recorded, Nowhere
    <3>2. ~Awaited(t)
      BY <1>2, <2>4 DEF OnePlace, Nowhere
    <3>3. ~Unpublished(t)'
      BY <3>2 DEF Unpublished, Awaited
    <3> QED BY <1>0, <1>2, <3>1, <3>3, RowsStay
  <2>8. CASE Save(e, j)
    <3>1. Nowhere(t)'
      <4>1. queue' = queue /\ waiting' = waiting /\ due' = due /\ dlq' = dlq
        BY <2>8 DEF Save, queueVars
      <4> QED BY <2>4, <2>5, <4>1 DEF Nowhere, Listed, Delayed, Dead
    <3>2. PhaseOf(t)' = "answered" /\ TriesOf(t)' = 0
      BY <1>2, <2>7, <3>1 DEF LInv, PhasesFit
    <3>3. Lifecycle!Move(t, "running", "answered", 0)
      BY <1>2, <2>3, <2>6, <3>2, MoveOfOne
    <3> QED BY <1>2, <3>3 DEF Lifecycle!Finish, Lifecycle!Succeed
  <2>9. CASE ScheduleRetry(e, j)
    <3>1. PICK q : q = [p EXCEPT !.attempt = @ + 1]
      OBVIOUS
    <3>2. q.task = t /\ q.attempt = p.attempt + 1
      BY <1>1, <1>2, <3>1 DEF Payload
    <3>3. q \in waiting' /\ p.attempt < RetryCount[t]
      BY <1>0, <1>1, <2>9, <3>1 DEF ScheduleRetry, ZAdd
    <3>4. Delayed(t)' # {}
      BY <3>2, <3>3 DEF Delayed, InSet
    <3>5. PhaseOf(t)' = "pending"
      BY <1>2, <3>4 DEF LInv, PhasesFit
    <3>6. TriesOf(t)' = p.attempt + 1
      <4>1. q \in InFlight'
        BY <3>3 DEF InFlight, Queued
      <4>2. q \in LivePayloads(t)'
        BY <1>2, <3>2, <4>1 DEF LInv, PhasesFit, InSet
      <4> QED BY <1>2, <3>2, <4>2 DEF LInv, PhasesFit
    <3>7. Lifecycle!Move(t, "running", "pending", p.attempt + 1)
      BY <1>2, <2>3, <2>6, <3>5, <3>6, MoveOfOne
    <3> QED BY <1>2, <2>6, <3>3, <3>7 DEF Lifecycle!Finish, Lifecycle!Retry
  <2>10. CASE DeadLetter(e, j)
    <3>1. p.attempt >= RetryCount[t]
      BY <1>1, <1>2, <2>10 DEF DeadLetter, LInv, NoneFailing
    <3>2. Dead(t)' # {}
      <4>1. dlq \in Seq(Payload) /\ dlq' = Append(dlq, p)
        BY <1>0, <1>1, <2>10 DEF DeadLetter, SendToDlq, IInv, TypeOK, QueueTypeOK
      <4>2. InSeq(Append(dlq, p), t) = InSeq(dlq, t) \cup {Len(dlq) + 1}
        BY <1>1, <1>2, <4>1, PositionsInAppend
      <4> QED BY <4>1, <4>2 DEF Dead
    <3>3. PhaseOf(t)' = "dead" /\ TriesOf(t)' = 0
      BY <1>2, <3>2 DEF LInv, PhasesFit
    <3>4. Lifecycle!Move(t, "running", "dead", 0)
      BY <1>2, <2>3, <2>6, <3>3, MoveOfOne
    <3> QED BY <1>2, <2>6, <3>1, <3>4 DEF Lifecycle!Finish, Lifecycle!GiveUp
  <2>11. ~SendRequest(e, j) /\ ~Answer(e, j)
    <3>1. job'[e][j] = Idle
      BY <1>0, <1>2, <1>6, RunningEnds
    <3>2. SendRequest(e, j) \/ Answer(e, j) => job'[e][j] # Idle
      BY <1>0, JobContinues
    <3> QED BY <3>1, <3>2
  <2> QED BY <2>8, <2>9, <2>10, <2>11 DEF JobStep
<1> QED BY <1>5, <1>6

\* Every step of the system is a step of the life of one task, or none.
LEMMA StepRefines ==
  ASSUME OnlyTransactionsFail, LInv, LInv', [Next]_vars
  PROVE  [Lifecycle!Next]_(Lifecycle!vars)
<1>0. OnlyDatabaseFails /\ IInv /\ ~Fault("crash")
  BY DEF OnlyTransactionsFail, OnlyDatabaseFails, LInv, Fault
<1>1. ASSUME Stutter PROVE UNCHANGED Lifecycle!vars
  BY <1>1 DEF Stutter, Lifecycle!vars
<1>2. ASSUME NEW r \in Requests, SubmitTasks(r)
      PROVE  [Lifecycle!Next]_(Lifecycle!vars)
  <2>1. TasksOf(r) \in SUBSET Tasks
    BY RequestsAssumption, LenProperties, ElementOfSeq DEF TasksOf, ToSet
  <2>2. Lifecycle!Submit(TasksOf(r)) \/ Stutter
    BY <1>2, SubmitRefines
  <2> QED BY <1>1, <2>1, <2>2 DEF Lifecycle!Next
<1>3. ASSUME NEW r \in Requests, PublishHigh(r) \/ PublishStandard(r)
      PROVE  Stutter
  BY <1>0, <1>3, PushRefines
<1>4. ASSUME NEW e \in Engines, Pop(e), UNCHANGED api
      PROVE  Lifecycle!Next
  <2>1. Head(queue).task \in Tasks
    <3>1. Head(queue) \in Payload
      BY <1>0, <1>4, ElementOfSeq, EmptySeq, LenProperties, HeadTailProperties
         DEF Pop, IInv, TypeOK, QueueTypeOK
    <3> QED BY <3>1 DEF Payload
  <2>2. Lifecycle!Dispatch(Head(queue).task)
    BY <1>0, <1>4, PopRefines
  <2> QED BY <2>1, <2>2 DEF Lifecycle!Next
<1>5. ASSUME NEW e \in Engines, NEW j \in Jobs, JobStep(e, j), UNCHANGED api
      PROVE  Stutter \/ Lifecycle!Next
  <2>1. Stutter \/ \E t \in Tasks : Lifecycle!Finish(t)
    BY <1>0, <1>5, JobRefines
  <2> QED BY <2>1 DEF Lifecycle!Next
<1>6. ASSUME UNCHANGED <<job, api>> PROVE Stutter
  <2>1. \A t \in Tasks : RunningJobs(t)' = RunningJobs(t)
    BY <1>6 DEF RunningJobs
  <2>2. \A r \in Requests : ~SubmitTasks(r)
    BY <1>6 DEF SubmitTasks, Goto, LInv, IInv, TypeOK
  <2>3. ASSUME NEW e \in Engines, NEW j \in Jobs, JobStep(e, j), Finish(e, j) PROVE FALSE
    <3>1. job[e][j] # Idle /\ job'[e][j] = Idle
      BY <1>0, <2>3, JobPayload, RunningEnds
    <3> QED BY <1>6, <3>1
  <2> QED BY <1>0, <1>6, <2>1, <2>2, <2>3, QuietRefines
<1>7. ASSUME NEW e \in Engines, (LoopStep(e) /\ ~Pop(e)) \/ ProcessStep(e)
      PROVE  job' = job
  <2>1. CASE ProcessStep(e)
    <3>1. Start(e)
      BY <1>0, <2>1, ProcessKeeps DEF LInv, KInv
    <3> QED BY <3>1 DEF Start
  <2>2. CASE LoopStep(e) /\ ~Pop(e)
    BY <2>2 DEF LoopStep, Acquire, Block, ReadDue, MoveDue, PopNothing
  <2> QED BY <1>7, <2>1, <2>2
<1>8. ASSUME NEW r \in Requests, ApiCrash(r) PROVE FALSE
  BY <1>0, <1>8 DEF ApiCrash
<1>9. ASSUME \/ \E s \in Scans : PostScan(s)
             \/ \E p \in waiting : BecomeDue(p) /\ UNCHANGED <<storeVars, engineVars, api>>
             \/ UNCHANGED vars
      PROVE  UNCHANGED <<job, api>>
  BY <1>9 DEF PostScan, engineVars, vars
<1> QED BY <1>1, <1>2, <1>3, <1>4, <1>5, <1>6, <1>7, <1>8, <1>9
        DEF Next, EngineNext, ApiStep

\* With one worker, database transactions that may fail and a reply that holds
\* all the retries that can be delayed, each task goes through the life
\* TaskLifecycle promises: its rows make it pending; BLPOP dispatches it; an
\* answered execution ends it; a failed one puts it back with one try more, or
\* in the dead letter list once its retries are used up.  All other steps,
\* those of the sorted set and of the two pushes, are invisible.
THEOREM LifecycleRefined ==
  ASSUME OneWorker, OnlyTransactionsFail, FewRetries
  PROVE  Spec => Lifecycle!Init /\ [][Lifecycle!Next]_(Lifecycle!vars)
<1>1. OnlyDatabaseFails /\ "signal" \notin Faults /\ "rollback" \notin Faults
  BY DEF OnlyTransactionsFail, OnlyDatabaseFails
<1>2. Init => Recorded /\ CInv
  BY InitRecorded, InitCInv
<1>3. OneWorker /\ IInv /\ DelayedFinite /\ (Recorded /\ CInv) /\ [Next]_vars
        => (Recorded /\ CInv)'
  BY RecordedStep, PlacesStep, BatchStep DEF CInv
<1>4. Spec => [](Recorded /\ CInv)
  BY <1>2, <1>3, AlwaysIInv, PTL DEF Spec
<1>5. Spec => []SInv /\ []KInv /\ []NoneFailing
  <2>1. Spec => []SInv
    BY <1>1, SentInv
  <2>2. Spec => []KInv
    BY <1>1, AlwaysKInv
  <2>3. Spec => [](NoneFailing /\ DeadLettersExhausted)
    BY <1>1, NoneFailingInv
  <2> QED BY <2>1, <2>2, <2>3, PTL
<1>6. IInv /\ Fresh /\ SInv /\ CInv /\ KInv /\ Recorded /\ NoneFailing => LInv
  BY PhasesFitPlaces DEF LInv, CInv
<1>7. Spec => []LInv
  BY <1>4, <1>5, <1>6, AlwaysIInv, PTL
<1>8. Init => Lifecycle!Init
  <2> SUFFICES ASSUME Init PROVE Lifecycle!Init
    OBVIOUS
  <2>1. ASSUME NEW t \in Tasks PROVE PhaseOf(t) = "absent" /\ TriesOf(t) = 0
    <3>1. db[t].status = "ABSENT"
      BY DEF Init, StoreInit, Absent
    <3>2. Nowhere(t)
      BY <3>1, InitRecorded DEF Recorded
    <3>3. LivePayloads(t) = {}
      BY <3>2, LivePayloadsAre DEF Nowhere
    <3> QED BY <3>1, <3>3 DEF PhaseOf, TriesOf
  <2> QED BY <2>1 DEF Lifecycle!Init
<1>9. LInv /\ LInv' /\ [Next]_vars => [Lifecycle!Next]_(Lifecycle!vars)
  BY StepRefines
<1> QED BY <1>7, <1>8, <1>9, PTL DEF Spec
=============================================================================
