----------------------------- MODULE WorkerPool -----------------------------
(***************************************************************************)
(* executor/worker_manager/manager.py: the pool of engines that the API    *)
(* starts in its own process and stops when it shuts down.  It is meant    *)
(* for an API without Redis; but check_redis_alive, which main.py calls,   *)
(* is not in the class it imports, the exception counts as "no Redis", and *)
(* every API starts a pool.  All of it runs on one event loop: a step ends *)
(* at an await, and the tasks a step makes begin in the order they were    *)
(* made.                                                                   *)
(*                                                                         *)
(* Engines are numbered as they are made.  active_engines holds those that *)
(* were made since it was last cleared: cleared + 1 .. made.               *)
(*                                                                         *)
(* phase[e]: "new" its start() is scheduled, "running" its _running is     *)
(* set, "stopping" inside stop(), "stopped" stop() has returned or raised. *)
(* How a fetch loop that is still in consume() ends is in WorkerEngine.    *)
(* monitor, where _monitor_loop is: "none", "top", "llen" waiting for the  *)
(* length of a queue, "asleep", "ended".                                   *)
(***************************************************************************)
EXTENDS Integers

CONSTANTS
  Limits,   \* the arguments [min, max] a manager may be made with
  Depths    \* the length of a queue.  Nothing in src/ fills these queues.

ASSUME LimitsAssumption == Limits \subseteq [min : Nat, max : Nat]
ASSUME DepthsAssumption == Depths \subseteq Nat

VARIABLES
  limits,   \* min_workers and max_workers
  api,      \* "up", "stopping" inside stop(), "down" when stop() is done
  running,  \* _running
  monitor,
  reads,    \* queues asked so far
  total,    \* and how much they held
  made, cleared, phase,
  calls,    \* engines whose stop() the manager's stop() has yet to call
  waits,    \* those it waits for
  handler   \* the engine a signal is delivered to, or 0

monitorVars == <<monitor, reads, total>>
engineVars == <<made, cleared, phase>>
stopVars == <<calls, waits>>
vars == <<limits, api, running, monitorVars, engineVars, stopVars, handler>>

Active == cleared + 1 .. made
Size == made - cleared
Queues == 4  \* critical, high, medium and low

Least(a, b) == IF a < b THEN a ELSE b

TypeOK ==
  /\ limits \in Limits
  /\ api \in {"up", "stopping", "down"}
  /\ running \in BOOLEAN
  /\ monitor \in {"none", "top", "llen", "asleep", "ended"}
  /\ reads \in 0 .. Queues - 1
  /\ total \in Nat
  /\ made \in Nat /\ cleared \in 0 .. made
  /\ phase \in [1 .. made -> {"new", "running", "stopping", "stopped"}]
  /\ calls \subseteq 1 .. made
  /\ waits \subseteq 1 .. made
  /\ handler \in 0 .. made

Init ==
  /\ limits \in Limits
  /\ api = "up" /\ running = FALSE
  /\ monitor = "none" /\ reads = 0 /\ total = 0
  /\ made = 0 /\ cleared = 0 /\ phase = [e \in 1 .. 0 |-> "new"]
  /\ calls = {} /\ waits = {} /\ handler = 0

(***************************************************************************)
(* Scaling                                                                 *)
(***************************************************************************)

\* _calculate_desired_workers.
Desired(depth) ==
  IF depth >= 10000 THEN 100
  ELSE IF depth >= 1000 THEN 50
  ELSE IF depth >= 100 THEN 10
  ELSE IF depth >= 10 THEN 5
  ELSE limits.min

\* Mutant: the ceiling is not looked at.
SpawnedAll(count) == count

\* How many of count engines _scale_up makes.
Spawned(count) == IF Size >= limits.max THEN 0 ELSE Least(count, limits.max - Size)

ScaleUp(count) ==
  /\ made' = made + Spawned(count)
  /\ phase' = [e \in 1 .. made + Spawned(count) |->
                 IF e <= made THEN phase[e] ELSE "new"]
  /\ UNCHANGED cleared

\* _cleanup_idle_workers asks each engine is_idle, which no engine has: a pass
\* that finds an engine ends here, and no pool that has one is ever scaled.
CleanupRaises == Active # {}

\* The part of the loop after the lengths are known.
Scale(depth) ==
  IF CleanupRaises \/ Size >= Desired(depth)
  THEN UNCHANGED engineVars
  ELSE ScaleUp(Desired(depth) - Size)

(***************************************************************************)
(* The manager                                                             *)
(***************************************************************************)

\* manager.start(), which does not wait for anything.
Start ==
  /\ monitor = "none" /\ ~running /\ api = "up"
  /\ running' = TRUE
  /\ ScaleUp(limits.min)
  /\ monitor' = "top"
  /\ UNCHANGED <<limits, api, reads, total, stopVars, handler>>

\* `while self._running`, and the first length is asked for.
Poll ==
  /\ monitor = "top"
  /\ IF running THEN monitor' = "llen" ELSE monitor' = "ended"
  /\ reads' = 0 /\ total' = 0
  /\ UNCHANGED <<limits, api, running, engineVars, stopVars, handler>>

LastRead == reads + 1 = Queues

\* A length comes back.  After the last one the pass runs to its end.
Read ==
  /\ monitor = "llen"
  /\ \E depth \in Depths :
       IF LastRead
       THEN /\ Scale(total + depth)
            /\ monitor' = "asleep" /\ reads' = 0 /\ total' = 0
       ELSE /\ reads' = reads + 1 /\ total' = total + depth
            /\ UNCHANGED <<monitor, engineVars>>
  /\ UNCHANGED <<limits, api, running, stopVars, handler>>

\* Mutant: what fails in a pass ends the loop.
ReadFailsForGood ==
  /\ monitor = "llen"
  /\ monitor' = "ended" /\ reads' = 0 /\ total' = 0
  /\ UNCHANGED <<limits, api, running, engineVars, stopVars, handler>>

\* Redis fails; the loop logs what went wrong and goes to sleep.
ReadFails ==
  /\ monitor = "llen"
  /\ monitor' = "asleep" /\ reads' = 0 /\ total' = 0
  /\ UNCHANGED <<limits, api, running, engineVars, stopVars, handler>>

Wake ==
  /\ monitor = "asleep"
  /\ monitor' = "top"
  /\ UNCHANGED <<limits, api, running, reads, total, engineVars, stopVars, handler>>

\* Mutant: the loop is left to see for itself that the manager has stopped.
StopWithoutCancel ==
  /\ api = "up" /\ running
  /\ api' = "stopping" /\ running' = FALSE
  /\ calls' = Active
  /\ UNCHANGED <<limits, monitorVars, engineVars, waits, handler>>

\* manager.stop(): the loop is cancelled at its await, and a task made for the
\* stop() of each engine.
Stop ==
  /\ api = "up" /\ running
  /\ api' = "stopping" /\ running' = FALSE
  /\ monitor' = "ended" /\ reads' = 0 /\ total' = 0
  /\ calls' = Active
  /\ UNCHANGED <<limits, engineVars, waits, handler>>

\* gather() has all results, exceptions included.
Stopped ==
  /\ api = "stopping" /\ calls = {} /\ waits = {}
  /\ api' = "down"
  /\ cleared' = made
  /\ UNCHANGED <<limits, running, monitorVars, made, phase, stopVars, handler>>

(***************************************************************************)
(* An engine                                                               *)
(***************************************************************************)

Enters(e, p) == phase' = [phase EXCEPT ![e] = p]

\* engine.start(), which takes the signals for itself.
EngineStarts(e) ==
  /\ phase[e] = "new"
  /\ Enters(e, "running")
  /\ handler' = e
  /\ UNCHANGED <<limits, api, running, monitorVars, made, cleared, stopVars>>

\* Mutant: the manager waits for the end of every stop() it calls, also of
\* one that was over before.
CallStopAndWait(e) ==
  /\ e \in calls /\ phase[e] # "new"
  /\ calls' = calls \ {e} /\ waits' = waits \cup {e}
  /\ IF phase[e] = "running" THEN Enters(e, "stopping") ELSE UNCHANGED phase
  /\ UNCHANGED <<limits, api, running, monitorVars, made, cleared, handler>>

\* The manager calls engine.stop(), which returns at once when _running is not
\* set.  The task of start() was made before and has begun before.
CallStop(e) ==
  /\ e \in calls /\ phase[e] # "new"
  /\ calls' = calls \ {e}
  /\ IF phase[e] = "running"
     THEN Enters(e, "stopping") /\ waits' = waits \cup {e}
     ELSE UNCHANGED <<phase, waits>>
  /\ UNCHANGED <<limits, api, running, monitorVars, made, cleared, handler>>

\* SIGINT or SIGTERM: the engine that started last stops, and no other.
Signal ==
  /\ handler # 0 /\ phase[handler] = "running"
  /\ Enters(handler, "stopping")
  /\ UNCHANGED <<limits, api, running, monitorVars, made, cleared, stopVars, handler>>

\* The tasks of the engine are done, or its stop() has failed: gather() takes
\* an exception of the heartbeat's DELETE or of the client for a result.
StopEnds(e) ==
  /\ phase[e] = "stopping"
  /\ Enters(e, "stopped")
  /\ waits' = waits \ {e}
  /\ UNCHANGED <<limits, api, running, monitorVars, made, cleared, calls, handler>>

Next ==
  \/ Start \/ Poll \/ Read \/ ReadFails \/ Wake \/ Stop \/ Stopped \/ Signal
  \/ \E e \in 1 .. made : EngineStarts(e) \/ CallStop(e) \/ StopEnds(e)

(***************************************************************************)
(* The event loop runs every task that can go on; requests end by timeout, *)
(* so stop() of an engine ends.  Nobody has to stop the API.               *)
(***************************************************************************)
EngineStep ==
  \E e \in 1 .. made : EngineStarts(e) \/ CallStop(e) \/ StopEnds(e)

Fairness ==
  WF_vars(Start) /\ WF_vars(Poll) /\ WF_vars(Read \/ ReadFails) /\ WF_vars(Wake)
  /\ WF_vars(EngineStep) /\ WF_vars(Stopped)

Spec == Init /\ [][Next]_vars /\ Fairness

(***************************************************************************)
(* Properties                                                              *)
(***************************************************************************)

\* While the manager runs, the pool has its minimum of engines and no more
\* than its maximum, whatever the queues hold and whichever engine has been
\* told to stop.
PoolWithinLimits ==
  running => Size <= limits.max /\ Size >= Least(limits.min, limits.max)

\* When stop() is done, wherever it met the loop, every engine of the pool has
\* been told to stop, none will yet start, and the loop will make no more.
NothingLeftRunning ==
  api = "down" =>
    monitor = "ended" /\ \A e \in 1 .. made : phase[e] \in {"stopping", "stopped"}

\* The loop outlives every pass that fails, those its own cleanup breaks and
\* those in which Redis does.
LoopGoesOn == []<>(monitor = "asleep" \/ api # "up")

\* stop() is done in the end, also when a signal has stopped an engine before.
StopGetsDone == api = "stopping" ~> api = "down"
=============================================================================
