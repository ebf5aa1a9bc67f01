---------------------------- MODULE TaskLifecycle ----------------------------
(***************************************************************************)
(* What the queue and the workers promise about each task, with the queue, *)
(* the sorted set and the coroutines left out: a submitted task is run by  *)
(* one worker at a time, again after a failure until its retries are used  *)
(* up, and it ends answered or in the dead letter queue.                   *)
(***************************************************************************)
EXTENDS Integers

CONSTANTS Tasks, RetryCount

VARIABLES phase, tries

vars == <<phase, tries>>

Phases == {"absent", "pending", "running", "answered", "dead"}

LifecycleTypeOK ==
  /\ phase \in [Tasks -> Phases]
  /\ tries \in [Tasks -> Nat]

Init ==
  /\ phase = [t \in Tasks |-> "absent"]
  /\ tries = [t \in Tasks |-> 0]

Move(t, from, to, n) ==
  /\ phase[t] = from
  /\ phase' = [phase EXCEPT ![t] = to]
  /\ tries' = [tries EXCEPT ![t] = n]

\* The tasks of one request appear together.
Submit(ts) ==
  /\ \A t \in ts : phase[t] = "absent"
  /\ phase' = [t \in Tasks |-> IF t \in ts THEN "pending" ELSE phase[t]]
  /\ tries' = tries

Dispatch(t) == Move(t, "pending", "running", tries[t])

Succeed(t) == Move(t, "running", "answered", 0)

Retry(t) ==
  /\ tries[t] < RetryCount[t]
  /\ Move(t, "running", "pending", tries[t] + 1)

GiveUp(t) ==
  /\ tries[t] >= RetryCount[t]
  /\ Move(t, "running", "dead", 0)

Finish(t) == Succeed(t) \/ Retry(t) \/ GiveUp(t)

Next ==
  \/ \E ts \in SUBSET Tasks : Submit(ts)
  \/ \E t \in Tasks : Dispatch(t) \/ Finish(t)

Spec ==
  /\ Init /\ [][Next]_vars
  /\ \A t \in Tasks : WF_vars(Dispatch(t)) /\ WF_vars(Finish(t))
=============================================================================
