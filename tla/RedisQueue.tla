----------------------------- MODULE RedisQueue -----------------------------
(***************************************************************************)
(* The Redis structures of executor/queue: the list "tasks:default", the   *)
(* sorted set of delayed retries and the dead letter list, with one        *)
(* operator per command the publisher and the consumer send.  A command is *)
(* atomic; what the clients do between two commands is in WorkerEngine.    *)
(***************************************************************************)
EXTENDS ExecutorModels, Sequences, FiniteSets, SequencesExt

CONSTANT DueBatch  \* how many due members one ZRANGEBYSCORE returns: 50

ASSUME DueBatchAssumption == DueBatch \in Nat \ {0}

VARIABLES
  queue,    \* the list, left end first
  waiting,  \* delayed members whose execute_at is in the future
  due,      \* delayed members whose execute_at has passed
  dlq       \* the dead letter list

queueVars == <<queue, waiting, due, dlq>>

QueueTypeOK ==
  /\ queue \in Seq(Payload)
  /\ waiting \subseteq Payload
  /\ due \subseteq Payload
  /\ dlq \in Seq(Payload)

QueueInit ==
  /\ queue = <<>>
  /\ waiting = {}
  /\ due = {}
  /\ dlq = <<>>

-----------------------------------------------------------------------------
\* RPUSH key p1 .. pn keeps the order of the batch at the right end; LPUSH
\* pushes one after the other, so the batch ends up reversed at the left end.
RPush(ps) == queue' = queue \o ps

LPush(ps) == queue' = Reverse(ps) \o queue

\* What schedule_delayed adds: the score lies in the future.  A member that
\* is already in the set (the same JSON) is not added twice: its score moves.
ZAdd(p) ==
  /\ waiting' = waiting \cup {p}
  /\ due' = due \ {p}

\* Time passes execute_at of p.
BecomeDue(p) ==
  /\ p \in waiting
  /\ waiting' = waiting \ {p}
  /\ due' = due \cup {p}
  /\ UNCHANGED <<queue, dlq>>

\* The replies ZRANGEBYSCORE 0 now LIMIT 0 50 may give.  Scores are not kept,
\* so any order of the due members, and any 50 of them, may come first.
DueReplies ==
  LET n == IF Cardinality(due) < DueBatch THEN Cardinality(due) ELSE DueBatch
  IN {ps \in [1..n -> due] : IsInjective(ps)}

\* Mutant: the due members stay in the sorted set.
MoveWithoutRemoval(ps, old) ==
  /\ RPush(ps)
  /\ UNCHANGED <<waiting, due, dlq>>

\* Mutant: the due members are removed and not pushed.
MoveWithoutPush(ps, old) ==
  /\ due' = due \ old
  /\ UNCHANGED <<queue, waiting, dlq>>

\* MULTI; RPUSH; ZREMRANGEBYSCORE 0 now; EXEC.  old: the members whose score
\* is at most the `now` the consumer took before it read.
MoveDueTasks(ps, old) ==
  /\ RPush(ps)
  /\ due' = due \ old
  /\ UNCHANGED <<waiting, dlq>>

SendToDlq(p) == dlq' = Append(dlq, p)
=============================================================================
