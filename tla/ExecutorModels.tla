--------------------------- MODULE ExecutorModels ---------------------------
(***************************************************************************)
(* The data the parts of the executor exchange: the payload in Redis       *)
(* (executor/queue/models.py) and the task row with its response in        *)
(* PostgreSQL (executor/persistence/models.py).                            *)
(***************************************************************************)
EXTENDS Integers

CONSTANTS
  Tasks,      \* task ids (uuid4, one per submitted task)
  RetryCount  \* RetryCount[t]: the retry_count t was submitted with

ASSUME RetryCountAssumption == RetryCount \in [Tasks -> Int]

\* All other fields of a payload are those of its task and never change.
Payload == [task : Tasks, attempt : Nat]

FirstAttempt(t) == [task |-> t, attempt |-> 0]

\* PROCESSING and RETRYING are declared by the enum and written by nobody.
TaskStatus == {"QUEUED", "SUCCESS", "FAILED"}

Row == [status : TaskStatus \cup {"ABSENT"},
        attempts : Nat,
        response : {"none", "body", "error"}]

Absent == [status |-> "ABSENT", attempts |-> 0, response |-> "none"]
NewRow == [status |-> "QUEUED", attempts |-> 0, response |-> "none"]
=============================================================================
