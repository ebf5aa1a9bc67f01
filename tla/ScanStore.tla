------------------------------ MODULE ScanStore ------------------------------
(***************************************************************************)
(* The PostgreSQL side of the executor: the tables scans, tasks and        *)
(* scan_responses as far as the API routes and the worker write them.  A   *)
(* transaction is one step; scan_responses.task_id is UNIQUE.              *)
(***************************************************************************)
EXTENDS ExecutorModels, FiniteSets

CONSTANT Scans

VARIABLES
  scans,  \* the scans that exist
  db      \* db[t]: the row of task t with its response, if any

storeVars == <<scans, db>>

StoreTypeOK ==
  /\ scans \subseteq Scans
  /\ db \in [Tasks -> Row]

StoreInit ==
  /\ scans = {}
  /\ db = [t \in Tasks |-> Absent]

-----------------------------------------------------------------------------
CreateScan(s) ==
  /\ scans' = scans \cup {s}
  /\ db' = db

InsertTasks(ts) ==
  /\ db' = [t \in Tasks |-> IF t \in ts THEN NewRow ELSE db[t]]
  /\ scans' = scans

\* Mutant: task_id of scan_responses is not unique, the row is overwritten.
SaveEveryResponse(t, ok) ==
  /\ db' = [db EXCEPT ![t] =
              [status |-> IF ok THEN "SUCCESS" ELSE "FAILED",
               attempts |-> @.attempts + 1,
               response |-> IF ok THEN "body" ELSE "error"]]
  /\ scans' = scans

\* Mutant: the status is not derived from the outcome.
SaveAsSuccess(t, ok) ==
  /\ db' = IF db[t].response = "none"
             THEN [db EXCEPT ![t] = [status |-> "SUCCESS",
                                     attempts |-> @.attempts + 1,
                                     response |-> IF ok THEN "body" ELSE "error"]]
             ELSE db
  /\ scans' = scans

\* Status, attempts and the response row are one transaction.  A second
\* response for the task violates the unique constraint, one for a task that
\* does not exist the foreign key, and all of it is rolled back.  (Two racing
\* transactions of one task both read the row first; the second to commit
\* fails, so reading and writing may be one step.)
SaveResponse(t, ok) ==
  /\ db' = IF db[t].status # "ABSENT" /\ db[t].response = "none"
             THEN [db EXCEPT ![t] =
                     [status |-> IF ok THEN "SUCCESS" ELSE "FAILED",
                      attempts |-> @.attempts + 1,
                      response |-> IF ok THEN "body" ELSE "error"]]
             ELSE db
  /\ scans' = scans

\* get_scan_progress for the tasks ts of a scan.
WithStatus(ts, S) == Cardinality({t \in ts : db[t].status \in S})

Progress(ts) ==
  [total     |-> WithStatus(ts, TaskStatus),
   completed |-> WithStatus(ts, {"SUCCESS"}),
   failed    |-> WithStatus(ts, {"FAILED"}),
   pending   |-> WithStatus(ts, {"QUEUED"})]
=============================================================================
