-------------------------- MODULE ExecutionIngest ---------------------------
(***************************************************************************)
(* Telemetry ingestion and the two other writers of execution rows.         *)
(*                                                                          *)
(* Ingestion requests (apps/executions/views.py, services.py) run one       *)
(* READ COMMITTED transaction per attempt: resolve the jobs, lock the rows  *)
(* of known executions, read their recorded events, insert the rows of new  *)
(* executions, write everything and commit.  A lost insertion race raises   *)
(* IntegrityError and the view starts over, at most MaxAttempts times.      *)
(* The cancel endpoint reads a row and writes it later without a lock, and  *)
(* so does the reliability evaluator when it discards an execution.         *)
(*                                                                          *)
(* Abstracted: one team and project; clock comparisons of the evaluator are *)
(* choices; incidents, realtime publication and retention are elsewhere.    *)
(***************************************************************************)
EXTENDS TelemetryMerge

CONSTANTS Requests,     \* HTTP ingestion requests, retries by the SDK included
          Users,        \* dashboard users who cancel executions
          Jobs,
          JobOf,        \* the job of an execution
          ExternalId,   \* its external_id, as a position in the order of strings
          Batches,      \* the batches a request may carry
          JobsBefore,   \* the job rows ingestion may find
          MaxAttempts,  \* for attempt in range(3)
          NoRow, NoOne

JobStates == {"absent", "active", "inactive"}
JobTable == [Jobs -> [status: JobStates, verified: BOOLEAN]]

ASSUME IngestAssumption ==
  /\ JobOf \in [Executions -> Jobs]
  /\ ExternalId \in [Executions -> Nat]
  /\ \A x, y \in Executions : JobOf[x] = JobOf[y] /\ ExternalId[x] = ExternalId[y] => x = y
  /\ Batches \subseteq Seq(Events)
  /\ JobsBefore \subseteq {f \in JobTable : \A j \in Jobs : f[j].status = "absent" => ~f[j].verified}
  /\ MaxAttempts \in Nat \ {0}
  /\ NoRow \notin Snapshot
  /\ NoOne \notin Requests \cup Jobs
  /\ Requests \cap Jobs = {}
  /\ Executions \cap Jobs = {}

(* Nor is it one of the shorter records by which the ledger tells a row. *)
ASSUME ViewAssumption == NoRow \notin [status: Statuses, last: Column, by: Writers]

VARIABLES
  jobs,      \* committed Job rows: status and verification_status
  row,       \* committed Execution rows
  log,       \* committed ExecutionEvent rows: the event ids of an execution
  stalled,   \* executions with an ACTIVE STALLED_EXECUTION finding
  holder,    \* row locks and uncommitted insertions: who holds each key
  req,       \* ingestion requests
  user,      \* cancel requests
  eval,      \* evaluate_job_reliability transactions, one per locked job
  counted    \* how often the replies counted each event as accepted

vars == <<jobs, row, log, stalled, holder, req, user, eval, counted>>

Phases == {"idle", "resolve", "select", "lock", "insert", "done"}
Replies == {"none", "ok", "integrity", "deadlock", "lost"}
Actors == Requests \cup Jobs      \* a job stands for its evaluation

RequestState == [pc: Phases, batch: Seq(Events), tries: Nat,
                 valid: SUBSET Jobs, found: SUBSET Executions,
                 read: [Executions -> Snapshot \cup {NoRow}],
                 known: SUBSET Events, reply: Replies]

NoRead == [x \in Executions |-> NoRow]

InitRequest == [pc |-> "idle", batch |-> <<>>, tries |-> 0, valid |-> {},
                found |-> {}, read |-> NoRead, known |-> {}, reply |-> "none"]

IdleEval == [pc |-> "idle", create |-> {}, keep |-> {}, discard |-> {}]
IdleUser == [pc |-> "idle", target |-> {}, edited |-> {}, seen |-> FALSE]

UserState == [pc: {"idle", "read", "evaluate", "edit"}, target: SUBSET Executions,
              edited: SUBSET Jobs, seen: BOOLEAN]

EvalState == [pc: {"idle", "apply"}, create: SUBSET Executions,
              keep: SUBSET Executions, discard: SUBSET Executions]

(* The type invariant: also, a recorded event belongs to its execution, and
   what a user or an evaluation is about to write exists. *)
TypeOK ==
  /\ jobs \in JobTable
  /\ row \in [Executions -> Snapshot \cup {NoRow}]
  /\ log \in [Executions -> SUBSET Events]
  /\ \A x \in Executions : \A e \in log[x] : ExecOf(e) = x
  /\ stalled \in [Executions -> BOOLEAN]
  /\ holder \in [Executions \cup Jobs -> Actors \cup {NoOne}]
  /\ req \in [Requests -> RequestState]
  /\ user \in [Users -> UserState]
  /\ \A u \in Users : \A x \in user[u].target : row[x] # NoRow
  /\ eval \in [Jobs -> EvalState]
  /\ \A j \in Jobs : \A x \in eval[j].discard : row[x] # NoRow
  /\ counted \in [Events -> Nat]

(* Jobs may be absent, as registered by the SDK (unverified) or deactivated. *)
Init ==
  /\ jobs \in JobsBefore
  /\ row = NoRead
  /\ log = [x \in Executions |-> {}]
  /\ stalled = [x \in Executions |-> FALSE]
  /\ holder = [k \in Executions \cup Jobs |-> NoOne]
  /\ req = [r \in Requests |-> InitRequest]
  /\ user = [u \in Users |-> IdleUser]
  /\ eval = [j \in Jobs |-> IdleEval]
  /\ counted = [e \in Events |-> 0]

-----------------------------------------------------------------------------
(* The transaction of an ingestion request. *)

ReleasedBy(a) == [k \in DOMAIN holder |-> IF holder[k] = a THEN NoOne ELSE holder[k]]

JobsNamed(b) == {JobOf[ExecOf(e)] : e \in Range(b)}

(* Executions of the batch whose job accepts events. *)
Keys(r) == {x \in {ExecOf(e) : e \in Range(req[r].batch)} : JobOf[x] \in req[r].valid}

(* unique_items of an execution: neither recorded nor repeated. *)
Fresh(r, x) == EventsOf(req[r].batch, x) \ req[r].known

ToCreate(r) == Keys(r) \ req[r].found
ToUpdate(r) == {x \in req[r].found : Touches(req[r].read[x], Fresh(r, x))}
Accepted(r) == UNION {Fresh(r, x) : x \in Keys(r)}

(* A request arrives with the batch the SDK flushed, or flushed again. *)
Send(r, b) ==
  /\ req[r].pc = "idle"
  /\ req' = [req EXCEPT ![r].pc = "resolve", ![r].batch = b]
  /\ UNCHANGED <<jobs, row, log, stalled, holder, user, eval, counted>>

(* Resolve jobs, creating the missing ones: INSERT ... ON CONFLICT DO NOTHING
   waits for a concurrent creator to end.  Inactive jobs reject their events,
   and a batch without any valid event ends the transaction. *)
ResolveJobs(r) ==
  LET named   == JobsNamed(req[r].batch)
      missing == {j \in named : jobs[j].status = "absent"}
      valid   == missing \cup {j \in named : jobs[j].status = "active"}
  IN  /\ req[r].pc = "resolve"
      /\ \A j \in missing : holder[j] = NoOne
      /\ holder' = [k \in DOMAIN holder |-> IF k \in missing THEN r ELSE holder[k]]
      /\ req' = [req EXCEPT ![r].valid = valid,
                            ![r].pc = IF valid = {} THEN "done" ELSE "select",
                            ![r].reply = IF valid = {} THEN "ok" ELSE "none"]
      /\ UNCHANGED <<jobs, row, log, stalled, user, eval, counted>>

(* The snapshot of SELECT ... FOR UPDATE: the rows it will lock.  The filter
   takes every combination of the job ids and the external ids. *)
SelectRows(r) ==
  LET ids == {ExternalId[x] : x \in Keys(r)}
      of  == {JobOf[x] : x \in Keys(r)}
  IN  /\ req[r].pc = "select"
      /\ req' = [req EXCEPT ![r].pc = "lock",
                   ![r].found = {x \in Executions : /\ row[x] # NoRow
                                                    /\ JobOf[x] \in of /\ ExternalId[x] \in ids}]
      /\ UNCHANGED <<jobs, row, log, stalled, holder, user, eval, counted>>

(* Mutant: the rows are read without FOR UPDATE. *)
LockRowUnlocked(r, x) ==
  /\ req[r].pc = "lock"
  /\ x \in req[r].found /\ req[r].read[x] = NoRow
  /\ req' = [req EXCEPT ![r].read[x] = row[x]]
  /\ UNCHANGED <<jobs, row, log, stalled, holder, user, eval, counted>>

(* It locks them one at a time, in no stated order, and returns the row as it
   is once the lock is granted. *)
LockRow(r, x) ==
  /\ req[r].pc = "lock"
  /\ x \in req[r].found /\ req[r].read[x] = NoRow
  /\ holder[x] = NoOne
  /\ holder' = [holder EXCEPT ![x] = r]
  /\ req' = [req EXCEPT ![r].read[x] = row[x]]
  /\ UNCHANGED <<jobs, row, log, stalled, user, eval, counted>>

(* existing_event_ids of the locked executions. *)
ReadEvents(r) ==
  /\ req[r].pc = "lock"
  /\ \A x \in req[r].found : req[r].read[x] # NoRow
  /\ req' = [req EXCEPT ![r].pc = "insert",
                        ![r].known = UNION {log[x] : x \in req[r].found}]
  /\ UNCHANGED <<jobs, row, log, stalled, holder, user, eval, counted>>

(* Mutant: new executions are inserted in the order the batch lists them. *)
NextInsertAny(r, x) ==
  /\ req[r].pc = "insert"
  /\ x \in ToCreate(r) /\ holder[x] # r

(* bulk_create goes through the new executions in external id order. *)
NextInsert(r, x) ==
  /\ req[r].pc = "insert"
  /\ x \in ToCreate(r) /\ holder[x] # r
  /\ \A y \in ToCreate(r) : holder[y] # r => ExternalId[x] <= ExternalId[y]

(* Mutant: the table has no unique index, the last insertion stands. *)
InsertRowAgain(r, x) ==
  /\ NextInsert(r, x)
  /\ holder[x] = NoOne
  /\ holder' = [holder EXCEPT ![x] = r]
  /\ UNCHANGED <<jobs, row, log, stalled, req, user, eval, counted>>

(* The unique index (job, external_id) makes it wait for an uncommitted
   insertion of the same key. *)
InsertRow(r, x) ==
  /\ NextInsert(r, x)
  /\ row[x] = NoRow /\ holder[x] = NoOne
  /\ holder' = [holder EXCEPT ![x] = r]
  /\ UNCHANGED <<jobs, row, log, stalled, req, user, eval, counted>>

(* Mutant: the view takes the conflict for a duplicate and replies 202. *)
InsertConflictIgnored(r, x) ==
  /\ NextInsert(r, x)
  /\ row[x] # NoRow
  /\ holder' = ReleasedBy(r)
  /\ req' = [req EXCEPT ![r] = [InitRequest EXCEPT
               !.batch = req[r].batch, !.valid = req[r].valid, !.pc = "done", !.reply = "ok"]]
  /\ UNCHANGED <<jobs, row, log, stalled, user, eval, counted>>

(* Mutant: the retry repeats the insertion without selecting the rows again. *)
InsertConflictResume(r, x) ==
  LET raise == req[r].tries + 1 >= MaxAttempts
  IN  /\ NextInsert(r, x)
      /\ row[x] # NoRow
      /\ holder' = ReleasedBy(r)
      /\ req' = [req EXCEPT ![r].tries = @ + 1,
                            ![r].pc = IF raise THEN "done" ELSE "insert",
                            ![r].reply = IF raise THEN "integrity" ELSE "none"]
      /\ UNCHANGED <<jobs, row, log, stalled, user, eval, counted>>

(* Mutant: the retry repeats the insertion without counting attempts. *)
InsertConflictForever(r, x) ==
  /\ NextInsert(r, x)
  /\ row[x] # NoRow
  /\ holder' = ReleasedBy(r)
  /\ UNCHANGED <<jobs, row, log, stalled, req, user, eval, counted>>

(* A committed row with the key: IntegrityError.  The transaction rolls back
   and the view tries again, or raises after the last attempt. *)
InsertConflict(r, x) ==
  LET raise == req[r].tries + 1 >= MaxAttempts
  IN  /\ NextInsert(r, x)
      /\ row[x] # NoRow
      /\ holder' = ReleasedBy(r)
      /\ req' = [req EXCEPT ![r] = [InitRequest EXCEPT
                   !.batch = req[r].batch, !.tries = req[r].tries + 1,
                   !.pc = IF raise THEN "done" ELSE "resolve",
                   !.reply = IF raise THEN "integrity" ELSE "none"]]
      /\ UNCHANGED <<jobs, row, log, stalled, user, eval, counted>>

(* Jobs whose row the commit needs: foreign keys of new rows are checked at
   commit, and unverified jobs are updated. *)
JobsNeeded(r) ==
  {JobOf[x] : x \in ToCreate(r)} \cup
  {j \in {JobOf[ExecOf(e)] : e \in Accepted(r)} : jobs[j].status # "absent" /\ ~jobs[j].verified}

Merged(r) ==
  [x \in Executions |->
     IF x \in ToCreate(r) THEN MergeCreate(req[r].batch, Fresh(r, x))
     ELSE IF x \in ToUpdate(r) THEN MergeUpdate(req[r].read[x], req[r].batch, Fresh(r, x))
     ELSE row[x]]

(* Write rows and events, verify jobs, recover the stalled findings of
   executions that are now over, commit and reply 202. *)
Commit(r) ==
  /\ req[r].pc = "insert"
  /\ \A x \in ToCreate(r) : holder[x] = r
  /\ \A j \in JobsNeeded(r) : eval[j].pc = "idle"
  /\ row' = Merged(r)
  /\ log' = [x \in Executions |-> IF x \in Keys(r) THEN log[x] \cup Fresh(r, x) ELSE log[x]]
  /\ jobs' = [j \in Jobs |->
       IF holder[j] = r THEN [status |-> "active", verified |-> TRUE]
       ELSE [jobs[j] EXCEPT !.verified =
               @ \/ \E e \in Accepted(r) : JobOf[ExecOf(e)] = j]]
  /\ stalled' = [x \in Executions |->
       stalled[x] /\ ~(x \in ToCreate(r) \cup ToUpdate(r) /\ Merged(r)[x].status \in Terminal)]
  /\ counted' = [e \in Events |-> counted[e] + (IF e \in Accepted(r) THEN 1 ELSE 0)]
  /\ holder' = ReleasedBy(r)
  /\ req' = [req EXCEPT ![r] = [InitRequest EXCEPT !.batch = req[r].batch,
                !.tries = req[r].tries, !.valid = req[r].valid,
                !.pc = "done", !.reply = "ok"]]
  /\ UNCHANGED <<user, eval>>

(* The web worker or its connection dies: the transaction is rolled back and
   the SDK gets no reply. *)
Fail(r, reply) ==
  /\ holder' = ReleasedBy(r)
  /\ req' = [req EXCEPT ![r] = [InitRequest EXCEPT !.batch = req[r].batch,
                !.tries = req[r].tries, !.pc = "done", !.reply = reply]]
  /\ UNCHANGED <<jobs, row, log, stalled, user, eval, counted>>

Crash(r) == req[r].pc \notin {"idle", "done"} /\ Fail(r, "lost")

-----------------------------------------------------------------------------
(* evaluate_job_reliability, reduced to what it does to execution rows and
   stalled findings.  It holds the job row throughout. *)

Of(j) == {x \in Executions : JobOf[x] = j}
RunningOf(j) == {x \in Of(j) : row[x] # NoRow /\ row[x].status = "running"}
PendingOf(j) == {x \in Of(j) : row[x] # NoRow /\ row[x].status = "pending"}

(* has_newer_exec is only assigned for a RUNNING execution: with none before
   it, a PENDING one raises UnboundLocalError and the evaluation rolls back. *)
Evaluable(j) == PendingOf(j) = {} \/ RunningOf(j) # {}

(* Which running executions are past their limit and which in-progress ones
   are discarded depends on the clock. *)
StartEvaluation(j) ==
  /\ eval[j].pc = "idle"
  /\ jobs[j].status = "active"
  /\ Evaluable(j)
  /\ \E over \in SUBSET RunningOf(j) :
     \E drop \in SUBSET ((RunningOf(j) \cup PendingOf(j)) \ over) :
       eval' = [eval EXCEPT ![j] = [pc |-> "apply", discard |-> drop,
                                    create |-> {x \in over : ~stalled[x]},
                                    keep   |-> {x \in over : stalled[x]}]]

EvalStart(j) == StartEvaluation(j)
                /\ UNCHANGED <<jobs, row, log, stalled, holder, req, user, counted>>

(* exec_obj.save(update_fields=...) takes the row lock until commit. *)
EvalDiscard(j, x) ==
  /\ eval[j].pc = "apply" /\ x \in eval[j].discard
  /\ holder[x] = NoOne
  /\ holder' = [holder EXCEPT ![x] = j]
  /\ UNCHANGED <<jobs, row, log, stalled, req, user, eval, counted>>

(* Mutant: only ingestion recovers the findings of finished executions. *)
EvalCommitKeeping(j) ==
  /\ eval[j].pc = "apply"
  /\ \A x \in eval[j].discard : holder[x] = j
  /\ \A x \in eval[j].create : holder[x] = NoOne
  /\ row' = [x \in Executions |->
       IF x \in eval[j].discard
       THEN [row[x] EXCEPT !.status = "failed", !.by = "evaluator", !.error = "evaluator"]
       ELSE row[x]]
  /\ stalled' = [x \in Executions |-> stalled[x] \/ x \in eval[j].create]
  /\ holder' = ReleasedBy(j)
  /\ eval' = [eval EXCEPT ![j] = IdleEval]
  /\ UNCHANGED <<jobs, log, req, user, counted>>

(* The commit checks that the executions of new findings still exist, which
   waits for their row locks; findings not confirmed are recovered. *)
EvalCommit(j) ==
  /\ eval[j].pc = "apply"
  /\ \A x \in eval[j].discard : holder[x] = j
  /\ \A x \in eval[j].create : holder[x] = NoOne
  /\ row' = [x \in Executions |->
       IF x \in eval[j].discard
       THEN [row[x] EXCEPT !.status = "failed", !.by = "evaluator", !.error = "evaluator"]
       ELSE row[x]]
  /\ stalled' = [x \in Executions |->
       IF JobOf[x] = j
       THEN x \in eval[j].create \/ (x \in eval[j].keep /\ stalled[x])
       ELSE stalled[x]]
  /\ holder' = ReleasedBy(j)
  /\ eval' = [eval EXCEPT ![j] = IdleEval]
  /\ UNCHANGED <<jobs, log, req, user, counted>>

-----------------------------------------------------------------------------
(* Users: cancel an execution, activate or deactivate a job. *)

CancelRead(u, x) ==
  /\ user[u].pc = "idle"
  /\ row[x] # NoRow /\ row[x].status \in {"running", "pending"}
  /\ user' = [user EXCEPT ![u].pc = "read", ![u].target = {x}]
  /\ UNCHANGED <<jobs, row, log, stalled, holder, req, eval, counted>>

(* execution.save(update_fields=[status, finished_at, error_message]) *)
CancelWrite(u) ==
  \E x \in user[u].target :
    /\ user[u].pc = "read"
    /\ holder[x] = NoOne
    /\ row' = [row EXCEPT ![x].status = "cancelled", ![x].by = "user", ![x].error = "user"]
    /\ user' = [user EXCEPT ![u].pc = "evaluate"]
    /\ UNCHANGED <<jobs, log, stalled, holder, req, eval, counted>>

(* evaluate_job_reliability(execution.job_id) in a transaction of its own; it
   returns at once for an inactive job. *)
CancelEvaluate(u) ==
  \E x \in user[u].target :
    /\ user[u].pc = "evaluate"
    /\ eval[JobOf[x]].pc = "idle"
    /\ \/ StartEvaluation(JobOf[x])
       \/ /\ jobs[JobOf[x]].status # "active" \/ PendingOf(JobOf[x]) # {}
          /\ UNCHANGED eval
    /\ user' = [user EXCEPT ![u] = IdleUser]
    /\ UNCHANGED <<jobs, row, log, stalled, holder, req, counted>>

(* PATCH of a job reads the row and later saves every column of it, the
   verification status it read included; only the status is the user's. *)
EditRead(u, j) ==
  /\ user[u].pc = "idle" /\ jobs[j].status # "absent"
  /\ user' = [user EXCEPT ![u].pc = "edit", ![u].edited = {j}, ![u].seen = jobs[j].verified]
  /\ UNCHANGED <<jobs, row, log, stalled, holder, req, eval, counted>>

EditWrite(u) ==
  \E j \in user[u].edited, s \in {"active", "inactive"} :
    /\ user[u].pc = "edit"
    /\ eval[j].pc = "idle"
    /\ jobs' = [jobs EXCEPT ![j] = [status |-> s, verified |-> user[u].seen]]
    /\ user' = [user EXCEPT ![u] = IdleUser]
    /\ UNCHANGED <<row, log, stalled, holder, req, eval, counted>>

-----------------------------------------------------------------------------
(* PostgreSQL aborts one transaction of a waiting cycle. *)

Waits(a, b) ==
  \/ /\ a \in Requests
     /\ \/ /\ req[a].pc = "resolve"
           /\ \E j \in JobsNamed(req[a].batch) : jobs[j].status = "absent" /\ holder[j] = b
        \/ /\ req[a].pc = "lock"
           /\ \E x \in req[a].found : req[a].read[x] = NoRow /\ holder[x] = b
        \/ \E x \in Executions : NextInsert(a, x) /\ holder[x] = b
        \/ /\ req[a].pc = "insert" /\ \A x \in ToCreate(a) : holder[x] = a
           /\ b \in JobsNeeded(a) /\ eval[b].pc = "apply"
  \/ /\ a \in Jobs /\ eval[a].pc = "apply"
     /\ \/ \E x \in eval[a].discard : holder[x] = b /\ b # a
        \/ /\ \A x \in eval[a].discard : holder[x] = a
           /\ \E x \in eval[a].create : holder[x] = b /\ b # a

Blocked == {a \in Actors : \E b \in Actors : Waits(a, b)}

(* a is on a cycle of waiting transactions. *)
InDeadlock(a) ==
  \E C \in SUBSET Blocked :
    /\ a \in C
    /\ \A p \in C : (\E q \in C : Waits(p, q)) /\ (\E q \in C : Waits(q, p))

(* OperationalError is not retried by the view. *)
RequestVictim(r) == InDeadlock(r) /\ Fail(r, "deadlock")

(* evaluate_all_jobs_reliability logs it and goes on with the next job. *)
EvalVictim(j) ==
  /\ InDeadlock(j)
  /\ holder' = ReleasedBy(j)
  /\ eval' = [eval EXCEPT ![j] = IdleEval]
  /\ UNCHANGED <<jobs, row, log, stalled, req, user, counted>>

-----------------------------------------------------------------------------
RequestStep(r) ==
  \/ ResolveJobs(r) \/ SelectRows(r) \/ ReadEvents(r) \/ Commit(r) \/ RequestVictim(r)
  \/ \E x \in Executions : LockRow(r, x) \/ InsertRow(r, x) \/ InsertConflict(r, x)

EvalStep(j) == \/ EvalCommit(j) \/ EvalVictim(j)
               \/ \E x \in Executions : EvalDiscard(j, x)

UserStep(u) == CancelWrite(u) \/ CancelEvaluate(u) \/ EditWrite(u)

Next ==
  \/ \E r \in Requests : RequestStep(r) \/ Crash(r) \/ \E b \in Batches : Send(r, b)
  \/ \E j \in Jobs : EvalStep(j) \/ EvalStart(j)
  \/ \E u \in Users : \/ UserStep(u)
                      \/ \E x \in Executions : CancelRead(u, x)
                      \/ \E j \in Jobs : EditRead(u, j)

Spec == Init /\ [][Next]_vars

(* PostgreSQL grants a lock in queue order, so a waiting transaction is not
   passed over for ever; beat starts an evaluation every 15 minutes. *)
Fairness ==
  /\ \A r \in Requests : SF_vars(RequestStep(r))
  /\ \A j \in Jobs : SF_vars(EvalStep(j)) /\ SF_vars(EvalStart(j))
  /\ \A u \in Users : SF_vars(UserStep(u))

FairSpec == Spec /\ Fairness

-----------------------------------------------------------------------------
(* Properties. *)

(* Request r holds the rows it has read, and they are as it read them. *)
Protects(r) ==
  LET open == req[r].pc \in {"lock", "insert"} IN
  /\ \A x \in req[r].found : open /\ row[x] # NoRow /\ JobOf[x] \in req[r].valid
  /\ \A x \in Executions : req[r].read[x] # NoRow =>
       x \in req[r].found /\ holder[x] = r /\ req[r].read[x] = row[x]
  /\ req[r].pc = "insert" =>
       /\ \A x \in req[r].found : req[r].read[x] # NoRow
       /\ req[r].known = UNION {log[x] : x \in req[r].found}
  /\ \A x \in Executions : holder[x] = r =>
       open /\ (x \in req[r].found \/ (req[r].pc = "insert" /\ row[x] = NoRow))

(* What a transaction has read stays true until it ends: it holds every row it
   read, the row and its recorded events are still as it read them, and a key
   it inserted is in nobody else's table. *)
LocksProtectReads == \A r \in Requests : Protects(r)

(* The snapshot of an execution is that of its recorded history, whatever the
   order and the interleaving in which the events were ingested: last_event_at
   is the time of its latest event, and unless a user or the evaluator wrote
   the status since, the status is that of an event of that time. *)
SnapshotIsLatest ==
  \A x \in Executions :
    /\ (row[x] = NoRow) = (log[x] = {})
    /\ row[x] # NoRow =>
         /\ \A e \in log[x] : Time(e) <= row[x].last
         /\ \E e \in log[x] : /\ Time(e) = row[x].last
                              /\ row[x].by = "event" => Payload[e].status = row[x].status

(* Every recorded event was counted as accepted by exactly one reply and an
   unrecorded one by none, also across concurrent and repeated requests. *)
CountedExactlyOnce ==
  \A e \in Events : counted[e] = IF e \in log[ExecOf(e)] THEN 1 ELSE 0

(* The retries of the view suffice for every batch of fewer executions than
   attempts: each IntegrityError reveals a row that stays visible. *)
FewExecutionsNeverConflictOut ==
  \A r \in Requests :
    req[r].reply = "integrity" =>
      Cardinality({ExecOf(e) : e \in Range(req[r].batch)}) >= MaxAttempts

(* A 202 means that every event of an active job of the batch is recorded. *)
AcknowledgedIsRecorded ==
  \A r \in Requests : req[r].reply = "ok" =>
    \A e \in Range(req[r].batch) : JobOf[ExecOf(e)] \in req[r].valid => e \in log[ExecOf(e)]

(* Sorting the new executions by external id keeps concurrent insertions free
   of deadlock when no two jobs share one: a cycle needs a request that locked
   an existing row. *)
OrderedInsertsNeverDeadlock ==
  /\ \A r \in Requests : req[r].found = {}
  /\ \A x, y \in Executions : ExternalId[x] = ExternalId[y] => x = y
  => \A r \in Requests : ~InDeadlock(r)

(* A late or simultaneous event never changes the status of an execution, and
   last_event_at and retry_count never go back. *)
LateEventsKeepStatus ==
  [][\A x \in Executions : row[x] # NoRow =>
       /\ row'[x] # NoRow
       /\ row'[x].last >= row[x].last /\ row'[x].retry >= row[x].retry
       /\ log'[x] # log[x] /\ row'[x].status # row[x].status => row'[x].last > row[x].last]_vars

(* The ledger of TelemetryLedger: the status, time and writer of each row. *)
View == [x \in Executions |->
           IF row[x] = NoRow THEN NoRow
           ELSE [status |-> row[x].status, last |-> row[x].last, by |-> row[x].by]]

Ledger == INSTANCE TelemetryLedger WITH view <- View, NoView <- NoRow

(* Concurrent, retried and aborted transactions add up to batches that take
   effect one at a time and record each event once. *)
ImplementsLedger == Ledger!Spec

(* Every request is answered, whatever it waits for. *)
RequestsAnswered == \A r \in Requests : req[r].pc # "idle" ~> req[r].pc = "done"

(* "Recover previously active stalled ... findings whose execution has
   finished": a stalled finding of a finished execution does not last while its
   job is active. *)
StalledFindingClears ==
  \A x \in Executions :
    stalled[x] /\ row[x].status \in Terminal
      ~> ~stalled[x] \/ row[x].status \notin Terminal \/ jobs[JobOf[x]].status # "active"

(* "Execution is in terminal state ... and cannot be cancelled." *)
CancelKeepsFinished ==
  [][\A u \in Users : \A x \in user[u].target :
       user[u].pc = "read" /\ row'[x] # row[x] /\ row'[x].by = "user"
         => row[x].status \in {"running", "pending"}]_vars
=============================================================================
