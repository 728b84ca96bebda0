------------------------ MODULE ExecutionIngestProofs -----------------------
(***************************************************************************)
(* Safety of ingestion for any number of requests, users, jobs, executions  *)
(* and events: the invariant                                                *)
(*                                                                          *)
(*   TypeOK /\ LocksProtectReads /\ SnapshotIsLatest /\ CountedExactlyOnce  *)
(*                                                                          *)
(* is inductive.  What a transaction has locked and read is still true when *)
(* it commits (LocksProtectReads), so the merge applies to the current row  *)
(* and to events not recorded before.                                       *)
(*                                                                          *)
(* From it follow what the replies mean, why requests that insert in        *)
(* external id order never deadlock, and that the transactions implement    *)
(* the ledger in which batches take effect one at a time.                   *)
(***************************************************************************)
EXTENDS ExecutionIngest, TelemetryMergeProofs, FiniteSetTheorems

IInv == TypeOK /\ LocksProtectReads /\ SnapshotIsLatest /\ CountedExactlyOnce

(* The steps of a request: x, b and reply matter to some of them only. *)
RequestMoves(r, x, b, reply) ==
  \/ b \in Batches /\ Send(r, b)
  \/ ResolveJobs(r) \/ SelectRows(r) \/ ReadEvents(r) \/ Commit(r)
  \/ x \in Executions /\ LockRow(r, x)
  \/ x \in Executions /\ InsertRow(r, x)
  \/ x \in Executions /\ InsertConflict(r, x)
  \/ reply \in {"deadlock", "lost"} /\ Fail(r, reply)

(* The steps of the evaluation of a job, and of a user. *)
EvalMoves(j, x) ==
  \/ EvalStart(j) \/ EvalCommit(j) \/ EvalVictim(j)
  \/ x \in Executions /\ EvalDiscard(j, x)

UserMoves(u, x, j) ==
  \/ CancelWrite(u) \/ CancelEvaluate(u) \/ EditWrite(u)
  \/ x \in Executions /\ CancelRead(u, x)
  \/ j \in Jobs /\ EditRead(u, j)

WriterMoves(j, u, x) == \/ j \in Jobs /\ EvalMoves(j, x)
                        \/ u \in Users /\ UserMoves(u, x, j)

-----------------------------------------------------------------------------
(* What the state of a request contains. *)
LEMMA BatchType ==
  ASSUME TypeOK, NEW r \in Requests
  PROVE  /\ req[r] \in RequestState
         /\ req[r].batch \in Seq(Events) /\ Range(req[r].batch) \subseteq Events
         /\ JobsNamed(req[r].batch) \subseteq Jobs
         /\ Keys(r) \subseteq Executions
         /\ \A x : Fresh(r, x) \subseteq Range(req[r].batch)
         /\ \A x, e : e \in Fresh(r, x) => ExecOf(e) = x
         /\ Accepted(r) \subseteq Events
         /\ ToCreate(r) \subseteq Keys(r) /\ ToUpdate(r) \subseteq req[r].found
<1>1. req[r] \in RequestState
  BY DEF TypeOK
<1>2. req[r].batch \in Seq(Events)
  BY <1>1 DEF RequestState
<1>3. Range(req[r].batch) \subseteq Events
  BY <1>2 DEF Range
<1>4. JobsNamed(req[r].batch) \subseteq Jobs
  BY <1>3, PayloadType, IngestAssumption DEF JobsNamed
<1>5. Keys(r) \subseteq Executions
  BY <1>3, PayloadType DEF Keys
<1>6. \A x : Fresh(r, x) \subseteq Range(req[r].batch)
  BY DEF Fresh, EventsOf
<1>7. \A x, e : e \in Fresh(r, x) => ExecOf(e) = x
  BY DEF Fresh, EventsOf
<1>8. Accepted(r) \subseteq Events
  BY <1>3, <1>6 DEF Accepted
<1> QED
  BY <1>1, <1>2, <1>3, <1>4, <1>5, <1>6, <1>7, <1>8 DEF ToCreate, ToUpdate

(* At the end of its transaction, a request knows exactly the recorded events
   of the executions it is about to write, and holds their rows. *)
LEMMA CommitReads ==
  ASSUME IInv, NEW r \in Requests, req[r].pc = "insert",
         \A x \in ToCreate(r) : holder[x] = r
  PROVE  /\ \A x \in Keys(r) \cup ToUpdate(r) : holder[x] = r
         /\ \A x \in Keys(r) : Fresh(r, x) = EventsOf(req[r].batch, x) \ log[x]
         /\ \A x \in ToCreate(r) : row[x] = NoRow /\ Fresh(r, x) # {}
         /\ \A x \in req[r].found : req[r].read[x] = row[x] /\ row[x] \in Snapshot
         /\ ToUpdate(r) \subseteq Keys(r)
<1> USE DEF IInv
<1>1. /\ Keys(r) \subseteq Executions /\ req[r].found \subseteq Executions
      /\ Range(req[r].batch) \subseteq Events
  BY BatchType DEF RequestState
<1>2. \A x \in req[r].found : /\ holder[x] = r /\ req[r].read[x] = row[x]
                              /\ row[x] # NoRow /\ JobOf[x] \in req[r].valid
  BY <1>1 DEF LocksProtectReads, Protects
<1>3. \A x \in req[r].found : row[x] \in Snapshot
  BY <1>1, <1>2 DEF TypeOK
<1>4. req[r].known = UNION {log[x] : x \in req[r].found}
  BY DEF LocksProtectReads, Protects
<1>5. \A x \in Executions : \A e \in log[x] : ExecOf(e) = x
  BY DEF TypeOK
<1>6. ASSUME NEW x \in Keys(r), x \in req[r].found
      PROVE  Fresh(r, x) = EventsOf(req[r].batch, x) \ log[x]
  BY <1>1, <1>4, <1>5, <1>6 DEF Fresh, EventsOf
<1>7. ASSUME NEW x \in ToCreate(r)
      PROVE  /\ row[x] = NoRow
             /\ Fresh(r, x) = EventsOf(req[r].batch, x)
             /\ Fresh(r, x) # {} /\ log[x] = {}
  <2>1. x \in Keys(r) /\ x \notin req[r].found /\ x \in Executions
    BY <1>1 DEF ToCreate
  <2>2. row[x] = NoRow
    BY <2>1, <1>7 DEF LocksProtectReads, Protects
  <2>3. Fresh(r, x) = EventsOf(req[r].batch, x)
    BY <1>1, <1>4, <1>5, <2>1 DEF Fresh, EventsOf
  <2>4. EventsOf(req[r].batch, x) # {}
    BY <2>1 DEF Keys, EventsOf
  <2>5. log[x] = {}
    BY <2>1, <2>2 DEF SnapshotIsLatest
  <2> QED
    BY <2>2, <2>3, <2>4, <2>5
<1>8. ToUpdate(r) \subseteq Keys(r)
  <2> SUFFICES ASSUME NEW x \in ToUpdate(r) PROVE x \in Keys(r)
    OBVIOUS
  <2>1. x \in req[r].found /\ x \in Executions /\ JobOf[x] \in req[r].valid
    BY <1>1, <1>2 DEF ToUpdate
  <2>2. PICK e \in Fresh(r, x) : TRUE
    BY DEF ToUpdate, Touches
  <2>3. e \in Range(req[r].batch) /\ ExecOf(e) = x
    BY BatchType, <2>2
  <2> QED
    BY <2>1, <2>3 DEF Keys
<1>9. \A x \in Keys(r) : x \in req[r].found \/ x \in ToCreate(r)
  BY DEF ToCreate
<1> QED
  BY <1>2, <1>3, <1>6, <1>7, <1>8, <1>9

(* What a commit does to an execution it writes: the row it leaves is that of
   a latest event of the events it adds to the recorded ones, and an execution
   it does not write keeps its row and its events. *)
LEMMA CommitWrites ==
  ASSUME IInv, NEW r \in Requests, Commit(r), NEW x \in Executions
  PROVE  /\ row'[x] \in Snapshot \cup {NoRow}
         /\ row[x] # NoRow => row'[x] # NoRow
         /\ holder[x] # r => row'[x] = row[x] /\ log'[x] = log[x]
         /\ log'[x] = log[x] \cup (IF x \in Keys(r) THEN Fresh(r, x) ELSE {})
<1> USE DEF IInv
<1> DEFINE b == req[r].batch
           S == Fresh(r, x)
<1>1. /\ x \in Keys(r) \cup ToUpdate(r) => holder[x] = r
      /\ x \in ToCreate(r) => row[x] = NoRow /\ S # {}
      /\ x \in ToUpdate(r) => req[r].read[x] = row[x] /\ row[x] \in Snapshot
  BY CommitReads, BatchType DEF Commit
<1>2. b \in Seq(Events) /\ S \in SUBSET Range(b)
  BY BatchType
<1>3. /\ row'[x] = IF x \in ToCreate(r) THEN MergeCreate(b, S)
                   ELSE IF x \in ToUpdate(r) THEN MergeUpdate(req[r].read[x], b, S)
                   ELSE row[x]
      /\ log'[x] = IF x \in Keys(r) THEN log[x] \cup S ELSE log[x]
  BY DEF Commit, Merged
<1>4. row[x] \in Snapshot \cup {NoRow} /\ ToCreate(r) \subseteq Keys(r) /\ NoRow \notin Snapshot
  BY BatchType, IngestAssumption DEF TypeOK
<1>5. x \in ToCreate(r) => MergeCreate(b, S) \in Snapshot
  BY <1>1, <1>2, CreateIsLatest
<1>6. x \in ToUpdate(r) => MergeUpdate(req[r].read[x], b, S) \in Snapshot
  BY <1>1, <1>2, UpdateIsLatest
<1> HIDE DEF b, S
<1> QED
  BY <1>1, <1>3, <1>4, <1>5, <1>6 DEF S

(* Releasing locks, and aborting a transaction, keep the types. *)
LEMMA ReleasedType ==
  ASSUME TypeOK, NEW a
  PROVE  /\ ReleasedBy(a) \in [Executions \cup Jobs -> Actors \cup {NoOne}]
         /\ \A k \in Executions \cup Jobs :
              ReleasedBy(a)[k] = IF holder[k] = a THEN NoOne ELSE holder[k]
BY DEF ReleasedBy, TypeOK

LEMMA InitRequestType == InitRequest \in RequestState /\ \A x \in Executions : NoRead[x] = NoRow
BY DEF InitRequest, RequestState, Phases, Replies, NoRead

(* Steps of a request that leave rows, events and counts alone. *)
LEMMA RequestTypes ==
  ASSUME IInv, NEW r \in Requests, NEW x, NEW b, NEW reply, RequestMoves(r, x, b, reply),
         ~Commit(r)
  PROVE  TypeOK'
<1> USE DEF IInv
<1>1. req[r] \in RequestState /\ InitRequest \in RequestState
  BY BatchType, InitRequestType
<1>2. CASE b \in Batches /\ Send(r, b)
  <2>1. req' \in [Requests -> RequestState]
    BY <1>1, <1>2, IngestAssumption DEF Send, RequestState, Phases, TypeOK
  <2> QED
    BY <1>2, <2>1 DEF Send, TypeOK
<1>3. CASE ResolveJobs(r)
  <2>3. \E v \in SUBSET Jobs, p \in Phases, w \in Replies :
          req' = [req EXCEPT ![r].valid = v, ![r].pc = p, ![r].reply = w]
    <3> DEFINE missing == {j \in JobsNamed(req[r].batch) : jobs[j].status = "absent"}
               v == missing \cup {j \in JobsNamed(req[r].batch) : jobs[j].status = "active"}
               p == IF v = {} THEN "done" ELSE "select"
               w == IF v = {} THEN "ok" ELSE "none"
    <3>1. v \in SUBSET Jobs
      BY BatchType
    <3>2. p \in Phases /\ w \in Replies
      BY DEF Phases, Replies
    <3>3. req' = [req EXCEPT ![r].valid = v, ![r].pc = p, ![r].reply = w]
      BY <1>3 DEF ResolveJobs
    <3> HIDE DEF v, p, w
    <3> QED
      BY <3>1, <3>2, <3>3
  <2>4. PICK v \in SUBSET Jobs, p \in Phases, w \in Replies :
          req' = [req EXCEPT ![r].valid = v, ![r].pc = p, ![r].reply = w]
    BY <2>3
  <2>1. req' \in [Requests -> RequestState]
    BY <1>1, <2>4 DEF RequestState, TypeOK
  <2>2. holder' \in [Executions \cup Jobs -> Actors \cup {NoOne}]
    BY <1>3 DEF ResolveJobs, TypeOK, Actors
  <2> QED
    BY <1>3, <2>1, <2>2 DEF ResolveJobs, TypeOK
<1>4. CASE SelectRows(r)
  <2>1. req' \in [Requests -> RequestState]
    BY <1>1, <1>4 DEF SelectRows, RequestState, Phases, TypeOK
  <2> QED
    BY <1>4, <2>1 DEF SelectRows, TypeOK
<1>5. CASE x \in Executions /\ LockRow(r, x)
  <2>1. req' \in [Requests -> RequestState]
    BY <1>1, <1>5 DEF LockRow, RequestState, TypeOK
  <2> QED
    BY <1>5, <2>1 DEF LockRow, TypeOK, Actors
<1>6. CASE ReadEvents(r)
  <2>1. UNION {log[y] : y \in req[r].found} \subseteq Events
    BY <1>1 DEF RequestState, TypeOK
  <2>2. req' \in [Requests -> RequestState]
    BY <1>1, <1>6, <2>1 DEF ReadEvents, RequestState, Phases, TypeOK
  <2> QED
    BY <1>6, <2>2 DEF ReadEvents, TypeOK
<1>7. CASE x \in Executions /\ InsertRow(r, x)
  BY <1>7 DEF InsertRow, TypeOK, Actors
<1>8. CASE x \in Executions /\ InsertConflict(r, x)
  <2>2. PICK p \in Phases, w \in Replies :
          req' = [req EXCEPT ![r] = [InitRequest EXCEPT !.batch = req[r].batch,
                                       !.tries = req[r].tries + 1, !.pc = p, !.reply = w]]
    <3> DEFINE raise == req[r].tries + 1 >= MaxAttempts
               p == IF raise THEN "done" ELSE "resolve"
               w == IF raise THEN "integrity" ELSE "none"
    <3>1. p \in Phases /\ w \in Replies
      BY DEF Phases, Replies
    <3>2. req' = [req EXCEPT ![r] = [InitRequest EXCEPT !.batch = req[r].batch,
                                       !.tries = req[r].tries + 1, !.pc = p, !.reply = w]]
      BY <1>8 DEF InsertConflict
    <3> HIDE DEF p, w
    <3> QED
      BY <3>1, <3>2
  <2>3. req[r].tries + 1 \in Nat
    BY <1>1 DEF RequestState
  <2>1. req' \in [Requests -> RequestState]
    BY <1>1, <2>2, <2>3 DEF RequestState, TypeOK
  <2> QED
    BY <1>8, <2>1, ReleasedType DEF InsertConflict, TypeOK
<1>9. CASE reply \in {"deadlock", "lost"} /\ Fail(r, reply)
  <2>1. req' \in [Requests -> RequestState]
    BY <1>1, <1>9 DEF Fail, RequestState, Phases, Replies, TypeOK
  <2> QED
    BY <1>9, <2>1, ReleasedType DEF Fail, TypeOK
<1> QED
  BY <1>2, <1>3, <1>4, <1>5, <1>6, <1>7, <1>8, <1>9 DEF RequestMoves

(* Rows that stay keep what users and evaluations are about to write. *)
TargetsExist(us, ev) ==
  /\ us \in [Users -> UserState] /\ \A u \in Users : \A x \in us[u].target : row[x] # NoRow
  /\ ev \in [Jobs -> EvalState] /\ \A j \in Jobs : \A x \in ev[j].discard : row[x] # NoRow

LEMMA TargetsStay ==
  ASSUME TypeOK, \A x \in Executions : row[x] # NoRow => row'[x] # NoRow,
         user' = user, eval' = eval
  PROVE  TargetsExist(user, eval)'
<1>1. \A u \in Users : user[u].target \subseteq Executions
  BY DEF TypeOK, UserState
<1>2. \A j \in Jobs : eval[j].discard \subseteq Executions
  BY DEF TypeOK, EvalState
<1> QED
  BY <1>1, <1>2 DEF TypeOK, TargetsExist

(* A request that commits. *)
LEMMA CommitTypes ==
  ASSUME IInv, NEW r \in Requests, Commit(r)
  PROVE  TypeOK'
<1> USE DEF IInv
<1>1. req[r] \in RequestState /\ InitRequest \in RequestState
  BY BatchType, InitRequestType
<1>2. req' \in [Requests -> RequestState]
  BY <1>1 DEF Commit, RequestState, Phases, Replies, TypeOK
<1>3. holder' \in [Executions \cup Jobs -> Actors \cup {NoOne}]
  BY ReleasedType DEF Commit
<1>4. row' \in [Executions -> Snapshot \cup {NoRow}]
  <2>1. row' = [x \in Executions |-> row'[x]]
    BY DEF Commit, Merged
  <2> QED
    BY <2>1, CommitWrites
<1>5. \A x \in Executions : row[x] # NoRow => row'[x] # NoRow
  BY CommitWrites
<1>6. /\ log' \in [Executions -> SUBSET Events]
      /\ \A x \in Executions : \A e \in log'[x] : ExecOf(e) = x
  <2>1. log' = [x \in Executions |-> log'[x]]
    BY DEF Commit
  <2>2. \A x \in Executions : Fresh(r, x) \subseteq Events /\ \A e \in Fresh(r, x) : ExecOf(e) = x
    BY BatchType
  <2>3. ASSUME NEW x \in Executions
        PROVE  log'[x] \subseteq Events /\ \A e \in log'[x] : ExecOf(e) = x
    BY <2>2, CommitWrites DEF TypeOK
  <2> QED
    BY <2>1, <2>3
<1>7. jobs' \in JobTable
  <2>2. jobs' = [j \in Jobs |-> jobs'[j]]
    BY DEF Commit
  <2>3. ASSUME NEW j \in Jobs
        PROVE  jobs'[j] \in [status: JobStates, verified: BOOLEAN]
    <3> DEFINE v == jobs[j].verified \/ \E e \in Accepted(r) : JobOf[ExecOf(e)] = j
    <3>1. jobs'[j] = IF holder[j] = r THEN [status |-> "active", verified |-> TRUE]
                     ELSE [jobs[j] EXCEPT !.verified = v]
      BY DEF Commit
    <3>2. v \in BOOLEAN
      OBVIOUS
    <3>3. jobs[j] \in [status: JobStates, verified: BOOLEAN]
      BY DEF TypeOK, JobTable
    <3> HIDE DEF v
    <3> QED
      BY <3>1, <3>2, <3>3 DEF JobStates
  <2> QED
    BY <2>2, <2>3 DEF JobTable
<1>8. stalled' \in [Executions -> BOOLEAN]
  BY DEF Commit, TypeOK
<1>9. counted' \in [Events -> Nat]
  BY DEF Commit, TypeOK
<1>10. TargetsExist(user, eval)'
  BY <1>5, TargetsStay DEF Commit
<1> QED
  BY <1>2, <1>3, <1>4, <1>6, <1>7, <1>8, <1>9, <1>10 DEF Commit, TypeOK, TargetsExist

(* A cancellation or a discard overrides the status of rows that exist. *)
LEMMA OverrideType ==
  ASSUME NEW s \in Snapshot, NEW st \in Statuses, NEW w \in Writers
  PROVE  LET t == [s EXCEPT !.status = st, !.by = w, !.error = w] IN
         t \in Snapshot /\ t # NoRow /\ t.by = w /\ t.last = s.last
<1>1. [s EXCEPT !.status = st, !.by = w, !.error = w] \in Snapshot
  BY DEF Snapshot
<1>2. LET t == [s EXCEPT !.status = st, !.by = w, !.error = w] IN t.by = w /\ t.last = s.last
  BY DEF Snapshot
<1> QED
  BY <1>1, <1>2, IngestAssumption

(* The evaluation of a job. *)
LEMMA StartedType ==
  ASSUME TypeOK, NEW j \in Jobs, StartEvaluation(j)
  PROVE  /\ eval' \in [Jobs -> EvalState]
         /\ \A i \in Jobs : \A x \in eval'[i].discard : row[x] # NoRow
<1>1. PICK over \in SUBSET RunningOf(j) :
      \E drop \in SUBSET ((RunningOf(j) \cup PendingOf(j)) \ over) :
        eval' = [eval EXCEPT ![j] = [pc |-> "apply", discard |-> drop,
                                     create |-> {x \in over : ~stalled[x]},
                                     keep   |-> {x \in over : stalled[x]}]]
  BY DEF StartEvaluation
<1>2. PICK drop \in SUBSET ((RunningOf(j) \cup PendingOf(j)) \ over) :
        eval' = [eval EXCEPT ![j] = [pc |-> "apply", discard |-> drop,
                                     create |-> {x \in over : ~stalled[x]},
                                     keep   |-> {x \in over : stalled[x]}]]
  BY <1>1
<1>3. \A x \in RunningOf(j) \cup PendingOf(j) : x \in Executions /\ row[x] # NoRow
  BY DEF RunningOf, PendingOf, Of
<1>4. eval' \in [Jobs -> EvalState]
  BY <1>2, <1>3 DEF TypeOK, EvalState
<1>5. \A i \in Jobs : \A x \in eval'[i].discard : row[x] # NoRow
  BY <1>2, <1>3 DEF TypeOK
<1> QED
  BY <1>4, <1>5

LEMMA EvalTypes ==
  ASSUME IInv, NEW j \in Jobs, NEW x, EvalMoves(j, x)
  PROVE  TypeOK'
<1> USE DEF IInv
<1>1. CASE EvalStart(j)
  BY <1>1, StartedType DEF EvalStart, TypeOK
<1>2. CASE x \in Executions /\ EvalDiscard(j, x)
  BY <1>2 DEF EvalDiscard, TypeOK, Actors
<1>3. CASE EvalVictim(j)
  <2>1. eval' \in [Jobs -> EvalState] /\ \A i \in Jobs : \A y \in eval'[i].discard : row[y] # NoRow
    BY <1>3 DEF EvalVictim, TypeOK, IdleEval, EvalState
  <2> QED
    BY <1>3, <2>1, ReleasedType DEF EvalVictim, TypeOK
<1>4. CASE EvalCommit(j)
  <2>1. eval[j].discard \subseteq Executions /\ \A y \in eval[j].discard : row[y] \in Snapshot
    BY DEF TypeOK, EvalState
  <2>7. \A y \in eval[j].discard :
          LET t == [row[y] EXCEPT !.status = "failed", !.by = "evaluator", !.error = "evaluator"]
          IN  t \in Snapshot /\ t # NoRow
    BY <2>1, OverrideType DEF Statuses, Writers
  <2>2. row' \in [Executions -> Snapshot \cup {NoRow}]
    BY <1>4, <2>7 DEF EvalCommit, TypeOK
  <2>3. \A y \in Executions : row[y] # NoRow => row'[y] # NoRow
    BY <1>4, <2>7 DEF EvalCommit
  <2>4. eval' \in [Jobs -> EvalState] /\ \A i \in Jobs : \A y \in eval'[i].discard : row'[y] # NoRow
    <3>1. \A i \in Jobs : eval[i].discard \subseteq Executions
      BY DEF TypeOK, EvalState
    <3> QED
      BY <1>4, <2>3, <3>1 DEF EvalCommit, TypeOK, IdleEval, EvalState
  <2>5. stalled' \in [Executions -> BOOLEAN]
    BY <1>4 DEF EvalCommit, TypeOK
  <2>6. user' = user /\ \A u \in Users : \A y \in user[u].target : row'[y] # NoRow
    BY <1>4, <2>3 DEF EvalCommit, TypeOK, UserState
  <2> QED
    BY <1>4, <2>2, <2>4, <2>5, <2>6, ReleasedType DEF EvalCommit, TypeOK
<1> QED
  BY <1>1, <1>2, <1>3, <1>4 DEF EvalMoves

(* The dashboard's users. *)
LEMMA UserTypes ==
  ASSUME IInv, NEW u \in Users, NEW x, NEW j, UserMoves(u, x, j)
  PROVE  TypeOK'
<1> USE DEF IInv
<1>1. user[u] \in UserState /\ IdleUser \in UserState
  BY DEF TypeOK, UserState, IdleUser
<1>2. CASE x \in Executions /\ CancelRead(u, x)
  <2>1. user' \in [Users -> UserState]
    BY <1>1, <1>2 DEF CancelRead, UserState, TypeOK
  <2>2. \A v \in Users : \A y \in user'[v].target : row[y] # NoRow
    BY <1>1, <1>2 DEF CancelRead, UserState, TypeOK
  <2> QED
    BY <1>2, <2>1, <2>2 DEF CancelRead, TypeOK
<1>3. CASE CancelWrite(u)
  <2>1. PICK y \in user[u].target :
          /\ row' = [row EXCEPT ![y] =
                       [row[y] EXCEPT !.status = "cancelled", !.by = "user", !.error = "user"]]
          /\ user' = [user EXCEPT ![u].pc = "evaluate"]
    BY <1>3 DEF CancelWrite
  <2>2. y \in Executions /\ row[y] \in Snapshot
    BY <1>1 DEF TypeOK, UserState
  <2>7. LET t == [row[y] EXCEPT !.status = "cancelled", !.by = "user", !.error = "user"]
        IN  t \in Snapshot /\ t # NoRow
    BY <2>2, OverrideType DEF Statuses, Writers
  <2>3. row' \in [Executions -> Snapshot \cup {NoRow}]
    BY <2>1, <2>7 DEF TypeOK
  <2>4. \A z \in Executions : row[z] # NoRow => row'[z] # NoRow
    BY <2>1, <2>7 DEF TypeOK
  <2>5. user' \in [Users -> UserState] /\ \A v \in Users : \A z \in user'[v].target : row'[z] # NoRow
    <3>1. \A v \in Users : user[v].target \subseteq Executions
      BY DEF TypeOK, UserState
    <3>2. user' \in [Users -> UserState]
      BY <1>1, <2>1 DEF TypeOK, UserState
    <3>3. \A v \in Users : user'[v].target = user[v].target
      BY <1>1, <2>1 DEF TypeOK, UserState
    <3> QED
      BY <2>4, <3>1, <3>2, <3>3 DEF TypeOK
  <2>6. eval' = eval /\ \A i \in Jobs : \A z \in eval[i].discard : row'[z] # NoRow
    BY <1>3, <2>4 DEF CancelWrite, TypeOK, EvalState
  <2> QED
    BY <1>3, <2>3, <2>5, <2>6 DEF CancelWrite, TypeOK
<1>4. CASE CancelEvaluate(u)
  <2>1. PICK y \in user[u].target : StartEvaluation(JobOf[y]) \/ UNCHANGED eval
    BY <1>4 DEF CancelEvaluate
  <2>2. JobOf[y] \in Jobs
    BY <1>1, IngestAssumption DEF UserState
  <2>3. eval' \in [Jobs -> EvalState] /\ \A i \in Jobs : \A z \in eval'[i].discard : row[z] # NoRow
    BY <2>1, <2>2, StartedType DEF TypeOK
  <2>4. user' \in [Users -> UserState] /\ \A v \in Users : \A z \in user'[v].target : row[z] # NoRow
    BY <1>1, <1>4 DEF CancelEvaluate, TypeOK, IdleUser
  <2> QED
    BY <1>4, <2>3, <2>4 DEF CancelEvaluate, TypeOK
<1>5. CASE j \in Jobs /\ EditRead(u, j)
  <2>1. jobs[j].verified \in BOOLEAN
    BY <1>5 DEF TypeOK, JobTable
  <2>2. user' \in [Users -> UserState]
    BY <1>1, <1>5, <2>1 DEF EditRead, UserState, TypeOK
  <2>3. \A v \in Users : \A y \in user'[v].target : row[y] # NoRow
    BY <1>1, <1>5 DEF EditRead, UserState, TypeOK
  <2> QED
    BY <1>5, <2>2, <2>3 DEF EditRead, TypeOK
<1>6. CASE EditWrite(u)
  <2>1. PICK i \in user[u].edited, s \in {"active", "inactive"} :
          jobs' = [jobs EXCEPT ![i] = [status |-> s, verified |-> user[u].seen]]
    BY <1>6 DEF EditWrite
  <2>2. jobs' \in JobTable
    BY <1>1, <2>1 DEF TypeOK, JobTable, JobStates, UserState
  <2>3. user' \in [Users -> UserState] /\ \A v \in Users : \A z \in user'[v].target : row[z] # NoRow
    BY <1>1, <1>6 DEF EditWrite, TypeOK, IdleUser
  <2> QED
    BY <1>6, <2>2, <2>3 DEF EditWrite, TypeOK
<1> QED
  BY <1>2, <1>3, <1>4, <1>5, <1>6 DEF UserMoves

-----------------------------------------------------------------------------
(* A request that is not moving keeps its protection when the rows it holds
   stay locked and unwritten, and nobody gives it a lock. *)
LEMMA OthersProtected ==
  ASSUME IInv, NEW q \in Requests, req'[q] = req[q],
         \A x \in Executions : holder'[x] = q <=> holder[x] = q,
         \A x \in Executions : holder[x] = q => row'[x] = row[x] /\ log'[x] = log[x],
         \A x \in Executions : row[x] # NoRow => row'[x] # NoRow
  PROVE  Protects(q)'
<1>1. req[q].found \subseteq Executions
  BY DEF IInv, TypeOK, RequestState
<1>2. Protects(q)
  BY DEF IInv, LocksProtectReads
<1>3. \A x \in req[q].found : row'[x] # NoRow /\ req[q].pc \in {"lock", "insert"} /\ JobOf[x] \in req[q].valid
  BY <1>1, <1>2 DEF Protects
<1>4. req[q].pc = "insert" => UNION {log'[x] : x \in req[q].found} = UNION {log[x] : x \in req[q].found}
  <2>1. req[q].pc = "insert" => \A x \in req[q].found : log'[x] = log[x]
    BY <1>1, <1>2 DEF Protects
  <2> QED
    BY <2>1
<1>5. \A x \in Executions : req[q].read[x] # NoRow =>
         x \in req[q].found /\ holder'[x] = q /\ req[q].read[x] = row'[x]
  BY <1>2 DEF Protects
<1>6. \A x \in Executions : holder'[x] = q =>
         /\ req[q].pc \in {"lock", "insert"}
         /\ x \in req[q].found \/ (req[q].pc = "insert" /\ row'[x] = NoRow)
  BY <1>2 DEF Protects
<1> QED
  BY <1>2, <1>3, <1>4, <1>5, <1>6 DEF Protects

(* A request outside its transaction has read and locked no row. *)
LEMMA ClosedProtected ==
  ASSUME NEW q \in Requests, req'[q].found = {}, \A x \in Executions : req'[q].read[x] = NoRow,
         req'[q].pc \notin {"lock", "insert"}, \A x \in Executions : holder'[x] # q
  PROVE  Protects(q)'
BY DEF Protects

LEMMA ClosedStays ==
  ASSUME IInv, NEW q \in Requests, req[q].pc \notin {"lock", "insert"},
         req'[q].found = req[q].found, req'[q].read = req[q].read,
         req'[q].pc \notin {"lock", "insert"}, \A x \in Executions : holder'[x] = holder[x]
  PROVE  Protects(q)'
<1>1. Protects(q) /\ req[q].found \subseteq Executions
  BY DEF IInv, LocksProtectReads, TypeOK, RequestState
<1>2. /\ req[q].found = {} /\ \A x \in Executions : req[q].read[x] = NoRow
      /\ \A x \in Executions : holder[x] # q
  BY <1>1 DEF Protects
<1> QED
  BY <1>2, ClosedProtected

(* A request that ends its transaction releases everything. *)
LEMMA EndedProtected ==
  ASSUME IInv, NEW q \in Requests, holder' = ReleasedBy(q),
         req'[q].found = {}, req'[q].read = NoRead, req'[q].pc \notin {"lock", "insert"}
  PROVE  Protects(q)'
<1>1. \A x \in Executions : holder'[x] # q
  BY ReleasedType, IngestAssumption DEF IInv
<1> QED
  BY <1>1, ClosedProtected, InitRequestType

(* A step of r moves no other request and no lock of another request. *)
LEMMA RequestsApart ==
  ASSUME IInv, NEW r \in Requests, NEW x, NEW b, NEW reply, RequestMoves(r, x, b, reply),
         NEW q \in Requests, q # r
  PROVE  /\ req'[q] = req[q]
         /\ \A y \in Executions : holder'[y] = q <=> holder[y] = q
<1> USE DEF IInv
<1>1. CASE b \in Batches /\ Send(r, b)
  BY <1>1 DEF Send, TypeOK
<1>2. CASE ResolveJobs(r)
  <2>1. JobsNamed(req[r].batch) \cap Executions = {}
    BY BatchType, IngestAssumption
  <2> QED
    BY <1>2, <2>1 DEF ResolveJobs, TypeOK
<1>3. CASE SelectRows(r)
  BY <1>3 DEF SelectRows, TypeOK
<1>4. CASE x \in Executions /\ LockRow(r, x)
  BY <1>4, IngestAssumption DEF LockRow, TypeOK
<1>5. CASE ReadEvents(r)
  BY <1>5 DEF ReadEvents, TypeOK
<1>6. CASE x \in Executions /\ InsertRow(r, x)
  BY <1>6, IngestAssumption DEF InsertRow, TypeOK
<1>7. CASE InsertConflict(r, x) \/ Fail(r, reply) \/ Commit(r)
  <2>1. holder' = ReleasedBy(r)
    BY <1>7 DEF InsertConflict, Fail, Commit
  <2>2. \A y \in Executions : holder'[y] = q <=> holder[y] = q
    BY <2>1, ReleasedType, IngestAssumption
  <2>3. req'[q] = req[q]
    BY <1>7 DEF InsertConflict, Fail, Commit, TypeOK
  <2> QED
    BY <2>2, <2>3
<1> QED
  BY <1>1, <1>2, <1>3, <1>4, <1>5, <1>6, <1>7 DEF RequestMoves

(* What the steps of a request leave it. *)
LEMMA MoverProtected ==
  ASSUME IInv, NEW r \in Requests, NEW x, NEW b, NEW reply, RequestMoves(r, x, b, reply)
  PROVE  Protects(r)'
<1> USE DEF IInv
<1>0. req[r] \in RequestState /\ r # NoOne /\ Protects(r) /\ req \in [Requests -> RequestState]
  BY BatchType, IngestAssumption DEF LocksProtectReads, TypeOK
<1>1. CASE b \in Batches /\ Send(r, b)
  <2>1. req'[r].found = req[r].found /\ req'[r].read = req[r].read /\ req'[r].pc = "resolve"
    BY <1>0, <1>1 DEF Send, RequestState
  <2> QED
    <3>1. req[r].pc = "idle" /\ holder' = holder
      BY <1>1 DEF Send
    <3> QED
      BY <2>1, <3>1, ClosedStays
<1>2. CASE ResolveJobs(r)
  <2>1. /\ req'[r].found = req[r].found /\ req'[r].read = req[r].read
        /\ req'[r].pc \in {"done", "select"}
    BY <1>0, <1>2 DEF ResolveJobs, RequestState
  <2>2. \A y \in Executions : holder'[y] = holder[y]
    <3>1. JobsNamed(req[r].batch) \cap Executions = {}
      BY BatchType, IngestAssumption
    <3> QED
      BY <1>2, <3>1 DEF ResolveJobs, TypeOK
  <2> QED
    <3>1. req[r].pc = "resolve"
      BY <1>2 DEF ResolveJobs
    <3> QED
      BY <2>1, <2>2, <3>1, ClosedStays
<1>3. CASE SelectRows(r)
  <2>1. /\ req'[r].read = req[r].read /\ req'[r].pc = "lock" /\ req'[r].valid = req[r].valid
        /\ \A y \in req'[r].found : /\ y \in Executions /\ row[y] # NoRow
                                    /\ JobOf[y] \in {JobOf[z] : z \in Keys(r)}
    BY <1>0, <1>3 DEF SelectRows, RequestState
  <2>2. \A z \in Keys(r) : JobOf[z] \in req[r].valid
    BY DEF Keys
  <2> QED
    <3>1. req[r].pc = "select" /\ holder' = holder /\ row' = row
      BY <1>3 DEF SelectRows
    <3>2. /\ \A y \in Executions : req[r].read[y] = NoRow
          /\ \A y \in Executions : holder[y] # r
      BY <1>0, <3>1 DEF Protects
    <3> QED
      BY <2>1, <2>2, <3>1, <3>2 DEF Protects
<1>4. CASE x \in Executions /\ LockRow(r, x)
  <2>1. /\ req'[r].found = req[r].found /\ req'[r].valid = req[r].valid /\ req'[r].pc = "lock"
        /\ req'[r].read = [req[r].read EXCEPT ![x] = row[x]] /\ x \in req[r].found
    BY <1>0, <1>4 DEF LockRow, RequestState
  <2>2. holder' = [holder EXCEPT ![x] = r] /\ row' = row /\ log' = log
    BY <1>4 DEF LockRow
  <2>3. req[r].read \in [Executions -> Snapshot \cup {NoRow}]
    BY <1>0 DEF RequestState
  <2> QED
    BY <1>0, <1>4, <2>1, <2>2, <2>3 DEF LockRow, Protects, TypeOK
<1>5. CASE ReadEvents(r)
  <2>1. /\ req'[r].found = req[r].found /\ req'[r].valid = req[r].valid /\ req'[r].pc = "insert"
        /\ req'[r].read = req[r].read /\ req'[r].known = UNION {log[y] : y \in req[r].found}
        /\ \A y \in req[r].found : req[r].read[y] # NoRow
    BY <1>0, <1>5 DEF ReadEvents, RequestState
  <2>2. holder' = holder /\ row' = row /\ log' = log /\ req[r].pc = "lock"
    BY <1>5 DEF ReadEvents
  <2> QED
    BY <1>0, <2>1, <2>2 DEF Protects
<1>6. CASE x \in Executions /\ InsertRow(r, x)
  <2>1. req' = req /\ row' = row /\ log' = log /\ holder' = [holder EXCEPT ![x] = r]
    BY <1>6 DEF InsertRow
  <2>2. req[r].pc = "insert" /\ row[x] = NoRow
    BY <1>6 DEF InsertRow, NextInsert
  <2> QED
    BY <1>0, <2>1, <2>2 DEF Protects, TypeOK
<1>7. CASE x \in Executions /\ InsertConflict(r, x)
  <2>1. /\ req'[r].found = {} /\ req'[r].read = NoRead /\ req'[r].pc \notin {"lock", "insert"}
        /\ holder' = ReleasedBy(r)
    BY <1>0, <1>7 DEF InsertConflict, InitRequest
  <2> QED
    BY <2>1, EndedProtected
<1>8. CASE Commit(r)
  <2>1. /\ req'[r].found = {} /\ req'[r].read = NoRead /\ req'[r].pc = "done"
        /\ holder' = ReleasedBy(r)
    BY <1>0, <1>8 DEF Commit, InitRequest
  <2> QED
    BY <2>1, EndedProtected
<1>9. CASE reply \in {"deadlock", "lost"} /\ Fail(r, reply)
  <2>1. /\ req'[r].found = {} /\ req'[r].read = NoRead /\ req'[r].pc = "done"
        /\ holder' = ReleasedBy(r)
    BY <1>0, <1>9 DEF Fail, InitRequest
  <2> QED
    BY <2>1, EndedProtected
<1> QED
  BY <1>1, <1>2, <1>3, <1>4, <1>5, <1>6, <1>7, <1>8, <1>9 DEF RequestMoves

LEMMA RequestProtects ==
  ASSUME IInv, NEW r \in Requests, NEW x, NEW b, NEW reply, RequestMoves(r, x, b, reply)
  PROVE  LocksProtectReads'
<1>1. CASE Commit(r)
  <2>1. \A y \in Executions : /\ holder[y] # r => row'[y] = row[y] /\ log'[y] = log[y]
                              /\ row[y] # NoRow => row'[y] # NoRow
    BY <1>1, CommitWrites
  <2>2. ASSUME NEW q \in Requests, q # r PROVE Protects(q)'
    <3>1. \A y \in Executions : holder[y] = q => row'[y] = row[y] /\ log'[y] = log[y]
      BY <2>1, <2>2
    <3>2. /\ req'[q] = req[q]
          /\ \A y \in Executions : holder'[y] = q <=> holder[y] = q
      BY <2>2, RequestsApart
    <3> QED
      BY <2>1, <3>1, <3>2, OthersProtected
  <2> QED
    BY <2>2, MoverProtected DEF LocksProtectReads
<1>2. CASE ~Commit(r)
  <2>1. row' = row /\ log' = log
    BY <1>2 DEF RequestMoves, Send, ResolveJobs, SelectRows, LockRow, ReadEvents, InsertRow,
                InsertConflict, Fail
  <2>2. ASSUME NEW q \in Requests, q # r PROVE Protects(q)'
    <3>1. \A y \in Executions : row'[y] = row[y] /\ log'[y] = log[y]
      BY <2>1
    <3>2. /\ req'[q] = req[q]
          /\ \A y \in Executions : holder'[y] = q <=> holder[y] = q
      BY <2>2, RequestsApart
    <3> QED
      BY <3>1, <3>2, OthersProtected
  <2> QED
    BY <2>2, MoverProtected DEF LocksProtectReads
<1> QED
  BY <1>1, <1>2

(* Evaluations and users write only rows that no request holds. *)
LEMMA WritersProtect ==
  ASSUME IInv, NEW j, NEW u, NEW x, WriterMoves(j, u, x)
  PROVE  LocksProtectReads'
<1> USE DEF IInv
<1> SUFFICES ASSUME NEW q \in Requests PROVE Protects(q)'
  BY DEF LocksProtectReads
<1>0. (j \in Jobs => q # j) /\ q # NoOne
  BY IngestAssumption
<1>1. req' = req /\ log' = log
  BY DEF WriterMoves, EvalMoves, UserMoves, EvalStart, EvalDiscard, EvalCommit, EvalVictim, CancelRead, CancelWrite, CancelEvaluate,
         EditRead, EditWrite
<1>2. \A y \in Executions : holder'[y] = q <=> holder[y] = q
  <2>1. CASE j \in Jobs /\ x \in Executions /\ EvalDiscard(j, x)
    BY <1>0, <2>1 DEF EvalDiscard, TypeOK
  <2>2. CASE j \in Jobs /\ (EvalCommit(j) \/ EvalVictim(j))
    <3>1. holder' = ReleasedBy(j)
      BY <2>2 DEF EvalCommit, EvalVictim
    <3> QED
      BY <1>0, <2>2, <3>1, ReleasedType
  <2> QED
    BY <2>1, <2>2 DEF WriterMoves, EvalMoves, UserMoves, EvalStart, CancelRead, CancelWrite, CancelEvaluate, EditRead, EditWrite
<1>3. \A y \in Executions : /\ holder[y] = q => row'[y] = row[y]
                            /\ row[y] # NoRow => row'[y] # NoRow
  <2>1. CASE j \in Jobs /\ EvalCommit(j)
    <3>1. /\ eval[j].discard \subseteq Executions
          /\ \A y \in eval[j].discard : row[y] \in Snapshot /\ holder[y] = j
      BY <2>1 DEF TypeOK, EvalState, EvalCommit
    <3>2. \A y \in eval[j].discard :
            [row[y] EXCEPT !.status = "failed", !.by = "evaluator", !.error = "evaluator"] # NoRow
      BY <3>1, OverrideType DEF Statuses, Writers
    <3> QED
      BY <1>0, <2>1, <3>1, <3>2 DEF EvalCommit
  <2>2. CASE u \in Users /\ CancelWrite(u)
    <3>1. PICK y \in user[u].target :
            /\ holder[y] = NoOne
            /\ row' = [row EXCEPT ![y].status = "cancelled", ![y].by = "user", ![y].error = "user"]
      BY <2>2 DEF CancelWrite
    <3>2. y \in Executions /\ row[y] \in Snapshot
      BY <2>2 DEF TypeOK, UserState
    <3>4. row' = [row EXCEPT ![y] =
                    [row[y] EXCEPT !.status = "cancelled", !.by = "user", !.error = "user"]]
      BY <3>1
    <3>3. [row[y] EXCEPT !.status = "cancelled", !.by = "user", !.error = "user"] # NoRow
      BY <3>2, OverrideType DEF Statuses, Writers
    <3> QED
      BY <1>0, <3>1, <3>2, <3>3, <3>4 DEF TypeOK
  <2> QED
    BY <2>1, <2>2 DEF WriterMoves, EvalMoves, UserMoves, EvalStart, EvalDiscard, EvalVictim, CancelRead, CancelEvaluate, EditRead, EditWrite
<1> QED
  BY <1>1, <1>2, <1>3, OthersProtected

-----------------------------------------------------------------------------
(* A commit keeps the snapshot that of the recorded history, and counts the
   events it records. *)
LEMMA CommitHistory ==
  ASSUME IInv, NEW r \in Requests, Commit(r)
  PROVE  (SnapshotIsLatest /\ CountedExactlyOnce)'
<1> USE DEF IInv
<1> DEFINE b == req[r].batch
<1>1. /\ \A x \in Keys(r) : Fresh(r, x) = EventsOf(b, x) \ log[x]
      /\ \A x \in ToCreate(r) : row[x] = NoRow /\ Fresh(r, x) # {}
      /\ \A x \in req[r].found : req[r].read[x] = row[x] /\ row[x] \in Snapshot
      /\ ToUpdate(r) \subseteq Keys(r) /\ ToCreate(r) \subseteq Keys(r)
  BY CommitReads, BatchType DEF Commit
<1>2. b \in Seq(Events) /\ \A x : Fresh(r, x) \in SUBSET Range(b) /\ Fresh(r, x) \in SUBSET Events
  BY BatchType
<1>3. ASSUME NEW x \in Executions
      PROVE  /\ (row'[x] = NoRow) = (log'[x] = {})
             /\ row'[x] # NoRow =>
                  /\ \A e \in log'[x] : Time(e) <= row'[x].last
                  /\ \E e \in log'[x] : /\ Time(e) = row'[x].last
                                        /\ row'[x].by = "event" => Payload[e].status = row'[x].status
  <2> DEFINE S == Fresh(r, x)
  <2>1. /\ (row[x] = NoRow) = (log[x] = {})
        /\ row[x] # NoRow =>
             /\ \A e \in log[x] : Time(e) <= row[x].last
             /\ \E e \in log[x] : /\ Time(e) = row[x].last
                                  /\ row[x].by = "event" => Payload[e].status = row[x].status
    BY DEF SnapshotIsLatest
  <2>2. log'[x] = log[x] \cup (IF x \in Keys(r) THEN S ELSE {})
    BY CommitWrites
  <2>3. CASE x \in ToCreate(r)
    <3>1. log[x] = {} /\ log'[x] = S /\ S # {} /\ S \in SUBSET Range(b)
      BY <1>1, <1>2, <2>1, <2>2, <2>3
    <3>2. row'[x] = MergeCreate(b, S)
      BY <2>3 DEF Commit, Merged
    <3> HIDE DEF b, S
    <3>3. /\ row'[x] \in Snapshot /\ \A e \in S : Time(e) <= row'[x].last
          /\ \E e \in S : Time(e) = row'[x].last /\ Payload[e].status = row'[x].status
      BY <1>2, <3>1, <3>2, CreateIsLatest
    <3> QED
      BY <3>1, <3>3, IngestAssumption
  <2>4. CASE x \in ToUpdate(r)
    <3>1. /\ x \in Keys(r) /\ x \notin ToCreate(r) /\ row[x] \in Snapshot /\ req[r].read[x] = row[x]
          /\ S \in SUBSET Range(b) /\ log'[x] = log[x] \cup S
      BY <1>1, <1>2, <2>2, <2>4 DEF ToCreate, ToUpdate
    <3>2. row'[x] = MergeUpdate(row[x], b, S)
      BY <2>4, <3>1 DEF Commit, Merged
    <3> HIDE DEF b, S
    <3>0. row[x] \in Snapshot /\ b \in Seq(Events) /\ S \in SUBSET Range(b)
      BY <1>2, <3>1
    <3>3. /\ row'[x] \in Snapshot /\ row'[x].last >= row[x].last
          /\ \A e \in S : Time(e) <= row'[x].last
          /\ \/ row'[x].status = row[x].status /\ row'[x].last = row[x].last /\ row'[x].by = row[x].by
             \/ /\ row'[x].last > row[x].last /\ row'[x].by = "event"
                /\ \E e \in S : Time(e) = row'[x].last /\ Payload[e].status = row'[x].status
      BY <3>0, <3>2, UpdateIsLatest
    <3>4. row[x] # NoRow /\ row'[x] # NoRow
      BY <3>1, <3>3, IngestAssumption
    <3>5. \A e \in log[x] : Time(e) <= row'[x].last
      <4>1. row[x].last \in Int /\ row'[x].last \in Int
        BY <3>1, <3>3, ColumnType DEF Snapshot
      <4>2. \A e \in log[x] : Time(e) \in Int
        BY PayloadType, ColumnType DEF TypeOK
      <4> QED
        BY <2>1, <3>3, <3>4, <4>1, <4>2
    <3> QED
      BY <2>1, <3>1, <3>3, <3>4, <3>5
  <2>5. CASE x \notin ToCreate(r) /\ x \notin ToUpdate(r)
    <3>1. row'[x] = row[x]
      BY <2>5 DEF Commit, Merged
    <3>2. CASE x \in Keys(r)
      <4>1. x \in req[r].found /\ ~Touches(row[x], S) /\ row[x] \in Snapshot /\ S \in SUBSET Events
        BY <1>1, <1>2, <2>5, <3>2 DEF ToCreate, ToUpdate
      <4>2. \A e \in S : Time(e) <= row[x].last
        BY <4>1, UntouchedIsLatest
      <4>3. row[x] # NoRow /\ log'[x] = log[x] \cup S
        BY <2>2, <3>2, <4>1, IngestAssumption
      <4> QED
        BY <2>1, <3>1, <4>2, <4>3
    <3>3. CASE x \notin Keys(r)
      BY <2>1, <2>2, <3>1, <3>3
    <3> QED
      BY <3>2, <3>3
  <2> QED
    BY <2>3, <2>4, <2>5
<1>4. ASSUME NEW e \in Events
      PROVE  counted'[e] = IF e \in log'[ExecOf(e)] THEN 1 ELSE 0
  <2> DEFINE x == ExecOf(e)
  <2>1. x \in Executions /\ counted[e] = IF e \in log[x] THEN 1 ELSE 0
    BY PayloadType DEF CountedExactlyOnce
  <2>2. counted'[e] = counted[e] + (IF e \in Accepted(r) THEN 1 ELSE 0)
    BY DEF Commit
  <2>3. e \in Accepted(r) <=> x \in Keys(r) /\ e \in Fresh(r, x)
    BY BatchType DEF Accepted
  <2>4. log'[x] = log[x] \cup (IF x \in Keys(r) THEN Fresh(r, x) ELSE {})
    BY <2>1, CommitWrites
  <2>5. x \in Keys(r) /\ e \in Fresh(r, x) => e \notin log[x]
    BY <1>1
  <2> HIDE DEF x
  <2> QED
    BY <2>1, <2>2, <2>3, <2>4, <2>5 DEF x
<1> QED
  BY <1>3, <1>4 DEF SnapshotIsLatest, CountedExactlyOnce

(* Rows whose status was overridden keep the time of their latest event. *)
LEMMA OverrideHistory ==
  ASSUME IInv, log' = log, counted' = counted,
         \A x \in Executions :
           \/ row'[x] = row[x]
           \/ /\ row[x] # NoRow /\ row'[x] # NoRow
              /\ row'[x].last = row[x].last /\ row'[x].by # "event"
  PROVE  (SnapshotIsLatest /\ CountedExactlyOnce)'
<1>1. CountedExactlyOnce'
  BY DEF IInv, CountedExactlyOnce
<1>2. SnapshotIsLatest'
  BY DEF IInv, SnapshotIsLatest
<1> QED
  BY <1>1, <1>2

LEMMA WritersHistory ==
  ASSUME IInv, NEW j, NEW u, NEW x, WriterMoves(j, u, x)
  PROVE  (SnapshotIsLatest /\ CountedExactlyOnce)'
<1> USE DEF IInv
<1>1. log' = log /\ counted' = counted
  BY DEF WriterMoves, EvalMoves, UserMoves, EvalStart, EvalDiscard, EvalCommit, EvalVictim, CancelRead, CancelWrite, CancelEvaluate,
         EditRead, EditWrite
<1>2. CASE j \in Jobs /\ EvalCommit(j)
  <2>1. ASSUME NEW y \in eval[j].discard
        PROVE  LET t == [row[y] EXCEPT !.status = "failed", !.by = "evaluator", !.error = "evaluator"]
               IN  row[y] # NoRow /\ t # NoRow /\ t.last = row[y].last /\ t.by # "event"
    <3>1. row[y] \in Snapshot /\ row[y] # NoRow
      BY <1>2 DEF TypeOK, EvalState
    <3> QED
      BY <3>1, OverrideType DEF Statuses, Writers
  <2>2. \A y \in Executions :
          row'[y] = IF y \in eval[j].discard
                    THEN [row[y] EXCEPT !.status = "failed", !.by = "evaluator", !.error = "evaluator"]
                    ELSE row[y]
    BY <1>2 DEF EvalCommit
  <2> QED
    BY <1>1, <2>1, <2>2, OverrideHistory
<1>3. CASE u \in Users /\ CancelWrite(u)
  <2>1. PICK y \in user[u].target :
          row' = [row EXCEPT ![y].status = "cancelled", ![y].by = "user", ![y].error = "user"]
    BY <1>3 DEF CancelWrite
  <2> DEFINE t == [row[y] EXCEPT !.status = "cancelled", !.by = "user", !.error = "user"]
  <2>2. y \in Executions /\ row[y] \in Snapshot /\ row[y] # NoRow
    BY <1>3 DEF TypeOK, UserState
  <2>3. t # NoRow /\ t.last = row[y].last /\ t.by # "event"
    BY <2>2, OverrideType DEF Statuses, Writers
  <2>4. row' = [row EXCEPT ![y] = t]
    BY <2>1
  <2> HIDE DEF t
  <2> QED
    BY <1>1, <2>2, <2>3, <2>4, OverrideHistory DEF TypeOK
<1>4. CASE ~(j \in Jobs /\ EvalCommit(j)) /\ ~(u \in Users /\ CancelWrite(u))
  <2>1. row' = row
    BY <1>4 DEF WriterMoves, EvalMoves, UserMoves, EvalStart, EvalDiscard, EvalVictim, CancelRead, CancelEvaluate, EditRead, EditWrite
  <2> QED
    BY <1>1, <2>1, OverrideHistory
<1> QED
  BY <1>2, <1>3, <1>4

-----------------------------------------------------------------------------
(* The invariant holds initially and every step keeps it. *)
LEMMA InitInv == Init => IInv
<1> SUFFICES ASSUME Init PROVE IInv
  OBVIOUS
<1>1. TypeOK
  <2>1. jobs \in JobTable
    BY IngestAssumption DEF Init
  <2>2. req \in [Requests -> RequestState]
    BY InitRequestType DEF Init
  <2>3. user \in [Users -> UserState] /\ \A u \in Users : user[u].target = {}
    BY DEF Init, IdleUser, UserState
  <2>4. eval \in [Jobs -> EvalState] /\ \A j \in Jobs : eval[j].discard = {}
    BY DEF Init, IdleEval, EvalState
  <2> QED
    BY <2>1, <2>2, <2>3, <2>4 DEF Init, TypeOK, NoRead
<1>2. LocksProtectReads
  BY IngestAssumption DEF Init, LocksProtectReads, Protects, InitRequest, NoRead
<1>3. SnapshotIsLatest
  BY DEF Init, SnapshotIsLatest, NoRead
<1>4. CountedExactlyOnce
  BY PayloadType DEF Init, CountedExactlyOnce
<1> QED
  BY <1>1, <1>2, <1>3, <1>4 DEF IInv

LEMMA MoveInv ==
  ASSUME IInv, NEW r \in Requests, NEW x, NEW b, NEW reply, RequestMoves(r, x, b, reply)
  PROVE  IInv'
<1>1. TypeOK'
  BY RequestTypes, CommitTypes
<1>2. LocksProtectReads'
  BY RequestProtects
<1>3. (SnapshotIsLatest /\ CountedExactlyOnce)'
  <2>1. CASE Commit(r)
    BY <2>1, CommitHistory
  <2>2. CASE ~Commit(r)
    <3>1. row' = row /\ log' = log /\ counted' = counted
      BY <2>2 DEF RequestMoves, Send, ResolveJobs, SelectRows, LockRow, ReadEvents, InsertRow,
                  InsertConflict, Fail
    <3> QED
      BY <3>1, OverrideHistory
  <2> QED
    BY <2>1, <2>2
<1> QED
  BY <1>1, <1>2, <1>3 DEF IInv

LEMMA WriterInv ==
  ASSUME IInv, NEW j, NEW u, NEW x, WriterMoves(j, u, x)
  PROVE  IInv'
<1>1. TypeOK'
  BY EvalTypes, UserTypes DEF WriterMoves
<1> QED
  BY <1>1, WritersProtect, WritersHistory DEF IInv

(* Every step is one of a request or of another writer. *)
LEMMA StepKinds ==
  ASSUME [Next]_vars
  PROVE  \/ \E r \in Requests : \E x, b, reply : RequestMoves(r, x, b, reply)
         \/ \E j, u, x : WriterMoves(j, u, x)
         \/ UNCHANGED vars
<1>1. ASSUME NEW r \in Requests, RequestStep(r) PROVE \E x, b, reply : RequestMoves(r, x, b, reply)
  <2>1. CASE \E x \in Executions : LockRow(r, x) \/ InsertRow(r, x) \/ InsertConflict(r, x)
    BY <2>1 DEF RequestMoves
  <2>2. CASE RequestVictim(r)
    BY <2>2 DEF RequestVictim, RequestMoves, Replies
  <2> QED
    BY <1>1, <2>1, <2>2 DEF RequestStep, RequestMoves
<1>2. ASSUME NEW r \in Requests, Crash(r) PROVE RequestMoves(r, r, r, "lost")
  BY <1>2 DEF Crash, RequestMoves, Replies
<1>3. ASSUME NEW r \in Requests, NEW b \in Batches, Send(r, b) PROVE RequestMoves(r, r, b, r)
  BY <1>3 DEF RequestMoves
<1>4. ASSUME NEW j \in Jobs, EvalStep(j) \/ EvalStart(j) PROVE \E x : WriterMoves(j, j, x)
  BY <1>4 DEF EvalStep, EvalMoves, WriterMoves
<1>5. ASSUME NEW u \in Users, UserStep(u) PROVE WriterMoves(u, u, u)
  BY <1>5 DEF UserStep, UserMoves, WriterMoves
<1>6. ASSUME NEW u \in Users, NEW x \in Executions, CancelRead(u, x) PROVE WriterMoves(u, u, x)
  BY <1>6 DEF UserMoves, WriterMoves
<1>7. ASSUME NEW u \in Users, NEW j \in Jobs, EditRead(u, j) PROVE WriterMoves(j, u, u)
  BY <1>7 DEF UserMoves, WriterMoves
<1> QED
  BY <1>1, <1>2, <1>3, <1>4, <1>5, <1>6, <1>7 DEF Next

LEMMA NextInv == IInv /\ [Next]_vars => IInv'
<1> SUFFICES ASSUME IInv, [Next]_vars PROVE IInv'
  OBVIOUS
<1>1. CASE UNCHANGED vars
  <2>1. TypeOK'
    BY <1>1 DEF vars, IInv, TypeOK
  <2>2. LocksProtectReads'
    BY <1>1 DEF vars, IInv, LocksProtectReads, Protects
  <2>3. (SnapshotIsLatest /\ CountedExactlyOnce)'
    BY <1>1, OverrideHistory DEF vars
  <2> QED
    BY <2>1, <2>2, <2>3 DEF IInv
<1> QED
  BY <1>1, StepKinds, MoveInv, WriterInv

(* Late events change nothing but counts, for every step. *)
Forward(x) ==
  /\ row'[x] # NoRow
  /\ row'[x].last >= row[x].last /\ row'[x].retry >= row[x].retry
  /\ log'[x] # log[x] /\ row'[x].status # row[x].status => row'[x].last > row[x].last

LEMMA SameForward ==
  ASSUME IInv, NEW x \in Executions, row[x] # NoRow, row'[x] # NoRow,
         row'[x].last = row[x].last, row'[x].retry = row[x].retry,
         log'[x] = log[x] \/ row'[x].status = row[x].status
  PROVE  Forward(x)
<1>1. row[x].last \in Int /\ row[x].retry \in Int
  BY ColumnType DEF IInv, TypeOK, Snapshot
<1> QED
  BY <1>1 DEF Forward

LEMMA CommitForward ==
  ASSUME IInv, NEW r \in Requests, Commit(r), NEW x \in Executions, row[x] # NoRow
  PROVE  Forward(x)
<1> DEFINE b == req[r].batch
           S == Fresh(r, x)
<1>1. x \notin ToCreate(r)
  BY CommitReads DEF Commit
<1>2. CASE x \in ToUpdate(r)
  <2>1. row[x] \in Snapshot /\ req[r].read[x] = row[x]
    BY <1>2, CommitReads DEF Commit, ToUpdate
  <2>2. b \in Seq(Events) /\ S \in SUBSET Range(b)
    BY BatchType DEF IInv
  <2>3. row'[x] = MergeUpdate(row[x], b, S)
    BY <1>1, <1>2, <2>1 DEF Commit, Merged
  <2>4. row'[x] # NoRow
    BY CommitWrites
  <2> HIDE DEF b, S
  <2>5. /\ row'[x].last >= row[x].last /\ row'[x].retry >= row[x].retry
        /\ row'[x].status = row[x].status \/ row'[x].last > row[x].last
    BY <2>1, <2>2, <2>3, UpdateIsLatest
  <2> QED
    BY <2>4, <2>5 DEF Forward
<1>3. CASE x \notin ToUpdate(r)
  <2>1. row'[x] = row[x]
    BY <1>1, <1>3 DEF Commit, Merged
  <2> QED
    BY <2>1, SameForward
<1> QED
  BY <1>2, <1>3

LEMMA WriterForward ==
  ASSUME IInv, NEW j, NEW u, NEW y, WriterMoves(j, u, y), NEW x \in Executions, row[x] # NoRow
  PROVE  Forward(x)
<1> USE DEF IInv
<1>0. log' = log /\ row[x] \in Snapshot
  BY DEF TypeOK, WriterMoves, EvalMoves, UserMoves, EvalStart, EvalDiscard, EvalCommit, EvalVictim,
         CancelRead, CancelWrite, CancelEvaluate, EditRead, EditWrite
<1>1. \/ row'[x] = row[x]
      \/ row'[x] = [row[x] EXCEPT !.status = "failed", !.by = "evaluator", !.error = "evaluator"]
      \/ row'[x] = [row[x] EXCEPT !.status = "cancelled", !.by = "user", !.error = "user"]
  <2>1. CASE j \in Jobs /\ EvalCommit(j)
    BY <2>1 DEF EvalCommit
  <2>2. CASE u \in Users /\ CancelWrite(u)
    <3>1. PICK z \in user[u].target :
            row' = [row EXCEPT ![z].status = "cancelled", ![z].by = "user", ![z].error = "user"]
      BY <2>2 DEF CancelWrite
    <3>2. CASE z = x
      BY <3>1, <3>2 DEF TypeOK
    <3>3. CASE z # x
      BY <3>1, <3>3 DEF TypeOK
    <3> QED
      BY <3>2, <3>3
  <2> QED
    BY <2>1, <2>2 DEF WriterMoves, EvalMoves, UserMoves, EvalStart, EvalDiscard, EvalVictim,
                      CancelRead, CancelEvaluate, EditRead, EditWrite
<1>2. ASSUME NEW st \in Statuses, NEW w \in Writers,
             row'[x] = [row[x] EXCEPT !.status = st, !.by = w, !.error = w]
      PROVE  row'[x] # NoRow /\ row'[x].last = row[x].last /\ row'[x].retry = row[x].retry
  <2>1. row'[x].last = row[x].last /\ row'[x].retry = row[x].retry
    BY <1>0, <1>2 DEF Snapshot
  <2>3. [row[x] EXCEPT !.status = st, !.by = w, !.error = w] \in Snapshot
    BY <1>0 DEF Snapshot
  <2>2. [row[x] EXCEPT !.status = st, !.by = w, !.error = w] # NoRow
    BY <2>3, IngestAssumption
  <2> QED
    BY <1>2, <2>1, <2>2
<1>3. row'[x] # NoRow /\ row'[x].last = row[x].last /\ row'[x].retry = row[x].retry
  BY <1>1, <1>2 DEF Statuses, Writers
<1> QED
  BY <1>0, <1>3, SameForward

LEMMA MoveForward ==
  ASSUME IInv, NEW r \in Requests, NEW y, NEW b, NEW reply, RequestMoves(r, y, b, reply),
         NEW x \in Executions, row[x] # NoRow
  PROVE  Forward(x)
<1>1. CASE ~Commit(r)
  <2>1. row' = row /\ log' = log
    BY <1>1 DEF RequestMoves, Send, ResolveJobs, SelectRows, LockRow, ReadEvents, InsertRow,
                InsertConflict, Fail
  <2> QED
    BY <2>1, SameForward
<1> QED
  BY <1>1, CommitForward

-----------------------------------------------------------------------------
(***************************************************************************)
(* The theorems.                                                            *)
(***************************************************************************)

THEOREM Invariance == Spec => []IInv
<1>1. Init => IInv
  BY InitInv
<1>2. IInv /\ [Next]_vars => IInv'
  BY NextInv
<1> QED
  BY <1>1, <1>2, PTL DEF Spec

(* The types, and the targets of cancellations and evaluations exist. *)
THEOREM TypesCorrect == Spec => []TypeOK
<1>1. IInv => TypeOK
  BY DEF IInv
<1> QED
  BY <1>1, Invariance, PTL

(* Two-phase row locking: what a transaction has read holds until it ends. *)
THEOREM ReadsProtected == Spec => []LocksProtectReads
<1>1. IInv => LocksProtectReads
  BY DEF IInv
<1> QED
  BY <1>1, Invariance, PTL

(* The snapshot of an execution is that of its recorded history. *)
THEOREM SnapshotCorrect == Spec => []SnapshotIsLatest
<1>1. IInv => SnapshotIsLatest
  BY DEF IInv
<1> QED
  BY <1>1, Invariance, PTL

(* Every recorded event is counted as accepted once, whatever is sent again. *)
THEOREM CountCorrect == Spec => []CountedExactlyOnce
<1>1. IInv => CountedExactlyOnce
  BY DEF IInv
<1> QED
  BY <1>1, Invariance, PTL

(* A late or simultaneous event never changes the status of an execution, and
   its latest time and its retry count never go back. *)
THEOREM LateEventsHarmless == Spec => LateEventsKeepStatus
<1>1. IInv /\ [Next]_vars
      => [\A x \in Executions : row[x] # NoRow =>
            /\ row'[x] # NoRow
            /\ row'[x].last >= row[x].last /\ row'[x].retry >= row[x].retry
            /\ log'[x] # log[x] /\ row'[x].status # row[x].status
                 => row'[x].last > row[x].last]_vars
  <2> SUFFICES ASSUME IInv, [Next]_vars, ~UNCHANGED vars, NEW x \in Executions, row[x] # NoRow
               PROVE  Forward(x)
    BY DEF Forward
  <2> QED
    BY StepKinds, MoveForward, WriterForward
<1> QED
  BY <1>1, Invariance, PTL DEF Spec, LateEventsKeepStatus

-----------------------------------------------------------------------------
(***************************************************************************)
(* What the replies mean: a 202 acknowledges recorded events, and an       *)
(* IntegrityError that survives the view's attempts comes only from a      *)
(* batch of as many executions as attempts.  For the latter each retry has *)
(* learned of one more row of its batch, which stays visible to the next   *)
(* attempt: the attempts made are counted by the rows learned of.          *)
(***************************************************************************)
Named(r) == {ExecOf(e) : e \in Range(req[r].batch)}

(* The executions of its batch for which the attempt of r, if it has selected
   its rows, will not insert a row that another request has committed. *)
Learned(r) ==
  {x \in Named(r) : /\ row[x] # NoRow
                    /\ req[r].pc \in {"lock", "insert"} /\ x \in Keys(r) => x \in req[r].found}

Counted(r) ==
  /\ req[r].pc = "idle" => req[r].tries = 0
  /\ req[r].pc # "done" => req[r].reply = "none" /\ req[r].tries <= Cardinality(Learned(r))

Acknowledged(r) ==
  req[r].reply = "ok" =>
    \A e \in Range(req[r].batch) : JobOf[ExecOf(e)] \in req[r].valid => e \in log[ExecOf(e)]

Excused(r) == req[r].reply = "integrity" => Cardinality(Named(r)) >= MaxAttempts

RInv == \A r \in Requests : Counted(r) /\ Acknowledged(r) /\ Excused(r)

-----------------------------------------------------------------------------
(* A batch names finitely many executions. *)
LEMMA BatchFinite ==
  ASSUME NEW b \in Seq(Events)
  PROVE  IsFiniteSet({ExecOf(e) : e \in Range(b)})
<1> DEFINE f == [i \in 1 .. Len(b) |-> ExecOf(b[i])]
           T == {ExecOf(e) : e \in Range(b)}
<1>1. Range(b) = {b[i] : i \in 1 .. Len(b)}
  BY DEF Range
<1>2. f \in Surjection(1 .. Len(b), T)
  BY <1>1 DEF Surjection
<1>3. IsFiniteSet(1 .. Len(b))
  BY FS_Interval
<1> QED
  BY <1>2, <1>3, FS_Surjection

LEMMA NamedFinite ==
  ASSUME TypeOK, NEW r \in Requests
  PROVE  IsFiniteSet(Named(r)) /\ Named(r) \subseteq Executions /\ Keys(r) \subseteq Named(r)
<1>1. req[r].batch \in Seq(Events) /\ Range(req[r].batch) \subseteq Events
  BY BatchType
<1> QED
  BY <1>1, BatchFinite, PayloadType DEF Named, Keys

(* What may happen to the rows and to a request that does not move. *)
LEMMA LearnedGrows ==
  ASSUME TypeOK, NEW r \in Requests, Learned(r) \subseteq Learned(r)', Named(r)' = Named(r)
  PROVE  Cardinality(Learned(r)) <= Cardinality(Learned(r)')
<1>1. Learned(r)' \subseteq Named(r)' /\ IsFiniteSet(Learned(r)')
  <2>1. Learned(r)' \subseteq Named(r)
    BY DEF Learned
  <2> QED
    BY <2>1, NamedFinite, FS_Subset
<1> QED
  BY <1>1, FS_Subset

LEMMA StillStands ==
  ASSUME IInv, NEW q \in Requests, Counted(q), Acknowledged(q), Excused(q), req'[q] = req[q],
         \A x \in Executions : (row[x] # NoRow => row'[x] # NoRow) /\ log[x] \subseteq log'[x]
  PROVE  Counted(q)' /\ Acknowledged(q)' /\ Excused(q)'
<1>1. Named(q)' = Named(q) /\ Keys(q)' = Keys(q)
  BY DEF Named, Keys
<1>2. TypeOK /\ Named(q) \subseteq Executions
  BY NamedFinite DEF IInv
<1>3. Learned(q) \subseteq Learned(q)'
  BY <1>1, <1>2 DEF Learned
<1>4. Cardinality(Learned(q)) <= Cardinality(Learned(q)')
  BY <1>1, <1>2, <1>3, LearnedGrows
<1>5. Learned(q) \subseteq Named(q) /\ Learned(q)' \subseteq Named(q)
  BY <1>1 DEF Learned
<1>6. Cardinality(Learned(q)) \in Nat /\ Cardinality(Learned(q)') \in Nat /\ req[q].tries \in Nat
  BY <1>2, <1>5, NamedFinite, FS_Subset, FS_CardinalityType DEF TypeOK, RequestState
<1>7. Counted(q)'
  BY <1>4, <1>6 DEF Counted
<1>8. Acknowledged(q)'
  <2>1. \A e \in Range(req[q].batch) : ExecOf(e) \in Executions
    BY <1>2 DEF Named
  <2> QED
    BY <2>1 DEF Acknowledged
<1> QED
  BY <1>1, <1>7, <1>8 DEF Excused
-----------------------------------------------------------------------------
(* Rows and recorded events stay. *)
LEMMA MoveKeeps ==
  ASSUME IInv, NEW r \in Requests, NEW x, NEW b, NEW reply, RequestMoves(r, x, b, reply),
         NEW y \in Executions
  PROVE  (row[y] # NoRow => row'[y] # NoRow) /\ log[y] \subseteq log'[y]
<1>1. CASE Commit(r)
  BY <1>1, CommitWrites
<1>2. CASE ~Commit(r)
  BY <1>2 DEF RequestMoves, Send, ResolveJobs, SelectRows, LockRow, ReadEvents, InsertRow,
              InsertConflict, Fail
<1> QED
  BY <1>1, <1>2

LEMMA WriterKeeps ==
  ASSUME IInv, NEW j, NEW u, NEW x, WriterMoves(j, u, x), NEW y \in Executions
  PROVE  (row[y] # NoRow => row'[y] # NoRow) /\ log'[y] = log[y] /\ req' = req
<1>1. row[y] # NoRow => row'[y] # NoRow
  BY WriterForward DEF Forward
<1>2. log' = log /\ req' = req
  BY DEF WriterMoves, EvalMoves, UserMoves, EvalStart, EvalDiscard, EvalCommit, EvalVictim,
         CancelRead, CancelWrite, CancelEvaluate, EditRead, EditWrite
<1> QED
  BY <1>1, <1>2

(* An attempt goes on: the rows stay as they are, the request has no reply, and
   it has learned of at least as many rows. *)
LEMMA GoesOn ==
  ASSUME IInv, NEW r \in Requests, Counted(r), Acknowledged(r), Excused(r),
         req'[r].batch = req[r].batch, req'[r].tries = req[r].tries, req'[r].reply = "none",
         req[r].pc \notin {"idle", "done"}, req'[r].pc \notin {"idle", "done"},
         Learned(r) \subseteq Learned(r)'
  PROVE  Counted(r)' /\ Acknowledged(r)' /\ Excused(r)'
<1>1. TypeOK /\ Named(r)' = Named(r)
  BY DEF IInv, Named
<1>2. Cardinality(Learned(r)) <= Cardinality(Learned(r)')
  BY <1>1, LearnedGrows
<1>3. Learned(r) \subseteq Named(r) /\ Learned(r)' \subseteq Named(r)
  BY <1>1 DEF Learned
<1>4. Cardinality(Learned(r)) \in Nat /\ Cardinality(Learned(r)') \in Nat /\ req[r].tries \in Nat
  BY <1>1, <1>3, NamedFinite, FS_Subset, FS_CardinalityType DEF TypeOK, RequestState
<1> QED
  BY <1>2, <1>4 DEF Counted, Acknowledged, Excused

(* IntegrityError: the row in the way is one more that the next attempt will
   find, and the last attempt has met as many as there were attempts. *)
LEMMA ConflictLearns ==
  ASSUME IInv, NEW r \in Requests, Counted(r), NEW x \in Executions, InsertConflict(r, x)
  PROVE  Counted(r)' /\ Acknowledged(r)' /\ Excused(r)'
<1> DEFINE raise == req[r].tries + 1 >= MaxAttempts
           more == Learned(r) \cup {x}
<1>1. TypeOK /\ req[r].tries \in Nat /\ MaxAttempts \in Nat
  BY IngestAssumption DEF IInv, TypeOK, RequestState
<1>2. /\ req[r].pc = "insert" /\ x \in Keys(r) /\ x \notin req[r].found /\ row[x] # NoRow
      /\ row' = row
  BY DEF InsertConflict, NextInsert, ToCreate
<1>3. /\ req'[r].batch = req[r].batch /\ req'[r].tries = req[r].tries + 1
      /\ req'[r].pc = IF raise THEN "done" ELSE "resolve"
      /\ req'[r].reply = IF raise THEN "integrity" ELSE "none"
  BY <1>1 DEF InsertConflict, InitRequest, TypeOK
<1>4. x \notin Learned(r) /\ more \subseteq Named(r) /\ IsFiniteSet(Named(r))
  BY <1>1, <1>2, NamedFinite DEF Learned
<1>5. /\ IsFiniteSet(Learned(r)) /\ Cardinality(Learned(r)) \in Nat
      /\ Cardinality(more) = Cardinality(Learned(r)) + 1
      /\ Cardinality(Named(r)) \in Nat /\ Cardinality(more) <= Cardinality(Named(r))
  <2>1. IsFiniteSet(Learned(r))
    BY <1>4, FS_Subset
  <2>2. Cardinality(more) = Cardinality(Learned(r)) + 1
    BY <1>4, <2>1, FS_AddElement
  <2>3. Cardinality(more) <= Cardinality(Named(r))
    BY <1>4, FS_Subset
  <2> QED
    BY <1>4, <2>1, <2>2, <2>3, FS_CardinalityType
<1>6. req[r].tries + 1 <= Cardinality(more)
  BY <1>1, <1>2, <1>5 DEF Counted
<1>7. Named(r)' = Named(r)
  BY <1>3 DEF Named
<1>8. CASE raise
  BY <1>1, <1>3, <1>5, <1>6, <1>7, <1>8 DEF Counted, Acknowledged, Excused
<1>9. CASE ~raise
  <2>1. more \subseteq Learned(r)'
    BY <1>2, <1>3, <1>4, <1>7, <1>9 DEF Learned
  <2>2. Learned(r)' \subseteq Named(r)
    BY <1>7 DEF Learned
  <2>3. Cardinality(more) <= Cardinality(Learned(r)') /\ Cardinality(Learned(r)') \in Nat
    BY <1>4, <2>1, <2>2, FS_Subset, FS_CardinalityType
  <2> QED
    BY <1>1, <1>3, <1>5, <1>6, <1>9, <2>3 DEF Counted, Acknowledged, Excused
<1> QED
  BY <1>8, <1>9
(* One step of a request, for the request itself. *)
LEMMA MoverReplies ==
  ASSUME IInv, NEW r \in Requests, Counted(r), Acknowledged(r), Excused(r),
         NEW x, NEW b, NEW reply, RequestMoves(r, x, b, reply)
  PROVE  Counted(r)' /\ Acknowledged(r)' /\ Excused(r)'
<1>0. TypeOK /\ req[r] \in RequestState
  BY DEF IInv, TypeOK
<1>1. CASE b \in Batches /\ Send(r, b)
  <2>1. /\ req[r].pc = "idle" /\ req[r].tries = 0 /\ req[r].reply = "none"
        /\ req'[r].pc = "resolve" /\ req'[r].tries = 0 /\ req'[r].reply = "none"
    BY <1>0, <1>1 DEF Send, Counted, TypeOK
  <2>2. Named(r)' = {ExecOf(e) : e \in Range(b)} /\ IsFiniteSet(Named(r)')
    <3>1. Named(r)' = {ExecOf(e) : e \in Range(b)}
      BY <1>0, <1>1 DEF Send, Named, TypeOK
    <3>2. b \in Seq(Events)
      BY <1>1, IngestAssumption
    <3> QED
      BY <3>1, <3>2, BatchFinite
  <2>3. Learned(r)' \subseteq Named(r)'
    BY DEF Learned
  <2>4. Cardinality(Learned(r)') \in Nat
    BY <2>2, <2>3, FS_Subset, FS_CardinalityType
  <2> QED
    BY <2>1, <2>4 DEF Counted, Acknowledged, Excused
<1>2. CASE ResolveJobs(r)
  <2>1. /\ req[r].pc = "resolve" /\ req[r].reply = "none" /\ row' = row
        /\ req'[r].batch = req[r].batch /\ req'[r].tries = req[r].tries
        /\ \/ req'[r].pc = "select" /\ req'[r].reply = "none"
           \/ req'[r].pc = "done" /\ req'[r].reply = "ok" /\ req'[r].valid = {}
    <3> DEFINE named   == JobsNamed(req[r].batch)
               missing == {j \in named : jobs[j].status = "absent"}
               valid   == missing \cup {j \in named : jobs[j].status = "active"}
    <3>1. /\ req[r].pc = "resolve" /\ row' = row
          /\ req' = [req EXCEPT ![r].valid = valid,
                                ![r].pc = IF valid = {} THEN "done" ELSE "select",
                                ![r].reply = IF valid = {} THEN "ok" ELSE "none"]
      BY <1>2 DEF ResolveJobs
    <3> HIDE DEF valid
    <3>2. /\ req'[r].batch = req[r].batch /\ req'[r].tries = req[r].tries
          /\ req'[r].valid = valid
          /\ req'[r].pc = IF valid = {} THEN "done" ELSE "select"
          /\ req'[r].reply = IF valid = {} THEN "ok" ELSE "none"
      BY <1>0, <3>1 DEF TypeOK, RequestState
    <3> QED
      BY <3>1, <3>2 DEF Counted
  <2>2. CASE req'[r].pc = "select" /\ req'[r].reply = "none"
    <3>1. Learned(r) \subseteq Learned(r)'
      BY <2>1, <2>2 DEF Learned, Named
    <3> QED
      BY <2>1, <2>2, <3>1, GoesOn
  <2>3. CASE req'[r].pc = "done" /\ req'[r].reply = "ok" /\ req'[r].valid = {}
    BY <2>3 DEF Counted, Acknowledged, Excused
  <2> QED
    BY <2>1, <2>2, <2>3
<1>3. CASE SelectRows(r)
  <2>1. /\ req[r].pc = "select" /\ req'[r].pc = "lock" /\ row' = row
        /\ req'[r].batch = req[r].batch /\ req'[r].tries = req[r].tries
        /\ req'[r].reply = "none" /\ req'[r].valid = req[r].valid
        /\ \A y \in Keys(r) : row[y] # NoRow => y \in req'[r].found
    <3>1. \A y \in Keys(r) : y \in Executions
      BY <1>0, NamedFinite
    <3> QED
      BY <1>0, <1>3, <3>1 DEF SelectRows, Counted, TypeOK
  <2>2. Named(r)' = Named(r) /\ Keys(r)' = Keys(r)
    BY <2>1 DEF Named, Keys
  <2>3. Learned(r) \subseteq Learned(r)'
    BY <2>1, <2>2 DEF Learned
  <2> QED
    BY <2>1, <2>3, GoesOn
<1>4. CASE x \in Executions /\ LockRow(r, x)
  <2>1. /\ req[r].pc = "lock" /\ req'[r].pc = "lock" /\ row' = row
        /\ req'[r].batch = req[r].batch /\ req'[r].tries = req[r].tries
        /\ req'[r].reply = "none" /\ req'[r].valid = req[r].valid
        /\ req'[r].found = req[r].found
    BY <1>0, <1>4 DEF LockRow, Counted, TypeOK, RequestState
  <2>2. Learned(r) \subseteq Learned(r)'
    BY <2>1 DEF Learned, Named, Keys
  <2> QED
    BY <2>1, <2>2, GoesOn
<1>5. CASE ReadEvents(r)
  <2>1. /\ req[r].pc = "lock" /\ req'[r].pc = "insert" /\ row' = row
        /\ req'[r].batch = req[r].batch /\ req'[r].tries = req[r].tries
        /\ req'[r].reply = "none" /\ req'[r].valid = req[r].valid
        /\ req'[r].found = req[r].found
    BY <1>0, <1>5 DEF ReadEvents, Counted, TypeOK, RequestState
  <2>2. Learned(r) \subseteq Learned(r)'
    BY <2>1 DEF Learned, Named, Keys
  <2> QED
    BY <2>1, <2>2, GoesOn
<1>6. CASE x \in Executions /\ InsertRow(r, x)
  <2>1. req[r].pc = "insert" /\ req' = req /\ row' = row /\ req[r].reply = "none"
    BY <1>6 DEF InsertRow, NextInsert, Counted
  <2>2. Learned(r) \subseteq Learned(r)'
    BY <2>1 DEF Learned, Named, Keys
  <2> QED
    BY <2>1, <2>2, GoesOn
<1>7. CASE x \in Executions /\ InsertConflict(r, x)
  BY <1>7, ConflictLearns
<1>8. CASE Commit(r)
  <2>1. /\ req'[r].batch = req[r].batch /\ req'[r].valid = req[r].valid
        /\ req'[r].pc = "done" /\ req'[r].reply = "ok"
    BY <1>0, <1>8 DEF Commit, TypeOK
  <2>2. ASSUME NEW e \in Range(req[r].batch), JobOf[ExecOf(e)] \in req[r].valid
        PROVE  e \in log'[ExecOf(e)]
    <3>1. ExecOf(e) \in Keys(r) /\ ExecOf(e) \in Executions
      BY <1>0, <2>2, NamedFinite DEF Keys, Named
    <3>2. Fresh(r, ExecOf(e)) = EventsOf(req[r].batch, ExecOf(e)) \ log[ExecOf(e)]
      BY <1>8, <3>1, CommitReads DEF Commit
    <3>3. log'[ExecOf(e)] = log[ExecOf(e)] \cup Fresh(r, ExecOf(e))
      BY <1>8, <3>1, CommitWrites
    <3> QED
      BY <3>2, <3>3 DEF EventsOf
  <2> QED
    BY <2>1, <2>2 DEF Counted, Acknowledged, Excused
<1>9. CASE reply \in {"deadlock", "lost"} /\ Fail(r, reply)
  <2>1. req'[r].pc = "done" /\ req'[r].reply \in {"deadlock", "lost"}
    BY <1>0, <1>9 DEF Fail, TypeOK
  <2> QED
    BY <2>1 DEF Counted, Acknowledged, Excused
<1> QED
  BY <1>1, <1>2, <1>3, <1>4, <1>5, <1>6, <1>7, <1>8, <1>9 DEF RequestMoves

LEMMA RepliesStep == IInv /\ RInv /\ [Next]_vars => RInv'
<1> SUFFICES ASSUME IInv, RInv, [Next]_vars
             PROVE  RInv'
  OBVIOUS
<1>1. ASSUME NEW r \in Requests, NEW x, NEW b, NEW reply, RequestMoves(r, x, b, reply),
             NEW q \in Requests
      PROVE  Counted(q)' /\ Acknowledged(q)' /\ Excused(q)'
  <2>1. Counted(q) /\ Acknowledged(q) /\ Excused(q)
    BY DEF RInv
  <2>2. CASE q = r
    BY <1>1, <2>1, <2>2, MoverReplies
  <2>3. CASE q # r
    <3>1. req'[q] = req[q]
      BY <1>1, <2>3, RequestsApart
    <3>2. \A y \in Executions : (row[y] # NoRow => row'[y] # NoRow) /\ log[y] \subseteq log'[y]
      BY <1>1, MoveKeeps
    <3> QED
      BY <2>1, <3>1, <3>2, StillStands
  <2> QED
    BY <2>2, <2>3
<1>2. ASSUME NEW j, NEW u, NEW x, WriterMoves(j, u, x), NEW q \in Requests
      PROVE  Counted(q)' /\ Acknowledged(q)' /\ Excused(q)'
  <2>1. Counted(q) /\ Acknowledged(q) /\ Excused(q)
    BY DEF RInv
  <2>2. \A y \in Executions :
          (row[y] # NoRow => row'[y] # NoRow) /\ log'[y] = log[y] /\ req' = req
    BY <1>2, WriterKeeps
  <2>3. req' = req
    BY <1>2 DEF WriterMoves, EvalMoves, UserMoves, EvalStart, EvalDiscard, EvalCommit, EvalVictim,
                CancelRead, CancelWrite, CancelEvaluate, EditRead, EditWrite
  <2> QED
    BY <2>1, <2>2, <2>3, StillStands
<1>3. ASSUME UNCHANGED vars, NEW q \in Requests
      PROVE  Counted(q)' /\ Acknowledged(q)' /\ Excused(q)'
  <2>1. Counted(q) /\ Acknowledged(q) /\ Excused(q)
    BY DEF RInv
  <2>2. row' = row /\ log' = log /\ req' = req
    BY <1>3 DEF vars
  <2> QED
    BY <2>1, <2>2, StillStands
<1> QED
  BY <1>1, <1>2, <1>3, StepKinds DEF RInv

-----------------------------------------------------------------------------
(* What requests have learned, acknowledged and given up for, beside the
   invariant of ingestion. *)
THEOREM RepliesInvariance == Spec => [](IInv /\ RInv)
<1>1. Init => RInv
  <2> SUFFICES ASSUME Init, NEW r \in Requests
               PROVE  Counted(r) /\ Acknowledged(r) /\ Excused(r)
    BY DEF RInv
  <2>1. req[r].pc = "idle" /\ req[r].tries = 0 /\ req[r].reply = "none" /\ Range(req[r].batch) = {}
    BY DEF Init, InitRequest, Range
  <2>2. Learned(r) = {}
    BY <2>1 DEF Learned, Named
  <2> QED
    BY <2>1, <2>2, FS_EmptySet DEF Counted, Acknowledged, Excused
<1>2. IInv /\ RInv /\ [Next]_vars => RInv'
  BY RepliesStep
<1> QED
  BY <1>1, <1>2, Invariance, PTL DEF Spec

(* A 202 of the batch endpoint means that every event of a job that accepts
   events is recorded, whatever was retried and whoever recorded it
   (apps/executions/services.py, views.py). *)
THEOREM AcknowledgementsTrue == Spec => []AcknowledgedIsRecorded
<1>1. RInv => AcknowledgedIsRecorded
  BY DEF RInv, Acknowledged, AcknowledgedIsRecorded
<1> QED
  BY <1>1, RepliesInvariance, PTL

(* Three attempts are enough for a batch of one or two executions, however many
   requests race for them: the retry loop of apps/executions/views.py. *)
THEOREM AttemptsSuffice == Spec => []FewExecutionsNeverConflictOut
<1>1. RInv => FewExecutionsNeverConflictOut
  BY DEF RInv, Excused, Named, FewExecutionsNeverConflictOut
<1> QED
  BY <1>1, RepliesInvariance, PTL

-----------------------------------------------------------------------------
(***************************************************************************)
(* Requests that insert new executions only, in external id order, never   *)
(* wait for each other in a cycle.  Whoever holds a key another request    *)
(* waits for wants a later key itself (Ordered), so the member of a cycle  *)
(* that wants the earliest key has nobody waiting for it.  The other waits *)
(* lead nowhere: who waits for a job to be created holds nothing yet       *)
(* (Creating), and an evaluation waits for existing rows of its own job    *)
(* only (Evaluating).                                                      *)
(***************************************************************************)
(* What r has inserted so far comes before what it has not. *)
Ordered(r) ==
  \A x \in Executions : holder[x] = r /\ x \notin req[r].found =>
    /\ x \in ToCreate(r)
    /\ \A z \in ToCreate(r) : holder[z] # r => ExternalId[x] <= ExternalId[z]

Creating(r) == \A j \in Jobs : holder[j] = r => req[r].pc \in {"select", "lock", "insert"}

Evaluating(j) ==
  /\ \A x \in eval[j].create \cup eval[j].discard : JobOf[x] = j /\ row[x] # NoRow
  /\ \A x \in Executions : holder[x] = j => JobOf[x] = j

DInv == /\ \A r \in Requests : Ordered(r) /\ Creating(r)
        /\ \A j \in Jobs : Evaluating(j)

-----------------------------------------------------------------------------
(* Nobody is given a lock by the step of another. *)
LEMMA LocksApart ==
  ASSUME IInv, NEW r \in Requests, NEW x, NEW b, NEW reply, RequestMoves(r, x, b, reply),
         NEW a \in Actors, a # r, NEW k \in Executions \cup Jobs, holder'[k] = a
  PROVE  holder[k] = a
<1>0. TypeOK /\ a # NoOne /\ DOMAIN holder = Executions \cup Jobs
  BY IngestAssumption DEF IInv, TypeOK, Actors
<1>1. CASE (b \in Batches /\ Send(r, b)) \/ SelectRows(r) \/ ReadEvents(r)
  BY <1>1 DEF Send, SelectRows, ReadEvents
<1>2. CASE ResolveJobs(r)
  BY <1>0, <1>2 DEF ResolveJobs
<1>3. CASE x \in Executions /\ (LockRow(r, x) \/ InsertRow(r, x))
  <2>1. holder' = [holder EXCEPT ![x] = r]
    BY <1>3 DEF LockRow, InsertRow
  <2> QED
    BY <1>0, <2>1
<1>4. CASE InsertConflict(r, x) \/ Fail(r, reply) \/ Commit(r)
  <2>1. holder' = ReleasedBy(r)
    BY <1>4 DEF InsertConflict, Fail, Commit
  <2> QED
    BY <1>0, <2>1, ReleasedType
<1> QED
  BY <1>1, <1>2, <1>3, <1>4 DEF RequestMoves

LEMMA WriterLocksApart ==
  ASSUME IInv, NEW j, NEW u, NEW x, WriterMoves(j, u, x),
         NEW a \in Requests, NEW k \in Executions \cup Jobs
  PROVE  holder'[k] = a <=> holder[k] = a
<1>0. TypeOK /\ a # NoOne /\ DOMAIN holder = Executions \cup Jobs /\ (j \in Jobs => a # j)
  BY IngestAssumption DEF IInv, TypeOK, Actors
<1>1. CASE j \in Jobs /\ x \in Executions /\ EvalDiscard(j, x)
  BY <1>0, <1>1 DEF EvalDiscard
<1>2. CASE j \in Jobs /\ (EvalCommit(j) \/ EvalVictim(j))
  <2>1. holder' = ReleasedBy(j)
    BY <1>2 DEF EvalCommit, EvalVictim
  <2> QED
    BY <1>0, <1>2, <2>1, ReleasedType
<1> QED
  BY <1>1, <1>2 DEF WriterMoves, EvalMoves, UserMoves, EvalStart, CancelRead, CancelWrite,
                    CancelEvaluate, EditRead, EditWrite

-----------------------------------------------------------------------------
(* A request that does not move, and one that has no row yet or no longer. *)
LEMMA OrderStays ==
  ASSUME TypeOK, NEW q \in Requests, Ordered(q), Creating(q),
         \A x \in Executions : holder'[x] = q <=> holder[x] = q,
         \A j \in Jobs : holder'[j] = q => holder[j] = q,
         req'[q] = req[q]
  PROVE  Ordered(q)' /\ Creating(q)'
<1>1. ToCreate(q)' = ToCreate(q) /\ ToCreate(q) \subseteq Executions
  BY BatchType DEF ToCreate, Keys
<1> QED
  BY <1>1 DEF Ordered, Creating

LEMMA NothingHeld ==
  ASSUME IInv, NEW r \in Requests, req[r].pc \notin {"lock", "insert"}, NEW x \in Executions
  PROVE  holder[x] # r
BY DEF IInv, LocksProtectReads, Protects

(* The steps of a request, for the request itself. *)
LEMMA MoverOrdered ==
  ASSUME IInv, NEW r \in Requests, Ordered(r), Creating(r),
         NEW x, NEW b, NEW reply, RequestMoves(r, x, b, reply)
  PROVE  Ordered(r)' /\ Creating(r)'
<1>0. /\ TypeOK /\ req[r] \in RequestState /\ req \in [Requests -> RequestState]
      /\ DOMAIN holder = Executions \cup Jobs /\ r # NoOne
      /\ ToCreate(r) \subseteq Executions
  BY BatchType, IngestAssumption DEF IInv, TypeOK
<1>1. CASE b \in Batches /\ Send(r, b)
  <2>1. req[r].pc = "idle" /\ holder' = holder
    BY <1>1 DEF Send
  <2> QED
    BY <2>1, NothingHeld DEF Ordered, Creating
<1>2. CASE ResolveJobs(r)
  <2> DEFINE named   == JobsNamed(req[r].batch)
             missing == {j \in named : jobs[j].status = "absent"}
             valid   == missing \cup {j \in named : jobs[j].status = "active"}
  <2>1. /\ req[r].pc = "resolve"
        /\ holder' = [k \in DOMAIN holder |-> IF k \in missing THEN r ELSE holder[k]]
        /\ req' = [req EXCEPT ![r].valid = valid,
                              ![r].pc = IF valid = {} THEN "done" ELSE "select",
                              ![r].reply = IF valid = {} THEN "ok" ELSE "none"]
    BY <1>2 DEF ResolveJobs
  <2>2. missing \cap Executions = {} /\ missing \subseteq valid
    BY <1>0, BatchType, IngestAssumption
  <2> HIDE DEF valid, missing
  <2>3. req'[r].pc = IF valid = {} THEN "done" ELSE "select"
    BY <1>0, <2>1 DEF RequestState
  <2>4. \A y \in Executions : holder'[y] # r
    BY <1>0, <2>1, <2>2, NothingHeld
  <2>5. ASSUME NEW j \in Jobs, holder'[j] = r PROVE req'[r].pc = "select"
    <3>1. holder[j] # r
      BY <2>1 DEF Creating
    <3>2. j \in missing
      BY <1>0, <2>1, <2>5, <3>1
    <3> QED
      BY <2>2, <2>3, <3>2
  <2> QED
    BY <2>4, <2>5 DEF Ordered, Creating
<1>3. CASE SelectRows(r)
  <2>1. req[r].pc = "select" /\ holder' = holder /\ req'[r].pc = "lock"
    BY <1>0, <1>3 DEF SelectRows, RequestState
  <2> QED
    BY <2>1, NothingHeld DEF Ordered, Creating
<1>4. CASE x \in Executions /\ LockRow(r, x)
  <2>1. /\ req[r].pc = "lock" /\ req'[r].pc = "lock"
        /\ req'[r].found = req[r].found /\ x \in req[r].found
        /\ holder' = [holder EXCEPT ![x] = r]
    BY <1>0, <1>4 DEF LockRow, RequestState
  <2>2. \A y \in Executions : holder[y] = r => y \in req[r].found
    BY <2>1 DEF IInv, LocksProtectReads, Protects
  <2>3. \A y \in Executions : holder'[y] = r => y \in req'[r].found
    BY <1>0, <2>1, <2>2
  <2> QED
    BY <2>1, <2>3 DEF Ordered, Creating
<1>5. CASE ReadEvents(r)
  <2>1. /\ req[r].pc = "lock" /\ req'[r].pc = "insert"
        /\ req'[r].found = req[r].found /\ holder' = holder
    BY <1>0, <1>5 DEF ReadEvents, RequestState
  <2>2. \A y \in Executions : holder[y] = r => y \in req[r].found
    BY <2>1 DEF IInv, LocksProtectReads, Protects
  <2> QED
    BY <2>1, <2>2 DEF Ordered, Creating
<1>6. CASE x \in Executions /\ InsertRow(r, x)
  <2>1. /\ req[r].pc = "insert" /\ req' = req /\ holder' = [holder EXCEPT ![x] = r]
        /\ x \in ToCreate(r) /\ holder[x] # r
        /\ \A y \in ToCreate(r) : holder[y] # r => ExternalId[x] <= ExternalId[y]
    BY <1>6 DEF InsertRow, NextInsert
  <2>2. ToCreate(r)' = ToCreate(r)
    BY <2>1 DEF ToCreate, Keys
  <2>3. \A y \in Executions \cup Jobs : holder'[y] = IF y = x THEN r ELSE holder[y]
    BY <1>0, <2>1
  <2>4. ASSUME NEW y \in Executions, holder'[y] = r, y \notin req[r].found
        PROVE  /\ y \in ToCreate(r)
               /\ \A z \in ToCreate(r) : holder'[z] # r => ExternalId[y] <= ExternalId[z]
    <3>1. \A z \in ToCreate(r) : holder'[z] # r => holder[z] # r
      BY <1>0, <2>3
    <3>2. CASE y = x
      BY <2>1, <3>1, <3>2
    <3>3. CASE y # x
      BY <2>3, <2>4, <3>1, <3>3 DEF Ordered
    <3> QED
      BY <3>2, <3>3
  <2>5. Ordered(r)'
    BY <2>1, <2>2, <2>4 DEF Ordered
  <2> QED
    BY <2>1, <2>5 DEF Creating
<1>7. CASE InsertConflict(r, x) \/ Commit(r) \/ Fail(r, reply)
  <2>1. holder' = ReleasedBy(r)
    BY <1>7 DEF InsertConflict, Fail, Commit
  <2>2. \A k \in Executions \cup Jobs : holder'[k] # r
    BY <1>0, <2>1, ReleasedType
  <2> QED
    BY <2>2 DEF Ordered, Creating
<1> QED
  BY <1>1, <1>2, <1>3, <1>4, <1>5, <1>6, <1>7 DEF RequestMoves

-----------------------------------------------------------------------------
(* Evaluations lock, and write about, executions of their job that exist. *)
LEMMA RequestEvaluating ==
  ASSUME IInv, NEW r \in Requests, NEW x, NEW b, NEW reply, RequestMoves(r, x, b, reply),
         NEW j \in Jobs, Evaluating(j)
  PROVE  Evaluating(j)'
<1>1. eval' = eval
  BY DEF RequestMoves, Send, ResolveJobs, SelectRows, LockRow, ReadEvents, InsertRow,
         InsertConflict, Commit, Fail
<1>2. eval[j].create \subseteq Executions /\ eval[j].discard \subseteq Executions
  BY DEF IInv, TypeOK, EvalState
<1>3. \A y \in Executions : row[y] # NoRow => row'[y] # NoRow
  BY MoveKeeps
<1>4. \A y \in Executions : holder'[y] = j => holder[y] = j
  <2>1. j \in Actors /\ j # r
    BY IngestAssumption DEF Actors
  <2> QED
    BY <2>1, LocksApart
<1> QED
  BY <1>1, <1>2, <1>3, <1>4 DEF Evaluating

LEMMA StartedEvaluating ==
  ASSUME TypeOK, NEW i \in Jobs, StartEvaluation(i), NEW j \in Jobs, Evaluating(j),
         row' = row, holder' = holder
  PROVE  Evaluating(j)'
<1>1. \E over \in SUBSET RunningOf(i) :
      \E drop \in SUBSET ((RunningOf(i) \cup PendingOf(i)) \ over) :
        eval' = [eval EXCEPT ![i] = [pc |-> "apply", discard |-> drop,
                                     create |-> {x \in over : ~stalled[x]},
                                     keep   |-> {x \in over : stalled[x]}]]
  BY DEF StartEvaluation
<1>2. \A x \in RunningOf(i) \cup PendingOf(i) : JobOf[x] = i /\ row[x] # NoRow
  BY DEF RunningOf, PendingOf, Of
<1>3. eval \in [Jobs -> EvalState]
  BY DEF TypeOK
<1>4. CASE i = j
  BY <1>1, <1>2, <1>3, <1>4 DEF Evaluating
<1>5. CASE i # j
  BY <1>1, <1>3, <1>5 DEF Evaluating
<1> QED
  BY <1>4, <1>5

LEMMA WriterEvaluating ==
  ASSUME IInv, NEW i, NEW u, NEW x, WriterMoves(i, u, x), NEW j \in Jobs, Evaluating(j)
  PROVE  Evaluating(j)'
<1>0. /\ TypeOK /\ j # NoOne /\ DOMAIN holder = Executions \cup Jobs
      /\ eval \in [Jobs -> EvalState]
      /\ eval[j].create \subseteq Executions /\ eval[j].discard \subseteq Executions
  BY IngestAssumption DEF IInv, TypeOK, EvalState
<1>1. \A y \in Executions : row[y] # NoRow => row'[y] # NoRow
  BY WriterKeeps
<1>2. CASE i \in Jobs /\ EvalStart(i)
  BY <1>0, <1>2, StartedEvaluating DEF EvalStart
<1>3. CASE i \in Jobs /\ x \in Executions /\ EvalDiscard(i, x)
  <2>1. holder' = [holder EXCEPT ![x] = i] /\ eval' = eval /\ row' = row /\ x \in eval[i].discard
    BY <1>3 DEF EvalDiscard
  <2>2. i = j => JobOf[x] = j
    BY <2>1 DEF Evaluating
  <2> QED
    BY <1>0, <2>1, <2>2 DEF Evaluating
<1>4. CASE i \in Jobs /\ (EvalCommit(i) \/ EvalVictim(i))
  <2>1. holder' = ReleasedBy(i) /\ eval' = [eval EXCEPT ![i] = IdleEval]
    BY <1>4 DEF EvalCommit, EvalVictim
  <2>2. \A y \in Executions : holder'[y] = j => holder[y] = j
    BY <1>0, <2>1, ReleasedType
  <2>3. eval'[j].create \subseteq eval[j].create /\ eval'[j].discard \subseteq eval[j].discard
    BY <1>0, <2>1 DEF IdleEval
  <2> QED
    BY <1>0, <1>1, <2>2, <2>3 DEF Evaluating
<1>5. CASE u \in Users /\ CancelEvaluate(u)
  <2>1. PICK y \in user[u].target : StartEvaluation(JobOf[y]) \/ UNCHANGED eval
    BY <1>5 DEF CancelEvaluate
  <2>2. JobOf[y] \in Jobs
    BY <1>0, <1>5, IngestAssumption DEF TypeOK, UserState
  <2>3. row' = row /\ holder' = holder
    BY <1>5 DEF CancelEvaluate
  <2> QED
    BY <1>0, <2>1, <2>2, <2>3, StartedEvaluating DEF Evaluating
<1>6. CASE u \in Users /\ \/ CancelWrite(u) \/ EditWrite(u)
                          \/ x \in Executions /\ CancelRead(u, x)
                          \/ i \in Jobs /\ EditRead(u, i)
  <2>1. eval' = eval /\ holder' = holder
    BY <1>6 DEF CancelWrite, EditWrite, CancelRead, EditRead
  <2> QED
    BY <1>0, <1>1, <2>1 DEF Evaluating
<1> QED
  BY <1>2, <1>3, <1>4, <1>5, <1>6 DEF WriterMoves, EvalMoves, UserMoves

-----------------------------------------------------------------------------
LEMMA OrderStep == IInv /\ DInv /\ [Next]_vars => DInv'
<1> SUFFICES ASSUME IInv, DInv, [Next]_vars
             PROVE  DInv'
  OBVIOUS
<1>0. TypeOK
  BY DEF IInv
<1>1. ASSUME NEW r \in Requests, NEW x, NEW b, NEW reply, RequestMoves(r, x, b, reply)
      PROVE  DInv'
  <2>1. ASSUME NEW q \in Requests PROVE Ordered(q)' /\ Creating(q)'
    <3>1. Ordered(q) /\ Creating(q)
      BY DEF DInv
    <3>2. CASE q = r
      BY <1>1, <3>1, <3>2, MoverOrdered
    <3>3. CASE q # r
      <4>1. /\ req'[q] = req[q]
            /\ \A y \in Executions : holder'[y] = q <=> holder[y] = q
        BY <1>1, <3>3, RequestsApart
      <4>2. \A k \in Jobs : holder'[k] = q => holder[k] = q
        BY <1>1, <3>3, LocksApart DEF Actors
      <4> QED
        BY <1>0, <3>1, <4>1, <4>2, OrderStays
    <3> QED
      BY <3>2, <3>3
  <2>2. ASSUME NEW j \in Jobs PROVE Evaluating(j)'
    BY <1>1, RequestEvaluating DEF DInv
  <2> QED
    BY <2>1, <2>2 DEF DInv
<1>2. ASSUME NEW i, NEW u, NEW x, WriterMoves(i, u, x)
      PROVE  DInv'
  <2>1. ASSUME NEW q \in Requests PROVE Ordered(q)' /\ Creating(q)'
    <3>1. Ordered(q) /\ Creating(q)
      BY DEF DInv
    <3>2. \A k \in Executions \cup Jobs : holder'[k] = q <=> holder[k] = q
      BY <1>2, WriterLocksApart
    <3>3. req' = req
      BY <1>2 DEF WriterMoves, EvalMoves, UserMoves, EvalStart, EvalDiscard, EvalCommit,
                  EvalVictim, CancelRead, CancelWrite, CancelEvaluate, EditRead, EditWrite
    <3> QED
      BY <1>0, <3>1, <3>2, <3>3, OrderStays
  <2>2. ASSUME NEW j \in Jobs PROVE Evaluating(j)'
    BY <1>2, WriterEvaluating DEF DInv
  <2> QED
    BY <2>1, <2>2 DEF DInv
<1>3. CASE UNCHANGED vars
  BY <1>3 DEF vars, DInv, Ordered, Creating, Evaluating, ToCreate, Keys
<1> QED
  BY <1>1, <1>2, <1>3, StepKinds

THEOREM OrderInvariance == Spec => [](IInv /\ DInv)
<1>1. Init => DInv
  BY IngestAssumption DEF Init, DInv, Ordered, Creating, Evaluating, IdleEval
<1>2. IInv /\ DInv /\ [Next]_vars => DInv'
  BY OrderStep
<1> QED
  BY <1>1, <1>2, Invariance, PTL DEF Spec

-----------------------------------------------------------------------------
(* A cycle of waits would have a member that wants the earliest key. *)
LEMMA NoCycle ==
  ASSUME IInv, DInv, \A r \in Requests : req[r].found = {},
         \A x, y \in Executions : ExternalId[x] = ExternalId[y] => x = y,
         NEW a \in Requests, InDeadlock(a)
  PROVE  FALSE
<1>0. TypeOK /\ Requests \cap Jobs = {}
  BY IngestAssumption DEF IInv
<1>1. PICK C \in SUBSET Actors :
        /\ a \in C
        /\ \A p \in C : (\E q \in C : Waits(p, q)) /\ (\E q \in C : Waits(q, p))
  BY DEF InDeadlock, Blocked
<1>2. \A x \in Executions, r \in Requests : holder[x] = r => row[x] = NoRow /\ req[r].pc = "insert"
  BY DEF IInv, LocksProtectReads, Protects
<1>3. C \subseteq Requests
  <2> SUFFICES ASSUME NEW p \in C, p \in Jobs PROVE FALSE
    BY <1>1 DEF Actors
  <2>1. PICK q \in C : Waits(p, q)
    BY <1>1
  <2>2. PICK x \in eval[p].create \cup eval[p].discard : holder[x] = q /\ q # p
    BY <1>0, <2>1 DEF Waits
  <2>3. x \in Executions /\ JobOf[x] = p /\ row[x] # NoRow
    BY <1>0, <2>2 DEF TypeOK, EvalState, DInv, Evaluating
  <2>4. q \in Requests \/ q \in Jobs
    BY <1>1 DEF Actors
  <2> QED
    BY <1>2, <2>2, <2>3, <2>4 DEF DInv, Evaluating
<1>4. ASSUME NEW p \in C, NEW q \in C, Waits(p, q)
      PROVE  \/ \E j \in Jobs : req[p].pc = "resolve" /\ holder[j] = q
             \/ \E x \in Executions : NextInsert(p, x) /\ holder[x] = q
  <2>1. p \in Requests /\ q \in Requests /\ q \notin Jobs /\ p \notin Jobs /\ req[p].found = {}
    BY <1>0, <1>3
  <2>2. JobsNamed(req[p].batch) \subseteq Jobs /\ JobsNeeded(p) \subseteq Jobs
    <3>1. ToCreate(p) \subseteq Executions /\ Accepted(p) \subseteq Events
      BY <1>0, <2>1, BatchType
    <3> QED
      BY <1>0, <2>1, <3>1, BatchType, PayloadType, IngestAssumption DEF JobsNeeded
  <2> QED
    BY <1>4, <2>1, <2>2 DEF Waits
<1>5. ASSUME NEW p \in C PROVE req[p].pc # "resolve"
  <2>1. PICK q \in C : Waits(q, p)
    BY <1>1
  <2>2. p \in Requests
    BY <1>3
  <2>3. \/ \E j \in Jobs : holder[j] = p
        \/ \E x \in Executions : holder[x] = p
    BY <1>4, <2>1
  <2> QED
    BY <1>2, <2>2, <2>3 DEF DInv, Creating
<1>6. ASSUME NEW p \in C, NEW q \in C, Waits(p, q)
      PROVE  \E x \in Executions : NextInsert(p, x) /\ holder[x] = q
  BY <1>4, <1>5, <1>6
<1> DEFINE Wanted == {x \in Executions : \E p \in C : NextInsert(p, x)}
           T == {ExternalId[x] : x \in Wanted}
<1>7. T \in SUBSET Nat /\ T # {}
  <2>1. Wanted # {}
    BY <1>1, <1>6
  <2>2. T \in SUBSET Nat
    BY IngestAssumption
  <2> QED
    BY <2>1, <2>2
<1>8. PICK n \in T : \A m \in T : n <= m
  BY <1>7, LeastExists
<1>9. PICK x \in Wanted : n = ExternalId[x]
  OBVIOUS
<1>10. PICK p \in C : NextInsert(p, x)
  BY <1>9
<1>11. PICK q \in C : Waits(q, p)
  BY <1>1
<1>12. PICK y \in Executions : NextInsert(q, y) /\ holder[y] = p
  BY <1>6, <1>11
<1>13. ExternalId[x] <= ExternalId[y]
  BY <1>8, <1>9, <1>12
<1>14. x \in ToCreate(p) /\ holder[x] # p /\ x \in Executions
  BY <1>9, <1>10 DEF NextInsert
<1>15. ExternalId[y] <= ExternalId[x]
  BY <1>3, <1>12, <1>14 DEF DInv, Ordered
<1>16. ExternalId[x] \in Nat /\ ExternalId[y] \in Nat
  BY <1>12, <1>14, IngestAssumption
<1>17. x = y
  BY <1>12, <1>13, <1>14, <1>15, <1>16
<1> QED
  BY <1>12, <1>14, <1>17

(* Sorting the new executions by external id (apps/executions/services.py)
   keeps concurrent insertions free of deadlock, among any number of requests,
   as long as none of them has locked an existing row. *)
THEOREM InsertsNeverDeadlock == Spec => []OrderedInsertsNeverDeadlock
<1>1. IInv /\ DInv => OrderedInsertsNeverDeadlock
  BY NoCycle DEF OrderedInsertsNeverDeadlock
<1> QED
  BY <1>1, OrderInvariance, PTL

-----------------------------------------------------------------------------
(***************************************************************************)
(* ExecutionIngest implements TelemetryLedger: a commit records the accepted*)
(* events at once, a cancellation and the commit of an evaluation override *)
(* statuses, and every other step is a stutter.                            *)
(***************************************************************************)
Stutter == log' = log /\ View' = View

LEMMA ViewType ==
  ASSUME TypeOK, NEW x \in Executions
  PROVE  /\ row[x] = NoRow => View[x] = NoRow
         /\ row[x] # NoRow =>
              /\ View[x] = [status |-> row[x].status, last |-> row[x].last, by |-> row[x].by]
              /\ View[x] # NoRow /\ View[x].last = row[x].last
              /\ row[x].last \in Nat
<1>1. ASSUME row[x] # NoRow
      PROVE  [status |-> row[x].status, last |-> row[x].last, by |-> row[x].by]
               \in [status: Statuses, last: Column, by: Writers]
  BY <1>1 DEF TypeOK, Snapshot
<1>2. row[x] # NoRow => row[x].last \in Nat
  BY ColumnType DEF TypeOK, Snapshot
<1> QED
  BY <1>1, <1>2, ViewAssumption DEF View

(* The events of x among those a commit accepts. *)
LEMMA AcceptedOf ==
  ASSUME IInv, NEW r \in Requests, Commit(r), NEW x \in Executions
  PROVE  {e \in Accepted(r) : ExecOf(e) = x} = IF x \in Keys(r) THEN Fresh(r, x) ELSE {}
<1>1. \A y, e : e \in Fresh(r, y) => ExecOf(e) = y
  BY BatchType DEF IInv
<1> QED
  BY <1>1 DEF Accepted

(* A commit moves the view of each execution to its latest accepted event. *)
LEMMA CommitFollows ==
  ASSUME IInv, NEW r \in Requests, Commit(r), NEW x \in Executions
  PROVE  Ledger!Follows(View[x], View'[x], {e \in Accepted(r) : ExecOf(e) = x})
<1> DEFINE S == Fresh(r, x)
           b == req[r].batch
           old == row[x]
           new == row'[x]
<1>0. TypeOK /\ TypeOK'
  BY CommitTypes DEF IInv
<1>1. /\ x \in ToCreate(r) => old = NoRow /\ S # {}
      /\ x \in req[r].found => req[r].read[x] = old /\ old \in Snapshot
      /\ ToUpdate(r) \subseteq Keys(r) /\ ToCreate(r) \subseteq Keys(r)
      /\ ToUpdate(r) \subseteq req[r].found
      /\ b \in Seq(Events) /\ S \in SUBSET Range(b) /\ Range(b) \subseteq Events
  BY CommitReads, BatchType DEF Commit, IInv
<1>2. new = IF x \in ToCreate(r) THEN MergeCreate(b, S)
            ELSE IF x \in ToUpdate(r) THEN MergeUpdate(req[r].read[x], b, S)
            ELSE old
  BY DEF Commit, Merged
<1>3. {e \in Accepted(r) : ExecOf(e) = x} = IF x \in Keys(r) THEN S ELSE {}
  BY AcceptedOf
<1>4. \A e \in S : Payload[e].time \in Nat
  BY <1>1, PayloadType, ColumnType DEF Time
<1>5. CASE x \notin Keys(r)
  <2>1. new = old
    BY <1>1, <1>2, <1>5
  <2>2. View'[x] = View[x]
    BY <2>1 DEF View
  <2> QED
    BY <1>3, <1>5, <2>2 DEF Ledger!Follows
<1>6. CASE x \in ToCreate(r)
  <2>1. /\ new \in Snapshot /\ new.by = "event"
        /\ \A e \in S : Time(e) <= new.last
        /\ \E e \in S : Time(e) = new.last /\ Payload[e].status = new.status
    BY <1>1, <1>2, <1>6, CreateIsLatest
  <2>2. new # NoRow
    BY <2>1, IngestAssumption
  <2>3. View[x] = NoRow /\ View'[x] = [status |-> new.status, last |-> new.last, by |-> "event"]
    BY <1>0, <1>1, <1>6, <2>1, <2>2 DEF View
  <2> QED
    BY <1>1, <1>3, <1>6, <2>1, <2>3 DEF Ledger!Follows, Time
<1>7. CASE x \in ToUpdate(r)
  <2>1. /\ new \in Snapshot /\ new.last >= old.last
        /\ \A e \in S : Time(e) <= new.last
        /\ \/ new.status = old.status /\ new.last = old.last /\ new.by = old.by
           \/ /\ new.last > old.last /\ new.by = "event"
              /\ \E e \in S : Time(e) = new.last /\ Payload[e].status = new.status
    <3>1. new = MergeUpdate(old, b, S) /\ old \in Snapshot
      BY <1>1, <1>2, <1>7 DEF ToCreate
    <3> HIDE DEF S, b, old, new
    <3> QED
      BY <1>1, <3>1, UpdateIsLatest
  <2>2. /\ old # NoRow /\ new # NoRow /\ old.last \in Nat /\ new.last \in Nat
        /\ View[x] = [status |-> old.status, last |-> old.last, by |-> old.by]
        /\ View'[x] = [status |-> new.status, last |-> new.last, by |-> new.by]
        /\ View[x] # NoRow
    <3>1. old # NoRow /\ new # NoRow
      BY <1>1, <1>7, <2>1, IngestAssumption
    <3>2. new.last \in Nat
      BY <2>1, ColumnType DEF Snapshot
    <3> QED
      BY <1>0, <3>1, <3>2, ViewType DEF View
  <2>3. CASE new.status = old.status /\ new.last = old.last /\ new.by = old.by
    <3>1. View'[x] = View[x] /\ \A e \in S : Payload[e].time <= View[x].last
      BY <2>1, <2>2, <2>3 DEF Time
    <3> QED
      BY <1>1, <1>3, <1>7, <2>2, <3>1 DEF Ledger!Follows
  <2>4. CASE new.last > old.last /\ new.by = "event"
             /\ \E e \in S : Time(e) = new.last /\ Payload[e].status = new.status
    <3>1. PICK e \in S : Payload[e].time = new.last /\ Payload[e].status = new.status
      BY <2>4 DEF Time
    <3>2. ~(Payload[e].time <= View[x].last)
      BY <2>2, <2>4, <3>1
    <3>3. \A f \in S : Payload[f].time <= Payload[e].time
      BY <2>1, <3>1 DEF Time
    <3>4. View'[x] = [status |-> Payload[e].status, last |-> Payload[e].time, by |-> "event"]
      BY <2>2, <2>4, <3>1
    <3> HIDE DEF S
    <3> QED
      BY <1>1, <1>3, <1>7, <3>1, <3>2, <3>3, <3>4 DEF Ledger!Follows
  <2> QED
    BY <2>1, <2>3, <2>4
<1>8. CASE x \in Keys(r) /\ x \notin ToCreate(r) /\ x \notin ToUpdate(r)
  <2>1. x \in req[r].found /\ old \in Snapshot /\ old # NoRow
    BY <1>1, <1>8, IngestAssumption DEF ToCreate
  <2>2. \A e \in S : Payload[e].time <= old.last
    <3>1. \A e \in S : ~(Time(e) > old.last)
      BY <1>1, <1>8, <2>1 DEF ToUpdate, Touches
    <3>2. old.last \in Nat
      BY <2>1, ColumnType DEF Snapshot
    <3> QED
      BY <1>4, <3>1, <3>2 DEF Time
  <2>3. View'[x] = View[x] /\ View[x] # NoRow /\ View[x].last = old.last
    BY <1>0, <1>2, <1>8, <2>1, ViewType DEF View
  <2> QED
    BY <1>3, <1>8, <2>2, <2>3 DEF Ledger!Follows
<1> QED
  BY <1>1, <1>5, <1>6, <1>7, <1>8

LEMMA CommitRecords ==
  ASSUME IInv, NEW r \in Requests, Commit(r)
  PROVE  Ledger!Next
<1> DEFINE S == Accepted(r)
<1>1. S \in SUBSET Events /\ Keys(r) \subseteq Executions
  BY BatchType DEF IInv
<1>2. \A e \in S : e \notin log[Payload[e].exec]
  <2>1. \A x \in Keys(r) : Fresh(r, x) = EventsOf(req[r].batch, x) \ log[x]
    BY CommitReads DEF Commit
  <2> QED
    BY <2>1 DEF Accepted, EventsOf, ExecOf
<1>3. log' = [x \in Executions |-> log[x] \cup {e \in S : Payload[e].exec = x}]
  <2>1. \A x \in Executions : {e \in S : Payload[e].exec = x} = IF x \in Keys(r) THEN Fresh(r, x) ELSE {}
    BY AcceptedOf DEF ExecOf
  <2>2. log' = [x \in Executions |-> IF x \in Keys(r) THEN log[x] \cup Fresh(r, x) ELSE log[x]]
    BY DEF Commit
  <2> QED
    BY <2>1, <2>2
<1>4. \A x \in Executions : Ledger!Follows(View[x], View'[x], {e \in S : Payload[e].exec = x})
  BY CommitFollows DEF ExecOf
<1>5. DOMAIN View' = Executions
  BY DEF View
<1>6. Ledger!Record(S)
  BY <1>2, <1>3, <1>4, <1>5 DEF Ledger!Record
<1> QED
  BY <1>1, <1>6 DEF Ledger!Next

(* Rows X get the status s from w and keep their time. *)
LEMMA OverrideOverrides ==
  ASSUME TypeOK, NEW X \in SUBSET Executions, NEW s \in Statuses, NEW w \in Writers,
         \A x \in X : row[x] # NoRow, log' = log,
         \A x \in Executions :
           row'[x] = IF x \in X THEN [row[x] EXCEPT !.status = s, !.by = w, !.error = w] ELSE row[x]
  PROVE  Ledger!Override(X, s, w)
<1>1. \A x \in X : View[x] # NoRow /\ View[x].last = row[x].last
  <2> SUFFICES ASSUME NEW x \in X PROVE View[x] # NoRow /\ View[x].last = row[x].last
    OBVIOUS
  <2>1. row[x] # NoRow /\ x \in Executions
    OBVIOUS
  <2> QED
    BY <2>1, ViewType
<1>2. \A x \in X : View'[x] = [status |-> s, last |-> View[x].last, by |-> w]
  <2> SUFFICES ASSUME NEW x \in X PROVE View'[x] = [status |-> s, last |-> View[x].last, by |-> w]
    OBVIOUS
  <2>1. row[x] \in Snapshot
    BY DEF TypeOK
  <2>2. row'[x] # NoRow /\ row'[x].by = w /\ row'[x].last = row[x].last
    <3> DEFINE t == [row[x] EXCEPT !.status = s, !.by = w, !.error = w]
    <3>1. row'[x] = t
      OBVIOUS
    <3>2. t.by = w /\ t.last = row[x].last /\ t \in Snapshot
      BY <2>1 DEF Snapshot
    <3>3. t # NoRow
      BY <3>2, IngestAssumption
    <3> HIDE DEF t
    <3> QED
      BY <3>1, <3>2, <3>3
  <2>3. row'[x].status = s
    BY <2>1 DEF Snapshot
  <2> QED
    BY <1>1, <2>2, <2>3 DEF View
<1>3. \A x \in Executions \ X : View'[x] = View[x]
  BY DEF View
<1>4. View' = [x \in Executions |-> View'[x]]
  BY DEF View
<1>5. View' = [x \in Executions |->
                 IF x \in X THEN [status |-> s, last |-> View[x].last, by |-> w] ELSE View[x]]
  <2> DEFINE f == [x \in Executions |->
                 IF x \in X THEN [status |-> s, last |-> View[x].last, by |-> w] ELSE View[x]]
  <2>1. \A x \in Executions : View'[x] = f[x]
    BY <1>2, <1>3
  <2> QED
    BY <1>4, <2>1
<1> QED
  BY <1>1, <1>5 DEF Ledger!Override

LEMMA MoveSimulates ==
  ASSUME IInv, NEW r \in Requests, NEW x, NEW b, NEW reply, RequestMoves(r, x, b, reply)
  PROVE  Ledger!Next \/ Stutter
<1>1. CASE Commit(r)
  BY <1>1, CommitRecords
<1>2. CASE ~Commit(r)
  <2>1. row' = row /\ log' = log
    BY <1>2 DEF RequestMoves, Send, ResolveJobs, SelectRows, LockRow, ReadEvents, InsertRow,
                InsertConflict, Fail
  <2> QED
    BY <2>1 DEF Stutter, View
<1> QED
  BY <1>1, <1>2

LEMMA WriterSimulates ==
  ASSUME IInv, NEW j, NEW u, NEW x, WriterMoves(j, u, x)
  PROVE  Ledger!Next \/ Stutter
<1>0. TypeOK
  BY DEF IInv
<1>1. CASE j \in Jobs /\ EvalCommit(j)
  <2>1. eval[j].discard \in SUBSET Executions /\ \A y \in eval[j].discard : row[y] # NoRow
    BY <1>0, <1>1 DEF TypeOK, EvalState
  <2>2. Ledger!Override(eval[j].discard, "failed", "evaluator")
    <3>1. \A y \in Executions :
            row'[y] = IF y \in eval[j].discard
                      THEN [row[y] EXCEPT !.status = "failed", !.by = "evaluator", !.error = "evaluator"]
                      ELSE row[y]
      BY <1>1 DEF EvalCommit
    <3>2. log' = log /\ "failed" \in Statuses /\ "evaluator" \in Writers
      BY <1>1 DEF EvalCommit, Statuses, Writers
    <3> QED
      BY <1>0, <2>1, <3>1, <3>2, OverrideOverrides
  <2> QED
    BY <2>1, <2>2 DEF Ledger!Next
<1>2. CASE u \in Users /\ CancelWrite(u)
  <2>1. PICK y \in user[u].target :
          /\ row' = [row EXCEPT ![y].status = "cancelled", ![y].by = "user", ![y].error = "user"]
          /\ log' = log
    BY <1>2 DEF CancelWrite
  <2>2. y \in Executions /\ row[y] # NoRow
    BY <1>0, <1>2 DEF TypeOK, UserState
  <2>3. Ledger!Override({y}, "cancelled", "user")
    <3>1. \A z \in Executions :
            row'[z] = IF z \in {y}
                      THEN [row[z] EXCEPT !.status = "cancelled", !.by = "user", !.error = "user"]
                      ELSE row[z]
      BY <1>0, <2>1, <2>2 DEF TypeOK
    <3>2. "cancelled" \in Statuses /\ "user" \in Writers
      BY DEF Statuses, Writers
    <3> QED
      BY <1>0, <2>1, <2>2, <3>1, <3>2, OverrideOverrides
  <2> QED
    BY <2>2, <2>3 DEF Ledger!Next
<1>3. CASE ~(j \in Jobs /\ EvalCommit(j)) /\ ~(u \in Users /\ CancelWrite(u))
  <2>1. row' = row /\ log' = log
    BY <1>3 DEF WriterMoves, EvalMoves, UserMoves, EvalStart, EvalDiscard, EvalVictim,
                CancelRead, CancelEvaluate, EditRead, EditWrite
  <2> QED
    BY <2>1 DEF Stutter, View
<1> QED
  BY <1>1, <1>2, <1>3

-----------------------------------------------------------------------------
(* Concurrent, retried and aborted transactions add up to batches that take
   effect one at a time, move each view to the status of a latest event and
   record every event once (ingest_executions_batch and the view's retries);
   only a cancellation or an evaluation overrides a status. *)
THEOREM LedgerImplemented == Spec => ImplementsLedger
<1>1. Init => Ledger!Init
  BY DEF Init, NoRead, View, Ledger!Init
<1>2. IInv /\ [Next]_vars => [Ledger!Next]_(Ledger!vars)
  <2> SUFFICES ASSUME IInv, [Next]_vars
               PROVE  Ledger!Next \/ Stutter
    BY DEF Stutter, Ledger!vars
  <2>1. CASE UNCHANGED vars
    BY <2>1 DEF vars, Stutter, View
  <2> QED
    BY <2>1, StepKinds, MoveSimulates, WriterSimulates
<1> QED
  BY <1>1, <1>2, Invariance, PTL DEF Spec, ImplementsLedger, Ledger!Spec
=============================================================================
