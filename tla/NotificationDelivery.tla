------------------------ MODULE NotificationDelivery -------------------------
(***************************************************************************)
(* Delivery of incident notifications to webhooks and mailboxes             *)
(* (apps/notifications).                                                    *)
(*                                                                          *)
(* dispatch_incident_event creates one NotificationDelivery row per event   *)
(* and channel and enqueues a Celery task for it.  The task reads the row   *)
(* without a lock, notes the attempt, sends, and saves what the receiver    *)
(* answered; a retry enqueues the task again.  Beat runs a recovery that    *)
(* enqueues deliveries which have been pending for 15 minutes.  A worker    *)
(* may die anywhere, and Celery acknowledges a task before it runs.         *)
(*                                                                          *)
(* Abstracted: a delivery stands for the pair of an event and an external   *)
(* channel that a policy selected; clocks are the action Age; a webhook and *)
(* an email differ in how they classify errors, which Answers covers;       *)
(* attempt_count, error texts, signatures and recipients are left out.      *)
(***************************************************************************)
EXTENDS Naturals, FiniteSets

CONSTANTS Deliveries,
          Chains,       \* Celery messages: a delivery task and its retries
          Dispatchers,  \* workers that run dispatch_incident_event
          Recoverers,   \* workers that run recover_orphaned_deliveries
          Answers,      \* what receivers may answer
          MaxRetries,   \* max_retries=5
          MaxFaults,    \* bound: lost workers and messages delivered twice
          MaxCount,     \* bound: where the counters of receptions stop
          NoOne

Outcomes == {"ok", "permanent", "retry", "unheard"}

ASSUME DeliveryAssumption ==
  /\ Answers \subseteq Outcomes
  /\ MaxRetries \in Nat /\ MaxFaults \in Nat /\ MaxCount \in Nat \ {0}
  /\ NoOne \notin Deliveries \cup Recoverers

VARIABLES
  status,    \* status of each delivery row, "none" before it is created
  age,       \* what last_attempt_at and created_at say of it
  locked,    \* the recovery that holds its row
  chain,     \* delivery tasks, queued or running
  dispatch,  \* dispatch_incident_event tasks
  recovery,  \* recover_orphaned_deliveries transactions
  faults,    \* faults so far
  received,  \* how often the receiver took the notification
  causes     \* reasons for a second reception so far

vars == <<status, age, locked, chain, dispatch, recovery, faults, received, causes>>

Statuses == {"none", "PENDING", "SENT", "FAILED", "deleted"}

(* Never attempted and created less or more than 15 minutes ago; last
   attempted less or more than 15 minutes ago. *)
Ages == {"new", "untried", "recent", "old"}

NoChain == [pc |-> "free", delivery |-> NoOne, retries |-> 0, answer |-> "none"]
Message(d, n) == [pc |-> "queued", delivery |-> d, retries |-> n, answer |-> "none"]
NoDispatch == [pc |-> "idle", delivery |-> NoOne]
DispatchOver == [pc |-> "done", delivery |-> NoOne]
NoRecovery == [pc |-> "idle", picked |-> {}, queued |-> {}]
Picked(ds) == [pc |-> "picked", picked |-> ds, queued |-> {}]

TypeOK ==
  /\ status \in [Deliveries -> Statuses]
  /\ age \in [Deliveries -> Ages]
  /\ locked \in [Deliveries -> Recoverers \cup {NoOne}]
  /\ chain \in [Chains -> [pc: {"free", "queued", "loaded", "sending", "answered"},
                           delivery: Deliveries \cup {NoOne}, retries: 0..MaxRetries,
                           answer: Outcomes \cup {"none"}]]
  /\ dispatch \in [Dispatchers -> [pc: {"idle", "created", "done"}, delivery: Deliveries \cup {NoOne}]]
  /\ recovery \in [Recoverers -> [pc: {"idle", "picked"}, picked: SUBSET Deliveries,
                                  queued: SUBSET Deliveries]]
  /\ faults \in 0..MaxFaults
  /\ received \in [Deliveries -> 0..MaxCount + 1]
  /\ causes \in [Deliveries -> 0..MaxCount]

Init ==
  /\ status = [d \in Deliveries |-> "none"]
  /\ age = [d \in Deliveries |-> "new"]
  /\ locked = [d \in Deliveries |-> NoOne]
  /\ chain = [c \in Chains |-> NoChain]
  /\ dispatch = [s \in Dispatchers |-> NoDispatch]
  /\ recovery = [r \in Recoverers |-> NoRecovery]
  /\ faults = 0
  /\ received = [d \in Deliveries |-> 0]
  /\ causes = [d \in Deliveries |-> 0]

-----------------------------------------------------------------------------
(* Counters stop at their bound. *)
Upto(n, bound) == IF n < bound THEN n + 1 ELSE n

CountCause(d) == causes' = [causes EXCEPT ![d] = Upto(@, MaxCount)]

Fault == faults < MaxFaults /\ faults' = faults + 1

Enqueue(c, d) ==
  /\ chain[c].pc = "free"
  /\ chain' = [chain EXCEPT ![c] = Message(d, 0)]

(* Bound: a message has a slot among Chains for every promise to enqueue. *)
Room(n) ==
  LET promised == {s \in Dispatchers : dispatch[s].pc = "created"}
      due      == {p \in Recoverers \X Deliveries :
                     p[2] \in recovery[p[1]].picked \ recovery[p[1]].queued}
  IN  Cardinality({c \in Chains : chain[c].pc = "free"}) >=
        n + Cardinality(promised) + Cardinality(due)

End(c) == chain' = [chain EXCEPT ![c] = NoChain]

-----------------------------------------------------------------------------
(* dispatch_incident_event.  The broker may deliver the task twice. *)

(* Mutant: the task is enqueued also for a row that existed. *)
DispatchAlways(s, d) ==
  /\ dispatch[s].pc = "idle" /\ Room(1)
  /\ status' = [status EXCEPT ![d] = IF @ = "none" THEN "PENDING" ELSE @]
  /\ dispatch' = [dispatch EXCEPT ![s] = [pc |-> "created", delivery |-> d]]
  /\ UNCHANGED <<age, locked, chain, recovery, faults, received, causes>>

(* get_or_create on the unique pair of event and channel. *)
Dispatch(s, d) ==
  /\ dispatch[s].pc = "idle" /\ Room(1)
  /\ IF status[d] = "none"
     THEN /\ status' = [status EXCEPT ![d] = "PENDING"]
          /\ dispatch' = [dispatch EXCEPT ![s] = [pc |-> "created", delivery |-> d]]
     ELSE /\ dispatch' = [dispatch EXCEPT ![s] = DispatchOver]
          /\ UNCHANGED status
  /\ UNCHANGED <<age, locked, chain, recovery, faults, received, causes>>

(* if created: celery_task.delay(delivery.id) *)
DispatchEnqueue(s) ==
  /\ dispatch[s].pc = "created"
  /\ \E c \in Chains : Enqueue(c, dispatch[s].delivery)
  /\ dispatch' = [dispatch EXCEPT ![s] = DispatchOver]
  /\ UNCHANGED <<status, age, locked, recovery, faults, received, causes>>

DispatchLost(s) ==
  /\ dispatch[s].pc = "created" /\ Fault
  /\ dispatch' = [dispatch EXCEPT ![s] = DispatchOver]
  /\ UNCHANGED <<status, age, locked, chain, recovery, received, causes>>

-----------------------------------------------------------------------------
(* deliver_webhook_task and deliver_email_task. *)

(* The row is read without a lock; one that is not pending is skipped. *)
Load(c) ==
  /\ chain[c].pc = "queued"
  /\ IF status[chain[c].delivery] = "PENDING"
     THEN chain' = [chain EXCEPT ![c].pc = "loaded"]
     ELSE End(c)
  /\ UNCHANGED <<status, age, locked, dispatch, recovery, faults, received, causes>>

(* save(update_fields=["attempt_count", "last_attempt_at"]), which raises
   DatabaseError when the row was deleted. *)
Attempt(c) ==
  LET d == chain[c].delivery IN
  /\ chain[c].pc = "loaded"
  /\ locked[d] = NoOne
  /\ IF status[d] = "deleted"
     THEN End(c) /\ UNCHANGED age
     ELSE /\ chain' = [chain EXCEPT ![c].pc = "sending"]
          /\ age' = [age EXCEPT ![d] = "recent"]
  /\ UNCHANGED <<status, locked, dispatch, recovery, faults, received, causes>>

(* requests.post or send_mail: accepted ("ok"), refused for good, refused for
   now, or no answer although the receiver took it ("unheard"). *)
Send(c, answer) ==
  LET d == chain[c].delivery IN
  /\ chain[c].pc = "sending"
  /\ chain' = [chain EXCEPT ![c].pc = "answered", ![c].answer = answer]
  /\ received' = [received EXCEPT ![d] =
                    IF answer \in {"ok", "unheard"} THEN Upto(@, MaxCount + 1) ELSE @]
  /\ IF answer = "unheard" THEN CountCause(d) ELSE UNCHANGED causes
  /\ UNCHANGED <<status, age, locked, dispatch, recovery, faults>>

(* Mutant: the answer is stored as it is. *)
SaveRaw(c) ==
  LET d == chain[c].delivery IN
  /\ chain[c].pc = "answered" /\ chain[c].answer \in {"ok", "permanent"}
  /\ locked[d] = NoOne
  /\ status' = [status EXCEPT ![d] = chain[c].answer]
  /\ End(c)
  /\ UNCHANGED <<age, locked, dispatch, recovery, faults, received, causes>>

(* The final status is saved over whatever the row says by now. *)
Save(c) ==
  LET d == chain[c].delivery IN
  /\ chain[c].pc = "answered" /\ chain[c].answer \in {"ok", "permanent"}
  /\ locked[d] = NoOne
  /\ status' = [status EXCEPT ![d] = IF @ = "deleted" THEN @
                                     ELSE IF chain[c].answer = "ok" THEN "SENT" ELSE "FAILED"]
  /\ End(c)
  /\ UNCHANGED <<age, locked, dispatch, recovery, faults, received, causes>>

(* self.retry enqueues the task again.  After the last retry it raises the
   exception it is given and not MaxRetriesExceededError, so the row stays as
   it is. *)
Retry(c) ==
  /\ chain[c].pc = "answered" /\ chain[c].answer \in {"retry", "unheard"}
  /\ IF chain[c].retries < MaxRetries
     THEN chain' = [chain EXCEPT ![c] = Message(chain[c].delivery, chain[c].retries + 1)]
     ELSE End(c)
  /\ UNCHANGED <<status, age, locked, dispatch, recovery, faults, received, causes>>

(* The worker dies or the time limit ends the task; a reception whose answer
   was not saved may be repeated. *)
WorkerLost(c) ==
  /\ chain[c].pc \in {"loaded", "sending", "answered"} /\ Fault
  /\ IF chain[c].answer = "ok" THEN CountCause(chain[c].delivery) ELSE UNCHANGED causes
  /\ End(c)
  /\ UNCHANGED <<status, age, locked, dispatch, recovery, received>>

(* Redis delivers again what was not acknowledged in visibility_timeout, such
   as a retry with a longer countdown. *)
Redeliver(c, other) ==
  /\ chain[c].pc = "queued" /\ chain[other].pc = "free" /\ Room(1) /\ Fault
  /\ chain' = [chain EXCEPT ![other] = chain[c]]
  /\ CountCause(chain[c].delivery)
  /\ UNCHANGED <<status, age, locked, dispatch, recovery, received>>

-----------------------------------------------------------------------------
(* recover_orphaned_deliveries, one transaction. *)

Orphans == {d \in Deliveries : status[d] = "PENDING" /\ age[d] \in {"old", "untried"}}

(* Mutant: a delivery that was never attempted is not an orphan. *)
RecoverAttempted(r) ==
  LET free == {d \in Orphans : locked[d] = NoOne /\ age[d] = "old"} IN
  /\ recovery[r].pc = "idle" /\ free # {} /\ Room(Cardinality(free))
  /\ recovery' = [recovery EXCEPT ![r] = Picked(free)]
  /\ locked' = [d \in Deliveries |-> IF d \in free THEN r ELSE locked[d]]
  /\ UNCHANGED <<status, age, chain, dispatch, faults, received, causes>>

(* Mutant: the orphans are read without FOR UPDATE. *)
RecoverUnlocked(r) ==
  /\ recovery[r].pc = "idle" /\ Orphans # {} /\ Room(Cardinality(Orphans))
  /\ recovery' = [recovery EXCEPT ![r] = Picked(Orphans)]
  /\ UNCHANGED <<status, age, locked, chain, dispatch, faults, received, causes>>

(* select_for_update(skip_locked=True), and the update of last_attempt_at,
   which nobody sees before the commit. *)
Recover(r) ==
  LET free == {d \in Orphans : locked[d] = NoOne} IN
  /\ recovery[r].pc = "idle" /\ free # {} /\ Room(Cardinality(free))
  /\ recovery' = [recovery EXCEPT ![r] = Picked(free)]
  /\ locked' = [d \in Deliveries |-> IF d \in free THEN r ELSE locked[d]]
  /\ UNCHANGED <<status, age, chain, dispatch, faults, received, causes>>

(* delay(delivery.id), before the commit. *)
Requeue(r, d) ==
  /\ d \in recovery[r].picked \ recovery[r].queued
  /\ \E c \in Chains : Enqueue(c, d)
  /\ recovery' = [recovery EXCEPT ![r].queued = @ \cup {d}]
  /\ CountCause(d)
  /\ UNCHANGED <<status, age, locked, dispatch, faults, received>>

Unlock(r) == locked' = [d \in Deliveries |-> IF locked[d] = r THEN NoOne ELSE locked[d]]

RecoverCommit(r) ==
  /\ recovery[r].pc = "picked" /\ recovery[r].queued = recovery[r].picked
  /\ age' = [d \in Deliveries |-> IF d \in recovery[r].picked THEN "recent" ELSE age[d]]
  /\ recovery' = [recovery EXCEPT ![r] = NoRecovery]
  /\ Unlock(r)
  /\ UNCHANGED <<status, chain, dispatch, faults, received, causes>>

RecoverLost(r) ==
  /\ recovery[r].pc = "picked" /\ Fault
  /\ recovery' = [recovery EXCEPT ![r] = NoRecovery]
  /\ Unlock(r)
  /\ UNCHANGED <<status, age, chain, dispatch, received, causes>>

-----------------------------------------------------------------------------
(* Fifteen minutes pass. *)
Age(d) ==
  /\ status[d] = "PENDING" /\ age[d] \in {"new", "recent"} /\ locked[d] = NoOne
  /\ age' = [age EXCEPT ![d] = IF @ = "new" THEN "untried" ELSE "old"]
  /\ UNCHANGED <<status, locked, chain, dispatch, recovery, faults, received, causes>>

(* cleanup_old_notifications, or the deletion of the channel. *)
Delete(d) ==
  /\ status[d] \in {"PENDING", "SENT", "FAILED"} /\ locked[d] = NoOne
  /\ status' = [status EXCEPT ![d] = "deleted"]
  /\ UNCHANGED <<age, locked, chain, dispatch, recovery, faults, received, causes>>

-----------------------------------------------------------------------------
ChainStep(c) == \/ Load(c) \/ Attempt(c) \/ Save(c) \/ Retry(c)
                \/ \E answer \in Answers : Send(c, answer)

RecoveryStep(r) == RecoverCommit(r) \/ \E d \in Deliveries : Requeue(r, d)

Next ==
  \/ \E s \in Dispatchers : \/ DispatchEnqueue(s) \/ DispatchLost(s)
                            \/ \E d \in Deliveries : Dispatch(s, d)
  \/ \E c \in Chains : \/ ChainStep(c) \/ WorkerLost(c)
                       \/ \E other \in Chains : Redeliver(c, other)
  \/ \E r \in Recoverers : Recover(r) \/ RecoveryStep(r) \/ RecoverLost(r)
  \/ \E d \in Deliveries : Age(d) \/ Delete(d)

Spec == Init /\ [][Next]_vars

(* A task of delivery d gets a final answer. *)
Answered(d) ==
  \E c \in Chains : chain[c].delivery = d /\ \E answer \in Answers \ {"retry", "unheard"} : Send(c, answer)

(* Workers take queued tasks and PostgreSQL grants row locks in queue order;
   time passes, beat starts a recovery every 15 minutes; a receiver that is
   asked again and again and can answer at last does. *)
Fairness ==
  /\ \A s \in Dispatchers : WF_vars(DispatchEnqueue(s))
  /\ \A c \in Chains : SF_vars(ChainStep(c))
  /\ \A r \in Recoverers : WF_vars(RecoveryStep(r))
  /\ WF_vars(\E r \in Recoverers : Recover(r))
  /\ \A d \in Deliveries : WF_vars(Age(d)) /\ SF_vars(Answered(d))

FairSpec == Spec /\ Fairness

-----------------------------------------------------------------------------
(* Properties. *)

(* "Ensures idempotency": the receiver takes a notification once, unless an
   answer was lost, or a recovery or the broker delivered the task again. *)
DuplicatesHaveCauses == \A d \in Deliveries : received[d] <= 1 + causes[d]

(* "Prevent concurrent recovery tasks from picking these up": no delivery is
   in two recoveries, and what a recovery is about to enqueue is pending still. *)
PickedStayPending ==
  \A r \in Recoverers : \A d \in recovery[r].picked :
    /\ status[d] = "PENDING"
    /\ \A q \in Recoverers \ {r} : d \notin recovery[q].picked

(* "Already processed ... Skipping": whatever tasks, retries, recoveries and lost
   workers do, a row says SENT only after a reception, a notification is taken
   again only for a reason, an outcome is overwritten (by a task that had read the
   row before) only if there was a reason for that task, and a row that was
   deleted stays so. *)
Promise == INSTANCE DeliveryPromise
ImplementsPromise == Promise!Spec

(* A notification does not stay pending, whatever is lost on the way: "Max
   retries exceeded" makes it failed. *)
DeliveriesEnd == \A d \in Deliveries : status[d] = "PENDING" ~> status[d] # "PENDING"
=============================================================================
