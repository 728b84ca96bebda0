------------------------- MODULE IncidentLifecycle -------------------------
(***************************************************************************)
(* Incidents and the alert rules that raise them.                           *)
(*                                                                          *)
(* Users act on incidents (apps/incidents/services.py); every operation     *)
(* locks the one row it changes and logs an event in the same transaction,  *)
(* so it is one step here, taken when nobody else holds the row.  A worker  *)
(* that evaluates a rule (apps/alerts/tasks.py) and a user who deletes or   *)
(* edits one take several steps: metrics are read before the rule is        *)
(* locked, the incident is looked up before it is locked, and a deletion    *)
(* detaches the incidents before it removes the rule.                       *)
(*                                                                          *)
(* Abstracted: one project; a job's telemetry is compared with thresholds   *)
(* by the environment; actors, times and metadata of events are left out.   *)
(***************************************************************************)
EXTENDS Integers, Sequences

CONSTANTS Incidents,    \* ids the incidents table may use
          Rules,
          Jobs,
          Members,      \* active members an incident may be assigned to
          Workers,      \* Celery workers that evaluate rules
          Users,        \* users who edit or delete rules
          MaxEvents,    \* bound: events of an incident before users stop
          NoIncident, NoRule, NoOne

ASSUME IncidentAssumption ==
  /\ Incidents \subseteq Nat
  /\ MaxEvents \in Nat
  /\ NoRule \notin Rules
  /\ NoOne \notin Members \cup Workers \cup Users
  /\ Workers \cap Users = {}
  /\ Rules \cap Incidents = {}

VARIABLES
  rule,        \* AlertRule rows
  telemetry,   \* what the metrics of a job say in the current window
  inc,         \* Incident rows
  timeline,    \* IncidentEvent rows of each incident, oldest first
  holder,      \* row locks of incidents and rules
  task,        \* evaluations of a rule
  edit         \* PATCH and DELETE requests of rules

vars == <<rule, telemetry, inc, timeline, holder, task, edit>>

Statuses == {"OPEN", "ACKNOWLEDGED", "RESOLVED"}
Active == {"OPEN", "ACKNOWLEDGED"}
Resolutions == {"none", "MANUAL", "AUTOMATIC"}
Readings == {"breach", "healthy", "unknown"}

StatusEvents == {"CREATED", "ACKNOWLEDGED", "MANUALLY_RESOLVED", "AUTO_RESOLVED", "REOPENED"}
EventTypes == StatusEvents \cup {"ASSIGNED", "NOTE_ADDED"}
Event == [type: EventTypes, to: Members \cup {NoOne}]

Incident == [job: Jobs, rule: Rules \cup {NoRule}, status: Statuses,
             acknowledged: BOOLEAN, resolution: Resolutions,
             assigned: Members \cup {NoOne}]

ASSUME RowAssumption == NoIncident \notin Incident

RuleRow == [exists: BOOLEAN, active: BOOLEAN, job: Jobs]
Actors == Workers \cup Users

IdleTask == [pc |-> "idle", rule |-> NoRule, breach |-> FALSE, found |-> {}]
IdleEdit == [pc |-> "idle", rule |-> NoRule, seen |-> {}, detached |-> {}]

TypeOK ==
  /\ rule \in [Rules -> RuleRow]
  /\ telemetry \in [Jobs -> Readings]
  /\ inc \in [Incidents -> Incident \cup {NoIncident}]
  /\ timeline \in [Incidents -> Seq(Event)]
  /\ holder \in [Incidents \cup Rules -> Actors \cup {NoOne}]
  /\ task \in [Workers -> [pc: {"idle", "measured", "locked"}, rule: Rules \cup {NoRule},
                           breach: BOOLEAN, found: SUBSET Incidents]]
  /\ edit \in [Users -> [pc: {"idle", "patch", "delete"}, rule: Rules \cup {NoRule},
                         seen: SUBSET RuleRow, detached: SUBSET Incidents]]

Init ==
  /\ rule \in [Rules -> [exists: {TRUE}, active: {TRUE}, job: Jobs]]
  /\ telemetry = [j \in Jobs |-> "unknown"]
  /\ inc = [i \in Incidents |-> NoIncident]
  /\ timeline = [i \in Incidents |-> <<>>]
  /\ holder = [k \in Incidents \cup Rules |-> NoOne]
  /\ task = [w \in Workers |-> IdleTask]
  /\ edit = [u \in Users |-> IdleEdit]

-----------------------------------------------------------------------------
(* Operations on one incident. *)

Exists(i) == inc[i] # NoIncident
IsActive(i) == Exists(i) /\ inc[i].status \in Active
Room(i) == Len(timeline[i]) < MaxEvents

Log(i, type, to) == timeline' = [timeline EXCEPT ![i] = Append(@, [type |-> type, to |-> to])]

(* The row is free, and the operation is that of a user on an existing row. *)
Locked(i) == Exists(i) /\ holder[i] = NoOne /\ UNCHANGED <<rule, telemetry, holder, task, edit>>

(* Assign to a member or to nobody; no event when nothing changes. *)
Assign(i, m) ==
  /\ Locked(i) /\ Room(i)
  /\ inc[i].status # "RESOLVED"
  /\ inc[i].assigned # m
  /\ inc' = [inc EXCEPT ![i].assigned = m]
  /\ Log(i, "ASSIGNED", m)

Acknowledge(i) ==
  /\ Locked(i)
  /\ inc[i].status = "OPEN"
  /\ inc' = [inc EXCEPT ![i].status = "ACKNOWLEDGED", ![i].acknowledged = TRUE]
  /\ Log(i, "ACKNOWLEDGED", NoOne)

Resolve(i) ==
  /\ Locked(i)
  /\ inc[i].status # "RESOLVED"
  /\ inc' = [inc EXCEPT ![i].status = "RESOLVED", ![i].resolution = "MANUAL"]
  /\ Log(i, "MANUALLY_RESOLVED", NoOne)

(* Mutant: the unique index covers open incidents only. *)
RivalsOpen(rl, j) ==
  {i \in Incidents : /\ Exists(i) /\ inc[i].status = "OPEN"
                     /\ inc[i].rule = rl /\ inc[i].job = j /\ rl # NoRule}

(* Rows that keep another active incident out of the unique index; those
   without a rule do not count.  A locked one makes the writer wait. *)
Rivals(rl, j) ==
  {i \in Incidents : IsActive(i) /\ inc[i].rule = rl /\ inc[i].job = j /\ rl # NoRule}

(* Mutant: the resolution is cleared with an empty text. *)
ReopenEmpty(i) ==
  /\ Locked(i) /\ Room(i)
  /\ inc[i].status = "RESOLVED"
  /\ Rivals(inc[i].rule, inc[i].job) = {}
  /\ inc' = [inc EXCEPT ![i].status = "OPEN", ![i].resolution = "", ![i].acknowledged = FALSE]
  /\ Log(i, "REOPENED", NoOne)

(* Mutant: the acknowledgement survives the reopening. *)
ReopenAcknowledged(i) ==
  /\ Locked(i) /\ Room(i)
  /\ inc[i].status = "RESOLVED"
  /\ Rivals(inc[i].rule, inc[i].job) = {}
  /\ inc' = [inc EXCEPT ![i].status = "OPEN", ![i].resolution = "none"]
  /\ Log(i, "REOPENED", NoOne)

(* With a rival, an IntegrityError rolls the reopening back. *)
Reopen(i) ==
  /\ Locked(i) /\ Room(i)
  /\ inc[i].status = "RESOLVED"
  /\ Rivals(inc[i].rule, inc[i].job) = {}
  /\ inc' = [inc EXCEPT ![i].status = "OPEN", ![i].resolution = "none", ![i].acknowledged = FALSE]
  /\ Log(i, "REOPENED", NoOne)

AddNote(i) ==
  /\ Locked(i) /\ Room(i)
  /\ Log(i, "NOTE_ADDED", NoOne)
  /\ UNCHANGED inc

-----------------------------------------------------------------------------
(* Evaluation of one rule. *)

Release(a) == [k \in DOMAIN holder |-> IF holder[k] = a THEN NoOne ELSE holder[k]]

EndTask(w) == task' = [task EXCEPT ![w] = IdleTask]

(* The rule is loaded and the metrics of its job read, without a lock;
   without data ("unknown") the evaluation ends at once. *)
Measure(w, rl) ==
  /\ task[w].pc = "idle"
  /\ rule[rl].exists /\ rule[rl].active
  /\ telemetry[rule[rl].job] # "unknown"
  /\ task' = [task EXCEPT ![w] = [IdleTask EXCEPT !.pc = "measured", !.rule = rl,
                                    !.breach = telemetry[rule[rl].job] = "breach"]]
  /\ UNCHANGED <<rule, telemetry, inc, timeline, holder, edit>>

(* Mutant: the lookup does not ask for an active status. *)
LockRuleAnyStatus(w) ==
  LET rl == task[w].rule IN
  /\ task[w].pc = "measured" /\ rule[rl].exists
  /\ holder[rl] = NoOne
  /\ holder' = [holder EXCEPT ![rl] = w]
  /\ task' = [task EXCEPT ![w].pc = "locked",
                ![w].found = {i \in Incidents : Exists(i) /\ inc[i].rule = rl}]
  /\ UNCHANGED <<rule, telemetry, inc, timeline, edit>>

(* The rule row is locked and the active incident of its scope looked up. *)
LockRule(w) ==
  LET rl == task[w].rule IN
  /\ task[w].pc = "measured" /\ rule[rl].exists
  /\ holder[rl] = NoOne
  /\ holder' = [holder EXCEPT ![rl] = w]
  /\ task' = [task EXCEPT ![w].pc = "locked", ![w].found = Rivals(rl, rule[rl].job)]
  /\ UNCHANGED <<rule, telemetry, inc, timeline, edit>>

(* The rule was deleted meanwhile: DoesNotExist ends the task. *)
RuleGone(w) ==
  /\ task[w].pc = "measured" /\ ~rule[task[w].rule].exists
  /\ EndTask(w)
  /\ UNCHANGED <<rule, telemetry, inc, timeline, holder, edit>>

Unused(i) == ~Exists(i) /\ \A k \in Incidents : ~Exists(k) => i <= k

(* create_incident; an IntegrityError of the unique index is swallowed. *)
Raise(w) ==
  LET rl == task[w].rule IN
  /\ task[w].pc = "locked" /\ task[w].breach /\ task[w].found = {}
  /\ \A k \in Rivals(rl, rule[rl].job) : holder[k] = NoOne
  /\ IF Rivals(rl, rule[rl].job) = {}
     THEN \E i \in Incidents :
            /\ Unused(i)
            /\ inc' = [inc EXCEPT ![i] = [job |-> rule[rl].job, rule |-> rl, status |-> "OPEN",
                          acknowledged |-> FALSE, resolution |-> "none", assigned |-> NoOne]]
            /\ Log(i, "CREATED", NoOne)
     ELSE UNCHANGED <<inc, timeline>>
  /\ holder' = Release(w)
  /\ EndTask(w)
  /\ UNCHANGED <<rule, telemetry, edit>>

(* The condition holds and has its incident: only trigger_metadata changes. *)
Refresh(w) ==
  /\ task[w].pc = "locked" /\ task[w].breach
  /\ \E i \in task[w].found : holder[i] = NoOne
  /\ holder' = Release(w)
  /\ EndTask(w)
  /\ UNCHANGED <<rule, telemetry, inc, timeline, edit>>

(* Mutant: the status is not tested again under the lock. *)
AutoResolveStale(w) ==
  /\ task[w].pc = "locked" /\ ~task[w].breach
  /\ \E i \in task[w].found :
       /\ holder[i] = NoOne
       /\ inc' = [inc EXCEPT ![i].status = "RESOLVED", ![i].resolution = "AUTOMATIC"]
       /\ Log(i, "AUTO_RESOLVED", NoOne)
  /\ holder' = Release(w)
  /\ EndTask(w)
  /\ UNCHANGED <<rule, telemetry, edit>>

(* Mutant: an acknowledged incident is left to its owner. *)
AutoResolveOpen(w) ==
  /\ task[w].pc = "locked" /\ ~task[w].breach
  /\ \E i \in task[w].found :
       /\ holder[i] = NoOne
       /\ IF inc[i].status = "OPEN"
          THEN /\ inc' = [inc EXCEPT ![i].status = "RESOLVED", ![i].resolution = "AUTOMATIC"]
               /\ Log(i, "AUTO_RESOLVED", NoOne)
          ELSE UNCHANGED <<inc, timeline>>
  /\ holder' = Release(w)
  /\ EndTask(w)
  /\ UNCHANGED <<rule, telemetry, edit>>

(* auto_resolve_incident; an incident resolved meanwhile stays as it is. *)
AutoResolve(w) ==
  /\ task[w].pc = "locked" /\ ~task[w].breach
  /\ \E i \in task[w].found :
       /\ holder[i] = NoOne
       /\ IF IsActive(i)
          THEN /\ inc' = [inc EXCEPT ![i].status = "RESOLVED", ![i].resolution = "AUTOMATIC"]
               /\ Log(i, "AUTO_RESOLVED", NoOne)
          ELSE UNCHANGED <<inc, timeline>>
  /\ holder' = Release(w)
  /\ EndTask(w)
  /\ UNCHANGED <<rule, telemetry, edit>>

(* Neither breach nor incident: nothing to do. *)
NothingToDo(w) ==
  /\ task[w].pc = "locked" /\ ~task[w].breach /\ task[w].found = {}
  /\ holder' = Release(w)
  /\ EndTask(w)
  /\ UNCHANGED <<rule, telemetry, inc, timeline, edit>>

(* The worker dies or, in a deadlock with a deletion, PostgreSQL ends it. *)
AbortTask(w) ==
  /\ task[w].pc # "idle"
  /\ holder' = Release(w)
  /\ EndTask(w)
  /\ UNCHANGED <<rule, telemetry, inc, timeline, edit>>

-----------------------------------------------------------------------------
(* Edits and deletions of rules. *)

(* PATCH reads the row, validates, and saves every column. *)
PatchRead(u, rl) ==
  /\ edit[u].pc = "idle" /\ rule[rl].exists
  /\ edit' = [edit EXCEPT ![u] = [IdleEdit EXCEPT !.pc = "patch", !.rule = rl, !.seen = {rule[rl]}]]
  /\ UNCHANGED <<rule, telemetry, inc, timeline, holder, task>>

(* The user changes is_active or the job.  save() inserts a row that is gone. *)
PatchWrite(u) ==
  \E row \in edit[u].seen, a \in BOOLEAN, j \in Jobs :
    /\ edit[u].pc = "patch"
    /\ holder[edit[u].rule] = NoOne
    /\ a = row.active \/ j = row.job
    /\ rule' = [rule EXCEPT ![edit[u].rule] = [exists |-> TRUE, active |-> a, job |-> j]]
    /\ edit' = [edit EXCEPT ![u] = IdleEdit]
    /\ UNCHANGED <<telemetry, inc, timeline, holder, task>>

(* DELETE: on_delete=SET_NULL detaches the incidents of the rule first, *)
Detach(u, rl) ==
  LET mine == {i \in Incidents : Exists(i) /\ inc[i].rule = rl} IN
  /\ edit[u].pc = "idle" /\ rule[rl].exists
  /\ \A i \in mine : holder[i] = NoOne
  /\ holder' = [k \in DOMAIN holder |-> IF k \in mine THEN u ELSE holder[k]]
  /\ edit' = [edit EXCEPT ![u] = [IdleEdit EXCEPT !.pc = "delete", !.rule = rl, !.detached = mine]]
  /\ UNCHANGED <<rule, telemetry, inc, timeline, task>>

Referencing(rl) == {i \in Incidents : Exists(i) /\ inc[i].rule = rl}

(* Mutant: the foreign key is not checked (db_constraint=False). *)
DeleteUnchecked(u) ==
  LET rl == edit[u].rule IN
  /\ edit[u].pc = "delete"
  /\ holder[rl] = NoOne
  /\ rule' = [rule EXCEPT ![rl].exists = FALSE]
  /\ inc' = [i \in Incidents |-> IF i \in edit[u].detached
                                  THEN [inc[i] EXCEPT !.rule = NoRule] ELSE inc[i]]
  /\ holder' = Release(u)
  /\ edit' = [edit EXCEPT ![u] = IdleEdit]
  /\ UNCHANGED <<telemetry, timeline, task>>

(* then removes the row; the commit checks the foreign keys. *)
Delete(u) ==
  LET rl == edit[u].rule IN
  /\ edit[u].pc = "delete"
  /\ holder[rl] = NoOne
  /\ IF Referencing(rl) \subseteq edit[u].detached
     THEN /\ rule' = [rule EXCEPT ![rl].exists = FALSE]
          /\ inc' = [i \in Incidents |-> IF i \in edit[u].detached
                                         THEN [inc[i] EXCEPT !.rule = NoRule] ELSE inc[i]]
     ELSE UNCHANGED <<rule, inc>>
  /\ holder' = Release(u)
  /\ edit' = [edit EXCEPT ![u] = IdleEdit]
  /\ UNCHANGED <<telemetry, timeline, task>>

(* The request is lost before it commits, or is the victim of a deadlock. *)
AbortEdit(u) ==
  /\ edit[u].pc # "idle"
  /\ holder' = Release(u)
  /\ edit' = [edit EXCEPT ![u] = IdleEdit]
  /\ UNCHANGED <<rule, telemetry, inc, timeline, task>>

(* Executions finish or fail and the window moves on. *)
Observe(j, v) ==
  /\ telemetry[j] # v
  /\ telemetry' = [telemetry EXCEPT ![j] = v]
  /\ UNCHANGED <<rule, inc, timeline, holder, task, edit>>

(* A deletion holds an incident the evaluation waits for, and waits for its
   rule. *)
Deadlocked(w) ==
  /\ task[w].pc = "locked"
  /\ \E u \in Users : /\ edit[u].pc = "delete" /\ edit[u].rule = task[w].rule
                      /\ \E i \in task[w].found : holder[i] = u

-----------------------------------------------------------------------------
Operate(i) == \/ Acknowledge(i) \/ Resolve(i) \/ Reopen(i) \/ AddNote(i)
              \/ \E m \in Members \cup {NoOne} : Assign(i, m)

(* An evaluation that has begun goes on. *)
Evaluate(w) ==
  /\ task[w].pc # "idle"
  /\ \/ LockRule(w) \/ RuleGone(w) \/ Raise(w) \/ Refresh(w) \/ AutoResolve(w) \/ NothingToDo(w)

EditStep(u) == PatchWrite(u) \/ Delete(u)

Next ==
  \/ \E i \in Incidents : Operate(i)
  \/ \E w \in Workers : \/ Evaluate(w) \/ AbortTask(w)
                        \/ \E rl \in Rules : Measure(w, rl)
  \/ \E u \in Users : \/ EditStep(u) \/ AbortEdit(u)
                      \/ \E rl \in Rules : PatchRead(u, rl) \/ Detach(u, rl)
  \/ \E j \in Jobs, v \in Readings : Observe(j, v)

Spec == Init /\ [][Next]_vars

(* Beat enqueues every active rule again and again; a worker may die in any
   evaluation and a request be lost, but not for ever at the same step;
   PostgreSQL ends deadlocks.  Users need not begin anything. *)
Fairness ==
  /\ \A rl \in Rules : SF_vars(\E w \in Workers : Measure(w, rl))
  /\ \A w \in Workers : /\ SF_vars(LockRule(w)) /\ SF_vars(RuleGone(w))
                        /\ SF_vars(Raise(w)) /\ SF_vars(AutoResolve(w))
                        /\ SF_vars(Refresh(w)) /\ SF_vars(NothingToDo(w))
                        /\ SF_vars(Deadlocked(w) /\ AbortTask(w))
  /\ \A u \in Users : SF_vars(PatchWrite(u)) /\ SF_vars(Delete(u))

FairSpec == Spec /\ Fairness

-----------------------------------------------------------------------------
(* Properties. *)

(* The scope of a rule has at most one active incident, whoever raises or
   reopens incidents at the same time. *)
OneActivePerScope ==
  \A i, k \in Incidents :
    /\ IsActive(i) /\ IsActive(k) /\ inc[i].rule # NoRule
    /\ inc[i].rule = inc[k].rule /\ inc[i].job = inc[k].job
    => i = k

(* What the last event that changes it says of an incident. *)
After(type) ==
  CASE type \in {"CREATED", "REOPENED"} -> [status |-> "OPEN", resolution |-> "none"]
    [] type = "ACKNOWLEDGED" -> [status |-> "ACKNOWLEDGED", resolution |-> "none"]
    [] type = "MANUALLY_RESOLVED" -> [status |-> "RESOLVED", resolution |-> "MANUAL"]
    [] type = "AUTO_RESOLVED" -> [status |-> "RESOLVED", resolution |-> "AUTOMATIC"]

IsLast(i, n, T) ==
  /\ n \in DOMAIN timeline[i] /\ timeline[i][n].type \in T
  /\ \A m \in DOMAIN timeline[i] : m > n => timeline[i][m].type \notin T

(* "Immutable timeline": the audit trail alone tells the status, resolution,
   assignee and acknowledgement of every incident. *)
TimelineReplays ==
  \A i \in Incidents : Exists(i) =>
    /\ \E n \in DOMAIN timeline[i] :
         /\ IsLast(i, n, StatusEvents)
         /\ After(timeline[i][n].type) = [status |-> inc[i].status, resolution |-> inc[i].resolution]
    /\ \/ \E n \in DOMAIN timeline[i] : IsLast(i, n, {"ASSIGNED"}) /\ timeline[i][n].to = inc[i].assigned
       \/ /\ inc[i].assigned = NoOne
          /\ \A n \in DOMAIN timeline[i] : timeline[i][n].type # "ASSIGNED"
    /\ inc[i].acknowledged <=>
         \E n \in DOMAIN timeline[i] : /\ IsLast(i, n, {"ACKNOWLEDGED", "REOPENED"})
                                       /\ timeline[i][n].type = "ACKNOWLEDGED"

(* Deleting a rule never leaves an incident that refers to it, although an
   evaluation may be raising one. *)
NoDanglingRule ==
  \A i \in Incidents : Exists(i) /\ inc[i].rule # NoRule => rule[inc[i].rule].exists

(* A manual resolution stays manual until somebody reopens the incident, also
   when an evaluation that found it active recovers it later. *)
ManualResolutionStands ==
  [][\A i \in Incidents :
       Exists(i) /\ inc[i].resolution = "MANUAL" /\ inc'[i].resolution # "MANUAL"
         => inc'[i].status = "OPEN" /\ Len(timeline'[i]) > Len(timeline[i])]_vars

InForce(rl, j) == rule[rl] = [exists |-> TRUE, active |-> TRUE, job |-> j]
Covered(rl, j) == \E i \in Incidents : IsActive(i) /\ inc[i].rule = rl /\ inc[i].job = j

(* A breach that lasts gets its incident while the rule is in force. *)
BreachRaises ==
  \A rl \in Rules, j \in Jobs :
    InForce(rl, j) /\ telemetry[j] = "breach"
      ~> \/ Covered(rl, j) \/ ~InForce(rl, j) \/ telemetry[j] # "breach"
         \/ \A i \in Incidents : Exists(i)

(* A recovery that lasts resolves the incident while the rule is in force. *)
RecoveryResolves ==
  \A rl \in Rules, j \in Jobs :
    InForce(rl, j) /\ telemetry[j] = "healthy"
      ~> ~Covered(rl, j) \/ ~InForce(rl, j) \/ telemetry[j] # "healthy"

(* "Auto-resolves automatically when worker telemetry returns to healthy
   levels." *)
HealthyTelemetryResolves ==
  \A i \in Incidents, j \in Jobs :
    IsActive(i) /\ inc[i].job = j /\ telemetry[j] = "healthy"
      ~> ~IsActive(i) \/ telemetry[j] # "healthy"
=============================================================================
