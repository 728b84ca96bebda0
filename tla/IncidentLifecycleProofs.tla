------------------------ MODULE IncidentLifecycleProofs ------------------------
(***************************************************************************)
(* Safety of incidents and alert rules, for any number of incidents,       *)
(* rules, jobs, members, workers and users.  TimelineReplays and           *)
(* OneActivePerScope follow from what one operation does to one row and    *)
(* its log.  NoDanglingRule does not: between the lookup of a rule and the *)
(* row that refers to it lie the steps of others, and what keeps the rule  *)
(* there is the lock on it, which TasksHold says an evaluation has.        *)
(***************************************************************************)
EXTENDS IncidentLifecycle, TLAPS

(* An evaluation that has locked its rule still holds it, and it exists. *)
TasksHold ==
  \A w \in Workers :
    /\ task[w].pc # "idle" => task[w].rule \in Rules
    /\ task[w].pc = "locked" => holder[task[w].rule] = w /\ rule[task[w].rule].exists

(* What a deletion has detached is there to be saved. *)
EditsKnow == \A u \in Users : \A i \in edit[u].detached : Exists(i)

NothingLogged == \A i \in Incidents : ~Exists(i) => timeline[i] = <<>>

(* TimelineReplays, of one row x and its log s *)
LastIn(s, n, T) ==
  /\ n \in DOMAIN s /\ s[n].type \in T
  /\ \A m \in DOMAIN s : m > n => s[m].type \notin T

StatusReplays(x, s) ==
  \E n \in DOMAIN s : /\ LastIn(s, n, StatusEvents)
                      /\ After(s[n].type) = [status |-> x.status, resolution |-> x.resolution]
AssigneeReplays(x, s) ==
  \/ \E n \in DOMAIN s : LastIn(s, n, {"ASSIGNED"}) /\ s[n].to = x.assigned
  \/ x.assigned = NoOne /\ \A n \in DOMAIN s : s[n].type # "ASSIGNED"
AcknowledgementReplays(x, s) ==
  x.acknowledged <=> \E n \in DOMAIN s : /\ LastIn(s, n, {"ACKNOWLEDGED", "REOPENED"})
                                         /\ s[n].type = "ACKNOWLEDGED"
Replays(x, s) == StatusReplays(x, s) /\ AssigneeReplays(x, s) /\ AcknowledgementReplays(x, s)

Recorded == OneActivePerScope /\ TimelineReplays /\ NothingLogged
IInv == TypeOK /\ Recorded /\ NoDanglingRule /\ TasksHold /\ EditsKnow

LEMMA ReplaysIsTimelineReplays ==
  TimelineReplays <=> \A i \in Incidents : Exists(i) => Replays(inc[i], timeline[i])
BY DEF TimelineReplays, Replays, StatusReplays, AssigneeReplays, AcknowledgementReplays, IsLast, LastIn

-----------------------------------------------------------------------------
(* An event of a kind in T becomes the last of its kind; others change nothing. *)
LEMMA Logged ==
  ASSUME NEW s \in Seq(Event), NEW e \in Event
  PROVE  /\ Append(s, e) \in Seq(Event)
         /\ Len(s) + 1 \in Nat
         /\ DOMAIN Append(s, e) = DOMAIN s \cup {Len(s) + 1}
         /\ \A n \in DOMAIN s : n \in Nat /\ n < Len(s) + 1 /\ Append(s, e)[n] = s[n]
         /\ Append(s, e)[Len(s) + 1] = e
OBVIOUS

LEMMA LastLogged ==
  ASSUME NEW s \in Seq(Event), NEW e \in Event, NEW T, e.type \in T, NEW n
  PROVE  LastIn(Append(s, e), n, T) <=> n = Len(s) + 1
<1> DEFINE t == Append(s, e)
           k == Len(s) + 1
<1>1. /\ k \in Nat /\ DOMAIN t = DOMAIN s \cup {k} /\ t[k] = e
      /\ \A m \in DOMAIN s : m \in Nat /\ m < k
  BY Logged
<1> HIDE DEF t, k
<1>2. LastIn(t, n, T) <=> n = k
  BY <1>1 DEF LastIn
<1> QED
  BY <1>2 DEF t, k

LEMMA OthersLogged ==
  ASSUME NEW s \in Seq(Event), NEW e \in Event, NEW T, e.type \notin T, NEW n
  PROVE  LastIn(Append(s, e), n, T) <=> LastIn(s, n, T)
<1> DEFINE t == Append(s, e)
           k == Len(s) + 1
<1>1. /\ k \in Nat /\ DOMAIN t = DOMAIN s \cup {k} /\ t[k] = e
      /\ \A m \in DOMAIN s : m \in Nat /\ m < k /\ t[m] = s[m]
  BY Logged
<1> HIDE DEF t, k
<1>2. LastIn(t, n, T) <=> LastIn(s, n, T)
  BY <1>1 DEF LastIn
<1> QED
  BY <1>2 DEF t

-----------------------------------------------------------------------------
(* Each of the three things a log tells, after one more event. *)
LEMMA StatusAfter ==
  ASSUME NEW x \in Incident, NEW y \in Incident, NEW s \in Seq(Event), NEW e \in Event,
         \/ /\ e.type \in StatusEvents
            /\ After(e.type) = [status |-> y.status, resolution |-> y.resolution]
         \/ /\ e.type \notin StatusEvents /\ StatusReplays(x, s)
            /\ y.status = x.status /\ y.resolution = x.resolution
  PROVE  StatusReplays(y, Append(s, e))
<1> DEFINE t == Append(s, e)
           k == Len(s) + 1
<1>1. /\ DOMAIN t = DOMAIN s \cup {k} /\ t[k] = e
      /\ \A m \in DOMAIN s : t[m] = s[m]
  BY Logged
<1>2. CASE e.type \in StatusEvents
  <2>1. LastIn(t, k, StatusEvents)
    BY <1>2, LastLogged
  <2> HIDE DEF t, k
  <2>2. StatusReplays(y, t)
    BY <1>1, <1>2, <2>1 DEF StatusReplays
  <2> QED
    BY <2>2 DEF t
<1>3. CASE e.type \notin StatusEvents
  <2>1. \A n : LastIn(t, n, StatusEvents) <=> LastIn(s, n, StatusEvents)
    BY <1>3, OthersLogged
  <2> HIDE DEF t, k
  <2>2. StatusReplays(y, t)
    BY <1>1, <1>3, <2>1 DEF StatusReplays
  <2> QED
    BY <2>2 DEF t
<1> QED
  BY <1>2, <1>3

LEMMA AssigneeAfter ==
  ASSUME NEW x \in Incident, NEW y \in Incident, NEW s \in Seq(Event), NEW e \in Event,
         \/ e.type = "ASSIGNED" /\ y.assigned = e.to
         \/ e.type # "ASSIGNED" /\ AssigneeReplays(x, s) /\ y.assigned = x.assigned
  PROVE  AssigneeReplays(y, Append(s, e))
<1> DEFINE t == Append(s, e)
           k == Len(s) + 1
<1>1. /\ DOMAIN t = DOMAIN s \cup {k} /\ t[k] = e
      /\ \A m \in DOMAIN s : t[m] = s[m]
  BY Logged
<1>2. CASE e.type = "ASSIGNED"
  <2>1. LastIn(t, k, {"ASSIGNED"})
    BY <1>2, LastLogged
  <2> HIDE DEF t, k
  <2>2. AssigneeReplays(y, t)
    BY <1>1, <1>2, <2>1 DEF AssigneeReplays
  <2> QED
    BY <2>2 DEF t
<1>3. CASE e.type # "ASSIGNED"
  <2>1. \A n : LastIn(t, n, {"ASSIGNED"}) <=> LastIn(s, n, {"ASSIGNED"})
    BY <1>3, OthersLogged
  <2> HIDE DEF t, k
  <2>2. AssigneeReplays(y, t)
    BY <1>1, <1>3, <2>1 DEF AssigneeReplays
  <2> QED
    BY <2>2 DEF t
<1> QED
  BY <1>2, <1>3

LEMMA AcknowledgementAfter ==
  ASSUME NEW x \in Incident, NEW y \in Incident, NEW s \in Seq(Event), NEW e \in Event,
         \/ e.type \in {"ACKNOWLEDGED", "REOPENED"} /\ (y.acknowledged <=> e.type = "ACKNOWLEDGED")
         \/ /\ e.type \notin {"ACKNOWLEDGED", "REOPENED"} /\ AcknowledgementReplays(x, s)
            /\ y.acknowledged <=> x.acknowledged
  PROVE  AcknowledgementReplays(y, Append(s, e))
<1> DEFINE t == Append(s, e)
           k == Len(s) + 1
           T == {"ACKNOWLEDGED", "REOPENED"}
<1>1. /\ DOMAIN t = DOMAIN s \cup {k} /\ t[k] = e
      /\ \A m \in DOMAIN s : t[m] = s[m]
  BY Logged
<1>2. CASE e.type \in T
  <2>1. \A n : LastIn(t, n, T) <=> n = k
    BY <1>2, LastLogged
  <2> HIDE DEF t, k
  <2>2. AcknowledgementReplays(y, t)
    BY <1>1, <1>2, <2>1 DEF AcknowledgementReplays
  <2> QED
    BY <2>2 DEF t
<1>3. CASE e.type \notin T
  <2>1. \A n : LastIn(t, n, T) <=> LastIn(s, n, T)
    BY <1>3, OthersLogged
  <2>2. \A n : LastIn(s, n, T) => n \in DOMAIN s
    BY DEF LastIn
  <2> HIDE DEF t, k
  <2>3. AcknowledgementReplays(y, t)
    BY <1>1, <1>3, <2>1, <2>2 DEF AcknowledgementReplays
  <2> QED
    BY <2>3 DEF t
<1> QED
  BY <1>2, <1>3

(* An incident that is not resolved has no resolution. *)
LEMMA ActiveUnresolved ==
  ASSUME NEW x \in Incident, NEW s, StatusReplays(x, s)
  PROVE  x.status \in Active <=> x.resolution = "none"
<1>1. PICK n : /\ s[n].type \in StatusEvents
               /\ After(s[n].type) = [status |-> x.status, resolution |-> x.resolution]
  BY DEF StatusReplays, LastIn
<1>2. After(s[n].type).status = x.status /\ After(s[n].type).resolution = x.resolution
  BY <1>1
<1> QED
  BY <1>1, <1>2 DEF After, StatusEvents, Active

-----------------------------------------------------------------------------
(* One row written, one event logged: what keeps the records right. *)
RowsTyped == inc \in [Incidents -> Incident \cup {NoIncident}] /\ timeline \in [Incidents -> Seq(Event)]

Writes(i, x, e) ==
  /\ inc' = [inc EXCEPT ![i] = x]
  /\ timeline' = [timeline EXCEPT ![i] = Append(@, e)]

LEMMA RowWritten ==
  ASSUME RowsTyped, Recorded, NEW i \in Incidents, NEW x \in Incident, NEW e \in Event, Writes(i, x, e),
         Replays(x, Append(timeline[i], e)),
         x.status \in Active /\ x.rule # NoRule => Rivals(x.rule, x.job) \subseteq {i}
  PROVE  /\ RowsTyped' /\ Recorded'
         /\ \A k \in Incidents :
              IF k = i THEN Exists(k)' /\ inc'[k].rule = x.rule ELSE inc'[k] = inc[k]
<1> USE RowAssumption
<1>1. /\ inc'[i] = x /\ x # NoIncident
      /\ timeline'[i] = Append(timeline[i], e) /\ timeline'[i] \in Seq(Event)
      /\ \A k \in Incidents \ {i} : inc'[k] = inc[k] /\ timeline'[k] = timeline[k]
  BY Logged DEF RowsTyped, Writes
<1>2. RowsTyped'
  BY <1>1 DEF RowsTyped, Writes
<1>3. OneActivePerScope'
  <2> SUFFICES ASSUME NEW k \in Incidents, NEW l \in Incidents, IsActive(k)', IsActive(l)',
                      inc'[k].rule # NoRule, inc'[k].rule = inc'[l].rule, inc'[k].job = inc'[l].job
               PROVE  k = l
    BY DEF OneActivePerScope
  <2>1. \A m \in Incidents \ {i} : IsActive(m)' => IsActive(m)
    BY <1>1 DEF IsActive, Exists
  <2>2. CASE k # i /\ l # i
    BY <1>1, <2>1, <2>2 DEF Recorded, OneActivePerScope
  <2>3. CASE k = i /\ l # i
    <3>1. l \in Rivals(x.rule, x.job) /\ x.status \in Active /\ x.rule # NoRule
      BY <1>1, <2>1, <2>3 DEF Rivals, IsActive
    <3> QED
      BY <2>3, <3>1
  <2>4. CASE k # i /\ l = i
    <3>1. k \in Rivals(x.rule, x.job) /\ x.status \in Active /\ x.rule # NoRule
      BY <1>1, <2>1, <2>4 DEF Rivals, IsActive
    <3> QED
      BY <2>4, <3>1
  <2> QED
    BY <2>2, <2>3, <2>4
<1>4. TimelineReplays'
  <2>1. \A k \in Incidents : Exists(k)' => Replays(inc'[k], timeline'[k])
    BY <1>1, ReplaysIsTimelineReplays DEF Recorded, Exists
  <2> QED
    BY <2>1 DEF TimelineReplays, Replays, StatusReplays, AssigneeReplays, AcknowledgementReplays,
                IsLast, LastIn, Exists
<1>5. NothingLogged'
  BY <1>1 DEF Recorded, NothingLogged, Exists
<1>6. \A k \in Incidents :
        IF k = i THEN Exists(k)' /\ inc'[k].rule = x.rule ELSE inc'[k] = inc[k]
  BY <1>1 DEF Exists
<1> QED
  BY <1>2, <1>3, <1>4, <1>5, <1>6 DEF Recorded

(* No row appears, disappears, or changes its rule. *)
RulesKept ==
  \A k \in Incidents : /\ Exists(k)' <=> Exists(k)
                       /\ Exists(k) => inc'[k].rule = inc[k].rule

(* A row of the same scope that becomes or stays active is alone if it was active. *)
LEMMA StaysAlone ==
  ASSUME OneActivePerScope, NEW i \in Incidents, IsActive(i), inc[i].rule # NoRule
  PROVE  Rivals(inc[i].rule, inc[i].job) \subseteq {i}
BY DEF OneActivePerScope, Rivals

-----------------------------------------------------------------------------
(* The operations on an incident. *)
LEMMA ExistingRow ==
  ASSUME RowsTyped, Recorded, NEW i \in Incidents, Exists(i)
  PROVE  /\ inc[i] \in Incident /\ timeline[i] \in Seq(Event)
         /\ Replays(inc[i], timeline[i])
         /\ inc[i].status \in Active <=> inc[i].resolution = "none"
<1>1. inc[i] \in Incident /\ timeline[i] \in Seq(Event)
  BY DEF RowsTyped, Exists
<1>2. Replays(inc[i], timeline[i])
  BY ReplaysIsTimelineReplays DEF Recorded
<1> QED
  BY <1>1, <1>2, ActiveUnresolved DEF Replays

LEMMA AfterKinds ==
  /\ After("CREATED") = [status |-> "OPEN", resolution |-> "none"]
  /\ After("REOPENED") = [status |-> "OPEN", resolution |-> "none"]
  /\ After("ACKNOWLEDGED") = [status |-> "ACKNOWLEDGED", resolution |-> "none"]
  /\ After("MANUALLY_RESOLVED") = [status |-> "RESOLVED", resolution |-> "MANUAL"]
  /\ After("AUTO_RESOLVED") = [status |-> "RESOLVED", resolution |-> "AUTOMATIC"]
BY DEF After

LEMMA AssignWrites ==
  ASSUME RowsTyped, Recorded, NEW i \in Incidents, NEW m \in Members \cup {NoOne}, Assign(i, m)
  PROVE  RowsTyped' /\ Recorded' /\ RulesKept
<1> DEFINE x == [inc[i] EXCEPT !.assigned = m]
           e == [type |-> "ASSIGNED", to |-> m]
<1>1. Exists(i) /\ inc' = [inc EXCEPT ![i] = x] /\ Writes(i, x, e)
  BY DEF Assign, Locked, Log, Writes
<1>2. inc[i] \in Incident /\ timeline[i] \in Seq(Event) /\ Replays(inc[i], timeline[i])
  BY <1>1, ExistingRow
<1>3. /\ x \in Incident /\ x.status = inc[i].status /\ x.resolution = inc[i].resolution
      /\ x.assigned = m /\ x.acknowledged = inc[i].acknowledged
      /\ x.rule = inc[i].rule /\ x.job = inc[i].job
  BY <1>2 DEF Incident
<1>4. e \in Event /\ e.type = "ASSIGNED" /\ e.to = m /\ e.type \notin StatusEvents
  BY DEF Event, EventTypes, StatusEvents
<1>5. x.status \in Active /\ x.rule # NoRule => Rivals(x.rule, x.job) \subseteq {i}
  BY <1>1, <1>3, StaysAlone DEF Recorded, IsActive
<1> HIDE DEF x, e
<1>6. Replays(x, Append(timeline[i], e))
  BY <1>2, <1>3, <1>4, StatusAfter, AssigneeAfter, AcknowledgementAfter DEF Replays
<1> QED
  BY <1>1, <1>3, <1>4, <1>5, <1>6, RowWritten DEF RulesKept, Exists

LEMMA AcknowledgeWrites ==
  ASSUME RowsTyped, Recorded, NEW i \in Incidents, Acknowledge(i)
  PROVE  RowsTyped' /\ Recorded' /\ RulesKept
<1> DEFINE x == [inc[i] EXCEPT !.status = "ACKNOWLEDGED", !.acknowledged = TRUE]
           e == [type |-> "ACKNOWLEDGED", to |-> NoOne]
<1>1. Exists(i) /\ inc[i].status = "OPEN" /\ timeline' = [timeline EXCEPT ![i] = Append(@, e)]
  BY DEF Acknowledge, Locked, Log
<1>2. /\ inc[i] \in Incident /\ timeline[i] \in Seq(Event) /\ Replays(inc[i], timeline[i])
      /\ inc[i].resolution = "none" /\ IsActive(i)
  BY <1>1, ExistingRow DEF Active, IsActive
<1>3. /\ x \in Incident /\ x.status = "ACKNOWLEDGED" /\ x.resolution = inc[i].resolution
      /\ x.assigned = inc[i].assigned /\ x.acknowledged = TRUE
      /\ x.rule = inc[i].rule /\ x.job = inc[i].job
  BY <1>2 DEF Incident, Statuses
<1>4. Writes(i, x, e)
  BY <1>1, <1>2 DEF Acknowledge, Writes, RowsTyped, Incident
<1>5. e \in Event /\ e.type = "ACKNOWLEDGED" /\ e.type \in StatusEvents
  BY DEF Event, EventTypes, StatusEvents
<1>6. x.status \in Active /\ x.rule # NoRule => Rivals(x.rule, x.job) \subseteq {i}
  BY <1>2, <1>3, StaysAlone DEF Recorded
<1> HIDE DEF x, e
<1>7. Replays(x, Append(timeline[i], e))
  BY <1>2, <1>3, <1>5, AfterKinds, StatusAfter, AssigneeAfter, AcknowledgementAfter DEF Replays
<1> QED
  BY <1>1, <1>3, <1>4, <1>5, <1>6, <1>7, RowWritten DEF RulesKept, Exists

(* by a person or by an evaluation *)
LEMMA ResolutionWrites ==
  ASSUME RowsTyped, Recorded, NEW i \in Incidents, Exists(i), NEW r, NEW type,
         \/ r = "MANUAL" /\ type = "MANUALLY_RESOLVED"
         \/ r = "AUTOMATIC" /\ type = "AUTO_RESOLVED",
         inc' = [inc EXCEPT ![i].status = "RESOLVED", ![i].resolution = r],
         Log(i, type, NoOne)
  PROVE  RowsTyped' /\ Recorded' /\ RulesKept
<1> DEFINE x == [inc[i] EXCEPT !.status = "RESOLVED", !.resolution = r]
           e == [type |-> type, to |-> NoOne]
<1>1. inc[i] \in Incident /\ timeline[i] \in Seq(Event) /\ Replays(inc[i], timeline[i])
  BY ExistingRow
<1>2. /\ x \in Incident /\ x.status = "RESOLVED" /\ x.resolution = r
      /\ x.assigned = inc[i].assigned /\ x.acknowledged = inc[i].acknowledged
      /\ x.rule = inc[i].rule
  BY <1>1 DEF Incident, Statuses, Resolutions
<1>3. Writes(i, x, e)
  BY <1>1 DEF Log, Writes, RowsTyped, Incident
<1>4. /\ e \in Event /\ e.type = type /\ e.type \in StatusEvents
      /\ e.type \notin {"ASSIGNED", "ACKNOWLEDGED", "REOPENED"}
  BY DEF Event, EventTypes, StatusEvents
<1>5. x.status \notin Active
  BY <1>2 DEF Active
<1> HIDE DEF x, e
<1>6. After(e.type) = [status |-> x.status, resolution |-> x.resolution]
  BY <1>2, <1>4, AfterKinds
<1>7. Replays(x, Append(timeline[i], e))
  BY <1>1, <1>2, <1>4, <1>6, StatusAfter, AssigneeAfter, AcknowledgementAfter DEF Replays
<1> QED
  BY <1>2, <1>3, <1>4, <1>5, <1>7, RowWritten DEF RulesKept, Exists

LEMMA ReopenWrites ==
  ASSUME RowsTyped, Recorded, NEW i \in Incidents, Reopen(i)
  PROVE  RowsTyped' /\ Recorded' /\ RulesKept
<1> DEFINE x == [inc[i] EXCEPT !.status = "OPEN", !.resolution = "none", !.acknowledged = FALSE]
           e == [type |-> "REOPENED", to |-> NoOne]
<1>1. /\ Exists(i) /\ Rivals(inc[i].rule, inc[i].job) = {}
      /\ timeline' = [timeline EXCEPT ![i] = Append(@, e)]
  BY DEF Reopen, Locked, Log
<1>2. inc[i] \in Incident /\ timeline[i] \in Seq(Event) /\ Replays(inc[i], timeline[i])
  BY <1>1, ExistingRow
<1>3. /\ x \in Incident /\ x.status = "OPEN" /\ x.resolution = "none"
      /\ x.assigned = inc[i].assigned /\ x.acknowledged = FALSE
      /\ x.rule = inc[i].rule /\ x.job = inc[i].job
  BY <1>2 DEF Incident, Statuses, Resolutions
<1>4. Writes(i, x, e)
  BY <1>1, <1>2 DEF Reopen, Writes, RowsTyped, Incident
<1>5. e \in Event /\ e.type = "REOPENED" /\ e.type \in StatusEvents
  BY DEF Event, EventTypes, StatusEvents
<1> HIDE DEF x, e
<1>6. Replays(x, Append(timeline[i], e))
  BY <1>2, <1>3, <1>5, AfterKinds, StatusAfter, AssigneeAfter, AcknowledgementAfter DEF Replays
<1> QED
  BY <1>1, <1>3, <1>4, <1>5, <1>6, RowWritten DEF RulesKept, Exists

LEMMA NoteWrites ==
  ASSUME RowsTyped, Recorded, NEW i \in Incidents, AddNote(i)
  PROVE  RowsTyped' /\ Recorded' /\ RulesKept
<1> DEFINE x == inc[i]
           e == [type |-> "NOTE_ADDED", to |-> NoOne]
<1>1. Exists(i) /\ Writes(i, x, e)
  BY DEF AddNote, Locked, Log, Writes, RowsTyped
<1>2. x \in Incident /\ timeline[i] \in Seq(Event) /\ Replays(x, timeline[i])
  BY <1>1, ExistingRow
<1>3. /\ e \in Event /\ e.type \notin StatusEvents
      /\ e.type \notin {"ASSIGNED", "ACKNOWLEDGED", "REOPENED"}
  BY DEF Event, EventTypes, StatusEvents
<1>4. x.status \in Active /\ x.rule # NoRule => Rivals(x.rule, x.job) \subseteq {i}
  BY <1>1, StaysAlone DEF Recorded, IsActive
<1>5. Exists(i) /\ x.rule = inc[i].rule
  BY <1>1
<1> HIDE DEF x, e
<1>6. Replays(x, Append(timeline[i], e))
  BY <1>2, <1>3, StatusAfter, AssigneeAfter, AcknowledgementAfter DEF Replays
<1> QED
  BY <1>1, <1>2, <1>3, <1>4, <1>5, <1>6, RowWritten DEF RulesKept, Exists

LEMMA OperateWrites ==
  ASSUME RowsTyped, Recorded, NEW i \in Incidents, Operate(i)
  PROVE  /\ RowsTyped' /\ Recorded' /\ RulesKept
         /\ UNCHANGED <<rule, telemetry, holder, task, edit>>
<1>1. CASE Resolve(i)
  <2>1. Exists(i) /\ UNCHANGED <<rule, telemetry, holder, task, edit>>
    BY <1>1 DEF Resolve, Locked
  <2> QED
    BY <1>1, <2>1, ResolutionWrites DEF Resolve
<1>2. CASE Acknowledge(i)
  BY <1>2, AcknowledgeWrites DEF Acknowledge, Locked
<1>3. CASE Reopen(i)
  BY <1>3, ReopenWrites DEF Reopen, Locked
<1>4. CASE AddNote(i)
  BY <1>4, NoteWrites DEF AddNote, Locked
<1>5. ASSUME NEW m \in Members \cup {NoOne}, Assign(i, m)
      PROVE  /\ RowsTyped' /\ Recorded' /\ RulesKept
             /\ UNCHANGED <<rule, telemetry, holder, task, edit>>
  BY <1>5, AssignWrites DEF Assign, Locked
<1> QED
  BY <1>1, <1>2, <1>3, <1>4, <1>5 DEF Operate

(* Raising an incident: the only way a row appears. *)
LEMMA CreationWrites ==
  ASSUME RowsTyped, Recorded, NEW i \in Incidents, ~Exists(i),
         NEW rl \in Rules, NEW j \in Jobs, Rivals(rl, j) = {},
         inc' = [inc EXCEPT ![i] = [job |-> j, rule |-> rl, status |-> "OPEN",
                    acknowledged |-> FALSE, resolution |-> "none", assigned |-> NoOne]],
         Log(i, "CREATED", NoOne)
  PROVE  /\ RowsTyped' /\ Recorded'
         /\ \A k \in Incidents : IF k = i THEN Exists(k)' /\ inc'[k].rule = rl ELSE inc'[k] = inc[k]
<1> DEFINE x == [job |-> j, rule |-> rl, status |-> "OPEN", acknowledged |-> FALSE,
                 resolution |-> "none", assigned |-> NoOne]
           e == [type |-> "CREATED", to |-> NoOne]
<1>1. Writes(i, x, e)
  BY DEF Log, Writes
<1>2. timeline[i] = <<>> /\ <<>> \in Seq(Event)
  BY DEF Recorded, NothingLogged
<1>3. /\ x \in Incident /\ x.status = "OPEN" /\ x.resolution = "none" /\ x.rule = rl /\ x.job = j
      /\ x.assigned = NoOne /\ x.acknowledged = FALSE
  BY DEF Incident, Statuses, Resolutions
<1>4. /\ e \in Event /\ e.type = "CREATED" /\ e.type \in StatusEvents
      /\ e.type \notin {"ASSIGNED", "ACKNOWLEDGED", "REOPENED"}
  BY DEF Event, EventTypes, StatusEvents
<1> HIDE DEF x, e
<1>5. AssigneeReplays(x, <<>>) /\ AcknowledgementReplays(x, <<>>)
  BY <1>3 DEF AssigneeReplays, AcknowledgementReplays
<1>6. Replays(x, Append(timeline[i], e))
  BY <1>2, <1>3, <1>4, <1>5, AfterKinds, StatusAfter, AssigneeAfter, AcknowledgementAfter DEF Replays
<1> QED
  BY <1>1, <1>3, <1>4, <1>6, RowWritten

(* Deleting a rule: the only way a row changes its rule. *)
LEMMA DetachmentWrites ==
  ASSUME RowsTyped, Recorded, NEW D, \A i \in Incidents \cap D : Exists(i),
         inc' = [i \in Incidents |-> IF i \in D THEN [inc[i] EXCEPT !.rule = NoRule] ELSE inc[i]],
         UNCHANGED timeline
  PROVE  /\ RowsTyped' /\ Recorded'
         /\ \A k \in Incidents : /\ Exists(k)' <=> Exists(k)
                                 /\ Exists(k) => inc'[k].rule = IF k \in D THEN NoRule ELSE inc[k].rule
<1> USE RowAssumption
<1>1. \A k \in Incidents :
        /\ inc'[k] \in Incident \cup {NoIncident}
        /\ inc'[k] # NoIncident <=> inc[k] # NoIncident
        /\ inc[k] # NoIncident =>
             /\ inc'[k].status = inc[k].status /\ inc'[k].resolution = inc[k].resolution
             /\ inc'[k].assigned = inc[k].assigned /\ inc'[k].acknowledged = inc[k].acknowledged
             /\ inc'[k].job = inc[k].job
             /\ inc'[k].rule = IF k \in D THEN NoRule ELSE inc[k].rule
  <2> SUFFICES ASSUME NEW k \in Incidents
               PROVE  /\ inc'[k] \in Incident \cup {NoIncident}
                      /\ inc'[k] # NoIncident <=> inc[k] # NoIncident
                      /\ inc[k] # NoIncident =>
                           /\ inc'[k].status = inc[k].status /\ inc'[k].resolution = inc[k].resolution
                           /\ inc'[k].assigned = inc[k].assigned
                           /\ inc'[k].acknowledged = inc[k].acknowledged
                           /\ inc'[k].job = inc[k].job
                           /\ inc'[k].rule = IF k \in D THEN NoRule ELSE inc[k].rule
    OBVIOUS
  <2>1. CASE k \in D
    <3>1. inc[k] \in Incident /\ inc[k] # NoIncident /\ inc'[k] = [inc[k] EXCEPT !.rule = NoRule]
      BY <2>1 DEF RowsTyped, Exists
    <3>2. [inc[k] EXCEPT !.rule = NoRule] \in Incident
      BY <3>1 DEF Incident
    <3> QED
      BY <2>1, <3>1, <3>2 DEF Incident
  <2>2. CASE k \notin D
    BY <2>2 DEF RowsTyped
  <2> QED
    BY <2>1, <2>2
<1>2. RowsTyped'
  BY <1>1 DEF RowsTyped
<1>3. OneActivePerScope'
  BY <1>1 DEF Recorded, OneActivePerScope, IsActive, Exists
<1>4. TimelineReplays'
  <2>1. \A k \in Incidents : Exists(k)' => Exists(k) /\ Replays(inc'[k], timeline[k])
    BY <1>1, ReplaysIsTimelineReplays
       DEF Recorded, Replays, StatusReplays, AssigneeReplays, AcknowledgementReplays, Exists
  <2> QED
    BY <2>1 DEF TimelineReplays, Replays, StatusReplays, AssigneeReplays, AcknowledgementReplays,
                IsLast, LastIn, Exists
<1>5. NothingLogged'
  BY <1>1 DEF Recorded, NothingLogged, Exists
<1> QED
  BY <1>1, <1>2, <1>3, <1>4, <1>5 DEF Recorded, Exists

-----------------------------------------------------------------------------
(* The steps, and what each does to the rows: they stay typed and recorded, none
   disappears, and none refers to a rule that is gone. *)
ControlTyped ==
  /\ rule \in [Rules -> RuleRow]
  /\ telemetry \in [Jobs -> Readings]
  /\ holder \in [Incidents \cup Rules -> Actors \cup {NoOne}]
  /\ task \in [Workers -> [pc: {"idle", "measured", "locked"}, rule: Rules \cup {NoRule},
                           breach: BOOLEAN, found: SUBSET Incidents]]
  /\ edit \in [Users -> [pc: {"idle", "patch", "delete"}, rule: Rules \cup {NoRule},
                         seen: SUBSET RuleRow, detached: SUBSET Incidents]]

LEMMA TypesSplit == /\ TypeOK <=> RowsTyped /\ ControlTyped
                    /\ TypeOK' <=> RowsTyped' /\ ControlTyped'
BY DEF TypeOK, RowsTyped, ControlTyped

WorkerStep(w) == Evaluate(w) \/ AbortTask(w) \/ \E rl \in Rules : Measure(w, rl)
UserStep(u) == \/ PatchWrite(u) \/ Delete(u) \/ AbortEdit(u)
               \/ \E rl \in Rules : PatchRead(u, rl) \/ Detach(u, rl)

RowsFine == /\ RowsTyped' /\ Recorded' /\ NoDanglingRule'
            /\ \A k \in Incidents : Exists(k) => Exists(k)'

LEMMA RowsUntouched ==
  ASSUME IInv, UNCHANGED <<rule, inc, timeline>>
  PROVE  RowsFine
<1>1. RowsTyped /\ Recorded /\ NoDanglingRule
  BY TypesSplit DEF IInv
<1>2. RowsTyped' /\ NoDanglingRule' /\ \A k \in Incidents : Exists(k) => Exists(k)'
  BY <1>1 DEF RowsTyped, NoDanglingRule, Exists
<1>3. Recorded'
  BY <1>1 DEF Recorded, OneActivePerScope, TimelineReplays, NothingLogged, IsActive, IsLast, Exists
<1> QED
  BY <1>2, <1>3 DEF RowsFine

LEMMA RulesUntouched ==
  ASSUME IInv, RowsTyped', Recorded', RulesKept, UNCHANGED rule
  PROVE  RowsFine
BY DEF IInv, RowsFine, RulesKept, NoDanglingRule, Exists

LEMMA RaiseRows ==
  ASSUME IInv, NEW w \in Workers, Raise(w)
  PROVE  RowsFine
<1> DEFINE rl == task[w].rule
           j == rule[rl].job
<1>1. RowsTyped /\ ControlTyped /\ Recorded
  BY TypesSplit DEF IInv
<1>2. rl \in Rules /\ rule[rl].exists
  BY DEF Raise, IInv, TasksHold
<1>3. j \in Jobs
  BY <1>1, <1>2 DEF ControlTyped, RuleRow
<1>4. CASE Rivals(rl, j) = {}
  <2>1. PICK i \in Incidents :
          /\ Unused(i)
          /\ inc' = [inc EXCEPT ![i] = [job |-> j, rule |-> rl, status |-> "OPEN",
                       acknowledged |-> FALSE, resolution |-> "none", assigned |-> NoOne]]
          /\ Log(i, "CREATED", NoOne)
    BY <1>4 DEF Raise
  <2>2. ~Exists(i) /\ UNCHANGED rule
    BY <2>1 DEF Unused, Raise
  <2> HIDE DEF rl, j
  <2>3. /\ RowsTyped' /\ Recorded'
        /\ \A k \in Incidents : IF k = i THEN Exists(k)' /\ inc'[k].rule = rl ELSE inc'[k] = inc[k]
    BY <1>1, <1>2, <1>3, <1>4, <2>1, <2>2, CreationWrites
  <2>4. NoDanglingRule'
    BY <1>2, <2>2, <2>3 DEF IInv, NoDanglingRule, Exists
  <2> QED
    BY <2>2, <2>3, <2>4 DEF RowsFine, Exists
<1>5. CASE Rivals(rl, j) # {}
  BY <1>5, RowsUntouched DEF Raise
<1> QED
  BY <1>4, <1>5

LEMMA AutoResolveRows ==
  ASSUME IInv, NEW w \in Workers, AutoResolve(w)
  PROVE  RowsFine
<1>1. RowsTyped /\ ControlTyped /\ Recorded
  BY TypesSplit DEF IInv
<1>2. PICK i \in task[w].found :
        IF IsActive(i)
        THEN /\ inc' = [inc EXCEPT ![i].status = "RESOLVED", ![i].resolution = "AUTOMATIC"]
             /\ Log(i, "AUTO_RESOLVED", NoOne)
        ELSE UNCHANGED <<inc, timeline>>
  BY DEF AutoResolve
<1>3. i \in Incidents /\ UNCHANGED rule
  BY <1>1 DEF ControlTyped, AutoResolve
<1>4. CASE IsActive(i)
  <2>1. RowsTyped' /\ Recorded' /\ RulesKept
    BY <1>1, <1>2, <1>3, <1>4, ResolutionWrites DEF IsActive
  <2> QED
    BY <1>3, <2>1, RulesUntouched
<1>5. CASE ~IsActive(i)
  BY <1>2, <1>3, <1>5, RowsUntouched
<1> QED
  BY <1>4, <1>5

LEMMA DeleteRows ==
  ASSUME IInv, NEW u \in Users, Delete(u)
  PROVE  RowsFine
<1> DEFINE rl == edit[u].rule
           D == edit[u].detached
<1>1. RowsTyped /\ ControlTyped /\ Recorded
  BY TypesSplit DEF IInv
<1>2. CASE Referencing(rl) \subseteq D
  <2>1. /\ rule' = [rule EXCEPT ![rl].exists = FALSE]
        /\ inc' = [i \in Incidents |-> IF i \in D THEN [inc[i] EXCEPT !.rule = NoRule] ELSE inc[i]]
        /\ UNCHANGED timeline
    BY <1>2 DEF Delete
  <2>2. \A i \in Incidents \cap D : Exists(i)
    BY DEF IInv, EditsKnow
  <2> HIDE DEF rl, D
  <2>3. /\ RowsTyped' /\ Recorded'
        /\ \A k \in Incidents : /\ Exists(k)' <=> Exists(k)
                                /\ Exists(k) => inc'[k].rule = IF k \in D THEN NoRule ELSE inc[k].rule
    BY <1>1, <2>1, <2>2, DetachmentWrites
  <2>4. NoDanglingRule'
    <3> SUFFICES ASSUME NEW k \in Incidents, Exists(k)', inc'[k].rule # NoRule
                 PROVE  rule'[inc'[k].rule].exists
      BY DEF NoDanglingRule
    <3>1. Exists(k) /\ k \notin D /\ inc'[k].rule = inc[k].rule
      BY <2>3
    <3>2. inc[k].rule # rl
      BY <1>2, <3>1 DEF Referencing
    <3>3. inc[k].rule \in Rules /\ rule[inc[k].rule].exists
      BY <1>1, <3>1 DEF IInv, NoDanglingRule, RowsTyped, Incident, Exists
    <3> QED
      BY <1>1, <2>1, <3>1, <3>2, <3>3 DEF ControlTyped, RuleRow
  <2> QED
    BY <2>3, <2>4 DEF RowsFine
<1>3. CASE ~(Referencing(rl) \subseteq D)
  BY <1>3, RowsUntouched DEF Delete
<1> QED
  BY <1>2, <1>3

LEMMA PatchWriteRows ==
  ASSUME IInv, NEW u \in Users, PatchWrite(u)
  PROVE  RowsFine
<1>1. RowsTyped /\ ControlTyped /\ Recorded
  BY TypesSplit DEF IInv
<1>2. PICK a \in BOOLEAN, j \in Jobs :
        rule' = [rule EXCEPT ![edit[u].rule] = [exists |-> TRUE, active |-> a, job |-> j]]
  BY DEF PatchWrite
<1>3. UNCHANGED <<inc, timeline>>
  BY DEF PatchWrite
<1>4. RowsTyped' /\ Recorded' /\ \A k \in Incidents : Exists(k)' <=> Exists(k)
  BY <1>1, <1>3 DEF RowsTyped, Recorded, OneActivePerScope, TimelineReplays, NothingLogged, IsActive, IsLast,
                    Exists
<1>5. NoDanglingRule'
  <2> SUFFICES ASSUME NEW k \in Incidents, Exists(k), inc[k].rule # NoRule
               PROVE  rule'[inc[k].rule].exists
    BY <1>3, <1>4 DEF NoDanglingRule
  <2>1. inc[k].rule \in Rules /\ rule[inc[k].rule].exists
    BY <1>1 DEF IInv, NoDanglingRule, RowsTyped, Incident, Exists
  <2> QED
    BY <1>1, <1>2, <2>1 DEF ControlTyped
<1> QED
  BY <1>4, <1>5 DEF RowsFine

LEMMA RowsStep ==
  ASSUME IInv, Next
  PROVE  RowsFine
<1>1. ASSUME NEW i \in Incidents, Operate(i)
      PROVE  RowsFine
  <2>1. RowsTyped /\ Recorded
    BY TypesSplit DEF IInv
  <2> QED
    BY <1>1, <2>1, OperateWrites, RulesUntouched
<1>2. ASSUME NEW w \in Workers, WorkerStep(w)
      PROVE  RowsFine
  <2>1. CASE Raise(w)
    BY <2>1, RaiseRows
  <2>2. CASE AutoResolve(w)
    BY <2>2, AutoResolveRows
  <2>3. CASE \/ LockRule(w) \/ RuleGone(w) \/ Refresh(w) \/ NothingToDo(w) \/ AbortTask(w)
             \/ \E rl \in Rules : Measure(w, rl)
    BY <2>3, RowsUntouched DEF LockRule, RuleGone, Refresh, NothingToDo, AbortTask, Measure
  <2> QED
    BY <1>2, <2>1, <2>2, <2>3 DEF WorkerStep, Evaluate
<1>3. ASSUME NEW u \in Users, UserStep(u)
      PROVE  RowsFine
  <2>1. CASE AbortEdit(u) \/ \E rl \in Rules : PatchRead(u, rl) \/ Detach(u, rl)
    BY <2>1, RowsUntouched DEF AbortEdit, PatchRead, Detach
  <2> QED
    BY <1>3, <2>1, DeleteRows, PatchWriteRows DEF UserStep
<1>4. ASSUME NEW j \in Jobs, NEW v \in Readings, Observe(j, v)
      PROVE  RowsFine
  BY <1>4, RowsUntouched DEF Observe
<1> QED
  BY <1>1, <1>2, <1>3, <1>4 DEF Next, WorkerStep, UserStep, EditStep

-----------------------------------------------------------------------------
(* The steps, and what each does to locks, tasks and requests. *)
TasksTyped == [pc: {"idle", "measured", "locked"}, rule: Rules \cup {NoRule},
               breach: BOOLEAN, found: SUBSET Incidents]
EditsTyped == [pc: {"idle", "patch", "delete"}, rule: Rules \cup {NoRule},
               seen: SUBSET RuleRow, detached: SUBSET Incidents]
LocksTyped == [Incidents \cup Rules -> Actors \cup {NoOne}]

LEMMA IdleTyped == IdleTask \in TasksTyped /\ IdleEdit \in EditsTyped
BY DEF IdleTask, IdleEdit, TasksTyped, EditsTyped

LEMMA ReleaseTyped ==
  ASSUME holder \in LocksTyped, NEW a
  PROVE  /\ Release(a) \in LocksTyped
         /\ \A k \in Incidents \cup Rules : Release(a)[k] = IF holder[k] = a THEN NoOne ELSE holder[k]
BY DEF LocksTyped, Release

LEMMA WorkerControl ==
  ASSUME ControlTyped, NEW w \in Workers, WorkerStep(w)
  PROVE  ControlTyped'
<1> USE DEF ControlTyped
<1>1. holder \in LocksTyped /\ task \in [Workers -> TasksTyped]
  BY DEF LocksTyped, TasksTyped
<1>2. CASE LockRule(w)
  <2>1. Rivals(task[w].rule, rule[task[w].rule].job) \in SUBSET Incidents
    BY DEF Rivals
  <2>2. holder' \in LocksTyped
    BY <1>1, <1>2 DEF LockRule, LocksTyped, Actors
  <2>3. task' = [task EXCEPT ![w].pc = "locked",
                             ![w].found = Rivals(task[w].rule, rule[task[w].rule].job)]
    BY <1>2 DEF LockRule
  <2>4. task' \in [Workers -> TasksTyped]
    <3>1. ASSUME NEW t \in TasksTyped, NEW F \in SUBSET Incidents
          PROVE  [t EXCEPT !.pc = "locked", !.found = F] \in TasksTyped
      BY DEF TasksTyped
    <3>2. task' = [task EXCEPT ![w] = [task[w] EXCEPT !.pc = "locked",
                                         !.found = Rivals(task[w].rule, rule[task[w].rule].job)]]
      BY <1>1, <2>3 DEF TasksTyped
    <3> QED
      BY <1>1, <2>1, <3>1, <3>2
  <2> QED
    BY <1>2, <2>2, <2>4 DEF LockRule, LocksTyped, TasksTyped
<1>3. ASSUME NEW rl \in Rules, Measure(w, rl)
      PROVE  ControlTyped'
  <2>1. [IdleTask EXCEPT !.pc = "measured", !.rule = rl,
                         !.breach = telemetry[rule[rl].job] = "breach"] \in TasksTyped
    BY DEF IdleTask, TasksTyped
  <2> QED
    BY <1>1, <1>3, <2>1 DEF Measure, TasksTyped
<1>4. CASE RuleGone(w) \/ Raise(w) \/ Refresh(w) \/ AutoResolve(w) \/ NothingToDo(w) \/ AbortTask(w)
  <2>1. task' \in [Workers -> TasksTyped]
    BY <1>1, <1>4, IdleTyped DEF EndTask, RuleGone, Raise, Refresh, AutoResolve, NothingToDo, AbortTask
  <2>2. holder' \in LocksTyped
    BY <1>1, <1>4, ReleaseTyped DEF RuleGone, Raise, Refresh, AutoResolve, NothingToDo, AbortTask
  <2>3. UNCHANGED <<rule, telemetry, edit>>
    BY <1>4 DEF RuleGone, Raise, Refresh, AutoResolve, NothingToDo, AbortTask
  <2> QED
    BY <2>1, <2>2, <2>3 DEF TasksTyped, LocksTyped
<1> QED
  BY <1>2, <1>3, <1>4 DEF WorkerStep, Evaluate

LEMMA UserControl ==
  ASSUME ControlTyped, NEW u \in Users, UserStep(u)
  PROVE  ControlTyped'
<1> USE DEF ControlTyped
<1>1. holder \in LocksTyped /\ edit \in [Users -> EditsTyped]
  BY DEF LocksTyped, EditsTyped
<1>2. CASE PatchWrite(u)
  <2>1. rule' \in [Rules -> RuleRow]
    <3>1. PICK a \in BOOLEAN, j \in Jobs :
            rule' = [rule EXCEPT ![edit[u].rule] = [exists |-> TRUE, active |-> a, job |-> j]]
      BY <1>2 DEF PatchWrite
    <3>2. [exists |-> TRUE, active |-> a, job |-> j] \in RuleRow
      BY DEF RuleRow
    <3> QED
      BY <3>1, <3>2
  <2>2. edit' \in [Users -> EditsTyped]
    BY <1>1, <1>2, IdleTyped DEF PatchWrite
  <2> QED
    BY <1>2, <2>1, <2>2 DEF PatchWrite, EditsTyped
<1>3. CASE Delete(u)
  <2>1. rule' \in [Rules -> RuleRow]
    <3>1. \A r \in RuleRow : [r EXCEPT !.exists = FALSE] \in RuleRow
      BY DEF RuleRow
    <3>2. \/ rule' = [rule EXCEPT ![edit[u].rule].exists = FALSE]
          \/ rule' = rule
      BY <1>3 DEF Delete
    <3> QED
      BY <3>1, <3>2
  <2>2. edit' \in [Users -> EditsTyped] /\ holder' \in LocksTyped
    BY <1>1, <1>3, IdleTyped, ReleaseTyped DEF Delete
  <2> QED
    BY <1>3, <2>1, <2>2 DEF Delete, EditsTyped, LocksTyped
<1>4. CASE AbortEdit(u)
  <2>1. edit' \in [Users -> EditsTyped] /\ holder' \in LocksTyped
    BY <1>1, <1>4, IdleTyped, ReleaseTyped DEF AbortEdit
  <2> QED
    BY <1>4, <2>1 DEF AbortEdit, EditsTyped, LocksTyped
<1>5. ASSUME NEW rl \in Rules, PatchRead(u, rl)
      PROVE  ControlTyped'
  <2>1. [IdleEdit EXCEPT !.pc = "patch", !.rule = rl, !.seen = {rule[rl]}] \in EditsTyped
    <3>1. {rule[rl]} \in SUBSET RuleRow
      OBVIOUS
    <3> QED
      BY <3>1 DEF IdleEdit, EditsTyped
  <2> QED
    BY <1>1, <1>5, <2>1 DEF PatchRead, EditsTyped
<1>6. ASSUME NEW rl \in Rules, Detach(u, rl)
      PROVE  ControlTyped'
  <2> DEFINE mine == {i \in Incidents : Exists(i) /\ inc[i].rule = rl}
             req == [IdleEdit EXCEPT !.pc = "delete", !.rule = rl, !.detached = mine]
  <2>1. req \in EditsTyped
    BY DEF IdleEdit, EditsTyped
  <2>2. /\ holder' = [k \in DOMAIN holder |-> IF k \in mine THEN u ELSE holder[k]]
        /\ edit' = [edit EXCEPT ![u] = req]
        /\ UNCHANGED <<rule, telemetry, task>>
    BY <1>6 DEF Detach
  <2> HIDE DEF mine, req
  <2>3. holder' \in LocksTyped /\ edit' \in [Users -> EditsTyped]
    BY <1>1, <2>1, <2>2 DEF LocksTyped, Actors
  <2> QED
    BY <2>2, <2>3 DEF EditsTyped, LocksTyped
<1> QED
  BY <1>2, <1>3, <1>4, <1>5, <1>6 DEF UserStep

-----------------------------------------------------------------------------
(* A worker or user changes only locks that are free or its own, and only
   workers tasks. *)
LocksRespected(a) ==
  \A k \in Incidents \cup Rules : holder[k] \notin {a, NoOne} => holder'[k] = holder[k]

TaskHolds(w) == /\ task[w].pc # "idle" => task[w].rule \in Rules
                /\ task[w].pc = "locked" => holder[task[w].rule] = w /\ rule[task[w].rule].exists

LEMMA OthersHold ==
  ASSUME ControlTyped, TasksHold, NEW a \in Actors, LocksRespected(a),
         NEW w \in Workers, w # a, task'[w] = task[w],
         \A rl \in Rules : holder[rl] \notin {a, NoOne} /\ rule[rl].exists => rule'[rl].exists
  PROVE  TaskHolds(w)'
<1>1. TaskHolds(w)
  BY DEF TasksHold, TaskHolds
<1>2. CASE task[w].pc = "locked"
  <2>1. task[w].rule \in Rules /\ holder[task[w].rule] = w /\ rule[task[w].rule].exists
    BY <1>1, <1>2 DEF TaskHolds
  <2>2. w \notin {a, NoOne}
    BY IncidentAssumption
  <2>3. holder'[task[w].rule] = w /\ rule'[task[w].rule].exists
    BY <2>1, <2>2 DEF LocksRespected
  <2> QED
    BY <2>1, <2>3 DEF TaskHolds
<1>3. CASE task[w].pc # "locked"
  BY <1>1, <1>3 DEF TaskHolds
<1> QED
  BY <1>2, <1>3

LEMMA WorkerHolds ==
  ASSUME ControlTyped, TasksHold, NEW w \in Workers, WorkerStep(w)
  PROVE  TasksHold'
<1> USE DEF ControlTyped
<1>1. /\ holder \in LocksTyped /\ task \in [Workers -> TasksTyped]
      /\ w \in Actors
  BY DEF LocksTyped, TasksTyped, Actors
<1>2. UNCHANGED rule
  BY DEF WorkerStep, Evaluate, LockRule, RuleGone, Raise, Refresh, AutoResolve, NothingToDo, AbortTask,
         Measure
<1>3. LocksRespected(w) /\ (\A v \in Workers \ {w} : task'[v] = task[v]) /\ TaskHolds(w)'
  <2>1. CASE LockRule(w)
    <3> DEFINE rl == task[w].rule
    <3>1. /\ holder[rl] = NoOne /\ rule[rl].exists /\ rl \in Rules
          /\ holder' = [holder EXCEPT ![rl] = w]
          /\ task' = [task EXCEPT ![w].pc = "locked", ![w].found = Rivals(rl, rule[rl].job)]
      BY <2>1 DEF LockRule, TasksHold
    <3>2. task'[w].rule = rl /\ \A v \in Workers \ {w} : task'[v] = task[v]
      BY <1>1, <3>1 DEF TasksTyped
    <3>3. holder'[rl] = w /\ LocksRespected(w)
      BY <1>1, <3>1 DEF LocksRespected, LocksTyped
    <3> QED
      BY <1>2, <3>1, <3>2, <3>3 DEF TaskHolds
  <2>2. ASSUME NEW rl \in Rules, Measure(w, rl)
        PROVE  LocksRespected(w) /\ (\A v \in Workers \ {w} : task'[v] = task[v]) /\ TaskHolds(w)'
    BY <1>1, <2>2 DEF Measure, IdleTask, LocksRespected, TaskHolds
  <2>3. CASE RuleGone(w) \/ Raise(w) \/ Refresh(w) \/ AutoResolve(w) \/ NothingToDo(w) \/ AbortTask(w)
    <3>1. EndTask(w)
      BY <2>3 DEF RuleGone, Raise, Refresh, AutoResolve, NothingToDo, AbortTask
    <3>2. holder' = Release(w) \/ holder' = holder
      BY <2>3 DEF RuleGone, Raise, Refresh, AutoResolve, NothingToDo, AbortTask
    <3>3. LocksRespected(w)
      BY <1>1, <3>2, ReleaseTyped DEF LocksRespected
    <3> QED
      BY <1>1, <3>1, <3>3 DEF EndTask, IdleTask, TaskHolds
  <2> QED
    BY <2>1, <2>2, <2>3 DEF WorkerStep, Evaluate
<1>4. \A v \in Workers \ {w} : TaskHolds(v)'
  BY <1>1, <1>2, <1>3, OthersHold
<1> QED
  BY <1>3, <1>4 DEF TasksHold, TaskHolds

LEMMA UserHolds ==
  ASSUME ControlTyped, TasksHold, NEW u \in Users, UserStep(u)
  PROVE  TasksHold'
<1> USE DEF ControlTyped
<1>1. holder \in LocksTyped /\ u \in Actors /\ u \notin Workers /\ UNCHANGED task
  BY IncidentAssumption DEF LocksTyped, Actors, UserStep, PatchWrite, Delete, AbortEdit, PatchRead, Detach
<1>2. /\ LocksRespected(u)
      /\ \A rl \in Rules : holder[rl] \notin {u, NoOne} /\ rule[rl].exists => rule'[rl].exists
  <2>1. CASE PatchWrite(u)
    <3>1. PICK a \in BOOLEAN, j \in Jobs :
            rule' = [rule EXCEPT ![edit[u].rule] = [exists |-> TRUE, active |-> a, job |-> j]]
      BY <2>1 DEF PatchWrite
    <3>2. \A rl \in Rules : rule[rl].exists => rule'[rl].exists
      BY <3>1
    <3> QED
      BY <2>1, <3>2 DEF PatchWrite, LocksRespected
  <2>2. CASE Delete(u)
    <3>1. holder' = Release(u) /\ holder[edit[u].rule] = NoOne
      BY <2>2 DEF Delete
    <3>2. \A rl \in Rules \ {edit[u].rule} : rule'[rl] = rule[rl]
      BY <2>2 DEF Delete
    <3> QED
      BY <1>1, <3>1, <3>2, ReleaseTyped DEF LocksRespected
  <2>3. CASE AbortEdit(u)
    BY <1>1, <2>3, ReleaseTyped DEF AbortEdit, LocksRespected
  <2>4. ASSUME NEW rl \in Rules, PatchRead(u, rl)
        PROVE  LocksRespected(u) /\ UNCHANGED rule
    BY <2>4 DEF PatchRead, LocksRespected
  <2>5. ASSUME NEW rl \in Rules, Detach(u, rl)
        PROVE  LocksRespected(u) /\ UNCHANGED rule
    <3> DEFINE mine == {i \in Incidents : Exists(i) /\ inc[i].rule = rl}
    <3>1. /\ \A i \in mine : holder[i] = NoOne
          /\ holder' = [k \in DOMAIN holder |-> IF k \in mine THEN u ELSE holder[k]]
          /\ UNCHANGED rule
      BY <2>5 DEF Detach
    <3> HIDE DEF mine
    <3> QED
      BY <1>1, <3>1 DEF LocksRespected, LocksTyped
  <2> QED
    BY <2>1, <2>2, <2>3, <2>4, <2>5 DEF UserStep
<1>3. \A w \in Workers : TaskHolds(w)'
  BY <1>1, <1>2, OthersHold
<1> QED
  BY <1>3 DEF TasksHold, TaskHolds

(* Nobody but a deletion detaches, and what it detaches exists. *)
LEMMA EditsStep ==
  ASSUME ControlTyped, EditsKnow, \A k \in Incidents : Exists(k) => Exists(k)', Next
  PROVE  EditsKnow'
<1>1. \A u \in Users : edit[u].detached \subseteq Incidents /\ edit \in [Users -> EditsTyped]
  BY DEF ControlTyped, EditsTyped
<1>2. ASSUME NEW u \in Users, NEW d \in SUBSET Incidents, \A i \in d : Exists(i), NEW r,
             r.detached = d, edit' = [edit EXCEPT ![u] = r]
      PROVE  EditsKnow'
  BY <1>1, <1>2 DEF EditsKnow
<1>3. ASSUME NEW u \in Users, UserStep(u)
      PROVE  EditsKnow'
  <2>1. CASE PatchWrite(u) \/ Delete(u) \/ AbortEdit(u)
    <3>1. edit' = [edit EXCEPT ![u] = IdleEdit] /\ IdleEdit.detached = {}
      BY <2>1 DEF PatchWrite, Delete, AbortEdit, IdleEdit
    <3> QED
      BY <1>2, <3>1
  <2>2. ASSUME NEW rl \in Rules, PatchRead(u, rl)
        PROVE  EditsKnow'
    <3> DEFINE r == [IdleEdit EXCEPT !.pc = "patch", !.rule = rl, !.seen = {rule[rl]}]
    <3>1. edit' = [edit EXCEPT ![u] = r] /\ r.detached = {}
      BY <2>2 DEF PatchRead, IdleEdit
    <3> HIDE DEF r
    <3> QED
      BY <1>2, <3>1
  <2>3. ASSUME NEW rl \in Rules, Detach(u, rl)
        PROVE  EditsKnow'
    <3> DEFINE d == {i \in Incidents : Exists(i) /\ inc[i].rule = rl}
               r == [IdleEdit EXCEPT !.pc = "delete", !.rule = rl, !.detached = d]
    <3>1. edit' = [edit EXCEPT ![u] = r] /\ r.detached = d /\ d \in SUBSET Incidents
      BY <2>3 DEF Detach, IdleEdit
    <3>2. \A i \in d : Exists(i)
      OBVIOUS
    <3> HIDE DEF d, r
    <3> QED
      BY <1>2, <3>1, <3>2
  <2> QED
    BY <1>3, <2>1, <2>2, <2>3 DEF UserStep
<1>4. CASE UNCHANGED edit
  BY <1>1, <1>4 DEF EditsKnow
<1>5. CASE \/ \E i \in Incidents : Operate(i)
           \/ \E w \in Workers : WorkerStep(w)
           \/ \E j \in Jobs, v \in Readings : Observe(j, v)
  <2>1. UNCHANGED edit
    BY <1>5 DEF Operate, Acknowledge, Resolve, Reopen, AddNote, Assign, Locked, Observe, WorkerStep, Evaluate,
                LockRule, RuleGone, Raise, Refresh, AutoResolve, NothingToDo, AbortTask, Measure
  <2> QED
    BY <1>4, <2>1
<1> QED
  BY <1>3, <1>5 DEF Next, WorkerStep, UserStep, EditStep

-----------------------------------------------------------------------------
LEMMA ControlStep ==
  ASSUME IInv, Next
  PROVE  ControlTyped' /\ TasksHold'
<1>1. ControlTyped /\ TasksHold
  BY TypesSplit DEF IInv
<1>2. CASE \E w \in Workers : WorkerStep(w)
  BY <1>1, <1>2, WorkerControl, WorkerHolds
<1>3. CASE \E u \in Users : UserStep(u)
  BY <1>1, <1>3, UserControl, UserHolds
<1>4. CASE \E i \in Incidents : Operate(i)
  <2>1. UNCHANGED <<rule, telemetry, holder, task, edit>>
    BY <1>4 DEF Operate, Acknowledge, Resolve, Reopen, AddNote, Assign, Locked
  <2> QED
    BY <1>1, <2>1 DEF ControlTyped, TasksHold
<1>5. CASE \E j \in Jobs, v \in Readings : Observe(j, v)
  BY <1>1, <1>5 DEF Observe, ControlTyped, TasksHold
<1> QED
  BY <1>2, <1>3, <1>4, <1>5 DEF Next, WorkerStep, UserStep, EditStep

(* Types, the records, the references to rules, the locks of evaluations and
   the knowledge of deletions are together inductive. *)
THEOREM Invariance == Spec => []IInv
<1>1. Init => IInv
  <2> SUFFICES ASSUME Init
               PROVE  IInv
    OBVIOUS
  <2>1. RowsTyped /\ ControlTyped
    <3>1. rule \in [Rules -> RuleRow]
      BY DEF Init, RuleRow
    <3>2. telemetry \in [Jobs -> Readings] /\ holder \in LocksTyped
      BY DEF Init, Readings, LocksTyped
    <3>3. task \in [Workers -> TasksTyped] /\ edit \in [Users -> EditsTyped]
      BY IdleTyped DEF Init
    <3>4. RowsTyped
      BY DEF Init, RowsTyped
    <3> QED
      BY <3>1, <3>2, <3>3, <3>4 DEF ControlTyped, LocksTyped, TasksTyped, EditsTyped
  <2>2. \A i \in Incidents : ~Exists(i) /\ timeline[i] = <<>>
    BY DEF Init, Exists
  <2>3. Recorded /\ NoDanglingRule
    BY <2>2 DEF Recorded, OneActivePerScope, TimelineReplays, NothingLogged, NoDanglingRule, IsActive
  <2>4. TasksHold /\ EditsKnow
    BY DEF Init, IdleTask, IdleEdit, TasksHold, EditsKnow
  <2> QED
    BY <2>1, <2>3, <2>4, TypesSplit DEF IInv
<1>2. IInv /\ [Next]_vars => IInv'
  <2> SUFFICES ASSUME IInv, [Next]_vars
               PROVE  IInv'
    OBVIOUS
  <2>1. CASE Next
    <3>1. RowsFine /\ ControlTyped' /\ TasksHold'
      BY <2>1, RowsStep, ControlStep
    <3>2. EditsKnow'
      BY <2>1, <3>1, EditsStep, TypesSplit DEF IInv, RowsFine
    <3> QED
      BY <3>1, <3>2, TypesSplit DEF IInv, RowsFine
  <2>2. CASE UNCHANGED vars
    <3>1. RowsFine /\ UNCHANGED <<rule, telemetry, holder, task, edit>>
      BY <2>2, RowsUntouched DEF vars
    <3>2. ControlTyped' /\ TasksHold' /\ EditsKnow'
      BY <3>1, TypesSplit DEF IInv, ControlTyped, TasksHold, EditsKnow, RowsFine
    <3> QED
      BY <3>1, <3>2, TypesSplit DEF IInv, RowsFine
  <2> QED
    BY <2>1, <2>2
<1> QED
  BY <1>1, <1>2, PTL DEF Spec

(* Every row, log, lock, task and request keeps its type. *)
THEOREM TypesCorrect == Spec => []TypeOK
BY Invariance, PTL DEF IInv

(* A rule and job never have two active incidents, whoever raises or reopens
   them: the partial unique index of apps/incidents/models.py. *)
THEOREM OneActive == Spec => []OneActivePerScope
BY Invariance, PTL DEF IInv, Recorded

(* The events of an incident alone tell its status, resolution, assignee and
   acknowledgement (apps/incidents/services.py). *)
THEOREM TimelineTells == Spec => []TimelineReplays
BY Invariance, PTL DEF IInv, Recorded

(* No incident refers to a rule that was deleted, although evaluations raise
   incidents while rules are deleted (apps/alerts/tasks.py, views.py). *)
THEOREM RulesReferenced == Spec => []NoDanglingRule
BY Invariance, PTL DEF IInv

ManualStep ==
  \A i \in Incidents :
    Exists(i) /\ inc[i].resolution = "MANUAL" /\ inc'[i].resolution # "MANUAL"
      => inc'[i].status = "OPEN" /\ Len(timeline'[i]) > Len(timeline[i])

LEMMA ManualUntouched ==
  ASSUME NEW i, NEW x, inc' = [inc EXCEPT ![i] = x], i \in Incidents => ~Exists(i) \/ inc[i].resolution # "MANUAL",
         RowsTyped
  PROVE  ManualStep
BY DEF ManualStep, RowsTyped

(* Only a reopening, which is logged, takes a manual resolution away: an
   evaluation that found the incident active looks again under the row's lock. *)
THEOREM ManualStands == Spec => ManualResolutionStands
<1>1. IInv /\ [Next]_vars => ManualStep
  <2> SUFFICES ASSUME IInv, [Next]_vars
               PROVE  ManualStep
    OBVIOUS
  <2>1. RowsTyped /\ ControlTyped /\ Recorded
    BY TypesSplit DEF IInv
  <2>2. CASE UNCHANGED inc
    BY <2>2 DEF ManualStep
  <2>3. ASSUME NEW i \in Incidents, Operate(i)
        PROVE  ManualStep
    <3>1. Exists(i) /\ inc[i] \in Incident /\ timeline[i] \in Seq(Event)
      BY <2>3, <2>1, ExistingRow DEF Operate, Acknowledge, Resolve, Reopen, AddNote, Assign, Locked
    <3>2. CASE Reopen(i)
      <4>1. inc'[i].status = "OPEN" /\ \A k \in Incidents \ {i} : inc'[k] = inc[k]
        BY <2>1, <3>1, <3>2 DEF Reopen, RowsTyped, Incident
      <4>2. timeline' = [timeline EXCEPT ![i] = Append(@, [type |-> "REOPENED", to |-> NoOne])]
        BY <3>2 DEF Reopen, Log
      <4>3. [type |-> "REOPENED", to |-> NoOne] \in Event
        BY DEF Event, EventTypes, StatusEvents
      <4>4. Len(timeline'[i]) = Len(timeline[i]) + 1
        BY <2>1, <3>1, <4>2, <4>3 DEF RowsTyped
      <4>5. Len(timeline[i]) \in Nat
        BY <3>1
      <4> QED
        BY <4>1, <4>4, <4>5 DEF ManualStep
    <3>3. CASE Acknowledge(i)
      <4>1. inc[i].resolution = "none"
        BY <2>1, <3>1, <3>3, ExistingRow DEF Acknowledge, Active
      <4>2. \A k \in Incidents \ {i} : inc'[k] = inc[k]
        BY <2>1, <3>3 DEF Acknowledge, RowsTyped
      <4> QED
        BY <4>1, <4>2 DEF ManualStep
    <3>4. CASE Resolve(i)
      <4>1. inc'[i].resolution = "MANUAL" /\ \A k \in Incidents \ {i} : inc'[k] = inc[k]
        BY <2>1, <3>1, <3>4 DEF Resolve, RowsTyped, Incident
      <4> QED
        BY <4>1 DEF ManualStep
    <3>5. CASE AddNote(i)
      BY <2>2, <3>5 DEF AddNote
    <3>6. ASSUME NEW m \in Members \cup {NoOne}, Assign(i, m)
          PROVE  ManualStep
      <4>1. /\ inc'[i].resolution = inc[i].resolution
            /\ \A k \in Incidents \ {i} : inc'[k] = inc[k]
        BY <2>1, <3>1, <3>6 DEF Assign, RowsTyped, Incident
      <4> QED
        BY <4>1 DEF ManualStep
    <3> QED
      BY <2>3, <3>2, <3>3, <3>4, <3>5, <3>6 DEF Operate
  <2>4. ASSUME NEW w \in Workers, Raise(w)
        PROVE  ManualStep
    <3>1. \/ UNCHANGED inc
          \/ \E x : \E i \in Incidents : ~Exists(i) /\ inc' = [inc EXCEPT ![i] = x]
      BY <2>4 DEF Raise, Unused
    <3> QED
      BY <2>1, <2>2, <3>1, ManualUntouched
  <2>5. ASSUME NEW w \in Workers, AutoResolve(w)
        PROVE  ManualStep
    <3>1. PICK i \in task[w].found :
            IF IsActive(i)
            THEN inc' = [inc EXCEPT ![i].status = "RESOLVED", ![i].resolution = "AUTOMATIC"]
            ELSE UNCHANGED inc
      BY <2>5 DEF AutoResolve
    <3>2. i \in Incidents
      BY <2>1 DEF ControlTyped
    <3>3. CASE IsActive(i)
      <4>1. inc[i].resolution = "none"
        BY <2>1, <3>2, <3>3, ExistingRow DEF IsActive
      <4>2. \A k \in Incidents \ {i} : inc'[k] = inc[k]
        BY <2>1, <3>1, <3>3 DEF RowsTyped
      <4> QED
        BY <4>1, <4>2 DEF ManualStep
    <3>4. CASE ~IsActive(i)
      BY <2>2, <3>1, <3>4
    <3> QED
      BY <3>3, <3>4
  <2>6. ASSUME NEW u \in Users, Delete(u)
        PROVE  ManualStep
    <3>1. \A k \in Incidents : Exists(k) => inc'[k].resolution = inc[k].resolution
      <4>1. \A k \in Incidents : Exists(k) =>
              inc'[k] \in {inc[k], [inc[k] EXCEPT !.rule = NoRule]} /\ inc[k] \in Incident
        BY <2>1, <2>6 DEF Delete, RowsTyped, Exists
      <4> QED
        BY <4>1 DEF Incident
    <3> QED
      BY <3>1 DEF ManualStep
  <2>7. CASE \/ \E w \in Workers : \/ LockRule(w) \/ RuleGone(w) \/ Refresh(w) \/ NothingToDo(w) \/ AbortTask(w)
                                   \/ \E rl \in Rules : Measure(w, rl)
             \/ \E u \in Users : \/ PatchWrite(u) \/ AbortEdit(u)
                                 \/ \E rl \in Rules : PatchRead(u, rl) \/ Detach(u, rl)
             \/ \E j \in Jobs, v \in Readings : Observe(j, v)
             \/ UNCHANGED vars
    <3>1. UNCHANGED inc
      BY <2>7 DEF LockRule, RuleGone, Refresh, NothingToDo, AbortTask, Measure, PatchWrite, AbortEdit, PatchRead,
                  Detach, Observe, vars
    <3> QED
      BY <2>2, <3>1
  <2> QED
    BY <2>3, <2>4, <2>5, <2>6, <2>7 DEF Next, Evaluate, EditStep
<1>2. ManualStep => \A i \in Incidents :
        Exists(i) /\ inc[i].resolution = "MANUAL" /\ inc'[i].resolution # "MANUAL"
          => inc'[i].status = "OPEN" /\ Len(timeline'[i]) > Len(timeline[i])
  BY DEF ManualStep
<1> QED
  BY <1>1, <1>2, Invariance, PTL DEF Spec, ManualResolutionStands
=============================================================================
