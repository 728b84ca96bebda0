--------------------------- MODULE TelemetryMerge ---------------------------
(***************************************************************************)
(* The merge of a batch of telemetry events into the snapshot row of an     *)
(* execution, as apps/executions/services.py does it in memory between the  *)
(* locking read and the bulk write.                                         *)
(*                                                                          *)
(* The code sorts the events of one execution by event_timestamp (a stable  *)
(* sort), drops repeated event ids and folds the rest into the row.  Here   *)
(* the result of that fold is stated directly: which events move the        *)
(* snapshot forward, and what each column is afterwards.  SnapshotLoop runs *)
(* the loops themselves, and SnapshotLoopProofs shows that they agree.      *)
(*                                                                          *)
(* Data kept: status, last_event_at, retry_count and who wrote the error    *)
(* columns.  An event is an identifier (event_id) whose payload is fixed,   *)
(* because a retried delivery resends the same payload.                     *)
(***************************************************************************)
EXTENDS Integers, Sequences, FiniteSetsExt, Functions

CONSTANTS Executions,   \* pairs (job, external_id)
          Events,       \* event ids
          Payload,      \* what the SDK sent under each event id
          Largest       \* the largest timestamp or count a column holds

Statuses == {"pending", "running", "success", "failed", "retry", "cancelled"}

(* Execution.Status values that end an execution. *)
Terminal == {"success", "failed", "cancelled"}

Column == 0..Largest

EventPayload == [exec: Executions, time: Column, status: Statuses, retry: Column,
                 error: BOOLEAN, meta: BOOLEAN]

ASSUME PayloadAssumption == Largest \in Nat /\ Payload \in [Events -> EventPayload]

(***************************************************************************)
(* The snapshot columns.  "by" says who wrote the status last and "error"   *)
(* who wrote the error columns ("none": they are empty); the code tells     *)
(* them apart by the text of error_message.                                 *)
(***************************************************************************)
Writers == {"event", "user", "evaluator"}
Snapshot == [status: Statuses, last: Column, retry: Column,
             by: Writers, error: Writers \cup {"none"}]

Time(e) == Payload[e].time
ExecOf(e) == Payload[e].exec

(* The events of a batch (a sequence of event ids) that belong to x. *)
EventsOf(batch, x) == {e \in Range(batch) : ExecOf(e) = x}

(* Where an event id first occurs in the batch: a later copy is a duplicate. *)
Position(batch, e) == CHOOSE i \in DOMAIN batch :
                        /\ batch[i] = e
                        /\ \A k \in DOMAIN batch : batch[k] = e => i <= k

(* Mutant: simultaneous events also replace the recorded snapshot. *)
PromotedSimultaneous(batch, S, since) ==
  {e \in S : /\ Time(e) >= since
             /\ \A f \in S : Time(f) = Time(e) => Position(batch, e) <= Position(batch, f)}

(***************************************************************************)
(* Among the new events S of an execution, those that move the snapshot     *)
(* forward: later than "since", and first in input order at their time      *)
(* ("Equal Timestamp Policy").                                              *)
(***************************************************************************)
Promoted(batch, S, since) ==
  {e \in S : /\ Time(e) > since
             /\ \A f \in S : Time(f) = Time(e) => Position(batch, e) <= Position(batch, f)}

Newest(S) == CHOOSE e \in S : \A f \in S : Time(f) <= Time(e)

(* Mutant: only later events save the row. *)
TouchesLater(old, S) == \E e \in S : Time(e) > old.last

(* has_updates: whether the new events S change any column of the row. *)
Touches(old, S) ==
  \E e \in S : \/ Time(e) > old.last
               \/ /\ Time(e) = old.last
                  /\ Payload[e].retry > old.retry \/ Payload[e].meta

(***************************************************************************)
(* An existing row.  Events older than the row change nothing; events at    *)
(* its time only raise retry_count; later ones carry the status, and a      *)
(* success clears the error columns.                                        *)
(***************************************************************************)
MergeUpdate(old, batch, S) ==
  LET up      == Promoted(batch, S, old.last)
      telling == {e \in up : Payload[e].status = "success" \/ Payload[e].error}
      moved   == up # {}
  IN  [status |-> IF moved THEN Payload[Newest(up)].status ELSE old.status,
       last   |-> IF moved THEN Time(Newest(up)) ELSE old.last,
       retry  |-> Max({old.retry} \cup {Payload[e].retry : e \in {f \in S : Time(f) >= old.last}}),
       by     |-> IF moved THEN "event" ELSE old.by,
       error  |-> IF telling = {} THEN old.error
                  ELSE IF Payload[Newest(telling)].status = "success" THEN "none"
                  ELSE "event"]

(* Mutant: the status the SDK sent is stored as it came. *)
MergeCreateRaw(batch, S) ==
  LET up == Promoted(batch, S, -1)
  IN  [status |-> "started", last |-> Time(Newest(up)),
       retry  |-> Max({Payload[e].retry : e \in S}), by |-> "event", error |-> "none"]

(***************************************************************************)
(* A new row, built from the first events received for the execution.       *)
(* Non-empty values of later events overwrite earlier ones, so an error     *)
(* reported by any of them stays, whatever the final status.                *)
(***************************************************************************)
MergeCreate(batch, S) ==
  LET up == Promoted(batch, S, -1)
  IN  [status |-> Payload[Newest(up)].status,
       last   |-> Time(Newest(up)),
       retry  |-> Max({Payload[e].retry : e \in S}),
       by     |-> "event",
       error  |-> IF \E e \in up : Payload[e].error THEN "event" ELSE "none"]
=============================================================================
