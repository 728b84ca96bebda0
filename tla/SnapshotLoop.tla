---------------------------- MODULE SnapshotLoop ----------------------------
(***************************************************************************)
(* The loops of ingest_executions_batch over the events of one execution,   *)
(* one step per round: the events are looked at in the order of the stable  *)
(* sort and repeated ones dropped; then the others are folded into the row, *)
(* which exists or is built from the first of them.  At the end the row is  *)
(* compared with the closed form of TelemetryMerge that the concurrent      *)
(* model of ingestion uses.                                                 *)
(***************************************************************************)
EXTENDS TelemetryMerge, FiniteSets

CONSTANTS Target,      \* the execution whose events are looped over
          OldRows,     \* rows it may have before the batch
          NoExec,      \* instead of a row: it is not in existing_exec_map
          KnownSets,   \* sets of its events that may be recorded already
          MaxBatch     \* bound: length of the batch

ASSUME LoopAssumption == /\ OldRows \subseteq Snapshot
                         /\ KnownSets \subseteq SUBSET Events
                         /\ MaxBatch \in Nat

VARIABLES batch,       \* the batch, in input order
          old,         \* the row before the batch, or NoExec
          known,       \* its recorded events: existing_event_ids
          ahead,      \* indices of its items the first loop has not reached
          unique,      \* unique_items
          merged,      \* how many of them the second loop has merged
          rowNow,      \* exec_obj or merged_item
          hasUpdates   \* has_updates

vars == <<batch, old, known, ahead, unique, merged, rowNow, hasUpdates>>

(* exec_grouped_events[key], by index *)
Grouped == {i \in DOMAIN batch : ExecOf(batch[i]) = Target}

(* items.sort(key=event_timestamp) is stable *)
SortedBefore(i, j) == \/ Time(batch[i]) < Time(batch[j])
                      \/ Time(batch[i]) = Time(batch[j]) /\ i <= j

Larger(a, b) == IF a >= b THEN a ELSE b

(* Mutant: the last of several simultaneous events wins. *)
UpdateStepLast(r, e) ==
  LET p == Payload[e] IN
  IF p.time >= r.last
  THEN [status |-> p.status, last |-> p.time, by |-> "event",
        retry  |-> Larger(r.retry, p.retry),
        error  |-> IF p.status = "success" THEN "none"
                   ELSE IF p.error THEN "event" ELSE r.error]
  ELSE r

(* Body of the loop over unique_items when the row exists. *)
UpdateStep(r, e) ==
  LET p == Payload[e] IN
  IF p.time > r.last
  THEN [status |-> p.status, last |-> p.time, by |-> "event",
        retry  |-> Larger(r.retry, p.retry),
        error  |-> IF p.status = "success" THEN "none"
                   ELSE IF p.error THEN "event" ELSE r.error]
  ELSE IF p.time = r.last /\ p.retry > r.retry THEN [r EXCEPT !.retry = p.retry]
  ELSE r

(* Mutant: metadata alone does not save the row. *)
ChangesNoMeta(r, e) == \/ Time(e) > r.last
                       \/ Time(e) = r.last /\ Payload[e].retry > r.retry

(* The branches of that body which set has_updates. *)
Changes(r, e) == \/ Time(e) > r.last
                 \/ Time(e) = r.last /\ (Payload[e].retry > r.retry \/ Payload[e].meta)

(* Mutant: a success clears the error of a new row as it does of an old one. *)
CreateStepClearing(r, e) ==
  LET p == Payload[e] IN
  IF p.time > r.last
  THEN [status |-> p.status, last |-> p.time, by |-> "event",
        retry  |-> Larger(r.retry, p.retry),
        error  |-> IF p.status = "success" THEN "none"
                   ELSE IF p.error THEN "event" ELSE r.error]
  ELSE [r EXCEPT !.retry = Larger(@, p.retry)]

(* Body of the loop that merges unique_items[1:] into merged_item. *)
CreateStep(r, e) ==
  LET p == Payload[e] IN
  IF p.time > r.last
  THEN [status |-> p.status, last |-> p.time, by |-> "event",
        retry  |-> Larger(r.retry, p.retry),
        error  |-> IF p.error THEN "event" ELSE r.error]
  ELSE [r EXCEPT !.retry = Larger(@, p.retry)]

(* merged_item = dict(unique_items[0]) *)
FirstRow(e) ==
  LET p == Payload[e] IN
  [status |-> p.status, last |-> p.time, by |-> "event", retry |-> p.retry,
   error |-> IF p.error THEN "event" ELSE "none"]

-----------------------------------------------------------------------------
(***************************************************************************)
(* The SDK flushes any events in any order, repeated ids included.  An      *)
(* execution without a row has no recorded events.                          *)
(***************************************************************************)
Init == /\ batch \in UNION {[1..n -> Events] : n \in 0..MaxBatch}
        /\ \/ old \in OldRows /\ known \in KnownSets
           \/ old = NoExec /\ known = {}
        /\ ahead = Grouped /\ unique = <<>> /\ merged = 0
        /\ rowNow = old /\ hasUpdates = FALSE

(* Mutant: only recorded ids are dropped, not those repeated in the batch. *)
DuplicateOfRecorded(e) == e \in known

Duplicate(e) == e \in known \cup Range(unique)

(* One round of the first loop. *)
Collect ==
  /\ \E i \in ahead :
       /\ \A j \in ahead : SortedBefore(i, j)
       /\ ahead' = ahead \ {i}
       /\ unique' = IF Duplicate(batch[i]) THEN unique ELSE Append(unique, batch[i])
  /\ UNCHANGED <<batch, old, known, merged, rowNow, hasUpdates>>

Merge == /\ ahead = {} /\ merged < Len(unique)
         /\ merged' = merged + 1
         /\ UNCHANGED <<batch, old, known, ahead, unique>>

(* One round of the second loop, on an existing row. *)
MergeExisting == /\ Merge /\ old # NoExec
                 /\ LET e == unique[merged + 1] IN
                    /\ rowNow' = UpdateStep(rowNow, e)
                    /\ hasUpdates' = (hasUpdates \/ Changes(rowNow, e))

(* The same for a new one. *)
MergeNew == /\ Merge /\ old = NoExec
            /\ LET e == unique[merged + 1] IN
               rowNow' = IF merged = 0 THEN FirstRow(e) ELSE CreateStep(rowNow, e)
            /\ UNCHANGED hasUpdates

Next == Collect \/ MergeExisting \/ MergeNew

Spec == Init /\ [][Next]_vars

-----------------------------------------------------------------------------
New == EventsOf(batch, Target) \ known
LoopsOver == ahead = {} /\ merged = Len(unique)

(* When the loops are over, every new event has been accepted once; the row
   that services.py leaves for an existing execution is the closed form (same
   winner among equal timestamps, same retry_count, same surviving error,
   whatever the input order of the batch); has_updates is exact, and when it is
   not set the row left unsaved is the row that was read; and the row built for
   a new execution is the closed form too. *)
LoopsAreClosedForms ==
  LoopsOver =>
    /\ Len(unique) = Cardinality(New)
    /\ old # NoExec => /\ rowNow = MergeUpdate(old, batch, New)
                       /\ hasUpdates = Touches(old, New)
                       /\ ~hasUpdates => rowNow = old
    /\ old = NoExec /\ New # {} => rowNow = MergeCreate(batch, New)
=============================================================================
