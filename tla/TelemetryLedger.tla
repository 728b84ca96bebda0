--------------------------- MODULE TelemetryLedger --------------------------
(***************************************************************************)
(* What ingestion promises, without requests, locks or retries: a ledger of *)
(* recorded events and, for each execution, a view of its latest state.     *)
(* A batch takes effect at once and records only events not recorded        *)
(* before; the view moves forward only, to the status of a latest event.    *)
(* Besides events, only a cancellation or a discard writes a status.        *)
(***************************************************************************)
EXTENDS Integers, FiniteSets

CONSTANTS Executions, Events, Payload, NoView

VARIABLES log,    \* the recorded events of each execution
          view    \* its status, the time of its latest event, the writer

vars == <<log, view>>

Init == /\ log = [x \in Executions |-> {}]
        /\ view = [x \in Executions |-> NoView]

(* The view v of an execution becomes w when the events S are recorded. *)
Follows(v, w, S) ==
  IF S = {} \/ (v # NoView /\ \A e \in S : Payload[e].time <= v.last)
  THEN w = v
  ELSE \E e \in S : /\ \A f \in S : Payload[f].time <= Payload[e].time
                    /\ w = [status |-> Payload[e].status, last |-> Payload[e].time,
                            by |-> "event"]

(* A batch with the new events S takes effect. *)
Record(S) ==
  /\ \A e \in S : e \notin log[Payload[e].exec]
  /\ log' = [x \in Executions |-> log[x] \cup {e \in S : Payload[e].exec = x}]
  /\ \A x \in Executions : Follows(view[x], view'[x], {e \in S : Payload[e].exec = x})
  /\ DOMAIN view' = Executions

(* A user cancels or the evaluator fails executions X, keeping their history. *)
Override(X, s, w) ==
  /\ \A x \in X : view[x] # NoView
  /\ view' = [x \in Executions |->
       IF x \in X THEN [status |-> s, last |-> view[x].last, by |-> w] ELSE view[x]]
  /\ UNCHANGED log

Next == \/ \E S \in SUBSET Events : Record(S)
        \/ \E X \in SUBSET Executions : \/ Override(X, "cancelled", "user")
                                        \/ Override(X, "failed", "evaluator")

Spec == Init /\ [][Next]_vars
=============================================================================
