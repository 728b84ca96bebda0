------------------------------ MODULE MCServer ------------------------------
(***************************************************************************)
(* What must happen in the end on the server, for TLC: alert rules and      *)
(* incidents, or ingestion and reliability evaluation.  A behaviour is      *)
(* about one of them, the topic, chosen at first; the other keeps its       *)
(* initial state, and only the topic's fairness is assumed.  Neither reads  *)
(* or writes here what the other one keeps.                                 *)
(***************************************************************************)
EXTENDS IncidentLifecycle, TLC

CONSTANTS x, y, r1, r2, NoRow   \* model values: executions, requests, an absent row

VARIABLES topic, jobs, row, log, stalled, iHolder, req, user, eval, counted

(* Runs that start and end, without pending executions. *)
Ev(w, t, s) == [exec |-> w, time |-> t, status |-> s, retry |-> 0, error |-> FALSE, meta |-> FALSE]
LivePayload == "x1" :> Ev(x, 1, "running") @@ "x2" :> Ev(x, 2, "success") @@ "y1" :> Ev(y, 1, "running")
LiveBatches == {<<"x1">>, <<"x2", "y1">>}
LiveEvents == DOMAIN LivePayload
LiveJobOf == [w \in {x, y} |-> CHOOSE j \in Jobs : TRUE]
LiveIds == x :> 1 @@ y :> 2
LiveJobs == {[j \in Jobs |-> [status |-> "active", verified |-> TRUE]]}

Telemetry == INSTANCE ExecutionIngest WITH
  Executions <- {x, y}, Events <- LiveEvents, Payload <- LivePayload, Largest <- 2,
  JobOf <- LiveJobOf, ExternalId <- LiveIds, Requests <- {r1, r2}, Batches <- LiveBatches,
  MaxAttempts <- 3, JobsBefore <- LiveJobs, holder <- iHolder

telemetryVars == <<jobs, row, log, stalled, iHolder, req, user, eval, counted>>
serverVars == <<topic, vars, telemetryVars>>

ServerInit == topic \in {"alerts", "telemetry"} /\ Init /\ Telemetry!Init
ServerNext ==
  /\ UNCHANGED topic
  /\ \/ topic = "alerts" /\ Next /\ UNCHANGED telemetryVars
     \/ topic = "telemetry" /\ Telemetry!Next /\ UNCHANGED vars

ServerSpec ==
  /\ ServerInit /\ [][ServerNext]_serverVars
  /\ \/ topic = "alerts" /\ Fairness
     \/ topic = "telemetry" /\ Telemetry!Fairness

-----------------------------------------------------------------------------
(* Every ingestion request is answered, through lock waits, conflicts and deadlocks. *)
RequestsAnswered == Telemetry!RequestsAnswered
(* A stalled finding of a finished execution is recovered while its job is active. *)
StalledFindingClears == Telemetry!StalledFindingClears
=============================================================================
