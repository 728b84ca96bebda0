----------------------------- MODULE MCDashboard -----------------------------
(***************************************************************************)
(* Dashboard, and the merge of telemetry events, for TLC.  A behaviour is  *)
(* about one part, the topic, chosen at first; the others keep their       *)
(* initial states.                                                         *)
(***************************************************************************)
EXTENDS MCSnapshotLoop, Dashboard

CONSTANTS r1, r2   \* the rows, as model values

VARIABLE topic

MCDialogs == {"policy", "channel", "alert", "runbook", "project", "job", "invite", "team",
              "expectation", "settings", "key"}
MCScreens == {"incidents", "executions", "jobs", "alerts", "notifications", "runbooks", "projects",
              "policies", "channels", "sheet", "team"}
MCStock == LET Of(s, f, p, h) == [search |-> s, filter |-> f, project |-> p, health |-> h]
           IN  <<Of("x", "x", "x", "x"), Of("y", "x", "y", "y"), Of("x", "y", "x", "x")>>
MCLists == {"jobs", "project", "keys", "alerts", "runbooks", "policies", "members",
            "invitations", "executions", "findings", "teams"}

(* what a part that is not the topic starts from, where it has a choice *)
Pinned == /\ IF topic = "batch" THEN TRUE ELSE batch = <<>> /\ old = NoExec
          /\ IF topic = "forms" THEN TRUE ELSE form = "team"
          /\ IF topic = "screens" THEN TRUE ELSE screen = "team"
          /\ IF topic = "actions" THEN TRUE ELSE list = "keys"
          /\ view = <<"job", "1h">>
(* of two rows that may be off, one is *)
OneOfEach == server[r1] = "on" /\ (list \in {"invitations", "teams"} \/ server[r2] = "off")
MCInit ==
  /\ topic \in {"batch", "forms", "screens", "actions", "incident", "review", "charts", "bell"}
  /\ Pinned /\ Init /\ DashboardInit /\ OneOfEach

(* bound: what people do, changes made elsewhere and faults, together *)
MaxInputs == 3
MCNext ==
  /\ UNCHANGED topic
  /\ \/ topic = "batch" /\ Next /\ UNCHANGED dashboardVars
     \/ topic = "forms" /\ FormsStep /\ typed' + others' + faults' <= MaxInputs /\ UNCHANGED vars
     \/ topic = "screens" /\ ScreensStep /\ picks' + changes' + sFaults' <= MaxInputs
        /\ UNCHANGED vars
     \/ topic = "actions" /\ ActionsStep /\ UNCHANGED vars
     \/ topic = "incident" /\ ~raced /\ IncidentStep /\ UNCHANGED vars   \* a race excuses all that follows
     \/ topic = "review" /\ ReviewStep /\ UNCHANGED vars
     \/ topic = "charts" /\ ChartsStep /\ batches' + looks' + nFaults' <= MaxInputs /\ UNCHANGED vars
     \/ topic = "bell" /\ BellStep /\ UNCHANGED vars
MCSpec == MCInit /\ [][MCNext]_<<topic, vars, dashboardVars>>
=============================================================================
