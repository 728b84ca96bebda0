----------------------------- MODULE RowActions -----------------------------
(***************************************************************************)
(* The actions on the rows of the dashboard's lists: switch a row on or    *)
(* off (a job, a rule, a policy, a channel, a project, a member's role),   *)
(* and end it (delete, remove, revoke, cancel, deactivate, resolve).  The  *)
(* screens differ by what disables a control while a request is under way: *)
(* one variable holding the latest row, the mutation's isPending, a        *)
(* dialog's own flag, or nothing.  Every success fetches the list again;   *)
(* no failure does.  The project's row alone shows the outcome before the  *)
(* request is answered.  Other people change the same rows.                *)
(***************************************************************************)
EXTENDS Naturals, FiniteSets

CONSTANTS
  Names,       \* the lists looked at
  Rows,
  NoRow,       \* null
  MaxActs,     \* bound: requests of this page
  MaxOthers,   \* bound: changes by other people
  MaxFaults    \* bound: failed requests and lost answers

VARIABLES
  list,        \* which list this is
  server,      \* the rows on the server: "on", "off", or "gone"
  cached,      \* the list's answer in the query cache
  local,       \* currentStatus of the project rows
  fetch,       \* the request for the list
  ops,         \* requests of the actions
  busy,        \* removingId, changingRoleId, toggling, cancellingId, ... by kind
  dialog,      \* the row whose confirmation dialog is open
  unseen,      \* ghost: rows changed without a later successful read
  overtaken,   \* ghost: rows changed by another while they showed an outcome of
                \* their own, or put back to a status no longer cached
  acts, others, faults

avars == <<list, server, cached, local, fetch, ops, busy, dialog, unseen, overtaken,
           acts, others, faults>>

Kinds   == {"toggle", "end"}
NoFetch == [st |-> "none", data |-> [r \in Rows |-> "on"]]

AInit ==
  /\ list \in Names
  /\ server \in [Rows -> IF list \in {"invitations", "teams"} THEN {"on"} ELSE {"on", "off"}]
  /\ cached = server /\ local = server
  /\ fetch = NoFetch /\ ops = {} /\ busy = [k \in Kinds |-> NoRow] /\ dialog = NoRow
  /\ unseen = {} /\ overtaken = {}
  /\ acts = 0 /\ others = 0 /\ faults = 0

-----------------------------------------------------------------------------
(* What disables a control. *)
UnderWay(k)    == {o \in ops : o.kind = k}
NotThisRow(k, r) == busy[k] # r                 \* one variable for all rows
NoneOfThem(k)  == UnderWay(k) = {}              \* mutation.isPending
NotConfirming(r) == \A o \in UnderWay("end") : o.row # r \/ ~o.open
NotSwitching(r) == \A o \in UnderWay("toggle") : o.row # r   \* the row's own flag

(* Each list: may k be clicked on row r, given what it shows? *)
JobsClick(k, r)     == IF k = "toggle" THEN NotThisRow(k, r) ELSE NotConfirming(r)
PanelClick(k, r)    == IF k = "toggle" THEN NotThisRow(k, r) ELSE NotConfirming(r)
ProjectClick(k, r)  == IF k = "toggle" THEN NotSwitching(r) ELSE NotConfirming(r)
KeysClick(k, r)     == k = "end" /\ cached[r] = "on" /\ NotConfirming(r)
AlertsClick(k, r)   == k = "toggle" => NoneOfThem(k)
RunbooksClick(k, r) == NoneOfThem(k) /\ (k = "toggle" => cached[r] = "on")
PoliciesClick(k, r) == k = "end" => NoneOfThem(k)
ChannelsClick(k, r) == k = "end" => NoneOfThem(k)
MembersClick(k, r)  == NotThisRow(k, r)
InvitesClick(k, r)  == cached[r] = "on" /\ busy["toggle"] # r /\ busy["end"] # r
CancelClick(k, r)   == k = "end" /\ cached[r] = "on" /\ NotThisRow(k, r)
FindingsClick(k, r) == k = "end" /\ cached[r] = "on" /\ NotThisRow(k, r)
TeamsClick(k, r)    == k = "end" /\ NoneOfThem(k)
Enabled(k, r) ==
  CASE list = "jobs" -> JobsClick(k, r)         [] list = "panel" -> PanelClick(k, r)
    [] list = "project" -> ProjectClick(k, r)   [] list = "keys" -> KeysClick(k, r)
    [] list = "alerts" -> AlertsClick(k, r)     [] list = "runbooks" -> RunbooksClick(k, r)
    [] list = "policies" -> PoliciesClick(k, r) [] list = "channels" -> ChannelsClick(k, r)
    [] list = "members" -> MembersClick(k, r)   [] list = "invitations" -> InvitesClick(k, r)
    [] list = "executions" -> CancelClick(k, r) [] list = "findings" -> FindingsClick(k, r)
    [] list = "teams" -> TeamsClick(k, r)

(* Lists that ask before a row is ended, in a dialog that closes on success,
   whichever row it shows by then: only a project's row has one of its own. *)
OwnDialog    == {"project"}
SharedDialog == {"jobs", "panel", "keys", "policies", "channels", "teams"}
Confirms     == OwnDialog \cup SharedDialog

(* What a row shows, and what its request makes of it. *)
Shown(r) == IF list = "project" /\ cached[r] # "gone" THEN local[r] ELSE cached[r]
Switched(r)  == IF Shown(r) = "on" THEN "off" ELSE "on"
Ended        == IF list \in {"executions", "keys", "findings"} THEN "off" ELSE "gone"
Accepted     == "gone"
Wanted(k, r) == IF k = "end" THEN Ended ELSE IF list = "invitations" THEN Accepted ELSE Switched(r)

-----------------------------------------------------------------------------
Click(k, r) ==
  /\ cached[r] # "gone" /\ Enabled(k, r)
  /\ k = "end" /\ list \in Confirms => dialog = r
  /\ k = "toggle" => dialog = NoRow
  /\ acts < MaxActs /\ acts' = acts + 1
  /\ ops' = ops \cup {[n |-> acts, kind |-> k, row |-> r, to |-> Wanted(k, r),
                       was |-> cached[r], st |-> "sent", open |-> TRUE]}
  /\ busy' = [busy EXCEPT ![k] = r]
  /\ local' = IF k = "toggle" /\ list = "project" THEN [local EXCEPT ![r] = Wanted(k, r)] ELSE local
  /\ UNCHANGED <<list, server, cached, fetch, dialog, unseen, overtaken, others, faults>>

OpenDialog(r) ==
  /\ list \in Confirms /\ dialog = NoRow /\ cached[r] # "gone"
  /\ list = "keys" => cached[r] = "on"
  /\ dialog' = r
  /\ UNCHANGED <<list, server, cached, local, fetch, ops, busy, unseen, overtaken, acts, others, faults>>
(* Cancel is never disabled: the request goes on *)
CloseDialog ==
  /\ dialog # NoRow /\ dialog' = NoRow
  /\ ops' = {IF o.kind = "end" THEN [o EXCEPT !.open = FALSE] ELSE o : o \in ops}
  /\ UNCHANGED <<list, server, cached, local, fetch, busy, unseen, overtaken, acts, others, faults>>

-----------------------------------------------------------------------------
(* The server applies a request, whose answer may be lost: 404 for what is
   gone; only a running execution is cancelled, only a valid key revoked, only
   an active finding resolved. *)
Accepts(o) == /\ server[o.row] # "gone"
              /\ list \in {"executions", "keys", "findings"} => server[o.row] = "on"
Serve(o) ==
  /\ o \in ops /\ o.st = "sent"
  /\ \/ /\ ops' = (ops \ {o}) \cup {[o EXCEPT !.st = IF Accepts(o) THEN "ok" ELSE "failed"]}
        /\ UNCHANGED <<faults, unseen>>
     \/ /\ Accepts(o) /\ faults < MaxFaults /\ faults' = faults + 1
        /\ ops' = (ops \ {o}) \cup {[o EXCEPT !.st = "failed"]}
        /\ unseen' = unseen \cup {o.row}
  /\ server' = IF Accepts(o) THEN [server EXCEPT ![o.row] = o.to] ELSE server
  /\ UNCHANGED <<list, cached, local, fetch, busy, dialog, overtaken, acts, others>>

RequestLost(o) ==
  /\ o \in ops /\ o.st = "sent"
  /\ faults < MaxFaults /\ faults' = faults + 1
  /\ ops' = (ops \ {o}) \cup {[o EXCEPT !.st = "failed"]}
  /\ UNCHANGED <<list, server, cached, local, fetch, busy, dialog, unseen, overtaken, acts, others>>

Other(r, to) ==
  /\ others < MaxOthers /\ others' = others + 1
  /\ server[r] \notin {"gone", to}
  /\ list \in {"keys", "executions", "findings"} => to = "off"
  /\ list \in {"invitations", "teams"} => to = "gone"
  /\ server' = [server EXCEPT ![r] = to]
  /\ unseen' = unseen \cup {r}
  /\ overtaken' = IF local[r] # cached[r] THEN overtaken \cup {r} ELSE overtaken
  /\ UNCHANGED <<list, cached, local, fetch, ops, busy, dialog, acts, faults>>

-----------------------------------------------------------------------------
(* A fault: a request for the list that is under way is left to do. *)
RefetchShared(o) == IF o.st = "ok" /\ fetch.st = "none" THEN [NoFetch EXCEPT !.st = "sent"] ELSE fetch

(* Success invalidates the list, which restarts its request. *)
Refetch(o) == IF o.st = "ok" THEN [NoFetch EXCEPT !.st = "sent"] ELSE fetch

(* finally clears the variable, whichever row it holds by now; the project row,
   the findings and the team's tab wait for the refetch first. A failed switch
   puts back the status the row was rendered with when it was clicked. *)
Awaits(o)  == /\ o.st = "ok"
              /\ (list = "project" /\ o.kind = "toggle") \/ list \in {"findings", "teams"}
Cleared(o) == IF Awaits(o) THEN busy ELSE [busy EXCEPT ![o.kind] = NoRow]
Closes(o)  == /\ o.kind = "end" /\ o.st = "ok" /\ ~Awaits(o)
              /\ list \in OwnDialog => dialog = o.row
Settle(o) ==
  /\ o \in ops /\ o.st \in {"ok", "failed"}
  /\ ops' = (ops \ {o}) \cup (IF Awaits(o) THEN {[o EXCEPT !.st = "waiting"]} ELSE {})
  /\ fetch' = Refetch(o)
  /\ dialog' = IF Closes(o) THEN NoRow ELSE dialog
  /\ busy' = Cleared(o)
  /\ local' = IF list = "project" /\ o.kind = "toggle" /\ o.st = "failed"
              THEN [local EXCEPT ![o.row] = o.was] ELSE local
  /\ overtaken' = IF o.st = "failed" /\ o.was # cached[o.row]
                  THEN overtaken \cup {o.row} ELSE overtaken
  /\ UNCHANGED <<list, server, cached, unseen, acts, others, faults>>

Waiting  == {o \in ops : o.st = "waiting"}
Answered == ops \ Waiting
Released == [k \in Kinds |-> IF \E o \in Waiting : o.kind = k THEN NoRow ELSE busy[k]]
(* the team's tab closes its dialog last, whichever team it shows by then *)
LastClosed == IF list = "teams" /\ Waiting # {} THEN NoRow ELSE dialog
FetchRead ==
  /\ fetch.st = "sent" /\ fetch' = [st |-> "read", data |-> server]
  /\ unseen' = {}
  /\ UNCHANGED <<list, server, cached, local, ops, busy, dialog, overtaken, acts, others, faults>>

(* the effect of a project row runs when the status it is given changes *)
RowEffect(new) == [r \in Rows |-> IF new[r] # cached[r] THEN new[r] ELSE local[r]]
FetchLands ==
  /\ fetch.st = "read" /\ fetch' = NoFetch
  /\ cached' = fetch.data /\ local' = RowEffect(fetch.data)
  /\ overtaken' = {r \in overtaken : fetch.data[r] = cached[r] \/ \E o \in Answered : o.row = r}
  /\ ops' = Answered
  /\ dialog' = IF dialog # NoRow /\ list \in OwnDialog /\ fetch.data[dialog] = "gone"
               THEN NoRow ELSE LastClosed
  /\ busy' = Released
  /\ UNCHANGED <<list, server, unseen, acts, others, faults>>
FetchFailed ==
  /\ fetch.st = "sent" /\ faults < MaxFaults /\ faults' = faults + 1
  /\ fetch' = NoFetch /\ unseen' = Rows
  /\ ops' = Answered /\ busy' = Released /\ dialog' = LastClosed
  /\ UNCHANGED <<list, server, cached, local, overtaken, acts, others>>

(* A visit or a push fetches the list for another reason. *)
Revisit ==
  /\ fetch.st = "none" /\ unseen # {}
  /\ fetch' = [NoFetch EXCEPT !.st = "sent"]
  /\ UNCHANGED <<list, server, cached, local, ops, busy, dialog, unseen, overtaken, acts, others, faults>>

ANext ==
  \/ \E k \in Kinds, r \in Rows : Click(k, r)
  \/ \E r \in Rows : OpenDialog(r)
  \/ CloseDialog
  \/ \E o \in ops : Serve(o) \/ RequestLost(o) \/ Settle(o)
  \/ \E r \in Rows, to \in {"on", "off", "gone"} : Other(r, to)
  \/ FetchRead \/ FetchLands \/ FetchFailed \/ Revisit

ASpec == AInit /\ [][ANext]_avars

-----------------------------------------------------------------------------
(* When no request is under way every row shows what the server has, however
   many actions on however many rows overlapped, succeeded or failed. A row
   changed by others, or whose answer was lost, may be behind until the list is
   read again; a project's row may besides keep an outcome of its own that
   somebody else changed back. *)
RowsConverge ==
  ops = {} /\ fetch.st = "none" =>
    \A r \in Rows : \/ Shown(r) = server[r] \/ r \in unseen
                    \/ list = "project" /\ r \in overtaken
=============================================================================
