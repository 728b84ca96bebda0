-------------------------------- MODULE Forms --------------------------------
(***************************************************************************)
(* The create and edit dialogs of the dashboard.  A dialog is filled from  *)
(* the row it was opened for, or with defaults; picking one field may      *)
(* change others; Save sends a payload made from the fields; the answer    *)
(* closes the dialog or shows an error in it.  The dialogs differ in what  *)
(* they fill and when they fill it again, in which inputs they offer, in   *)
(* which picks are coupled, and in what they send.  A behaviour is about   *)
(* one of them, on two rows which other users may edit meanwhile.          *)
(***************************************************************************)
EXTENDS Naturals, Sequences, FiniteSets

CONSTANTS
  Dialogs,    \* the dialogs explored
  MaxTyped,   \* bound: inputs of the user
  MaxSaves,   \* bound: saves
  MaxOpened,  \* bound: openings
  MaxOthers,  \* bound: edits by others and changes of the project list
  MaxFaults   \* bound: saves whose request or answer is lost

VARIABLES
  form,      \* the dialog of this behaviour
  srv,       \* the rows on the server
  rows,      \* the rows the page shows
  projects,  \* the projects the user may manage, as the dialog sees them; in the
             \* policy dialog, those of them whose channel is active
  at,        \* what the dialog is open for: closed, new or a row, or to show a new key
  val,       \* its inputs
  filled,    \* the row the inputs were filled from
  saves,     \* saves under way
  opening,   \* number of times the inputs were filled on opening
  stored,    \* ghost: what the last save that succeeded had sent
  intent,    \* ghost: what the user entered since the dialog was opened
  excuse,    \* ghost: a refill or another save discarded what was entered
  ended,     \* ghost: how the dialog was closed
  typed, sent, others, faults

fvars == <<form, srv, rows, projects, at, val, filled, saves, opening, stored, intent,
           excuse, ended, typed, sent, others, faults>>

Rows  == {"r1", "r2"}
In(n, unit) == [n |-> n, unit |-> unit]   \* a time entered; <<>> is a blank, or null
None  == 2          \* no job or channel; a job or channel has the number of its project
Scope == {0, 1}     \* projects, or teams of projects

Domain(f) == CASE f \in {"project", "team"} -> Scope
               [] f \in {"job", "channel"}  -> Scope \cup {None}
               [] f \in {"metric", "type"}  -> {"plain", "special"}
               [] f = "steps" -> {<<1>>, <<2>>, <<1, 2>>, <<2, 1>>}
               [] f = "interval" -> {In(<<0>>, "seconds"), In(<<2>>, "minutes")}
               [] f = "delay"    -> {In(<<>>, "seconds"), In(<<2>>, "minutes")}
               [] OTHER -> {0, 1}

-----------------------------------------------------------------------------
(* Which fields each dialog has. *)
PolicyFields      == {"project", "channel", "severity"}
ChannelFields     == {"project", "type", "name", "config"}
AlertFields       == {"project", "job", "metric", "threshold"}
RunbookFields     == {"project", "job", "name", "steps"}
ProjectFields     == {"team", "name"}
JobFields         == {"project", "name", "task"}
InviteFields      == {"email", "role"}
TeamFields        == {"name"}
ExpectationFields == {"interval", "delay"}
SettingsFields    == {"name"}
KeyFields         == {"name"}

Fields == CASE form = "policy" -> PolicyFields [] form = "channel" -> ChannelFields
            [] form = "alert" -> AlertFields   [] form = "runbook" -> RunbookFields
            [] form = "project" -> ProjectFields [] form = "job" -> JobFields
            [] form = "invite" -> InviteFields [] form = "team" -> TeamFields
            [] form = "expectation" -> ExpectationFields [] form = "settings" -> SettingsFields
            [] form = "key" -> KeyFields

Row(i) == [f \in Fields |-> CASE f \in {"project", "team", "job", "channel"} -> i
                              [] f \in {"metric", "type"} -> "plain"
                              [] f = "steps" -> <<1>>
                              [] f = "interval" -> IF i = 0 THEN <<7200>> ELSE <<>>
                              [] f = "delay" -> IF i = 0 THEN <<90>> ELSE <<0>>
                              [] OTHER -> i]
First == IF projects = {} THEN 0 ELSE CHOOSE p \in projects : \A q \in projects : p <= q

(* What a dialog opened for nothing is filled with. *)
NoRef      == [f \in Fields |-> IF f \in {"job", "channel"} THEN None ELSE Row(0)[f]]
(* The first project, and a channel of the project last seen in the dialog, or
   else of the first project. *)
PolicyNew  == [NoRef EXCEPT !["channel"] = CASE val["project"] \in projects -> val["project"]
                                             [] val["project"] \notin projects /\ 0 \in projects -> 0
                                             [] OTHER -> None]
ScopedNew  == [NoRef EXCEPT !["project"] = First]
New == CASE form = "policy" -> PolicyNew
         [] form \in {"alert", "runbook", "channel", "job"} -> ScopedNew
         [] OTHER -> NoRef

-----------------------------------------------------------------------------
(* Which inputs are offered. The project, its team and the identifier of a job
   are fixed once they exist; the limit of an anomaly metric and the config of
   a channel without one are not shown; jobs are those of the picked project. *)
PolicyOffers(f, x)  == f = "channel" => x = val["project"] /\ x \in projects
ChannelOffers(f, x) == f # "config" \/ val["type"] = "plain"
AlertOffers(f, x)   == /\ f \in {"project", "job"} => at = "new" /\ projects # {}
                       /\ f = "job" => x \in {val["project"], None}
                       /\ f = "project" => x \in projects
                       /\ f = "threshold" => val["metric"] = "plain"
RunbookOffers(f, x) == /\ f = "job" => x \in {val["project"], None}
                       /\ f = "project" => x \in projects
ProjectOffers(f, x) == f = "team" => at = "new" /\ x \in projects
JobOffers(f, x)     == f \in {"project", "task"} => at = "new"

Offers(f, x) == CASE form = "policy" -> PolicyOffers(f, x) [] form = "channel" -> ChannelOffers(f, x)
                  [] form = "alert" -> AlertOffers(f, x)   [] form = "runbook" -> RunbookOffers(f, x)
                  [] form = "project" -> ProjectOffers(f, x) [] form = "job" -> JobOffers(f, x)
                  [] OTHER -> TRUE

(* The steps of a runbook: added last, removed while another is left, swapped
   with a neighbour. *)
AddStep(s)     == {Append(s, n) : n \in {2} \ {s[i] : i \in DOMAIN s}}
RemoveStep(s)  == IF Len(s) <= 1 THEN {} ELSE {Tail(s), SubSeq(s, 1, Len(s) - 1)}
MoveStep(s)    == IF Len(s) <= 1 THEN {} ELSE {<<s[2], s[1]>>}
StepEdits(s)   == AddStep(s) \cup RemoveStep(s) \cup MoveStep(s)

(* What a pick does to the other fields. A policy keeps its channel when that of
   the picked project is not active. *)
PickPolicy(f, x)  == [val EXCEPT ![f] = x,
                                 !["channel"] = IF f = "project" /\ x \in projects THEN x
                                                ELSE IF f = "channel" THEN x ELSE @]
(* A fault: the job is kept when the project changes. *)
PickAlertKeeps(f, x) == [val EXCEPT ![f] = x,
                                 !["threshold"] = IF f = "metric" /\ x = "special" THEN 0
                                                  ELSE IF f = "threshold" THEN x ELSE @]

PickAlert(f, x)   == [val EXCEPT ![f] = x,
                                 !["job"] = IF f = "project" THEN None ELSE IF f = "job" THEN x ELSE @,
                                 !["threshold"] = IF f = "metric" /\ x = "special" THEN 0
                                                  ELSE IF f = "threshold" THEN x ELSE @]
PickRunbook(f, x) == [val EXCEPT ![f] = x,
                                 !["job"] = IF f = "project" THEN None ELSE IF f = "job" THEN x ELSE @]
Picked(f, x) == CASE form = "policy" -> PickPolicy(f, x) [] form = "alert" -> PickAlert(f, x)
                  [] form = "runbook" -> PickRunbook(f, x) [] OTHER -> [val EXCEPT ![f] = x]

-----------------------------------------------------------------------------
(* What Save sends. *)
AlertPayload(v)   == [v EXCEPT !["threshold"] = IF v["metric"] = "special" THEN 0 ELSE @]
ChannelPayload(v) == [v EXCEPT !["config"] = IF v["type"] = "special" THEN 0 ELSE @]
ProjectPayload(v) == IF at = "new" THEN v ELSE [f \in {"name"} |-> v[f]]
(* A fault: an edit of a job sends nothing. *)
JobPayloadNew(v)  == IF at = "new" THEN v ELSE [f \in {} |-> v[f]]
JobPayload(v)     == IF at = "new" THEN v ELSE [f \in {"name"} |-> v[f]]
(* A stored time is shown in the largest unit that divides it, and a zero as a
   blank; a blank is sent as null. *)
UnitSeconds == [seconds |-> 1, minutes |-> 60, hours |-> 3600]
ToUnitAndVal(s, unit) ==
  LET fits == {u \in DOMAIN UnitSeconds : s[1] >= UnitSeconds[u] /\ s[1] % UnitSeconds[u] = 0}
      u    == CHOOSE u \in fits : \A w \in fits : UnitSeconds[w] <= UnitSeconds[u]
  IN  IF s \in {<<>>, <<0>>} THEN In(<<>>, unit) ELSE In(<<s[1] \div UnitSeconds[u]>>, u)
ToSeconds(x) == IF x.n = <<>> THEN <<>> ELSE <<x.n[1] * UnitSeconds[x.unit]>>
Shown(row) == IF form # "expectation" THEN row
              ELSE [f \in Fields |-> ToUnitAndVal(row[f], IF f = "delay" THEN "seconds" ELSE "minutes")]
ExpectationPayload(v) == [f \in DOMAIN v |-> ToSeconds(v[f])]
Submission(v) == CASE form = "alert" -> AlertPayload(v) [] form = "channel" -> ChannelPayload(v)
                [] form = "project" -> ProjectPayload(v) [] form = "job" -> JobPayload(v)
                [] form = "expectation" -> ExpectationPayload(v) [] OTHER -> v

(* What is refused before anything is sent. *)
PolicyValid(v)  == v["channel"] # None
RunbookValid(v) == v["steps"] # <<>>
ExpectationValid(v) == ToSeconds(v["interval"]) # <<0>>
Valid(v) == CASE form = "policy" -> PolicyValid(v) [] form = "runbook" -> RunbookValid(v)
              [] form = "expectation" -> ExpectationValid(v) [] OTHER -> TRUE

Creates    == form \notin {"expectation", "settings"}
EditsRows  == form \notin {"invite", "team", "key"}
Inputting  == at \notin {"closed", "key"}
Mutation   == form \in {"runbook", "expectation", "settings"}   \* Save waits for any save
(* whether openings for a and b are openings of one dialog: each project and each
   expectation has its own, jobs have one to create and one to edit *)
OneDialog(a, b) == CASE form \in {"project", "expectation"} -> a = b
                     [] form = "job" -> (a = "new") = (b = "new")
                     [] OTHER -> TRUE
(* the effects that fill an open dialog again *)
AlertRefills(before, after)   == Cardinality(before) # Cardinality(after)
RunbookRefills(before, after) == before # after
(* and the one that moves a rule of another project to the first project *)
AlertFits(v, ps) == IF form # "alert" \/ v["project"] \in ps THEN v
                    ELSE [v EXCEPT !["project"] = CHOOSE p \in ps : \A q \in ps : p <= q,
                                   !["job"] = None]
ExpectationRefills(a, b)      == a # b

-----------------------------------------------------------------------------
FInit ==
  /\ form \in Dialogs
  /\ srv = [r \in Rows |-> Row(IF r = "r1" THEN 0 ELSE 1)] /\ rows = srv
  /\ projects \in IF form = "policy" THEN {{1}, Scope} ELSE {Scope}
  /\ at = IF form = "settings" THEN "r1" ELSE "closed"
  /\ val = Shown(Row(0)) /\ filled = IF form = "settings" THEN "r1" ELSE "new"
  /\ saves = {} /\ opening = 0 /\ stored = <<>> /\ intent = <<>>
  /\ excuse = FALSE /\ ended = "no" /\ typed = 0 /\ sent = 0 /\ others = 0 /\ faults = 0

Filled(a) == AlertFits(IF a = "new" THEN New ELSE Shown(rows[a]), projects)

(* a click on Create or on the edit button of a row *)
Open(a) ==
  /\ at = "closed" /\ opening < MaxOpened
  /\ IF a = "new" THEN Creates ELSE EditsRows
  /\ at' = a /\ val' = Filled(a) /\ filled' = a /\ opening' = opening + 1
  /\ intent' = <<>> /\ excuse' = FALSE /\ ended' = "no"
  /\ UNCHANGED <<form, srv, rows, projects, saves, stored, typed, sent, others, faults>>

(* the settings tab keeps its input when another team is picked *)
SwitchTeam(a) ==
  /\ form = "settings" /\ a # at /\ opening < MaxOpened /\ opening' = opening + 1
  /\ at' = a /\ intent' = <<>> /\ ended' = "no"
  /\ UNCHANGED <<form, srv, rows, projects, val, filled, saves, stored, excuse, typed, sent,
                 others, faults>>

Entered(f, x) == [g \in {h \in DOMAIN intent : Picked(f, x)[h] = intent[h]} \cup {f} |->
                    Picked(f, x)[g]]
Type(f, x) ==
  /\ Inputting /\ f \in Fields /\ x # val[f] /\ Offers(f, x)
  /\ f = "steps" => x \in StepEdits(val[f])
  /\ typed < MaxTyped /\ typed' = typed + 1
  /\ val' = Picked(f, x) /\ intent' = Entered(f, x)
  /\ UNCHANGED <<form, srv, rows, projects, at, filled, saves, opening, stored, excuse, ended,
                 sent, others, faults>>

Submit ==
  /\ Inputting /\ Valid(val) /\ sent < MaxSaves /\ sent' = sent + 1
  /\ \A s \in saves : s.n # opening /\ (Mutation => ~OneDialog(s.to, at))
  /\ form = "settings" => val["name"] # rows[at]["name"]
  /\ saves' = saves \cup {[st |-> "sent", n |-> opening, to |-> at, from |-> filled,
                           v |-> Submission(val), all |-> val]}
  /\ UNCHANGED <<form, srv, rows, projects, at, val, filled, opening, stored, intent, excuse,
                 ended, typed, others, faults>>

Merge(old, new) == [f \in DOMAIN old |-> IF f \in DOMAIN new THEN new[f] ELSE old[f]]
Apply(s) == srv' = IF s.to = "new" THEN srv ELSE [srv EXCEPT ![s.to] = Merge(@, s.v)]
Serve(s) ==
  /\ s \in saves /\ s.st = "sent" /\ Apply(s)
  /\ saves' = (saves \ {s}) \cup {[s EXCEPT !.st = "ok"]}
  /\ UNCHANGED <<form, rows, projects, at, val, filled, opening, stored, intent, excuse, ended,
                 typed, sent, others, faults>>
SaveLost(s) ==
  /\ s \in saves /\ s.st = "sent" /\ faults < MaxFaults /\ faults' = faults + 1
  /\ saves' = (saves \ {s}) \cup {[s EXCEPT !.st = "failed"]}
  /\ Apply(s) \/ UNCHANGED srv
  /\ UNCHANGED <<form, rows, projects, at, val, filled, opening, stored, intent, excuse, ended,
                 typed, sent, others>>

(* CreateAPIKeyModal shows the key it was answered, once: if it has been closed
   meanwhile the key is never seen. *)
KeyCreated(s) ==
  /\ form = "key" /\ s \in saves /\ s.st = "ok" /\ saves' = saves \ {s}
  /\ IF at = "new" /\ s.n = opening
     THEN /\ at' = "key" /\ ended' = "saved" /\ stored' = s.v
          /\ excuse' = (excuse \/ s.all # val)
     ELSE UNCHANGED <<at, ended, stored, excuse>>
  /\ UNCHANGED <<form, srv, rows, projects, val, filled, opening, intent, typed, sent,
                 others, faults>>
(* an accepted save fetches the rows and closes its dialog, whatever that is open
   for by now; the settings tab stays *)
Saved(s) ==
  /\ form # "key" /\ s \in saves /\ s.st = "ok" /\ saves' = saves \ {s}
  /\ LET closes == at # "closed" /\ form # "settings" /\ OneDialog(s.to, at)
     IN /\ at' = IF closes THEN "closed" ELSE at
        /\ ended' = IF closes THEN "saved" ELSE ended
  /\ stored' = s.v
  /\ excuse' = (excuse \/ s.n # opening \/ s.all # val \/ Cardinality(saves) > 1)
  /\ UNCHANGED <<form, srv, rows, projects, val, filled, opening, intent, typed, sent,
                 others, faults>>
(* a failed one is reported in the dialog *)
Failed(s) ==
  /\ s \in saves /\ s.st = "failed" /\ saves' = saves \ {s}
  /\ UNCHANGED <<form, srv, rows, projects, at, val, filled, opening, stored, intent, excuse,
                 ended, typed, sent, others, faults>>
Cancel ==
  /\ at # "closed" /\ form # "settings" /\ at' = "closed"
  /\ ended' = IF at = "key" THEN ended ELSE "cancelled"
  /\ UNCHANGED <<form, srv, rows, projects, val, filled, saves, opening, stored, intent, excuse,
                 typed, sent, others, faults>>

-----------------------------------------------------------------------------
Stored(x) == IF form = "expectation" THEN ToSeconds(x) ELSE x
OtherEdit(r, f, x) ==
  /\ others < MaxOthers /\ others' = others + 1
  /\ EditsRows /\ f \in Fields \ {"project", "team", "job", "channel", "steps"} /\ Stored(x) # srv[r][f]
  /\ f = "interval" => Stored(x) # <<0>>
  /\ srv' = [srv EXCEPT ![r][f] = Stored(x)]
  /\ UNCHANGED <<form, rows, projects, at, val, filled, saves, opening, stored, intent, excuse,
                 ended, typed, sent, faults>>

(* the rows are fetched again; a dialog filled by an effect on its row starts
   over if the row has changed *)
RowsFetched ==
  /\ rows # srv /\ rows' = srv
  /\ LET refill == form = "expectation" /\ at # "closed" /\ ExpectationRefills(rows[at], srv[at])
     IN /\ val' = IF refill THEN Shown(srv[at]) ELSE val
        /\ excuse' = (excuse \/ refill)
  /\ UNCHANGED <<form, srv, projects, at, filled, saves, opening, stored, intent, ended, typed,
                 sent, others, faults>>

(* the workspace is fetched again with another set of projects *)
ProjectsFetched(new) ==
  /\ form \in {"alert", "runbook"} /\ new # projects /\ projects' = new
  /\ others < MaxOthers /\ others' = others + 1
  /\ LET refill == at # "closed" /\ IF form = "alert" THEN AlertRefills(projects, new)
                                    ELSE RunbookRefills(projects, new)
         least  == CHOOSE p \in new : \A q \in new : p <= q
         again  == IF ~refill THEN val
                   ELSE IF at = "new" THEN [NoRef EXCEPT !["project"] = least] ELSE rows[at]
     IN /\ val' = IF at = "closed" THEN val ELSE AlertFits(again, new)
        /\ excuse' = (excuse \/ refill \/ val' # val)
  /\ UNCHANGED <<form, srv, rows, at, filled, saves, opening, stored, intent, ended, typed, sent,
                 faults>>

FNext ==
  \/ \E a \in Rows \cup {"new"} : Open(a)
  \/ \E a \in Rows : SwitchTeam(a)
  \/ \E f \in Fields : \E x \in Domain(f) : Type(f, x)
  \/ Submit \/ Cancel \/ RowsFetched
  \/ \E s \in saves : Serve(s) \/ SaveLost(s) \/ Saved(s) \/ KeyCreated(s) \/ Failed(s)
  \/ \E r \in Rows, f \in Fields : \E x \in Domain(f) : OtherEdit(r, f, x)
  \/ \E new \in (SUBSET Scope) \ {{}} : ProjectsFetched(new)

FSpec == FInit /\ [][FNext]_fvars

-----------------------------------------------------------------------------
(* While a dialog is open each input still holds what was last entered into it,
   and a dialog that closed because its save succeeded, or that shows the key it
   asked for, had sent all of that. The
   excuses: an effect filled the inputs again, an earlier save closed this
   opening, or something was typed while the save was under way; and the
   configuration of a channel whose type needs none. What an open dialog would
   send for an expectation nobody has touched is what the row has, but for a
   zero, which is sent as null. *)
TypedIsStored ==
  ~excuse =>
    /\ at # "closed" => \A f \in DOMAIN intent : val[f] = intent[f]
    /\ ended = "saved" => \A f \in DOMAIN intent :
         (form = "channel" /\ f = "config" => stored["type"] = "plain")
           => f \in DOMAIN stored /\ stored[f] = Stored(intent[f])
    /\ at # "closed" /\ form = "expectation" => \A f \in Fields \ DOMAIN intent :
         ExpectationPayload(val)[f] = IF rows[at][f] = <<0>> THEN <<>> ELSE rows[at][f]

(* What is sent names a job of the project it names, whatever was picked and
   refilled before, and it goes to the row its inputs were filled from; the
   settings tab alone keeps the inputs of the team before. *)
SubmissionsFit ==
  \A s \in saves : /\ form \in {"alert", "runbook"} => s.v["job"] \in {None, s.v["project"]}
                   /\ form # "settings" => s.to = s.from
=============================================================================
