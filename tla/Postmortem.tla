----------------------------- MODULE Postmortem -----------------------------
(***************************************************************************)
(* The postmortem of an incident as one user edits it in the browser       *)
(* (frontend/components/bjt/incidents/postmortem/postmortem-section.tsx)    *)
(* while others work on it through the same endpoints                      *)
(* (apps/incidents/services.py, views.py).  The editor overlays a local    *)
(* draft on the cached copy, saves all fields at once, saves before it     *)
(* submits or completes a review, and keeps one edit form per action item  *)
(* that is filled when the row first appears.  A text is the number of the *)
(* keystroke that produced it, 0 when empty.                               *)
(***************************************************************************)
EXTENDS Naturals, FiniteSets

CONSTANTS
  Fields,     \* text fields of the postmortem
  Summary,    \* the one a review needs
  Items,      \* ids the action items table may use
  Manages,    \* this user manages the project
  MaxTyped,   \* bound: texts typed by this user
  MaxSends,   \* bound: requests of this user about action items
  MaxOthers,  \* bound: changes made by others
  MaxFaults   \* bound: failed requests

VARIABLES
  pm,        \* the postmortem on the server: exists, status, text
  item,      \* its action items: status and body, or not added yet, or deleted
  copy,      \* ["postmortem", id]: what was last fetched of both
  req,       \* the request that fetches it
  pushes,    \* pushes on their way here
  draft,     \* texts typed since the last save, 0 for none
  dirty,
  save,      \* the request that saves, with its texts and what follows it
  step,      \* the request that submits or completes the review
  adding,    \* the add-item form and the number of its requests under way
  form,      \* per item, the edit form of its row
  edit,      \* per item, the requests of its row: of the form, the status, the bin
  typed,     \* number of texts typed so far
  last,      \* ghost: per field, the last text typed
  kept,      \* ghost: texts of this user the server has accepted
  discarded, \* ghost: texts typed while a save was under way
  asked,     \* ghost: the draft a review was asked for, less what was saved over since
  reviewed,  \* ghost: the review step found what was asked for
  unsynced,  \* ghost: a fetch failed since the last one
  sends, others, faults

vars == <<pm, item, copy, req, pushes, draft, dirty, save, step, adding, form, edit, typed, last,
          kept, discarded, asked, reviewed, unsynced, sends, others, faults>>
srvVars  == <<pm, item, pushes>>
textVars == <<draft, dirty, save, step, typed, last, kept, discarded, asked, reviewed>>
itemVars == <<adding, form, edit, sends>>
netVars  == <<copy, req, unsynced>>

Blank    == [f \in Fields |-> 0]
NoItem   == [status |-> "none", body |-> 0]
NoForm   == [seen |-> FALSE, editing |-> FALSE, status |-> "none", body |-> 0]
NoSave   == [st |-> "idle", text |-> Blank, next |-> "none"]
NoStep   == [st |-> "idle", kind |-> "none"]
Gone     == [status |-> "deleted", body |-> 0]
ItemStatuses == {"PENDING", "IN_PROGRESS", "COMPLETED"}
Listed(i, items) == items[i].status \in ItemStatuses
NoPostmortem == [exists |-> FALSE, status |-> "PENDING", text |-> Blank]

Init ==
  /\ pm = NoPostmortem /\ item = [i \in Items |-> NoItem]
  /\ copy = [pm |-> pm, items |-> item] /\ req = [st |-> "none", data |-> copy] /\ pushes = 0
  /\ draft = Blank /\ dirty = FALSE /\ save = NoSave /\ step = NoStep
  /\ adding = [open |-> FALSE, title |-> 0, sent |-> 0]
  /\ form = [i \in Items |-> NoForm] /\ edit = [i \in Items |-> {}]
  /\ typed = 0 /\ last = Blank /\ kept = {} /\ discarded = {}
  /\ asked = Blank /\ reviewed = TRUE /\ unsynced = FALSE /\ sends = 0 /\ others = 0 /\ faults = 0

ReadOnly == copy.pm.exists /\ copy.pm.status = "COMPLETED"
InReview == copy.pm.exists /\ copy.pm.status = "IN_REVIEW"
Current  == [f \in Fields |-> IF draft[f] # 0 THEN draft[f] ELSE copy.pm.text[f]]
CanEdit  == ~ReadOnly /\ Manages
Sent     == [st |-> "sent", data |-> [pm |-> NoPostmortem, items |-> [i \in Items |-> NoItem]]]
Idle     == [Sent EXCEPT !.st = "none"]

-----------------------------------------------------------------------------
(* The server. *)
Saved(text) ==
  /\ ~(pm.exists /\ pm.status = "COMPLETED")
  /\ pm' = [exists |-> TRUE, status |-> pm.status, text |-> text]

StepAllowed(kind) ==
  /\ pm.status = IF kind = "submit" THEN "PENDING" ELSE "IN_REVIEW"
  /\ pm.text[Summary] # 0
Stepped(kind) ==
  /\ StepAllowed(kind)
  /\ pm' = [pm EXCEPT !.exists = TRUE,
                      !.status = IF kind = "submit" THEN "IN_REVIEW" ELSE "COMPLETED"]

(* a refused review step of a postmortem that did not exist is rolled back *)
ItemAdded(b) ==
  /\ pm.status # "COMPLETED"
  /\ \E i \in Items : item[i] = NoItem /\ item' = [item EXCEPT ![i] = [status |-> "PENDING", body |-> b]]
  /\ pm' = [pm EXCEPT !.exists = TRUE]
ItemChanged(i, s, b) ==
  /\ Listed(i, item) /\ pm.status # "COMPLETED"
  /\ item' = [item EXCEPT ![i] = [status |-> s, body |-> b]]
ItemDeleted(i) ==
  /\ Listed(i, item) /\ pm.status # "COMPLETED"
  /\ item' = [item EXCEPT ![i] = Gone]

(* Another user: a save and a deletion publish nothing. *)
Other ==
  /\ others < MaxOthers /\ others' = others + 1
  /\ \/ /\ \E f \in Fields : Saved([pm.text EXCEPT ![f] = MaxTyped + 1])
        /\ asked' = Blank /\ UNCHANGED <<item, pushes>>
     \/ /\ \E kind \in {"submit", "complete"} : Stepped(kind)
        /\ pushes' = pushes + 1 /\ UNCHANGED <<item, asked>>
     \/ ItemAdded(MaxTyped + 1) /\ pushes' = pushes + 1 /\ UNCHANGED asked
     \/ /\ \E i \in Items, s \in ItemStatuses : ItemChanged(i, s, item[i].body)
        /\ pushes' = pushes + 1 /\ UNCHANGED <<pm, asked>>
     \/ \E i \in Items : ItemDeleted(i) /\ UNCHANGED <<pm, pushes, asked>>
  /\ UNCHANGED <<draft, dirty, save, step, typed, last, kept, discarded, reviewed, itemVars,
                 netVars, faults>>

-----------------------------------------------------------------------------
(* The document: typing, saving, and the two review buttons. *)
Update(f) ==
  /\ ~ReadOnly /\ ~InReview
  /\ typed < MaxTyped /\ typed' = typed + 1
  /\ draft' = [draft EXCEPT ![f] = typed'] /\ dirty' = TRUE
  /\ last' = [last EXCEPT ![f] = typed']
  /\ UNCHANGED <<srvVars, save, step, kept, discarded, asked, reviewed, itemVars, netVars,
                 others, faults>>

SaveStarts(next) == save' = [st |-> "sent", text |-> Current, next |-> next]
SaveClicked ==
  /\ dirty /\ ~ReadOnly /\ save.st = "idle"
  /\ SaveStarts("none")
  /\ UNCHANGED <<srvVars, draft, dirty, step, typed, last, kept, discarded, asked, reviewed,
                 itemVars, netVars, others, faults>>

(* A faulty button: the review step does not wait for the save. *)
ReviewClickedAtOnce(kind) ==
  /\ step.st = "idle" /\ save.st = "idle" /\ copy.pm.exists
  /\ IF kind = "submit" THEN copy.pm.status = "PENDING" ELSE InReview /\ Manages
  /\ Current[Summary] # 0
  /\ asked' = draft
  /\ IF dirty THEN SaveStarts("none") ELSE UNCHANGED save
  /\ step' = [st |-> "sent", kind |-> kind]
  /\ UNCHANGED <<srvVars, draft, dirty, typed, last, kept, discarded, reviewed, itemVars,
                 netVars, others, faults>>

(* handleSubmitReview and handleCompleteReview: nothing without a summary, the
   draft is saved first, and a failed save stops here *)
ReviewClicked(kind) ==
  /\ step.st = "idle" /\ save.st = "idle" /\ copy.pm.exists
  /\ IF kind = "submit" THEN copy.pm.status = "PENDING" ELSE InReview /\ Manages
  /\ Current[Summary] # 0
  /\ asked' = draft
  /\ IF dirty THEN SaveStarts(kind) /\ UNCHANGED step
     ELSE step' = [st |-> "sent", kind |-> kind] /\ UNCHANGED save
  /\ UNCHANGED <<srvVars, draft, dirty, typed, last, kept, discarded, reviewed, itemVars,
                 netVars, others, faults>>

SaveServed ==
  /\ save.st = "sent"
  /\ \/ /\ Saved(save.text) /\ save' = [save EXCEPT !.st = "ok"]
        /\ kept' = kept \cup {save.text[f] : f \in Fields}
        /\ asked' = [f \in Fields |-> IF save.next = "none" /\ asked[f] # save.text[f]
                                       THEN 0 ELSE asked[f]]
     \/ /\ pm.exists /\ pm.status = "COMPLETED"
        /\ save' = [save EXCEPT !.st = "failed"] /\ UNCHANGED <<pm, kept, asked>>
  /\ UNCHANGED <<item, pushes, draft, dirty, step, typed, last, discarded, reviewed,
                 itemVars, netVars, others, faults>>
SaveLost ==
  /\ save.st = "sent" /\ faults < MaxFaults /\ faults' = faults + 1
  /\ save' = [save EXCEPT !.st = "failed"]
  /\ UNCHANGED <<srvVars, draft, dirty, step, typed, last, kept, discarded, asked, reviewed,
                 itemVars, netVars, others>>

(* onSuccess: refetch and empty the draft, with what was typed meanwhile *)
SaveSucceeds ==
  /\ save.st = "ok" /\ save' = NoSave
  /\ dirty' = FALSE /\ draft' = Blank
  /\ discarded' = discarded \cup {draft[f] : f \in {g \in Fields : draft[g] # save.text[g]}}
  /\ req' = Sent
  /\ step' = IF save.next = "none" THEN step ELSE [st |-> "sent", kind |-> save.next]
  /\ UNCHANGED <<srvVars, copy, unsynced, typed, last, kept, asked, reviewed, itemVars, others, faults>>
SaveFailsEmpty ==   \* a fault: the draft goes with the failed save
  /\ save.st = "failed" /\ save' = NoSave /\ draft' = Blank /\ dirty' = FALSE
  /\ UNCHANGED <<srvVars, step, typed, last, kept, discarded, asked, reviewed, itemVars, netVars,
                 others, faults>>
SaveFails ==
  /\ save.st = "failed" /\ save' = NoSave
  /\ UNCHANGED <<srvVars, draft, dirty, step, typed, last, kept, discarded, asked, reviewed,
                 itemVars, netVars, others, faults>>

StepServed ==
  /\ step.st = "sent"
  /\ IF StepAllowed(step.kind)
     THEN /\ Stepped(step.kind) /\ pushes' = pushes + 1
          /\ step' = [step EXCEPT !.st = "ok"]
          /\ reviewed' = (\A f \in Fields : asked[f] \in {0, pm.text[f]})
     ELSE step' = [step EXCEPT !.st = "failed"] /\ UNCHANGED <<pm, pushes, reviewed>>
  /\ UNCHANGED <<item, draft, dirty, save, typed, last, kept, discarded, asked, itemVars, netVars,
                 others, faults>>
StepSettles ==
  /\ step.st \in {"ok", "failed"} /\ step' = NoStep
  /\ req' = IF step.st = "ok" THEN Sent ELSE req
  /\ UNCHANGED <<srvVars, copy, unsynced, draft, dirty, save, typed, last, kept, discarded, asked,
                 reviewed, itemVars, others, faults>>

-----------------------------------------------------------------------------
(* The action items. *)
AddTyped ==
  /\ CanEdit \/ adding.open
  /\ adding' = [adding EXCEPT !.open = TRUE, !.title = 1]
  /\ UNCHANGED <<srvVars, textVars, form, edit, netVars, sends, others, faults>>
AddCancelled ==
  /\ adding.open /\ adding' = [adding EXCEPT !.open = FALSE, !.title = 0]
  /\ UNCHANGED <<srvVars, textVars, form, edit, netVars, sends, others, faults>>
(* the button waits for the request under way, the Enter key does not *)
AddSubmitted(key) ==
  /\ adding.open /\ adding.title # 0 /\ (key = "Enter" \/ adding.sent = 0)
  /\ sends < MaxSends /\ sends' = sends + 1
  /\ adding' = [adding EXCEPT !.sent = @ + 1]
  /\ UNCHANGED <<srvVars, textVars, form, edit, netVars, others, faults>>
(* accepted, with onSuccess clearing the form, or refused *)
AddServed ==
  /\ adding.sent > 0
  /\ \/ /\ ItemAdded(0) /\ pushes' = pushes + 1
        /\ adding' = [open |-> FALSE, title |-> 0, sent |-> adding.sent - 1]
        /\ req' = Sent
     \/ /\ pm.status = "COMPLETED"
        /\ adding' = [adding EXCEPT !.sent = @ - 1] /\ UNCHANGED <<srvVars, req>>
  /\ UNCHANGED <<textVars, form, edit, copy, unsynced, sends, others, faults>>

(* the pencil shows the form as it was filled when the row appeared, or as it
   was left by an edit that was cancelled *)
EditOpened(i) ==
  /\ CanEdit /\ form[i].seen /\ ~form[i].editing
  /\ form' = [form EXCEPT ![i].editing = TRUE]
  /\ UNCHANGED <<srvVars, textVars, adding, edit, netVars, sends, others, faults>>
EditTyped(i, s) ==
  /\ form[i].editing /\ form' = [form EXCEPT ![i].status = s, ![i].body = 1]
  /\ UNCHANGED <<srvVars, textVars, adding, edit, netVars, sends, others, faults>>
EditCancelled(i) ==
  /\ form[i].editing /\ form' = [form EXCEPT ![i].editing = FALSE]
  /\ UNCHANGED <<srvVars, textVars, adding, edit, netVars, sends, others, faults>>
RowRequest(i, kind, s, b) ==
  /\ \A r \in edit[i] : r.kind # kind
  /\ sends < MaxSends /\ sends' = sends + 1
  /\ edit' = [edit EXCEPT ![i] = @ \cup {[kind |-> kind, status |-> s, body |-> b]}]
  /\ UNCHANGED <<srvVars, textVars, adding, form, netVars, others, faults>>
EditSaved(i) == form[i].editing /\ RowRequest(i, "form", form[i].status, form[i].body)
(* the owner of an item, a choice here, may change its status too *)
StatusChosen(i, s) == form[i].seen /\ ~form[i].editing /\ ~ReadOnly /\ RowRequest(i, "status", s, 0)
DeleteClicked(i) == form[i].seen /\ ~form[i].editing /\ CanEdit /\ RowRequest(i, "delete", "none", 0)

RowServed(i) == \E r \in edit[i] :
  /\ IF Listed(i, item) /\ pm.status # "COMPLETED"
     THEN /\ CASE r.kind = "form"   -> ItemChanged(i, r.status, r.body)
               [] r.kind = "status" -> ItemChanged(i, r.status, item[i].body)
               [] r.kind = "delete" -> ItemDeleted(i)
          /\ pushes' = IF r.kind = "delete" THEN pushes ELSE pushes + 1
          /\ req' = Sent
          /\ form' = [form EXCEPT ![i].editing = @ /\ r.kind # "form"]
     ELSE UNCHANGED <<item, pushes, req, form>>
  /\ edit' = [edit EXCEPT ![i] = @ \ {r}]
  /\ UNCHANGED <<pm, textVars, adding, copy, unsynced, sends, others, faults>>
(* a request about an item that is lost before it reaches the server *)
ItemRequestLost ==
  /\ faults < MaxFaults /\ faults' = faults + 1
  /\ \/ \E i \in Items, r \in UNION {edit[j] : j \in Items} :
          r \in edit[i] /\ edit' = [edit EXCEPT ![i] = @ \ {r}] /\ UNCHANGED adding
     \/ adding.sent > 0 /\ adding' = [adding EXCEPT !.sent = @ - 1] /\ UNCHANGED edit
  /\ UNCHANGED <<srvVars, textVars, form, sends, netVars, others>>

-----------------------------------------------------------------------------
PushIgnored ==   \* a fault: an event fetches nothing
  /\ pushes > 0 /\ pushes' = pushes - 1
  /\ UNCHANGED <<pm, item, textVars, itemVars, netVars, others, faults>>

(* postmortem.updated and postmortem.action_item.updated fetch the copy again *)
PushArrives ==
  /\ pushes > 0 /\ pushes' = pushes - 1 /\ req' = Sent
  /\ UNCHANGED <<pm, item, textVars, itemVars, copy, unsynced, others, faults>>

FetchRead ==
  /\ req.st = "sent" /\ req' = [st |-> "read", data |-> [pm |-> pm, items |-> item]]
  /\ UNCHANGED <<srvVars, textVars, itemVars, copy, unsynced, others, faults>>
(* rows that appear get a form filled from the copy, rows that go lose theirs *)
FetchLands ==
  /\ req.st = "read" /\ req' = Idle /\ copy' = req.data /\ unsynced' = FALSE
  /\ form' = [i \in Items |->
                IF ~Listed(i, copy'.items) THEN NoForm
                ELSE IF form[i].seen THEN form[i]
                ELSE [seen |-> TRUE, editing |-> FALSE, status |-> copy'.items[i].status,
                      body |-> copy'.items[i].body]]
  /\ UNCHANGED <<srvVars, textVars, adding, edit, sends, others, faults>>
FetchFails ==
  /\ req.st = "sent" /\ req' = Idle /\ unsynced' = TRUE
  /\ faults < MaxFaults /\ faults' = faults + 1
  /\ UNCHANGED <<srvVars, textVars, itemVars, copy, others>>

Document == \/ \E f \in Fields : Update(f)
            \/ SaveClicked \/ SaveServed \/ SaveLost \/ SaveSucceeds \/ SaveFails
            \/ \E kind \in {"submit", "complete"} : ReviewClicked(kind)
            \/ StepServed \/ StepSettles
ActionItems == \/ AddTyped \/ AddCancelled \/ AddServed \/ \E key \in {"Enter", "click"} : AddSubmitted(key)
               \/ \E i \in Items : \/ EditOpened(i) \/ EditCancelled(i) \/ EditSaved(i)
                                   \/ DeleteClicked(i) \/ RowServed(i)
               \/ \E i \in Items, s \in ItemStatuses : EditTyped(i, s) \/ StatusChosen(i, s)
               \/ ItemRequestLost
Cached == PushArrives \/ FetchRead \/ FetchLands \/ FetchFails
Next == Document \/ ActionItems \/ Cached \/ Other

Fairness == /\ WF_vars(PushArrives) /\ WF_vars(FetchRead \/ FetchFails) /\ WF_vars(FetchLands)
            /\ WF_vars(SaveServed \/ SaveLost) /\ WF_vars(SaveSucceeds \/ SaveFails)
            /\ WF_vars(StepServed) /\ WF_vars(StepSettles) /\ WF_vars(AddServed)
            /\ \A i \in Items : WF_vars(RowServed(i))
Spec == Init /\ [][Next]_vars /\ Fairness

-----------------------------------------------------------------------------
(* The last text typed into each field is in the draft, in the save under way,
   was accepted by the server once, or was typed while a save was under way
   (whose onSuccess empties the whole draft). *)
TypedTextSurvives ==
  \A f \in Fields : \/ last[f] \in {0, draft[f]} \cup kept \cup discarded
                    \/ save.st # "idle" /\ last[f] = save.text[f]

(* What handleSubmitReview and handleCompleteReview send for review contains
   the draft of the moment of the click, unless somebody saved over it since. *)
SubmittedIncludesDraft == reviewed
DraftIsKept == TypedTextSurvives /\ SubmittedIncludesDraft

(* The table shows every action item as the server has it at last, whoever
   added or changed it, as long as the last request did not fail. *)
ItemsArrive == <>[](unsynced \/ \A i \in Items : Listed(i, item) => copy.items[i] = item[i])
=============================================================================
