---------------------------- MODULE IncidentPage ----------------------------
(***************************************************************************)
(* The page of one incident (frontend/app/(dashboard)/incidents/[id]/      *)
(* page.tsx) over its cached queries: the incident itself, its row in the  *)
(* cached lists, its notes and its timeline.  The page shows the outcome   *)
(* of an action before the server answers, takes it back when the request  *)
(* fails, and meanwhile receives pushes (realtime-provider.tsx).  The      *)
(* server applies the actions of this and of other users one at a time and *)
(* publishes one event for each, which may overtake others or be lost.     *)
(* A request fails for good after its one retry, and what is cached stays; *)
(* the page of an incident whose last request failed shows nothing else.   *)
(***************************************************************************)
EXTENDS Naturals, FiniteSets

CONSTANTS
  Members,     \* team members an incident may be assigned to
  NoOne,       \* unassigned
  Me,          \* this user
  Manages,     \* this user manages the project
  Kinds,       \* the actions explored: ack, resolve, reopen, note; any other is an
               \* assignment, of which several may be under way
  Queries,     \* the requests explored: incident, notes, events
  MaxActs,     \* bound: actions of this user
  MaxCommits,  \* bound: changes of the incident on the server
  MaxFaults    \* bound: failed requests and lost pushes

VARIABLES
  srv,      \* the incident on the server: status and assignee
  commits,  \* number of changes: each gets a timeline row of this number
  noted,    \* the numbers of the changes that added a note
  pushes,   \* published events: number, kind and status
  detail,   \* ["incident", id]; owner is assigned_to_user_id
  row,      \* the incident in the cached ["incidents", ...] lists
  notes,    \* ["incident-notes", id]: rows of the server and rows appended here
  events,   \* ["incident-events", id], likewise
  req,      \* per query, the request under way
  mut,      \* per mutation, the request under way
  failed,   \* isError: the last request for the incident failed, nothing is shown
  dialog,   \* the confirmation of a reopening is shown
  raced,    \* ghost: a status change met another one under way, or was lost
  phantom,  \* ghost: a failed action was not taken back in the row
  lost,     \* ghost: notes whose event, or the request it led to, failed
  acts, faults

vars == <<srv, commits, noted, pushes, detail, row, notes, events, req, mut,
          failed, dialog, raced, phantom, lost, acts, faults>>

NoRequest   == [st |-> "none", rows |-> {}]
Blank       == [status |-> "OPEN", assigned |-> NoOne, owner |-> NoOne]
Idle        == [st |-> "idle", to |-> NoOne, prev |-> Blank, res |-> Blank, n |-> 0]

Init ==
  /\ srv = Blank
  /\ commits = 0 /\ noted = {} /\ pushes = {}
  /\ detail = srv /\ row = srv
  /\ notes = [server |-> {}, local |-> {}] /\ events = notes
  /\ req = [q \in Queries |-> NoRequest]
  /\ mut = [k \in Kinds |-> Idle] /\ failed = FALSE /\ dialog = FALSE
  /\ raced = FALSE /\ phantom = FALSE /\ lost = {} /\ acts = 0 /\ faults = 0

Acting == \E k \in Kinds \ {"note"} : mut[k].st # "idle"
Loading(q) == q \in Queries /\ req[q].st # "none"
Assigns(k) == k \notin {"ack", "resolve", "reopen", "note"}
StatusPushes == {p \in pushes : p.kind # "note"}

-----------------------------------------------------------------------------
(* The server: what each endpoint does to an incident, if it accepts it. *)
Accepts(k) ==
  CASE k = "ack"     -> srv.status = "OPEN"
    [] k = "resolve" -> srv.status # "RESOLVED"
    [] k = "reopen"  -> srv.status = "RESOLVED"
    [] k = "note"    -> TRUE
    [] OTHER         -> srv.status # "RESOLVED"

StatusOf(k, i) == CASE k = "ack" -> "ACKNOWLEDGED" [] k = "resolve" -> "RESOLVED"
                    [] k = "reopen" -> "OPEN" [] OTHER -> i.status
Applied(k, to, i) == [status |-> StatusOf(k, i),
                      assigned |-> IF Assigns(k) THEN to ELSE i.assigned,
                      owner |-> IF Assigns(k) THEN to ELSE i.owner]

(* a change, its timeline row and the event published after the commit *)
Commit(k, to) ==
  /\ commits < MaxCommits /\ commits' = commits + 1
  /\ srv' = Applied(k, to, srv)
  /\ noted' = IF k = "note" THEN noted \cup {commits + 1} ELSE noted
  /\ pushes' = pushes \cup {[n |-> commits + 1, kind |-> IF k = "note" THEN "note" ELSE "status",
                             status |-> Applied(k, to, srv).status]}

(* another user, or the worker that resolves automatically *)
Other(k) ==
  /\ Accepts(k) /\ \E to \in Members \cup {NoOne} : Commit(k, to)
  /\ raced' = (raced \/ (k # "note" /\ (Acting \/ StatusPushes # {}
                                          \/ Loading("incident"))))
  /\ UNCHANGED <<detail, row, notes, events, req, mut, phantom, lost, acts, faults, dialog, failed>>

-----------------------------------------------------------------------------
(* The buttons, the assignee select and the note form. *)
CanAckOrResolve == Manages \/ detail.owner = Me
Offered(k) ==
  CASE k = "ack"     -> CanAckOrResolve /\ detail.status = "OPEN"
    [] k = "resolve" -> CanAckOrResolve /\ detail.status # "RESOLVED"
    [] k = "reopen"  -> dialog
    [] OTHER         -> Manages

(* the confirmation stays up whatever happens to the incident behind it *)
ReopenAsked ==
  /\ "reopen" \in Kinds /\ ~failed /\ ~dialog /\ dialog' = TRUE
  /\ Manages /\ detail.status = "RESOLVED" /\ mut["reopen"].st = "idle"
  /\ UNCHANGED <<srv, commits, noted, pushes, detail, row, notes, events, req, mut, raced, phantom,
                 lost, acts, faults, failed>>
ReopenCancelled ==
  /\ ~failed /\ dialog /\ dialog' = FALSE
  /\ UNCHANGED <<srv, commits, noted, pushes, detail, row, notes, events, req, mut, raced, phantom,
                 lost, acts, faults, failed>>

(* what the page shows of an outcome ahead of the answer: the assignee's name,
   not the user id that allows him to act *)
Shown(k, to, i) == [Applied(k, to, i) EXCEPT !.owner = i.owner]

(* onMutate: the request for the incident is cancelled, what the page shows is
   remembered and the outcome is shown in the page and in the lists.  A button
   waits for its own request; the assignee select for none. *)
Act(k, to) ==
  /\ k # "note" /\ ~failed /\ Offered(k) /\ mut[k].st = "idle"
  /\ acts < MaxActs /\ acts' = acts + 1
  /\ mut' = [mut EXCEPT ![k] = [st |-> "sent", to |-> to, prev |-> detail, res |-> Blank, n |-> 0]]
  /\ req' = [q \in Queries |-> IF q = "incident" THEN NoRequest ELSE req[q]]
  /\ detail' = Shown(k, to, detail)
  /\ row' = Shown(k, to, row)
  /\ dialog' = (dialog /\ k # "reopen")
  /\ raced' = (raced \/ Acting \/ StatusPushes # {})
  /\ UNCHANGED <<srv, commits, noted, pushes, notes, events, phantom, lost, faults, failed>>

SubmitNote ==
  /\ "note" \in Kinds /\ ~failed /\ mut["note"].st = "idle"
  /\ acts < MaxActs /\ acts' = acts + 1
  /\ mut' = [mut EXCEPT !["note"].st = "sent"]
  /\ UNCHANGED <<srv, commits, noted, pushes, detail, row, notes, events, req, raced, phantom,
                 lost, faults, dialog, failed>>

(* the server answers with its copy, or refuses *)
Serve(k) ==
  /\ mut[k].st = "sent"
  /\ IF Accepts(k)
     THEN /\ Commit(k, mut[k].to)
          /\ mut' = [mut EXCEPT ![k].st = "ok", ![k].res = srv', ![k].n = commits']
     ELSE /\ mut' = [mut EXCEPT ![k].st = "failed"]
          /\ UNCHANGED <<srv, commits, noted, pushes>>
  /\ UNCHANGED <<detail, row, notes, events, req, raced, phantom, lost, acts, faults, dialog, failed>>

(* the request, or only its answer, is lost *)
RequestLost(k) ==
  /\ mut[k].st = "sent" /\ faults < MaxFaults /\ faults' = faults + 1
  /\ mut' = [mut EXCEPT ![k].st = "failed"]
  /\ \/ UNCHANGED <<srv, commits, noted, pushes, raced>>
     \/ Accepts(k) /\ Commit(k, mut[k].to) /\ raced' = (raced \/ k # "note")
  /\ UNCHANGED <<detail, row, notes, events, req, phantom, lost, acts, dialog, failed>>

(* onSuccess: the server's copy replaces the page's and the row's, and a
   timeline row made here is appended; an assignment appends none *)
OnSuccess(k) ==
  /\ k # "note" /\ mut[k].st = "ok"
  /\ mut' = [mut EXCEPT ![k] = Idle]
  /\ detail' = mut[k].res /\ row' = mut[k].res /\ phantom' = FALSE
  /\ failed' = FALSE
  /\ events' = IF Assigns(k) THEN events
               ELSE [events EXCEPT !.local = @ \cup {mut[k].n}]
  /\ UNCHANGED <<srv, commits, noted, pushes, notes, req, raced, lost, acts, faults, dialog>>

(* A faulty onError: the page keeps the outcome that failed. *)
OnErrorKeeps(k) ==
  /\ k # "note" /\ mut[k].st = "failed"
  /\ mut' = [mut EXCEPT ![k] = Idle]
  /\ phantom' = TRUE /\ failed' = FALSE
  /\ UNCHANGED <<srv, commits, noted, pushes, detail, row, notes, events, req, dialog, raced, lost,
                 acts, faults>>

(* onError: the page shows what it showed before; the lists are left *)
OnError(k) ==
  /\ k # "note" /\ mut[k].st = "failed"
  /\ mut' = [mut EXCEPT ![k] = Idle]
  /\ detail' = mut[k].prev
  /\ phantom' = TRUE /\ failed' = FALSE
  /\ UNCHANGED <<srv, commits, noted, pushes, row, notes, events, req, raced, lost, acts, faults,
                 dialog>>

(* the note form: the answer is appended to the cached notes *)
NoteSettled ==
  /\ "note" \in Kinds /\ mut["note"].st \in {"ok", "failed"}
  /\ mut' = [mut EXCEPT !["note"] = Idle]
  /\ notes' = IF mut["note"].st = "ok" THEN [notes EXCEPT !.local = @ \cup {mut["note"].n}]
              ELSE notes
  /\ UNCHANGED <<srv, commits, noted, pushes, detail, row, events, req, raced, phantom, lost,
                 acts, faults, dialog, failed>>

-----------------------------------------------------------------------------
(* Pushes and requests. *)
Sent == [st |-> "sent", rows |-> {}]
Invalidated(q) == [x \in Queries |-> IF x = q THEN Sent ELSE req[x]]

(* incident.updated carries the status only: it is patched into both caches *)
StatusPushed(p) ==
  /\ p \in pushes /\ p.kind = "status" /\ pushes' = pushes \ {p}
  /\ detail' = [detail EXCEPT !.status = p.status]
  /\ row' = [row EXCEPT !.status = p.status] /\ phantom' = FALSE /\ failed' = FALSE
  /\ UNCHANGED <<srv, commits, noted, notes, events, req, mut, raced, lost, acts, faults, dialog>>

NotePushedUnheard(p) ==   \* a fault: nothing is fetched
  /\ p \in pushes /\ p.kind = "note" /\ pushes' = pushes \ {p}
  /\ UNCHANGED <<srv, commits, noted, detail, row, notes, events, req, mut, dialog, raced, phantom,
                 lost, acts, faults, failed>>

(* incident.note.created carries no note: the cached notes are fetched again *)
NotePushed(p) ==
  /\ p \in pushes /\ p.kind = "note" /\ pushes' = pushes \ {p}
  /\ req' = Invalidated("notes")
  /\ UNCHANGED <<srv, commits, noted, detail, row, notes, events, mut, raced, phantom, lost, acts,
                 faults, dialog, failed>>

PushLost(p) ==
  /\ p \in pushes /\ pushes' = pushes \ {p}
  /\ faults < MaxFaults /\ faults' = faults + 1
  /\ raced' = (raced \/ p.kind = "status")
  /\ lost' = IF p.kind = "note" THEN lost \cup {p.n} ELSE lost
  /\ UNCHANGED <<srv, commits, noted, detail, row, notes, events, req, mut, phantom, acts,
                 dialog, failed>>

(* the page is mounted again after its cached data has become stale, or a
   runbook or postmortem step refreshes the timeline *)
Remount == /\ \A q \in Queries : req[q].st = "none"
           /\ req' = [q \in Queries |-> Sent] /\ dialog' = FALSE
           /\ raced' = (raced \/ Acting \/ StatusPushes # {})
           /\ UNCHANGED <<srv, commits, noted, pushes, detail, row, notes, events, mut, phantom,
                          lost, acts, faults, failed>>
TimelineRefreshed ==
  /\ "events" \in Queries /\ req' = Invalidated("events")
  /\ UNCHANGED <<srv, commits, noted, pushes, detail, row, notes, events, mut, raced, phantom,
                 lost, acts, faults, dialog, failed>>

RequestRead(q) ==
  /\ req[q].st = "sent"
  /\ req' = [req EXCEPT ![q] =
       [st |-> "read", rows |-> CASE q = "incident" -> {srv}
                                  [] q = "notes" -> noted
                                  [] q = "events" -> 1 .. commits]]
  /\ UNCHANGED <<srv, commits, noted, pushes, detail, row, notes, events, mut, raced, phantom,
                 lost, acts, faults, dialog, failed>>

(* an answer replaces what is cached, the rows appended here included *)
RequestLands(q) ==
  /\ req[q].st = "read" /\ req' = [req EXCEPT ![q] = NoRequest]
  /\ CASE q = "incident" -> detail' \in req[q].rows /\ UNCHANGED <<notes, events>>
       [] q = "notes"    -> notes' = [server |-> req[q].rows, local |-> {}] /\ UNCHANGED <<detail, events>>
       [] q = "events"   -> events' = [server |-> req[q].rows, local |-> {}] /\ UNCHANGED <<detail, notes>>
  /\ failed' = (failed /\ q # "incident")
  /\ UNCHANGED <<srv, commits, noted, pushes, row, mut, raced, phantom, lost, acts, faults,
                 dialog>>

(* what is cached stays; no one asks again for the notes it would have brought *)
Coming(n) == (\E p \in pushes : p.n = n) \/ (\E k \in Kinds : mut[k].n = n)
RequestFails(q) ==
  /\ req[q].st = "sent" /\ req' = [req EXCEPT ![q] = NoRequest]
  /\ faults < MaxFaults /\ faults' = faults + 1
  /\ failed' = (failed \/ q = "incident")
  /\ lost' = IF q = "notes" THEN lost \cup {n \in noted \ (notes.server \cup notes.local) : ~Coming(n)}
             ELSE lost
  /\ UNCHANGED <<srv, commits, noted, pushes, detail, row, notes, events, mut, raced, phantom,
                 acts, dialog>>

Next ==
  \/ \E k \in Kinds : Other(k) \/ Serve(k) \/ RequestLost(k) \/ OnSuccess(k) \/ OnError(k)
  \/ \E k \in Kinds, to \in Members \cup {NoOne} : (Assigns(k) \/ to = NoOne) /\ Act(k, to)
  \/ ReopenAsked \/ ReopenCancelled \/ SubmitNote \/ NoteSettled
  \/ \E p \in pushes : StatusPushed(p) \/ NotePushed(p) \/ PushLost(p)
  \/ Remount \/ TimelineRefreshed
  \/ \E q \in Queries : RequestRead(q) \/ RequestLands(q) \/ RequestFails(q)

(* requests are answered or fail, and messages arrive *)
Fairness ==
  /\ \A k \in Kinds : WF_vars(Serve(k) \/ RequestLost(k)) /\ WF_vars(OnSuccess(k) \/ OnError(k))
  /\ WF_vars(NoteSettled)
  /\ \A n \in 1 .. MaxCommits :
       WF_vars(\E p \in pushes : p.n = n /\ (StatusPushed(p) \/ NotePushed(p)))
  /\ \A q \in Queries : WF_vars(RequestRead(q) \/ RequestFails(q)) /\ WF_vars(RequestLands(q))
Spec == Init /\ [][Next]_vars /\ Fairness

-----------------------------------------------------------------------------
Settled == ~Acting /\ StatusPushes = {} /\ ~Loading("incident")

(* When nothing is under way, and no two changes of the status crossed each
   other or were lost, the page shows the server's status, and so does the row
   in the lists unless an action that failed left its outcome there. *)
DetailFollowsServer ==
  Settled /\ ~raced => /\ detail.status = srv.status
                       /\ row.status = srv.status \/ phantom

(* Every note that was added, here or by others, is shown at last, in whatever
   order events and answers arrive; what excuses one is the loss of its event, or
   the failure of a request made for it when nothing else would bring it. *)
NotesArrive == <>[](noted \subseteq notes.server \cup notes.local \cup lost)
=============================================================================
