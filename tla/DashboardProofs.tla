--------------------------- MODULE DashboardProofs ---------------------------
(***************************************************************************)
(* The parts of the dashboard agree with the server, for every number of   *)
(* rows, members, fields, figures, filters, actions and faults.  Each part *)
(* has an inductive invariant of its own, kept by its own steps because of *)
(* what they do and by the steps of all the others because they leave its  *)
(* variables alone; its property of Dashboard follows from it.             *)
(***************************************************************************)
EXTENDS Dashboard, FiniteSetTheorems, TLAPS

(***************************************************************************)
(* Row actions.  Two things lead an action to the row it was about: its    *)
(* success fetches the list again (RowsFollow), and on the projects, where *)
(* a row shows the outcome ahead, a row that shows something else than the *)
(* cache has a request to settle or an answer to come that will change the *)
(* cache, and the row with it (OwnStatus).  The latter needs that a row is *)
(* switched by one request at a time (OneSwitch).                          *)
(***************************************************************************)
RowStates == {"on", "off", "gone"}
Operation == [n : Nat, kind : {"toggle", "end"}, row : ListRows, to : RowStates, was : RowStates,
              st : {"sent", "ok", "failed", "waiting"}, open : BOOLEAN]
RowsType ==
  /\ server \in [ListRows -> RowStates] /\ cached \in [ListRows -> RowStates]
  /\ local \in [ListRows -> RowStates]
  /\ aFetch \in [st : {"none", "sent", "read"}, data : [ListRows -> RowStates]]
  /\ ops \in SUBSET Operation
  /\ acts \in Nat

(* An accepted action that has not been settled fetches the list again. *)
Announced(r) == r \in unseen \/ \E o \in ops : o.st = "ok" /\ o.row = r
RowsFollow ==
  \A r \in ListRows : /\ aFetch.st = "none" => cached[r] = server[r] \/ Announced(r)
                      /\ aFetch.st = "read" => aFetch.data[r] = server[r] \/ Announced(r)

Switches(o, r) == o.kind = "toggle" /\ o.row = r
OneSwitch ==
  \A o \in ops : /\ o.kind = "toggle" /\ o.st = "sent" => local[o.row] \in {o.to, cached[o.row]}
                 /\ o.kind = "end" => o.to = "gone"
                 /\ \A p \in ops : Switches(o, o.row) /\ Switches(p, o.row) => o = p

(* What will make the row show its cached status again: a request to settle, or
   an answer to come that differs from the cached one. *)
Unfinished(r) ==
  \E o \in ops : /\ Switches(o, r)
                 /\ o.st \in {"sent", "failed"} \/ (o.st = "ok" /\ server[r] # cached[r])
Due(r) == server[r] # cached[r] /\ (aFetch.st = "read" => aFetch.data[r] # cached[r])
OwnStatus ==
  \A r \in ListRows : \/ local[r] = cached[r] \/ cached[r] = "gone" \/ r \in overtaken
                      \/ Unfinished(r) \/ Due(r)

RowsInv == RowsType /\ RowsFollow /\ (list = "project" => OneSwitch /\ OwnStatus)

-----------------------------------------------------------------------------
LEMMA RowsStart == DashboardInit => RowsInv
<1> SUFFICES ASSUME Actions!AInit PROVE RowsInv
  BY DEF DashboardInit
<1>1. server \in [ListRows -> RowStates] /\ cached = server /\ local = server /\ ops = {} /\ acts = 0
  BY DEF Actions!AInit, RowStates
<1>2. aFetch.st = "none" /\ aFetch \in [st : {"none", "sent", "read"}, data : [ListRows -> RowStates]]
  BY DEF Actions!AInit, Actions!NoFetch, RowStates
<1> QED
  BY <1>1, <1>2 DEF RowsInv, RowsType, RowsFollow, OneSwitch, OwnStatus

(* What becomes of an operation that is answered, as a record. *)
LEMMA AnsweredType ==
  ASSUME RowsType, NEW o \in ops, NEW s \in {"sent", "ok", "failed", "waiting"}
  PROVE  LET p == [o EXCEPT !.st = s]
         IN  p \in Operation /\ p.st = s /\ p.row = o.row /\ p.kind = o.kind /\ p.to = o.to
               /\ p.was = o.was
BY DEF RowsType, Operation

(* The states a request may ask for. *)
LEMMA WantedStates ==
  ASSUME NEW k, NEW r \in ListRows
  PROVE  Actions!Wanted(k, r) \in RowStates
BY DEF Actions!Wanted, Actions!Ended, Actions!Accepted, Actions!Switched, RowStates

(* Serving a request, or losing it or its answer. *)
LEMMA ServedTo ==
  ASSUME RowsType, NEW o \in ops, Actions!Serve(o) \/ Actions!RequestLost(o)
  PROVE  \E s \in {"ok", "failed"} :
           /\ ops' = (ops \ {o}) \cup {[o EXCEPT !.st = s]}
           /\ \/ server' = server /\ s = "failed"
              \/ server' = [server EXCEPT ![o.row] = o.to] /\ (s = "failed" => o.row \in unseen')
           /\ unseen \subseteq unseen'
           /\ o.st = "sent"
           /\ UNCHANGED <<list, cached, local, aFetch, busy, dialog, overtaken, acts>>
BY DEF Actions!Serve, Actions!RequestLost

LEMMA ServeKeeps ==
  ASSUME RowsInv, NEW o \in ops, Actions!Serve(o) \/ Actions!RequestLost(o)
  PROVE  RowsInv'
<1>1. PICK s \in {"ok", "failed"} :
        /\ ops' = (ops \ {o}) \cup {[o EXCEPT !.st = s]}
        /\ \/ server' = server /\ s = "failed"
           \/ server' = [server EXCEPT ![o.row] = o.to] /\ (s = "failed" => o.row \in unseen')
        /\ unseen \subseteq unseen'
        /\ o.st = "sent"
        /\ UNCHANGED <<list, cached, local, aFetch, busy, dialog, overtaken, acts>>
  BY ServedTo DEF RowsInv
<1> DEFINE p == [o EXCEPT !.st = s]
<1>2. /\ p \in Operation /\ p.st = s /\ p.row = o.row /\ p.kind = o.kind /\ p.to = o.to
      /\ p.was = o.was /\ o.row \in ListRows /\ o.to \in RowStates /\ o \in Operation
  BY AnsweredType DEF RowsInv, RowsType, Operation
<1> HIDE DEF p
<1>3. ops' = (ops \ {o}) \cup {p}
  BY <1>1 DEF p
<1>4. RowsType'
  BY <1>1, <1>2, <1>3 DEF RowsInv, RowsType
<1>5. \A r \in ListRows : r # o.row => server'[r] = server[r]
  BY <1>1, <1>2 DEF RowsInv, RowsType
<1>6. \A r \in ListRows : Announced(r) => Announced(r)'
  BY <1>1, <1>3 DEF Announced
<1>7. o.row \in unseen' \/ server' = server \/ Announced(o.row)'
  BY <1>1, <1>2, <1>3 DEF Announced
<1>8. RowsFollow'
  BY <1>1, <1>5, <1>6, <1>7 DEF RowsInv, RowsFollow, Announced
<1>9. ASSUME list' = "project" PROVE OneSwitch'
  BY <1>1, <1>2, <1>3, <1>9 DEF RowsInv, OneSwitch, Switches
<1>10. ASSUME list' = "project" PROVE OwnStatus'
  <2> SUFFICES ASSUME NEW r \in ListRows, local[r] # cached[r], cached[r] # "gone", r \notin overtaken
               PROVE  (Unfinished(r) \/ Due(r))'
    BY <1>1 DEF OwnStatus
  <2>1. Unfinished(r) \/ Due(r)
    BY <1>1, <1>10 DEF RowsInv, OwnStatus
  <2>2. CASE r # o.row
    BY <1>1, <1>3, <1>5, <2>1, <2>2 DEF Unfinished, Due, Switches
  <2>3. CASE r = o.row /\ o.kind = "toggle"
    BY <1>1, <1>2, <1>3, <1>10, <2>1, <2>3 DEF Unfinished, RowsInv, RowsType, OneSwitch, Switches
  <2>4. CASE r = o.row /\ o.kind = "end"
    <3>1. server' = server \/ server'[r] = "gone"
      BY <1>1, <1>2, <1>10, <2>4 DEF RowsInv, RowsType, OneSwitch
    <3>2. \A q \in ops : Switches(q, r) => q \in ops'
      BY <1>3, <2>4 DEF Switches
    <3> QED
      BY <1>1, <2>1, <3>1, <3>2 DEF Unfinished, Due
  <2> QED
    BY <1>2, <2>2, <2>3, <2>4 DEF Operation
<1> QED
  BY <1>4, <1>8, <1>9, <1>10 DEF RowsInv

LEMMA ClickKeeps ==
  ASSUME RowsInv, NEW k \in Actions!Kinds, NEW r \in ListRows, Actions!Click(k, r)
  PROVE  RowsInv'
<1> DEFINE w == Actions!Wanted(k, r)
           o == [n |-> acts, kind |-> k, row |-> r, to |-> w, was |-> cached[r],
                 st |-> "sent", open |-> TRUE]
<1>0. w \in RowStates
  BY WantedStates
<1>1. /\ ops' = ops \cup {o} /\ acts' = acts + 1
      /\ local' = IF k = "toggle" /\ list = "project" THEN [local EXCEPT ![r] = w] ELSE local
      /\ UNCHANGED <<list, server, cached, aFetch, unseen, overtaken>>
  BY DEF Actions!Click
<1>2. list = "project" /\ k = "toggle" => \A p \in ops : ~Switches(p, r)
  BY DEF Actions!Click, Actions!Enabled, Actions!ProjectClick, Actions!NotSwitching, Actions!UnderWay,
         Switches
<1>3. list = "project" /\ k = "end" => w = "gone"
  BY DEF Actions!Wanted, Actions!Ended
<1>4. o \in Operation /\ o.kind = k /\ o.row = r /\ o.to = w /\ o.st = "sent"
  BY <1>0 DEF RowsInv, RowsType, Operation, Actions!Kinds
<1> HIDE DEF o, w
<1>5. RowsType'
  BY <1>0, <1>1, <1>4 DEF RowsInv, RowsType
<1>6. RowsFollow'
  BY <1>1 DEF RowsInv, RowsFollow, Announced
<1>7. ASSUME list' = "project" PROVE OneSwitch'
  BY <1>1, <1>2, <1>3, <1>4, <1>7 DEF RowsInv, RowsType, OneSwitch, Switches
<1>8. ASSUME list' = "project" PROVE OwnStatus'
  <2> SUFFICES ASSUME NEW q \in ListRows
               PROVE  (\/ local[q] = cached[q] \/ cached[q] = "gone" \/ q \in overtaken
                       \/ Unfinished(q) \/ Due(q))'
    BY DEF OwnStatus
  <2>1. CASE q = r /\ k = "toggle"
    BY <1>1, <1>4, <2>1 DEF Unfinished, Switches
  <2>2. CASE ~(q = r /\ k = "toggle")
    <3>1. local'[q] = local[q]
      BY <1>1, <2>2 DEF RowsInv, RowsType
    <3> QED
      BY <1>1, <1>8, <3>1 DEF RowsInv, OwnStatus, Unfinished, Due
  <2> QED
    BY <2>1, <2>2
<1> QED
  BY <1>5, <1>6, <1>7, <1>8 DEF RowsInv

LEMMA CloseDialogKeeps ==
  ASSUME RowsInv, Actions!CloseDialog
  PROVE  RowsInv'
<1> DEFINE Closed(o) == IF o.kind = "end" THEN [o EXCEPT !.open = FALSE] ELSE o
<1>1. /\ ops' = {Closed(o) : o \in ops}
      /\ UNCHANGED <<list, server, cached, local, aFetch, unseen, overtaken, acts>>
  BY DEF Actions!CloseDialog
<1>2. \A o \in ops : /\ Closed(o) \in Operation /\ Closed(o).st = o.st /\ Closed(o).row = o.row
                     /\ Closed(o).kind = o.kind /\ Closed(o).to = o.to
                     /\ o.kind = "toggle" => Closed(o) = o
  BY DEF RowsInv, RowsType, Operation
<1> HIDE DEF Closed
<1>3. RowsType'
  BY <1>1, <1>2 DEF RowsInv, RowsType
<1>4. RowsFollow'
  BY <1>1, <1>2 DEF RowsInv, RowsFollow, Announced
<1>5. ASSUME list' = "project" PROVE OneSwitch'
  BY <1>1, <1>2, <1>5 DEF RowsInv, OneSwitch, Switches
<1>6. ASSUME list' = "project" PROVE OwnStatus'
  BY <1>1, <1>2, <1>6 DEF RowsInv, OwnStatus, Unfinished, Due, Switches
<1> QED
  BY <1>3, <1>4, <1>5, <1>6 DEF RowsInv

LEMMA OtherKeeps ==
  ASSUME RowsInv, NEW r \in ListRows, NEW to \in RowStates, Actions!Other(r, to)
  PROVE  RowsInv'
<1>1. /\ server' = [server EXCEPT ![r] = to] /\ unseen' = unseen \cup {r}
      /\ overtaken' = IF local[r] # cached[r] THEN overtaken \cup {r} ELSE overtaken
      /\ UNCHANGED <<list, cached, local, aFetch, ops, acts>>
  BY DEF Actions!Other
<1>2. \A q \in ListRows : q # r => server'[q] = server[q]
  BY <1>1 DEF RowsInv, RowsType
<1>3. RowsType'
  BY <1>1 DEF RowsInv, RowsType
<1>4. RowsFollow'
  BY <1>1, <1>2 DEF RowsInv, RowsFollow, Announced
<1>5. ASSUME list' = "project" PROVE OneSwitch'
  BY <1>1, <1>5 DEF RowsInv, OneSwitch, Switches
<1>6. ASSUME list' = "project" PROVE OwnStatus'
  BY <1>1, <1>2, <1>6 DEF RowsInv, OwnStatus, Unfinished, Due
<1> QED
  BY <1>3, <1>4, <1>5, <1>6 DEF RowsInv

LEMMA SettleKeeps ==
  ASSUME RowsInv, NEW o \in ops, Actions!Settle(o)
  PROVE  RowsInv'
<1> DEFINE p == [o EXCEPT !.st = "waiting"]
<1>1. /\ p \in Operation /\ p.st = "waiting" /\ p.row = o.row /\ p.kind = o.kind /\ p.to = o.to
      /\ o.row \in ListRows /\ o.was \in RowStates
  BY AnsweredType DEF RowsInv, RowsType, Operation
<1>2. /\ o.st \in {"ok", "failed"}
      /\ ops' \subseteq (ops \ {o}) \cup {p} /\ ops \ {o} \subseteq ops'
      /\ aFetch' = IF o.st = "ok" THEN [Actions!NoFetch EXCEPT !.st = "sent"] ELSE aFetch
      /\ local' = IF list = "project" /\ o.kind = "toggle" /\ o.st = "failed"
                  THEN [local EXCEPT ![o.row] = o.was] ELSE local
      /\ overtaken' = IF o.st = "failed" /\ o.was # cached[o.row]
                      THEN overtaken \cup {o.row} ELSE overtaken
      /\ UNCHANGED <<list, server, cached, unseen, acts>>
  BY DEF Actions!Settle, Actions!Refetch
<1> HIDE DEF p
<1>3. /\ aFetch' \in [st : {"none", "sent", "read"}, data : [ListRows -> RowStates]]
      /\ IF o.st = "ok" THEN aFetch'.st = "sent" ELSE aFetch' = aFetch
  BY <1>2 DEF RowsInv, RowsType, Actions!NoFetch, RowStates
<1>4. RowsType'
  BY <1>1, <1>2, <1>3 DEF RowsInv, RowsType
<1>5. RowsFollow'
  BY <1>2, <1>3 DEF RowsInv, RowsFollow, Announced
<1>6. ASSUME list' = "project" PROVE OneSwitch'
  <2>1. \A q \in ops' : q.kind = "toggle" /\ q.st = "sent" =>
          q \in ops /\ q # o /\ local'[q.row] = local[q.row]
    BY <1>1, <1>2, <1>6 DEF RowsInv, RowsType, OneSwitch, Switches, Operation
  <2> QED
    BY <1>1, <1>2, <1>6, <2>1 DEF RowsInv, OneSwitch, Switches
<1>7. ASSUME list' = "project" PROVE OwnStatus'
  <2> SUFFICES ASSUME NEW r \in ListRows
               PROVE  (\/ local[r] = cached[r] \/ cached[r] = "gone" \/ r \in overtaken
                       \/ Unfinished(r) \/ Due(r))'
    BY DEF OwnStatus
  <2>1. \/ local[r] = cached[r] \/ cached[r] = "gone" \/ r \in overtaken
        \/ Unfinished(r) \/ Due(r)
    BY <1>2, <1>7 DEF RowsInv, OwnStatus
  <2>2. CASE r = o.row /\ o.kind = "toggle" /\ o.st = "failed"
    BY <1>1, <1>2, <1>7, <2>2 DEF RowsInv, RowsType
  <2>3. CASE r = o.row /\ o.kind = "toggle" /\ o.st = "ok"
    <3>1. local' = local /\ aFetch'.st = "sent" /\ overtaken' = overtaken
      BY <1>2, <1>3, <2>3
    <3>2. Unfinished(r) => server[r] # cached[r]
      BY <1>2, <1>7, <2>3 DEF Unfinished, RowsInv, OneSwitch, Switches
    <3> QED
      BY <1>2, <2>1, <3>1, <3>2 DEF Due
  <2>4. CASE r # o.row \/ o.kind # "toggle"
    <3>1. local'[r] = local[r] /\ \A q \in ops : Switches(q, r) => q \in ops'
      BY <1>1, <1>2, <2>4 DEF RowsInv, RowsType, Switches
    <3> QED
      BY <1>2, <1>3, <2>1, <3>1 DEF Unfinished, Due
  <2> QED
    BY <1>2, <2>2, <2>3, <2>4
<1> QED
  BY <1>4, <1>5, <1>6, <1>7 DEF RowsInv

(* The steps of the request for the list. *)
LEMMA ListFetchKeeps ==
  ASSUME RowsInv,
         Actions!FetchRead \/ Actions!FetchLands \/ Actions!FetchFailed \/ Actions!Revisit
  PROVE  RowsInv'
<1>1. CASE Actions!FetchRead
  <2>1. /\ aFetch' = [st |-> "read", data |-> server] /\ unseen' = {}
        /\ UNCHANGED <<list, server, cached, local, ops, overtaken, acts>>
    BY <1>1 DEF Actions!FetchRead
  <2>2. RowsType' /\ RowsFollow'
    BY <2>1 DEF RowsInv, RowsType, RowsFollow
  <2>3. ASSUME list' = "project" PROVE OneSwitch' /\ OwnStatus'
    BY <2>1, <2>3 DEF RowsInv, OneSwitch, OwnStatus, Unfinished, Due, Switches
  <2> QED
    BY <2>2, <2>3 DEF RowsInv
<1>2. CASE Actions!FetchLands
  <2>1. /\ aFetch.st = "read" /\ aFetch' = Actions!NoFetch
        /\ cached' = aFetch.data
        /\ local' = [r \in ListRows |-> IF aFetch.data[r] # cached[r] THEN aFetch.data[r] ELSE local[r]]
        /\ \A r \in overtaken : aFetch.data[r] = cached[r] => r \in overtaken'
        /\ ops' = {o \in ops : o.st # "waiting"}
        /\ UNCHANGED <<list, server, unseen, acts>>
    BY <1>2 DEF Actions!FetchLands, Actions!RowEffect, Actions!Answered, Actions!Waiting
  <2>2. aFetch' \in [st : {"none", "sent", "read"}, data : [ListRows -> RowStates]] /\ aFetch'.st = "none"
    BY <2>1 DEF Actions!NoFetch, RowStates
  <2>3. RowsType'
    BY <2>1, <2>2 DEF RowsInv, RowsType
  <2>4. RowsFollow'
    BY <2>1, <2>2 DEF RowsInv, RowsFollow, Announced
  <2>5. ASSUME list' = "project" PROVE OneSwitch'
    BY <2>1, <2>5 DEF RowsInv, RowsType, OneSwitch, Switches, Operation
  <2>6. ASSUME list' = "project" PROVE OwnStatus'
    BY <2>1, <2>6 DEF RowsInv, OwnStatus, Unfinished, Due, Switches
  <2> QED
    BY <2>3, <2>4, <2>5, <2>6 DEF RowsInv
<1>3. CASE Actions!FetchFailed \/ Actions!Revisit
  <2>1. /\ aFetch.st # "read" /\ aFetch'.st # "read"
        /\ aFetch' \in [st : {"none", "sent", "read"}, data : [ListRows -> RowStates]]
        /\ aFetch'.st = "none" => unseen' = ListRows
        /\ ops' \subseteq ops /\ \A o \in ops : o.st # "waiting" => o \in ops'
        /\ UNCHANGED <<list, server, cached, local, overtaken, acts>>
    BY <1>3 DEF Actions!FetchFailed, Actions!Revisit, Actions!Answered, Actions!Waiting,
                Actions!NoFetch, RowStates
  <2>2. RowsType' /\ RowsFollow'
    BY <2>1 DEF RowsInv, RowsType, RowsFollow, Announced
  <2>3. ASSUME list' = "project" PROVE OneSwitch' /\ OwnStatus'
    BY <2>1, <2>3 DEF RowsInv, OneSwitch, OwnStatus, Unfinished, Due, Switches
  <2> QED
    BY <2>2, <2>3 DEF RowsInv
<1> QED
  BY <1>1, <1>2, <1>3

LEMMA ActionsStepKeeps ==
  ASSUME RowsInv, Actions!ANext
  PROVE  RowsInv'
<1>1. CASE \E r \in ListRows : Actions!OpenDialog(r)
  <2>1. UNCHANGED <<list, server, cached, local, aFetch, ops, unseen, overtaken, acts>>
    BY <1>1 DEF Actions!OpenDialog
  <2> QED
    BY <2>1 DEF RowsInv, RowsType, RowsFollow, OneSwitch, OwnStatus, Announced, Unfinished, Due, Switches
<1> QED
  BY <1>1, ClickKeeps, CloseDialogKeeps, ServeKeeps, SettleKeeps, OtherKeeps, ListFetchKeeps
  DEF Actions!ANext, RowStates

LEMMA RowsStep ==
  ASSUME RowsInv, [DashboardNext]_dashboardVars
  PROVE  RowsInv'
<1>1. CASE ActionsStep
  BY <1>1, ActionsStepKeeps DEF ActionsStep
<1>2. CASE UNCHANGED actionsVars
  BY <1>2 DEF actionsVars, RowsInv, RowsType, RowsFollow, OneSwitch, OwnStatus, Announced,
              Unfinished, Due, Switches
<1> QED
  BY <1>1, <1>2 DEF DashboardNext, FormsStep, ScreensStep, IncidentStep, ReviewStep, ChartsStep,
                    BellStep, dashboardVars

(* The invariant of the row actions. *)
THEOREM RowsInvariance == DashboardSpec => []RowsInv
BY RowsStart, RowsStep, PTL DEF DashboardSpec

(* When the requests have settled, every row of a list is what the server    *)
(* has, unless a request or an answer was lost or somebody else changed it;  *)
(* so is the status a project shows ahead of the list.                       *)
THEOREM RowsAgree == DashboardSpec => []RowsConverge
<1>1. RowsInv => RowsConverge
  <2> SUFFICES ASSUME RowsInv, ops = {}, aFetch.st = "none", NEW r \in ListRows, r \notin unseen
               PROVE  Actions!Shown(r) = server[r] \/ (list = "project" /\ r \in overtaken)
    BY DEF RowsConverge, Actions!RowsConverge
  <2>1. cached[r] = server[r]
    BY DEF RowsInv, RowsFollow, Announced
  <2>2. list = "project" => local[r] = cached[r] \/ cached[r] = "gone" \/ r \in overtaken
    BY <2>1 DEF RowsInv, OwnStatus, Unfinished, Due
  <2> QED
    BY <2>1, <2>2 DEF Actions!Shown
<1> QED
  BY <1>1, RowsInvariance, PTL

-----------------------------------------------------------------------------
(***************************************************************************)
(* Incident page.  As long as no two changes of the status have crossed:   *)
(* at most one action is under way, it is under way alone, and all that    *)
(* will be written into the caches - an outcome to take back, an answer,   *)
(* a pushed status, the rows of a request - is the server's status         *)
(* (Apart).                                                                *)
(***************************************************************************)
Statuses == {"OPEN", "ACKNOWLEDGED", "RESOLVED"}
Owners   == Members \cup {NoOne}
Incident == [status : Statuses, assigned : Owners, owner : Owners]
Event    == [n : Nat, kind : {"note", "status"}, status : Statuses]
Mutation == [st : {"idle", "sent", "ok", "failed"}, to : Owners, prev : Incident, res : Incident,
             n : Nat]

PageType ==
  /\ pSrv \in Incident /\ detail \in Incident /\ row \in Incident
  /\ commits \in Nat /\ pushes \subseteq Event
  /\ mut \in [ActionKinds -> Mutation]
  /\ req = [q \in PageQueries |-> req[q]]
  /\ "incident" \in PageQueries /\ req["incident"].st = "read" => req["incident"].rows \subseteq Incident
  /\ raced \in BOOLEAN

Changing == ActionKinds \ {"note"}
OneAction == \A k, l \in Changing : mut[k].st # "idle" /\ mut[l].st # "idle" => k = l
Alone     == Page!Acting \/ Page!StatusPushes # {} => ~Page!Loading("incident")
PushedNow == \A p \in Page!StatusPushes : p.status = pSrv.status
HeldBack  == \A k \in Changing :
               /\ mut[k].st \in {"sent", "failed"} =>
                    Page!StatusPushes = {} /\ mut[k].prev.status = pSrv.status
               /\ mut[k].st = "ok" => mut[k].res.status = pSrv.status
ReadNow   == "incident" \in PageQueries /\ req["incident"].st = "read" =>
               \A x \in req["incident"].rows : x.status = pSrv.status
ShownNow  == ~Page!Acting /\ Page!StatusPushes = {} =>
               detail.status = pSrv.status /\ (row.status = pSrv.status \/ phantom)
Apart     == OneAction /\ Alone /\ PushedNow /\ HeldBack /\ ReadNow /\ ShownNow
PageInv   == PageType /\ (~raced => Apart)

LEMMA AppliedType ==
  ASSUME NEW k, NEW to \in Owners, NEW i \in Incident
  PROVE  /\ Page!Applied(k, to, i) \in Incident
         /\ Page!Shown(k, to, i) \in Incident
         /\ Page!Applied(k, to, i).status = Page!StatusOf(k, i)
         /\ Page!Shown(k, to, i).status = Page!StatusOf(k, i)
         /\ k \in {"note", "assign"} => Page!StatusOf(k, i) = i.status
<1>1. Page!StatusOf(k, i) \in Statuses
  BY DEF Page!StatusOf, Incident, Statuses
<1>2. k \in {"note", "assign"} => Page!StatusOf(k, i) = i.status
  BY DEF Page!StatusOf
<1> HIDE DEF Statuses
<1>3. Page!Applied(k, to, i) \in Incident /\ Page!Applied(k, to, i).status = Page!StatusOf(k, i)
  BY <1>1 DEF Page!Applied, Incident
<1>4. Page!Shown(k, to, i) \in Incident /\ Page!Shown(k, to, i).status = Page!StatusOf(k, i)
  BY <1>3 DEF Page!Shown, Incident
<1> QED
  BY <1>2, <1>3, <1>4

LEMMA PageStart == DashboardInit => PageInv
<1> SUFFICES ASSUME Page!Init PROVE PageInv
  BY DEF DashboardInit
<1>1. Page!Blank \in Incident /\ Page!Blank.status = "OPEN"
  BY DEF Page!Blank, Incident, Statuses, Owners
<1> HIDE DEF Page!Blank, Incident
<1>2. Page!Idle \in Mutation /\ Page!Idle.st = "idle"
  BY <1>1 DEF Page!Idle, Mutation, Owners
<1>3. PageType
  BY <1>1, <1>2 DEF Page!Init, PageType, Page!NoRequest
<1>4. Apart
  BY <1>1, <1>2 DEF Page!Init, Apart, OneAction, Alone, PushedNow, HeldBack, ReadNow, ShownNow, Changing,
     Page!StatusPushes, Page!Loading, Page!NoRequest
<1> QED
  BY <1>3, <1>4 DEF PageInv

(* A change applied by the server: one event, with the status it left. *)
LEMMA Committed ==
  ASSUME PageType, NEW k \in ActionKinds, NEW to \in Owners, Page!Commit(k, to)
  PROVE  /\ pSrv' \in Incident /\ commits' \in Nat /\ pushes' \subseteq Event
         /\ k = "note" => pSrv'.status = pSrv.status /\ Page!StatusPushes' = Page!StatusPushes
         /\ \A p \in Page!StatusPushes' : p \in Page!StatusPushes \/ p.status = pSrv'.status
<1> DEFINE i == Page!Applied(k, to, pSrv)
           e == [n |-> commits + 1, kind |-> IF k = "note" THEN "note" ELSE "status", status |-> i.status]
<1>1. i \in Incident /\ (k = "note" => i.status = pSrv.status)
  BY AppliedType DEF PageType
<1>2. pSrv' = i /\ commits' = commits + 1 /\ pushes' = pushes \cup {e}
  BY DEF Page!Commit
<1>3. i.status \in Statuses
  BY <1>1 DEF Incident
<1> HIDE DEF i
<1>4. e \in Event /\ (k = "note" => e.kind = "note") /\ e.status = i.status
  BY <1>3 DEF PageType, Event
<1> HIDE DEF e
<1> QED
  BY <1>1, <1>2, <1>4 DEF PageType, Page!StatusPushes

LEMMA IdleType == Page!Blank \in Incident /\ Page!Idle \in Mutation /\ Page!Idle.st = "idle"
<1>1. Page!Blank \in Incident
  BY DEF Page!Blank, Incident, Statuses, Owners
<1> HIDE DEF Page!Blank, Incident
<1> QED
  BY <1>1 DEF Page!Idle, Mutation, Owners

(* What a mutation's record becomes when it is started and when it is answered. *)
LEMMA StartedType ==
  ASSUME PageType, NEW k \in ActionKinds, NEW to \in Owners, Page!Act(k, to)
  PROVE  /\ mut' \in [ActionKinds -> Mutation]
         /\ mut'[k].st = "sent" /\ mut'[k].prev = detail
         /\ \A l \in ActionKinds \ {k} : mut'[l] = mut[l]
<1> DEFINE m == [st |-> "sent", to |-> to, prev |-> detail, res |-> Page!Blank, n |-> 0]
<1>1. m \in Mutation /\ m.st = "sent" /\ m.prev = detail
  BY IdleType DEF PageType, Mutation
<1>2. mut' = [mut EXCEPT ![k] = m]
  BY DEF Page!Act
<1> HIDE DEF m, Mutation
<1> QED
  BY <1>1, <1>2 DEF PageType

LEMMA ServedType ==
  ASSUME PageType, NEW k \in ActionKinds, Page!Serve(k)
  PROVE  /\ mut' \in [ActionKinds -> Mutation]
         /\ \A l \in ActionKinds \ {k} : mut'[l] = mut[l]
         /\ mut[k].st = "sent"
         /\ \/ /\ Page!Commit(k, mut[k].to)
               /\ mut'[k].st = "ok" /\ mut'[k].res = pSrv'
            \/ /\ UNCHANGED <<pSrv, commits, pushes>>
               /\ mut'[k].st = "failed" /\ mut'[k].prev = mut[k].prev
<1>1. mut \in [ActionKinds -> Mutation] /\ mut[k] \in Mutation
  BY DEF PageType
<1>2. CASE Page!Accepts(k)
  <2> DEFINE m == [mut[k] EXCEPT !.st = "ok", !.res = pSrv', !.n = commits']
  <2>1. Page!Commit(k, mut[k].to) /\ mut[k].st = "sent"
    BY <1>2 DEF Page!Serve
  <2>2. mut[k].to \in Owners
    BY <1>1 DEF Mutation
  <2>3. pSrv' \in Incident /\ commits' \in Nat
    BY <2>1, <2>2, Committed
  <2>4. m \in Mutation /\ m.st = "ok" /\ m.res = pSrv'
    BY <1>1, <2>1, <2>3 DEF Mutation
  <2>5. mut' = [mut EXCEPT ![k].st = "ok", ![k].res = pSrv', ![k].n = commits']
    BY <1>2 DEF Page!Serve
  <2>6. mut' = [mut EXCEPT ![k] = m]
    BY <1>1, <2>5
  <2> HIDE DEF m, Mutation
  <2> QED
    BY <1>1, <2>1, <2>4, <2>6
<1>3. CASE ~Page!Accepts(k)
  <2> DEFINE m == [mut[k] EXCEPT !.st = "failed"]
  <2>1. m \in Mutation /\ m.st = "failed" /\ m.prev = mut[k].prev
    BY <1>1 DEF Mutation
  <2>2. mut' = [mut EXCEPT ![k] = m]
    BY <1>1, <1>3 DEF Page!Serve
  <2>3. UNCHANGED <<pSrv, commits, pushes>> /\ mut[k].st = "sent"
    BY <1>3 DEF Page!Serve
  <2> HIDE DEF m, Mutation
  <2> QED
    BY <1>1, <2>1, <2>2, <2>3
<1> QED
  BY <1>2, <1>3

LEMMA LostType ==
  ASSUME PageType, NEW k \in ActionKinds, Page!RequestLost(k)
  PROVE  /\ mut' \in [ActionKinds -> Mutation]
         /\ \A l \in ActionKinds \ {k} : mut'[l] = mut[l]
         /\ mut[k].st = "sent" /\ mut'[k].st = "failed" /\ mut'[k].prev = mut[k].prev
         /\ \/ UNCHANGED <<pSrv, commits, pushes, raced>>
            \/ Page!Commit(k, mut[k].to) /\ raced' = (raced \/ k # "note")
<1>1. mut \in [ActionKinds -> Mutation] /\ mut[k] \in Mutation
  BY DEF PageType
<1> DEFINE m == [mut[k] EXCEPT !.st = "failed"]
<1>2. m \in Mutation /\ m.st = "failed" /\ m.prev = mut[k].prev
  BY <1>1 DEF Mutation
<1>3. mut' = [mut EXCEPT ![k] = m]
  BY <1>1 DEF Page!RequestLost
<1>4. mut[k].st = "sent"
  BY DEF Page!RequestLost
<1>5. \/ UNCHANGED <<pSrv, commits, pushes, raced>>
      \/ Page!Commit(k, mut[k].to) /\ raced' = (raced \/ k # "note")
  BY DEF Page!RequestLost
<1> HIDE DEF m, Mutation
<1> QED
  BY <1>1, <1>2, <1>3, <1>4, <1>5

(* One action of the page, by what it is about. *)
LEMMA PageSteps ==
  ASSUME Page!Next
  PROVE  \/ \E k \in ActionKinds : Page!Other(k)
         \/ \E k \in ActionKinds : Page!Serve(k)
         \/ \E k \in ActionKinds : Page!RequestLost(k)
         \/ \E k \in ActionKinds : Page!OnSuccess(k) \/ Page!OnError(k)
         \/ \E k \in ActionKinds, to \in Owners : Page!Act(k, to)
         \/ Page!SubmitNote
         \/ Page!NoteSettled
         \/ \E p \in pushes : Page!StatusPushed(p)
         \/ \E p \in pushes : Page!NotePushed(p)
         \/ \E p \in pushes : Page!PushLost(p)
         \/ Page!ReopenAsked \/ Page!ReopenCancelled
         \/ Page!Remount \/ Page!TimelineRefreshed
         \/ \E q \in PageQueries : Page!RequestRead(q)
         \/ \E q \in PageQueries : Page!RequestLands(q)
         \/ \E q \in PageQueries : Page!RequestFails(q)
BY Zenon DEF Page!Next, Owners

LEMMA TypeKept ==
  ASSUME PageType, Page!Next
  PROVE  PageType'
<1> USE IdleType
<1>1. ASSUME NEW k \in ActionKinds, Page!Other(k) PROVE PageType'
  <2>1. PICK to \in Owners : Page!Commit(k, to)
    BY <1>1 DEF Page!Other, Owners
  <2> QED
    BY <1>1, <2>1, Committed DEF Page!Other, PageType
<1>2. ASSUME NEW k \in ActionKinds, Page!Serve(k) PROVE PageType'
  <2>1. mut[k].to \in Owners
    BY DEF PageType, Mutation
  <2>2. pSrv' \in Incident /\ commits' \in Nat /\ pushes' \subseteq Event
    BY <1>2, <2>1, ServedType, Committed DEF PageType
  <2> QED
    BY <1>2, <2>2, ServedType DEF Page!Serve, PageType
<1>3. ASSUME NEW k \in ActionKinds, Page!RequestLost(k) PROVE PageType'
  <2>1. mut[k].to \in Owners
    BY DEF PageType, Mutation
  <2>2. pSrv' \in Incident /\ commits' \in Nat /\ pushes' \subseteq Event
    BY <1>3, <2>1, LostType, Committed DEF PageType
  <2>3. raced' \in BOOLEAN
    BY <1>3, LostType DEF PageType
  <2>4. UNCHANGED <<detail, row, req>>
    BY <1>3 DEF Page!RequestLost
  <2>5. mut' \in [ActionKinds -> Mutation]
    BY <1>3, LostType
  <2> QED
    BY <2>2, <2>3, <2>4, <2>5 DEF PageType
<1>4. ASSUME NEW k \in ActionKinds, Page!OnSuccess(k) \/ Page!OnError(k) PROVE PageType'
  <2> HIDE DEF Page!Idle, Page!Blank
  <2>1. mut' = [mut EXCEPT ![k] = Page!Idle]
    BY <1>4 DEF Page!OnSuccess, Page!OnError
  <2>2. mut' \in [ActionKinds -> Mutation]
    BY <2>1 DEF PageType
  <2>3. mut[k].res \in Incident /\ mut[k].prev \in Incident
    BY DEF PageType, Mutation
  <2>4. CASE Page!OnSuccess(k)
    BY <2>2, <2>3, <2>4 DEF Page!OnSuccess, PageType
  <2>5. CASE Page!OnError(k)
    BY <2>2, <2>3, <2>5 DEF Page!OnError, PageType
  <2> QED
    BY <1>4, <2>4, <2>5
<1>5. ASSUME NEW k \in ActionKinds, NEW to \in Owners, Page!Act(k, to) PROVE PageType'
  <2>1. detail' \in Incident /\ row' \in Incident
    BY <1>5, AppliedType DEF Page!Act, PageType
  <2>2. req' = [q \in PageQueries |-> IF q = "incident" THEN Page!NoRequest ELSE req[q]]
    BY <1>5 DEF Page!Act
  <2>3. /\ req' = [q \in PageQueries |-> req'[q]]
        /\ "incident" \in PageQueries => req'["incident"].st = "none"
    BY <2>2 DEF Page!NoRequest
  <2> QED
    BY <1>5, <2>1, <2>3, StartedType DEF Page!Act, PageType
<1>6. CASE Page!SubmitNote
  <2>1. mut' = [mut EXCEPT !["note"].st = "sent"] /\ "note" \in ActionKinds
    BY <1>6 DEF Page!SubmitNote
  <2>2. mut' \in [ActionKinds -> Mutation]
    BY <2>1 DEF PageType, Mutation
  <2> QED
    BY <1>6, <2>2 DEF Page!SubmitNote, PageType
<1>7. CASE Page!NoteSettled
  BY <1>7 DEF Page!NoteSettled, PageType
<1>8. ASSUME NEW p \in pushes, Page!StatusPushed(p) PROVE PageType'
  <2>1. p.status \in Statuses
    BY DEF PageType, Event
  <2>2. detail' \in Incident /\ row' \in Incident
    BY <1>8, <2>1 DEF Page!StatusPushed, PageType, Incident
  <2> QED
    BY <1>8, <2>2 DEF Page!StatusPushed, PageType
<1>9. ASSUME NEW p \in pushes, Page!NotePushed(p) PROVE PageType'
  BY <1>9 DEF Page!NotePushed, PageType, Page!Invalidated, Page!Sent
<1>10. ASSUME NEW p \in pushes, Page!PushLost(p) PROVE PageType'
  BY <1>10 DEF Page!PushLost, PageType
<1>11. CASE Page!ReopenAsked \/ Page!ReopenCancelled
  BY <1>11 DEF Page!ReopenAsked, Page!ReopenCancelled, PageType
<1>12. CASE Page!Remount \/ Page!TimelineRefreshed
  <2>1. CASE Page!Remount
    <3>1. /\ req' = [q \in PageQueries |-> req'[q]]
          /\ "incident" \in PageQueries => req'["incident"].st = "sent"
      BY <2>1 DEF Page!Remount, Page!Sent
    <3>2. raced' \in BOOLEAN
      BY <2>1 DEF Page!Remount, PageType
    <3>3. UNCHANGED <<pSrv, commits, pushes, detail, row, mut>>
      BY <2>1 DEF Page!Remount
    <3> QED
      BY <3>1, <3>2, <3>3 DEF PageType
  <2>2. CASE Page!TimelineRefreshed
    BY <2>2 DEF Page!TimelineRefreshed, Page!Invalidated, Page!Sent, PageType
  <2> QED
    BY <1>12, <2>1, <2>2
<1>13. ASSUME NEW q \in PageQueries, Page!RequestRead(q) PROVE PageType'
  <2>1. /\ req' = [p \in PageQueries |-> req'[p]]
        /\ \A p \in PageQueries \ {q} : req'[p] = req[p]
        /\ q = "incident" => req'[q].rows = {pSrv}
    BY <1>13 DEF Page!RequestRead, PageType
  <2> QED
    BY <1>13, <2>1 DEF Page!RequestRead, PageType
<1>14. ASSUME NEW q \in PageQueries, Page!RequestLands(q) PROVE PageType'
  <2>1. /\ req' = [p \in PageQueries |-> req'[p]]
        /\ \A p \in PageQueries \ {q} : req'[p] = req[p]
        /\ req'[q].st = "none"
    BY <1>14 DEF Page!RequestLands, PageType, Page!NoRequest
  <2>2. q \in {"incident", "notes", "events"}
    BY PageAssumption
  <2>3. detail' \in Incident
    BY <1>14, <2>2 DEF Page!RequestLands, PageType
  <2> QED
    BY <1>14, <2>1, <2>3 DEF Page!RequestLands, PageType
<1>15. ASSUME NEW q \in PageQueries, Page!RequestFails(q) PROVE PageType'
  <2>1. /\ req' = [p \in PageQueries |-> req'[p]]
        /\ \A p \in PageQueries \ {q} : req'[p] = req[p]
        /\ req'[q].st = "none"
    BY <1>15 DEF Page!RequestFails, PageType, Page!NoRequest
  <2> QED
    BY <1>15, <2>1 DEF Page!RequestFails, PageType
<1> HIDE IdleType
<1> QED
  BY <1>1, <1>2, <1>3, <1>4, <1>5, <1>6, <1>7, <1>8, <1>9, <1>10, <1>11, <1>12, <1>13, <1>14, <1>15,
     PageSteps
-----------------------------------------------------------------------------
LEMMA ApartFrame ==
  ASSUME Apart, UNCHANGED <<detail, row, phantom>>, pSrv'.status = pSrv.status,
         Page!StatusPushes' = Page!StatusPushes, \A k \in Changing : mut'[k] = mut[k],
         "incident" \in PageQueries => req'["incident"] = req["incident"]
  PROVE  Apart'
<1>1. Page!Acting' = Page!Acting /\ Page!Loading("incident")' = Page!Loading("incident")
  BY DEF Page!Acting, Page!Loading, Changing
<1> QED
  BY <1>1 DEF Apart, OneAction, Alone, PushedNow, HeldBack, ReadNow, ShownNow

(* The steps that change nothing Apart is about: those of notes and of the  *)
(* timeline, and the confirmation.                                          *)
LEMMA NoteSteps ==
  ASSUME PageType, Apart,
         \/ \E k \in ActionKinds : k = "note" /\ (Page!Other(k) \/ Page!Serve(k) \/ Page!RequestLost(k))
         \/ Page!SubmitNote \/ Page!NoteSettled \/ Page!ReopenAsked \/ Page!ReopenCancelled
         \/ Page!TimelineRefreshed
         \/ \E p \in pushes : Page!NotePushed(p) \/ (p.kind = "note" /\ Page!PushLost(p))
         \/ \E q \in PageQueries \ {"incident"} :
              Page!RequestRead(q) \/ Page!RequestLands(q) \/ Page!RequestFails(q)
  PROVE  Apart'
<1>1. ASSUME NEW k \in ActionKinds, k = "note", Page!Other(k) \/ Page!Serve(k) \/ Page!RequestLost(k)
      PROVE  Apart'
  <2>1. UNCHANGED <<detail, row, phantom, req>>
    BY <1>1 DEF Page!Other, Page!Serve, Page!RequestLost
  <2>2. \A l \in Changing : mut'[l] = mut[l]
    BY <1>1, ServedType, LostType DEF Changing, Page!Other
  <2>3. \/ \E to \in Owners : Page!Commit(k, to)
        \/ UNCHANGED <<pSrv, pushes>>
    <3>1. mut[k].to \in Owners
      BY DEF PageType, Mutation
    <3> QED
      BY <1>1, <3>1, ServedType, LostType DEF Page!Other, Owners
  <2>4. pSrv'.status = pSrv.status /\ Page!StatusPushes' = Page!StatusPushes
    BY <1>1, <2>3, Committed DEF Page!StatusPushes
  <2> QED
    BY <2>1, <2>2, <2>4, ApartFrame
<1>2. CASE Page!SubmitNote \/ Page!NoteSettled
  <2>1. \A l \in Changing : mut'[l] = mut[l]
    BY <1>2 DEF Page!SubmitNote, Page!NoteSettled, Changing, PageType
  <2>2. UNCHANGED <<pSrv, pushes, detail, row, phantom, req>>
    BY <1>2 DEF Page!SubmitNote, Page!NoteSettled
  <2> QED
    BY <2>1, <2>2, ApartFrame DEF Page!StatusPushes
<1>3. CASE Page!ReopenAsked \/ Page!ReopenCancelled
  <2>1. UNCHANGED <<pSrv, pushes, detail, row, phantom, req, mut>>
    BY <1>3 DEF Page!ReopenAsked, Page!ReopenCancelled
  <2> QED
    BY <2>1, ApartFrame DEF Page!StatusPushes
<1>4. CASE Page!TimelineRefreshed
  <2>1. UNCHANGED <<pSrv, pushes, detail, row, phantom, mut>>
    BY <1>4 DEF Page!TimelineRefreshed
  <2>2. "incident" \in PageQueries => req'["incident"] = req["incident"]
    BY <1>4 DEF Page!TimelineRefreshed, Page!Invalidated
  <2> QED
    BY <2>1, <2>2, ApartFrame DEF Page!StatusPushes
<1>5. ASSUME NEW p \in pushes, Page!NotePushed(p) \/ (p.kind = "note" /\ Page!PushLost(p))
      PROVE  Apart'
  <2>1. UNCHANGED <<pSrv, detail, row, phantom, mut>> /\ pushes' = pushes \ {p} /\ p.kind = "note"
    BY <1>5 DEF Page!NotePushed, Page!PushLost
  <2>2. "incident" \in PageQueries => req'["incident"] = req["incident"]
    BY <1>5 DEF Page!NotePushed, Page!PushLost, Page!Invalidated
  <2>3. Page!StatusPushes' = Page!StatusPushes
    BY <2>1 DEF Page!StatusPushes
  <2> QED
    BY <2>1, <2>2, <2>3, ApartFrame
<1>6. ASSUME NEW q \in PageQueries, q # "incident",
             Page!RequestRead(q) \/ Page!RequestLands(q) \/ Page!RequestFails(q)
      PROVE  Apart'
  <2>1. "incident" \in PageQueries => req'["incident"] = req["incident"]
    BY <1>6 DEF Page!RequestRead, Page!RequestLands, Page!RequestFails, PageType
  <2>2. q \in {"notes", "events"}
    BY <1>6, PageAssumption
  <2>3. UNCHANGED <<pSrv, pushes, detail, row, phantom, mut>>
    BY <1>6, <2>2 DEF Page!RequestRead, Page!RequestLands, Page!RequestFails
  <2> QED
    BY <2>1, <2>3, ApartFrame DEF Page!StatusPushes
<1> QED
  BY <1>1, <1>2, <1>3, <1>4, <1>5, <1>6

(* Another user's change, when nothing else is under way. *)
LEMMA OtherApart ==
  ASSUME PageType, Apart, ~Page!Acting, Page!StatusPushes = {}, ~Page!Loading("incident"),
         NEW k \in ActionKinds, k # "note", Page!Other(k)
  PROVE  Apart'
<1>1. PICK to \in Owners : Page!Commit(k, to)
  BY DEF Page!Other, Owners
<1>2. UNCHANGED <<detail, row, req, mut, phantom>>
  BY DEF Page!Other
<1>3. \A p \in Page!StatusPushes' : p.status = pSrv'.status
  BY <1>1, Committed
<1>4. Page!StatusPushes' # {}
  <2> DEFINE e == [n |-> commits + 1, kind |-> "status", status |-> Page!Applied(k, to, pSrv).status]
  <2>1. e \in pushes'
    BY <1>1 DEF Page!Commit
  <2> QED
    BY <2>1 DEF Page!StatusPushes
<1>5. Page!Acting' = Page!Acting /\ Page!Loading("incident")' = Page!Loading("incident")
  BY <1>2 DEF Page!Acting, Page!Loading
<1>6. \A l \in Changing : mut'[l].st = "idle"
  BY <1>2 DEF Page!Acting, Changing
<1>7. ReadNow'
  BY <1>2 DEF ReadNow, Page!Loading
<1> QED
  BY <1>3, <1>4, <1>5, <1>6, <1>7 DEF Apart, OneAction, Alone, PushedNow, HeldBack, ShownNow

(* The answer to the one action under way. *)
LEMMA ServeApart ==
  ASSUME PageType, Apart, NEW k \in Changing, Page!Serve(k)
  PROVE  Apart'
<1>1. /\ \A l \in Changing \ {k} : mut'[l] = mut[l]
      /\ mut[k].st = "sent" /\ mut'[k].st \in {"ok", "failed"}
  BY ServedType DEF Changing
<1>2. UNCHANGED <<detail, row, req, phantom>>
  BY DEF Page!Serve
<1>3. \A l \in Changing \ {k} : mut[l].st = "idle"
  BY <1>1 DEF Apart, OneAction
<1>4. Page!Acting /\ Page!Acting'
  BY <1>1 DEF Page!Acting, Changing
<1>5. ~Page!Loading("incident") /\ Page!StatusPushes = {}
  BY <1>1, <1>4 DEF Apart, Alone, HeldBack
<1>6. ~Page!Loading("incident")' /\ ReadNow'
  BY <1>2, <1>5 DEF Page!Loading, ReadNow
<1>7. OneAction'
  BY <1>1, <1>3 DEF OneAction
<1>8. CASE Page!Commit(k, mut[k].to) /\ mut'[k].st = "ok" /\ mut'[k].res = pSrv'
  <2>1. mut[k].to \in Owners
    BY DEF PageType, Mutation, Changing
  <2>2. PushedNow'
    BY <1>5, <1>8, <2>1, Committed DEF PushedNow, Changing
  <2>3. HeldBack'
    BY <1>1, <1>3, <1>8 DEF HeldBack
  <2> QED
    BY <1>4, <1>6, <1>7, <2>2, <2>3 DEF Apart, Alone, ShownNow
<1>9. CASE /\ UNCHANGED <<pSrv, commits, pushes>>
           /\ mut'[k].st = "failed" /\ mut'[k].prev = mut[k].prev
  <2>1. Page!StatusPushes' = {}
    BY <1>5, <1>9 DEF Page!StatusPushes
  <2>2. mut[k].prev.status = pSrv.status
    BY <1>1 DEF Apart, HeldBack
  <2>3. HeldBack'
    BY <1>1, <1>3, <1>9, <2>1, <2>2 DEF HeldBack
  <2> QED
    BY <1>4, <1>6, <1>7, <2>1, <2>3 DEF Apart, Alone, ShownNow, PushedNow
<1> QED
  BY <1>8, <1>9, ServedType DEF Changing

LEMMA LostApart ==
  ASSUME PageType, Apart, NEW k \in Changing, Page!RequestLost(k), ~raced'
  PROVE  Apart'
<1>1. /\ \A l \in Changing \ {k} : mut'[l] = mut[l]
      /\ mut[k].st = "sent" /\ mut'[k].st = "failed" /\ mut'[k].prev = mut[k].prev
      /\ UNCHANGED <<pSrv, pushes>>
  BY LostType DEF Changing
<1>2. UNCHANGED <<detail, row, req, phantom>>
  BY DEF Page!RequestLost
<1>3. \A l \in Changing \ {k} : mut[l].st = "idle"
  BY <1>1 DEF Apart, OneAction
<1>4. Page!Acting /\ Page!Acting'
  BY <1>1 DEF Page!Acting, Changing
<1>5. ~Page!Loading("incident") /\ Page!StatusPushes = {} /\ mut[k].prev.status = pSrv.status
  BY <1>1, <1>4 DEF Apart, Alone, HeldBack
<1>6. ~Page!Loading("incident")' /\ ReadNow'
  BY <1>2, <1>5 DEF Page!Loading, ReadNow
<1>7. OneAction'
  BY <1>1, <1>3 DEF OneAction
<1>8. Page!StatusPushes' = {}
  BY <1>1, <1>5 DEF Page!StatusPushes
<1>9. HeldBack'
  BY <1>1, <1>3, <1>5, <1>8 DEF HeldBack
<1> QED
  BY <1>4, <1>6, <1>7, <1>8, <1>9 DEF Apart, Alone, ShownNow, PushedNow

(* Its handler: what it writes into the page is the server's status. *)
LEMMA SettledApart ==
  ASSUME PageType, Apart, NEW k \in ActionKinds, Page!OnSuccess(k) \/ Page!OnError(k)
  PROVE  Apart'
<1>1. k \in Changing /\ mut[k].st \in {"ok", "failed"}
  BY DEF Page!OnSuccess, Page!OnError, Changing
<1>2. UNCHANGED <<pSrv, pushes, req>> /\ mut' = [mut EXCEPT ![k] = Page!Idle]
  BY DEF Page!OnSuccess, Page!OnError
<1>3. \A l \in Changing : mut'[l].st = "idle"
  BY <1>1, <1>2, IdleType DEF Apart, OneAction, PageType, Changing
<1>4. Page!Acting /\ ~Page!Acting'
  BY <1>1, <1>3 DEF Page!Acting, Changing
<1>5. ~Page!Loading("incident")
  BY <1>4 DEF Apart, Alone
<1>6. ~Page!Loading("incident")' /\ ReadNow'
  BY <1>2, <1>5 DEF Page!Loading, ReadNow
<1>7. Page!StatusPushes' = Page!StatusPushes /\ PushedNow'
  BY <1>2 DEF Page!StatusPushes, Apart, PushedNow
<1>8. ShownNow'
  <2>1. CASE Page!OnSuccess(k)
    <3>1. detail' = mut[k].res /\ row' = mut[k].res /\ mut[k].st = "ok"
      BY <2>1 DEF Page!OnSuccess
    <3> QED
      BY <1>1, <1>2, <3>1 DEF Apart, HeldBack, ShownNow
  <2>2. CASE Page!OnError(k)
    <3>1. detail' = mut[k].prev /\ phantom' = TRUE /\ mut[k].st = "failed"
      BY <2>2 DEF Page!OnError
    <3> QED
      BY <1>1, <1>2, <3>1 DEF Apart, HeldBack, ShownNow
  <2> QED
    BY <2>1, <2>2
<1> QED
  BY <1>3, <1>6, <1>7, <1>8 DEF Apart, OneAction, Alone, HeldBack

(* A new action, when nothing else is under way: it cancels the request. *)
LEMMA ActApart ==
  ASSUME PageType, Apart, ~Page!Acting, Page!StatusPushes = {},
         NEW k \in ActionKinds, NEW to \in Owners, Page!Act(k, to)
  PROVE  Apart'
<1>1. /\ \A l \in Changing \ {k} : mut'[l].st = "idle"
      /\ k \in Changing /\ mut'[k].st = "sent" /\ mut'[k].prev = detail
  BY StartedType DEF Page!Acting, Changing, Page!Act
<1>2. Page!StatusPushes' = {} /\ pSrv' = pSrv
  BY DEF Page!Act, Page!StatusPushes
<1>3. "incident" \in PageQueries => req'["incident"].st = "none"
  BY DEF Page!Act, Page!NoRequest
<1>4. detail.status = pSrv.status
  BY DEF Apart, ShownNow
<1>5. Page!Acting' /\ ~Page!Loading("incident")' /\ ReadNow'
  BY <1>1, <1>3 DEF Page!Acting, Page!Loading, ReadNow, Changing
<1>6. HeldBack'
  BY <1>1, <1>2, <1>4 DEF HeldBack
<1> QED
  BY <1>1, <1>2, <1>5, <1>6 DEF Apart, OneAction, Alone, PushedNow, ShownNow

LEMMA PushedApart ==
  ASSUME PageType, Apart, NEW p \in pushes, Page!StatusPushed(p)
  PROVE  Apart'
<1>1. p \in Page!StatusPushes /\ p.status = pSrv.status
  BY DEF Page!StatusPushed, Page!StatusPushes, Apart, PushedNow
<1>2. UNCHANGED <<pSrv, req, mut>> /\ pushes' = pushes \ {p}
  BY DEF Page!StatusPushed
<1>3. detail'.status = pSrv.status /\ row'.status = pSrv.status
  BY <1>1 DEF Page!StatusPushed, PageType, Incident
<1>4. Page!StatusPushes' \subseteq Page!StatusPushes
  BY <1>2 DEF Page!StatusPushes
<1>5. Page!Acting' = Page!Acting /\ Page!Loading("incident")' = Page!Loading("incident")
  BY <1>2 DEF Page!Acting, Page!Loading
<1>6. ~Page!Loading("incident")
  BY <1>1 DEF Apart, Alone
<1>7. HeldBack'
  BY <1>1, <1>2, <1>4 DEF Apart, HeldBack
<1>8. OneAction' /\ ReadNow' /\ PushedNow'
  BY <1>2, <1>4 DEF Apart, OneAction, ReadNow, PushedNow
<1> QED
  BY <1>2, <1>3, <1>5, <1>6, <1>7, <1>8 DEF Apart, Alone, ShownNow

(* The request for the incident. *)
LEMMA RequestApart ==
  ASSUME PageType, Apart, "incident" \in PageQueries,
         \/ Page!Remount /\ ~Page!Acting /\ Page!StatusPushes = {}
         \/ Page!RequestRead("incident") \/ Page!RequestLands("incident")
         \/ Page!RequestFails("incident")
  PROVE  Apart'
<1>1. UNCHANGED <<pSrv, pushes, row, mut, phantom>>
  BY DEF Page!Remount, Page!RequestRead, Page!RequestLands, Page!RequestFails
<1>2. Page!StatusPushes' = Page!StatusPushes /\ Page!Acting' = Page!Acting
  BY <1>1 DEF Page!StatusPushes, Page!Acting
<1>3. ~Page!Acting /\ Page!StatusPushes = {}
  BY DEF Apart, Alone, Page!Loading, Page!RequestRead, Page!RequestLands, Page!RequestFails
<1>4. ReadNow'
  <2>1. CASE Page!Remount
    BY <2>1 DEF Page!Remount, Page!Sent, ReadNow
  <2>2. CASE Page!RequestRead("incident")
    <3>1. req'["incident"].rows = {pSrv}
      BY <2>2 DEF Page!RequestRead, PageType
    <3> QED
      BY <1>1, <3>1 DEF ReadNow
  <2>3. CASE Page!RequestLands("incident") \/ Page!RequestFails("incident")
    BY <2>3 DEF Page!RequestLands, Page!RequestFails, Page!NoRequest, ReadNow, PageType
  <2> QED
    BY <2>1, <2>2, <2>3
<1>5. detail'.status = pSrv.status
  <2>1. detail.status = pSrv.status
    BY <1>3 DEF Apart, ShownNow
  <2>2. detail' = detail \/ (req["incident"].st = "read" /\ detail' \in req["incident"].rows)
    BY DEF Page!Remount, Page!RequestRead, Page!RequestLands, Page!RequestFails
  <2> QED
    BY <2>1, <2>2 DEF Apart, ReadNow
<1> QED
  BY <1>1, <1>2, <1>3, <1>4, <1>5 DEF Apart, OneAction, Alone, PushedNow, HeldBack, ShownNow
LEMMA ApartKept ==
  ASSUME PageType, ~raced => Apart, Page!Next, ~raced'
  PROVE  Apart'
<1>1. ~raced /\ Apart
  <2>1. raced => raced'
    <3>1. \A k \in ActionKinds : Page!RequestLost(k) => raced' = raced \/ raced' = (raced \/ k # "note")
      BY LostType
    <3> QED
      BY <3>1, PageSteps DEF PageType, Page!Other, Page!Serve, Page!OnSuccess, Page!OnError, Page!Act,
         Page!SubmitNote, Page!NoteSettled, Page!StatusPushed, Page!NotePushed, Page!PushLost,
         Page!ReopenAsked, Page!ReopenCancelled, Page!Remount, Page!TimelineRefreshed,
         Page!RequestRead, Page!RequestLands, Page!RequestFails
  <2> QED
    BY <2>1
<1>2. ASSUME NEW k \in ActionKinds, Page!Other(k) PROVE Apart'
  <2>1. k = "note" \/ (~Page!Acting /\ Page!StatusPushes = {} /\ ~Page!Loading("incident"))
    BY <1>2 DEF Page!Other
  <2> QED
    BY <1>1, <1>2, <2>1, NoteSteps, OtherApart
<1>3. ASSUME NEW k \in ActionKinds, Page!Serve(k) \/ Page!RequestLost(k) PROVE Apart'
  BY <1>1, <1>3, NoteSteps, ServeApart, LostApart DEF Changing
<1>4. ASSUME NEW k \in ActionKinds, Page!OnSuccess(k) \/ Page!OnError(k) PROVE Apart'
  BY <1>1, <1>4, SettledApart
<1>5. ASSUME NEW k \in ActionKinds, NEW to \in Owners, Page!Act(k, to) PROVE Apart'
  <2>1. ~Page!Acting /\ Page!StatusPushes = {}
    BY <1>5 DEF Page!Act
  <2> QED
    BY <1>1, <1>5, <2>1, ActApart
<1>6. ASSUME NEW p \in pushes, Page!StatusPushed(p) PROVE Apart'
  BY <1>1, <1>6, PushedApart
<1>7. ASSUME NEW p \in pushes, Page!NotePushed(p) \/ Page!PushLost(p) PROVE Apart'
  <2>1. Page!PushLost(p) => p.kind = "note"
    BY DEF Page!PushLost, PageType, Event
  <2> QED
    BY <1>1, <1>7, <2>1, NoteSteps
<1>8. CASE Page!Remount
  <2>1. ~Page!Acting /\ Page!StatusPushes = {}
    BY <1>8 DEF Page!Remount
  <2>2. CASE "incident" \in PageQueries
    BY <1>1, <1>8, <2>1, <2>2, RequestApart
  <2>3. CASE "incident" \notin PageQueries
    <3>1. UNCHANGED <<pSrv, pushes, detail, row, phantom, mut>>
      BY <1>8 DEF Page!Remount
    <3> QED
      BY <1>1, <2>3, <3>1, ApartFrame DEF Page!StatusPushes
  <2> QED
    BY <2>2, <2>3
<1>9. ASSUME NEW q \in PageQueries, Page!RequestRead(q) \/ Page!RequestLands(q) \/ Page!RequestFails(q)
      PROVE  Apart'
  BY <1>1, <1>9, NoteSteps, RequestApart
<1>10. CASE Page!SubmitNote \/ Page!NoteSettled \/ Page!ReopenAsked \/ Page!ReopenCancelled
            \/ Page!TimelineRefreshed
  BY <1>1, <1>10, NoteSteps
<1> QED
  BY <1>2, <1>3, <1>4, <1>5, <1>6, <1>7, <1>8, <1>9, <1>10, PageSteps

LEMMA PageStep == PageInv /\ [DashboardNext]_dashboardVars => PageInv'
<1> SUFFICES ASSUME PageInv, [DashboardNext]_dashboardVars PROVE PageInv'
  OBVIOUS
<1>1. CASE UNCHANGED incidentVars
  <2>1. UNCHANGED <<pSrv, commits, pushes, detail, row, req, mut, phantom, raced>>
    BY <1>1 DEF incidentVars
  <2>2. PageType'
    BY <2>1 DEF PageInv, PageType
  <2>3. ~raced' => Apart'
    BY <2>1, ApartFrame DEF PageInv, Page!StatusPushes
  <2> QED
    BY <2>2, <2>3 DEF PageInv
<1>2. CASE Page!Next
  BY <1>2, TypeKept, ApartKept DEF PageInv
<1> QED
  BY <1>1, <1>2 DEF DashboardNext, FormsStep, ScreensStep, ActionsStep, IncidentStep, ReviewStep, ChartsStep,
     BellStep, dashboardVars

(* The incident page's invariant. *)
THEOREM PageInvariance == DashboardSpec => []PageInv
BY PageStart, PageStep, PTL DEF DashboardSpec

(* When nothing is under way and no two changes of the status crossed, the  *)
(* page shows the server's status, and so does the row in the lists unless  *)
(* a failed action left its outcome there.                                  *)
THEOREM PageAgrees == DashboardSpec => []DetailFollowsServer
<1>1. PageInv => DetailFollowsServer
  BY DEF PageInv, Apart, ShownNow, DetailFollowsServer, Page!DetailFollowsServer, Page!Settled
<1> QED
  BY <1>1, PageInvariance, PTL

-----------------------------------------------------------------------------
(***************************************************************************)
(* Postmortem.  The draft is emptied by nothing but a save that succeeds,  *)
(* whose texts the server has accepted by then; and a review starts with   *)
(* what was asked for in the postmortem, because the save before it has    *)
(* put it there and whoever saves over it withdraws it from what is asked. *)
(***************************************************************************)
Texts  == [TextFields -> Nat]
Copied == [exists : BOOLEAN, status : {"PENDING", "IN_REVIEW", "COMPLETED"}, text : Texts]
Nexts  == {"none", "submit", "complete"}

ReviewType ==
  /\ pm \in Copied /\ copy.pm \in Copied /\ (mReq.st = "read" => mReq.data.pm \in Copied)
  /\ draft \in Texts /\ last \in Texts /\ asked \in Texts
  /\ save \in [st : {"idle", "sent", "ok", "failed"}, text : Texts, next : Nexts]
  /\ step \in [st : {"idle", "sent", "ok", "failed"}, kind : Nexts]
  /\ mTyped \in Nat

(* What a review was asked for is in these texts, or was given up. *)
Within(text) == \A f \in TextFields : asked[f] \in {0, text[f]}

Typing ==
  /\ ~dirty => draft = Review!Blank
  /\ \A f \in TextFields : last[f] \in {0, draft[f]} \cup kept \cup discarded
  /\ save.st = "ok" => \A f \in TextFields : save.text[f] \in kept
Asking ==
  /\ save.st # "idle" /\ save.next # "none" => Within(save.text)
  /\ save.st = "ok" /\ save.next # "none" => Within(pm.text)
  /\ step.st = "sent" => Within(pm.text)
  /\ reviewed

ReviewInv == ReviewType /\ Typing /\ Asking

LEMMA BlankType == Review!Blank \in Texts
BY DEF Review!Blank, Texts

LEMMA ReviewStart == DashboardInit => ReviewInv
<1> SUFFICES ASSUME Review!Init PROVE ReviewInv
  BY DEF DashboardInit
<1>1. /\ pm \in Copied /\ copy.pm = pm /\ mReq.st = "none"
      /\ draft = Review!Blank /\ last = Review!Blank /\ asked = Review!Blank /\ mTyped = 0
  BY BlankType DEF Review!Init, Review!NoPostmortem, Copied
<1>2. /\ save \in [st : {"idle", "sent", "ok", "failed"}, text : Texts, next : Nexts]
      /\ step \in [st : {"idle", "sent", "ok", "failed"}, kind : Nexts]
      /\ save.st = "idle" /\ step.st = "idle" /\ reviewed
  BY BlankType DEF Review!Init, Review!NoSave, Review!NoStep, Nexts
<1> QED
  BY <1>1, <1>2, BlankType DEF ReviewInv, ReviewType, Typing, Asking, Review!Blank

(* A step that leaves the texts alone. *)
LEMMA TextsApart ==
  ASSUME ReviewInv, UNCHANGED Review!textVars,
         pm' \in Copied, pm'.text = pm.text, copy'.pm \in Copied,
         mReq'.st = "read" => mReq'.data.pm \in Copied
  PROVE  ReviewInv'
BY DEF ReviewInv, ReviewType, Typing, Asking, Within, Review!textVars

LEMMA ItemStep ==
  ASSUME ReviewInv, UNCHANGED Review!textVars, UNCHANGED copy,
         mReq' = mReq \/ mReq'.st = "sent",
         pm' = pm \/ pm' = [pm EXCEPT !.exists = TRUE]
  PROVE  ReviewInv'
<1>1. pm' \in Copied /\ pm'.text = pm.text
  BY DEF ReviewInv, ReviewType, Copied
<1> QED
  BY <1>1, TextsApart DEF ReviewInv, ReviewType

LEMMA ItemsKeep ==
  ASSUME ReviewInv, Review!ActionItems
  PROVE  ReviewInv'
<1> DEFINE Kept == /\ UNCHANGED Review!textVars /\ UNCHANGED copy
                   /\ mReq' = mReq \/ mReq'.st = "sent"
                   /\ pm' = pm \/ pm' = [pm EXCEPT !.exists = TRUE]
<1>1. CASE Review!AddTyped \/ Review!AddCancelled \/ Review!ItemRequestLost
  <2>1. Kept
    BY <1>1 DEF Review!AddTyped, Review!AddCancelled, Review!ItemRequestLost, Review!srvVars, Review!netVars
  <2> QED
    BY <2>1, ItemStep
<1>2. CASE Review!AddServed
  <2>1. UNCHANGED Review!textVars /\ UNCHANGED copy
    BY <1>2 DEF Review!AddServed
  <2>2. mReq' = mReq \/ mReq'.st = "sent"
    BY <1>2 DEF Review!AddServed, Review!Sent
  <2>3. pm' = pm \/ pm' = [pm EXCEPT !.exists = TRUE]
    BY <1>2 DEF Review!AddServed, Review!ItemAdded, Review!srvVars
  <2> QED
    BY <2>1, <2>2, <2>3, ItemStep
<1>3. ASSUME NEW key, Review!AddSubmitted(key) PROVE ReviewInv'
  <2>1. Kept
    BY <1>3 DEF Review!AddSubmitted, Review!srvVars, Review!netVars
  <2> QED
    BY <2>1, ItemStep
<1>4. ASSUME NEW i, Review!EditOpened(i) \/ Review!EditCancelled(i) PROVE ReviewInv'
  <2>1. Kept
    BY <1>4 DEF Review!EditOpened, Review!EditCancelled, Review!srvVars, Review!netVars
  <2> QED
    BY <2>1, ItemStep
<1>5. ASSUME NEW i, NEW s, Review!EditTyped(i, s) PROVE ReviewInv'
  <2>1. Kept
    BY <1>5 DEF Review!EditTyped, Review!srvVars, Review!netVars
  <2> QED
    BY <2>1, ItemStep
<1>6. ASSUME NEW i, NEW k, NEW s, NEW b, Review!RowRequest(i, k, s, b) PROVE ReviewInv'
  <2>1. Kept
    BY <1>6 DEF Review!RowRequest, Review!srvVars, Review!netVars
  <2> QED
    BY <2>1, ItemStep
<1>7. ASSUME NEW i, Review!RowServed(i) PROVE ReviewInv'
  <2>1. UNCHANGED <<pm, copy, Review!textVars>>
    BY <1>7 DEF Review!RowServed
  <2>2. mReq' = mReq \/ mReq' = Review!Sent
    <3> USE <1>7 DEF Review!RowServed
    <3>1. CASE Review!Listed(i, item) /\ pm.status # "COMPLETED"
      BY <3>1, Zenon
    <3>2. CASE ~(Review!Listed(i, item) /\ pm.status # "COMPLETED")
      BY <3>2, Zenon
    <3> QED
      BY <3>1, <3>2
  <2>3. Review!Sent.st = "sent"
    BY DEF Review!Sent
  <2> QED
    BY <2>1, <2>2, <2>3, ItemStep
<1> QED
  BY <1>1, <1>2, <1>3, <1>4, <1>5, <1>6, <1>7
  DEF Review!ActionItems, Review!EditSaved, Review!StatusChosen, Review!DeleteClicked

LEMMA CachedKeep ==
  ASSUME ReviewInv, Review!Cached
  PROVE  ReviewInv'
<1>1. UNCHANGED <<pm, Review!textVars>>
  BY DEF Review!Cached, Review!PushArrives, Review!FetchRead, Review!FetchLands, Review!FetchFails, Review!srvVars
<1>2. copy'.pm \in Copied /\ (mReq'.st = "read" => mReq'.data.pm \in Copied)
  BY DEF Review!Cached, Review!PushArrives, Review!FetchRead, Review!FetchLands, Review!FetchFails,
         Review!Sent, Review!Idle, ReviewInv, ReviewType
<1> QED
  BY <1>1, <1>2, TextsApart DEF ReviewInv, ReviewType

LEMMA OthersKeep ==
  ASSUME ReviewInv, Review!Other
  PROVE  ReviewInv'
<1>1. UNCHANGED <<draft, dirty, save, step, mTyped, last, kept, discarded, reviewed, copy, mReq>>
  BY DEF Review!Other, Review!netVars
<1>2. CASE asked' = asked /\ pm' \in Copied /\ pm'.text = pm.text
  BY <1>1, <1>2, TextsApart DEF ReviewInv, ReviewType, Review!textVars
<1>3. CASE asked' = Review!Blank /\ pm' \in Copied
  BY <1>1, <1>3, BlankType DEF ReviewInv, ReviewType, Typing, Asking, Within, Review!Blank
<1>4. CASE \E f \in TextFields : Review!Saved([pm.text EXCEPT ![f] = MaxTyped + 1]) /\ asked' = Review!Blank
  BY <1>3, <1>4, BoundAssumption DEF Review!Saved, ReviewInv, ReviewType, Copied, Texts
<1>5. CASE \E kind \in {"submit", "complete"} : Review!Stepped(kind) /\ asked' = asked
  BY <1>2, <1>5 DEF Review!Stepped, ReviewInv, ReviewType, Copied
<1>6. CASE (Review!ItemAdded(MaxTyped + 1) \/ pm' = pm) /\ asked' = asked
  BY <1>2, <1>6 DEF Review!ItemAdded, ReviewInv, ReviewType, Copied
<1> QED
  BY <1>4, <1>5, <1>6 DEF Review!Other

LEMMA UpdateKeeps ==
  ASSUME ReviewInv, NEW f \in TextFields, Review!Update(f)
  PROVE  ReviewInv'
<1>1. /\ mTyped' = mTyped + 1 /\ draft' = [draft EXCEPT ![f] = mTyped']
      /\ last' = [last EXCEPT ![f] = mTyped'] /\ dirty'
      /\ UNCHANGED <<pm, save, step, kept, discarded, asked, reviewed, copy, mReq>>
  BY DEF Review!Update, Review!srvVars, Review!netVars
<1>2. ReviewType'
  BY <1>1 DEF ReviewInv, ReviewType, Texts
<1>3. Typing'
  BY <1>1 DEF ReviewInv, ReviewType, Typing, Texts
<1> QED
  BY <1>1, <1>2, <1>3 DEF ReviewInv, Asking, Within

(* What a save sends. *)
LEMMA CurrentTexts ==
  ASSUME ReviewInv
  PROVE  Review!Current \in Texts /\ \A f \in TextFields : draft[f] \in {0, Review!Current[f]}
<1>1. copy.pm.text \in Texts
  BY DEF ReviewInv, ReviewType, Copied
<1> QED
  BY <1>1 DEF ReviewInv, ReviewType, Texts, Review!Current

LEMMA SaveClickedKeeps ==
  ASSUME ReviewInv, Review!SaveClicked
  PROVE  ReviewInv'
<1>1. /\ save' = [st |-> "sent", text |-> Review!Current, next |-> "none"]
      /\ UNCHANGED <<pm, draft, dirty, step, mTyped, last, kept, discarded, asked, reviewed, copy, mReq>>
  BY DEF Review!SaveClicked, Review!SaveStarts, Review!srvVars, Review!netVars
<1>2. save' \in [st : {"idle", "sent", "ok", "failed"}, text : Texts, next : Nexts]
      /\ save'.st = "sent" /\ save'.next = "none"
  BY <1>1, CurrentTexts DEF Nexts
<1> QED
  BY <1>1, <1>2 DEF ReviewInv, ReviewType, Typing, Asking, Within

LEMMA ReviewClickedKeeps ==
  ASSUME ReviewInv, NEW kind \in {"submit", "complete"}, Review!ReviewClicked(kind)
  PROVE  ReviewInv'
<1>1. /\ asked' = draft /\ step.st = "idle" /\ save.st = "idle"
      /\ UNCHANGED <<pm, draft, dirty, mTyped, last, kept, discarded, reviewed, copy, mReq>>
  BY DEF Review!ReviewClicked, Review!srvVars, Review!netVars
<1>2. CASE dirty
  <2>1. save' = [st |-> "sent", text |-> Review!Current, next |-> kind] /\ step' = step
    BY <1>2 DEF Review!ReviewClicked, Review!SaveStarts
  <2>2. /\ save' \in [st : {"idle", "sent", "ok", "failed"}, text : Texts, next : Nexts]
        /\ save'.st = "sent" /\ Within(save.text)'
    BY <1>1, <2>1, CurrentTexts DEF Nexts, Within
  <2> QED
    BY <1>1, <2>1, <2>2 DEF ReviewInv, ReviewType, Typing, Asking, Within
<1>3. CASE ~dirty
  <2>1. save' = save /\ step' = [st |-> "sent", kind |-> kind]
    BY <1>3 DEF Review!ReviewClicked
  <2>2. Within(pm.text)'
    BY <1>1, <1>3 DEF ReviewInv, Typing, Within, Review!Blank
  <2> QED
    BY <1>1, <2>1, <2>2 DEF ReviewInv, ReviewType, Typing, Asking, Nexts
<1> QED
  BY <1>2, <1>3

LEMMA SaveServedKeeps ==
  ASSUME ReviewInv, Review!SaveServed \/ Review!SaveLost
  PROVE  ReviewInv'
<1>1. /\ save.st = "sent"
      /\ UNCHANGED <<draft, dirty, step, mTyped, last, discarded, reviewed, copy, mReq>>
  BY DEF Review!SaveServed, Review!SaveLost, Review!netVars
<1>2. CASE save' = [save EXCEPT !.st = "failed"] /\ UNCHANGED <<pm, kept, asked>>
  BY <1>1, <1>2 DEF ReviewInv, ReviewType, Typing, Asking, Within
<1>3. CASE /\ Review!Saved(save.text) /\ save' = [save EXCEPT !.st = "ok"]
           /\ kept' = kept \cup {save.text[f] : f \in TextFields}
           /\ asked' = [f \in TextFields |-> IF save.next = "none" /\ asked[f] # save.text[f]
                                       THEN 0 ELSE asked[f]]
  <2>1. pm' \in Copied /\ pm'.text = save.text
    BY <1>3 DEF Review!Saved, ReviewInv, ReviewType, Copied
  <2>2. /\ save' \in [st : {"idle", "sent", "ok", "failed"}, text : Texts, next : Nexts]
        /\ save'.st = "ok" /\ save'.text = save.text /\ save'.next = save.next
    BY <1>3 DEF ReviewInv, ReviewType
  <2>3. asked' \in Texts /\ Within(save.text)'
    BY <1>1, <1>3, <2>2 DEF ReviewInv, ReviewType, Asking, Within, Texts
  <2>4. Typing'
    BY <1>1, <1>3, <2>2 DEF ReviewInv, Typing
  <2> QED
    BY <1>1, <2>1, <2>2, <2>3, <2>4 DEF ReviewInv, ReviewType, Asking, Within
<1> QED
  BY <1>2, <1>3 DEF Review!SaveServed, Review!SaveLost, Review!srvVars

LEMMA SaveSettlesKeeps ==
  ASSUME ReviewInv, Review!SaveSucceeds \/ Review!SaveFails
  PROVE  ReviewInv'
<1>1. /\ save' = Review!NoSave
      /\ UNCHANGED <<pm, mTyped, last, kept, asked, reviewed, copy>>
      /\ mReq' = mReq \/ mReq'.st = "sent"
  BY DEF Review!SaveSucceeds, Review!SaveFails, Review!srvVars, Review!netVars, Review!Sent
<1>2. /\ save' \in [st : {"idle", "sent", "ok", "failed"}, text : Texts, next : Nexts]
      /\ save'.st = "idle"
  BY <1>1, BlankType DEF Review!NoSave, Nexts
<1>3. CASE Review!SaveFails
  <2>1. UNCHANGED <<draft, dirty, step, discarded>>
    BY <1>3 DEF Review!SaveFails
  <2> QED
    BY <1>1, <1>2, <2>1 DEF ReviewInv, ReviewType, Typing, Asking, Within
<1>4. CASE Review!SaveSucceeds
  <2>1. /\ save.st = "ok" /\ draft' = Review!Blank
        /\ discarded' = discarded \cup {draft[f] : f \in {g \in TextFields : draft[g] # save.text[g]}}
        /\ step' = IF save.next = "none" THEN step ELSE [st |-> "sent", kind |-> save.next]
    BY <1>4 DEF Review!SaveSucceeds
  <2>2. step' \in [st : {"idle", "sent", "ok", "failed"}, kind : Nexts]
    BY <2>1 DEF ReviewInv, ReviewType
  <2>3. step'.st = "sent" => Within(pm.text)
    BY <2>1 DEF ReviewInv, Asking
  <2>4. Typing'
    BY <1>1, <1>2, <2>1 DEF ReviewInv, Typing
  <2> QED
    BY <1>1, <1>2, <2>1, <2>2, <2>3, <2>4, BlankType DEF ReviewInv, ReviewType, Asking, Within
<1> QED
  BY <1>3, <1>4

LEMMA StepKeeps ==
  ASSUME ReviewInv, Review!StepServed \/ Review!StepSettles
  PROVE  ReviewInv'
<1>1. CASE Review!StepSettles
  <2>1. UNCHANGED <<pm, draft, dirty, save, mTyped, last, kept, discarded, asked, reviewed, copy>>
    BY <1>1 DEF Review!StepSettles, Review!srvVars
  <2>2. step' \in [st : {"idle", "sent", "ok", "failed"}, kind : Nexts] /\ step'.st # "sent"
    BY <1>1 DEF Review!StepSettles, Review!NoStep, Nexts
  <2>3. mReq' = mReq \/ mReq'.st = "sent"
    BY <1>1 DEF Review!StepSettles, Review!Sent
  <2> QED
    BY <2>1, <2>2, <2>3 DEF ReviewInv, ReviewType, Typing, Asking, Within
<1>2. CASE Review!StepServed
  <2>1. step.st = "sent" /\ UNCHANGED <<draft, dirty, save, mTyped, last, kept, discarded, asked, copy, mReq>>
    BY <1>2 DEF Review!StepServed, Review!netVars
  <2>2. CASE Review!StepAllowed(step.kind)
    <3>1. /\ Review!Stepped(step.kind) /\ step' = [step EXCEPT !.st = "ok"]
          /\ reviewed' = (\A f \in TextFields : asked[f] \in {0, pm.text[f]})
      BY <1>2, <2>2 DEF Review!StepServed
    <3>2. pm' \in Copied /\ pm'.text = pm.text
      BY <3>1 DEF Review!Stepped, ReviewInv, ReviewType, Copied
    <3>3. step' \in [st : {"idle", "sent", "ok", "failed"}, kind : Nexts] /\ step'.st # "sent"
      BY <3>1 DEF ReviewInv, ReviewType
    <3>4. reviewed'
      BY <2>1, <3>1 DEF ReviewInv, Asking, Within
    <3> QED
      BY <2>1, <3>2, <3>3, <3>4 DEF ReviewInv, ReviewType, Typing, Asking, Within
  <2>3. CASE ~Review!StepAllowed(step.kind)
    <3>1. step' = [step EXCEPT !.st = "failed"] /\ pm' = pm /\ reviewed' = reviewed
      BY <1>2, <2>3 DEF Review!StepServed
    <3>2. step' \in [st : {"idle", "sent", "ok", "failed"}, kind : Nexts] /\ step'.st # "sent"
      BY <3>1 DEF ReviewInv, ReviewType
    <3> QED
      BY <2>1, <3>1, <3>2 DEF ReviewInv, ReviewType, Typing, Asking, Within
  <2> QED
    BY <2>2, <2>3
<1> QED
  BY <1>1, <1>2

LEMMA ReviewInvStep ==
  ASSUME ReviewInv, [DashboardNext]_dashboardVars
  PROVE  ReviewInv'
<1>1. CASE ReviewStep
  <2>1. Review!Next
    BY <1>1 DEF ReviewStep
  <2> QED
    BY <2>1, ItemsKeep, CachedKeep, OthersKeep, UpdateKeeps, SaveClickedKeeps, ReviewClickedKeeps,
       SaveServedKeeps, SaveSettlesKeeps, StepKeeps DEF Review!Next, Review!Document
<1>2. CASE UNCHANGED reviewVars
  BY <1>2 DEF reviewVars, ReviewInv, ReviewType, Typing, Asking, Within
<1> QED
  BY <1>1, <1>2 DEF DashboardNext, FormsStep, ScreensStep, ActionsStep, IncidentStep, ChartsStep,
                    BellStep, dashboardVars

(* The postmortem editor's invariant. *)
THEOREM ReviewInvariance == DashboardSpec => []ReviewInv
BY ReviewStart, ReviewInvStep, PTL DEF DashboardSpec

(* What was typed into a field is in the draft, was saved or was given up,   *)
(* and a review starts with what was asked for in the postmortem.            *)
THEOREM DraftKept == DashboardSpec => []DraftIsKept
<1>1. ReviewInv => DraftIsKept
  BY DEF ReviewInv, Typing, Asking, DraftIsKept, Review!DraftIsKept, Review!TypedTextSurvives,
         Review!SubmittedIncludesDraft
<1> QED
  BY <1>1, ReviewInvariance, PTL

-----------------------------------------------------------------------------
(***************************************************************************)
(* Charts.  A figure whose count is behind is one that somebody will still *)
(* ask for again: a push on its way or the timer names it, it is already   *)
(* counted as missed, it is stale and out of sight, or it is being         *)
(* fetched (FiguresFollow).                                                *)
(***************************************************************************)
ChartsType ==
  /\ ingested \in [Subjects -> Nat]
  /\ \A p \in arriving : p.touched \in Batches
  /\ timer \in SUBSET Batches /\ \A b, c \in timer : b = c
  /\ nCache \in [Charts!Keys -> [has : BOOLEAN, seen : Nat, stale : BOOLEAN]]
  /\ nFetch \in [Charts!Keys -> [st : {"none", "sent", "read"}, seen : Nat]]

Coming(k) == \/ k \in missed
             \/ \E p \in arriving : k[2] \in p.touched
             \/ \E b \in timer : k[2] \in b
Counts(k, n) == n = ingested[k[2]] \/ Coming(k)
Current(k) ==
  /\ nFetch[k].st = "read" => Counts(k, nFetch[k].seen)
  /\ nFetch[k].st = "none" /\ nCache[k].has /\ (k \in Charts!InSight \/ ~nCache[k].stale)
       => Counts(k, nCache[k].seen)
FiguresFollow == \A k \in Charts!Keys : Current(k)

ChartsInv == ChartsType /\ FiguresFollow

LEMMA ChartsStart == DashboardInit => ChartsInv
<1> SUFFICES ASSUME Charts!NInit PROVE ChartsInv
  BY DEF DashboardInit
<1>1. ChartsType
  BY DEF ChartsType, Charts!NInit, Charts!Nothing, Charts!Sent, Charts!NoFetch
<1>2. \A k \in Charts!Keys : nFetch[k].st # "read" /\ ~nCache[k].has
  BY DEF Charts!NInit, Charts!Nothing, Charts!Sent, Charts!NoFetch
<1> QED
  BY <1>1, <1>2 DEF ChartsInv, FiguresFollow, Current

LEMMA KeySubject == ASSUME NEW k \in Charts!Keys PROVE k[2] \in Subjects
BY DEF Charts!Keys

LEMMA RequestTypes ==
  /\ Charts!Sent \in [st : {"none", "sent", "read"}, seen : Nat] /\ Charts!Sent.st = "sent"
  /\ Charts!NoFetch \in [st : {"none", "sent", "read"}, seen : Nat] /\ Charts!NoFetch.st = "none"
BY DEF Charts!Sent, Charts!NoFetch

(* Looking at another page and asking for the one in sight again. *)
LEMMA LookKeeps ==
  ASSUME ChartsInv, NEW v \in Subjects \X Ranges, Charts!Look(v)
  PROVE  ChartsInv'
<1>1. PICK late \in BOOLEAN :
        nFetch' = [k \in Charts!Keys |-> IF k \in Charts!Mounted(v, late) THEN Charts!Sent ELSE nFetch[k]]
  BY DEF Charts!Look
<1>2. view' = v /\ UNCHANGED <<ingested, arriving, timer, nCache, missed>>
  BY DEF Charts!Look
<1>3. ChartsType'
  BY <1>1, <1>2, RequestTypes DEF ChartsInv, ChartsType
<1>4. ASSUME NEW k \in Charts!Keys PROVE Current(k)'
  <2>1. \/ nFetch'[k].st = "sent"
        \/ nFetch'[k] = nFetch[k] /\ (k \in Charts!InSight' => ~(~nCache[k].has \/ nCache[k].stale) \/ nFetch[k].st # "none")
    BY <1>1, <1>2, RequestTypes DEF Charts!Mounted, Charts!InSight, Charts!Fetching
  <2>2. Current(k)
    BY DEF ChartsInv, FiguresFollow
  <2> QED
    BY <1>2, <1>3, <2>1, <2>2 DEF Current, Counts, Coming, ChartsType
<1> QED
  BY <1>3, <1>4 DEF ChartsInv, FiguresFollow

LEMMA RefreshKeeps ==
  ASSUME ChartsInv, Charts!Refresh
  PROVE  ChartsInv'
<1>1. /\ nFetch' = [k \in Charts!Keys |-> IF k \in Charts!InSight /\ Charts!Again(k) THEN Charts!Sent ELSE nFetch[k]]
      /\ UNCHANGED <<ingested, arriving, timer, view, nCache, missed>>
  BY DEF Charts!Refresh
<1>2. ChartsType'
  BY <1>1, RequestTypes DEF ChartsInv, ChartsType
<1>3. ASSUME NEW k \in Charts!Keys PROVE Current(k)'
  BY <1>1, RequestTypes DEF ChartsInv, FiguresFollow, Current, Counts, Coming, Charts!InSight
<1> QED
  BY <1>2, <1>3 DEF ChartsInv, FiguresFollow

LEMMA IngestedKeeps ==
  ASSUME ChartsInv, NEW b \in Batches, Charts!Ingested(b)
  PROVE  ChartsInv'
<1>1. /\ ingested' = [s \in Subjects |-> ingested[s] + IF s \in b THEN 1 ELSE 0]
      /\ arriving' = arriving \cup {[n |-> batches, touched |-> b]}
      /\ UNCHANGED <<timer, view, nCache, nFetch, missed>>
  BY DEF Charts!Ingested
<1>2. ChartsType'
  <2>1. \A s \in Subjects : ingested[s] + (IF s \in b THEN 1 ELSE 0) \in Nat
    BY DEF ChartsInv, ChartsType
  <2>2. ingested' \in [Subjects -> Nat]
    BY <1>1, <2>1
  <2>3. \A p \in arriving' : p.touched \in Batches
    BY <1>1 DEF ChartsInv, ChartsType
  <2>4. UNCHANGED <<timer, nCache, nFetch>>
    BY <1>1
  <2> QED
    BY <2>2, <2>3, <2>4 DEF ChartsInv, ChartsType
<1>3. ASSUME NEW k \in Charts!Keys, NEW n, Counts(k, n) PROVE Counts(k, n)'
  <2>1. CASE k[2] \in b
    <3> DEFINE p == [n |-> batches, touched |-> b]
    <3>1. p \in arriving' /\ p.touched = b
      BY <1>1
    <3> QED
      BY <2>1, <3>1 DEF Counts, Coming
  <2>2. CASE k[2] \notin b
    <3>1. ingested'[k[2]] = ingested[k[2]]
      BY <1>1, <2>2, KeySubject DEF ChartsInv, ChartsType
    <3> QED
      BY <1>1, <1>3, <3>1 DEF Counts, Coming
  <2> QED
    BY <2>1, <2>2
<1>4. ASSUME NEW k \in Charts!Keys PROVE Current(k)'
  BY <1>1, <1>3 DEF ChartsInv, FiguresFollow, Current, Charts!InSight
<1> QED
  BY <1>2, <1>4 DEF ChartsInv, FiguresFollow

(* A push or the timer that is given up leaves what it named as missed. *)
LEMMA PushesKeep ==
  ASSUME ChartsInv,
         \/ \E p \in arriving : Charts!PushLost(p) \/ Charts!ScheduleAnalyticsRefetch(p)
         \/ Charts!Cleanup
  PROVE  ChartsInv'
<1>1. UNCHANGED <<ingested, view, nCache, nFetch>>
  BY DEF Charts!PushLost, Charts!ScheduleAnalyticsRefetch, Charts!Cleanup
<1>2. ChartsType' /\ \A k \in Charts!Keys : Coming(k) => Coming(k)'
  <2>1. CASE \E p \in arriving : Charts!PushLost(p)
    <3>1. PICK p \in arriving : Charts!PushLost(p)
      BY <2>1
    <3>2. arriving' = arriving \ {p} /\ missed' = missed \cup Charts!Of(p.touched) /\ timer' = timer
      BY <3>1 DEF Charts!PushLost
    <3> QED
      BY <1>1, <3>2 DEF ChartsInv, ChartsType, Coming, Charts!Of
  <2>2. CASE \E p \in arriving : Charts!ScheduleAnalyticsRefetch(p)
    <3>1. PICK p \in arriving : Charts!ScheduleAnalyticsRefetch(p)
      BY <2>2
    <3>2. /\ arriving' = arriving \ {p} /\ timer' = {p.touched}
          /\ missed' = missed \cup Charts!Of((UNION timer) \ p.touched)
      BY <3>1 DEF Charts!ScheduleAnalyticsRefetch
    <3>3. ChartsType'
      BY <1>1, <3>2 DEF ChartsInv, ChartsType
    <3> QED
      BY <3>2, <3>3 DEF Coming, Charts!Of
  <2>3. CASE Charts!Cleanup
    BY <1>1, <2>3 DEF ChartsInv, ChartsType, Coming, Charts!Of, Charts!Cleanup
  <2> QED
    BY <2>1, <2>2, <2>3
<1>3. ASSUME NEW k \in Charts!Keys PROVE Current(k)'
  BY <1>1, <1>2 DEF ChartsInv, FiguresFollow, Current, Counts, Charts!InSight
<1> QED
  BY <1>2, <1>3 DEF ChartsInv, FiguresFollow

LEMMA TimerKeeps ==
  ASSUME ChartsInv, Charts!TimerFires
  PROVE  ChartsInv'
<1>1. PICK b \in timer :
        /\ nCache' = [k \in Charts!Keys |-> [nCache[k] EXCEPT !.stale = @ \/ k \in Charts!Invalidated(b)]]
        /\ nFetch' = [k \in Charts!Keys |-> IF k \in Charts!Invalidated(b) \cap Charts!InSight /\ Charts!Again(k)
                                   THEN Charts!Sent ELSE nFetch[k]]
        /\ missed' = missed \cup {k \in Charts!Of(b) : nFetch[k].st = "read" /\ nFetch'[k] # Charts!Sent}
  BY DEF Charts!TimerFires
<1>2. timer' = {} /\ timer = {b} /\ UNCHANGED <<ingested, arriving, view>>
  BY DEF Charts!TimerFires, ChartsInv, ChartsType
<1>3. \A k \in Charts!Keys :
        LET old == nCache[k].stale IN
        /\ nCache'[k].has = nCache[k].has /\ nCache'[k].seen = nCache[k].seen
        /\ nCache'[k].stale <=> (old \/ k \in Charts!Of(b))
        /\ nCache'[k] \in [has : BOOLEAN, seen : Nat, stale : BOOLEAN]
  BY <1>1 DEF ChartsInv, ChartsType, Charts!Invalidated
<1>4. ChartsType'
  BY <1>1, <1>2, <1>3, RequestTypes DEF ChartsInv, ChartsType
<1>5. ASSUME NEW k \in Charts!Keys PROVE Current(k)'
  <2>1. Current(k)
    BY DEF ChartsInv, FiguresFollow
  <2>2. CASE k \in Charts!Of(b)
    <3>1. nFetch'[k].st = "read" => k \in missed'
      BY <1>1, <2>2, RequestTypes
    <3>2. nFetch'[k].st = "none" /\ nCache[k].has => k \notin Charts!InSight
      BY <1>1, <2>2, RequestTypes DEF Charts!Invalidated, Charts!Again, Charts!Fetching
    <3> QED
      BY <1>2, <1>3, <2>2, <3>1, <3>2 DEF Current, Counts, Coming, Charts!InSight
  <2>3. CASE k \notin Charts!Of(b)
    <3>1. nFetch'[k] = nFetch[k] /\ (k \in missed => k \in missed')
      BY <1>1, <2>3 DEF Charts!Invalidated
    <3>2. k[2] \notin b
      BY <2>3 DEF Charts!Of
    <3> QED
      BY <1>2, <1>3, <2>1, <2>3, <3>1, <3>2 DEF Current, Counts, Coming, Charts!InSight
  <2> QED
    BY <2>2, <2>3
<1> QED
  BY <1>4, <1>5 DEF ChartsInv, FiguresFollow

LEMMA FigureFetchKeeps ==
  ASSUME ChartsInv, NEW k \in Charts!Keys,
         Charts!FetchRead(k) \/ Charts!FetchLands(k) \/ Charts!FetchFailed(k)
  PROVE  ChartsInv'
<1>1. UNCHANGED <<ingested, arriving, timer, view>>
  BY DEF Charts!FetchRead, Charts!FetchLands, Charts!FetchFailed
<1>2. ingested[k[2]] \in Nat
  BY KeySubject DEF ChartsInv, ChartsType
<1>3. ChartsType'
  <2> DEFINE R == [st : {"none", "sent", "read"}, seen : Nat]
             C == [has : BOOLEAN, seen : Nat, stale : BOOLEAN]
  <2>1. nFetch' \in [Charts!Keys -> R]
    <3>1. [st |-> "read", seen |-> ingested[k[2]]] \in R
      BY <1>2
    <3>2. nFetch \in [Charts!Keys -> R] /\ Charts!NoFetch \in R
      BY RequestTypes DEF ChartsInv, ChartsType
    <3> HIDE DEF R
    <3> QED
      BY <3>1, <3>2 DEF Charts!FetchRead, Charts!FetchLands, Charts!FetchFailed
  <2>2. nFetch[k].seen \in Nat
    BY DEF ChartsInv, ChartsType
  <2>3. nCache' \in [Charts!Keys -> C]
    <3>1. nCache \in [Charts!Keys -> C] /\ nCache[k] \in C
      BY DEF ChartsInv, ChartsType
    <3> DEFINE landed == [has |-> TRUE, seen |-> nFetch[k].seen, stale |-> FALSE]
               stale  == [nCache[k] EXCEPT !.stale = TRUE]
    <3>2. landed \in C /\ stale \in C
      BY <2>2, <3>1
    <3>3. \/ nCache' = nCache \/ nCache' = [nCache EXCEPT ![k] = landed]
          \/ nCache' = [nCache EXCEPT ![k] = stale]
      BY DEF Charts!FetchRead, Charts!FetchLands, Charts!FetchFailed
    <3> HIDE DEF C, landed, stale
    <3> QED
      BY <3>1, <3>2, <3>3
  <2> QED
    BY <1>1, <2>1, <2>3 DEF ChartsInv, ChartsType
<1>4. ASSUME NEW l \in Charts!Keys, l # k PROVE Current(l)'
  <2>1. nFetch'[l] = nFetch[l] /\ nCache'[l] = nCache[l] /\ (l \in missed => l \in missed')
    BY <1>4 DEF ChartsInv, ChartsType, Charts!FetchRead, Charts!FetchLands, Charts!FetchFailed
  <2> QED
    BY <1>1, <2>1 DEF ChartsInv, FiguresFollow, Current, Counts, Coming, Charts!InSight
<1>5. Current(k)'
  <2>1. CASE Charts!FetchRead(k)
    <3>1. nFetch'[k].st = "read" /\ nFetch'[k].seen = ingested[k[2]]
      BY <2>1 DEF ChartsInv, ChartsType, Charts!FetchRead
    <3> QED
      BY <1>1, <3>1 DEF Current, Counts
  <2>2. CASE Charts!FetchLands(k)
    <3>1. /\ nFetch[k].st = "read" /\ nFetch'[k].st = "none" /\ nCache'[k].seen = nFetch[k].seen
          /\ missed' = missed
      BY <2>2, RequestTypes DEF ChartsInv, ChartsType, Charts!FetchLands
    <3> QED
      BY <1>1, <3>1 DEF ChartsInv, FiguresFollow, Current, Counts, Coming
  <2>3. CASE Charts!FetchFailed(k)
    <3>1. k \in missed'
      BY <2>3 DEF Charts!FetchFailed
    <3> QED
      BY <3>1 DEF Current, Counts, Coming
  <2> QED
    BY <2>1, <2>2, <2>3
<1> QED
  BY <1>3, <1>4, <1>5 DEF ChartsInv, FiguresFollow

LEMMA ChartsStepKeeps ==
  ASSUME ChartsInv, Charts!NNext
  PROVE  ChartsInv'
BY LookKeeps, RefreshKeeps, IngestedKeeps, PushesKeep, TimerKeeps, FigureFetchKeeps DEF Charts!NNext

LEMMA ChartsInvStep ==
  ASSUME ChartsInv, [DashboardNext]_dashboardVars
  PROVE  ChartsInv'
<1>1. CASE ChartsStep
  BY <1>1, ChartsStepKeeps DEF ChartsStep
<1>2. CASE UNCHANGED chartsVars
  BY <1>2 DEF chartsVars, ChartsInv, ChartsType, FiguresFollow, Current, Counts, Coming, Charts!InSight
<1> QED
  BY <1>1, <1>2 DEF DashboardNext, FormsStep, ScreensStep, ActionsStep, IncidentStep, ReviewStep,
                    BellStep, dashboardVars

(* The invariant of the charts. *)
THEOREM ChartsInvariance == DashboardSpec => []ChartsInv
BY ChartsStart, ChartsInvStep, PTL DEF DashboardSpec

(* Once pushes, timer and requests have settled, a figure in sight counts    *)
(* every batch of its subject, unless a push or an answer was missed.        *)
THEOREM FiguresAgree == DashboardSpec => []FiguresConverge
<1>1. ChartsInv => FiguresConverge
  <2> SUFFICES ASSUME ChartsInv, arriving = {}, timer = {}, NEW k \in Charts!InSight, ~Charts!Fetching(k), nCache[k].has
               PROVE  nCache[k].seen = ingested[k[2]] \/ k \in missed
    BY DEF FiguresConverge, Charts!FiguresConverge, Charts!Shown
  <2>1. k \in Charts!Keys /\ nFetch[k].st = "none"
    BY DEF Charts!InSight, Charts!Fetching
  <2> QED
    BY <2>1 DEF ChartsInv, FiguresFollow, Current, Counts, Coming
<1> QED
  BY <1>1, ChartsInvariance, PTL

-----------------------------------------------------------------------------
(***************************************************************************)
(* Notification center.  An update asks again for what is in sight and has *)
(* data, and marks the lists; while nothing but updates touches the caches *)
(* and none is on its way the server cannot have changed since, so what is *)
(* answered is what it has (Synced), except the answers that were on their *)
(* way when an update let them land.                                       *)
(***************************************************************************)
BellShape ==
  /\ bReq = [q \in Bell!Queries |-> bReq[q]]
  /\ \A q \in Bell!Queries : bReq[q].st \in {"none", "sent", "read"}
  /\ lists = [f \in Filters |-> lists[f]]
  /\ \A f \in Filters : lists[f] = [cached |-> lists[f].cached, stale |-> lists[f].stale,
                                    rows |-> lists[f].rows]
  /\ updates \in Nat

(* The request for q will be answered, or was, with what the server has now. *)
Answers(q) ==
  \/ bReq[q].st = "sent"
  \/ bReq[q].st = "read" /\ IF q = "count" THEN bReq[q].count = Bell!Unread
                            ELSE bReq[q].rows = Bell!ServerRows(q)
InStep(q) == Answers(q) \/ (bReq[q].st = "none" /\ Bell!Agrees(q))
Quiet     == fresh /\ bArriving = {} /\ updates = 0
Synced    == \A q \in Bell!Queries \ outrun : InStep(q)

BellInv == BellShape /\ (Quiet => Synced)

LEMMA QueryNames ==
  /\ Bell!Queries = {"count", "preview"} \cup Filters
  /\ "count" \notin Filters /\ "preview" \notin Filters
  /\ Bell!ServerRows("preview") = Bell!ServerRows("all")
BY BellAssumption DEF Bell!Queries, Bell!ServerRows

(* The names of the requests' states. *)
LEMMA RequestStates ==
  /\ Bell!NoRequest.st = "none" /\ Bell!Sent.st = "sent"
BY DEF Bell!NoRequest, Bell!Sent

(* An update is published unless everything was read before. *)
LEMMA PublishedRead ==
  ASSUME NEW ns, updates \in Nat, Bell!MarkRead(ns)
  PROVE  /\ updates' \in Nat
         /\ updates' = 0 => updates = 0 /\ ns \subseteq read /\ read' = read
<1>1. updates' = IF ns \subseteq read THEN updates ELSE updates + 1
  BY DEF Bell!MarkRead
<1>2. ns \subseteq read => read' = read
  BY DEF Bell!MarkRead
<1> QED
  BY <1>1, <1>2

LEMMA BellStart == DashboardInit => BellInv
<1> SUFFICES ASSUME Bell!NInit PROVE BellInv
  BY DEF DashboardInit
<1>1. BellShape
  BY RequestStates DEF BellShape, Bell!NInit, Bell!NoList
<1>2. Synced
  BY QueryNames, RequestStates DEF Bell!NInit, Synced, InStep, Answers, Bell!Agrees, Bell!Cached, Bell!NoList
<1> QED
  BY <1>1, <1>2 DEF BellInv

(* One action of the bell, by what it does to requests and lists. *)
LEMMA BellSteps ==
  ASSUME Bell!NNext
  PROVE  \/ Bell!Created \/ Bell!LeavePage \/ Bell!UpdatedPushed \/ Bell!PushLost \/ Bell!Resync
         \/ \E n \in 1 .. MaxCreated : Bell!ReadElsewhere(n)
         \/ \E n \in 1 .. MaxCreated : Bell!CreatedPushed(n)
         \/ \E f \in Filters : Bell!Choose(f)
         \/ \E from, r : Bell!ClickRow(from, r)
         \/ \E from : Bell!ClickAll(from)
         \/ \E c : Bell!Serve(c)
         \/ \E c : Bell!Lost(c)
         \/ \E c : Bell!OnError(c)
         \/ \E q \in Bell!Queries : Bell!RequestRead(q)
         \/ \E q \in Bell!Queries : Bell!RequestLands(q)
         \/ \E q \in Bell!Queries : Bell!RequestFails(q)
BY Zenon DEF Bell!NNext

LEMMA RequestsKept ==
  ASSUME BellInv, Bell!NNext
  PROVE  /\ bReq' = [q \in Bell!Queries |-> bReq'[q]]
         /\ \A q \in Bell!Queries : bReq'[q].st \in {"none", "sent", "read"}
<1> USE RequestStates
<1>1. /\ bReq = [q \in Bell!Queries |-> bReq[q]]
      /\ \A q \in Bell!Queries : bReq[q].st \in {"none", "sent", "read"}
  BY DEF BellInv, BellShape
<1>2. CASE bReq' = bReq
  BY <1>1, <1>2
<1>3. CASE \E X, R : bReq' = [q \in Bell!Queries |-> IF q \in X THEN R ELSE bReq[q]]
                     /\ R.st \in {"none", "sent", "read"}
  BY <1>1, <1>3
<1>4. CASE \E q, R : bReq' = [bReq EXCEPT ![q] = R] /\ R.st \in {"none", "sent", "read"}
  BY <1>1, <1>4
<1>5. CASE Bell!UpdatedPushed
  BY <1>3, <1>5 DEF Bell!UpdatedPushed, Bell!Invalidated
<1>6. CASE (\E from, r : Bell!ClickRow(from, r)) \/ (\E from : Bell!ClickAll(from))
  BY <1>1, <1>6 DEF Bell!ClickRow, Bell!ClickAll, Bell!Started, Bell!Cancelled
<1>7. CASE Bell!Resync \/ \E f \in Filters : Bell!Choose(f)
  BY <1>2, <1>4, <1>7 DEF Bell!Resync, Bell!Choose
<1>8. CASE \E q \in Bell!Queries : Bell!RequestLands(q) \/ Bell!RequestFails(q)
  BY <1>4, <1>8 DEF Bell!RequestLands, Bell!RequestFails
<1>9. CASE \E q \in Bell!Queries : Bell!RequestRead(q)
  <2>1. PICK q \in Bell!Queries : Bell!RequestRead(q)
    BY <1>9
  <2> DEFINE R == [st |-> "read", rows |-> Bell!ServerRows(q), count |-> Bell!Unread]
  <2>2. bReq' = [bReq EXCEPT ![q] = R]
    BY <2>1 DEF Bell!RequestRead
  <2>3. R.st = "read"
    OBVIOUS
  <2> HIDE DEF R
  <2> QED
    BY <1>4, <2>2, <2>3
<1>10. \/ bReq' = bReq
       \/ Bell!UpdatedPushed \/ Bell!Resync
       \/ (\E from, r : Bell!ClickRow(from, r)) \/ (\E from : Bell!ClickAll(from))
       \/ \E f \in Filters : Bell!Choose(f)
       \/ \E q \in Bell!Queries : Bell!RequestLands(q) \/ Bell!RequestFails(q)
       \/ \E q \in Bell!Queries : Bell!RequestRead(q)
  BY BellSteps DEF Bell!Created, Bell!LeavePage, Bell!PushLost, Bell!ReadElsewhere, Bell!CreatedPushed,
     Bell!Serve, Bell!Lost, Bell!OnError
<1> QED
  BY <1>2, <1>5, <1>6, <1>7, <1>8, <1>9, <1>10

LEMMA ListsKept ==
  ASSUME BellInv, Bell!NNext
  PROVE  /\ lists' = [f \in Filters |-> lists'[f]]
         /\ \A f \in Filters : lists'[f] = [cached |-> lists'[f].cached, stale |-> lists'[f].stale,
                                            rows |-> lists'[f].rows]
<1> DEFINE IsList(l) == l = [cached |-> l.cached, stale |-> l.stale, rows |-> l.rows]
<1>1. lists = [f \in Filters |-> lists[f]] /\ \A f \in Filters : IsList(lists[f])
  BY DEF BellInv, BellShape
<1>2. \A c, t, r : IsList([cached |-> c, stale |-> t, rows |-> r])
  OBVIOUS
<1>3. \A f \in Filters : \A t : IsList([lists[f] EXCEPT !.stale = t])
  BY <1>1
<1>4. \A f \in Filters : \A r : IsList(Bell!Written(f, r))
  BY <1>1, <1>2 DEF Bell!Written
<1> HIDE DEF IsList
<1>5. CASE lists' = lists
  BY <1>1, <1>5 DEF IsList
<1>6. CASE Bell!UpdatedPushed
  BY <1>3, <1>6 DEF Bell!UpdatedPushed, Bell!Invalidated, IsList
<1>7. CASE \E q \in Bell!Queries : Bell!RequestFails(q)
  <2>1. PICK q \in Bell!Queries : Bell!RequestFails(q)
    BY <1>7
  <2>2. lists' = [f \in Filters |-> [lists[f] EXCEPT !.stale = IF f = q THEN Bell!Cached(f) ELSE @]]
    BY <2>1 DEF Bell!RequestFails
  <2>3. \A f \in Filters : \E t : lists'[f] = [lists[f] EXCEPT !.stale = t]
    BY <2>2
  <2>4. \A f \in Filters : IsList(lists'[f])
    BY <1>3, <2>3
  <2> QED
    BY <2>2, <2>4 DEF IsList
<1>8. CASE \E n \in 1 .. MaxCreated : Bell!CreatedPushed(n)
  <2>1. PICK n \in 1 .. MaxCreated : Bell!CreatedPushed(n)
    BY <1>8
  <2>2. lists' = [f \in Filters |-> Bell!Written(f, lists[f].rows \cup {Bell!Row(n, TRUE, FALSE)})]
    BY <2>1 DEF Bell!CreatedPushed
  <2> QED
    BY <1>4, <2>2 DEF IsList
<1>9. CASE \E from, r : Bell!ClickRow(from, r)
  <2>1. PICK from, r : Bell!ClickRow(from, r)
    BY <1>9
  <2>2. \/ lists' = lists
        \/ lists' = [f \in Filters |-> Bell!Written(f, Bell!ReadRow(r, lists[f].rows))]
    BY <2>1 DEF Bell!ClickRow
  <2> QED
    BY <1>4, <1>5, <2>2 DEF IsList
<1>10. CASE \E from : Bell!ClickAll(from)
  <2>1. lists' = [f \in Filters |-> Bell!Written(f, Bell!ReadRows(lists[f].rows))]
    BY <1>10 DEF Bell!ClickAll
  <2> QED
    BY <1>4, <2>1 DEF IsList
<1>11. CASE \E q \in Bell!Queries : Bell!RequestLands(q)
  <2>1. PICK q \in Bell!Queries : Bell!RequestLands(q)
    BY <1>11
  <2>2. \/ lists' = lists
        \/ lists' = [lists EXCEPT ![q] = [cached |-> TRUE, stale |-> FALSE, rows |-> bReq[q].rows]]
    BY <2>1 DEF Bell!RequestLands
  <2>3. \A f \in Filters : \/ lists'[f] = lists[f]
                           \/ lists'[f] = [cached |-> TRUE, stale |-> FALSE, rows |-> bReq[q].rows]
    BY <1>1, <2>2
  <2>4. \A f \in Filters : IsList(lists'[f])
    BY <1>1, <1>2, <2>3
  <2> QED
    BY <1>1, <2>2, <2>4 DEF IsList
<1>12. \/ lists' = lists \/ Bell!UpdatedPushed
       \/ \E n \in 1 .. MaxCreated : Bell!CreatedPushed(n)
       \/ \E from, r : Bell!ClickRow(from, r)
       \/ \E from : Bell!ClickAll(from)
       \/ \E q \in Bell!Queries : Bell!RequestLands(q)
       \/ \E q \in Bell!Queries : Bell!RequestFails(q)
  BY BellSteps DEF Bell!Created, Bell!LeavePage, Bell!PushLost, Bell!Resync, Bell!ReadElsewhere, Bell!Choose,
     Bell!Serve, Bell!Lost, Bell!OnError, Bell!RequestRead
<1> QED
  BY <1>5, <1>6, <1>7, <1>8, <1>9, <1>10, <1>11, <1>12

LEMMA ShapeKept ==
  ASSUME BellInv, Bell!NNext
  PROVE  BellShape'
<1>1. updates' \in Nat
  <2>1. updates \in Nat
    BY DEF BellInv, BellShape
  <2>2. \/ updates' = updates
        \/ updates > 0 /\ updates' = updates - 1
        \/ \E ns : Bell!MarkRead(ns)
    BY BellSteps DEF Bell!Created, Bell!LeavePage, Bell!UpdatedPushed, Bell!PushLost, Bell!Resync,
       Bell!ReadElsewhere, Bell!CreatedPushed, Bell!Choose, Bell!ClickRow, Bell!ClickAll, Bell!Started,
       Bell!Serve, Bell!Lost, Bell!OnError, Bell!RequestRead, Bell!RequestLands, Bell!RequestFails,
       Bell!srvVars
  <2> QED
    BY <2>1, <2>2, PublishedRead
<1> QED
  BY <1>1, RequestsKept, ListsKept DEF BellShape

(* What an answered query shows, while the server and the caches stay as they
   are and every request goes on or is made anew. *)
LEMMA ServerStays ==
  ASSUME BellInv, Synced, UNCHANGED <<created, read, count, preview, lists>>, outrun' = outrun,
         \A q \in Bell!Queries : bReq'[q] = bReq[q] \/ bReq'[q].st = "sent"
  PROVE  Synced'
<1> SUFFICES ASSUME NEW q \in Bell!Queries \ outrun PROVE InStep(q)'
  BY DEF Synced
<1>1. /\ Bell!Unread' = Bell!Unread /\ Bell!ServerRows(q)' = Bell!ServerRows(q)
      /\ Bell!ServerRows("all")' = Bell!ServerRows("all")
  BY DEF Bell!Unread, Bell!ServerRows, Bell!Row
<1>2. InStep(q)
  BY DEF Synced
<1>3. CASE bReq'[q].st = "sent"
  BY <1>3 DEF InStep, Answers
<1>4. CASE bReq'[q] = bReq[q]
  <2>1. Bell!Agrees(q)' = Bell!Agrees(q)
    BY <1>1 DEF Bell!Agrees, Bell!Cached
  <2>2. Answers(q)' = Answers(q)
    BY <1>1, <1>4, Zenon DEF Answers
  <2> QED
    BY <1>2, <1>4, <2>1, <2>2 DEF InStep
<1> QED
  BY <1>3, <1>4

(* An update: each query is asked again, or was asked and not yet answered, or
   is a list that nobody looks at, or has been outrun. *)
LEMMA UpdateSyncs ==
  ASSUME BellInv, Bell!UpdatedPushed
  PROVE  Synced'
<1> SUFFICES ASSUME NEW q \in Bell!Queries, q \notin outrun' PROVE InStep(q)'
  BY DEF Synced
<1> DEFINE again == {p \in Bell!Queries : Bell!AskedAgain(p)}
<1>1. /\ bReq'[q] = IF q \in again THEN Bell!Sent ELSE bReq[q]
      /\ q \notin again => bReq[q].st # "read"
      /\ \A f \in Filters : lists'[f] = [lists[f] EXCEPT !.stale = lists[f].cached]
  BY DEF Bell!UpdatedPushed, Bell!Invalidated, Bell!Cached
<1>2. CASE q \in again \/ bReq[q].st = "sent"
  BY <1>1, <1>2, RequestStates DEF InStep, Answers
<1>3. CASE q \notin again /\ bReq[q].st = "none"
  <2>1. q \in Filters
    BY <1>3 DEF Bell!AskedAgain, Bell!InSight, Bell!Loading
  <2>2. lists[q] = [cached |-> lists[q].cached, stale |-> lists[q].stale, rows |-> lists[q].rows]
    BY <2>1 DEF BellInv, BellShape
  <2>3. lists'[q].stale = lists[q].cached /\ lists'[q].cached = lists[q].cached
    BY <1>1, <2>1, <2>2
  <2>4. Bell!Agrees(q)'
    BY <2>1, <2>3, QueryNames DEF Bell!Agrees, Bell!Cached
  <2> QED
    BY <1>1, <1>3, <2>4 DEF InStep
<1>4. bReq[q].st \in {"none", "sent", "read"}
  BY DEF BellInv, BellShape
<1> QED
  BY <1>1, <1>2, <1>3, <1>4

(* One answer, read from the server or taken into the cache. *)
LEMMA AnswerSyncs ==
  ASSUME BellInv, Synced, NEW q \in Bell!Queries, Bell!RequestRead(q) \/ Bell!RequestLands(q)
  PROVE  Synced'
<1> SUFFICES ASSUME NEW p \in Bell!Queries, p \notin outrun' PROVE InStep(p)'
  BY DEF Synced
<1>1. /\ bReq = [x \in Bell!Queries |-> bReq[x]]
      /\ lists = [f \in Filters |-> lists[f]]
  BY DEF BellInv, BellShape
<1>2. UNCHANGED <<created, read>>
  BY DEF Bell!RequestRead, Bell!RequestLands, Bell!srvVars
<1>3. /\ Bell!Unread' = Bell!Unread /\ Bell!ServerRows(p)' = Bell!ServerRows(p)
      /\ Bell!ServerRows("all")' = Bell!ServerRows("all")
  BY <1>2 DEF Bell!Unread, Bell!ServerRows, Bell!Row
<1>4. CASE p # q
  <2>1. bReq'[p] = bReq[p] /\ p \notin outrun
    BY <1>1, <1>4 DEF Bell!RequestRead, Bell!RequestLands
  <2>2. InStep(p)
    BY <2>1 DEF Synced
  <2>3. /\ p = "count" => count' = count
        /\ p = "preview" => preview' = preview
        /\ p \in Filters => lists'[p] = lists[p]
    BY <1>1, <1>4 DEF Bell!RequestRead, Bell!RequestLands
  <2>4. Bell!Agrees(p)' = Bell!Agrees(p)
    BY <1>3, <2>3, QueryNames DEF Bell!Agrees, Bell!Cached
  <2>5. Answers(p)' = Answers(p)
    BY <1>3, <2>1, Zenon DEF Answers
  <2> QED
    BY <2>1, <2>2, <2>4, <2>5 DEF InStep
<1>5. CASE p = q /\ Bell!RequestRead(q)
  <2>1. /\ bReq'[q].st = "read" /\ bReq'[q].rows = Bell!ServerRows(q) /\ bReq'[q].count = Bell!Unread
    BY <1>1, <1>5 DEF Bell!RequestRead
  <2> QED
    BY <1>3, <1>5, <2>1 DEF InStep, Answers
<1>6. CASE p = q /\ Bell!RequestLands(q)
  <2>1. bReq'[q].st = "none" /\ bReq[q].st = "read" /\ q \notin outrun
    BY <1>1, <1>6, RequestStates DEF Bell!RequestLands
  <2>2. /\ q = "count" => bReq[q].count = Bell!Unread
        /\ q # "count" => bReq[q].rows = Bell!ServerRows(q)
    BY <2>1 DEF Synced, InStep, Answers
  <2>3. /\ q = "count" => count' = bReq[q].count
        /\ q = "preview" => preview' = bReq[q].rows
        /\ q \in Filters => lists'[q].rows = bReq[q].rows
    BY <1>1, <1>6, QueryNames DEF Bell!RequestLands
  <2>4. Bell!Agrees(q)'
    BY <1>3, <1>6, <2>2, <2>3, QueryNames DEF Bell!Agrees
  <2> QED
    BY <1>6, <2>1, <2>4 DEF InStep
<1> QED
  BY <1>4, <1>5, <1>6

(* The steps after which no update is the last event, or something is on its way. *)
LEMMA Disturbed ==
  ASSUME BellInv,
         \/ Bell!Created \/ Bell!PushLost
         \/ \E n \in 1 .. MaxCreated : Bell!ReadElsewhere(n) \/ Bell!CreatedPushed(n)
         \/ \E from, r : Bell!ClickRow(from, r)
         \/ \E from : Bell!ClickAll(from)
         \/ \E c : Bell!OnError(c)
         \/ \E q \in Bell!Queries : Bell!RequestFails(q)
  PROVE  ~Quiet'
<1>1. updates \in Nat
  BY DEF BellInv, BellShape
<1>2. ASSUME NEW n, Bell!ReadElsewhere(n) PROVE ~Quiet'
  <2>1. Bell!MarkRead({n}) /\ n \notin read
    BY <1>2 DEF Bell!ReadElsewhere
  <2> QED
    BY <1>1, <2>1, PublishedRead DEF Quiet
<1>3. Bell!Created => ~Quiet'
  BY DEF Quiet, Bell!Created
<1> QED
  BY <1>2, <1>3 DEF Quiet, Bell!PushLost, Bell!CreatedPushed, Bell!ClickRow, Bell!ClickAll, Bell!Started,
     Bell!OnError, Bell!RequestFails

LEMMA SyncedKept ==
  ASSUME BellInv, Bell!NNext, Quiet'
  PROVE  Synced'
<1>1. updates \in Nat /\ bReq = [q \in Bell!Queries |-> bReq[q]]
  BY DEF BellInv, BellShape
<1>2. CASE Bell!UpdatedPushed
  BY <1>2, UpdateSyncs
<1>3. CASE Bell!LeavePage \/ Bell!Resync \/ (\E f \in Filters : Bell!Choose(f)) \/ (\E c : Bell!Lost(c))
  <2>1. /\ UNCHANGED <<created, read, bArriving, updates, count, preview, lists, fresh>>
        /\ outrun' = outrun
    BY <1>3 DEF Bell!LeavePage, Bell!Resync, Bell!Choose, Bell!Lost, Bell!srvVars
  <2>2. \A q \in Bell!Queries : bReq'[q] = bReq[q] \/ bReq'[q].st = "sent"
    BY <1>1, <1>3, RequestStates DEF Bell!LeavePage, Bell!Resync, Bell!Choose, Bell!Lost
  <2> QED
    BY <2>1, <2>2, ServerStays DEF BellInv, Quiet
<1>4. ASSUME NEW c, Bell!Serve(c) PROVE Synced'
  <2>1. ASSUME NEW ns, Bell!MarkRead(ns) PROVE read' = read /\ updates = 0
    BY <1>1, <2>1, PublishedRead DEF Quiet
  <2>2. read' = read /\ updates = 0
    BY <1>4, <2>1 DEF Bell!Serve, Quiet
  <2>3. UNCHANGED <<created, bArriving, fresh, count, preview, lists, bReq>> /\ outrun' = outrun
    BY <1>4 DEF Bell!Serve
  <2> QED
    BY <2>2, <2>3, ServerStays DEF BellInv, Quiet
<1>5. ASSUME NEW q \in Bell!Queries, Bell!RequestRead(q) \/ Bell!RequestLands(q) PROVE Synced'
  <2>1. UNCHANGED <<bArriving, updates, fresh>>
    BY <1>5 DEF Bell!RequestRead, Bell!RequestLands, Bell!srvVars
  <2> QED
    BY <1>5, <2>1, AnswerSyncs DEF BellInv, Quiet
<1> QED
  BY <1>2, <1>3, <1>4, <1>5, BellSteps, Disturbed

LEMMA BellInvStep == BellInv /\ [DashboardNext]_dashboardVars => BellInv'
<1> SUFFICES ASSUME BellInv, [DashboardNext]_dashboardVars PROVE BellInv'
  OBVIOUS
<1>1. CASE UNCHANGED bellVars
  <2>1. UNCHANGED <<created, read, bArriving, updates, count, preview, lists, bReq, fresh, outrun>>
    BY <1>1 DEF bellVars
  <2> QED
    BY <2>1, ServerStays DEF BellInv, BellShape, Quiet
<1>2. CASE Bell!NNext
  BY <1>2, ShapeKept, SyncedKept DEF BellInv
<1> QED
  BY <1>1, <1>2 DEF DashboardNext, FormsStep, ScreensStep, ActionsStep, IncidentStep, ReviewStep, ChartsStep,
     BellStep, dashboardVars

(* The bell's invariant. *)
THEOREM BellInvariance == DashboardSpec => []BellInv
BY BellStart, BellInvStep, PTL DEF DashboardSpec

(* Once all has settled and an update was the last event, the badge, the     *)
(* preview and the lists are what the server has, except one whose answer    *)
(* was on its way when an update came and was let land.                      *)
THEOREM BellAgrees == DashboardSpec => []UpdatesSynchronise
<1>1. BellInv => UpdatesSynchronise
  <2> SUFFICES ASSUME BellInv, Bell!Resting, fresh, NEW q \in Bell!Queries \ outrun
               PROVE  Bell!Agrees(q)
    BY DEF UpdatesSynchronise, Bell!UpdatesSynchronise
  <2>1. bReq[q].st = "none"
    BY DEF Bell!Resting, Bell!Loading
  <2>2. InStep(q)
    BY DEF BellInv, Quiet, Bell!Resting, Synced
  <2> QED
    BY <2>1, <2>2 DEF InStep, Answers
<1> QED
  BY <1>1, BellInvariance, PTL

-----------------------------------------------------------------------------
(***************************************************************************)
(* Dialogs.  The inputs always fit together (Fits), and so do the rows     *)
(* they are filled from and what is sent of them (SaveShape); as long as   *)
(* nothing excuses it the inputs are what was entered (Holds), and so is   *)
(* what the save that closed the dialog had sent, because no other save of *)
(* the same opening can come after it (SavedAll).                            *)
(***************************************************************************)
IsRow(v) == v = [f \in Dialogs!Fields |-> v[f]]
Fits(v)  == form \in {"alert", "runbook"} => v["job"] \in {Dialogs!None, v["project"]}
Seconds  == {<<>>} \cup {<<n>> : n \in Nat}
TimeInput     == [n : Seconds, unit : {"seconds", "minutes", "hours"}]

RowShape(v)   == /\ IsRow(v) /\ Fits(v)
                 /\ form = "expectation" => \A f \in Dialogs!Fields : v[f] \in Seconds
InputShape(v) == /\ IsRow(v) /\ Fits(v)
                 /\ form = "expectation" => \A f \in Dialogs!Fields : v[f] \in TimeInput

(* What a save made for to has sent of the inputs v. *)
Submitted(to, v) ==
  CASE form = "alert" -> Dialogs!AlertPayload(v) [] form = "channel" -> Dialogs!ChannelPayload(v)
    [] form \in {"project", "job"} -> IF to = "new" THEN v ELSE [f \in {"name"} |-> v[f]]
    [] form = "expectation" -> Dialogs!ExpectationPayload(v) [] OTHER -> v
SaveShape(s) ==
  /\ s = [st |-> s.st, n |-> s.n, to |-> s.to, from |-> s.from, v |-> s.v, all |-> s.all]
  /\ s.to \in Dialogs!Rows \cup {"new"}
  /\ InputShape(s.all) /\ s.v = Submitted(s.to, s.all)
  /\ form # "settings" => s.to = s.from

DialogShape ==
  /\ form \in DialogNames /\ excuse \in BOOLEAN
  /\ srv = [r \in Dialogs!Rows |-> srv[r]] /\ rows = [r \in Dialogs!Rows |-> rows[r]]
  /\ \A r \in Dialogs!Rows : RowShape(srv[r]) /\ RowShape(rows[r])
  /\ InputShape(val)
  /\ \A s \in saves : SaveShape(s)
  /\ \A s, t \in saves : s.n = t.n => s = t
AtOneRow ==
  /\ at \in Dialogs!Rows \cup {"new", "closed", "key"}
  /\ at = "key" => form = "key"
  /\ at = "new" => form \notin {"expectation", "settings"}
  /\ form = "settings" => at # "closed"
  /\ Dialogs!Inputting /\ form # "settings" => filled = at
  /\ ended = "saved" => at \in {"closed", "key"}
  /\ DOMAIN intent \subseteq Dialogs!Fields
  /\ form \in {"project", "job"} /\ at \in Dialogs!Rows => DOMAIN intent \subseteq {"name"}

Holds ==
  /\ at # "closed" => \A f \in DOMAIN intent : val[f] = intent[f]
  /\ form = "alert" /\ "threshold" \in DOMAIN intent /\ val["metric"] = "special" => val["threshold"] = 0
  /\ form = "expectation" /\ at # "closed" => \A f \in Dialogs!Fields \ DOMAIN intent :
       Dialogs!ToSeconds(val[f]) = IF rows[at][f] = <<0>> THEN <<>> ELSE rows[at][f]
SavedAll ==
  ended = "saved" =>
    /\ \A f \in DOMAIN intent :
         (form = "channel" /\ f = "config" => stored["type"] = "plain")
           => f \in DOMAIN stored /\ stored[f] = Dialogs!Stored(intent[f])
    /\ form # "key" => \A s \in saves : s.n # opening
DialogInv == DialogShape /\ AtOneRow /\ (~excuse => Holds /\ SavedAll)

(* The fields the invariant is about. *)
LEMMA FieldNames ==
  ASSUME form \in DialogNames
  PROVE  /\ form \in {"alert", "runbook"} => {"project", "job"} \subseteq Dialogs!Fields
         /\ form = "alert" => {"metric", "threshold"} \subseteq Dialogs!Fields
         /\ form = "channel" => {"type", "config"} \subseteq Dialogs!Fields
         /\ form = "runbook" => Dialogs!Fields = {"project", "job", "name", "steps"}
         /\ form = "alert" => Dialogs!Fields = {"project", "job", "metric", "threshold"}
         /\ form \in {"project", "job", "settings", "key", "team"} => "name" \in Dialogs!Fields
         /\ form = "project" => Dialogs!Fields = {"team", "name"}
         /\ form = "job" => Dialogs!Fields = {"project", "name", "task"}
         /\ form = "expectation" => Dialogs!Fields = {"interval", "delay"}
BY DEF Dialogs!Fields, Dialogs!AlertFields, Dialogs!RunbookFields, Dialogs!ChannelFields, Dialogs!ProjectFields,
   Dialogs!JobFields, Dialogs!SettingsFields, Dialogs!KeyFields, Dialogs!TeamFields, Dialogs!ExpectationFields

(* A time is shown in a unit that divides it, and sent as it was stored; a    *)
(* zero is shown as a blank.                                                  *)
LEMMA TimesRoundTrip ==
  ASSUME NEW s \in Seconds, NEW unit \in {"seconds", "minutes", "hours"}
  PROVE  /\ Dialogs!ToUnitAndVal(s, unit) \in TimeInput
         /\ Dialogs!ToSeconds(Dialogs!ToUnitAndVal(s, unit)) = IF s = <<0>> THEN <<>> ELSE s
<1> DEFINE U == [seconds |-> 1, minutes |-> 60, hours |-> 3600]
           Units == {"seconds", "minutes", "hours"}
<1>1. DOMAIN U = Units /\ U["seconds"] = 1 /\ U["minutes"] = 60 /\ U["hours"] = 3600 /\ Dialogs!UnitSeconds = U
  BY DEF Dialogs!UnitSeconds
<1>2. CASE s \in {<<>>, <<0>>}
  <2>1. Dialogs!ToUnitAndVal(s, unit) = [n |-> <<>>, unit |-> unit]
    BY <1>2 DEF Dialogs!ToUnitAndVal, Dialogs!In
  <2> QED
    BY <1>2, <2>1 DEF TimeInput, Seconds, Dialogs!ToSeconds
<1>3. CASE s \notin {<<>>, <<0>>}
  <2>1. PICK n \in Nat : s = <<n>> /\ n # 0
    BY <1>3 DEF Seconds
  <2> DEFINE fits == {w \in DOMAIN Dialogs!UnitSeconds :
                        s[1] >= Dialogs!UnitSeconds[w] /\ s[1] % Dialogs!UnitSeconds[w] = 0}
             u == CHOOSE w \in fits : \A x \in fits : Dialogs!UnitSeconds[x] <= Dialogs!UnitSeconds[w]
  <2>2. fits = {w \in Units : n >= U[w] /\ n % U[w] = 0}
    BY <1>1, <2>1
  <2>3. u \in fits
    <3>1. "seconds" \in fits
      BY <1>1, <2>1, <2>2
    <3>2. \E w \in fits : \A x \in fits : Dialogs!UnitSeconds[x] <= Dialogs!UnitSeconds[w]
      <4>1. CASE "hours" \in fits
        BY <1>1, <2>2, <4>1
      <4>2. CASE "hours" \notin fits /\ "minutes" \in fits
        BY <1>1, <2>2, <4>2
      <4>3. CASE "hours" \notin fits /\ "minutes" \notin fits
        BY <1>1, <2>2, <3>1, <4>3
      <4> QED
        BY <4>1, <4>2, <4>3
    <3> HIDE DEF fits
    <3> QED
      BY <3>2
  <2>4. Dialogs!ToUnitAndVal(s, unit) = [n |-> <<s[1] \div Dialogs!UnitSeconds[u]>>, unit |-> u]
    BY <1>3 DEF Dialogs!ToUnitAndVal, Dialogs!In
  <2> HIDE DEF u
  <2>5. u \in Units /\ n % U[u] = 0
    BY <2>2, <2>3
  <2>6. n \div U[u] \in Nat /\ (n \div U[u]) * U[u] = n
    <3>1. CASE u = "seconds"
      BY <1>1, <2>1, <3>1
    <3>2. CASE u = "minutes"
      BY <1>1, <2>1, <2>5, <3>2
    <3>3. CASE u = "hours"
      BY <1>1, <2>1, <2>5, <3>3
    <3> QED
      BY <2>5, <3>1, <3>2, <3>3
  <2>7. Dialogs!ToUnitAndVal(s, unit) = [n |-> <<n \div U[u]>>, unit |-> u]
    BY <1>1, <2>1, <2>4
  <2> QED
    BY <1>1, <2>1, <2>5, <2>6, <2>7 DEF TimeInput, Seconds, Dialogs!ToSeconds
<1> QED
  BY <1>2, <1>3

LEMMA TimesSent ==
  ASSUME NEW x \in TimeInput
  PROVE  Dialogs!ToSeconds(x) \in Seconds
<1>1. CASE x.n = <<>>
  BY <1>1 DEF Dialogs!ToSeconds, Seconds
<1>2. CASE x.n # <<>>
  <2>1. PICK n \in Nat : x.n = <<n>>
    BY <1>2 DEF TimeInput, Seconds
  <2>2. Dialogs!UnitSeconds[x.unit] \in {1, 60, 3600}
    BY DEF TimeInput, Dialogs!UnitSeconds
  <2>3. n * Dialogs!UnitSeconds[x.unit] \in Nat
    BY <2>2
  <2> QED
    BY <1>2, <2>1, <2>3 DEF Dialogs!ToSeconds, Seconds
<1> QED
  BY <1>1, <1>2

(* A change of inputs that keeps them together. *)
LEMMA InputsKept ==
  ASSUME form \in DialogNames, NEW v, NEW w, InputShape(v), IsRow(w),
         form \in {"alert", "runbook"} => w["job"] \in {Dialogs!None, w["project"]},
         form = "expectation" => \A f \in Dialogs!Fields : w[f] \in TimeInput
  PROVE  InputShape(w)
BY DEF InputShape, Fits

LEMMA RowsShape ==
  ASSUME form \in DialogNames, NEW i \in {0, 1}
  PROVE  RowShape(Dialogs!Row(i))
<1>1. IsRow(Dialogs!Row(i))
  <2> DEFINE e(f) == CASE f \in {"project", "team", "job", "channel"} -> i
                      [] f \in {"metric", "type"} -> "plain"
                      [] f = "steps" -> <<1>>
                      [] f = "interval" -> IF i = 0 THEN <<7200>> ELSE <<>>
                      [] f = "delay" -> IF i = 0 THEN <<90>> ELSE <<0>>
                      [] OTHER -> i
  <2>1. Dialogs!Row(i) = [f \in Dialogs!Fields |-> e(f)]
    BY DEF Dialogs!Row
  <2> HIDE DEF e
  <2> QED
    BY <2>1 DEF IsRow
<1>2. Fits(Dialogs!Row(i))
  BY FieldNames DEF Fits, Dialogs!Row
<1>3. ASSUME form = "expectation" PROVE \A f \in Dialogs!Fields : Dialogs!Row(i)[f] \in Seconds
  <2>1. /\ Dialogs!Row(i)["interval"] = IF i = 0 THEN <<7200>> ELSE <<>>
        /\ Dialogs!Row(i)["delay"] = IF i = 0 THEN <<90>> ELSE <<0>>
    BY <1>3, FieldNames DEF Dialogs!Row
  <2> QED
    BY <1>3, <2>1, FieldNames DEF Seconds
<1> QED
  BY <1>1, <1>2, <1>3 DEF RowShape

LEMMA ShownShape ==
  ASSUME form \in DialogNames, NEW v, RowShape(v)
  PROVE  /\ InputShape(Dialogs!Shown(v))
         /\ form # "expectation" => Dialogs!Shown(v) = v
         /\ form = "expectation" => \A f \in Dialogs!Fields :
              Dialogs!ToSeconds(Dialogs!Shown(v)[f]) = IF v[f] = <<0>> THEN <<>> ELSE v[f]
<1>1. CASE form # "expectation"
  BY <1>1 DEF Dialogs!Shown, RowShape, InputShape
<1>2. CASE form = "expectation"
  <2>1. Dialogs!Shown(v) =
          [f \in Dialogs!Fields |-> Dialogs!ToUnitAndVal(v[f], IF f = "delay" THEN "seconds" ELSE "minutes")]
    BY <1>2 DEF Dialogs!Shown
  <2>2. \A f \in Dialogs!Fields : Dialogs!Shown(v)[f] \in TimeInput /\
          Dialogs!ToSeconds(Dialogs!Shown(v)[f]) = IF v[f] = <<0>> THEN <<>> ELSE v[f]
    BY <1>2, <2>1, TimesRoundTrip DEF RowShape
  <2>3. IsRow(Dialogs!Shown(v))
    BY <2>1 DEF IsRow
  <2> QED
    BY <1>2, <2>2, <2>3 DEF InputShape, Fits
<1> QED
  BY <1>1, <1>2

LEMMA NewShape ==
  ASSUME form \in DialogNames, form # "expectation"
  PROVE  /\ InputShape(Dialogs!New)
         /\ \A p : InputShape([Dialogs!NoRef EXCEPT !["project"] = p])
<1>1. IsRow(Dialogs!NoRef) /\ Fits(Dialogs!NoRef)
  BY FieldNames, RowsShape DEF IsRow, Fits, Dialogs!NoRef
<1>2. form \in {"alert", "runbook"} => Dialogs!NoRef["job"] = Dialogs!None
  BY FieldNames DEF Dialogs!NoRef
<1> HIDE DEF Dialogs!NoRef
<1>3. ASSUME NEW p PROVE InputShape([Dialogs!NoRef EXCEPT !["project"] = p])
  BY <1>1, <1>2, FieldNames DEF InputShape, IsRow, Fits
<1>4. ASSUME NEW c PROVE form = "policy" => InputShape([Dialogs!NoRef EXCEPT !["channel"] = c])
  BY <1>1 DEF InputShape, IsRow, Fits
<1> HIDE DEF InputShape
<1> QED
  BY <1>1, <1>3, <1>4 DEF Dialogs!New, Dialogs!PolicyNew, Dialogs!ScopedNew, InputShape

LEMMA FitsShape ==
  ASSUME form \in DialogNames, NEW v, NEW ps, InputShape(v)
  PROVE  /\ InputShape(Dialogs!AlertFits(v, ps))
         /\ form # "alert" => Dialogs!AlertFits(v, ps) = v
<1>1. CASE form # "alert" \/ v["project"] \in ps
  BY <1>1 DEF Dialogs!AlertFits
<1>2. CASE form = "alert" /\ v["project"] \notin ps
  <2> DEFINE p == CHOOSE x \in ps : \A q \in ps : x <= q
             w == [v EXCEPT !["project"] = p, !["job"] = Dialogs!None]
  <2>1. Dialogs!AlertFits(v, ps) = w
    BY <1>2 DEF Dialogs!AlertFits
  <2> HIDE DEF p
  <2>2. IsRow(w) /\ w["job"] = Dialogs!None
    BY <1>2, FieldNames DEF InputShape, IsRow
  <2> QED
    BY <1>2, <2>1, <2>2, InputsKept
<1> QED
  BY <1>1, <1>2

LEMMA PickedShape ==
  ASSUME form \in DialogNames, InputShape(val), NEW f \in Dialogs!Fields, NEW x \in Dialogs!Domain(f),
         Dialogs!Offers(f, x)
  PROVE  InputShape(Dialogs!Picked(f, x))
<1> DEFINE w == Dialogs!Picked(f, x)
<1>1. IsRow(val) /\ Fits(val)
  BY DEF InputShape
<1>2. CASE form = "alert"
  <2>1. w = Dialogs!PickAlert(f, x)
    BY <1>2 DEF Dialogs!Picked
  <2>2. f = "job" => x \in {val["project"], Dialogs!None}
    BY <1>2 DEF Dialogs!Offers, Dialogs!AlertOffers
  <2>3. IsRow(w) /\ w["job"] \in {Dialogs!None, w["project"]}
    BY <1>1, <1>2, <2>1, <2>2, FieldNames DEF IsRow, Fits, Dialogs!PickAlert
  <2> QED
    BY <1>2, <2>3, InputsKept
<1>3. CASE form = "runbook"
  <2>1. w = Dialogs!PickRunbook(f, x)
    BY <1>3 DEF Dialogs!Picked
  <2>2. f = "job" => x \in {val["project"], Dialogs!None}
    BY <1>3 DEF Dialogs!Offers, Dialogs!RunbookOffers
  <2>3. IsRow(w) /\ w["job"] \in {Dialogs!None, w["project"]}
    BY <1>1, <1>3, <2>1, <2>2, FieldNames DEF IsRow, Fits, Dialogs!PickRunbook
  <2> QED
    BY <1>3, <2>3, InputsKept
<1>4. CASE form = "policy"
  <2>1. w = Dialogs!PickPolicy(f, x)
    BY <1>4 DEF Dialogs!Picked
  <2>2. IsRow(w)
    BY <1>1, <2>1 DEF IsRow, Dialogs!PickPolicy
  <2> QED
    BY <1>4, <2>2, InputsKept
<1>5. CASE form \notin {"alert", "runbook", "policy"}
  <2>1. w = [val EXCEPT ![f] = x]
    BY <1>5 DEF Dialogs!Picked
  <2>2. IsRow(w)
    BY <1>1, <2>1 DEF IsRow
  <2>3. ASSUME form = "expectation" PROVE \A g \in Dialogs!Fields : w[g] \in TimeInput
    <3>1. x \in TimeInput
      BY <2>3, FieldNames DEF Dialogs!Domain, Dialogs!In, TimeInput, Seconds
    <3> QED
      BY <1>1, <2>1, <2>3, <3>1 DEF InputShape, IsRow
  <2> QED
    BY <1>5, <2>2, <2>3, InputsKept
<1> QED
  BY <1>2, <1>3, <1>4, <1>5

(* What is sent merges into a row. *)
LEMMA MergedShape ==
  ASSUME form \in DialogNames, NEW v, RowShape(v), NEW to, NEW all, InputShape(all)
  PROVE  RowShape(Dialogs!Merge(v, Submitted(to, all)))
<1> DEFINE p == Submitted(to, all)
           w == Dialogs!Merge(v, p)
<1>1. DOMAIN v = Dialogs!Fields /\ IsRow(all)
  BY DEF RowShape, IsRow, InputShape
<1>2. w = [f \in Dialogs!Fields |-> IF f \in DOMAIN p THEN p[f] ELSE v[f]]
  BY <1>1 DEF Dialogs!Merge
<1>3. IsRow(w)
  BY <1>2 DEF IsRow
<1>4. ASSUME form \in {"alert", "runbook"} PROVE w["job"] \in {Dialogs!None, w["project"]}
  <2>1. DOMAIN p = Dialogs!Fields /\ p["job"] = all["job"] /\ p["project"] = all["project"]
    BY <1>1, <1>4 DEF Submitted, IsRow, Dialogs!AlertPayload
  <2> QED
    BY <1>2, <1>4, <2>1, FieldNames DEF InputShape, Fits
<1>5. ASSUME form = "expectation" PROVE \A f \in Dialogs!Fields : w[f] \in Seconds
  <2>1. p = [f \in Dialogs!Fields |-> Dialogs!ToSeconds(all[f])]
    BY <1>1, <1>5 DEF Submitted, Dialogs!ExpectationPayload, IsRow
  <2> QED
    BY <1>2, <1>5, <2>1, TimesSent DEF InputShape
<1> QED
  BY <1>3, <1>4, <1>5 DEF RowShape, Fits

LEMMA SubmissionIs ==
  ASSUME form \in DialogNames
  PROVE  Dialogs!Submission(val) = Submitted(at, val)
BY DialogAssumption DEF Dialogs!Submission, Submitted, Dialogs!ProjectPayload, Dialogs!JobPayload
-----------------------------------------------------------------------------
LEMMA DialogStart == DashboardInit => DialogInv
<1> SUFFICES ASSUME Dialogs!FInit PROVE DialogInv
  BY DEF DashboardInit
<1>1. form \in DialogNames /\ saves = {} /\ ended = "no" /\ intent = <<>> /\ excuse = FALSE
  BY DEF Dialogs!FInit
<1>2. /\ srv = [r \in Dialogs!Rows |-> Dialogs!Row(IF r = "r1" THEN 0 ELSE 1)] /\ rows = srv
      /\ val = Dialogs!Shown(Dialogs!Row(0))
      /\ at = IF form = "settings" THEN "r1" ELSE "closed"
  BY DEF Dialogs!FInit
<1>3. \A r \in Dialogs!Rows : RowShape(srv[r])
  BY <1>1, <1>2, RowsShape
<1>4. srv = [r \in Dialogs!Rows |-> srv[r]]
  <2> HIDE DEF Dialogs!Row
  <2> QED
    BY <1>2
<1>5. InputShape(val)
  BY <1>1, <1>2, RowsShape, ShownShape
<1>6. DialogShape
  BY <1>1, <1>2, <1>3, <1>4, <1>5 DEF DialogShape
<1>7. AtOneRow
  BY <1>1, <1>2 DEF AtOneRow, Dialogs!Rows, Dialogs!Inputting
<1>8. Holds /\ SavedAll
  BY <1>1, <1>2 DEF Holds, SavedAll
<1> QED
  BY <1>6, <1>7, <1>8 DEF DialogInv

LEMMA FieldsStay == ASSUME form' = form PROVE Dialogs!Fields' = Dialogs!Fields
BY DEF Dialogs!Fields, Dialogs!PolicyFields, Dialogs!AlertFields, Dialogs!RunbookFields, Dialogs!ChannelFields,
   Dialogs!ProjectFields, Dialogs!JobFields, Dialogs!SettingsFields, Dialogs!KeyFields, Dialogs!TeamFields,
   Dialogs!InviteFields, Dialogs!ExpectationFields

(* A step keeps the shapes when what it puts in has them. *)
LEMMA ShapeStep ==
  ASSUME DialogShape, form' = form, excuse' \in BOOLEAN,
         srv' = [r \in Dialogs!Rows |-> srv'[r]], \A r \in Dialogs!Rows : RowShape(srv'[r]),
         rows' \in {rows, srv}, InputShape(val'),
         \A s \in saves' : SaveShape(s), \A s, t \in saves' : s.n = t.n => s = t
  PROVE  DialogShape'
<1>1. Dialogs!Fields' = Dialogs!Fields
  BY FieldsStay
<1>2. \A r \in Dialogs!Rows : RowShape(rows'[r])
  BY DEF DialogShape
<1>3. \A r \in Dialogs!Rows : RowShape(srv[r])' /\ RowShape(rows[r])'
  BY <1>1, <1>2 DEF RowShape, IsRow, Fits
<1>4. InputShape(val)'
  BY <1>1 DEF InputShape, IsRow, Fits
<1>5. \A s \in saves' : SaveShape(s)'
  <2> SUFFICES ASSUME NEW s \in saves' PROVE SaveShape(s)'
    OBVIOUS
  <2>1. SaveShape(s)
    OBVIOUS
  <2>2. InputShape(s.all)'
    BY <1>1, <2>1 DEF SaveShape, InputShape, IsRow, Fits
  <2>3. Submitted(s.to, s.all)' = Submitted(s.to, s.all)
    BY DEF Submitted
  <2> QED
    BY <2>1, <2>2, <2>3 DEF SaveShape
<1> QED
  BY <1>3, <1>4, <1>5 DEF DialogShape

(* Only the list of saves, or nothing the shapes are about, changes. *)
LEMMA ShapeFrame ==
  ASSUME DialogShape, UNCHANGED <<form, srv, rows, val>>, excuse' \in BOOLEAN, saves' \subseteq saves
  PROVE  DialogShape'
BY ShapeStep DEF DialogShape

LEMMA OpenKeeps ==
  ASSUME DialogInv, NEW a \in Dialogs!Rows \cup {"new"}, Dialogs!Open(a)
  PROVE  DialogInv'
<1> USE DEF DialogInv
<1>1. /\ at = "closed" /\ at' = a /\ filled' = a /\ intent' = <<>> /\ excuse' = FALSE /\ ended' = "no"
      /\ val' = Dialogs!Filled(a) /\ UNCHANGED <<form, srv, rows, projects, saves>>
  BY DEF Dialogs!Open
<1>2. form \in DialogNames /\ form # "settings" /\ (a = "new" => form # "expectation")
  BY <1>1 DEF DialogShape, AtOneRow, Dialogs!Open, Dialogs!Creates
<1>3. InputShape(val')
  <2>1. CASE a = "new"
    BY <1>1, <1>2, <2>1, NewShape, FitsShape DEF Dialogs!Filled
  <2>2. CASE a # "new"
    BY <1>1, <1>2, <2>2, ShownShape, FitsShape DEF Dialogs!Filled, DialogShape
  <2> QED
    BY <2>1, <2>2
<1>4. DialogShape'
  BY <1>1, <1>3, ShapeStep DEF DialogShape
<1>5. AtOneRow'
  BY <1>1, <1>2 DEF AtOneRow, Dialogs!Inputting, Dialogs!Rows
<1>6. Holds'
  <2>1. ASSUME form = "expectation", NEW f \in Dialogs!Fields
        PROVE  Dialogs!ToSeconds(val'[f]) = IF rows'[a][f] = <<0>> THEN <<>> ELSE rows'[a][f]
    <3>1. a \in Dialogs!Rows /\ val' = Dialogs!Shown(rows[a])
      BY <1>1, <1>2, <2>1, ShownShape, FitsShape DEF Dialogs!Filled, DialogShape
    <3> QED
      BY <1>1, <1>2, <2>1, <3>1, ShownShape DEF DialogShape
  <2>2. Dialogs!Fields' = Dialogs!Fields
    BY <1>1, FieldsStay
  <2> QED
    BY <1>1, <2>1, <2>2 DEF Holds
<1> QED
  BY <1>1, <1>4, <1>5, <1>6 DEF SavedAll

LEMMA SwitchKeeps ==
  ASSUME DialogInv, NEW a \in Dialogs!Rows, Dialogs!SwitchTeam(a)
  PROVE  DialogInv'
<1> USE DEF DialogInv
<1>1. /\ form = "settings" /\ at' = a /\ intent' = <<>> /\ ended' = "no"
      /\ UNCHANGED <<form, srv, rows, val, saves, excuse>>
  BY DEF Dialogs!SwitchTeam
<1>2. DialogShape'
  BY <1>1, ShapeFrame DEF DialogShape
<1>3. AtOneRow'
  BY <1>1 DEF AtOneRow, Dialogs!Inputting, Dialogs!Rows
<1> QED
  BY <1>1, <1>2, <1>3 DEF Holds, SavedAll

LEMMA TypeKeeps ==
  ASSUME DialogInv, NEW f \in Dialogs!Fields, NEW x \in Dialogs!Domain(f), Dialogs!Type(f, x)
  PROVE  DialogInv'
<1> USE DEF DialogInv
<1> DEFINE w == Dialogs!Picked(f, x)
<1>1. /\ Dialogs!Inputting /\ Dialogs!Offers(f, x)
      /\ val' = w /\ intent' = Dialogs!Entered(f, x)
      /\ UNCHANGED <<form, srv, rows, at, filled, saves, opening, stored, excuse, ended>>
  BY DEF Dialogs!Type
<1>2. InputShape(w)
  BY <1>1, PickedShape DEF DialogShape
<1>3. DialogShape'
  BY <1>1, <1>2, ShapeStep DEF DialogShape
<1>4. /\ \A g \in DOMAIN intent' : intent'[g] = w[g]
      /\ DOMAIN intent' \subseteq DOMAIN intent \cup {f} /\ f \in DOMAIN intent'
      /\ \A g \in DOMAIN intent : w[g] = intent[g] => g \in DOMAIN intent'
  BY <1>1 DEF Dialogs!Entered
<1>5. Dialogs!Fields' = Dialogs!Fields
  BY <1>1, FieldsStay
<1>6. form \in {"project", "job"} /\ at \in Dialogs!Rows => f = "name"
  BY <1>1, FieldNames DEF DialogShape, Dialogs!Offers, Dialogs!ProjectOffers, Dialogs!JobOffers, Dialogs!Rows
<1>7. AtOneRow'
  BY <1>1, <1>4, <1>5, <1>6 DEF AtOneRow, Dialogs!Inputting
<1>8. ASSUME ~excuse PROVE Holds'
  <2>1. ASSUME form = "alert", "threshold" \in DOMAIN intent', w["metric"] = "special"
        PROVE  w["threshold"] = 0
    <3>1. w = Dialogs!PickAlert(f, x)
      BY <2>1 DEF Dialogs!Picked
    <3>2. /\ w["metric"] = IF f = "metric" THEN x ELSE val["metric"]
          /\ w["threshold"] = IF f = "metric" /\ x = "special" THEN 0
                              ELSE IF f = "threshold" THEN x ELSE val["threshold"]
      BY <2>1, <3>1, FieldNames DEF Dialogs!PickAlert, DialogShape, InputShape, IsRow
    <3>3. f = "threshold" => val["metric"] = "plain"
      BY <1>1, <2>1 DEF Dialogs!Offers, Dialogs!AlertOffers
    <3> QED
      BY <1>4, <1>8, <2>1, <3>2, <3>3 DEF Holds
  <2>2. ASSUME form = "expectation", NEW g \in Dialogs!Fields \ DOMAIN intent'
        PROVE  Dialogs!ToSeconds(w[g]) = IF rows[at][g] = <<0>> THEN <<>> ELSE rows[at][g]
    <3>1. w = [val EXCEPT ![f] = x] /\ g # f
      BY <1>4, <2>2 DEF Dialogs!Picked
    <3>2. w[g] = val[g]
      BY <2>2, <3>1 DEF DialogShape, InputShape, IsRow
    <3>3. at # "closed"
      BY <1>1 DEF Dialogs!Inputting
    <3>4. g \notin DOMAIN intent
      BY <1>4, <1>8, <2>2, <3>2, <3>3 DEF Holds
    <3> QED
      BY <1>8, <2>2, <3>2, <3>3, <3>4 DEF Holds
  <2> HIDE DEF w
  <2> QED
    BY <1>1, <1>4, <1>5, <2>1, <2>2 DEF Holds
<1>9. SavedAll'
  BY <1>1 DEF SavedAll, AtOneRow, Dialogs!Inputting
<1> QED
  BY <1>1, <1>3, <1>7, <1>8, <1>9

LEMMA SubmitKeeps ==
  ASSUME DialogInv, Dialogs!Submit
  PROVE  DialogInv'
<1> USE DEF DialogInv
<1> DEFINE s == [st |-> "sent", n |-> opening, to |-> at, from |-> filled,
                 v |-> Dialogs!Submission(val), all |-> val]
<1>1. /\ Dialogs!Inputting /\ \A t \in saves : t.n # opening
      /\ saves' = saves \cup {s}
      /\ UNCHANGED <<form, srv, rows, at, val, filled, opening, stored, intent, excuse, ended>>
  BY DEF Dialogs!Submit
<1>2. SaveShape(s)
  <2>1. s.v = Submitted(at, val)
    BY SubmissionIs DEF DialogShape
  <2> HIDE DEF Dialogs!Submission
  <2> QED
    BY <1>1, <2>1 DEF SaveShape, DialogShape, AtOneRow, Dialogs!Inputting
<1>3. s.n = opening
  OBVIOUS
<1> HIDE DEF s
<1>4. DialogShape'
  BY <1>1, <1>2, <1>3, ShapeStep DEF DialogShape
<1>5. Dialogs!Fields' = Dialogs!Fields
  BY <1>1, FieldsStay
<1>6. AtOneRow' /\ SavedAll'
  BY <1>1, <1>5 DEF AtOneRow, SavedAll, Dialogs!Inputting
<1>7. Holds => Holds'
  BY <1>1, <1>5 DEF Holds
<1> QED
  BY <1>1, <1>4, <1>6, <1>7

LEMMA ServeKeepsDialog ==
  ASSUME DialogInv, NEW s \in saves, Dialogs!Serve(s) \/ Dialogs!SaveLost(s)
  PROVE  DialogInv'
<1> USE DEF DialogInv
<1>1. PICK x \in {"ok", "failed"} : saves' = (saves \ {s}) \cup {[s EXCEPT !.st = x]}
  BY DEF Dialogs!Serve, Dialogs!SaveLost
<1>2. /\ srv' = srv \/ srv' = [srv EXCEPT ![s.to] = Dialogs!Merge(srv[s.to], s.v)]
      /\ UNCHANGED <<form, rows, at, val, filled, opening, stored, intent, excuse, ended>>
  BY DEF Dialogs!Serve, Dialogs!SaveLost, Dialogs!Apply
<1> DEFINE t == [s EXCEPT !.st = x]
<1>3. SaveShape(s)
  BY DEF DialogShape
<1>4. /\ t = [st |-> x, n |-> s.n, to |-> s.to, from |-> s.from, v |-> s.v, all |-> s.all]
      /\ t.n = s.n /\ t.to = s.to /\ t.from = s.from /\ t.v = s.v /\ t.all = s.all
  BY <1>3 DEF SaveShape
<1>5. SaveShape(t)
  BY <1>3, <1>4 DEF SaveShape
<1>6. saves' = (saves \ {s}) \cup {t}
  BY <1>1
<1> HIDE DEF t
<1>7. /\ srv' = [r \in Dialogs!Rows |-> srv'[r]]
      /\ \A r \in Dialogs!Rows : RowShape(srv'[r])
  <2>1. s.to \in Dialogs!Rows => RowShape(Dialogs!Merge(srv[s.to], s.v))
    BY <1>3, MergedShape DEF SaveShape, DialogShape
  <2> QED
    BY <1>2, <2>1 DEF DialogShape
<1>8. DialogShape'
  BY <1>2, <1>4, <1>5, <1>6, <1>7, ShapeStep DEF DialogShape
<1>9. Dialogs!Fields' = Dialogs!Fields
  BY <1>2, FieldsStay
<1>10. AtOneRow'
  BY <1>2, <1>9 DEF AtOneRow, Dialogs!Inputting
<1>11. (Holds => Holds') /\ (SavedAll => SavedAll')
  BY <1>2, <1>4, <1>6, <1>9 DEF Holds, SavedAll, Dialogs!Stored
<1> QED
  BY <1>2, <1>8, <1>10, <1>11

(* A save that closes its dialog had sent what is in the dialog, if nothing   *)
(* was entered since.                                                         *)
LEMMA SentWhatHolds ==
  ASSUME DialogShape, AtOneRow, Holds, at # "closed",
         NEW s \in saves, s.all = val, Dialogs!OneDialog(s.to, at),
         NEW f \in DOMAIN intent, form = "channel" /\ f = "config" => s.v["type"] = "plain"
  PROVE  f \in DOMAIN s.v /\ s.v[f] = Dialogs!Stored(intent[f])
<1>1. /\ s.v = Submitted(s.to, val) /\ IsRow(val) /\ f \in Dialogs!Fields /\ val[f] = intent[f]
      /\ s.to \in Dialogs!Rows \cup {"new"}
  BY DEF DialogShape, SaveShape, InputShape, AtOneRow, Holds
<1>2. DOMAIN val = Dialogs!Fields
  BY <1>1 DEF IsRow
<1>3. CASE form = "alert"
  <2>1. s.v = [val EXCEPT !["threshold"] = IF val["metric"] = "special" THEN 0 ELSE @]
    BY <1>1, <1>3 DEF Submitted, Dialogs!AlertPayload
  <2>2. val["metric"] = "special" /\ f = "threshold" => val[f] = 0
    BY <1>3 DEF Holds
  <2> QED
    BY <1>1, <1>2, <1>3, <2>1, <2>2 DEF Dialogs!Stored
<1>4. CASE form = "channel"
  <2>1. s.v = [val EXCEPT !["config"] = IF val["type"] = "special" THEN 0 ELSE @]
    BY <1>1, <1>4 DEF Submitted, Dialogs!ChannelPayload
  <2>2. s.v["type"] = val["type"]
    BY <1>2, <1>4, <2>1, FieldNames DEF DialogShape
  <2> QED
    BY <1>1, <1>2, <1>4, <2>1, <2>2 DEF Dialogs!Stored
<1>5. CASE form \in {"project", "job"}
  <2>1. s.v = IF s.to = "new" THEN val ELSE [g \in {"name"} |-> val[g]]
    BY <1>1, <1>5 DEF Submitted
  <2>2. s.to # "new" => at \in Dialogs!Rows
    BY <1>1, <1>5 DEF Dialogs!OneDialog, AtOneRow
  <2>3. s.to # "new" => f = "name"
    BY <1>5, <2>2 DEF AtOneRow
  <2> QED
    BY <1>1, <1>2, <1>5, <2>1, <2>3 DEF Dialogs!Stored
<1>6. CASE form = "expectation"
  BY <1>1, <1>2, <1>6 DEF Submitted, Dialogs!ExpectationPayload, Dialogs!Stored
<1>7. CASE form \notin {"alert", "channel", "project", "job", "expectation"}
  BY <1>1, <1>2, <1>7 DEF Submitted, Dialogs!Stored
<1> QED
  BY <1>3, <1>4, <1>5, <1>6, <1>7

LEMMA SavedKeeps ==
  ASSUME DialogInv, NEW s \in saves, Dialogs!Saved(s)
  PROVE  DialogInv'
<1> USE DEF DialogInv
<1> DEFINE closes == at # "closed" /\ form # "settings" /\ Dialogs!OneDialog(s.to, at)
<1>1. /\ form # "key" /\ saves' = saves \ {s} /\ stored' = s.v
      /\ at' = IF closes THEN "closed" ELSE at
      /\ ended' = IF closes THEN "saved" ELSE ended
      /\ excuse' = (excuse \/ s.n # opening \/ s.all # val \/ Dialogs!Cardinality(saves) > 1)
      /\ UNCHANGED <<form, srv, rows, val, filled, opening, intent>>
  BY DEF Dialogs!Saved
<1>2. excuse' \in BOOLEAN
  BY <1>1 DEF DialogShape
<1>3. DialogShape'
  BY <1>1, <1>2, ShapeFrame
<1>4. Dialogs!Fields' = Dialogs!Fields
  BY <1>1, FieldsStay
<1>5. CASE closes
  <2>1. at' = "closed" /\ ended' = "saved"
    BY <1>1, <1>5
  <2>2. AtOneRow'
    BY <1>1, <1>4, <1>5, <2>1 DEF AtOneRow, Dialogs!Inputting, Dialogs!Rows
  <2>3. ASSUME ~excuse' PROVE Holds' /\ SavedAll'
    <3>1. ~excuse /\ s.n = opening /\ s.all = val
      BY <1>1, <2>3 DEF DialogShape
    <3>2. Holds'
      BY <1>1, <2>1, <3>1 DEF Holds
    <3>3. \A f \in DOMAIN intent : (form = "channel" /\ f = "config" => s.v["type"] = "plain")
            => f \in DOMAIN s.v /\ s.v[f] = Dialogs!Stored(intent[f])
      BY <1>5, <3>1, SentWhatHolds
    <3>4. \A t \in saves' : t.n # opening
      BY <1>1, <3>1 DEF DialogShape
    <3>5. \A f \in DOMAIN intent : Dialogs!Stored(intent[f])' = Dialogs!Stored(intent[f])
      BY <1>1 DEF Dialogs!Stored
    <3> QED
      BY <1>1, <3>2, <3>3, <3>4, <3>5 DEF SavedAll
  <2> QED
    BY <1>3, <2>2, <2>3
<1>6. CASE ~closes
  <2>1. at' = at /\ ended' = ended
    BY <1>1, <1>6
  <2>2. AtOneRow'
    BY <1>1, <1>4, <2>1 DEF AtOneRow, Dialogs!Inputting
  <2>3. ASSUME ~excuse' PROVE Holds' /\ SavedAll'
    <3>1. ~excuse /\ s.n = opening
      BY <1>1, <2>3 DEF DialogShape
    <3>2. Holds'
      BY <1>1, <1>4, <2>1, <3>1 DEF Holds
    <3>3. ended # "saved"
      BY <1>1, <3>1 DEF SavedAll
    <3> QED
      BY <2>1, <3>2, <3>3 DEF SavedAll
  <2> QED
    BY <1>3, <2>2, <2>3
<1> QED
  BY <1>5, <1>6

LEMMA KeyCreatedKeeps ==
  ASSUME DialogInv, NEW s \in saves, Dialogs!KeyCreated(s)
  PROVE  DialogInv'
<1> USE DEF DialogInv
<1>1. /\ form = "key" /\ saves' = saves \ {s}
      /\ UNCHANGED <<form, srv, rows, val, filled, opening, intent>>
  BY DEF Dialogs!KeyCreated
<1>2. Dialogs!Fields' = Dialogs!Fields
  BY <1>1, FieldsStay
<1>3. CASE at = "new" /\ s.n = opening
  <2>1. /\ at' = "key" /\ ended' = "saved" /\ stored' = s.v
        /\ excuse' = (excuse \/ s.all # val)
    BY <1>3 DEF Dialogs!KeyCreated
  <2>2. DialogShape'
    BY <1>1, <2>1, ShapeFrame DEF DialogShape
  <2>3. AtOneRow'
    BY <1>1, <1>2, <2>1 DEF AtOneRow, Dialogs!Inputting
  <2>4. ASSUME ~excuse' PROVE Holds' /\ SavedAll'
    <3>1. ~excuse /\ s.all = val
      BY <2>1, <2>4 DEF DialogShape
    <3>2. Holds'
      BY <1>1, <1>3, <2>1, <3>1 DEF Holds
    <3>3. \A f \in DOMAIN intent : f \in DOMAIN s.v /\ s.v[f] = Dialogs!Stored(intent[f])
      BY <1>1, <1>3, <3>1, SentWhatHolds DEF Dialogs!OneDialog
    <3> QED
      BY <1>1, <2>1, <3>2, <3>3 DEF SavedAll, Dialogs!Stored
  <2> QED
    BY <2>2, <2>3, <2>4
<1>4. CASE ~(at = "new" /\ s.n = opening)
  <2>1. UNCHANGED <<at, ended, stored, excuse>>
    BY <1>4 DEF Dialogs!KeyCreated
  <2>2. DialogShape' /\ AtOneRow'
    BY <1>1, <1>2, <2>1, ShapeFrame DEF DialogShape, AtOneRow, Dialogs!Inputting
  <2>3. (Holds => Holds') /\ (SavedAll => SavedAll')
    BY <1>1, <1>2, <2>1 DEF Holds, SavedAll, Dialogs!Stored
  <2> QED
    BY <2>1, <2>2, <2>3
<1> QED
  BY <1>3, <1>4

LEMMA FailedKeeps ==
  ASSUME DialogInv, NEW s \in saves, Dialogs!Failed(s)
  PROVE  DialogInv'
<1> USE DEF DialogInv
<1>1. /\ saves' = saves \ {s}
      /\ UNCHANGED <<form, srv, rows, at, val, filled, opening, stored, intent, excuse, ended>>
  BY DEF Dialogs!Failed
<1>2. Dialogs!Fields' = Dialogs!Fields
  BY <1>1, FieldsStay
<1>3. DialogShape' /\ AtOneRow'
  BY <1>1, <1>2, ShapeFrame DEF DialogShape, AtOneRow, Dialogs!Inputting
<1>4. (Holds => Holds') /\ (SavedAll => SavedAll')
  BY <1>1, <1>2 DEF Holds, SavedAll, Dialogs!Stored
<1> QED
  BY <1>1, <1>3, <1>4

LEMMA CancelKeeps ==
  ASSUME DialogInv, Dialogs!Cancel
  PROVE  DialogInv'
<1> USE DEF DialogInv
<1>1. /\ at' = "closed" /\ form # "settings"
      /\ ended' = IF at = "key" THEN ended ELSE "cancelled"
      /\ UNCHANGED <<form, srv, rows, val, filled, saves, opening, stored, intent, excuse>>
  BY DEF Dialogs!Cancel
<1>2. Dialogs!Fields' = Dialogs!Fields
  BY <1>1, FieldsStay
<1>3. DialogShape' /\ AtOneRow'
  BY <1>1, <1>2, ShapeFrame DEF DialogShape, AtOneRow, Dialogs!Inputting, Dialogs!Rows
<1>4. (Holds => Holds') /\ (SavedAll => SavedAll')
  BY <1>1, <1>2 DEF Holds, SavedAll, Dialogs!Stored
<1> QED
  BY <1>1, <1>3, <1>4

LEMMA OtherEditKeeps ==
  ASSUME DialogInv, NEW r \in Dialogs!Rows, NEW f \in Dialogs!Fields, NEW x \in Dialogs!Domain(f),
         Dialogs!OtherEdit(r, f, x)
  PROVE  DialogInv'
<1> USE DEF DialogInv
<1>1. /\ f \notin {"project", "job"}
      /\ srv' = [srv EXCEPT ![r][f] = Dialogs!Stored(x)]
      /\ UNCHANGED <<form, rows, at, val, filled, saves, opening, stored, intent, excuse, ended>>
  BY DEF Dialogs!OtherEdit
<1> DEFINE w == [srv[r] EXCEPT ![f] = Dialogs!Stored(x)]
<1>2. RowShape(w)
  <2>1. RowShape(srv[r])
    BY DEF DialogShape
  <2>2. form = "expectation" => Dialogs!Stored(x) \in Seconds
    <3>1. form = "expectation" => x \in TimeInput
      BY FieldNames DEF DialogShape, Dialogs!Domain, Dialogs!In, TimeInput, Seconds
    <3> QED
      BY <3>1, TimesSent DEF Dialogs!Stored
  <2> QED
    BY <1>1, <2>1, <2>2, FieldNames DEF RowShape, IsRow, Fits, DialogShape
<1>3. srv' = [srv EXCEPT ![r] = w]
  BY <1>1 DEF DialogShape
<1> HIDE DEF w
<1>4. DialogShape'
  BY <1>1, <1>2, <1>3, ShapeStep DEF DialogShape
<1>5. Dialogs!Fields' = Dialogs!Fields
  BY <1>1, FieldsStay
<1>6. AtOneRow' /\ (Holds => Holds') /\ (SavedAll => SavedAll')
  BY <1>1, <1>5 DEF AtOneRow, Dialogs!Inputting, Holds, SavedAll, Dialogs!Stored
<1> QED
  BY <1>1, <1>4, <1>6

LEMMA RowsFetchedKeeps ==
  ASSUME DialogInv, Dialogs!RowsFetched
  PROVE  DialogInv'
<1> USE DEF DialogInv
<1> DEFINE refill == form = "expectation" /\ at # "closed" /\ Dialogs!ExpectationRefills(rows[at], srv[at])
<1>1. /\ rows' = srv /\ val' = IF refill THEN Dialogs!Shown(srv[at]) ELSE val
      /\ excuse' = (excuse \/ refill)
      /\ UNCHANGED <<form, srv, at, filled, saves, opening, stored, intent, ended>>
  BY DEF Dialogs!RowsFetched
<1>2. Dialogs!Fields' = Dialogs!Fields
  BY <1>1, FieldsStay
<1>3. InputShape(val')
  <2>1. refill => at \in Dialogs!Rows
    BY DEF AtOneRow
  <2> QED
    BY <1>1, <2>1, ShownShape DEF DialogShape
<1>4. DialogShape'
  BY <1>1, <1>3, ShapeStep DEF DialogShape
<1>5. AtOneRow'
  BY <1>1, <1>2 DEF AtOneRow, Dialogs!Inputting
<1>6. ASSUME ~excuse' PROVE Holds' /\ SavedAll'
  <2>1. ~excuse /\ ~refill /\ val' = val
    BY <1>1, <1>6 DEF DialogShape
  <2>2. form = "expectation" /\ at # "closed" => rows'[at] = rows[at]
    BY <1>1, <2>1 DEF Dialogs!ExpectationRefills
  <2> QED
    BY <1>1, <1>2, <2>1, <2>2 DEF Holds, SavedAll, Dialogs!Stored
<1> QED
  BY <1>4, <1>5, <1>6

LEMMA ProjectsFetchedKeeps ==
  ASSUME DialogInv, NEW new, Dialogs!ProjectsFetched(new)
  PROVE  DialogInv'
<1> USE DEF DialogInv
<1>1. /\ form \in {"alert", "runbook"}
      /\ UNCHANGED <<form, srv, rows, at, filled, saves, opening, stored, intent, ended>>
  BY DEF Dialogs!ProjectsFetched
<1> DEFINE refill == at # "closed" /\ IF form = "alert" THEN Dialogs!AlertRefills(projects, new)
                                      ELSE Dialogs!RunbookRefills(projects, new)
           least == CHOOSE p \in new : \A q \in new : p <= q
           again == IF ~refill THEN val
                    ELSE IF at = "new" THEN [Dialogs!NoRef EXCEPT !["project"] = least] ELSE rows[at]
<1>2. /\ val' = IF at = "closed" THEN val ELSE Dialogs!AlertFits(again, new)
      /\ excuse' = (excuse \/ refill \/ val' # val)
  BY DEF Dialogs!ProjectsFetched
<1> HIDE DEF least
<1>3. excuse' \in BOOLEAN /\ (~excuse' => ~excuse /\ val' = val)
  BY <1>2 DEF DialogShape
<1>4. InputShape(val')
  <2>1. InputShape([Dialogs!NoRef EXCEPT !["project"] = least])
    BY <1>1, NewShape DEF DialogShape
  <2>2. at \notin {"closed", "new"} => InputShape(rows[at])
    BY <1>1 DEF DialogShape, AtOneRow, RowShape, InputShape
  <2>3. at # "closed" => InputShape(again)
    BY <2>1, <2>2 DEF DialogShape
  <2> HIDE DEF again
  <2> QED
    BY <1>2, <2>3, FitsShape DEF DialogShape
<1>5. DialogShape'
  BY <1>1, <1>3, <1>4, ShapeStep DEF DialogShape
<1>6. Dialogs!Fields' = Dialogs!Fields
  BY <1>1, FieldsStay
<1>7. AtOneRow'
  BY <1>1, <1>6 DEF AtOneRow, Dialogs!Inputting
<1>8. ~excuse' => Holds' /\ SavedAll'
  BY <1>1, <1>3, <1>6 DEF Holds, SavedAll, Dialogs!Stored
<1> QED
  BY <1>5, <1>7, <1>8

LEMMA DialogStep ==
  ASSUME DialogInv, [DashboardNext]_dashboardVars
  PROVE  DialogInv'
<1>1. CASE UNCHANGED formsVars
  <2>1. UNCHANGED <<form, srv, rows, at, val, filled, saves, opening, stored, intent, excuse, ended>>
    BY <1>1 DEF formsVars
  <2>2. Dialogs!Fields' = Dialogs!Fields
    BY <2>1, FieldsStay
  <2>3. DialogShape' /\ AtOneRow'
    BY <2>1, <2>2, ShapeFrame DEF DialogInv, DialogShape, AtOneRow, Dialogs!Inputting
  <2>4. (Holds => Holds') /\ (SavedAll => SavedAll')
    BY <2>1, <2>2 DEF Holds, SavedAll, Dialogs!Stored
  <2> QED
    BY <2>1, <2>3, <2>4 DEF DialogInv
<1>2. CASE Dialogs!FNext
  BY <1>2, OpenKeeps, SwitchKeeps, TypeKeeps, SubmitKeeps, ServeKeepsDialog, SavedKeeps, KeyCreatedKeeps,
     FailedKeeps, CancelKeeps, OtherEditKeeps, RowsFetchedKeeps, ProjectsFetchedKeeps
  DEF Dialogs!FNext
<1> QED
  BY <1>1, <1>2 DEF DashboardNext, FormsStep, ScreensStep, ActionsStep, IncidentStep, ReviewStep, ChartsStep,
     BellStep, dashboardVars

(* The invariant of the dialogs. *)
THEOREM DialogInvariance == DashboardSpec => []DialogInv
BY DialogStart, DialogStep, PTL DEF DashboardSpec

(* What a dialog sends names a job of the project it names and goes to the    *)
(* row its inputs were filled from.                                           *)
THEOREM SubmissionsMatch == DashboardSpec => []SubmissionsFit
<1>1. DialogInv => SubmissionsFit
  <2> SUFFICES ASSUME DialogInv, NEW s \in saves
               PROVE  /\ form \in {"alert", "runbook"} => s.v["job"] \in {Dialogs!None, s.v["project"]}
                      /\ form # "settings" => s.to = s.from
    BY DEF SubmissionsFit, Dialogs!SubmissionsFit
  <2>1. SaveShape(s) /\ form \in DialogNames
    BY DEF DialogInv, DialogShape
  <2>2. ASSUME form \in {"alert", "runbook"} PROVE s.v["job"] = s.all["job"] /\ s.v["project"] = s.all["project"]
    <3>1. DOMAIN s.all = Dialogs!Fields
      BY <2>1 DEF SaveShape, InputShape, IsRow
    <3> QED
      BY <2>1, <2>2, <3>1, FieldNames DEF SaveShape, Submitted, Dialogs!AlertPayload
  <2> QED
    BY <2>1, <2>2 DEF SaveShape, InputShape, Fits
<1> QED
  BY <1>1, DialogInvariance, PTL

(* What was entered into a dialog is in it while it is open, and was sent by  *)
(* the save that closed it.                                                   *)
THEOREM TypedStored == DashboardSpec => []TypedIsStored
<1>1. DialogInv => TypedIsStored
  <2> SUFFICES ASSUME DialogInv, ~excuse
               PROVE  /\ at # "closed" => \A f \in DOMAIN intent : val[f] = intent[f]
                      /\ ended = "saved" => \A f \in DOMAIN intent :
                           (form = "channel" /\ f = "config" => stored["type"] = "plain")
                             => f \in DOMAIN stored /\ stored[f] = Dialogs!Stored(intent[f])
                      /\ at # "closed" /\ form = "expectation" => \A f \in Dialogs!Fields \ DOMAIN intent :
                           Dialogs!ExpectationPayload(val)[f] = IF rows[at][f] = <<0>> THEN <<>> ELSE rows[at][f]
    BY DEF TypedIsStored, Dialogs!TypedIsStored
  <2>1. Holds /\ SavedAll
    BY DEF DialogInv
  <2>2. \A f \in Dialogs!Fields : Dialogs!ExpectationPayload(val)[f] = Dialogs!ToSeconds(val[f])
    BY DEF DialogInv, DialogShape, InputShape, IsRow, Dialogs!ExpectationPayload
  <2> QED
    BY <2>1, <2>2 DEF Holds, SavedAll
<1> QED
  BY <1>1, DialogInvariance, PTL

(***************************************************************************)
(* List screens.  Whatever is cached under a key, or on its way there, has *)
(* been asked with the inputs that the key names (AnswerFits); the key in  *)
(* sight names all that is asked for in sight.  Of the screens that guard  *)
(* their page, two leave a page beyond the last as soon as the answer      *)
(* lands (NeverBeyond), and on the projects no page but those of the       *)
(* answer can be chosen, which stay until rows are removed (PagesExist).   *)
(***************************************************************************)
Asks == Lists!RequestInputs[screen]
KeyShape(k) == /\ k = [c \in Asks |-> k[c]]
               /\ "page" \in Asks => k["page"] \in Nat \ {0}
RowPasses(k, i, r) ==
  /\ DOMAIN r = Lists!Fields
  /\ \A c \in Asks \cap Lists!Fields : k[c] \in {"all", r[c]} \/ (c = "filter" /\ i \in patched)
AnswerFits(k, e) ==
  /\ e = [st |-> e.st, list |-> e.list, order |-> e.order, pages |-> e.pages]
  /\ \A i \in DOMAIN e.list : RowPasses(k, i, e.list[i])
  /\ DOMAIN e.list # {} => e.order = Lists!OrderOf(k)
  /\ e.st = "missing" => "page" \in Asks /\ k["page"] > 1
RequestFits(f) ==
  /\ f = [key |-> f.key, ask |-> f.key, st |-> f.st, data |-> f.data]
  /\ KeyShape(f.key) /\ AnswerFits(f.key, f.data)

ScreenShape ==
  /\ screen \in ScreenNames /\ page \in Nat \ {0} /\ changes \in Nat
  /\ ctl = [c \in Lists!Controls |-> ctl[c]]
  /\ DOMAIN sRows = DOMAIN Stock /\ \A i \in DOMAIN sRows : DOMAIN sRows[i] = Lists!Fields
  /\ \A k \in DOMAIN cache : KeyShape(k) /\ AnswerFits(k, cache[k])
  /\ \A f \in fetch : RequestFits(f)
NeverBeyond ==
  screen \in {"jobs", "alerts"} => ~(Lists!Entry.st = "missing" /\ Lists!Entry.list = <<>>)
PagesKnown(k, e) ==
  /\ e.pages \in Nat /\ e.pages <= Lists!LastPage(k)
  /\ e.st = "missing" => k["page"] > Lists!LastPage(k)
PagesExist ==
  screen = "projects" /\ changes = 0 =>
    /\ \A k \in DOMAIN cache : PagesKnown(k, cache[k])
    /\ \A f \in fetch : PagesKnown(f.key, f.data)
    /\ page <= Lists!LastPage(Lists!Key)
ScreensInv == ScreenShape /\ NeverBeyond /\ PagesExist

(* What the inputs of each screen are good for. *)
LEMMA ScreenInputs ==
  ASSUME screen \in ScreenNames
  PROVE  /\ Lists!KeyInputs(screen) = Asks
         /\ Asks \subseteq {"page"} \cup Lists!Controls
         /\ Lists!Offered[screen] \cap Lists!Fields \subseteq Asks \cup Lists!PageFilters(screen)
         /\ "order" \in Lists!Offered[screen] => "order" \in Asks
         /\ screen \in {"runbooks", "team"} => "page" \notin Asks
         /\ screen \in {"jobs", "alerts", "projects"} => "page" \in Asks
         /\ screen \in Lists!Undebounced => screen = "runbooks"
         /\ screen \in Lists!ResetsPage <=> screen = "projects"
<1>1. screen \in {"incidents", "executions", "jobs", "alerts", "notifications", "runbooks",
                  "projects", "policies", "channels", "sheet", "team"}
  BY ScreenAssumption
<1> USE DEF Asks, Lists!KeyInputs, Lists!RequestInputs, Lists!Controls, Lists!Fields, Lists!Offered,
    Lists!PageFilters, Lists!Undebounced, Lists!ResetsPage
<1>2. CASE screen = "incidents"
  BY <1>2 DEF Lists!IncidentsQuery, Lists!IncidentsControls
<1>3. CASE screen = "executions"
  BY <1>3 DEF Lists!ExecutionsQuery, Lists!ExecutionsControls
<1>4. CASE screen = "jobs"
  BY <1>4 DEF Lists!JobsQuery, Lists!JobsControls, Lists!JobsFiltered
<1>5. CASE screen = "alerts"
  BY <1>5 DEF Lists!AlertsQuery, Lists!AlertsControls
<1>6. CASE screen = "notifications"
  BY <1>6 DEF Lists!NotificationsQuery, Lists!NotificationsControls
<1>7. CASE screen = "runbooks"
  BY <1>7 DEF Lists!RunbooksQuery, Lists!RunbooksControls
<1>8. CASE screen = "projects"
  BY <1>8 DEF Lists!ProjectsQuery, Lists!ProjectsControls, Lists!ProjectsFiltered
<1>9. CASE screen = "policies"
  BY <1>9 DEF Lists!PoliciesQuery, Lists!PoliciesControls
<1>10. CASE screen = "channels"
  BY <1>10 DEF Lists!ChannelsQuery, Lists!ChannelsControls
<1>11. CASE screen = "sheet"
  BY <1>11 DEF Lists!SheetQuery, Lists!SheetControls
<1>12. CASE screen = "team"
  BY <1>12 DEF Lists!TeamQuery, Lists!TeamControls, Lists!TeamFiltered
<1> QED
  BY <1>1, <1>2, <1>3, <1>4, <1>5, <1>6, <1>7, <1>8, <1>9, <1>10, <1>11, <1>12

LEMMA KeyNames ==
  ASSUME screen \in ScreenNames, NEW v, NEW d, NEW p
  PROVE  /\ Lists!KeyOf(v, d, p) = [c \in Asks |-> IF c = "page" THEN p ELSE IF c = "search" THEN d ELSE v[c]]
         /\ Lists!RequestOf(v, d, p) = Lists!KeyOf(v, d, p)
         /\ p \in Nat \ {0} => KeyShape(Lists!KeyOf(v, d, p))
<1>1. /\ Lists!KeyOf(v, d, p) = [c \in Asks |-> IF c = "page" THEN p ELSE IF c = "search" THEN d ELSE v[c]]
      /\ Lists!RequestOf(v, d, p) = Lists!KeyOf(v, d, p)
  BY ScreenInputs DEF Lists!KeyOf, Lists!RequestOf, Lists!Inputs, Asks
<1>2. p \in Nat \ {0} => KeyShape(Lists!KeyOf(v, d, p))
  BY <1>1 DEF KeyShape
<1> QED
  BY <1>1, <1>2

(* Nothing is in no answer, and a request starts with none. *)
LEMMA NothingFits ==
  /\ Lists!NoAnswer.st = "none" /\ Lists!NoAnswer.pages = 1 /\ DOMAIN Lists!NoAnswer.list = {}
  /\ \A k : AnswerFits(k, Lists!NoAnswer)
<1>1. DOMAIN Lists!NoAnswer.list = {}
  <2>1. Lists!NoAnswer.list = <<>>
    BY DEF Lists!NoAnswer
  <2>2. DOMAIN <<>> = {}
    OBVIOUS
  <2> QED
    BY <2>1, <2>2
<1>2. \A i \in DOMAIN Lists!NoAnswer.list : FALSE
  BY <1>1
<1> QED
  BY <1>1, <1>2 DEF Lists!NoAnswer, AnswerFits

LEMMA SentFits ==
  ASSUME screen \in ScreenNames, NEW v, NEW d, NEW p \in Nat \ {0}
  PROVE  /\ RequestFits(Lists!Sent(v, d, p))
         /\ Lists!Sent(v, d, p).key = Lists!KeyOf(v, d, p)
         /\ Lists!Sent(v, d, p).data = Lists!NoAnswer
<1> DEFINE k == Lists!KeyOf(v, d, p)
<1>1. Lists!Sent(v, d, p) = [key |-> k, ask |-> k, st |-> "sent", data |-> Lists!NoAnswer]
  BY KeyNames DEF Lists!Sent
<1>2. KeyShape(k) /\ AnswerFits(k, Lists!NoAnswer)
  BY KeyNames, NothingFits
<1> DEFINE s == Lists!Sent(v, d, p)
<1>3. /\ s = [key |-> s.key, ask |-> s.key, st |-> s.st, data |-> s.data]
      /\ s.key = k /\ s.data = Lists!NoAnswer
  BY <1>1
<1> HIDE DEF k, s
<1>4. RequestFits(s) /\ s.key = k /\ s.data = Lists!NoAnswer
  BY <1>2, <1>3 DEF RequestFits
<1> QED
  BY <1>4 DEF k, s

-----------------------------------------------------------------------------
(* Pages are counted from 1, and do not depend on the page asked for. *)
LEMMA Quotient ==
  ASSUME NEW n \in Nat \ {0}, NEW m \in Nat \ {0}
  PROVE  (n + m - 1) \div m \in Nat \ {0}
<1>1. n + m - 1 \in Nat /\ n + m - 1 >= m
  OBVIOUS
<1>2. ASSUME NEW x \in Nat, x >= m PROVE x \div m \in Nat \ {0}
  BY <1>2
<1> QED
  BY <1>1, <1>2

LEMMA PagesCounted ==
  ASSUME ScreenShape, NEW q
  PROVE  Lists!LastPage(q) \in Nat \ {0}
<1>1. CASE Lists!Ids(q) = {}
  BY <1>1 DEF Lists!LastPage
<1>2. CASE Lists!Ids(q) # {}
  <2>1. IsFiniteSet(Lists!Ids(q))
    <3>1. Lists!Ids(q) \subseteq DOMAIN Stock /\ IsFiniteSet(DOMAIN Stock)
      BY ScreenAssumption DEF ScreenShape, Lists!Ids
    <3> QED
      BY <3>1, FS_Subset
  <2>2. Cardinality(Lists!Ids(q)) \in Nat \ {0}
    BY <1>2, <2>1, FS_CardinalityType, FS_EmptySet
  <2>3. Lists!Cardinality(Lists!Ids(q)) = Cardinality(Lists!Ids(q))
    BY DEF Lists!Cardinality, Cardinality
  <2> QED
    BY <1>2, <2>2, <2>3, Quotient, ScreenAssumption DEF Lists!LastPage
<1> QED
  BY <1>1, <1>2

LEMMA SamePages ==
  ASSUME NEW q, NEW r, DOMAIN q = DOMAIN r, \A c \in DOMAIN q \cap Lists!Fields : q[c] = r[c]
  PROVE  Lists!LastPage(q) = Lists!LastPage(r)
<1>1. \A i : Lists!Matches(sRows[i], q) = Lists!Matches(sRows[i], r)
  BY DEF Lists!Matches
<1>2. Lists!Ids(q) = Lists!Ids(r)
  BY <1>1 DEF Lists!Ids
<1> QED
  BY <1>2 DEF Lists!LastPage

-----------------------------------------------------------------------------
(* The server answers what a key asks for. *)
LEMMA AnswerPasses ==
  ASSUME ScreenShape, NEW k, KeyShape(k)
  PROVE  /\ AnswerFits(k, Lists!Answer(k))
         /\ screen = "projects" => PagesKnown(k, Lists!Answer(k))
<1>1. DOMAIN k = Asks /\ ("page" \in Asks => k["page"] \in Nat \ {0})
  BY DEF KeyShape
<1>2. Lists!LastPage(k) \in Nat \ {0}
  BY PagesCounted
<1>3. ASSUME NEW ids \in SUBSET Lists!Ids(k), NEW n \in Nat
      PROVE  /\ AnswerFits(k, Lists!Listed(ids, k, n))
             /\ Lists!Listed(ids, k, n).pages = n /\ Lists!Listed(ids, k, n).st = "ok"
  <2> DEFINE e == Lists!Listed(ids, k, n)
  <2>1. /\ e = [st |-> "ok", list |-> [i \in ids |-> sRows[i]], order |-> Lists!OrderOf(k), pages |-> n]
        /\ e.st = "ok" /\ e.list = [i \in ids |-> sRows[i]] /\ e.order = Lists!OrderOf(k) /\ e.pages = n
    BY DEF Lists!Listed
  <2> HIDE DEF e
  <2>2. ASSUME NEW i \in ids PROVE RowPasses(k, i, sRows[i])
    <3>1. i \in DOMAIN sRows /\ Lists!Matches(sRows[i], k)
      BY DEF Lists!Ids
    <3> QED
      BY <1>1, <3>1 DEF RowPasses, Lists!Matches, ScreenShape
  <2>3. \A i \in DOMAIN e.list : RowPasses(k, i, e.list[i])
    BY <2>1, <2>2
  <2>4. AnswerFits(k, e)
    BY <2>1, <2>3 DEF AnswerFits
  <2> QED
    BY <2>1, <2>4 DEF e
<1>4. CASE "page" \notin Asks
  <2>1. Lists!Answer(k) = Lists!Listed(Lists!Ids(k), k, 1)
    BY <1>1, <1>4 DEF Lists!Answer
  <2> QED
    BY <1>2, <1>3, <1>4, <2>1, ScreenInputs DEF PagesKnown, ScreenShape
<1>5. CASE "page" \in Asks /\ k["page"] > Lists!LastPage(k)
  <2> DEFINE e == [Lists!NoAnswer EXCEPT !.st = "missing"]
  <2>1. Lists!Answer(k) = e
    BY <1>1, <1>5 DEF Lists!Answer
  <2>2. /\ e = [st |-> e.st, list |-> e.list, order |-> e.order, pages |-> e.pages]
        /\ e.st = "missing" /\ e.pages = 1 /\ e.list = Lists!NoAnswer.list
    BY DEF Lists!NoAnswer
  <2> HIDE DEF e
  <2>3. DOMAIN e.list = {} /\ \A i \in DOMAIN e.list : FALSE
    BY <2>2, NothingFits
  <2>4. k["page"] > 1
    BY <1>1, <1>2, <1>5
  <2> QED
    BY <1>2, <1>5, <2>1, <2>2, <2>3, <2>4 DEF AnswerFits, PagesKnown
<1>6. CASE "page" \in Asks /\ ~(k["page"] > Lists!LastPage(k))
  <2> DEFINE ids == {i \in Lists!Ids(k) : Lists!PageOf(i, k) = k["page"]}
  <2>1. Lists!Answer(k) = Lists!Listed(ids, k, Lists!LastPage(k))
    BY <1>1, <1>6 DEF Lists!Answer
  <2>2. ids \in SUBSET Lists!Ids(k)
    OBVIOUS
  <2> HIDE DEF ids
  <2> QED
    BY <1>2, <1>3, <2>1, <2>2 DEF PagesKnown
<1> QED
  BY <1>4, <1>5, <1>6

(* What fits goes on to fit, as rows that a push changes are remembered. *)
LEMMA FitsOn ==
  ASSUME UNCHANGED screen, patched \subseteq patched'
  PROVE  /\ Asks' = Asks
         /\ \A k : KeyShape(k) => KeyShape(k)'
         /\ \A k, e : AnswerFits(k, e) => AnswerFits(k, e)'
         /\ \A f : RequestFits(f) => RequestFits(f)'
<1>1. Asks' = Asks
  BY DEF Asks
<1>2. \A k : KeyShape(k) => KeyShape(k)'
  BY <1>1 DEF KeyShape
<1>3. ASSUME NEW k, NEW e, AnswerFits(k, e) PROVE AnswerFits(k, e)'
  <2>1. \A i \in DOMAIN e.list : RowPasses(k, i, e.list[i])'
    BY <1>1, <1>3 DEF AnswerFits, RowPasses
  <2> QED
    BY <1>1, <1>3, <2>1 DEF AnswerFits
<1>4. ASSUME NEW f, RequestFits(f) PROVE RequestFits(f)'
  <2>1. AnswerFits(f.key, f.data)'
    BY <1>3, <1>4 DEF RequestFits
  <2>2. KeyShape(f.key)'
    BY <1>2, <1>4 DEF RequestFits
  <2> QED
    BY <1>4, <2>1, <2>2 DEF RequestFits
<1> QED
  BY <1>1, <1>2, <1>3, <1>4

LEMMA ScreenShapeStep ==
  ASSUME ScreenShape, UNCHANGED screen, page' \in Nat \ {0}, changes' \in Nat, patched \subseteq patched',
         ctl' = [c \in Lists!Controls |-> ctl'[c]], DOMAIN sRows' = DOMAIN sRows,
         \A i \in DOMAIN sRows : DOMAIN sRows'[i] = Lists!Fields,
         \A k \in DOMAIN cache' : KeyShape(k) /\ (AnswerFits(k, cache'[k]) \/ AnswerFits(k, cache[k])'),
         \A f \in fetch' : RequestFits(f)
  PROVE  ScreenShape'
<1>1. Lists!Fields' = Lists!Fields /\ Lists!Controls' = Lists!Controls
  BY DEF Lists!Fields, Lists!Controls
<1>2. \A k \in DOMAIN cache' : KeyShape(k)' /\ AnswerFits(k, cache[k])'
  <2> SUFFICES ASSUME NEW k \in DOMAIN cache', AnswerFits(k, cache'[k])
               PROVE  AnswerFits(k, cache[k])'
    BY FitsOn
  <2>1. Asks' = Asks /\ Lists!OrderOf(k)' = Lists!OrderOf(k)
    BY FitsOn DEF Lists!OrderOf
  <2> QED
    BY <1>1, <2>1 DEF AnswerFits, RowPasses
<1>3. \A f \in fetch' : RequestFits(f)'
  BY FitsOn
<1> QED
  BY <1>1, <1>2, <1>3 DEF ScreenShape

LEMMA PagesStay ==
  ASSUME UNCHANGED sRows
  PROVE  /\ \A k : Lists!LastPage(k)' = Lists!LastPage(k)
         /\ \A k, e : PagesKnown(k, e) => PagesKnown(k, e)'
<1>1. \A k : Lists!LastPage(k)' = Lists!LastPage(k)
  BY DEF Lists!LastPage, Lists!Ids, Lists!Matches
<1> QED
  BY <1>1 DEF PagesKnown

(* Nothing is known of a key that is not cached. *)
LEMMA CachedPages ==
  ASSUME ScreenShape, NEW k
  PROVE  /\ k \notin DOMAIN cache => Lists!Cached(k) = Lists!NoAnswer
         /\ k \in DOMAIN cache => Lists!Cached(k) = cache[k]
         /\ PagesKnown(k, Lists!NoAnswer)
<1>1. PagesKnown(k, Lists!NoAnswer)
  BY PagesCounted, NothingFits DEF PagesKnown
<1> QED
  BY <1>1 DEF Lists!Cached

LEMMA SightKeys ==
  /\ Lists!Key = Lists!KeyOf(ctl, shown, page)
  /\ UNCHANGED screen => Lists!Key' = Lists!KeyOf(ctl', shown', page')
  /\ UNCHANGED <<screen, ctl, shown, page>> => Lists!Key' = Lists!Key
BY DEF Lists!Key, Lists!KeyOf, Lists!Inputs, Lists!KeyInputs

LEMMA ScreensStart == DashboardInit => ScreensInv
<1> SUFFICES ASSUME Lists!SInit PROVE ScreensInv
  BY DEF DashboardInit
<1>1. /\ screen \in ScreenNames /\ shown = "all" /\ page = 1 /\ cache = <<>> /\ sRows = Stock /\ changes = 0
      /\ ctl = [c \in Lists!Controls |-> ctl[c]] /\ fetch = {Lists!Sent(ctl, shown, page)}
  BY DEF Lists!SInit
<1>2. DOMAIN cache = {}
  <2>1. DOMAIN <<>> = {}
    OBVIOUS
  <2> QED
    BY <1>1, <2>1
<1>3. /\ RequestFits(Lists!Sent(ctl, shown, page)) /\ Lists!Sent(ctl, shown, page).data = Lists!NoAnswer
  BY <1>1, SentFits
<1>4. ScreenShape
  BY <1>1, <1>2, <1>3, ScreenAssumption DEF ScreenShape, Lists!Fields
<1>5. NeverBeyond
  BY <1>2, <1>4, CachedPages, NothingFits DEF NeverBeyond, Lists!Entry
<1>6. PagesExist
  <2>1. \A k : PagesKnown(k, Lists!NoAnswer) /\ 1 <= Lists!LastPage(k)
    BY <1>4, CachedPages, PagesCounted
  <2> QED
    BY <1>1, <1>2, <1>3, <2>1 DEF PagesExist
<1> QED
  BY <1>4, <1>5, <1>6 DEF ScreensInv

-----------------------------------------------------------------------------
(* Requests come and go, the key in sight stays. *)
LEMMA RequestsChange ==
  ASSUME ScreensInv, Lists!Key' = Lists!Key, ctl' = [c \in Lists!Controls |-> ctl'[c]],
         UNCHANGED <<screen, page, cache, sRows, patched, changes>>,
         \A f \in fetch' : \/ f \in fetch
                           \/ RequestFits(f) /\ (screen = "projects" /\ changes = 0 => PagesKnown(f.key, f.data))
  PROVE  ScreensInv'
<1>1. ScreenShape'
  BY ScreenShapeStep DEF ScreensInv, ScreenShape
<1>2. Lists!Entry' = Lists!Entry
  BY DEF Lists!Entry, Lists!Cached, Lists!NoAnswer
<1>3. NeverBeyond'
  BY <1>2 DEF ScreensInv, NeverBeyond
<1>4. PagesExist'
  BY PagesStay DEF ScreensInv, PagesExist
<1> QED
  BY <1>1, <1>3, <1>4 DEF ScreensInv

(* A render asks for a key unless its answer has rows or says that there are none. *)
LEMMA Rendered ==
  ASSUME NEW v, NEW d, NEW ps, Lists!Render(v, d, ps)
  PROVE  /\ DOMAIN cache' \subseteq DOMAIN cache
         /\ \A k \in DOMAIN cache' : cache'[k] = cache[k]
         /\ \A f \in fetch' : f \in fetch \/ \E p \in ps : f = Lists!Sent(v, d, p)
         /\ \A p \in ps : LET k == Lists!KeyOf(v, d, p)
                           IN  k \in DOMAIN cache' => cache[k].list # <<>> \/ cache[k].st = "ok"
<1> DEFINE new == {a \in {Lists!Sent(v, d, p) : p \in ps} :
                     a.key \in DOMAIN cache => cache[a.key].list = <<>> /\ cache[a.key].st # "ok"}
<1>1. /\ fetch' = Lists!Fetched(new) \/ fetch' = Lists!Fetched({Lists!Sent(v, d, p) : p \in ps})
      /\ cache' = [k \in DOMAIN cache \ {a.key : a \in new} |-> cache[k]]
  BY DEF Lists!Render
<1>2. \A p : Lists!Sent(v, d, p).key = Lists!KeyOf(v, d, p)
  BY DEF Lists!Sent
<1>3. ASSUME NEW p \in ps, Lists!KeyOf(v, d, p) \in DOMAIN cache'
      PROVE  cache[Lists!KeyOf(v, d, p)].list # <<>> \/ cache[Lists!KeyOf(v, d, p)].st = "ok"
  <2>1. Lists!Sent(v, d, p) \notin new
    BY <1>1, <1>2, <1>3
  <2> QED
    BY <1>1, <1>2, <1>3, <2>1
<1>4. \A f \in fetch' : f \in fetch \/ \E p \in ps : f = Lists!Sent(v, d, p)
  BY <1>1 DEF Lists!Fetched
<1> QED
  BY <1>1, <1>3, <1>4

LEMMA RenderKeeps ==
  ASSUME ScreensInv, NEW ps, ps \subseteq Nat \ {0}, page' \in ps,
         UNCHANGED <<screen, sRows, patched, changes>>, ctl' = [c \in Lists!Controls |-> ctl'[c]],
         Lists!Render(ctl', shown', ps),
         screen = "projects" /\ changes = 0 => page' <= Lists!LastPage(Lists!KeyOf(ctl', shown', page'))
  PROVE  ScreensInv'
<1>1. /\ DOMAIN cache' \subseteq DOMAIN cache
      /\ \A k \in DOMAIN cache' : cache'[k] = cache[k]
      /\ \A f \in fetch' : f \in fetch \/ \E p \in ps : f = Lists!Sent(ctl', shown', p)
      /\ \A p \in ps : LET k == Lists!KeyOf(ctl', shown', p)
                        IN  k \in DOMAIN cache' => cache[k].list # <<>> \/ cache[k].st = "ok"
  BY Rendered
<1>2. \A f \in fetch' : f \in fetch \/ (RequestFits(f) /\ f.data = Lists!NoAnswer)
  <2>1. \A p \in ps : /\ RequestFits(Lists!Sent(ctl', shown', p))
                      /\ Lists!Sent(ctl', shown', p).data = Lists!NoAnswer
    BY SentFits DEF ScreensInv, ScreenShape
  <2> QED
    BY <1>1, <2>1
<1>3. ScreenShape'
  BY <1>1, <1>2, ScreenShapeStep DEF ScreensInv, ScreenShape
<1>4. Lists!Key' = Lists!KeyOf(ctl', shown', page')
  BY SightKeys
<1>5. NeverBeyond'
  <2>1. Lists!Entry' = IF Lists!Key' \in DOMAIN cache' THEN cache'[Lists!Key'] ELSE Lists!NoAnswer
    BY DEF Lists!Entry, Lists!Cached, Lists!NoAnswer
  <2>2. Lists!Key' \in DOMAIN cache' => cache'[Lists!Key'].list # <<>> \/ cache'[Lists!Key'].st = "ok"
    BY <1>1, <1>4
  <2> QED
    BY <2>1, <2>2, NothingFits DEF NeverBeyond
<1>6. PagesExist'
  <2>1. /\ \A k : Lists!LastPage(k)' = Lists!LastPage(k)
        /\ \A k, e : PagesKnown(k, e) => PagesKnown(k, e)'
        /\ \A k : PagesKnown(k, Lists!NoAnswer)
    BY PagesStay, CachedPages DEF ScreensInv
  <2> SUFFICES ASSUME screen = "projects", changes = 0
               PROVE  /\ \A k \in DOMAIN cache' : PagesKnown(k, cache'[k])
                      /\ \A f \in fetch' : PagesKnown(f.key, f.data)
                      /\ page' <= Lists!LastPage(Lists!Key')
    BY <2>1 DEF PagesExist
  <2> QED
    BY <1>1, <1>2, <1>4, <2>1 DEF ScreensInv, PagesExist
<1> QED
  BY <1>3, <1>5, <1>6 DEF ScreensInv

LEMMA RequestServedKeeps ==
  ASSUME ScreensInv, NEW f \in fetch, Lists!RequestServed(f) \/ Lists!RequestFailed(f)
  PROVE  ScreensInv'
<1>1. RequestFits(f) /\ ScreenShape
  BY DEF ScreensInv, ScreenShape
<1>2. CASE Lists!RequestServed(f)
  <2> DEFINE g == Lists!Replied(f, Lists!Answer(f.ask))
  <2>1. /\ fetch' = (fetch \ {f}) \cup {g}
        /\ UNCHANGED <<screen, ctl, shown, page, cache, sRows, patched, changes>>
    BY <1>2 DEF Lists!RequestServed
  <2>2. f.ask = f.key
    BY <1>1 DEF RequestFits
  <2>3. /\ g = [key |-> g.key, ask |-> g.key, st |-> g.st, data |-> g.data]
        /\ g.key = f.key /\ g.data = Lists!Answer(f.key)
    BY <2>2 DEF Lists!Replied
  <2> HIDE DEF g
  <2>4. RequestFits(g) /\ (screen = "projects" => PagesKnown(g.key, g.data))
    BY <1>1, <2>3, AnswerPasses DEF RequestFits
  <2> QED
    BY <1>1, <2>1, <2>4, RequestsChange, SightKeys DEF ScreenShape
<1>3. CASE Lists!RequestFailed(f)
  <2> DEFINE e == [f.data EXCEPT !.st = "error"]
             g == Lists!Replied(f, e)
  <2>1. /\ fetch' = (fetch \ {f}) \cup {g}
        /\ UNCHANGED <<screen, ctl, shown, page, cache, sRows, patched, changes>>
    BY <1>3 DEF Lists!RequestFailed
  <2>2. f.ask = f.key
    BY <1>1 DEF RequestFits
  <2>3. /\ e = [st |-> "error", list |-> f.data.list, order |-> f.data.order, pages |-> f.data.pages]
        /\ e.st = "error" /\ e.list = f.data.list /\ e.order = f.data.order /\ e.pages = f.data.pages
    BY <1>1 DEF RequestFits, AnswerFits
  <2> HIDE DEF e
  <2>4. /\ g = [key |-> g.key, ask |-> g.key, st |-> g.st, data |-> g.data]
        /\ g.key = f.key /\ g.data = e
    BY <2>2 DEF Lists!Replied
  <2> HIDE DEF g
  <2>5. RequestFits(g)
    BY <1>1, <2>3, <2>4 DEF RequestFits, AnswerFits
  <2>6. screen = "projects" /\ changes = 0 => PagesKnown(g.key, g.data)
    BY <2>3, <2>4 DEF ScreensInv, PagesExist, PagesKnown
  <2> QED
    BY <1>1, <2>1, <2>5, <2>6, RequestsChange, SightKeys DEF ScreenShape
<1> QED
  BY <1>2, <1>3

-----------------------------------------------------------------------------
(* The inputs of a person, of which only pages can be beyond the last. *)
LEMMA TypedKeeps ==
  ASSUME ScreensInv, NEW v, Lists!Typed(v)
  PROVE  ScreensInv'
<1>1. /\ UNCHANGED <<screen, page, sRows, patched, changes>> /\ ctl' = [ctl EXCEPT !["search"] = v]
      /\ IF screen \in Lists!Undebounced THEN shown' = v /\ Lists!Render(ctl', v, {page})
                                         ELSE UNCHANGED <<shown, cache, fetch>>
  BY DEF Lists!Typed
<1>2. /\ ctl' = [c \in Lists!Controls |-> ctl'[c]] /\ page \in Nat \ {0} /\ screen \in ScreenNames
      /\ \A c : c # "search" /\ c \in Lists!Controls => ctl'[c] = ctl[c]
  BY <1>1 DEF ScreensInv, ScreenShape
<1>3. CASE screen \in Lists!Undebounced
  <2>1. Lists!Render(ctl', shown', {page}) /\ screen # "projects"
    BY <1>1, <1>2, <1>3, ScreenInputs
  <2>2. page' \in {page} /\ {page} \subseteq Nat \ {0}
    BY <1>1, <1>2
  <2> QED
    BY <1>1, <1>2, <2>1, <2>2, RenderKeeps
<1>4. CASE screen \notin Lists!Undebounced
  <2>1. Lists!KeyOf(ctl', shown, page) = Lists!KeyOf(ctl, shown, page)
    <3> DEFINE In(w) == [c \in Asks |-> IF c = "page" THEN page ELSE IF c = "search" THEN shown ELSE w[c]]
    <3>1. \A c \in Asks : c = "page" \/ c = "search" \/ ctl'[c] = ctl[c]
      BY <1>2, ScreenInputs
    <3>2. In(ctl') = In(ctl)
      BY <3>1
    <3> QED
      BY <1>2, <3>2, KeyNames
  <2>2. Lists!Key' = Lists!Key
    BY <1>1, <1>4, <2>1, SightKeys
  <2> QED
    BY <1>1, <1>2, <1>4, <2>2, RequestsChange
<1> QED
  BY <1>3, <1>4

LEMMA ResetKeeps ==
  ASSUME ScreensInv, UNCHANGED <<screen, sRows, patched, changes>>,
         ctl' = [c \in Lists!Controls |-> ctl'[c]], page' = Lists!Reset(page),
         Lists!Render(ctl', shown', {page, page'})
  PROVE  ScreensInv'
<1>1. page \in Nat \ {0} /\ page' \in Nat \ {0} /\ (screen = "projects" => page' = 1)
  BY ScreenInputs DEF ScreensInv, ScreenShape, Lists!Reset
<1>2. Lists!LastPage(Lists!KeyOf(ctl', shown', page')) \in Nat \ {0}
  BY PagesCounted DEF ScreensInv
<1>3. {page, page'} \subseteq Nat \ {0} /\ page' \in {page, page'}
  BY <1>1
<1>4. screen = "projects" /\ changes = 0 => page' <= Lists!LastPage(Lists!KeyOf(ctl', shown', page'))
  BY <1>1, <1>2
<1> QED
  BY <1>3, <1>4, RenderKeeps

LEMMA DebouncedKeeps ==
  ASSUME ScreensInv, Lists!DebouncedValue
  PROVE  ScreensInv'
<1>1. /\ UNCHANGED <<screen, sRows, patched, changes, ctl>> /\ page' = Lists!Reset(page)
      /\ Lists!Render(ctl, shown', {page, page'})
  BY DEF Lists!DebouncedValue
<1>2. ctl' = [c \in Lists!Controls |-> ctl'[c]] /\ Lists!Render(ctl', shown', {page, page'})
  BY <1>1 DEF ScreensInv, ScreenShape
<1> QED
  BY <1>1, <1>2, ResetKeeps

LEMMA PickedKeeps ==
  ASSUME ScreensInv, NEW c, NEW v, Lists!Picked(c, v)
  PROVE  ScreensInv'
<1>1. /\ UNCHANGED <<screen, sRows, patched, changes, shown>> /\ page' = Lists!Reset(page)
      /\ ctl' = [ctl EXCEPT ![c] = v] /\ Lists!Render(ctl', shown, {page, page'})
  BY DEF Lists!Picked
<1>2. ctl' = [a \in Lists!Controls |-> ctl'[a]] /\ Lists!Render(ctl', shown', {page, page'})
  BY <1>1 DEF ScreensInv, ScreenShape
<1> QED
  BY <1>1, <1>2, ResetKeeps

LEMMA GoToKeeps ==
  ASSUME ScreensInv, NEW p \in Nat \ {0}, Lists!GoTo(p)
  PROVE  ScreensInv'
<1>1. /\ UNCHANGED <<screen, sRows, patched, changes, ctl, shown>> /\ page' = p
      /\ p \in 1..Lists!Entry.pages /\ Lists!Render(ctl, shown, {p})
  BY DEF Lists!GoTo
<1>2. /\ ctl' = [a \in Lists!Controls |-> ctl'[a]] /\ Lists!Render(ctl', shown', {p})
      /\ {p} \subseteq Nat \ {0} /\ page' \in {p}
  BY <1>1 DEF ScreensInv, ScreenShape
<1>3. ASSUME screen = "projects", changes = 0
      PROVE  page' <= Lists!LastPage(Lists!KeyOf(ctl', shown', page'))
  <2> DEFINE q == Lists!KeyOf(ctl, shown, p)
  <2>1. Lists!Entry.pages \in Nat /\ Lists!Entry.pages <= Lists!LastPage(Lists!Key)
    BY <1>3, CachedPages DEF ScreensInv, PagesExist, PagesKnown, Lists!Entry
  <2>2. Lists!LastPage(Lists!Key) = Lists!LastPage(q)
    <3>1. /\ DOMAIN q = Asks /\ DOMAIN Lists!Key = Asks
          /\ \A a \in Asks : a # "page" => q[a] = Lists!Key[a]
      BY KeyNames, SightKeys DEF ScreensInv, ScreenShape
    <3> HIDE DEF q
    <3>2. DOMAIN q = DOMAIN Lists!Key /\ \A a \in DOMAIN q \cap Lists!Fields : q[a] = Lists!Key[a]
      BY <3>1 DEF Lists!Fields
    <3> QED
      BY <3>2, SamePages
  <2>3. Lists!LastPage(q) \in Nat \ {0}
    BY PagesCounted DEF ScreensInv
  <2>4. p <= Lists!LastPage(q)
    BY <1>1, <2>1, <2>2, <2>3
  <2> QED
    BY <1>1, <2>4
<1> QED
  BY <1>1, <1>2, <1>3, RenderKeeps

LEMMA RetryKeeps ==
  ASSUME ScreensInv, Lists!Retry
  PROVE  ScreensInv'
<1>1. /\ UNCHANGED <<screen, ctl, shown, page, cache, sRows, patched, changes>>
      /\ fetch' = Lists!Fetched({Lists!Sent(ctl, shown, page)})
  BY DEF Lists!Retry
<1>2. /\ RequestFits(Lists!Sent(ctl, shown, page))
      /\ PagesKnown(Lists!Sent(ctl, shown, page).key, Lists!Sent(ctl, shown, page).data)
  BY SentFits, CachedPages DEF ScreensInv, ScreenShape
<1>3. \A f \in fetch' : f \in fetch \/ f = Lists!Sent(ctl, shown, page)
  BY <1>1 DEF Lists!Fetched
<1>4. ctl' = [c \in Lists!Controls |-> ctl'[c]] /\ Lists!Key' = Lists!Key
  BY <1>1, SightKeys DEF ScreensInv, ScreenShape
<1> QED
  BY <1>1, <1>2, <1>3, <1>4, RequestsChange

-----------------------------------------------------------------------------
(* A pushed change of a row is remembered, and any other ends what is known of
   the pages of the projects. *)
LEMMA RowPatched ==
  ASSUME ScreensInv, NEW i, UNCHANGED screen, patched' = patched \cup {i},
         NEW k, NEW e, AnswerFits(k, e), NEW g, g = Lists!Patch(i, e)
  PROVE  AnswerFits(k, g)'
<1>1. PICK L : L = [j \in DOMAIN e.list |-> IF j = i THEN [e.list[j] EXCEPT !.filter = sRows'[i].filter]
                                                       ELSE e.list[j]]
  OBVIOUS
<1>2. /\ e = [st |-> e.st, list |-> e.list, order |-> e.order, pages |-> e.pages]
      /\ g = [e EXCEPT !.list = L]
  BY <1>1 DEF Lists!Patch, AnswerFits
<1>3. g = [st |-> e.st, list |-> L, order |-> e.order, pages |-> e.pages]
  BY <1>2
<1>4. /\ g = [st |-> g.st, list |-> g.list, order |-> g.order, pages |-> g.pages]
      /\ g.st = e.st /\ g.list = L /\ g.order = e.order /\ DOMAIN L = DOMAIN e.list
  BY <1>1, <1>3
<1>5. /\ Asks' = Asks /\ Lists!Fields' = Lists!Fields /\ Lists!OrderOf(k)' = Lists!OrderOf(k)
      /\ \A j, r : RowPasses(k, j, r) => RowPasses(k, j, r)'
  BY FitsOn DEF RowPasses, Asks, Lists!Fields, Lists!OrderOf
<1>6. ASSUME NEW j \in DOMAIN e.list
      PROVE  RowPasses(k, j, L[j])'
  <2>1. RowPasses(k, j, e.list[j])
    BY DEF AnswerFits
  <2>2. CASE j = i
    <3>1. PICK r, x : r = e.list[j] /\ L[j] = [r EXCEPT !.filter = x]
      BY <1>1, <2>2
    <3>2. DOMAIN r = Lists!Fields /\ "filter" \in Lists!Fields
      BY <2>1, <3>1 DEF RowPasses, Lists!Fields
    <3>3. DOMAIN L[j] = Lists!Fields /\ \A c \in Lists!Fields : c # "filter" => L[j][c] = r[c]
      BY <3>1, <3>2
    <3>4. i \in patched'
      OBVIOUS
    <3> QED
      BY <1>5, <2>1, <2>2, <3>1, <3>3, <3>4 DEF RowPasses
  <2>3. CASE j # i
    <3>1. L[j] = e.list[j]
      BY <1>1, <2>3
    <3> QED
      BY <1>5, <2>1, <3>1
  <2> QED
    BY <2>2, <2>3
<1>7. \A j \in DOMAIN g.list : RowPasses(k, j, g.list[j])'
  BY <1>4, <1>6
<1> QED
  BY <1>4, <1>5, <1>7 DEF AnswerFits

LEMMA RowChangesKeeps ==
  ASSUME ScreensInv, NEW i \in DOMAIN sRows, Lists!RowChanges(i)
  PROVE  ScreensInv'
<1>1. /\ UNCHANGED <<screen, ctl, shown, page>> /\ changes' = changes + 1
      /\ sRows' \in {[sRows EXCEPT ![i] = Lists!Gone]}
                    \cup {[sRows EXCEPT ![i]["filter"] = v] : v \in {"x", "y"}}
      /\ IF screen = "incidents"
         THEN /\ cache' = [k \in DOMAIN cache |-> Lists!Patch(i, cache[k])]
              /\ patched' = patched \cup {i} /\ UNCHANGED fetch
         ELSE /\ fetch' \in {fetch, Lists!Fetched({Lists!Sent(ctl, shown, page)})}
              /\ UNCHANGED <<cache, patched>>
  BY DEF Lists!RowChanges
<1>2. DOMAIN sRows' = DOMAIN sRows /\ \A j \in DOMAIN sRows : DOMAIN sRows'[j] = Lists!Fields
  <2>1. \A j \in DOMAIN sRows : DOMAIN sRows[j] = Lists!Fields
    BY DEF ScreensInv, ScreenShape
  <2>2. CASE sRows' = [sRows EXCEPT ![i] = Lists!Gone]
    BY <2>1, <2>2 DEF Lists!Gone
  <2>3. ASSUME NEW v, sRows' = [sRows EXCEPT ![i]["filter"] = v]
        PROVE  DOMAIN sRows' = DOMAIN sRows /\ \A j \in DOMAIN sRows : DOMAIN sRows'[j] = Lists!Fields
    <3>1. sRows' = [sRows EXCEPT ![i] = [sRows[i] EXCEPT !["filter"] = v]]
      BY <2>3
    <3> QED
      BY <2>1, <3>1
  <2> QED
    BY <1>1, <2>2, <2>3
<1>3. changes' \in Nat /\ changes' # 0 /\ ctl' = [c \in Lists!Controls |-> ctl'[c]] /\ page' \in Nat \ {0}
  BY <1>1 DEF ScreensInv, ScreenShape
<1>4. PagesExist'
  BY <1>3 DEF PagesExist
<1>5. CASE screen = "incidents"
  <2>1. \A k \in DOMAIN cache' : KeyShape(k) /\ AnswerFits(k, cache[k])'
    <3> SUFFICES ASSUME NEW k \in DOMAIN cache' PROVE KeyShape(k) /\ AnswerFits(k, cache[k])'
      OBVIOUS
    <3>1. PICK g : g = cache'[k]
      OBVIOUS
    <3>2. g = Lists!Patch(i, cache[k]) /\ KeyShape(k) /\ AnswerFits(k, cache[k])
      BY <1>1, <1>5, <3>1 DEF ScreensInv, ScreenShape
    <3>3. AnswerFits(k, g)'
      BY <1>1, <1>5, <3>2, RowPatched
    <3> QED
      BY <3>1, <3>2, <3>3 DEF AnswerFits
  <2>2. ScreenShape'
    <3>1. fetch' = fetch /\ patched \subseteq patched'
      BY <1>1, <1>5
    <3>2. \A k \in DOMAIN cache' : KeyShape(k) /\ (AnswerFits(k, cache'[k]) \/ AnswerFits(k, cache[k])')
      BY <2>1
    <3> QED
      BY <1>1, <1>2, <1>3, <3>1, <3>2, ScreenShapeStep DEF ScreensInv, ScreenShape
  <2>3. NeverBeyond'
    BY <1>1, <1>5 DEF NeverBeyond
  <2> QED
    BY <1>4, <2>2, <2>3 DEF ScreensInv
<1>6. CASE screen # "incidents"
  <2>1. \A f \in fetch' : f \in fetch \/ f = Lists!Sent(ctl, shown, page)
    BY <1>1, <1>6 DEF Lists!Fetched
  <2>2. RequestFits(Lists!Sent(ctl, shown, page))
    BY SentFits DEF ScreensInv, ScreenShape
  <2>3. ScreenShape'
    BY <1>1, <1>2, <1>3, <1>6, <2>1, <2>2, ScreenShapeStep DEF ScreensInv, ScreenShape
  <2>4. Lists!Entry' = Lists!Entry
    BY <1>1, <1>6, SightKeys DEF Lists!Entry, Lists!Cached, Lists!NoAnswer
  <2>5. NeverBeyond'
    BY <1>1, <2>4 DEF ScreensInv, NeverBeyond
  <2> QED
    BY <1>4, <2>3, <2>5 DEF ScreensInv
<1> QED
  BY <1>5, <1>6

(* An answer lands under the key it was asked with; beyond the last page, the
   screens that guard their page leave it in the same step. *)
LEMMA RequestLandsKeeps ==
  ASSUME ScreensInv, NEW f \in fetch, Lists!RequestLands(f)
  PROVE  ScreensInv'
<1> DEFINE k == f.key
           e == IF f.data.st = "ok" THEN f.data ELSE [Lists!Cached(k) EXCEPT !.st = f.data.st]
           top == Lists!Sent(ctl, shown, 1)
<1>1. /\ UNCHANGED <<screen, ctl, shown, sRows, patched, changes>>
      /\ cache' = [q \in DOMAIN cache \cup {k} |-> IF q = k THEN e ELSE cache[q]]
      /\ IF k = Lists!Key /\ Lists!RangeReset(e) THEN page' = 1 ELSE page' = page
      /\ \A g \in fetch' : g \in fetch \/ g = top
  BY DEF Lists!RequestLands
<1>2. /\ KeyShape(k) /\ AnswerFits(k, f.data) /\ AnswerFits(k, Lists!Cached(k)) /\ RequestFits(top)
  BY SentFits, NothingFits, CachedPages DEF ScreensInv, ScreenShape, RequestFits
<1>3. /\ AnswerFits(k, e) /\ e.st = f.data.st
      /\ e.pages = IF f.data.st = "ok" THEN f.data.pages ELSE Lists!Cached(k).pages
  <2>1. CASE f.data.st = "ok"
    BY <1>2, <2>1
  <2>2. CASE f.data.st # "ok"
    <3> DEFINE c == Lists!Cached(k)
    <3>1. c = [st |-> c.st, list |-> c.list, order |-> c.order, pages |-> c.pages]
      BY <1>2 DEF AnswerFits
    <3>2. e = [c EXCEPT !.st = f.data.st]
      BY <2>2
    <3> HIDE DEF c, e
    <3>3. e = [st |-> f.data.st, list |-> c.list, order |-> c.order, pages |-> c.pages]
      BY <3>1, <3>2
    <3>4. /\ e = [st |-> e.st, list |-> e.list, order |-> e.order, pages |-> e.pages]
          /\ e.st = f.data.st /\ e.list = c.list /\ e.order = c.order /\ e.pages = c.pages
      BY <3>3
    <3>5. AnswerFits(k, c)
      BY <1>2 DEF c
    <3>6. AnswerFits(k, e)
      BY <1>2, <3>4, <3>5 DEF AnswerFits
    <3> QED
      BY <2>2, <3>4, <3>6 DEF c
  <2> QED
    BY <2>1, <2>2
<1> HIDE DEF k, e, top
<1>4. page' \in Nat \ {0} /\ ctl' = [c \in Lists!Controls |-> ctl'[c]] /\ changes' \in Nat
  BY <1>1 DEF ScreensInv, ScreenShape
<1>5. \A q \in DOMAIN cache' : KeyShape(q) /\ AnswerFits(q, cache'[q])
  BY <1>1, <1>2, <1>3 DEF ScreensInv, ScreenShape
<1>6. ScreenShape'
  BY <1>1, <1>2, <1>4, <1>5, ScreenShapeStep DEF ScreensInv, ScreenShape
<1>7. Lists!Entry' = IF Lists!Key' \in DOMAIN cache' THEN cache'[Lists!Key'] ELSE Lists!NoAnswer
  BY DEF Lists!Entry, Lists!Cached, Lists!NoAnswer
<1>8. NeverBeyond'
  <2> SUFFICES ASSUME screen \in {"jobs", "alerts"}, Lists!Key' \in DOMAIN cache',
                      cache'[Lists!Key'].st = "missing", cache'[Lists!Key'].list = <<>>
               PROVE  FALSE
    BY <1>1, <1>7, NothingFits DEF NeverBeyond
  <2>1. Lists!Key'["page"] > 1
    <3>1. AnswerFits(Lists!Key', cache'[Lists!Key'])
      BY <1>5
    <3> QED
      BY <3>1 DEF AnswerFits
  <2>2. Lists!Key'["page"] = page'
    BY <1>1, KeyNames, SightKeys, ScreenInputs DEF ScreensInv, ScreenShape
  <2>3. CASE k = Lists!Key /\ Lists!RangeReset(e)
    BY <1>1, <2>1, <2>2, <2>3
  <2>4. CASE k = Lists!Key /\ ~Lists!RangeReset(e)
    <3>1. Lists!Key' = k
      BY <1>1, <2>4, SightKeys
    <3>2. e.list = <<>> /\ page > 1
      BY <1>1, <2>1, <2>2, <2>4, <3>1
    <3> QED
      BY <2>4, <3>2 DEF Lists!RangeReset
  <2>5. CASE k # Lists!Key
    <3>1. Lists!Key' = Lists!Key /\ cache'[Lists!Key] = cache[Lists!Key] /\ Lists!Key \in DOMAIN cache
      BY <1>1, <2>5, SightKeys
    <3> QED
      BY <3>1 DEF ScreensInv, NeverBeyond, Lists!Entry, Lists!Cached
  <2> QED
    BY <2>3, <2>4, <2>5
<1>9. PagesExist'
  <2> SUFFICES ASSUME screen = "projects", changes = 0 PROVE PagesExist'
    BY <1>1 DEF PagesExist
  <2>1. page' = page /\ Lists!Key' = Lists!Key
    BY <1>1, SightKeys DEF Lists!RangeReset
  <2>2. PagesKnown(k, f.data) /\ PagesKnown(k, Lists!Cached(k))
    BY CachedPages DEF ScreensInv, PagesExist, k
  <2>3. PagesKnown(k, e)
    BY <1>3, <2>2 DEF PagesKnown
  <2>4. \A q \in DOMAIN cache' : PagesKnown(q, cache'[q])
    BY <1>1, <2>3 DEF ScreensInv, PagesExist
  <2>5. \A g \in fetch' : PagesKnown(g.key, g.data)
    <3>1. PagesKnown(top.key, top.data)
      BY SentFits, CachedPages DEF ScreensInv, ScreenShape, top
    <3> QED
      BY <1>1, <3>1 DEF ScreensInv, PagesExist
  <2> QED
    BY <2>1, <2>4, <2>5, <1>1, PagesStay DEF ScreensInv, PagesExist
<1> QED
  BY <1>6, <1>8, <1>9 DEF ScreensInv

LEMMA ScreenSteps ==
  ASSUME Lists!SNext
  PROVE  \/ Lists!DebouncedValue \/ Lists!Retry \/ \E v : Lists!Typed(v)
         \/ \E c, v : Lists!Picked(c, v)
         \/ \E p \in 1..Lists!Cardinality(DOMAIN Stock) : Lists!GoTo(p)
         \/ \E i \in DOMAIN sRows : Lists!RowChanges(i)
         \/ \E f \in fetch : Lists!RequestServed(f) \/ Lists!RequestFailed(f)
         \/ \E f \in fetch : Lists!RequestLands(f)
BY Zenon DEF Lists!SNext

LEMMA ScreensKept ==
  ASSUME ScreensInv, [DashboardNext]_dashboardVars
  PROVE  ScreensInv'
<1>1. CASE UNCHANGED screensVars
  <2>1. UNCHANGED <<screen, ctl, shown, page, cache, fetch, sRows, patched, changes>>
    BY <1>1 DEF screensVars
  <2>2. Lists!Key' = Lists!Key /\ ctl' = [c \in Lists!Controls |-> ctl'[c]]
    BY <2>1, SightKeys DEF ScreensInv, ScreenShape
  <2> QED
    BY <2>1, <2>2, RequestsChange
<1>2. ASSUME NEW p \in 1..Lists!Cardinality(DOMAIN Stock) PROVE p \in Nat \ {0}
  <2>1. Cardinality(DOMAIN Stock) \in Nat
    BY ScreenAssumption, FS_CardinalityType
  <2>2. Lists!Cardinality(DOMAIN Stock) = Cardinality(DOMAIN Stock)
    BY DEF Lists!Cardinality, Cardinality
  <2> QED
    BY <2>1, <2>2
<1>3. CASE Lists!SNext
  BY <1>2, <1>3, ScreenSteps, DebouncedKeeps, RetryKeeps, TypedKeeps, PickedKeeps, GoToKeeps, RowChangesKeeps,
     RequestServedKeeps, RequestLandsKeeps
<1> QED
  BY <1>1, <1>3 DEF DashboardNext, FormsStep, ScreensStep, ActionsStep, IncidentStep, ReviewStep, ChartsStep,
     BellStep, dashboardVars

(* The invariant of the list screens. *)
THEOREM ScreensInvariance == DashboardSpec => []ScreensInv
BY ScreensStart, ScreensKept, PTL DEF DashboardSpec

(* A list shows what its controls ask for, in the order they ask for: no answer *)
(* is shown under a key with other inputs than it was asked with.               *)
THEOREM ListsMatch == DashboardSpec => []ShownMatchesQuery
<1>1. ScreensInv => ShownMatchesQuery
  <2> SUFFICES ASSUME ScreensInv, NEW i \in Lists!Displayed
               PROVE  /\ \A c \in Lists!Offered[screen] \cap Lists!Fields :
                           Lists!Asked(c) \in {"all", Lists!Entry.list[i][c]} \/ (c = "filter" /\ i \in patched)
                      /\ "order" \in Lists!Offered[screen] => Lists!Entry.order = ctl["order"]
    BY DEF ShownMatchesQuery, Lists!ShownMatchesQuery
  <2>1. /\ i \in DOMAIN Lists!Entry.list
        /\ \A c \in Lists!PageFilters(screen) : Lists!Asked(c) \in {"all", Lists!Entry.list[i][c]}
    BY DEF Lists!Displayed
  <2>2. AnswerFits(Lists!Key, Lists!Entry) /\ screen \in ScreenNames
    BY CachedPages, NothingFits DEF ScreensInv, ScreenShape, Lists!Entry
  <2>3. \A c \in Asks : c # "page" => Lists!Key[c] = Lists!Asked(c)
    BY <2>2, KeyNames, SightKeys DEF Lists!Asked
  <2>4. ASSUME NEW c \in Lists!Offered[screen] \cap Lists!Fields
        PROVE  Lists!Asked(c) \in {"all", Lists!Entry.list[i][c]} \/ (c = "filter" /\ i \in patched)
    <3>1. CASE c \in Lists!PageFilters(screen)
      BY <2>1, <3>1
    <3>2. CASE c \in Asks
      <4>1. c # "page"
        BY DEF Lists!Fields
      <4> QED
        BY <2>1, <2>2, <2>3, <3>2, <4>1 DEF AnswerFits, RowPasses
    <3> QED
      BY <2>2, <3>1, <3>2, ScreenInputs
  <2>5. ASSUME "order" \in Lists!Offered[screen] PROVE Lists!Entry.order = ctl["order"]
    <3>1. "order" \in Asks /\ DOMAIN Lists!Key = Asks /\ DOMAIN Lists!Entry.list # {}
      BY <2>1, <2>2, <2>5, ScreenInputs, KeyNames, SightKeys
    <3> QED
      BY <2>2, <2>3, <3>1 DEF AnswerFits, Lists!OrderOf, Lists!Asked
  <2> QED
    BY <2>4, <2>5
<1> QED
  BY <1>1, ScreensInvariance, PTL

(* The jobs and the alert rules leave a page beyond the last, and the projects *)
(* come to one by removals only.                                               *)
THEOREM PagesRecover == DashboardSpec => []OutOfRangeRecovers
<1>1. ScreensInv => OutOfRangeRecovers
  <2> SUFFICES ASSUME ScreensInv, Lists!Entry.st = "missing", Lists!Entry.list = <<>>,
                      screen \notin Lists!Unguarded, screen = "projects" => ~(changes > 0)
               PROVE  FALSE
    BY DEF OutOfRangeRecovers, Lists!OutOfRangeRecovers
  <2>1. screen \in ScreenNames /\ AnswerFits(Lists!Key, Lists!Entry)
    BY CachedPages, NothingFits DEF ScreensInv, ScreenShape, Lists!Entry
  <2>2. "page" \in Asks /\ Lists!Key["page"] = page
    BY <2>1, KeyNames, SightKeys DEF AnswerFits
  <2>3. screen = "projects"
    <3>1. screen \notin {"runbooks", "team", "jobs", "alerts"}
      BY <2>1, <2>2, ScreenInputs DEF ScreensInv, NeverBeyond
    <3> QED
      BY <2>1, <3>1, ScreenAssumption DEF Lists!Unguarded
  <2>4. changes = 0 /\ page \in Nat /\ Lists!LastPage(Lists!Key) \in Nat
    BY <2>3, PagesCounted DEF ScreensInv, ScreenShape
  <2>5. PagesKnown(Lists!Key, Lists!Entry) /\ page <= Lists!LastPage(Lists!Key)
    BY <2>3, <2>4, CachedPages DEF ScreensInv, PagesExist, Lists!Entry
  <2> QED
    BY <2>2, <2>4, <2>5 DEF PagesKnown
<1> QED
  BY <1>1, ScreensInvariance, PTL
=============================================================================
