------------------------------ MODULE Dashboard ------------------------------
(***************************************************************************)
(* The dialogs, screens, row actions, incident page, postmortem editor,    *)
(* charts and notification center of the browser, side by side.  Each      *)
(* keeps its own requests and caches, which no action of another one reads *)
(* or writes; people use them in any order, so their steps interleave.     *)
(***************************************************************************)
EXTENDS Naturals, Sequences, FiniteSets

CONSTANTS
  DialogNames,                   \* Forms
  ScreenNames, Stock, PageSize,  \* Screens
  ListNames, ListRows, NoRow,    \* RowActions
  Members, NoOne, Me, Manages, ActionKinds, PageQueries,   \* IncidentPage
  TextFields, Summary, Items,    \* Postmortem
  Figures, Subjects, Batches, Ranges,            \* Analytics
  Filters,                       \* NotificationCenter
  MaxTyped, MaxSaves, MaxOpened, MaxPicks, MaxChanges, MaxActs, MaxCommits, MaxSends,
  MaxBatches, MaxLooks, MaxCreated, MaxClicks, MaxElsewhere, MaxOthers, MaxFaults   \* bounds

ASSUME BoundAssumption == MaxTyped \in Nat
(* what the parts' dialogs, queries and filters may be *)
ASSUME DialogAssumption ==
  DialogNames \subseteq {"policy", "channel", "alert", "runbook", "project", "job", "invite",
                         "team", "expectation", "settings", "key"}
(* what the screens are, and the rows of their lists: finitely many, with a value
   for each filter *)
ASSUME ScreenAssumption ==
  /\ ScreenNames \subseteq {"incidents", "executions", "jobs", "alerts", "notifications", "runbooks",
                            "projects", "policies", "channels", "sheet", "team"}
  /\ PageSize \in Nat \ {0}
  /\ IsFiniteSet(DOMAIN Stock)
  /\ \A i \in DOMAIN Stock : DOMAIN Stock[i] = {"search", "filter", "project", "health"}
ASSUME PageAssumption == PageQueries \subseteq {"incident", "notes", "events"}
ASSUME BellAssumption == Filters \subseteq {"all", "unread", "read"}

VARIABLES
  form, srv, rows, projects, at, val, filled, saves, opening, stored, intent, excuse, ended,
  typed, sent, others, faults,
  screen, ctl, shown, page, cache, fetch, sRows, patched, picks, changes, sFaults,
  list, server, cached, local, aFetch, ops, busy, dialog, unseen, overtaken, acts, aOthers,
  aFaults,
  pSrv, commits, noted, pushes, detail, row, notes, events, req, mut, pDialog, raced, phantom,
  lost, failed, pActs, pFaults,
  pm, item, copy, mReq, mPushes, draft, dirty, save, step, adding, mForm, edit, mTyped, last,
  kept, discarded, asked, reviewed, unsynced, sends, mOthers, mFaults,
  ingested, arriving, timer, view, nCache, nFetch, missed, batches, looks, nFaults,
  created, read, bArriving, updates, count, preview, loaded, lists, open, bReq, clicks, done,
  fresh, outrun, elsewhere, bFaults

Dialogs == INSTANCE Forms WITH Dialogs <- DialogNames
Lists   == INSTANCE Screens WITH Names <- ScreenNames, rows <- sRows, faults <- sFaults
Actions == INSTANCE RowActions WITH
  Names <- ListNames, Rows <- ListRows, fetch <- aFetch, others <- aOthers, faults <- aFaults
Page    == INSTANCE IncidentPage WITH
  Kinds <- ActionKinds, Queries <- PageQueries,
  srv <- pSrv, dialog <- pDialog, acts <- pActs, faults <- pFaults
Review  == INSTANCE Postmortem WITH
  Fields <- TextFields,
  req <- mReq, pushes <- mPushes, form <- mForm, typed <- mTyped, others <- mOthers,
  faults <- mFaults
Charts  == INSTANCE Analytics WITH cache <- nCache, fetch <- nFetch, faults <- nFaults
Bell    == INSTANCE NotificationCenter WITH arriving <- bArriving, req <- bReq, faults <- bFaults

formsVars == <<form, srv, rows, projects, at, val, filled, saves, opening, stored, intent,
               excuse, ended, typed, sent, others, faults>>
screensVars == <<screen, ctl, shown, page, cache, fetch, sRows, patched, picks, changes,
                 sFaults>>
actionsVars == <<list, server, cached, local, aFetch, ops, busy, dialog, unseen, overtaken,
                 acts, aOthers, aFaults>>
incidentVars == <<pSrv, commits, noted, pushes, detail, row, notes, events, req, mut, pDialog,
                  raced, phantom, lost, failed, pActs, pFaults>>
reviewVars == <<pm, item, copy, mReq, mPushes, draft, dirty, save, step, adding, mForm, edit,
                mTyped, last, kept, discarded, asked, reviewed, unsynced, sends, mOthers,
                mFaults>>
chartsVars == <<ingested, arriving, timer, view, nCache, nFetch, missed, batches, looks, nFaults>>
bellVars == <<created, read, bArriving, updates, count, preview, loaded, lists, open, bReq, clicks,
              done, fresh, outrun, elsewhere, bFaults>>
dashboardVars ==
  <<formsVars, screensVars, actionsVars, incidentVars, reviewVars, chartsVars, bellVars>>

DashboardInit ==
  /\ Dialogs!FInit /\ Lists!SInit /\ Actions!AInit /\ Page!Init /\ Review!Init
  /\ Charts!NInit /\ Bell!NInit

FormsStep ==
  /\ Dialogs!FNext
  /\ UNCHANGED <<screensVars, actionsVars, incidentVars, reviewVars, chartsVars, bellVars>>
ScreensStep ==
  /\ Lists!SNext
  /\ UNCHANGED <<formsVars, actionsVars, incidentVars, reviewVars, chartsVars, bellVars>>
ActionsStep ==
  /\ Actions!ANext
  /\ UNCHANGED <<formsVars, screensVars, incidentVars, reviewVars, chartsVars, bellVars>>
IncidentStep ==
  /\ Page!Next
  /\ UNCHANGED <<formsVars, screensVars, actionsVars, reviewVars, chartsVars, bellVars>>
ReviewStep ==
  /\ Review!Next
  /\ UNCHANGED <<formsVars, screensVars, actionsVars, incidentVars, chartsVars, bellVars>>
ChartsStep ==
  /\ Charts!NNext
  /\ UNCHANGED <<formsVars, screensVars, actionsVars, incidentVars, reviewVars, bellVars>>
BellStep ==
  /\ Bell!NNext
  /\ UNCHANGED <<formsVars, screensVars, actionsVars, incidentVars, reviewVars, chartsVars>>

DashboardNext == \/ FormsStep \/ ScreensStep \/ ActionsStep \/ IncidentStep \/ ReviewStep
                 \/ ChartsStep \/ BellStep
DashboardSpec == DashboardInit /\ [][DashboardNext]_dashboardVars

-----------------------------------------------------------------------------
(* A dialog shows and sends what was entered into it. *)
TypedIsStored == Dialogs!TypedIsStored
(* What a dialog sends fits together, and goes to the row it was filled from. *)
SubmissionsFit == Dialogs!SubmissionsFit
(* A list shows what its controls ask for. *)
ShownMatchesQuery == Lists!ShownMatchesQuery
(* A guarded list does not stay on a page beyond the last. *)
OutOfRangeRecovers == Lists!OutOfRangeRecovers
(* Rows agree with the server after overlapping actions. *)
RowsConverge == Actions!RowsConverge
(* The page of an incident agrees with the server when all has settled. *)
DetailFollowsServer == Page!DetailFollowsServer
(* What is typed into a postmortem is not lost, and is there when reviewed. *)
DraftIsKept == Review!DraftIsKept
(* The figures in sight count every batch. *)
FiguresConverge == Charts!FiguresConverge
(* The badge, the preview and the lists agree with the server after an update
   that was the last thing to touch them and outran no answer. *)
UpdatesSynchronise == Bell!UpdatesSynchronise
=============================================================================
