------------------------------ MODULE Screens ------------------------------
(***************************************************************************)
(* The list screens of the dashboard (frontend/app/(dashboard)/*/page.tsx, *)
(* the executions sheet and a job's history): search and filter controls,  *)
(* a debounced search, a page number, and one cached query whose key is    *)
(* meant to name every input of its request.  A screen differs from the    *)
(* others by the inputs in its key, the filters it applies to the page     *)
(* itself, the effects that reset its page, and what it leaves to click    *)
(* when a request fails.  A row has a value for each filter; the server    *)
(* answers one page of the matching rows, and 404 beyond the last page.    *)
(* An answer holds the rows by their ids, and the order it has them in.    *)
(***************************************************************************)
EXTENDS Naturals, FiniteSets

CONSTANTS
  Names,        \* the screens looked at
  Stock,        \* the rows there are at first: a function of ids to rows
  PageSize,
  MaxPicks,     \* bound: inputs of the person in front of the screen
  MaxChanges,   \* bound: changes of rows on the server
  MaxFaults     \* bound: failed requests

VARIABLES
  screen,
  ctl,          \* what each control shows
  shown,        \* useDebounce(search, 500)
  page,
  cache,        \* the answers in the query cache, by key
  fetch,        \* requests under way
  rows,         \* the rows on the server
  patched,      \* ghost: rows that a push has changed in the cache
  picks, changes, faults

svars == <<screen, ctl, shown, page, cache, fetch, rows, patched, picks, changes, faults>>

Fields   == {"search", "filter", "project", "health"}
Controls == Fields \cup {"order"}
Gone     == [c \in Fields |-> "gone"]

-----------------------------------------------------------------------------
(* The inputs in the key of each screen's query, which are those of its
   request. "filter" is the screen's own select: a status, a severity, a
   trigger, a team, or the job that a sheet was opened for. *)
IncidentsQuery     == {"page", "search", "order", "filter", "project"}
ExecutionsQuery    == {"page", "search", "order", "filter", "project"}
JobsQuery          == {"page", "search", "order", "filter", "project"}
AlertsQuery        == {"page", "search", "order", "filter", "project"}
NotificationsQuery == {"page", "search", "order", "filter"}
RunbooksQuery      == {"search", "filter", "project"}
ProjectsQuery      == {"page", "search", "order", "filter"}
PoliciesQuery      == {"page", "search", "order"}
ChannelsQuery      == {"page", "search", "order"}
SheetQuery         == {"page", "filter"}
TeamQuery          == {"filter"}
RequestInputs == [incidents |-> IncidentsQuery, executions |-> ExecutionsQuery, jobs |-> JobsQuery,
  alerts |-> AlertsQuery, notifications |-> NotificationsQuery, runbooks |-> RunbooksQuery,
  projects |-> ProjectsQuery, policies |-> PoliciesQuery, channels |-> ChannelsQuery,
  sheet |-> SheetQuery, team |-> TeamQuery]

(* A fault: the key of the alert rules does not name the order. *)
KeyInputsUnordered(s) == IF s = "alerts" THEN RequestInputs[s] \ {"order"} ELSE RequestInputs[s]
KeyInputs(s) == RequestInputs[s]

(* The filters that a screen applies to the page it was answered. *)
JobsFiltered     == {"health"}
ProjectsFiltered == {"health"}
TeamFiltered     == {"search"}
PageFilters(s) == CASE s = "jobs" -> JobsFiltered [] s = "projects" -> ProjectsFiltered
                    [] s = "team" -> TeamFiltered [] OTHER -> {}

(* The controls that each screen offers; "project" is the one all share. *)
IncidentsControls     == {"search", "filter", "order", "project"}
ExecutionsControls    == {"search", "filter", "order", "project"}
JobsControls          == {"search", "filter", "order", "project", "health"}
AlertsControls        == {"search", "filter", "order", "project"}
NotificationsControls == {"search", "filter", "order"}
RunbooksControls      == {"search", "filter", "project"}
ProjectsControls      == {"search", "filter", "order", "health"}
PoliciesControls      == {"search", "order"}
ChannelsControls      == {"search", "order"}
SheetControls         == {"filter"}
TeamControls          == {"search", "filter"}
Offered == [incidents |-> IncidentsControls, executions |-> ExecutionsControls, jobs |-> JobsControls,
  alerts |-> AlertsControls, notifications |-> NotificationsControls, runbooks |-> RunbooksControls,
  projects |-> ProjectsControls, policies |-> PoliciesControls, channels |-> ChannelsControls,
  sheet |-> SheetControls, team |-> TeamControls]
Options(s, c) == IF c = "order" THEN {"up", "down"}
                 ELSE IF c = "filter" /\ s \in {"sheet", "team"} THEN {"x", "y"}
                 ELSE {"all", "x"}
Undebounced == {"runbooks"}

-----------------------------------------------------------------------------
(* The server: the matching rows in order, cut into pages. *)
Matches(r, q) == /\ r # Gone
                 /\ \A c \in DOMAIN q \cap Fields : q[c] \in {"all", r[c]}
OrderOf(q) == IF "order" \in DOMAIN q THEN q["order"] ELSE "down"
Ids(q)     == {i \in DOMAIN rows : Matches(rows[i], q)}
LastPage(q) == IF Ids(q) = {} THEN 1 ELSE (Cardinality(Ids(q)) + PageSize - 1) \div PageSize
PageOf(i, q) ==   \* of the rows in order, the page that row i is on
  LET before == {j \in Ids(q) : IF OrderOf(q) = "up" THEN j < i ELSE j > i}
  IN  Cardinality(before) \div PageSize + 1

NoAnswer == [st |-> "none", list |-> <<>>, order |-> "down", pages |-> 1]
Listed(ids, q, n) == [st |-> "ok", list |-> [i \in ids |-> rows[i]], order |-> OrderOf(q), pages |-> n]
Answer(q) == IF "page" \notin DOMAIN q THEN Listed(Ids(q), q, 1)
             ELSE IF q["page"] > LastPage(q) THEN [NoAnswer EXCEPT !.st = "missing"]
             ELSE Listed({i \in Ids(q) : PageOf(i, q) = q["page"]}, q, LastPage(q))

(* Key and request for controls v, debounced text d and page p. *)
Inputs(ins, v, d, p) == [c \in ins |-> IF c = "page" THEN p ELSE IF c = "search" THEN d ELSE v[c]]
KeyOf(v, d, p)     == Inputs(KeyInputs(screen), v, d, p)
RequestOf(v, d, p) == Inputs(RequestInputs[screen], v, d, p)
Key == KeyOf(ctl, shown, page)

Sent(v, d, p) == [key |-> KeyOf(v, d, p), ask |-> RequestOf(v, d, p), st |-> "sent",
                  data |-> NoAnswer]
UnderWay(k) == \E f \in fetch : f.key = k

(* A render with these inputs: a key without an answer is asked for, one with
   an answer is asked for again when it has become stale. A failure without
   data is forgotten by the new request. *)
Fetched(asks) == fetch \cup {a \in asks : ~UnderWay(a.key)}
Render(v, d, ps) ==
  LET new == {a \in {Sent(v, d, p) : p \in ps} :
                a.key \in DOMAIN cache => cache[a.key].list = <<>> /\ cache[a.key].st # "ok"}
  IN  /\ \/ fetch' = Fetched(new)
         \/ screen # "notifications" /\ fetch' = Fetched({Sent(v, d, p) : p \in ps})
      /\ cache' = [k \in DOMAIN cache \ {a.key : a \in new} |-> cache[k]]

(* projects/page.tsx: an effect on its filters sets page 1, after a render with
   the old page. *)
ResetsPage == {"projects"}
Reset(p) == IF screen \in ResetsPage THEN 1 ELSE p

-----------------------------------------------------------------------------
(* The first render asks for the first page without filters. *)
SInit ==
  /\ screen \in Names
  /\ ctl = [c \in Controls |-> IF c = "order" THEN "down" ELSE IF "all" \in Options(screen, c) THEN "all" ELSE "x"]
  /\ shown = "all" /\ page = 1 /\ cache = <<>>
  /\ rows = Stock /\ patched = {}
  /\ fetch = {Sent(ctl, shown, page)}
  /\ picks = 0 /\ changes = 0 /\ faults = 0

(* A restricted admin screen has nothing left to click. *)
Cached(k) == IF k \in DOMAIN cache THEN cache[k] ELSE NoAnswer
Entry  == Cached(Key)
Failed == Entry.st \in {"missing", "error"}
PoliciesError == Failed /\ screen = "policies"
ChannelsError == Failed /\ screen = "channels"
Clickable == ~PoliciesError /\ ~ChannelsError

Pick == Clickable /\ picks < MaxPicks /\ picks' = picks + 1
Typed(v) ==
  /\ Pick /\ "search" \in Offered[screen] /\ v # ctl["search"]
  /\ ctl' = [ctl EXCEPT !["search"] = v]
  /\ IF screen \in Undebounced
     THEN shown' = v /\ Render(ctl', v, {page})
     ELSE UNCHANGED <<shown, cache, fetch>>
  /\ UNCHANGED <<screen, page, rows, patched, changes, faults>>

DebouncedValue ==
  /\ shown # ctl["search"] /\ shown' = ctl["search"]
  /\ page' = Reset(page) /\ Render(ctl, shown', {page, page'})
  /\ UNCHANGED <<screen, ctl, rows, patched, picks, changes, faults>>

Picked(c, v) ==
  /\ Pick /\ c \in Offered[screen] \ {"search"} /\ v \in Options(screen, c) \ {ctl[c]}
  /\ ctl' = [ctl EXCEPT ![c] = v]
  /\ page' = Reset(page) /\ Render(ctl', shown, {page, page'})
  /\ UNCHANGED <<screen, shown, rows, patched, changes, faults>>

(* PaginationControls: every page up to seven, and Prev and Next within the
   pages of the last answer. Screens that render them below their rows have
   none without rows, which their own filters may have removed. *)
Failing   == Failed /\ screen \notin {"alerts", "runbooks", "team"}
Asked(c)  == IF c = "search" THEN shown ELSE ctl[c]
Displayed == {i \in DOMAIN Entry.list : /\ ~Failing
                                       /\ \A c \in PageFilters(screen) : Asked(c) \in {"all", Entry.list[i][c]}}
BelowRows == {"executions", "jobs", "projects", "sheet"}
PaginationControls == Entry.pages > 1 /\ (screen \in BelowRows => Displayed # {})
GoTo(p) ==
  /\ Pick /\ PaginationControls /\ p \in 1..Entry.pages \ {page}
  /\ page' = p /\ Render(ctl, shown, {p})
  /\ UNCHANGED <<screen, ctl, shown, rows, patched, changes, faults>>

(* Retry, where a failure shows it *)
ExecutionsRetry == screen = "executions" /\ Failed
JobsRetry       == screen = "jobs" /\ Failed
ProjectsRetry   == screen = "projects" /\ Failed
Retry == /\ Pick /\ (ExecutionsRetry \/ JobsRetry \/ ProjectsRetry)
         /\ ~UnderWay(Key)
         /\ fetch' = Fetched({Sent(ctl, shown, page)})
         /\ UNCHANGED <<screen, ctl, shown, page, cache, rows, patched, changes, faults>>

-----------------------------------------------------------------------------
(* A row is edited or removed, here or elsewhere; if here or pushed, the query
   is invalidated and the answer in sight is asked for again. The push about an
   incident changes its status in every answer instead. *)
Patch(i, e) == [e EXCEPT !.list = [j \in DOMAIN @ |-> IF j = i THEN [@[j] EXCEPT !.filter = rows'[i].filter]
                                                       ELSE @[j]]]
RowChanges(i) ==
  /\ changes < MaxChanges /\ changes' = changes + 1
  /\ rows[i] # Gone
  /\ rows' \in {[rows EXCEPT ![i] = Gone]} \cup {[rows EXCEPT ![i]["filter"] = v] : v \in {"x", "y"}}
  /\ rows' # rows
  /\ IF screen = "incidents"
     THEN /\ rows'[i] # Gone
          /\ cache' = [k \in DOMAIN cache |-> Patch(i, cache[k])]
          /\ patched' = patched \cup {i} /\ UNCHANGED fetch
     ELSE /\ fetch' \in {fetch, Fetched({Sent(ctl, shown, page)})}
          /\ UNCHANGED <<cache, patched>>
  /\ UNCHANGED <<screen, ctl, shown, page, picks, faults>>

Replied(f, e) == [key |-> f.key, ask |-> f.ask, st |-> "read", data |-> e]
RequestServed(f) ==
  /\ f \in fetch /\ f.st = "sent"
  /\ fetch' = (fetch \ {f}) \cup {Replied(f, Answer(f.ask))}
  /\ UNCHANGED <<screen, ctl, shown, page, cache, rows, patched, picks, changes, faults>>
RequestFailed(f) ==
  /\ f \in fetch /\ f.st = "sent"
  /\ faults < MaxFaults /\ faults' = faults + 1
  /\ fetch' = (fetch \ {f}) \cup {Replied(f, [f.data EXCEPT !.st = "error"])}
  /\ UNCHANGED <<screen, ctl, shown, page, cache, rows, patched, picks, changes>>

(* A fault: the reset looks for an answer without rows, not for a failure. *)
RangeResetAnswered(e) == screen \in {"jobs", "alerts"} /\ e.st = "ok" /\ e.list = <<>> /\ page > 1

(* The reset of jobs/page.tsx and alerts/page.tsx once the query has settled
   without rows on a later page: an answer of 404 has none either. *)
RangeReset(e) == screen \in {"jobs", "alerts"} /\ e.list = <<>> /\ page > 1

(* An answer is cached under its key; a failure keeps the rows there were. *)
RequestLands(f) ==
  /\ f \in fetch /\ f.st = "read"
  /\ LET k   == f.key
         e   == IF f.data.st = "ok" THEN f.data ELSE [Cached(k) EXCEPT !.st = f.data.st]
         now == [q \in DOMAIN cache \cup {k} |-> IF q = k THEN e ELSE cache[q]]
         top == Sent(ctl, shown, 1)
     IN  /\ cache' = now
         /\ IF k = Key /\ RangeReset(e)
            THEN /\ page' = 1
                 /\ fetch' = (fetch \ {f}) \cup (IF top.key \in DOMAIN now \/ UnderWay(top.key) THEN {} ELSE {top})
            ELSE page' = page /\ fetch' = fetch \ {f}
  /\ UNCHANGED <<screen, ctl, shown, rows, patched, picks, changes, faults>>

SNext ==
  \/ DebouncedValue \/ Retry
  \/ \E v \in {"all", "x"} : Typed(v)
  \/ \E c \in Controls : \E v \in Options(screen, c) : Picked(c, v)
  \/ \E p \in 1..Cardinality(DOMAIN Stock) : GoTo(p)
  \/ \E i \in DOMAIN rows : RowChanges(i)
  \/ \E f \in fetch : RequestServed(f) \/ RequestFailed(f) \/ RequestLands(f)

SSpec == SInit /\ [][SNext]_svars

-----------------------------------------------------------------------------
(* Every row in sight passes every filter in sight, and the rows are in the
   order in sight, whichever answers came in which order: no answer is shown
   under controls it was not asked with. A pushed status is shown in lists
   that filter by another. *)
ShownMatchesQuery ==
  /\ \A i \in Displayed, c \in Offered[screen] \cap Fields :
       Asked(c) \in {"all", Entry.list[i][c]} \/ (c = "filter" /\ i \in patched)
  /\ Displayed # {} /\ "order" \in Offered[screen] => Entry.order = ctl["order"]

(* A screen with an effect for it does not stay on a page beyond the last one
   with nothing to show. The other screens do; on the projects screen only
   removals lead there. *)
Resting == fetch = {} /\ shown = ctl["search"]
Unguarded == {"incidents", "executions", "notifications", "policies", "channels", "sheet"}
OutOfRangeRecovers ==
  Resting /\ Entry.st = "missing" /\ Entry.list = <<>> =>
    screen \in Unguarded \/ (screen = "projects" /\ changes > 0)
=============================================================================
