-------------------------- MODULE NotificationCenter --------------------------
(***************************************************************************)
(* The in-app notifications of one user: the rows the server keeps, and    *)
(* what one browser tab caches of them - the badge's count, the preview of *)
(* the popover and the lists of the notifications page, one per filter.    *)
(* None of them is polled or grows stale: they change by the optimistic    *)
(* updates of two mutations and by the pushes notification.created and     *)
(* notification.updated.  The dispatch inserts with ignore_conflicts, so   *)
(* the pushed id is null and the browser makes one up.  A query that is    *)
(* invalidated drops its request under way for a new one only if it is in  *)
(* sight and has data already; otherwise the request goes on.  Sources:    *)
(* frontend/components/bjt/notifications/notifications-popover.tsx,        *)
(* frontend/app/(dashboard)/notifications/page.tsx, realtime-provider.tsx, *)
(* apps/notifications/views.py and services.py.                            *)
(***************************************************************************)
EXTENDS Naturals, FiniteSets

CONSTANTS
  Filters,     \* filters of the page: all, unread, read
  MaxCreated,  \* bound: notifications
  MaxClicks,   \* bound: mutations started in this tab
  MaxElsewhere,\* bound: notifications read in another tab
  MaxFaults    \* bound: failed requests and lost pushes

VARIABLES
  created,   \* the notifications 1 .. created exist on the server
  read,      \* those the server has as read
  arriving,  \* creations published and not yet here
  updates,   \* notification.updated messages on their way here
  count,     \* ["notifications-unread-count"]
  preview,   \* ["notifications-preview"]: rows
  loaded,    \* which of these two have data
  lists,     \* per filter, ["notifications", ..., filter]: cached, stale, rows
  open,      \* the filter shown by the page, or "closed"
  req,       \* per query, the request under way
  clicks,    \* mutations: what, from which surface, and what onError restores
  done,      \* number of mutations started
  fresh,     \* ghost: no event but an update has reached the caches since the last one
  outrun,    \* ghost: queries whose answer is from before an update that let it land
  elsewhere, faults

nvars == <<created, read, arriving, updates, count, preview, loaded, lists, open, req, clicks,
           done, fresh, outrun, elsewhere, faults>>
srvVars == <<created, read, arriving, updates>>

Queries == {"count", "preview"} \cup Filters
Row(n, live, isRead) == [n |-> n, live |-> live, read |-> isRead]
ServerRows(f) == {Row(n, FALSE, n \in read) :
                    n \in CASE f = "unread" -> (1 .. created) \ read
                            [] f = "read"   -> read
                            [] OTHER        -> 1 .. created}
Unread    == created - Cardinality(read)
NoRequest == [st |-> "none", rows |-> {}, count |-> 0]
Sent      == [NoRequest EXCEPT !.st = "sent"]
NoList    == [cached |-> FALSE, stale |-> FALSE, rows |-> {}]

(* the popover of the top bar asks for the count and the preview at once *)
NInit ==
  /\ created = 0 /\ read = {} /\ arriving = {} /\ updates = 0
  /\ count = 0 /\ preview = {} /\ loaded = {}
  /\ lists = [f \in Filters |-> NoList] /\ open = "closed"
  /\ req = [q \in Queries |-> IF q \in Filters THEN NoRequest ELSE Sent]
  /\ clicks = {} /\ done = 0 /\ fresh = TRUE /\ outrun = {}
  /\ elsewhere = 0 /\ faults = 0

Shown(f) == open = f
Cached(f) == lists[f].cached
InSight(q) == q \notin Filters \/ Shown(q)
HasData(q) == IF q \in Filters THEN Cached(q) ELSE q \in loaded
Loading(q) == req[q].st # "none"

-----------------------------------------------------------------------------
(* The server. *)
Created ==
  /\ created < MaxCreated /\ created' = created + 1
  /\ arriving' = arriving \cup {created + 1}
  /\ UNCHANGED <<read, updates, count, preview, loaded, lists, open, req, clicks, done, fresh,
                 outrun, elsewhere, faults>>

(* the read and read-all endpoints publish only when they change something *)
MarkRead(ns) ==
  /\ read' = read \cup ns
  /\ updates' = IF ns \subseteq read THEN updates ELSE updates + 1
ReadElsewhere(n) ==
  /\ elsewhere < MaxElsewhere /\ elsewhere' = elsewhere + 1
  /\ n \in (1 .. created) \ read /\ MarkRead({n})
  /\ UNCHANGED <<created, arriving, count, preview, loaded, lists, open, req, clicks, done, fresh,
                 outrun, faults>>

-----------------------------------------------------------------------------
(* The page: choosing a filter shows its list, fetched when there is none or
   when it was invalidated out of sight; a request for it under way is joined. *)
Choose(f) ==
  /\ ~Shown(f) /\ open' = f
  /\ req' = IF ~Loading(f) /\ (~Cached(f) \/ lists[f].stale) THEN [req EXCEPT ![f] = Sent] ELSE req
  /\ UNCHANGED <<srvVars, count, preview, loaded, lists, clicks, done, fresh, outrun, elsewhere,
                 faults>>
LeavePage ==
  /\ open # "closed" /\ open' = "closed"
  /\ UNCHANGED <<srvVars, count, preview, loaded, lists, req, clicks, done, fresh, outrun,
                 elsewhere, faults>>

(* cancelQueries on the three keys: the caches stay as they are, and an
   invalidated one stays invalidated *)
Cancelled == /\ req' = [q \in Queries |-> NoRequest]

ReadRow(w, rows) == {IF r.n = w.n /\ r.live = w.live THEN [r EXCEPT !.read = TRUE] ELSE r : r \in rows}
ReadRows(rows)   == {[r EXCEPT !.read = TRUE] : r \in rows}
Minus(c)         == IF c = 0 THEN 0 ELSE c - 1

(* setQueriesData: what is written into a cached list takes its invalidation back *)
Written(f, rows) == IF Cached(f) THEN [cached |-> TRUE, stale |-> FALSE, rows |-> rows] ELSE lists[f]

Started(what, r, from) ==
  /\ done < MaxClicks /\ done' = done + 1 /\ fresh' = FALSE
  /\ clicks' = clicks \cup {[k |-> done + 1, what |-> what, row |-> r, from |-> from, st |-> "sent",
                             count |-> count, preview |-> preview, had |-> loaded]}
  /\ Cancelled
  /\ loaded' = loaded \cup {"count"}
  /\ UNCHANGED <<srvVars, open, outrun, elsewhere, faults>>

(* a click on an unread row: the popover shows it read in the preview, the
   page in the preview and in every list; the router then leaves the page *)
ClickRow(from, r) ==
  /\ r \in (IF from = "page" THEN lists[open].rows ELSE preview) /\ ~r.read
  /\ Started("one", r, from)
  /\ count' = Minus(count)
  /\ preview' = ReadRow(r, preview)
  /\ lists' = IF from = "page" THEN [f \in Filters |-> Written(f, ReadRow(r, lists[f].rows))]
              ELSE lists

(* both buttons need an unread count and no such request of their own *)
Offered(from) == count > 0 /\ \A c \in clicks : ~(c.what = "all" /\ c.from = from)
ClickAll(from) ==
  /\ Offered(from)
  /\ Started("all", Row(0, FALSE, TRUE), from)
  /\ count' = 0 /\ preview' = ReadRows(preview)
  /\ lists' = [f \in Filters |-> Written(f, ReadRows(lists[f].rows))]

(* a made-up id is not found *)
Serve(c) ==
  /\ c.st = "sent"
  /\ IF c.what = "one" /\ c.row.live
     THEN clicks' = (clicks \ {c}) \cup {[c EXCEPT !.st = "failed"]} /\ UNCHANGED <<read, updates>>
     ELSE /\ MarkRead(IF c.what = "all" THEN 1 .. created ELSE {c.row.n})
          /\ clicks' = clicks \ {c}
  /\ UNCHANGED <<created, arriving, count, preview, loaded, lists, open, req, done, fresh, outrun,
                 elsewhere, faults>>
Lost(c) ==
  /\ c.st = "sent" /\ faults < MaxFaults /\ faults' = faults + 1
  /\ clicks' = (clicks \ {c}) \cup {[c EXCEPT !.st = "failed"]}
  /\ UNCHANGED <<srvVars, count, preview, loaded, lists, open, req, done, fresh, outrun, elsewhere>>

(* onError: the popover puts the preview and the count back, the page only the
   count, where there was one; nothing puts back the lists *)
OnError(c) ==
  /\ c.st = "failed" /\ clicks' = clicks \ {c} /\ fresh' = FALSE
  /\ count' = IF "count" \in c.had THEN c.count ELSE count
  /\ preview' = IF c.from = "popover" /\ "preview" \in c.had THEN c.preview ELSE preview
  /\ UNCHANGED <<srvVars, loaded, lists, open, req, done, outrun, elsewhere, faults>>

-----------------------------------------------------------------------------
(* notification.created: one more on the badge, and a row on top of the preview
   and of every cached list, whatever its filter; no row has its made-up id *)
CreatedPushed(n) ==
  /\ n \in arriving /\ arriving' = arriving \ {n} /\ fresh' = FALSE
  /\ count' = count + 1
  /\ preview' = preview \cup {Row(n, TRUE, FALSE)}
  /\ loaded' = {"count", "preview"}
  /\ lists' = [f \in Filters |-> Written(f, lists[f].rows \cup {Row(n, TRUE, FALSE)})]
  /\ UNCHANGED <<created, read, updates, open, req, clicks, done, outrun, elsewhere, faults>>

(* an invalidated query in sight is asked for again, unless its first answer is
   still on the way; out of sight it waits to be shown, and a request for it goes on *)
AskedAgain(q) == InSight(q) /\ (HasData(q) \/ ~Loading(q))
Invalidated(again) ==
  /\ lists' = [f \in Filters |-> [lists[f] EXCEPT !.stale = Cached(f)]]
  /\ req' = [q \in Queries |-> IF q \in again THEN Sent ELSE req[q]]
  /\ outrun' = outrun \cup {q \in Queries \ again : req[q].st = "read"}

(* A fault: the badge's count is not fetched again. *)
UpdatedKeepsCount ==
  /\ updates > 0 /\ updates' = updates - 1 /\ fresh' = TRUE
  /\ Invalidated({q \in Queries \ {"count"} : AskedAgain(q)})
  /\ UNCHANGED <<created, read, arriving, count, preview, loaded, open, clicks, done, elsewhere,
                 faults>>

(* notification.updated names its notification notification_id and not id, so it
   always takes the branch that invalidates the three keys *)
UpdatedPushed ==
  /\ updates > 0 /\ updates' = updates - 1 /\ fresh' = TRUE
  /\ Invalidated({q \in Queries : AskedAgain(q)})
  /\ UNCHANGED <<created, read, arriving, count, preview, loaded, open, clicks, done, elsewhere,
                 faults>>

PushLost ==
  /\ faults < MaxFaults /\ faults' = faults + 1 /\ fresh' = FALSE
  /\ \/ \E n \in arriving : arriving' = arriving \ {n} /\ UNCHANGED updates
     \/ updates > 0 /\ updates' = updates - 1 /\ UNCHANGED arriving
  /\ UNCHANGED <<created, read, count, preview, loaded, lists, open, req, clicks, done, outrun,
                 elsewhere>>

(* performReconnectResync: of the three, only the count is asked for again *)
Resync ==
  /\ AskedAgain("count") /\ req' = [req EXCEPT !["count"] = Sent]
  /\ UNCHANGED <<srvVars, count, preview, loaded, lists, open, clicks, done, fresh, outrun,
                 elsewhere, faults>>

RequestRead(q) ==
  /\ req[q].st = "sent"
  /\ req' = [req EXCEPT ![q] = [st |-> "read", rows |-> ServerRows(q), count |-> Unread]]
  /\ outrun' = outrun \ {q}
  /\ UNCHANGED <<srvVars, count, preview, loaded, lists, open, clicks, done, fresh, elsewhere, faults>>

RequestLands(q) ==
  /\ req[q].st = "read" /\ req' = [req EXCEPT ![q] = NoRequest]
  /\ count' = IF q = "count" THEN req[q].count ELSE count
  /\ preview' = IF q = "preview" THEN req[q].rows ELSE preview
  /\ loaded' = loaded \cup ({q} \ Filters)
  /\ lists' = IF q \in Filters
              THEN [lists EXCEPT ![q] = [cached |-> TRUE, stale |-> FALSE, rows |-> req[q].rows]]
              ELSE lists
  /\ UNCHANGED <<srvVars, open, clicks, done, fresh, outrun, elsewhere, faults>>

(* a list keeps what it has and is marked stale, a preview keeps what it has;
   the count's error handler answers 0 *)
RequestFails(q) ==
  /\ req[q].st = "sent" /\ req' = [req EXCEPT ![q] = NoRequest]
  /\ faults < MaxFaults /\ faults' = faults + 1 /\ fresh' = FALSE
  /\ count' = IF q = "count" THEN 0 ELSE count
  /\ loaded' = loaded \cup ({q} \cap {"count"})
  /\ lists' = [f \in Filters |-> [lists[f] EXCEPT !.stale = IF f = q THEN Cached(f) ELSE @]]
  /\ UNCHANGED <<srvVars, preview, open, clicks, done, outrun, elsewhere>>

NNext == \/ Created \/ LeavePage \/ UpdatedPushed \/ PushLost \/ Resync
         \/ \E n \in 1 .. MaxCreated : ReadElsewhere(n) \/ CreatedPushed(n)
         \/ \E f \in Filters : Choose(f)
         \/ \E r \in preview : ClickRow("popover", r)
         \/ open # "closed" /\ \E r \in lists[open].rows : ClickRow("page", r)
         \/ ClickAll("popover") \/ (open # "closed" /\ ClickAll("page"))
         \/ \E c \in clicks : Serve(c) \/ Lost(c) \/ OnError(c)
         \/ \E q \in Queries : RequestRead(q) \/ RequestLands(q) \/ RequestFails(q)
NSpec == NInit /\ [][NNext]_nvars

-----------------------------------------------------------------------------
Resting == arriving = {} /\ updates = 0 /\ clicks = {} /\ \A q \in Queries : ~Loading(q)

(* a list that is marked stale is not relied on: it is fetched before it is shown *)
Agrees(q) ==
  IF q = "count" THEN count = Unread
  ELSE IF q = "preview" THEN preview = ServerRows("all")
  ELSE Cached(q) /\ ~lists[q].stale => lists[q].rows = ServerRows(q)

(* When all has settled and a notification.updated was the last thing that
   touched the caches, the badge, the preview and the lists are what the server
   has, except one whose answer was on its way when an update came and was let
   land, because it was the first or nobody looked. *)
UpdatesSynchronise == Resting /\ fresh => \A q \in Queries \ outrun : Agrees(q)

(* "Optimistic cache is correct and WebSocket notification.updated event drives
   cache sync from the server": then all of them are what the server has. *)
CacheSynchronised == Resting /\ fresh => \A q \in Queries : Agrees(q)
=============================================================================
