------------------------------ MODULE Analytics ------------------------------
(***************************************************************************)
(* The analytics pages of a project and of a job                           *)
(* (frontend/app/(dashboard)/analytics, jobs/[id]/analytics): two queries, *)
(* the numbers and the trend, keyed by the project or job and the range    *)
(* in the URL.  Telemetry is pushed in batches that name a project and its *)
(* jobs; the provider invalidates their figures five seconds after the     *)
(* last batch, by one timer whose closure holds that batch alone.  Only    *)
(* the figures in sight are then fetched again; an answer already under    *)
(* way is asked for again only where there is one to show meanwhile.       *)
(***************************************************************************)
EXTENDS Naturals, FiniteSets

CONSTANTS
  Figures,     \* the queries of a page: its numbers and its trend
  Subjects,    \* the projects and jobs with a page
  Batches,     \* what a batch may touch: a project and jobs of it
  Ranges,
  MaxBatches,  \* bound: batches ingested
  MaxLooks,    \* bound: clicks of the person in front of the page
  MaxFaults    \* bound: pushes and answers lost

VARIABLES
  ingested,    \* number of batches the server has of each project and job
  arriving,    \* pushes on their way
  timer,       \* analyticsDebounceTimerRef: the batch it was set for, if it is set
  view,        \* the project or job and the range in sight
  cache,       \* the answers in the query cache
  fetch,       \* the requests
  missed,      \* ghost: figures a batch changed without anybody asking for them again
  batches, looks, faults

nvars == <<ingested, arriving, timer, view, cache, fetch, missed, batches, looks, faults>>

Keys        == Figures \X Subjects \X Ranges
Of(subjects) == {k \in Keys : k[2] \in subjects}
InSight     == {k \in Keys : <<k[2], k[3]>> = view}
Nothing     == [has |-> FALSE, seen |-> 0, stale |-> FALSE]
NoFetch     == [st |-> "none", seen |-> 0]
Sent        == [st |-> "sent", seen |-> 0]
Fetching(k) == fetch[k].st # "none"

(* a card or a chart is a skeleton until its first answer *)
Shown(k)    == cache[k].has

-----------------------------------------------------------------------------
(* A page in sight asks for what it has no answer to or a stale one; one of
   more than a minute ago is stale too. *)
Mounted(v, old) ==
  {k \in Keys : <<k[2], k[3]>> = v /\ ~Fetching(k) /\ (~cache[k].has \/ cache[k].stale \/ old)}

NInit ==
  /\ ingested = [s \in Subjects |-> 0] /\ arriving = {} /\ timer = {}
  /\ view \in Subjects \X Ranges
  /\ cache = [k \in Keys |-> Nothing]
  /\ fetch = [k \in Keys |-> IF k \in InSight THEN Sent ELSE NoFetch]
  /\ missed = {} /\ batches = 0 /\ looks = 0 /\ faults = 0

(* another project in the filter, another job, another range *)
Look(v) ==
  /\ v # view /\ looks < MaxLooks /\ looks' = looks + 1
  /\ view' = v
  /\ \E old \in BOOLEAN :
       fetch' = [k \in Keys |-> IF k \in Mounted(v, old) THEN Sent ELSE fetch[k]]
  /\ UNCHANGED <<ingested, arriving, timer, cache, missed, batches, faults>>

(* A query that is asked for again drops an answer under way, if it has another. *)
Again(k)   == cache[k].has \/ ~Fetching(k)

(* handleRefresh, disabled while figures in sight are fetched again *)
Refresh ==
  /\ looks < MaxLooks /\ looks' = looks + 1
  /\ \A k \in InSight : cache[k].has => ~Fetching(k)
  /\ fetch' = [k \in Keys |-> IF k \in InSight /\ Again(k) THEN Sent ELSE fetch[k]]
  /\ UNCHANGED <<ingested, arriving, timer, view, cache, missed, batches, faults>>

-----------------------------------------------------------------------------
(* record_telemetry commits a batch and publishes execution.batch. *)
Ingested(b) ==
  /\ batches < MaxBatches /\ batches' = batches + 1
  /\ ingested' = [s \in Subjects |-> ingested[s] + IF s \in b THEN 1 ELSE 0]
  /\ arriving' = arriving \cup {[n |-> batches, touched |-> b]}
  /\ UNCHANGED <<timer, view, cache, fetch, missed, looks, faults>>

(* a push is lost, or sent while the socket is closed: a reconnection does not
   ask for figures *)
PushLost(p) ==
  /\ p \in arriving /\ arriving' = arriving \ {p}
  /\ faults < MaxFaults /\ faults' = faults + 1
  /\ missed' = missed \cup Of(p.touched)
  /\ UNCHANGED <<ingested, timer, view, cache, fetch, batches, looks>>

(* scheduleAnalyticsRefetch: the timer set for an earlier batch is cleared, and
   with it whatever only that batch touched *)
ScheduleAnalyticsRefetch(p) ==
  /\ p \in arriving /\ arriving' = arriving \ {p}
  /\ timer' = {p.touched}
  /\ missed' = missed \cup Of((UNION timer) \ p.touched)
  /\ UNCHANGED <<ingested, view, cache, fetch, batches, looks, faults>>

(* A fault: only the figures in sight are invalidated. *)
InvalidatedInSight(b) == Of(b) \cap InSight

(* every range, by the prefix of the key *)
Invalidated(b) == Of(b)

TimerFires ==
  /\ timer # {} /\ timer' = {}
  /\ \E b \in timer :
       /\ cache' = [k \in Keys |-> [cache[k] EXCEPT !.stale = @ \/ k \in Invalidated(b)]]
       /\ fetch' = [k \in Keys |-> IF k \in Invalidated(b) \cap InSight /\ Again(k)
                                   THEN Sent ELSE fetch[k]]
       /\ missed' = missed \cup {k \in Of(b) : fetch[k].st = "read" /\ fetch'[k] # Sent}
  /\ UNCHANGED <<ingested, arriving, view, batches, looks, faults>>

(* the provider's effect runs again, for a user whose profile changed: its
   cleanup clears the timer *)
Cleanup ==
  /\ timer # {} /\ timer' = {} /\ missed' = missed \cup Of(UNION timer)
  /\ UNCHANGED <<ingested, arriving, view, cache, fetch, batches, looks, faults>>

-----------------------------------------------------------------------------
FetchRead(k) ==
  /\ fetch[k].st = "sent"
  /\ fetch' = [fetch EXCEPT ![k] = [st |-> "read", seen |-> ingested[k[2]]]]
  /\ missed' = missed \ {k}
  /\ UNCHANGED <<ingested, arriving, timer, view, cache, batches, looks, faults>>
FetchLands(k) ==
  /\ fetch[k].st = "read" /\ fetch' = [fetch EXCEPT ![k] = NoFetch]
  /\ cache' = [cache EXCEPT ![k] = [has |-> TRUE, seen |-> fetch[k].seen, stale |-> FALSE]]
  /\ UNCHANGED <<ingested, arriving, timer, view, missed, batches, looks, faults>>
FetchFailed(k) ==
  /\ fetch[k].st = "sent" /\ fetch' = [fetch EXCEPT ![k] = NoFetch]
  /\ faults < MaxFaults /\ faults' = faults + 1
  /\ missed' = missed \cup {k}
  /\ cache' = [cache EXCEPT ![k].stale = TRUE]
  /\ UNCHANGED <<ingested, arriving, timer, view, batches, looks>>

NNext ==
  \/ Refresh \/ TimerFires \/ Cleanup
  \/ \E v \in Subjects \X Ranges : Look(v)
  \/ \E b \in Batches : Ingested(b)
  \/ \E p \in arriving : PushLost(p) \/ ScheduleAnalyticsRefetch(p)
  \/ \E k \in Keys : FetchRead(k) \/ FetchLands(k) \/ FetchFailed(k)

NSpec == NInit /\ [][NNext]_nvars

-----------------------------------------------------------------------------
(* When no batch is on its way and nothing in sight is being fetched, the
   numbers and the trend in sight count every batch, of whatever range and
   project they were first asked for, and so agree with each other. The
   exceptions: a batch whose push was lost, or whose timer was taken by a batch
   of another project or job or cleared, a request that failed, and an answer read before
   a batch that came in for figures out of sight or shown for the first time. *)
FiguresConverge ==
  arriving = {} /\ timer = {} /\ (\A k \in InSight : ~Fetching(k)) =>
    \A k \in InSight : Shown(k) => cache[k].seen = ingested[k[2]] \/ k \in missed
=============================================================================
