---------------------------- MODULE RunbookPanel ----------------------------
(***************************************************************************)
(* The runbook tab of an incident (frontend/components/bjt/incidents/      *)
(* runbook/): recommended runbooks are executed, the steps of an execution *)
(* are moved on and the execution is completed or cancelled, from this     *)
(* page and from other people's.  The list of executions is a cached query *)
(* which polls only while it shows one in progress; no push invalidates    *)
(* it.  The server (apps/incidents/services.py) applies requests one at a  *)
(* time under a row lock.                                                  *)
(***************************************************************************)
EXTENDS Naturals, Sequences, FiniteSets

CONSTANTS
  Execs,       \* names for executions
  Runbooks,    \* runbooks recommended for the incident
  Steps,       \* steps a runbook may have
  MaxActs,     \* bound: requests of this page
  MaxOthers,   \* bound: requests of other pages
  MaxFailures    \* bound: failed requests

VARIABLES
  exec,      \* the executions on the server
  cached,    \* ["runbook-executions", id]
  refetch,     \* the request for them
  starting,  \* executeMutation: every request under way
  latest,    \* the runbook executeMutation was last called for, while pending
  stepping,  \* stepMutation of each card
  ending,    \* statusMutation of each card
  acts, others, failures

rvars == <<exec, cached, refetch, starting, latest, stepping, ending, acts, others, failures>>

StepStates == {"PENDING", "IN_PROGRESS", "COMPLETED", "SKIPPED"}
Terminal   == {"COMPLETED", "CANCELLED"}
Absent     == [status |-> "none", book |-> "none", state |-> [s \in Steps |-> "PENDING"],
               history |-> <<>>]
NoList     == [e \in Execs |-> Absent]
NoRefetch    == [st |-> "none", data |-> NoList]
Quiet      == [st |-> "idle"]

RInit ==
  /\ exec = NoList /\ cached = NoList /\ refetch = [NoRefetch EXCEPT !.st = "sent"]
  /\ starting = {} /\ latest = "none"
  /\ stepping = [e \in Execs |-> Quiet] /\ ending = [e \in Execs |-> Quiet]
  /\ acts = 0 /\ others = 0 /\ failures = 0

-----------------------------------------------------------------------------
(* The server. Starting always makes another execution. *)
Started(b, e) == [Absent EXCEPT !.status = "IN_PROGRESS", !.book = b]
Start(b) == \E e \in Execs : /\ exec[e].status = "none"
                             /\ exec' = [exec EXCEPT ![e] = Started(b, e)]

ValidSteps == [PENDING |-> {"IN_PROGRESS", "SKIPPED"}, IN_PROGRESS |-> {"COMPLETED", "SKIPPED"},
               COMPLETED |-> {}, SKIPPED |-> {}]

(* A fault: the state the request was made from is not compared. *)
CanStepUnchecked(x, s, from, to) == x.status \notin Terminal /\ to \in ValidSteps[from]
CanStep(x, s, from, to) == /\ x.status \notin Terminal
                           /\ x.state[s] = from
                           /\ to \in ValidSteps[from]
Stepped(x, s, to) == [x EXCEPT !.state[s] = to, !.history = Append(@, <<s, to>>)]

CanEnd(x) == x.status = "IN_PROGRESS"

-----------------------------------------------------------------------------
(* Recommended runbooks: Execute is disabled while the latest request is for
   this runbook. *)
Execute(b) ==
  /\ latest # b
  /\ acts < MaxActs /\ acts' = acts + 1
  /\ starting' = starting \cup {[n |-> acts, book |-> b, st |-> "sent"]} /\ latest' = b
  /\ UNCHANGED <<exec, cached, refetch, stepping, ending, others, failures>>

(* A card: the steps move on from the state the page shows; all of the card's
   step buttons wait for its request. *)
StepTransitions == ValidSteps
StepClicked(e, s, to) ==
  /\ cached[e].status \notin Terminal \cup {"none"}
  /\ to \in StepTransitions[cached[e].state[s]]
  /\ stepping[e].st = "idle"
  /\ acts < MaxActs /\ acts' = acts + 1
  /\ stepping' = [stepping EXCEPT ![e] = [st |-> "sent", s |-> s, from |-> cached[e].state[s], to |-> to]]
  /\ UNCHANGED <<exec, cached, refetch, starting, latest, ending, others, failures>>

(* Mark Done and Cancel, whatever the steps are *)
EndClicked(e, to) ==
  /\ cached[e].status \notin Terminal \cup {"none"}
  /\ ending[e].st = "idle"
  /\ acts < MaxActs /\ acts' = acts + 1
  /\ ending' = [ending EXCEPT ![e] = [st |-> "sent", to |-> to]]
  /\ UNCHANGED <<exec, cached, refetch, starting, latest, stepping, others, failures>>

-----------------------------------------------------------------------------
(* a start is refused when the bound on executions is reached *)
ServeStart(m) ==
  /\ m \in starting /\ m.st = "sent"
  /\ IF \E e \in Execs : exec[e].status = "none"
     THEN Start(m.book) /\ starting' = (starting \ {m}) \cup {[m EXCEPT !.st = "ok"]}
     ELSE starting' = (starting \ {m}) \cup {[m EXCEPT !.st = "failed"]} /\ UNCHANGED exec
  /\ UNCHANGED <<cached, refetch, latest, stepping, ending, acts, others, failures>>

ServeStep(e) ==
  /\ stepping[e].st = "sent"
  /\ LET r == stepping[e] IN
       IF CanStep(exec[e], r.s, r.from, r.to)
       THEN /\ exec' = [exec EXCEPT ![e] = Stepped(@, r.s, r.to)]
            /\ stepping' = [stepping EXCEPT ![e].st = "ok"]
       ELSE stepping' = [stepping EXCEPT ![e].st = "failed"] /\ UNCHANGED exec
  /\ UNCHANGED <<cached, refetch, starting, latest, ending, acts, others, failures>>

ServeEnd(e) ==
  /\ ending[e].st = "sent"
  /\ IF CanEnd(exec[e])
     THEN /\ exec' = [exec EXCEPT ![e].status = ending[e].to, ![e].history = Append(@, <<"end", ending[e].to>>)]
          /\ ending' = [ending EXCEPT ![e].st = "ok"]
     ELSE ending' = [ending EXCEPT ![e].st = "failed"] /\ UNCHANGED exec
  /\ UNCHANGED <<cached, refetch, starting, latest, stepping, acts, others, failures>>

(* an answer of the server is lost *)
AnswerLost(e) ==
  /\ failures < MaxFailures /\ failures' = failures + 1
  /\ \/ stepping[e].st = "ok" /\ stepping' = [stepping EXCEPT ![e].st = "failed"] /\ UNCHANGED ending
     \/ ending[e].st = "ok" /\ ending' = [ending EXCEPT ![e].st = "failed"] /\ UNCHANGED stepping
  /\ UNCHANGED <<exec, cached, refetch, starting, latest, acts, others>>

(* onSuccess fetches the executions again; onError shows a message only *)
Settled(st) == refetch' = IF st = "ok" THEN [NoRefetch EXCEPT !.st = "sent"] ELSE refetch
StartSettled(m) ==
  /\ m \in starting /\ m.st \in {"ok", "failed"} /\ Settled(m.st)
  /\ starting' = starting \ {m}
  /\ latest' = IF \A o \in starting : o.n <= m.n THEN "none" ELSE latest
  /\ UNCHANGED <<exec, cached, stepping, ending, acts, others, failures>>
StepSettled(e) ==
  /\ stepping[e].st \in {"ok", "failed"} /\ Settled(stepping[e].st)
  /\ stepping' = [stepping EXCEPT ![e] = Quiet]
  /\ UNCHANGED <<exec, cached, starting, latest, ending, acts, others, failures>>
EndSettled(e) ==
  /\ ending[e].st \in {"ok", "failed"} /\ Settled(ending[e].st)
  /\ ending' = [ending EXCEPT ![e] = Quiet]
  /\ UNCHANGED <<exec, cached, starting, latest, stepping, acts, others, failures>>

-----------------------------------------------------------------------------
(* Another page: its requests reach the server with whatever that page shows,
   of which only the accepted ones change anything. *)
Other ==
  /\ others < MaxOthers /\ others' = others + 1
  /\ \/ \E b \in Runbooks : Start(b)
     \/ \E e \in Execs, s \in Steps, from, to \in StepStates :
          /\ exec[e].status # "none" /\ CanStep(exec[e], s, from, to)
          /\ exec' = [exec EXCEPT ![e] = Stepped(@, s, to)]
     \/ \E e \in Execs, to \in Terminal :
          /\ exec[e].status # "none" /\ CanEnd(exec[e])
          /\ exec' = [exec EXCEPT ![e].status = to, ![e].history = Append(@, <<"end", to>>)]
  /\ UNCHANGED <<cached, refetch, starting, latest, stepping, ending, acts, failures>>

RefetchIntervalEvery == \A e \in Execs : cached[e].status \notin Terminal   \* a fault: some for every
(* refetchInterval: five seconds, while the cached list has one in progress *)
RefetchInterval == \E e \in Execs : cached[e].status = "IN_PROGRESS"
Poll ==
  /\ RefetchInterval /\ refetch.st = "none"
  /\ refetch' = [NoRefetch EXCEPT !.st = "sent"]
  /\ UNCHANGED <<exec, cached, starting, latest, stepping, ending, acts, others, failures>>

RefetchRead ==
  /\ refetch.st = "sent" /\ refetch' = [st |-> "read", data |-> exec]
  /\ UNCHANGED <<exec, cached, starting, latest, stepping, ending, acts, others, failures>>
RefetchFailed ==
  /\ refetch.st = "sent" /\ failures < MaxFailures /\ failures' = failures + 1
  /\ refetch' = NoRefetch
  /\ UNCHANGED <<exec, cached, starting, latest, stepping, ending, acts, others>>
RefetchLands ==
  /\ refetch.st = "read" /\ cached' = refetch.data /\ refetch' = NoRefetch
  /\ UNCHANGED <<exec, starting, latest, stepping, ending, acts, others, failures>>

Serve == \/ \E m \in starting : ServeStart(m) \/ StartSettled(m)
         \/ \E e \in Execs : ServeStep(e) \/ ServeEnd(e) \/ StepSettled(e) \/ EndSettled(e)
Refetching == RefetchRead \/ RefetchLands \/ Poll
RNext ==
  \/ \E b \in Runbooks : Execute(b)
  \/ \E e \in Execs, s \in Steps, to \in StepStates : StepClicked(e, s, to)
  \/ \E e \in Execs, to \in Terminal : EndClicked(e, to)
  \/ \E e \in Execs : AnswerLost(e)
  \/ Serve \/ Refetching \/ RefetchFailed \/ Other

RSpec == RInit /\ [][RNext]_rvars

-----------------------------------------------------------------------------
(* Every step of an execution is begun at most once and completed or skipped at
   most once, and nothing is recorded after the execution was completed or
   cancelled, however many pages act on it with copies that are out of date. *)
StepsHappenOnce ==
  \A e \in Execs : LET h == exec[e].history IN
    \A i, j \in DOMAIN h :
      /\ h[i] = h[j] => i = j
      /\ h[i][1] = h[j][1] /\ {h[i][2], h[j][2]} \subseteq {"COMPLETED", "SKIPPED"} => i = j
      /\ h[i][1] = "end" => i = Len(h)

(* An execution this page shows in progress although somebody has completed or
   cancelled it is shown so at last: the poll does not stop before. *)
ActiveExecutionsConverge ==
  \A e \in Execs : (cached[e].status = "IN_PROGRESS" /\ exec[e].status \in Terminal)
                      ~> (cached[e].status = exec[e].status)
=============================================================================
