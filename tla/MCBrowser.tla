------------------------------ MODULE MCBrowser ------------------------------
(***************************************************************************)
(* The parts of the browser about which something is promised in the end,  *)
(* for TLC.  A behaviour is about one of them, the topic, chosen at first; *)
(* the others keep their initial states.  Each keeps its own requests and  *)
(* caches, which no action of another one reads or writes.                 *)
(***************************************************************************)
EXTENDS RealtimeClient, RunbookPanel

CONSTANTS m1, i1, nobody, summary   \* model values

VARIABLES topic,
  srv, commits, noted, pushes, detail, row, notes, events, req, mut, failed, dialog, pRaced, phantom,
  lost, pActs, pFaults,
  pm, item, copy, mReq, mPushes, draft, dirty, save, step, adding, form, edit, typed, last, kept,
  discarded, asked, reviewed, unsynced, sends, mOthers, mFaults,
  url, selected, stored, known, mounted, sDirty, moves

Page == INSTANCE IncidentPage WITH
  Members <- {m1}, NoOne <- nobody, Me <- m1, Manages <- TRUE, Kinds <- {"ack", "note"},
  Queries <- {"notes", "events"}, MaxActs <- 1, MaxCommits <- 2, MaxFaults <- 1,
  raced <- pRaced, acts <- pActs, faults <- pFaults
Review == INSTANCE Postmortem WITH
  Fields <- {summary}, Summary <- summary, Items <- {i1}, Manages <- TRUE, MaxTyped <- 0,
  MaxSends <- 1, MaxOthers <- 1, MaxFaults <- 1,
  req <- mReq, pushes <- mPushes, others <- mOthers, faults <- mFaults
Filter == INSTANCE ProjectSelection WITH
  Projects <- {"p1", "p2"}, MaxMoves <- 3, dirty <- sDirty

pageVars == <<srv, commits, noted, pushes, detail, row, notes, events, req, mut, failed, dialog,
              pRaced, phantom, lost, pActs, pFaults>>
reviewVars == <<pm, item, copy, mReq, mPushes, draft, dirty, save, step, adding, form, edit, typed,
                last, kept, discarded, asked, reviewed, unsynced, sends, mOthers, mFaults>>
filterVars == <<url, selected, stored, known, mounted, sDirty, moves>>
all == <<topic, vars, pageVars, reviewVars, rvars, filterVars>>

BrowserInit ==
  /\ topic \in {"realtime", "page", "review", "books", "filter"}
  /\ IF topic = "filter" THEN TRUE ELSE url = "none" /\ stored = "none"
  /\ Init /\ Page!Init /\ Review!Init /\ RInit /\ Filter!PInit

BrowserNext ==
  /\ UNCHANGED topic
  /\ \/ topic = "realtime" /\ Next
        /\ UNCHANGED <<pageVars, reviewVars, rvars, filterVars>>
     \/ topic = "page" /\ Page!Next
        /\ UNCHANGED <<vars, reviewVars, rvars, filterVars>>
     \/ topic = "review" /\ Review!Next
        /\ UNCHANGED <<vars, pageVars, rvars, filterVars>>
     \/ topic = "books" /\ RNext
        /\ UNCHANGED <<vars, pageVars, reviewVars, filterVars>>
     \/ topic = "filter" /\ Filter!PNext
        /\ UNCHANGED <<vars, pageVars, reviewVars, rvars>>

(* Requests are answered, handshakes end, timers fire, messages arrive and
   React runs its effects; nothing is assumed of people, of commits or of
   faults. *)
RealtimeFair ==
  /\ \A c \in Calls : /\ WF_vars(topic = "realtime" /\ (TicketGranted(c) \/ TicketRefused(c)))
                      /\ WF_vars(topic = "realtime" /\ OpenSocket(c))
  /\ \A s \in Socks : /\ WF_vars(topic = "realtime" /\ (Accept(s) \/ Rejected(s)))
                      /\ WF_vars(topic = "realtime" /\ Join(s))
                      /\ WF_vars(topic = "realtime" /\ OnOpen(s))
  /\ WF_vars(topic = "realtime" /\ TimerFires)
PageFair ==
  /\ \A k \in {"ack", "note"} :
       /\ WF_pageVars(topic = "page" /\ (Page!Serve(k) \/ Page!RequestLost(k)))
       /\ WF_pageVars(topic = "page" /\ (Page!OnSuccess(k) \/ Page!OnError(k)))
  /\ WF_pageVars(topic = "page" /\ Page!NoteSettled)
  /\ \A n \in 1 .. 2 :
       WF_pageVars(topic = "page" /\ \E p \in pushes : p.n = n /\ (Page!StatusPushed(p) \/ Page!NotePushed(p)))
  /\ \A q \in {"notes", "events"} :
       /\ WF_pageVars(topic = "page" /\ (Page!RequestRead(q) \/ Page!RequestFails(q)))
       /\ WF_pageVars(topic = "page" /\ Page!RequestLands(q))
ReviewFair ==
  /\ WF_reviewVars(topic = "review" /\ Review!PushArrives)
  /\ WF_reviewVars(topic = "review" /\ (Review!FetchRead \/ Review!FetchFails))
  /\ WF_reviewVars(topic = "review" /\ Review!FetchLands)
BooksFair ==
  /\ WF_rvars(topic = "books" /\ Serve)
  /\ WF_rvars(topic = "books" /\ RefetchRead)
  /\ WF_rvars(topic = "books" /\ RefetchLands)
  /\ WF_rvars(topic = "books" /\ Poll)
FilterFair == WF_filterVars(topic = "filter" /\ Filter!Effects)

BrowserSpec == /\ BrowserInit /\ [][BrowserNext]_all
               /\ RealtimeFair /\ PageFair /\ ReviewFair /\ BooksFair /\ FilterFair

-----------------------------------------------------------------------------
(* A note added anywhere is shown on the incident page at last. *)
NotesArrive == Page!NotesArrive
(* An action item added anywhere is shown in the postmortem at last. *)
ItemsArrive == Review!ItemsArrive
(* The project filter's effects come to rest in agreement. *)
SelectionSettles == topic = "filter" => Filter!SelectionSettles
=============================================================================
