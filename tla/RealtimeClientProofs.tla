------------------------- MODULE RealtimeClientProofs -------------------------
(***************************************************************************)
(* Safety of the realtime connection, for any number of people, calls of    *)
(* connect(), sockets and changes.  Neither property is inductive.  The     *)
(* refs of the provider agree because there is at most one attempt to be    *)
(* connected at a time (OneAttempt): a timer, a call that awaits its        *)
(* ticket, or a socket.  A missing change has a cause because there is      *)
(* always such an attempt or an open socket for whoever is signed in        *)
(* (Reconnects), and because an answer that has not landed yet lacks only   *)
(* changes that will be accounted for, or shown, when it does               *)
(* (AnswerCurrent).                                                         *)
(***************************************************************************)
EXTENDS RealtimeClient, FiniteSetTheorems, TLAPS

People   == Users \cup {NoUser}
CallState == [st : {"idle", "asking", "refused", "granted"}, who : People]
SockState == [phase : {"free", "connecting", "accepted", "open"}, who : People,
              joined : BOOLEAN, inbox : SUBSET Changes]
FetchState == [st : {"none", "sent", "read"}, data : SUBSET Changes]

TypeOK ==
  /\ user \in People
  /\ asking \in [Calls -> CallState]
  /\ sock \in [Socks -> SockState]
  /\ wsRef \in Socks \cup {NoSock} /\ ping \in Socks \cup {NoSock}
  /\ timer \in BOOLEAN /\ once \in BOOLEAN /\ banned \in BOOLEAN
  /\ again \in BOOLEAN /\ raced \in BOOLEAN
  /\ status \in {"connected", "connecting", "disconnected"}
  /\ committed \in SUBSET Changes /\ pool \in SUBSET Changes
  /\ gap \in SUBSET Changes /\ excused \in SUBSET Changes
  /\ list \in SUBSET (SUBSET Changes) /\ fetch \in FetchState
  /\ sessions \in Nat /\ faults \in Nat

(* At most one attempt to be connected, and the refs are about it. *)
Agreed ==
  /\ Live \subseteq {wsRef}
  /\ wsRef # NoSock => wsRef \in Live
  /\ IF Opened = {} THEN ping = NoSock ELSE ping \in Opened
  /\ status = "connected" <=> Opened # {}
  /\ timer => Waiting = {}
  /\ timer \/ Waiting # {} => Live = {}
  /\ \A c, d \in Waiting : c = d
  /\ user = NoUser => Waiting = {} /\ ~timer /\ Live = {}
OneAttempt == ~raced => Agreed

(* Whoever is signed in is connected or about to be. *)
Reconnects == user # NoUser /\ ~banned => timer \/ Waiting # {} \/ Live # {}

(* What becomes of a change without the request for the list. *)
Known(ch) == \/ ch \in pool \/ \E s \in Live : ch \in sock[s].inbox
             \/ Recovering /\ once
             \/ ch \in gap \cup excused
InEvery(ch) == list # {} /\ \A l \in list : ch \in l

(* A change that an answer lacks is accounted for, or patched into the list. *)
AnswerCurrent ==
  ~banned /\ user # NoUser /\ fetch.st = "read" =>
    \A ch \in committed \ fetch.data : Known(ch) \/ InEvery(ch)

IInv == TypeOK /\ OneAttempt /\ Reconnects /\ MissingHasCause /\ AnswerCurrent

-----------------------------------------------------------------------------
(* What connect() does up to its await. *)
LEMMA Starts ==
  ASSUME TypeOK, StartConnect
  PROVE  /\ asking' \in [Calls -> CallState]
         /\ \E c \in Calls : c \notin Waiting /\ Waiting' = Waiting \cup {c}
         /\ status' = "connecting"
<1>1. PICK c \in Calls \ Waiting : asking' = [asking EXCEPT ![c].st = "asking"]
  BY DEF StartConnect
<1>2. asking \in [Calls -> CallState]
  BY DEF TypeOK
<1>3. /\ asking' \in [Calls -> CallState]
      /\ asking'[c].st = "asking" /\ \A d \in Calls \ {c} : asking'[d] = asking[d]
  BY <1>1, <1>2 DEF CallState
<1>4. Waiting' = Waiting \cup {c}
  BY <1>3 DEF Waiting
<1> QED
  BY <1>1, <1>3, <1>4 DEF StartConnect

(* Closing a socket, or none. *)
LEMMA Detaches ==
  ASSUME TypeOK, NEW s \in Socks \cup {NoSock}, Detach(s)
  PROVE  /\ sock' \in [Socks -> SockState] /\ gap' \in SUBSET Changes
         /\ Live' = Live \ {s} /\ Opened' = Opened \ {s}
         /\ \A t \in Live' : sock'[t] = sock[t]
         /\ gap \subseteq gap'
         /\ ~once /\ s \in Socks => sock[s].inbox \subseteq gap'
<1>1. sock \in [Socks -> SockState] /\ gap \in SUBSET Changes
  BY DEF TypeOK
<1>2. FreeSock \in SockState /\ FreeSock.phase = "free"
  BY DEF FreeSock, SockState, People
<1>3. CASE s = NoSock
  BY <1>1, <1>3, ClientAssumption DEF Detach, Live, Opened
<1>4. CASE s \in Socks
  <2>1. s # NoSock
    BY <1>4, ClientAssumption
  <2>2. sock' = [sock EXCEPT ![s] = FreeSock]
    BY <2>1 DEF Detach
  <2>3. /\ sock' \in [Socks -> SockState]
        /\ sock'[s] = FreeSock /\ \A t \in Socks \ {s} : sock'[t] = sock[t]
    BY <1>1, <1>2, <1>4, <2>2
  <2>4. Live' = Live \ {s} /\ Opened' = Opened \ {s}
    BY <2>3, <1>2, <1>4 DEF Live, Opened
  <2>5. sock[s].inbox \in SUBSET Changes
    BY <1>1, <1>4 DEF SockState
  <2> QED
    BY <1>1, <2>1, <2>3, <2>4, <2>5 DEF Detach, Live
<1> QED
  BY <1>3, <1>4

(* One socket moves on and stays in use. *)
LEMMA Moves ==
  ASSUME TypeOK, NEW s \in Socks, NEW v \in SockState, v.phase # "free",
         sock' = [sock EXCEPT ![s] = v]
  PROVE  /\ sock' \in [Socks -> SockState]
         /\ sock'[s] = v /\ \A t \in Socks \ {s} : sock'[t] = sock[t]
         /\ Live' = Live \cup {s}
         /\ Opened' = IF v.phase = "open" THEN Opened \cup {s} ELSE Opened \ {s}
<1>1. sock \in [Socks -> SockState]
  BY DEF TypeOK
<1>2. /\ sock' \in [Socks -> SockState]
      /\ sock'[s] = v /\ \A t \in Socks \ {s} : sock'[t] = sock[t]
  BY <1>1
<1> QED
  BY <1>2 DEF Live, Opened

(* A call of connect() is told about its ticket, or is done with it. *)
LEMMA Answers ==
  ASSUME TypeOK, NEW c \in Waiting, NEW v \in CallState, asking' = [asking EXCEPT ![c] = v]
  PROVE  /\ asking' \in [Calls -> CallState]
         /\ Waiting' = IF v.st = "idle" THEN Waiting \ {c} ELSE Waiting
<1>1. asking \in [Calls -> CallState] /\ c \in Calls /\ asking[c].st # "idle"
  BY DEF TypeOK, Waiting
<1>2. /\ asking' \in [Calls -> CallState]
      /\ asking'[c] = v /\ \A d \in Calls \ {c} : asking'[d] = asking[d]
  BY <1>1
<1> QED
  BY <1>1, <1>2 DEF Waiting

-----------------------------------------------------------------------------
(* What each kind of step does to the calls and sockets in use. *)
LEMMA EffectMoves ==
  ASSUME TypeOK, NEW u \in People, EffectRun(u)
  PROVE  /\ asking' \in [Calls -> CallState] /\ sock' \in [Socks -> SockState]
         /\ gap' \in SUBSET Changes
         /\ Live' = Live \ {wsRef} /\ Opened' = Opened \ {wsRef}
         /\ \A t \in Live' : sock'[t] = sock[t]
         /\ gap \subseteq gap'
         /\ ~once /\ wsRef \in Socks => sock[wsRef].inbox \subseteq gap'
         /\ IF u = NoUser THEN Waiting' = Waiting /\ status' = "disconnected" /\ once' = FALSE
            ELSE /\ \E c \in Calls : c \notin Waiting /\ Waiting' = Waiting \cup {c}
                 /\ status' = "connecting" /\ once' = once
<1>1. wsRef \in Socks \cup {NoSock} /\ Detach(wsRef)
  BY DEF TypeOK, EffectRun
<1>2. CASE u = NoUser
  BY <1>1, <1>2, Detaches DEF EffectRun, TypeOK, Waiting
<1>3. CASE u # NoUser
  <2>1. StartConnect /\ once' = once
    BY <1>3 DEF EffectRun
  <2> QED
    BY <1>1, <1>3, <2>1, Detaches, Starts
<1> QED
  BY <1>2, <1>3

LEMMA TicketMoves ==
  ASSUME TypeOK, NEW c \in Calls, TicketGranted(c) \/ TicketRefused(c)
  PROVE  /\ asking' \in [Calls -> CallState] /\ Waiting' = Waiting
         /\ Live' = Live /\ Opened' = Opened
<1>1. sock' = sock /\ asking \in [Calls -> CallState]
  BY DEF TicketGranted, TicketRefused, TypeOK
<1>2. CASE TicketGranted(c)
  <2>1. c \in Waiting /\ [st |-> "granted", who |-> user] \in CallState
    BY <1>2 DEF TicketGranted, TypeOK, Waiting, CallState
  <2>2. asking' = [asking EXCEPT ![c] = [st |-> "granted", who |-> user]]
    BY <1>2 DEF TicketGranted
  <2> QED
    BY <1>1, <2>1, <2>2, Answers DEF Live, Opened
<1>3. CASE TicketRefused(c)
  <2>1. c \in Waiting /\ [asking[c] EXCEPT !.st = "refused"] \in CallState
    BY <1>1, <1>3 DEF TicketRefused, Waiting, CallState
  <2>2. asking' = [asking EXCEPT ![c] = [asking[c] EXCEPT !.st = "refused"]]
    BY <1>3 DEF TicketRefused
  <2>3. [asking[c] EXCEPT !.st = "refused"].st = "refused"
    BY <1>1 DEF CallState
  <2> QED
    BY <1>1, <2>1, <2>2, <2>3, Answers DEF Live, Opened
<1> QED
  BY <1>2, <1>3

LEMMA OpenMoves ==
  ASSUME TypeOK, NEW c \in Calls, OpenSocket(c)
  PROVE  /\ asking' \in [Calls -> CallState] /\ sock' \in [Socks -> SockState]
         /\ c \in Waiting /\ Waiting' = Waiting \ {c}
         /\ wsRef' \in Socks /\ wsRef' \notin Live
         /\ Live' = Live \cup {wsRef'} /\ Opened' = Opened
         /\ sock'[wsRef'].phase = "connecting"
         /\ \A t \in Live : sock'[t] = sock[t]
<1>1. PICK s \in Socks \ Live, w \in People :
        /\ asking[c].st \in {"granted", "refused"}
        /\ asking' = [asking EXCEPT ![c] = Idle]
        /\ sock' = [sock EXCEPT ![s] = [FreeSock EXCEPT !.phase = "connecting", !.who = w]]
        /\ wsRef' = s
  BY DEF OpenSocket, People
<1>2. Idle \in CallState /\ Idle.st = "idle" /\ c \in Waiting
  BY <1>1 DEF Idle, CallState, People, Waiting
<1> DEFINE v == [FreeSock EXCEPT !.phase = "connecting", !.who = w]
<1>3. v \in SockState /\ v.phase = "connecting"
  BY DEF FreeSock, SockState
<1>4. sock' = [sock EXCEPT ![s] = v]
  BY <1>1, <1>3
<1>5. s \in Socks /\ s \notin Live /\ s \notin Opened
  BY <1>1 DEF Live, Opened
<1>6. v.phase # "free"
  BY <1>3
<1>7. /\ sock' \in [Socks -> SockState] /\ sock'[s] = v
      /\ Live' = Live \cup {s} /\ Opened' = Opened \ {s}
      /\ \A t \in Socks \ {s} : sock'[t] = sock[t]
  BY <1>3, <1>4, <1>5, <1>6, Moves
<1>8. asking' \in [Calls -> CallState] /\ Waiting' = Waiting \ {c}
  BY <1>1, <1>2, Answers
<1>9. \A t \in Live : t \in Socks \ {s}
  BY <1>5 DEF Live
<1> QED
  BY <1>1, <1>2, <1>3, <1>5, <1>7, <1>8, <1>9

LEMMA HandshakeMoves ==
  ASSUME TypeOK, NEW s \in Socks, Accept(s) \/ Join(s) \/ OnOpen(s)
  PROVE  /\ sock' \in [Socks -> SockState] /\ s \in Live
         /\ Live' = Live /\ Opened' = IF OnOpen(s) THEN Opened \cup {s} ELSE Opened
         /\ Waiting' = Waiting
         /\ \A t \in Live : sock'[t].inbox = sock[t].inbox
<1>0. sock \in [Socks -> SockState] /\ sock[s] \in SockState
  BY DEF TypeOK
<1>1. asking' = asking /\ sock[s].phase # "free"
  BY DEF Accept, Join, OnOpen
<1>2. PICK v \in SockState :
        /\ sock' = [sock EXCEPT ![s] = v]
        /\ v.inbox = sock[s].inbox /\ v.phase # "free"
        /\ IF OnOpen(s) THEN v.phase = "open" ELSE v.phase = "open" <=> sock[s].phase = "open"
  <2>1. CASE Accept(s) /\ ~OnOpen(s)
    <3> DEFINE v == [sock[s] EXCEPT !.phase = "accepted"]
    <3>1. v \in SockState /\ v.inbox = sock[s].inbox /\ v.phase = "accepted"
      BY <1>0 DEF SockState
    <3>2. sock' = [sock EXCEPT ![s] = v] /\ sock[s].phase = "connecting"
      BY <2>1 DEF Accept
    <3> QED
      BY <2>1, <3>1, <3>2
  <2>2. CASE Join(s) /\ ~OnOpen(s)
    <3> DEFINE v == [sock[s] EXCEPT !.joined = TRUE]
    <3>1. v \in SockState /\ v.inbox = sock[s].inbox /\ v.phase = sock[s].phase
      BY <1>0 DEF SockState
    <3>2. sock' = [sock EXCEPT ![s] = v]
      BY <2>2 DEF Join
    <3> QED
      BY <1>1, <2>2, <3>1, <3>2
  <2>3. CASE OnOpen(s)
    <3> DEFINE v == [sock[s] EXCEPT !.phase = "open"]
    <3>1. v \in SockState /\ v.inbox = sock[s].inbox /\ v.phase = "open"
      BY <1>0 DEF SockState
    <3>2. sock' = [sock EXCEPT ![s] = v]
      BY <2>3 DEF OnOpen
    <3> QED
      BY <2>3, <3>1, <3>2
  <2> QED
    BY <2>1, <2>2, <2>3
<1>3. /\ sock' \in [Socks -> SockState]
      /\ sock'[s] = v /\ \A t \in Socks \ {s} : sock'[t] = sock[t]
      /\ Live' = Live \cup {s}
      /\ Opened' = IF v.phase = "open" THEN Opened \cup {s} ELSE Opened \ {s}
  BY <1>2, Moves
<1>4. s \in Live /\ Live' = Live
  BY <1>1, <1>3 DEF Live
<1>5. Opened' = IF OnOpen(s) THEN Opened \cup {s} ELSE Opened
  BY <1>2, <1>3 DEF Opened
<1>6. Waiting' = Waiting
  BY <1>1 DEF Waiting
<1>7. \A t \in Live : sock'[t].inbox = sock[t].inbox
  BY <1>2, <1>3 DEF Live
<1> QED
  BY <1>3, <1>4, <1>5, <1>6, <1>7

(* A message reaches the sockets that joined, or is taken from an inbox. *)
LEMMA InboxMoves ==
  ASSUME TypeOK, NEW f \in [Socks -> SUBSET Changes], asking' = asking,
         sock' = [s \in Socks |-> [sock[s] EXCEPT !.inbox = f[s]]]
  PROVE  /\ sock' \in [Socks -> SockState]
         /\ Live' = Live /\ Opened' = Opened /\ Waiting' = Waiting
         /\ \A s \in Socks : sock'[s].inbox = f[s]
<1>1. sock \in [Socks -> SockState]
  BY DEF TypeOK
<1>2. \A s \in Socks : [sock[s] EXCEPT !.inbox = f[s]] \in SockState
  BY <1>1 DEF SockState
<1>3. sock' \in [Socks -> SockState]
  BY <1>1, <1>2
<1>4. \A s \in Socks : sock'[s].inbox = f[s] /\ sock'[s].phase = sock[s].phase
  BY <1>1 DEF SockState
<1> QED
  BY <1>3, <1>4 DEF Live, Opened, Waiting

LEMMA PublishMoves ==
  ASSUME TypeOK, NEW ch \in Changes, Publish(ch)
  PROVE  /\ sock' \in [Socks -> SockState] /\ gap' \in SUBSET Changes
         /\ Live' = Live /\ Opened' = Opened /\ Waiting' = Waiting
         /\ \A s \in Socks : sock[s].inbox \subseteq sock'[s].inbox
         /\ \/ \E s \in Live : ch \in sock'[s].inbox
            \/ ch \in gap'
            \/ Opened = {} /\ once
<1> DEFINE to == {s \in Live : sock[s].joined}
           f  == [s \in Socks |-> IF s \in to THEN sock[s].inbox \cup {ch} ELSE sock[s].inbox]
<1>1. sock \in [Socks -> SockState] /\ gap \in SUBSET Changes
  BY DEF TypeOK
<1>2. to \in SUBSET Live /\ to \in SUBSET Socks /\ \A s \in Socks : sock[s].inbox \in SUBSET Changes
  BY <1>1 DEF Live, SockState
<1>3. /\ f \in [Socks -> SUBSET Changes]
      /\ \A s \in Socks : sock[s].inbox \subseteq f[s]
      /\ \A s \in to : ch \in f[s]
  BY <1>2
<1>4. sock' = [s \in Socks |-> [sock[s] EXCEPT !.inbox = f[s]]]
  <2>1. sock' = [s \in Socks |-> IF s \in to THEN [sock[s] EXCEPT !.inbox = @ \cup {ch}] ELSE sock[s]]
    BY DEF Publish
  <2>2. \A s \in Socks : s \notin to => [sock[s] EXCEPT !.inbox = f[s]] = sock[s]
    BY <1>1 DEF SockState
  <2>3. \A s \in Socks : s \in to =>
          [sock[s] EXCEPT !.inbox = @ \cup {ch}] = [sock[s] EXCEPT !.inbox = f[s]]
    OBVIOUS
  <2> QED
    BY <2>1, <2>2, <2>3
<1>5. asking' = asking
  BY DEF Publish
<1> HIDE DEF f
<1>6. /\ sock' \in [Socks -> SockState]
      /\ Live' = Live /\ Opened' = Opened /\ Waiting' = Waiting
      /\ \A s \in Socks : sock'[s].inbox = f[s]
  BY <1>3, <1>4, <1>5, InboxMoves
<1>7. gap' = IF to = {} /\ (Opened # {} \/ ~once) THEN gap \cup {ch} ELSE gap
  BY DEF Publish
<1> HIDE DEF to
<1>8. to = {} \/ \E s \in Live : ch \in sock'[s].inbox
  BY <1>2, <1>3, <1>6
<1>9. gap' \in SUBSET Changes
  BY <1>1, <1>7
<1>10. \A s \in Socks : sock[s].inbox \subseteq sock'[s].inbox
  BY <1>3, <1>6
<1>11. to = {} => ch \in gap' \/ (Opened = {} /\ once)
  BY <1>7
<1> QED
  BY <1>6, <1>8, <1>9, <1>10, <1>11

LEMMA MessageMoves ==
  ASSUME TypeOK, NEW s \in Socks, NEW ch \in Changes, OnMessage(s, ch)
  PROVE  /\ sock' \in [Socks -> SockState]
         /\ Live' = Live /\ Opened' = Opened /\ Waiting' = Waiting
         /\ \A t \in Socks : sock[t].inbox \subseteq sock'[t].inbox \cup {ch}
<1> DEFINE f == [t \in Socks |-> IF t = s THEN sock[t].inbox \ {ch} ELSE sock[t].inbox]
<1>1. sock \in [Socks -> SockState] /\ \A t \in Socks : sock[t].inbox \in SUBSET Changes
  BY DEF TypeOK, SockState
<1>2. f \in [Socks -> SUBSET Changes] /\ \A t \in Socks : sock[t].inbox \subseteq f[t] \cup {ch}
  BY <1>1
<1>3. sock' = [t \in Socks |-> [sock[t] EXCEPT !.inbox = f[t]]]
  <2>1. sock' = [sock EXCEPT ![s].inbox = @ \ {ch}]
    BY DEF OnMessage
  <2>2. \A t \in Socks : t # s => [sock[t] EXCEPT !.inbox = f[t]] = sock[t]
    BY <1>1 DEF SockState
  <2> QED
    BY <1>1, <2>1, <2>2
<1>4. asking' = asking
  BY DEF OnMessage
<1> HIDE DEF f
<1>5. /\ sock' \in [Socks -> SockState]
      /\ Live' = Live /\ Opened' = Opened /\ Waiting' = Waiting
      /\ \A t \in Socks : sock'[t].inbox = f[t]
  BY <1>2, <1>3, <1>4, InboxMoves
<1> QED
  BY <1>2, <1>5

(* Nothing in use changes. *)
LEMMA UseKept ==
  ASSUME UNCHANGED <<asking, sock>>
  PROVE  Live' = Live /\ Opened' = Opened /\ Waiting' = Waiting
BY DEF Live, Opened, Waiting

(* The ways a socket ends. *)
LEMMA ClosedMoves ==
  ASSUME TypeOK, NEW s \in Socks, Closed(s), asking' = asking
  PROVE  /\ sock' \in [Socks -> SockState] /\ gap' \in SUBSET Changes
         /\ Live' = Live \ {s} /\ Opened' = Opened \ {s} /\ Waiting' = Waiting
         /\ \A t \in Live' : sock'[t] = sock[t]
         /\ gap \subseteq gap' /\ (~once => sock[s].inbox \subseteq gap')
         /\ ping' = NoSock /\ status' = "disconnected"
         /\ wsRef' = IF wsRef = s THEN NoSock ELSE wsRef
<1>1. Detach(s)
  BY DEF Closed
<1>2. Waiting' = Waiting
  BY DEF Waiting
<1> QED
  BY <1>1, <1>2, Detaches DEF Closed

(* The steps that leave the connection, or the caches, alone. *)
ServerMoves == \/ FetchRead \/ FetchLands
               \/ \E ch \in Changes : Commit(ch) \/ PublishLost(ch)

(* The steps by which a socket is closed by the network or the server. *)
ClosingMoves(s) == Rejected(s) \/ Dropped(s) \/ ClosedUnauthorized(s)

SessionMoves(u) == \/ u \in Users /\ SignIn(u)
                   \/ u = NoUser /\ SignOut
                   \/ u = user /\ ProfileChanged

LEMMA NextMoves ==
  ASSUME TypeOK, Next
  PROVE  \/ \E u \in People : SessionMoves(u)
         \/ \E c \in Calls : TicketGranted(c) \/ TicketRefused(c)
         \/ \E c \in Calls : OpenSocket(c)
         \/ \E s \in Socks : Accept(s) \/ Join(s) \/ OnOpen(s)
         \/ \E s \in Socks : ClosingMoves(s)
         \/ TimerFires
         \/ \E ch \in Changes : Publish(ch)
         \/ \E s \in Socks, ch \in Changes : OnMessage(s, ch)
         \/ ServerMoves
<1>1. user \in People
  BY DEF TypeOK
<1>2. NoUser \in People /\ Users \subseteq People
  BY DEF People
<1> QED
  BY <1>1, <1>2 DEF Next, Client, SessionMoves, ClosingMoves, ServerMoves

LEMMA ClosingMovesClose ==
  ASSUME NEW s \in Socks, ClosingMoves(s)
  PROVE  /\ Closed(s) /\ asking' = asking /\ s \in Live
         /\ \/ timer' = TRUE /\ banned' = banned
            \/ s \in Opened /\ timer' = timer /\ banned' = TRUE
         /\ faults' \in {faults, faults + 1}
         /\ UNCHANGED <<user, once, committed, pool, cache, raced, sessions>>
BY DEF ClosingMoves, Rejected, Dropped, ClosedUnauthorized, OnClose, Live, Opened

-----------------------------------------------------------------------------
LEMMA TypeStep == TypeOK /\ [Next]_vars => TypeOK'
<1> SUFFICES ASSUME TypeOK, [Next]_vars
             PROVE  TypeOK'
  OBVIOUS
<1>0. NoUser \in People /\ Users \subseteq People /\ SentFetch \in FetchState /\ NoFetch \in FetchState
  BY DEF People, SentFetch, NoFetch, FetchState
<1>1. ASSUME NEW u \in People, SessionMoves(u)
      PROVE  TypeOK'
  <2>1. EffectRun(u) /\ u \in People
    BY <1>1 DEF SessionMoves, SignIn, SignOut, ProfileChanged
  <2>2. /\ asking' \in [Calls -> CallState] /\ sock' \in [Socks -> SockState]
        /\ gap' \in SUBSET Changes
        /\ status' \in {"connecting", "disconnected"} /\ once' \in BOOLEAN
    BY <2>1, EffectMoves DEF TypeOK
  <2>3. /\ fetch' \in FetchState /\ list' \in SUBSET (SUBSET Changes)
        /\ excused' \in SUBSET Changes /\ again' \in BOOLEAN
    BY <1>0, <1>1 DEF TypeOK, SessionMoves, SignIn, SignOut, ProfileChanged, cache
  <2>4. raced' \in BOOLEAN
    BY <2>1 DEF EffectRun
  <2>5. /\ user' = u /\ wsRef' = NoSock /\ timer' = FALSE /\ ping' = NoSock
        /\ sessions' = sessions + 1
        /\ UNCHANGED <<banned, committed, pool, faults>>
    BY <2>1 DEF EffectRun
  <2>6. user' \in People /\ wsRef' \in Socks \cup {NoSock} /\ ping' \in Socks \cup {NoSock}
    BY <2>5
  <2>7. timer' \in BOOLEAN
    BY <2>5
  <2>8. sessions' \in Nat
    BY <2>5 DEF TypeOK
  <2>9. /\ banned' \in BOOLEAN /\ committed' \in SUBSET Changes /\ pool' \in SUBSET Changes
        /\ faults' \in Nat
    BY <2>5 DEF TypeOK
  <2> QED
    BY <2>2, <2>3, <2>4, <2>6, <2>7, <2>8, <2>9 DEF TypeOK
<1>2. ASSUME NEW c \in Calls, TicketGranted(c) \/ TicketRefused(c)
      PROVE  TypeOK'
  <2>1. asking' \in [Calls -> CallState]
    BY <1>2, TicketMoves
  <2> QED
    BY <1>2, <2>1 DEF TypeOK, TicketGranted, TicketRefused, server, cache
<1>3. ASSUME NEW c \in Calls, OpenSocket(c)
      PROVE  TypeOK'
  <2>1. asking' \in [Calls -> CallState] /\ sock' \in [Socks -> SockState] /\ wsRef' \in Socks
    BY <1>3, OpenMoves
  <2> QED
    BY <1>3, <2>1 DEF TypeOK, OpenSocket, server, cache
<1>4. ASSUME NEW s \in Socks, Accept(s) \/ Join(s) \/ OnOpen(s)
      PROVE  TypeOK'
  <2>1. sock' \in [Socks -> SockState]
    BY <1>4, HandshakeMoves
  <2> QED
    BY <1>0, <1>4, <2>1 DEF TypeOK, Accept, Join, OnOpen, server, cache
<1>5. ASSUME NEW s \in Socks, ClosingMoves(s)
      PROVE  TypeOK'
  <2>1. /\ Closed(s) /\ asking' = asking
        /\ timer' \in {TRUE, timer} /\ banned' \in {TRUE, banned} /\ faults' \in {faults, faults + 1}
        /\ UNCHANGED <<user, once, committed, pool, cache, raced, sessions>>
    BY <1>5, ClosingMovesClose
  <2>2. /\ sock' \in [Socks -> SockState] /\ gap' \in SUBSET Changes
        /\ ping' = NoSock /\ status' = "disconnected" /\ wsRef' \in {NoSock, wsRef}
    BY <2>1, ClosedMoves
  <2>3. timer' \in BOOLEAN /\ banned' \in BOOLEAN
    BY <2>1 DEF TypeOK
  <2> QED
    BY <2>1, <2>2, <2>3 DEF TypeOK, cache
<1>6. CASE TimerFires
  <2>1. StartConnect /\ Detach(wsRef) /\ wsRef \in Socks \cup {NoSock}
    BY <1>6 DEF TimerFires, TypeOK
  <2>2. /\ asking' \in [Calls -> CallState] /\ status' = "connecting"
        /\ sock' \in [Socks -> SockState] /\ gap' \in SUBSET Changes
    BY <2>1, Starts, Detaches
  <2> QED
    BY <1>6, <2>2 DEF TypeOK, TimerFires, cache
<1>7. ASSUME NEW ch \in Changes, Publish(ch)
      PROVE  TypeOK'
  <2>1. sock' \in [Socks -> SockState] /\ gap' \in SUBSET Changes
    BY <1>7, PublishMoves
  <2>2. pool' = pool \ {ch}
    BY <1>7 DEF Publish
  <2>3. UNCHANGED <<user, asking, wsRef, timer, ping, once, status, banned, committed, list, fetch,
                    excused, again, raced, sessions, faults>>
    BY <1>7 DEF Publish, cache
  <2> QED
    BY <2>1, <2>2, <2>3 DEF TypeOK
<1>8. ASSUME NEW s \in Socks, NEW ch \in Changes, OnMessage(s, ch)
      PROVE  TypeOK'
  <2>1. sock' \in [Socks -> SockState]
    BY <1>8, MessageMoves
  <2>2. list' \in SUBSET (SUBSET Changes) /\ excused' \in SUBSET Changes
    BY <1>8 DEF TypeOK, OnMessage
  <2>3. UNCHANGED <<user, asking, wsRef, timer, ping, once, status, banned, committed, pool, gap,
                    fetch, again, raced, sessions, faults>>
    BY <1>8 DEF OnMessage, server
  <2> QED
    BY <2>1, <2>2, <2>3 DEF TypeOK
<1>9. CASE ServerMoves
  <2>1. CASE FetchRead
    BY <2>1 DEF TypeOK, FetchRead, FetchState, server
  <2>2. CASE FetchLands
    <3>1. fetch.data \in SUBSET Changes
      BY DEF TypeOK, FetchState
    <3>2. excused' \in SUBSET Changes /\ list' \in SUBSET (SUBSET Changes)
      BY <2>2, <3>1 DEF FetchLands, TypeOK
    <3> QED
      BY <1>0, <2>2, <3>2 DEF TypeOK, FetchLands, server
  <2>3. ASSUME NEW ch \in Changes, Commit(ch)
        PROVE  TypeOK'
    BY <2>3 DEF TypeOK, Commit, cache
  <2>4. ASSUME NEW ch \in Changes, PublishLost(ch)
        PROVE  TypeOK'
    BY <2>4 DEF TypeOK, PublishLost
  <2> QED
    BY <1>9, <2>1, <2>2, <2>3, <2>4 DEF ServerMoves
<1>10. CASE UNCHANGED vars
  BY <1>10 DEF TypeOK, vars
<1> QED
  BY <1>1, <1>2, <1>3, <1>4, <1>5, <1>6, <1>7, <1>8, <1>9, <1>10, NextMoves

-----------------------------------------------------------------------------
LEMMA OpenIsLive == Opened \subseteq Live
BY DEF Opened, Live

LEMMA ConnectionStep == TypeOK /\ OneAttempt /\ [Next]_vars => OneAttempt'
<1> SUFFICES ASSUME TypeOK, OneAttempt, [Next]_vars, ~raced'
             PROVE  Agreed'
  BY DEF OneAttempt
<1>0. Opened \subseteq Live /\ Live \subseteq Socks /\ NoSock \notin Socks /\ NoUser \notin Users
  BY OpenIsLive, ClientAssumption DEF Live
<1>1. ASSUME NEW u \in People, SessionMoves(u)
      PROVE  Agreed'
  <2>1. EffectRun(u) /\ u \in People
    BY <1>1 DEF SessionMoves, SignIn, SignOut, ProfileChanged
  <2>2. Waiting = {} /\ Agreed
    BY <2>1 DEF EffectRun, OneAttempt
  <2>3. /\ Live' = Live \ {wsRef} /\ Opened' = Opened \ {wsRef}
        /\ IF u = NoUser THEN Waiting' = Waiting /\ status' = "disconnected"
           ELSE /\ \E c \in Calls : c \notin Waiting /\ Waiting' = Waiting \cup {c}
                /\ status' = "connecting"
    BY <2>1, EffectMoves
  <2>4. Live' = {} /\ Opened' = {}
    BY <1>0, <2>2, <2>3 DEF Agreed
  <2>5. user' = u /\ wsRef' = NoSock /\ ~timer' /\ ping' = NoSock
    BY <2>1 DEF EffectRun
  <2> QED
    BY <2>2, <2>3, <2>4, <2>5 DEF Agreed
<1>2. ASSUME NEW c \in Calls, TicketGranted(c) \/ TicketRefused(c)
      PROVE  Agreed'
  <2>1. Waiting' = Waiting /\ Live' = Live /\ Opened' = Opened
    BY <1>2, TicketMoves
  <2>2. UNCHANGED <<user, wsRef, timer, ping, status, raced>>
    BY <1>2 DEF TicketGranted, TicketRefused
  <2> QED
    BY <2>1, <2>2 DEF OneAttempt, Agreed
<1>3. ASSUME NEW c \in Calls, OpenSocket(c)
      PROVE  Agreed'
  <2>1. /\ c \in Waiting /\ Waiting' = Waiting \ {c} /\ wsRef' \in Socks
        /\ Live' = Live \cup {wsRef'} /\ Opened' = Opened
    BY <1>3, OpenMoves
  <2>2. UNCHANGED <<user, timer, ping, status, raced>>
    BY <1>3 DEF OpenSocket
  <2>3. Agreed
    BY <2>2 DEF OneAttempt
  <2>4. Live = {} /\ Opened = {} /\ ~timer /\ Waiting' = {} /\ user # NoUser
    BY <1>0, <2>1, <2>3 DEF Agreed
  <2> QED
    BY <1>0, <2>1, <2>2, <2>3, <2>4 DEF Agreed
<1>4. ASSUME NEW s \in Socks, Accept(s) \/ Join(s) \/ OnOpen(s)
      PROVE  Agreed'
  <2>1. /\ s \in Live /\ Live' = Live /\ Waiting' = Waiting
        /\ Opened' = IF OnOpen(s) THEN Opened \cup {s} ELSE Opened
    BY <1>4, HandshakeMoves
  <2>2. UNCHANGED <<user, wsRef, timer, raced>>
    BY <1>4 DEF Accept, Join, OnOpen
  <2>3. Agreed
    BY <2>2 DEF OneAttempt
  <2>4. CASE OnOpen(s)
    <3>1. status' = "connected" /\ ping' = s
      BY <2>4 DEF OnOpen
    <3> QED
      BY <2>1, <2>2, <2>3, <2>4, <3>1 DEF Agreed
  <2>5. CASE ~OnOpen(s)
    <3>1. UNCHANGED <<status, ping>>
      BY <1>4, <2>5 DEF Accept, Join
    <3> QED
      BY <2>1, <2>2, <2>3, <2>5, <3>1 DEF Agreed
  <2> QED
    BY <2>4, <2>5
<1>5. ASSUME NEW s \in Socks, ClosingMoves(s)
      PROVE  Agreed'
  <2>1. /\ Closed(s) /\ asking' = asking /\ s \in Live
        /\ UNCHANGED <<user, raced>>
    BY <1>5, ClosingMovesClose
  <2>2. /\ Live' = Live \ {s} /\ Opened' = Opened \ {s} /\ Waiting' = Waiting
        /\ ping' = NoSock /\ status' = "disconnected"
        /\ wsRef' = IF wsRef = s THEN NoSock ELSE wsRef
    BY <2>1, ClosedMoves
  <2>3. Agreed
    BY <2>1 DEF OneAttempt
  <2>4. s = wsRef /\ Waiting = {} /\ user # NoUser
    BY <2>1, <2>3 DEF Agreed
  <2>5. Live' = {} /\ Opened' = {} /\ wsRef' = NoSock
    BY <1>0, <2>2, <2>3, <2>4 DEF Agreed
  <2> QED
    BY <2>1, <2>2, <2>4, <2>5 DEF Agreed
<1>6. CASE TimerFires
  <2>1. StartConnect /\ Detach(wsRef) /\ wsRef \in Socks \cup {NoSock}
    BY <1>6 DEF TimerFires, TypeOK
  <2>2. /\ \E c \in Calls : c \notin Waiting /\ Waiting' = Waiting \cup {c}
        /\ status' = "connecting" /\ Live' = Live \ {wsRef} /\ Opened' = Opened \ {wsRef}
    BY <2>1, Starts, Detaches
  <2>3. timer /\ ~timer' /\ wsRef' = NoSock /\ user' = user /\ ping' = ping
    BY <1>6 DEF TimerFires
  <2>4. Waiting = {} /\ Agreed
    BY <1>6 DEF TimerFires, OneAttempt
  <2>5. Live = {} /\ Opened = {} /\ ping = NoSock /\ user # NoUser
    BY <1>0, <2>3, <2>4 DEF Agreed
  <2> QED
    BY <2>2, <2>3, <2>4, <2>5 DEF Agreed
<1>7. ASSUME NEW ch \in Changes, Publish(ch)
      PROVE  Agreed'
  <2>1. Live' = Live /\ Opened' = Opened /\ Waiting' = Waiting
    BY <1>7, PublishMoves
  <2>2. UNCHANGED <<user, wsRef, timer, ping, status, raced>>
    BY <1>7 DEF Publish
  <2> QED
    BY <2>1, <2>2 DEF OneAttempt, Agreed
<1>8. ASSUME NEW s \in Socks, NEW ch \in Changes, OnMessage(s, ch)
      PROVE  Agreed'
  <2>1. Live' = Live /\ Opened' = Opened /\ Waiting' = Waiting
    BY <1>8, MessageMoves
  <2>2. UNCHANGED <<user, wsRef, timer, ping, status, raced>>
    BY <1>8 DEF OnMessage
  <2> QED
    BY <2>1, <2>2 DEF OneAttempt, Agreed
<1>9. CASE ServerMoves \/ UNCHANGED vars
  <2>1. UNCHANGED <<user, asking, sock, wsRef, timer, ping, status, raced>>
    BY <1>9 DEF ServerMoves, FetchRead, FetchLands, Commit, PublishLost, vars
  <2>2. Live' = Live /\ Opened' = Opened /\ Waiting' = Waiting
    BY <2>1, UseKept
  <2> QED
    BY <2>1, <2>2 DEF OneAttempt, Agreed
<1> QED
  BY <1>1, <1>2, <1>3, <1>4, <1>5, <1>6, <1>7, <1>8, <1>9, NextMoves

-----------------------------------------------------------------------------
LEMMA ReconnectsStep == TypeOK /\ Reconnects /\ [Next]_vars => Reconnects'
<1> SUFFICES ASSUME TypeOK, Reconnects, [Next]_vars, user' # NoUser, ~banned'
             PROVE  timer' \/ Waiting' # {} \/ Live' # {}
  BY DEF Reconnects
<1>1. ASSUME NEW u \in People, SessionMoves(u)
      PROVE  Waiting' # {}
  <2>1. EffectRun(u) /\ user' = u
    BY <1>1 DEF SessionMoves, SignIn, SignOut, ProfileChanged, EffectRun
  <2> QED
    BY <2>1, EffectMoves
<1>2. ASSUME NEW c \in Calls, TicketGranted(c) \/ TicketRefused(c)
      PROVE  timer' \/ Waiting' # {} \/ Live' # {}
  BY <1>2, TicketMoves DEF TicketGranted, TicketRefused, Reconnects
<1>3. ASSUME NEW c \in Calls, OpenSocket(c)
      PROVE  Live' # {}
  BY <1>3, OpenMoves
<1>4. ASSUME NEW s \in Socks, Accept(s) \/ Join(s) \/ OnOpen(s)
      PROVE  Live' # {}
  BY <1>4, HandshakeMoves
<1>5. ASSUME NEW s \in Socks, ClosingMoves(s)
      PROVE  timer'
  BY <1>5, ClosingMovesClose
<1>6. CASE TimerFires
  <2>1. StartConnect
    BY <1>6 DEF TimerFires
  <2> QED
    BY <2>1, Starts
<1>7. ASSUME NEW ch \in Changes, Publish(ch)
      PROVE  timer' \/ Waiting' # {} \/ Live' # {}
  BY <1>7, PublishMoves DEF Publish, Reconnects
<1>8. ASSUME NEW s \in Socks, NEW ch \in Changes, OnMessage(s, ch)
      PROVE  timer' \/ Waiting' # {} \/ Live' # {}
  BY <1>8, MessageMoves DEF OnMessage, Reconnects
<1>9. CASE ServerMoves \/ UNCHANGED vars
  <2>1. UNCHANGED <<user, asking, sock, timer, banned>>
    BY <1>9 DEF ServerMoves, FetchRead, FetchLands, Commit, PublishLost, vars
  <2> QED
    BY <2>1, UseKept DEF Reconnects
<1> QED
  BY <1>1, <1>2, <1>3, <1>4, <1>5, <1>6, <1>7, <1>8, <1>9, NextMoves

-----------------------------------------------------------------------------
Causes == Reconnects /\ MissingHasCause /\ AnswerCurrent

LEMMA RecoveringIs == Recovering <=> timer \/ Waiting # {} \/ Live # Opened
BY DEF Recovering, Live, Opened

LEMMA RecoveringNext == Recovering' <=> timer' \/ Waiting' # {} \/ Live' # Opened'
BY DEF Recovering, Live, Opened

LEMMA MissingIs ==
  \A ch : ch \in Missing <=> user # NoUser /\ ch \in committed /\ \E l \in list : ch \notin l
BY DEF Missing

LEMMA MissingNext ==
  \A ch : ch \in Missing' <=> user' # NoUser /\ ch \in committed' /\ \E l \in list' : ch \notin l
BY DEF Missing

(* MissingHasCause in terms of Known. *)
LEMMA CausesAre ==
  MissingHasCause <=> (~banned => \A ch \in Missing : Known(ch) \/ fetch.st = "sent" \/ ch \in fetch.data)
BY DEF MissingHasCause, Coming, Known

LEMMA CausesAreNext ==
  MissingHasCause' <=>
    (~banned' => \A ch \in Missing' : Known(ch)' \/ fetch'.st = "sent" \/ ch \in fetch'.data)
BY DEF MissingHasCause, Coming, Known

(* Enough for a step that leaves the cached list and the request alone. *)
LEMMA CausesKept ==
  ASSUME TypeOK, Causes, UNCHANGED <<user, committed, list, fetch>>, banned => banned',
         ~banned' /\ user # NoUser => \A ch \in Changes : Known(ch) => Known(ch)'
  PROVE  MissingHasCause' /\ AnswerCurrent'
<1>1. committed \in SUBSET Changes
  BY DEF TypeOK
<1>2. Missing' = Missing /\ Missing \subseteq committed /\ (user = NoUser => Missing = {})
  BY DEF Missing
<1>3. MissingHasCause'
  BY <1>1, <1>2, CausesAre, CausesAreNext DEF Causes, TypeOK
<1>4. \A ch : InEvery(ch)' <=> InEvery(ch)
  BY DEF InEvery
<1>5. AnswerCurrent'
  BY <1>1, <1>4 DEF Causes, AnswerCurrent, TypeOK
<1> QED
  BY <1>3, <1>5

(* A change that was known stays so when a socket is closed and, if it ever was
   open, a reconnection is due. *)
LEMMA KnownThroughClosing ==
  ASSUME TypeOK, NEW s \in Socks \cup {NoSock},
         pool' = pool, excused \subseteq excused', gap \subseteq gap',
         Live' = Live \ {s}, \A t \in Live' : sock'[t] = sock[t],
         ~once /\ s \in Live => sock[s].inbox \subseteq gap',
         once => once' /\ Recovering'
  PROVE  \A ch : Known(ch) => Known(ch)'
BY DEF Known

(* or when nothing happens to messages and a due resynchronisation stays due. *)
LEMMA KnownKept ==
  ASSUME pool \subseteq pool', excused \subseteq excused', gap \subseteq gap',
         Live \subseteq Live', \A t \in Live : sock'[t].inbox = sock[t].inbox,
         Recovering /\ once => Recovering' /\ once'
  PROVE  \A ch : Known(ch) => Known(ch)'
BY DEF Known

LEMMA CausesStep == TypeOK /\ Causes /\ [Next]_vars => MissingHasCause' /\ AnswerCurrent'
<1> SUFFICES ASSUME TypeOK, Causes, [Next]_vars
             PROVE  MissingHasCause' /\ AnswerCurrent'
  OBVIOUS
<1>0. Opened \subseteq Live /\ Live \subseteq Socks /\ wsRef \in Socks \cup {NoSock}
  BY OpenIsLive DEF Live, TypeOK
<1>1. ASSUME NEW u \in People, SessionMoves(u)
      PROVE  MissingHasCause' /\ AnswerCurrent'
  <2>1. EffectRun(u) /\ user' = u
    BY <1>1 DEF SessionMoves, SignIn, SignOut, ProfileChanged, EffectRun
  <2>2. CASE u = NoUser
    BY <2>1, <2>2, CausesAreNext, MissingNext DEF AnswerCurrent
  <2>3. CASE u # NoUser /\ SignIn(u)
    BY <2>3, CausesAreNext DEF AnswerCurrent, SignIn, SentFetch
  <2>4. CASE u # NoUser /\ u = user /\ ProfileChanged
    <3>1. UNCHANGED <<user, committed, list, fetch, excused, banned, pool>>
      BY <2>1, <2>4 DEF ProfileChanged, EffectRun, cache
    <3>2. /\ Live' = Live \ {wsRef} /\ \A t \in Live' : sock'[t] = sock[t]
          /\ gap \subseteq gap'
          /\ ~once /\ wsRef \in Socks => sock[wsRef].inbox \subseteq gap'
          /\ Waiting' # {} /\ once' = once
      BY <2>1, <2>4, EffectMoves
    <3>3. Recovering'
      BY <3>2, RecoveringNext
    <3>4. \A ch : Known(ch) => Known(ch)'
      BY <1>0, <3>1, <3>2, <3>3, KnownThroughClosing
    <3> QED
      BY <3>1, <3>4, CausesKept
  <2> QED
    BY <1>1, <2>2, <2>3, <2>4 DEF SessionMoves
<1>2. ASSUME NEW c \in Calls, TicketGranted(c) \/ TicketRefused(c)
      PROVE  MissingHasCause' /\ AnswerCurrent'
  <2>1. UNCHANGED <<user, sock, timer, once, banned, committed, pool, gap, list, fetch, excused>>
    BY <1>2 DEF TicketGranted, TicketRefused, server, cache
  <2>2. Waiting' = Waiting /\ Live' = Live /\ Opened' = Opened
    BY <1>2, TicketMoves
  <2>3. Recovering' <=> Recovering
    BY <2>1, <2>2, RecoveringIs, RecoveringNext
  <2>4. \A ch : Known(ch) => Known(ch)'
    BY <2>1, <2>2, <2>3, KnownKept
  <2> QED
    BY <2>1, <2>4, CausesKept
<1>3. ASSUME NEW c \in Calls, OpenSocket(c)
      PROVE  MissingHasCause' /\ AnswerCurrent'
  <2>1. UNCHANGED <<user, timer, once, banned, committed, pool, gap, list, fetch, excused>>
    BY <1>3 DEF OpenSocket, server, cache
  <2>2. /\ wsRef' \notin Live /\ Live' = Live \cup {wsRef'} /\ Opened' = Opened
        /\ \A t \in Live : sock'[t] = sock[t]
    BY <1>3, OpenMoves
  <2>3. Recovering'
    BY <1>0, <2>2, RecoveringNext
  <2>4. \A ch : Known(ch) => Known(ch)'
    BY <2>1, <2>2, <2>3, KnownKept
  <2> QED
    BY <2>1, <2>4, CausesKept
<1>4. ASSUME NEW s \in Socks, Accept(s) \/ Join(s) \/ OnOpen(s)
      PROVE  MissingHasCause' /\ AnswerCurrent'
  <2>1. /\ Live' = Live /\ Waiting' = Waiting
        /\ Opened' = IF OnOpen(s) THEN Opened \cup {s} ELSE Opened
        /\ \A t \in Live : sock'[t].inbox = sock[t].inbox
    BY <1>4, HandshakeMoves
  <2>2. UNCHANGED <<user, timer, banned, committed, pool, gap, list, excused>>
    BY <1>4 DEF Accept, Join, OnOpen, server, cache
  <2>3. CASE OnOpen(s) /\ once /\ user # NoUser
    <3>1. fetch' = SentFetch
      BY <2>3 DEF OnOpen
    <3> QED
      BY <3>1, CausesAreNext DEF AnswerCurrent, SentFetch
  <2>4. CASE user = NoUser
    BY <2>2, <2>4, CausesAreNext, MissingNext DEF AnswerCurrent
  <2>5. CASE OnOpen(s) /\ ~once
    <3>1. fetch' = fetch
      BY <2>5 DEF OnOpen
    <3>2. \A ch : Known(ch) => Known(ch)'
      BY <2>1, <2>2, <2>5, KnownKept
    <3> QED
      BY <2>2, <3>1, <3>2, CausesKept
  <2>6. CASE ~OnOpen(s)
    <3>1. fetch' = fetch /\ once' = once
      BY <1>4, <2>6 DEF Accept, Join, cache
    <3>2. Recovering' <=> Recovering
      BY <2>1, <2>2, <2>6, RecoveringIs, RecoveringNext
    <3>3. \A ch : Known(ch) => Known(ch)'
      BY <2>1, <2>2, <3>1, <3>2, KnownKept
    <3> QED
      BY <2>2, <3>1, <3>3, CausesKept
  <2> QED
    BY <2>3, <2>4, <2>5, <2>6
<1>5. ASSUME NEW s \in Socks, ClosingMoves(s)
      PROVE  MissingHasCause' /\ AnswerCurrent'
  <2>1. /\ Closed(s) /\ asking' = asking
        /\ (timer' = TRUE /\ banned' = banned) \/ banned' = TRUE
        /\ UNCHANGED <<user, once, committed, pool, list, fetch, excused>>
    BY <1>5, ClosingMovesClose DEF cache
  <2>2. CASE banned' = TRUE
    BY <2>2, CausesAreNext DEF AnswerCurrent
  <2>3. CASE timer' = TRUE /\ banned' = banned
    <3>1. /\ Live' = Live \ {s} /\ \A t \in Live' : sock'[t] = sock[t]
          /\ gap \subseteq gap' /\ (~once => sock[s].inbox \subseteq gap')
      BY <2>1, ClosedMoves
    <3>2. Recovering'
      BY <2>3, RecoveringNext
    <3>3. \A ch : Known(ch) => Known(ch)'
      BY <2>1, <3>1, <3>2, KnownThroughClosing
    <3> QED
      BY <2>1, <2>3, <3>3, CausesKept
  <2> QED
    BY <2>1, <2>2, <2>3
<1>6. CASE TimerFires
  <2>1. /\ StartConnect /\ Detach(wsRef)
        /\ UNCHANGED <<user, once, banned, committed, pool, list, fetch, excused>>
    BY <1>6 DEF TimerFires, cache
  <2>2. /\ Waiting' # {} /\ Live' = Live \ {wsRef} /\ \A t \in Live' : sock'[t] = sock[t]
        /\ gap \subseteq gap'
        /\ ~once /\ wsRef \in Socks => sock[wsRef].inbox \subseteq gap'
    BY <1>0, <2>1, Starts, Detaches
  <2>3. Recovering'
    BY <2>2, RecoveringNext
  <2>4. \A ch : Known(ch) => Known(ch)'
    BY <1>0, <2>1, <2>2, <2>3, KnownThroughClosing
  <2> QED
    BY <2>1, <2>4, CausesKept
<1>7. ASSUME NEW ch \in Changes, Publish(ch)
      PROVE  MissingHasCause' /\ AnswerCurrent'
  <2>1. /\ Live' = Live /\ Opened' = Opened /\ Waiting' = Waiting
        /\ \A s \in Socks : sock[s].inbox \subseteq sock'[s].inbox
        /\ \/ \E s \in Live : ch \in sock'[s].inbox
           \/ ch \in gap'
           \/ Opened = {} /\ once
    BY <1>7, PublishMoves
  <2>2. /\ UNCHANGED <<user, timer, once, banned, committed, list, fetch, excused>>
        /\ pool' = pool \ {ch} /\ gap \subseteq gap'
    BY <1>7 DEF Publish, cache
  <2>3. Recovering' <=> Recovering
    BY <2>1, <2>2, RecoveringIs, RecoveringNext
  <2>4. ASSUME ~banned', user # NoUser, NEW x \in Changes, Known(x)
        PROVE  Known(x)'
    <3>1. CASE x # ch
      BY <1>0, <2>1, <2>2, <2>3, <2>4, <3>1 DEF Known
    <3>2. CASE x = ch
      <4>1. Opened = {} => Recovering
        BY <2>2, <2>4, RecoveringIs DEF Causes, Reconnects
      <4> QED
        BY <2>1, <2>2, <2>3, <3>2, <4>1 DEF Known
    <3> QED
      BY <3>1, <3>2
  <2> QED
    BY <2>2, <2>4, CausesKept
<1>8. ASSUME NEW s \in Socks, NEW ch \in Changes, OnMessage(s, ch)
      PROVE  MissingHasCause' /\ AnswerCurrent'
  <2>1. /\ Live' = Live /\ Opened' = Opened /\ Waiting' = Waiting
        /\ \A t \in Socks : sock[t].inbox \subseteq sock'[t].inbox \cup {ch}
    BY <1>8, MessageMoves
  <2>2. /\ UNCHANGED <<user, timer, once, banned, committed, pool, gap, fetch>>
        /\ list' = {l \cup {ch} : l \in list}
        /\ excused \subseteq excused'
        /\ list = {} /\ fetch.st = "read" /\ ch \notin fetch.data => ch \in excused'
    BY <1>8 DEF OnMessage, server
  <2>3. Recovering' <=> Recovering
    BY <2>1, <2>2, RecoveringIs, RecoveringNext
  <2>4. \A x : x # ch /\ Known(x) => Known(x)'
    BY <1>0, <2>1, <2>2, <2>3 DEF Known
  <2>5. \A x : x \in Missing' => x # ch /\ x \in Missing
    BY <2>2, MissingIs, MissingNext
  <2>6. MissingHasCause'
    BY <2>2, <2>4, <2>5, CausesAre, CausesAreNext DEF Causes
  <2>7. ASSUME ~banned', user' # NoUser, fetch'.st = "read", NEW x \in committed' \ fetch'.data
        PROVE  Known(x)' \/ InEvery(x)'
    <3>1. Known(x) \/ InEvery(x)
      BY <2>2, <2>7 DEF Causes, AnswerCurrent
    <3>2. CASE x # ch
      <4>1. InEvery(x) => InEvery(x)'
        BY <2>2 DEF InEvery
      <4> QED
        BY <2>4, <3>1, <3>2, <4>1
    <3>3. CASE x = ch /\ list = {}
      BY <2>2, <2>7, <3>3 DEF Known
    <3>4. CASE x = ch /\ list # {}
      BY <2>2, <3>4 DEF InEvery
    <3> QED
      BY <3>2, <3>3, <3>4
  <2>8. AnswerCurrent'
    BY <2>7 DEF AnswerCurrent
  <2> QED
    BY <2>6, <2>8
<1>9. CASE ServerMoves
  <2>1. /\ UNCHANGED <<user, asking, sock, timer, once, banned, gap>>
        /\ excused \subseteq excused'
    BY <1>9 DEF ServerMoves, FetchRead, FetchLands, Commit, PublishLost, cache, server
  <2>2. Live' = Live /\ Opened' = Opened /\ Waiting' = Waiting
    BY <2>1, UseKept
  <2>3. Recovering' <=> Recovering
    BY <2>1, <2>2, RecoveringIs, RecoveringNext
  <2>4. pool \subseteq pool' => \A x : Known(x) => Known(x)'
    BY <2>1, <2>2, <2>3, KnownKept
  <2>5. CASE FetchRead
    <3>1. fetch'.data = committed /\ UNCHANGED <<committed, list>>
      BY <2>5 DEF FetchRead, server
    <3>2. MissingHasCause'
      BY <3>1, CausesAreNext, MissingNext
    <3>3. AnswerCurrent'
      BY <3>1 DEF AnswerCurrent
    <3> QED
      BY <3>2, <3>3
  <2>6. CASE FetchLands
    <3>1. /\ fetch.st = "read" /\ fetch' = NoFetch /\ list' = {fetch.data}
          /\ excused' = excused \cup ((UNION list) \ fetch.data)
          /\ UNCHANGED <<committed, pool>>
      BY <2>6 DEF FetchLands, server
    <3>2. ASSUME ~banned', NEW x \in Missing'
          PROVE  Known(x)'
      <4>1. user # NoUser /\ x \in committed \ fetch.data
        BY <2>1, <3>1, <3>2, MissingNext
      <4>2. Known(x) \/ InEvery(x)
        BY <2>1, <3>1, <3>2, <4>1 DEF Causes, AnswerCurrent
      <4>3. InEvery(x) => x \in excused'
        BY <3>1, <4>1 DEF InEvery
      <4>4. x \in excused' => Known(x)'
        BY DEF Known
      <4>5. Known(x) => Known(x)'
        BY <2>4, <3>1
      <4> QED
        BY <4>2, <4>3, <4>4, <4>5
    <3>3. MissingHasCause'
      BY <3>2, CausesAreNext
    <3>4. AnswerCurrent'
      BY <3>1 DEF AnswerCurrent, NoFetch
    <3> QED
      BY <3>3, <3>4
  <2>7. ASSUME NEW ch \in Changes, Commit(ch)
        PROVE  MissingHasCause' /\ AnswerCurrent'
    <3>1. /\ committed' = committed \cup {ch} /\ pool' = pool \cup {ch}
          /\ UNCHANGED <<list, fetch>>
      BY <2>7 DEF Commit, cache
    <3>2. Known(ch)' /\ \A x : Known(x) => Known(x)'
      BY <2>4, <3>1 DEF Known
    <3>3. \A x : x \in Missing' => x = ch \/ x \in Missing
      BY <2>1, <3>1, MissingIs, MissingNext
    <3>4. MissingHasCause'
      BY <2>1, <3>1, <3>2, <3>3, CausesAre, CausesAreNext DEF Causes
    <3>5. \A x : InEvery(x) => InEvery(x)'
      BY <3>1 DEF InEvery
    <3>6. AnswerCurrent'
      BY <2>1, <3>1, <3>2, <3>5 DEF Causes, AnswerCurrent
    <3> QED
      BY <3>4, <3>6
  <2>8. ASSUME NEW ch \in Changes, PublishLost(ch)
        PROVE  MissingHasCause' /\ AnswerCurrent'
    <3>1. /\ pool' = pool \ {ch} /\ ch \in excused'
          /\ UNCHANGED <<committed, list, fetch>>
      BY <2>8 DEF PublishLost
    <3>2. \A x : Known(x) => Known(x)'
      BY <2>1, <2>2, <2>3, <3>1 DEF Known
    <3> QED
      BY <2>1, <3>1, <3>2, CausesKept
  <2> QED
    BY <1>9, <2>5, <2>6, <2>7, <2>8 DEF ServerMoves
<1>10. CASE UNCHANGED vars
  <2>1. UNCHANGED <<user, asking, sock, timer, once, banned, committed, pool, gap, list, fetch,
                    excused>>
    BY <1>10 DEF vars
  <2>2. Live' = Live /\ Opened' = Opened /\ Waiting' = Waiting
    BY <2>1, UseKept
  <2>3. Recovering' <=> Recovering
    BY <2>1, <2>2, RecoveringIs, RecoveringNext
  <2>4. \A ch : Known(ch) => Known(ch)'
    BY <2>1, <2>2, <2>3, KnownKept
  <2> QED
    BY <2>1, <2>4, CausesKept
<1> QED
  BY <1>1, <1>2, <1>3, <1>4, <1>5, <1>6, <1>7, <1>8, <1>9, <1>10, NextMoves

-----------------------------------------------------------------------------
LEMMA InitHolds == Init => IInv
<1> SUFFICES ASSUME Init PROVE IInv
  OBVIOUS
<1>1. Live = {} /\ Opened = {} /\ Waiting = {}
  BY DEF Init, Live, Opened, Waiting, FreeSock, Idle
<1>2. TypeOK
  BY DEF Init, TypeOK, People, CallState, SockState, FetchState, FreeSock, Idle, NoFetch
<1>3. OneAttempt
  BY <1>1, ClientAssumption DEF Init, OneAttempt, Agreed
<1>4. Reconnects /\ MissingHasCause /\ AnswerCurrent
  BY DEF Init, Reconnects, MissingHasCause, Missing, AnswerCurrent, NoFetch
<1> QED
  BY <1>2, <1>3, <1>4 DEF IInv

(* The types, the one attempt, and the causes of missing changes are an
   inductive invariant of the realtime connection. *)
THEOREM Invariance == Spec => []IInv
<1>1. IInv /\ [Next]_vars => IInv'
  BY TypeStep, ConnectionStep, ReconnectsStep, CausesStep DEF IInv, Causes
<1> QED
  BY InitHolds, <1>1, PTL DEF Spec

(* The refs of the provider and the sockets agree while no ticket was awaited
   across a change of the user or a reconnection (RealtimeClient's
   ConnectionConsistent), whatever the number of calls and sockets. *)
THEOREM RefsAgree == Spec => []ConnectionConsistent
<1>1. ASSUME IInv PROVE ConnectionConsistent
  <2>1. CASE raced
    BY <2>1 DEF ConnectionConsistent
  <2>2. CASE ~raced
    <3>1. Agreed /\ Opened \subseteq Live
      BY <1>1, <2>2, OpenIsLive DEF IInv, OneAttempt
    <3>2. Live = {} \/ Live = {wsRef}
      BY <3>1 DEF Agreed
    <3>3. Cardinality({}) = 0 /\ Cardinality({wsRef}) = 1
      BY FS_EmptySet, FS_Singleton
    <3>4. Cardinality(Live) <= 1
      BY <3>2, <3>3
    <3>5. wsRef = NoSock <=> Live = {}
      BY <3>1, <3>2, ClientAssumption DEF Agreed, Live
    <3>6. ping # NoSock => ping \in Opened
      BY <3>1 DEF Agreed
    <3>7. Opened # {} => ping \in Opened /\ ~timer /\ user # NoUser
      BY <3>1 DEF Agreed
    <3>8. status = "connected" <=> Opened # {}
      BY <3>1 DEF Agreed
    <3> QED
      BY <3>4, <3>5, <3>6, <3>7, <3>8 DEF ConnectionConsistent
  <2> QED
    BY <2>1, <2>2
<1> QED
  BY Invariance, <1>1, PTL

(* A committed change that the cached incident list does not show is on its way
   or was lost in one of the known ways. *)
THEOREM MissingExplained == Spec => []MissingHasCause
<1>1. IInv => MissingHasCause
  BY DEF IInv
<1> QED
  BY Invariance, <1>1, PTL
=============================================================================
