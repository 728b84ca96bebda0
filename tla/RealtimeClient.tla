--------------------------- MODULE RealtimeClient ---------------------------
(***************************************************************************)
(* The browser's realtime connection (frontend/components/bjt/             *)
(* realtime-provider.tsx and frontend/lib/api/realtime.ts): one effect per *)
(* signed-in user, a connect() that awaits a single-use ticket before it   *)
(* opens a socket, the four socket handlers, the reconnection timer and    *)
(* the resynchronisation after a reconnection.  The server is the consumer *)
(* that accepts, then looks up and joins the channel groups, and the       *)
(* publisher that sends committed changes to the joined groups in any      *)
(* order and may lose them.  What the connection is for is one cached      *)
(* query, the incident list: the set of committed changes it shows.        *)
(***************************************************************************)
EXTENDS Naturals, FiniteSets

CONSTANTS
  Users,        \* people who may sign in in this tab
  NoUser,       \* nobody: useAuth().user is null
  Calls,        \* names for connect() calls that await their ticket
  Socks,        \* names for WebSocket objects
  NoSock,       \* wsRef.current = null
  Changes,      \* incident changes the server may commit
  MaxSessions,  \* bound: changes of the signed-in user object
  MaxFaults     \* bound: failures of the network and of the publisher

ASSUME ClientAssumption == /\ NoUser \notin Users
                           /\ NoSock \notin Socks
                           /\ MaxSessions \in Nat /\ MaxFaults \in Nat

VARIABLES
  user,         \* the user the provider was last rendered for
  asking,       \* per call: idle, asking, refused, or granted for a user
  sock,         \* per socket: phase, whose it is, joined groups, inbox
  wsRef,        \* wsRef.current
  timer,        \* a reconnection is scheduled (reconnectTimeoutRef)
  ping,         \* the socket the heartbeat interval was set for
  once,         \* hasConnectedOnceRef
  status,       \* what the indicator shows
  banned,       \* the account was deactivated: 4001
  committed,    \* changes committed on the server
  pool,         \* changes committed and not yet sent to the groups
  list,         \* the cached incident list: {} of none, or {set of changes}
  fetch,        \* the list request: none, sent, or answered with a set
  gap,          \* ghost: changes sent while no group was joined and no resync was due
  again,        \* ghost: a reconnection has resynchronised since the sign-in
  excused,      \* ghost: changes lost by a named cause other than the gap
  raced,        \* ghost: the user or the connection changed while a ticket was awaited
  sessions, faults

vars == <<user, asking, sock, wsRef, timer, ping, once, status, banned, committed,
          pool, list, fetch, gap, again, excused, raced, sessions, faults>>
server == <<committed, pool, gap>>
cache  == <<list, fetch, excused, again>>

Idle     == [st |-> "idle", who |-> NoUser]
FreeSock == [phase |-> "free", who |-> NoUser, joined |-> FALSE, inbox |-> {}]
NoFetch  == [st |-> "none", data |-> {}]
SentFetch == [st |-> "sent", data |-> {}]

Init ==
  /\ user = NoUser /\ asking = [c \in Calls |-> Idle]
  /\ sock = [s \in Socks |-> FreeSock] /\ wsRef = NoSock
  /\ timer = FALSE /\ ping = NoSock /\ once = FALSE /\ status = "disconnected"
  /\ banned = FALSE /\ committed = {} /\ pool = {} /\ list = {} /\ fetch = NoFetch
  /\ gap = {} /\ again = FALSE /\ excused = {} /\ raced = FALSE /\ sessions = 0 /\ faults = 0

Waiting    == {c \in Calls : asking[c].st # "idle"}
Live       == {s \in Socks : sock[s].phase # "free"}
Opened     == {s \in Socks : sock[s].phase = "open"}
Recovering == timer \/ Waiting # {} \/ (\E s \in Live : sock[s].phase # "open")

-----------------------------------------------------------------------------
(* connect() up to its await: the socket in wsRef is closed with its handlers
   removed and a ticket is asked for. A change on its way to a client that has
   never been open is in no later resynchronisation. *)
Detach(s) ==
  /\ sock' = IF s = NoSock THEN sock ELSE [sock EXCEPT ![s] = FreeSock]
  /\ gap' = IF s = NoSock \/ once THEN gap ELSE gap \cup sock[s].inbox

StartConnect ==
  /\ \E c \in Calls \ Waiting : asking' = [asking EXCEPT ![c].st = "asking"]
  /\ status' = "connecting"

(* A faulty cleanup: it forgets the socket without closing it. *)
EffectRunLeaky(u) ==
  /\ UNCHANGED <<sock, gap>> /\ wsRef' = NoSock
  /\ timer' = FALSE /\ ping' = NoSock
  /\ user' = u
  /\ IF u # NoUser
     THEN StartConnect /\ UNCHANGED once
     ELSE /\ status' = "disconnected" /\ once' = FALSE
          /\ UNCHANGED asking
  /\ raced' = (raced \/ Waiting # {})
  /\ sessions < MaxSessions /\ sessions' = sessions + 1
  /\ UNCHANGED <<banned, committed, pool, faults>>

(* The effect on [user, connect]: the cleanup of the previous run drops timers
   and the socket in wsRef, then the new run connects or, with nobody signed
   in, forgets that it ever was connected. isUnmountedRef is false again by the
   time any awaiting call looks at it. *)
EffectRun(u) ==
  /\ Detach(wsRef) /\ wsRef' = NoSock
  /\ timer' = FALSE /\ ping' = NoSock
  /\ user' = u
  /\ IF u # NoUser
     THEN StartConnect /\ UNCHANGED once
     ELSE /\ status' = "disconnected" /\ once' = FALSE
          /\ UNCHANGED asking
  /\ raced' = (raced \/ Waiting # {})
  /\ sessions < MaxSessions /\ sessions' = sessions + 1
  /\ UNCHANGED <<banned, committed, pool, faults>>

(* login stores the user; the pages it opens fetch the list *)
SignIn(u) == /\ user = NoUser /\ ~banned /\ EffectRun(u)
             /\ fetch' = SentFetch /\ UNCHANGED <<list, excused, again>>

(* logout stores null and clears every cached query *)
SignOut == /\ user # NoUser /\ EffectRun(NoUser)
           /\ list' = {} /\ fetch' = NoFetch /\ excused' = {} /\ again' = FALSE

(* the user query refetched a changed profile: same person, another object *)
ProfileChanged == user # NoUser /\ EffectRun(user) /\ UNCHANGED cache

TicketGranted(c) ==
  /\ asking[c].st = "asking" /\ user # NoUser /\ ~banned
  /\ asking' = [asking EXCEPT ![c] = [st |-> "granted", who |-> user]]
  /\ UNCHANGED <<user, sock, wsRef, timer, ping, once, status, banned, server, cache,
                 raced, sessions, faults>>

(* no session, a deactivated account or a failed request: the call goes on
   without a ticket *)
TicketRefused(c) ==
  /\ asking[c].st = "asking"
  /\ IF user = NoUser \/ banned THEN UNCHANGED faults
     ELSE faults < MaxFaults /\ faults' = faults + 1
  /\ asking' = [asking EXCEPT ![c].st = "refused"]
  /\ UNCHANGED <<user, sock, wsRef, timer, ping, once, status, banned, server, cache,
                 raced, sessions>>

(* connect() after its await: only isUnmountedRef is looked at, so a socket is
   opened whoever is signed in by now, and wsRef forgets any other socket. With
   no ticket the handshake has at most the session's cookie. *)
OpenSocket(c) ==
  \E s \in Socks \ Live, w \in Users \cup {NoUser} :
    /\ \/ asking[c].st = "granted" /\ w = asking[c].who
       \/ asking[c].st = "refused" /\ w \in {user, NoUser}
    /\ asking' = [asking EXCEPT ![c] = Idle]
    /\ sock' = [sock EXCEPT ![s] = [FreeSock EXCEPT !.phase = "connecting", !.who = w]]
    /\ wsRef' = s
    /\ UNCHANGED <<user, timer, ping, once, status, banned, server, cache, raced,
                   sessions, faults>>

-----------------------------------------------------------------------------
(* RealtimeConsumer.connect: accept, then look up the scopes and join. *)
Accept(s) ==
  /\ sock[s].phase = "connecting" /\ sock[s].who # NoUser /\ ~banned
  /\ sock' = [sock EXCEPT ![s].phase = "accepted"]
  /\ UNCHANGED <<user, asking, wsRef, timer, ping, once, status, banned, server, cache,
                 raced, sessions, faults>>

Join(s) ==
  /\ sock[s].phase \in {"accepted", "open"} /\ ~sock[s].joined
  /\ sock' = [sock EXCEPT ![s].joined = TRUE]
  /\ UNCHANGED <<user, asking, wsRef, timer, ping, once, status, banned, server, cache,
                 raced, sessions, faults>>

(* A faulty onopen: it never resynchronises. *)
OnOpenSilent(s) ==
  /\ sock[s].phase = "accepted"
  /\ sock' = [sock EXCEPT ![s].phase = "open"]
  /\ status' = "connected" /\ once' = TRUE /\ ping' = s
  /\ UNCHANGED <<user, asking, wsRef, timer, banned, server, cache, raced, sessions, faults>>

(* onopen: connected, and after an earlier connection the list is invalidated,
   which restarts its request; the heartbeat interval moves to this socket *)
OnOpen(s) ==
  /\ sock[s].phase = "accepted"
  /\ sock' = [sock EXCEPT ![s].phase = "open"]
  /\ status' = "connected" /\ once' = TRUE /\ ping' = s
  /\ fetch' = IF once /\ user # NoUser THEN SentFetch ELSE fetch
  /\ again' = (again \/ (once /\ user # NoUser))
  /\ UNCHANGED <<user, asking, wsRef, timer, banned, server, list, excused, raced,
                 sessions, faults>>

(* onclose with any code but 4001 and 1000: the heartbeat stops, whichever
   socket it was set for, and a reconnection replaces the one scheduled. A wsRef
   to a closed socket is as good as none. *)
Closed(s) == /\ Detach(s) /\ ping' = NoSock /\ status' = "disconnected"
             /\ wsRef' = IF wsRef = s THEN NoSock ELSE wsRef
OnCloseForGood(s) ==   \* a fault: nothing is scheduled
  /\ Closed(s)
  /\ UNCHANGED <<timer, user, asking, once, banned, committed, pool, cache, raced, sessions>>
OnClose(s) ==
  /\ Closed(s) /\ timer' = TRUE
  /\ UNCHANGED <<user, asking, once, banned, committed, pool, cache, raced, sessions>>

(* the handshake of an anonymous socket is refused before it is accepted, which
   a browser reports as an abnormal closure *)
Rejected(s) ==
  /\ sock[s].phase = "connecting" /\ (sock[s].who = NoUser \/ banned)
  /\ OnClose(s) /\ UNCHANGED faults

Dropped(s) ==
  /\ s \in Live /\ faults < MaxFaults /\ faults' = faults + 1
  /\ OnClose(s)

(* 4001 on an accepted socket: the account is gone, nothing is scheduled *)
ClosedUnauthorized(s) ==
  /\ sock[s].phase = "open" /\ sock[s].who = user
  /\ banned' = TRUE
  /\ Closed(s)
  /\ UNCHANGED <<user, asking, timer, once, committed, pool, cache, raced, sessions, faults>>

(* the scheduled reconnection runs the connect() of the render that opened the
   socket, whose user is never null: it also connects after a logout *)
TimerFires ==
  /\ timer /\ timer' = FALSE
  /\ StartConnect /\ Detach(wsRef) /\ wsRef' = NoSock
  /\ raced' = (raced \/ Waiting # {})
  /\ UNCHANGED <<user, ping, once, banned, committed, pool, cache, sessions, faults>>

-----------------------------------------------------------------------------
Commit(ch) ==
  /\ ch \notin committed
  /\ committed' = committed \cup {ch} /\ pool' = pool \cup {ch}
  /\ UNCHANGED <<user, asking, sock, wsRef, timer, ping, once, status, banned, cache,
                 gap, raced, sessions, faults>>

(* group_send reaches the sockets that have joined by now *)
Publish(ch) ==
  /\ ch \in pool /\ pool' = pool \ {ch}
  /\ LET to == {s \in Live : sock[s].joined} IN
       /\ sock' = [s \in Socks |-> IF s \in to
                                   THEN [sock[s] EXCEPT !.inbox = @ \cup {ch}] ELSE sock[s]]
       /\ gap' = IF to = {} /\ (Opened # {} \/ ~once) THEN gap \cup {ch} ELSE gap
  /\ UNCHANGED <<user, asking, wsRef, timer, ping, once, status, banned, committed, cache,
                 raced, sessions, faults>>

(* _send_realtime_direct swallows every error *)
PublishLost(ch) ==
  /\ ch \in pool /\ pool' = pool \ {ch}
  /\ faults < MaxFaults /\ faults' = faults + 1
  /\ excused' = excused \cup {ch}
  /\ UNCHANGED <<user, asking, sock, wsRef, timer, ping, once, status, banned, committed,
                 list, fetch, gap, again, raced, sessions>>

(* onmessage: an event patches the cached list; with nothing cached it is
   dropped, although a request may already have been answered without it *)
OnMessage(s, ch) ==
  /\ sock[s].phase = "open" /\ ch \in sock[s].inbox
  /\ sock' = [sock EXCEPT ![s].inbox = @ \ {ch}]
  /\ list' = {l \cup {ch} : l \in list}
  /\ excused' = IF list = {} /\ fetch.st = "read" THEN excused \cup ({ch} \ fetch.data)
                ELSE excused
  /\ UNCHANGED <<user, asking, wsRef, timer, ping, once, status, banned, server, fetch,
                 again, raced, sessions, faults>>

FetchRead ==
  /\ fetch.st = "sent" /\ fetch' = [st |-> "read", data |-> committed]
  /\ UNCHANGED <<user, asking, sock, wsRef, timer, ping, once, status, banned, server, list,
                 excused, again, raced, sessions, faults>>

(* an answer replaces the cached list, with the patches made since it was read *)
FetchLands ==
  /\ fetch.st = "read" /\ fetch' = NoFetch
  /\ list' = {fetch.data}
  /\ excused' = excused \cup ((UNION list) \ fetch.data)
  /\ UNCHANGED <<user, asking, sock, wsRef, timer, ping, once, status, banned, server,
                 again, raced, sessions, faults>>

Client == \/ \E c \in Calls : TicketGranted(c) \/ TicketRefused(c) \/ OpenSocket(c)
          \/ \E s \in Socks : OnOpen(s) \/ Rejected(s)
          \/ TimerFires \/ FetchRead \/ FetchLands
Next == \/ Client
        \/ \E u \in Users : SignIn(u)
        \/ SignOut \/ ProfileChanged
        \/ \E s \in Socks : Accept(s) \/ Join(s) \/ Dropped(s) \/ ClosedUnauthorized(s)
        \/ \E ch \in Changes : Commit(ch) \/ Publish(ch) \/ PublishLost(ch)
        \/ \E s \in Socks, ch \in Changes : OnMessage(s, ch)
Spec == Init /\ [][Next]_vars

(* Requests are answered, handshakes end, timers fire and messages arrive;
   nothing is assumed of people, of commits or of faults. *)
Fairness ==
  /\ \A c \in Calls : /\ WF_vars(TicketGranted(c) \/ TicketRefused(c)) /\ WF_vars(OpenSocket(c))
  /\ \A s \in Socks : /\ WF_vars(Accept(s) \/ Rejected(s)) /\ WF_vars(Join(s)) /\ WF_vars(OnOpen(s))
  /\ WF_vars(TimerFires)
FairSpec == Spec /\ Fairness

-----------------------------------------------------------------------------
Missing == IF user = NoUser THEN {} ELSE UNION {committed \ l : l \in list}
Online  == \E s \in Opened : s = wsRef /\ sock[s].joined /\ status = "connected"
Coming(ch) == \/ ch \in pool
              \/ fetch.st = "sent" \/ ch \in fetch.data
              \/ \E s \in Live : ch \in sock[s].inbox
              \/ Recovering /\ once

(* A committed change the cached incident list does not show is still on its
   way - unsent, in a socket, in a running request, or due with the
   resynchronisation of a reconnection (performReconnectResync) - or was lost in
   one of the known ways: sent between the opening of the first socket and the
   joining of its groups, dropped by the publisher, or overwritten by an answer
   read before it. *)
MissingHasCause ==
  ~banned => \A ch \in Missing : Coming(ch) \/ ch \in gap \cup excused

(* While no ticket was awaited across a change of the user or a reconnection,
   the refs of the provider agree: at most one socket, wsRef on it, "connected"
   shown just when it is open, the heartbeat on it, and no reconnection
   scheduled beside it. *)
ConnectionConsistent ==
  ~raced => /\ Cardinality(Live) <= 1
            /\ wsRef = NoSock <=> Live = {}
            /\ status = "connected" <=> Opened # {}
            /\ ping # NoSock => ping \in Opened
            /\ Opened # {} => ping \in Opened /\ ~timer /\ user # NoUser

(* Somebody who stays signed in with an active account ends up with an open
   socket whose groups are joined, whatever tickets, handshakes and sockets
   failed before, in the backoff loop of onclose. *)
SignedInConnects == <>[](user # NoUser /\ ~banned) => <>[]Online
=============================================================================
