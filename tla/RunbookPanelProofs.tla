-------------------------- MODULE RunbookPanelProofs --------------------------
(***************************************************************************)
(* A runbook step happens once, for any runbooks, steps and executions and *)
(* any number of pages.  StepsHappenOnce speaks of the history alone and   *)
(* is not inductive: what keeps a step from being recorded again is the    *)
(* state in the row, which the server compares under its lock, so the      *)
(* invariant says that state and status have moved on past all that the    *)
(* history records.                                                        *)
(***************************************************************************)
EXTENDS RunbookPanel, TLAPS

Entries == (Steps \cup {"end"}) \X (StepStates \cup Terminal)

ExecState == [status : {"none", "IN_PROGRESS"} \cup Terminal, book : Runbooks \cup {"none"},
              state : [Steps -> StepStates], history : Seq(Entries)]

Answers     == {"sent", "ok", "failed"}
StepRequest == [st : Answers, s : Steps, from : StepStates, to : StepStates]
EndRequest  == [st : Answers, to : Terminal]

FetchState  == [st : {"none", "sent", "read"}, data : [Execs -> ExecState]]

PanelTypeOK ==
  /\ exec \in [Execs -> ExecState] /\ cached \in [Execs -> ExecState]
  /\ refetch \in FetchState
  /\ starting \subseteq [n : Nat, book : Runbooks, st : Answers]
  /\ stepping \in [Execs -> {Quiet} \cup StepRequest]
  /\ ending \in [Execs -> {Quiet} \cup EndRequest]
  /\ acts \in Nat

Finished == {"COMPLETED", "SKIPPED"}

(* what StepsHappenOnce says of one history *)
Once(h) ==
  \A i, j \in DOMAIN h :
    /\ h[i] = h[j] => i = j
    /\ h[i][1] = h[j][1] /\ {h[i][2], h[j][2]} \subseteq Finished => i = j
    /\ h[i][1] = "end" => i = Len(h)

(* the row is past entry d of its history *)
Past(x, d) ==
  IF d[1] = "end" THEN x.status \in Terminal
  ELSE /\ d[2] \in {"IN_PROGRESS"} \cup Finished
       /\ x.state[d[1]] # "PENDING"
       /\ d[2] \in Finished => x.state[d[1]] \in Finished

Consistent(x) == Once(x.history) /\ \A i \in DOMAIN x.history : Past(x, x.history[i])

IInv == PanelTypeOK /\ \A e \in Execs : Consistent(exec[e])

-----------------------------------------------------------------------------
(* An entry appended to a history, and the entries before it. *)
LEMMA Appended ==
  ASSUME NEW S, NEW h \in Seq(S), NEW d \in S
  PROVE  /\ Append(h, d) \in Seq(S)
         /\ Len(Append(h, d)) = Len(h) + 1
         /\ DOMAIN Append(h, d) = DOMAIN h \cup {Len(h) + 1}
         /\ Len(h) + 1 \notin DOMAIN h
         /\ \A i \in DOMAIN h : Append(h, d)[i] = h[i]
         /\ Append(h, d)[Len(h) + 1] = d
OBVIOUS

(* A history stays one when what is appended differs from all before it, is
   not another end of its step, and nothing has ended the execution. *)
LEMMA OnceAppended ==
  ASSUME NEW h \in Seq(Entries), NEW d \in Entries, Once(h),
         \A i \in DOMAIN h : /\ h[i] # d /\ h[i][1] # "end"
                             /\ h[i][1] = d[1] => ~({h[i][2], d[2]} \subseteq Finished)
  PROVE  Once(Append(h, d))
<1> DEFINE g == Append(h, d)
           n == Len(h) + 1
<1>1. /\ Len(g) = n /\ DOMAIN g = DOMAIN h \cup {n} /\ n \notin DOMAIN h
      /\ \A i \in DOMAIN h : g[i] = h[i]
      /\ g[n] = d
  BY Appended
<1> HIDE DEF g, n
<1> SUFFICES ASSUME NEW i \in DOMAIN g, NEW j \in DOMAIN g
             PROVE  /\ g[i] = g[j] => i = j
                    /\ g[i][1] = g[j][1] /\ {g[i][2], g[j][2]} \subseteq Finished => i = j
                    /\ g[i][1] = "end" => i = Len(g)
  BY DEF Once, g
<1>2. CASE i \in DOMAIN h /\ j \in DOMAIN h
  BY <1>1, <1>2 DEF Once
<1>3. CASE i \in DOMAIN h /\ j = n
  BY <1>1, <1>3
<1>4. CASE i = n /\ j \in DOMAIN h
  BY <1>1, <1>4
<1>5. CASE i = n /\ j = n
  BY <1>1, <1>5
<1> QED
  BY <1>1, <1>2, <1>3, <1>4, <1>5

-----------------------------------------------------------------------------
(* The three ways a row changes. *)
LEMMA StartedFits ==
  ASSUME NEW b \in Runbooks, NEW e
  PROVE  Started(b, e) \in ExecState /\ Consistent(Started(b, e))
<1>1. Absent \in ExecState
  BY DEF Absent, ExecState, StepStates
<1>2. Started(b, e) \in ExecState
  BY <1>1 DEF Started, ExecState
<1>3. Started(b, e).history = <<>>
  BY <1>1 DEF Started, ExecState, Absent
<1> QED
  BY <1>2, <1>3 DEF Consistent, Once

LEMMA SteppedFits ==
  ASSUME "end" \notin Steps, NEW x \in ExecState, Consistent(x), NEW s \in Steps,
         NEW from, NEW to, CanStep(x, s, from, to)
  PROVE  Stepped(x, s, to) \in ExecState /\ Consistent(Stepped(x, s, to))
<1> DEFINE y == Stepped(x, s, to)
           h == x.history
           d == <<s, to>>
<1>1. /\ x.state \in [Steps -> StepStates] /\ h \in Seq(Entries)
      /\ x.status \in {"none", "IN_PROGRESS"} \cup Terminal /\ x.book \in Runbooks \cup {"none"}
  BY DEF ExecState
<1>2. /\ x.status \notin Terminal /\ from = x.state[s] /\ from \in StepStates
      /\ from \in {"PENDING", "IN_PROGRESS"} /\ to \in {"IN_PROGRESS"} \cup Finished
      /\ to = "IN_PROGRESS" => from = "PENDING"
  <2>1. x.state[s] = from /\ to \in ValidSteps[from] /\ x.status \notin Terminal
    BY DEF CanStep
  <2>2. from \in StepStates
    BY <1>1, <2>1
  <2> QED
    BY <2>1, <2>2 DEF StepStates, ValidSteps, Finished
<1>3. d \in Entries /\ d[1] = s /\ d[2] = to /\ to \in StepStates
  BY <1>2 DEF Entries, StepStates, Finished
<1>4. /\ y.status = x.status /\ y.state = [x.state EXCEPT ![s] = to]
      /\ y.history = Append(h, d)
  BY DEF Stepped, ExecState
<1>5. y \in ExecState
  <2>1. Append(h, d) \in Seq(Entries) /\ [x.state EXCEPT ![s] = to] \in [Steps -> StepStates]
    BY <1>1, <1>3, Appended
  <2> QED
    BY <2>1 DEF Stepped, ExecState
<1>6. \A i \in DOMAIN h : Past(x, h[i]) /\ h[i] \in Entries
  BY <1>1 DEF Consistent
<1>7. Once(Append(h, d))
  <2>1. \A i \in DOMAIN h : h[i][1] # "end"
    BY <1>2, <1>6 DEF Past
  <2>2. ASSUME NEW i \in DOMAIN h, h[i][1] = s
        PROVE  /\ h[i] # d
               /\ ~({h[i][2], to} \subseteq Finished)
    BY <1>2, <1>3, <1>6, <2>1, <2>2 DEF Past, Finished
  <2>3. \A i \in DOMAIN h : /\ h[i] # d /\ h[i][1] # "end"
                            /\ h[i][1] = d[1] => ~({h[i][2], d[2]} \subseteq Finished)
    BY <1>3, <2>1, <2>2
  <2>4. Once(h)
    BY DEF Consistent
  <2> HIDE DEF h, d
  <2> QED
    BY <1>1, <1>3, <2>3, <2>4, OnceAppended
<1>8. \A i \in DOMAIN h : Past(y, h[i])
  <2> SUFFICES ASSUME NEW i \in DOMAIN h
               PROVE  Past(y, h[i])
    OBVIOUS
  <2>1. Past(x, h[i]) /\ h[i][1] # "end" /\ h[i][1] \in Steps
    BY <1>2, <1>6 DEF Past, Entries
  <2>2. CASE h[i][1] = s
    BY <1>1, <1>2, <1>4, <2>1, <2>2 DEF Past, Finished
  <2>3. CASE h[i][1] # s
    BY <1>1, <1>4, <2>1, <2>3 DEF Past
  <2> QED
    BY <2>2, <2>3
<1>9. Past(y, d)
  BY <1>1, <1>2, <1>3, <1>4 DEF Past, Finished
<1>10. \A i \in DOMAIN Append(h, d) : Past(y, Append(h, d)[i])
  <2> HIDE DEF y, h, d
  <2> QED
    BY <1>1, <1>3, <1>8, <1>9, Appended
<1>11. Consistent(y)
  <2> HIDE DEF y, h, d
  <2> QED
    BY <1>4, <1>7, <1>10 DEF Consistent
<1> QED
  BY <1>5, <1>11

Finish(x, to) == [x EXCEPT !.status = to, !.history = Append(@, <<"end", to>>)]

LEMMA FinishedFits ==
  ASSUME NEW x \in ExecState, Consistent(x), CanEnd(x), NEW to \in Terminal
  PROVE  Finish(x, to) \in ExecState /\ Consistent(Finish(x, to))
<1> DEFINE y == Finish(x, to)
           h == x.history
           d == <<"end", to>>
<1>1. h \in Seq(Entries) /\ x.state \in [Steps -> StepStates] /\ x.book \in Runbooks \cup {"none"}
  BY DEF ExecState
<1>2. d \in Entries /\ d[1] = "end" /\ d[2] = to
  BY DEF Entries
<1>3. y.status = to /\ y.state = x.state /\ y.history = Append(h, d)
  BY DEF Finish, ExecState
<1>4. y \in ExecState
  <2>1. Append(h, d) \in Seq(Entries)
    BY <1>1, <1>2, Appended
  <2> QED
    BY <2>1 DEF Finish, ExecState
<1>5. \A i \in DOMAIN h : Past(x, h[i]) /\ h[i][1] # "end"
  BY DEF Consistent, Past, CanEnd, Terminal
<1>6. Once(Append(h, d))
  <2>1. Once(h) /\ \A i \in DOMAIN h : h[i] # d
    BY <1>2, <1>5 DEF Consistent
  <2> HIDE DEF h, d
  <2> QED
    BY <1>1, <1>2, <1>5, <2>1, OnceAppended
<1>7. Past(y, d) /\ \A i \in DOMAIN h : Past(y, h[i])
  BY <1>2, <1>3, <1>5 DEF Past
<1>8. \A i \in DOMAIN Append(h, d) : Past(y, Append(h, d)[i])
  <2> HIDE DEF y, h, d
  <2> QED
    BY <1>1, <1>2, <1>7, Appended
<1>9. Consistent(y)
  <2> HIDE DEF y, h, d
  <2> QED
    BY <1>3, <1>6, <1>8 DEF Consistent
<1> QED
  BY <1>4, <1>9

-----------------------------------------------------------------------------
Rows == exec \in [Execs -> ExecState] /\ \A e \in Execs : Consistent(exec[e])

LEMMA OneRowWritten ==
  ASSUME Rows, NEW e \in Execs, NEW x \in ExecState, Consistent(x),
         exec' = [exec EXCEPT ![e] = x]
  PROVE  Rows'
<1>1. \A f \in Execs : exec'[f] = IF f = e THEN x ELSE exec[f]
  BY DEF Rows
<1>2. \A f \in Execs : Consistent(exec'[f])
  BY <1>1 DEF Rows
<1> QED
  BY <1>2 DEF Rows, Consistent, Once, Past

LEMMA RowsUntouched ==
  ASSUME Rows, UNCHANGED exec
  PROVE  Rows'
BY DEF Rows, Consistent, Once, Past

LEMMA StartKeeps ==
  ASSUME Rows, NEW b \in Runbooks, Start(b)
  PROVE  Rows'
<1>1. PICK e \in Execs : exec' = [exec EXCEPT ![e] = Started(b, e)]
  BY DEF Start
<1> QED
  BY <1>1, StartedFits, OneRowWritten

LEMMA StepKeeps ==
  ASSUME "end" \notin Steps, Rows, NEW e \in Execs, NEW s \in Steps, NEW from, NEW to,
         CanStep(exec[e], s, from, to),
         exec' = [exec EXCEPT ![e] = Stepped(@, s, to)]
  PROVE  Rows'
<1>1. exec[e] \in ExecState /\ Consistent(exec[e])
  BY DEF Rows
<1>2. Stepped(exec[e], s, to) \in ExecState /\ Consistent(Stepped(exec[e], s, to))
  BY <1>1, SteppedFits
<1> QED
  BY <1>2, OneRowWritten

LEMMA EndKeeps ==
  ASSUME Rows, NEW e \in Execs, NEW to \in Terminal, CanEnd(exec[e]),
         exec' = [exec EXCEPT ![e].status = to, ![e].history = Append(@, <<"end", to>>)]
  PROVE  Rows'
<1>1. exec[e] \in ExecState /\ Consistent(exec[e])
  BY DEF Rows
<1>2. Finish(exec[e], to) \in ExecState /\ Consistent(Finish(exec[e], to))
  BY <1>1, FinishedFits
<1>3. exec' = [exec EXCEPT ![e] = Finish(exec[e], to)]
  BY <1>1 DEF Finish, Rows, ExecState
<1> QED
  BY <1>2, <1>3, OneRowWritten

-----------------------------------------------------------------------------
(* Whoever asks, a row changes in one of those three ways. *)
LEMMA RowsKept ==
  ASSUME "end" \notin Steps, IInv, RNext
  PROVE  Rows'
<1> USE DEF IInv, Rows
<1>1. Rows
  BY DEF PanelTypeOK
<1>2. ASSUME NEW m \in starting, ServeStart(m)
      PROVE  Rows'
  <2>1. m.book \in Runbooks
    BY DEF PanelTypeOK
  <2> QED
    BY <1>1, <1>2, <2>1, StartKeeps, RowsUntouched DEF ServeStart
<1>3. ASSUME NEW e \in Execs, ServeStep(e)
      PROVE  Rows'
  <2>1. stepping[e] \in StepRequest
    BY <1>3 DEF ServeStep, PanelTypeOK, Quiet
  <2>2. stepping[e].s \in Steps
    BY <2>1 DEF StepRequest
  <2>3. CASE CanStep(exec[e], stepping[e].s, stepping[e].from, stepping[e].to)
    <3>1. exec' = [exec EXCEPT ![e] = Stepped(@, stepping[e].s, stepping[e].to)]
      BY <1>3, <2>3 DEF ServeStep
    <3> QED
      BY <1>1, <2>2, <2>3, <3>1, StepKeeps
  <2>4. CASE ~CanStep(exec[e], stepping[e].s, stepping[e].from, stepping[e].to)
    BY <1>1, <1>3, <2>4, RowsUntouched DEF ServeStep
  <2> QED
    BY <2>3, <2>4
<1>4. ASSUME NEW e \in Execs, ServeEnd(e)
      PROVE  Rows'
  <2>1. ending[e] \in EndRequest
    BY <1>4 DEF ServeEnd, PanelTypeOK, Quiet
  <2>2. ending[e].to \in Terminal
    BY <2>1 DEF EndRequest
  <2>3. CASE CanEnd(exec[e])
    <3>1. exec' = [exec EXCEPT ![e].status = ending[e].to,
                               ![e].history = Append(@, <<"end", ending[e].to>>)]
      BY <1>4, <2>3 DEF ServeEnd
    <3> QED
      BY <1>1, <2>2, <2>3, <3>1, EndKeeps
  <2>4. CASE ~CanEnd(exec[e])
    BY <1>1, <1>4, <2>4, RowsUntouched DEF ServeEnd
  <2> QED
    BY <2>3, <2>4
<1>5. CASE Other
  <2>1. CASE \E b \in Runbooks : Start(b)
    BY <1>1, <2>1, StartKeeps
  <2>2. CASE \E e \in Execs, s \in Steps, from, to \in StepStates :
               /\ exec[e].status # "none" /\ CanStep(exec[e], s, from, to)
               /\ exec' = [exec EXCEPT ![e] = Stepped(@, s, to)]
    BY <1>1, <2>2, StepKeeps
  <2>3. CASE \E e \in Execs, to \in Terminal :
               /\ exec[e].status # "none" /\ CanEnd(exec[e])
               /\ exec' = [exec EXCEPT ![e].status = to, ![e].history = Append(@, <<"end", to>>)]
    BY <1>1, <2>3, EndKeeps
  <2> QED
    BY <1>5, <2>1, <2>2, <2>3 DEF Other
<1>6. CASE \/ \E b \in Runbooks : Execute(b)
           \/ \E e \in Execs, s \in Steps, to \in StepStates : StepClicked(e, s, to)
           \/ \E e \in Execs, to \in Terminal : EndClicked(e, to)
           \/ \E e \in Execs : AnswerLost(e) \/ StepSettled(e) \/ EndSettled(e)
           \/ \E m \in starting : StartSettled(m)
           \/ Refetching \/ RefetchFailed
  <2>1. UNCHANGED exec
    BY <1>6 DEF Execute, StepClicked, EndClicked, AnswerLost, StepSettled, EndSettled, StartSettled,
                Refetching, Poll, RefetchRead, RefetchLands, RefetchFailed
  <2> QED
    BY <1>1, <2>1, RowsUntouched
<1> QED
  BY <1>2, <1>3, <1>4, <1>5, <1>6 DEF RNext, Serve

(* No execution, an empty list, and the request for it. *)
LEMMA EmptyFits ==
  /\ Absent \in ExecState /\ Consistent(Absent)
  /\ NoRefetch \in FetchState /\ [NoRefetch EXCEPT !.st = "sent"] \in FetchState
<1>1. Absent \in ExecState /\ Consistent(Absent)
  BY DEF Absent, ExecState, StepStates, Consistent, Once
<1>2. NoList \in [Execs -> ExecState]
  BY <1>1 DEF NoList
<1> QED
  BY <1>1, <1>2 DEF NoRefetch, FetchState

LEMMA TypesKept ==
  ASSUME PanelTypeOK, Rows', RNext
  PROVE  PanelTypeOK'
<1> USE DEF PanelTypeOK
<1>1. exec' \in [Execs -> ExecState]
  BY DEF Rows
<1>2. ASSUME NEW b \in Runbooks, Execute(b)
      PROVE  PanelTypeOK'
  BY <1>1, <1>2 DEF Execute, Answers
<1>3. ASSUME NEW e \in Execs, NEW s \in Steps, NEW to \in StepStates, StepClicked(e, s, to)
      PROVE  PanelTypeOK'
  <2>1. cached[e].state[s] \in StepStates
    BY DEF ExecState
  <2>2. [st |-> "sent", s |-> s, from |-> cached[e].state[s], to |-> to] \in StepRequest
    BY <2>1 DEF StepRequest, Answers
  <2> QED
    BY <1>1, <1>3, <2>2 DEF StepClicked
<1>4. ASSUME NEW e \in Execs, NEW to \in Terminal, EndClicked(e, to)
      PROVE  PanelTypeOK'
  <2>1. [st |-> "sent", to |-> to] \in EndRequest
    BY DEF EndRequest, Answers
  <2> QED
    BY <1>1, <1>4, <2>1 DEF EndClicked
<1>5. ASSUME NEW e \in Execs, stepping[e].st # "idle", NEW st \in Answers,
             stepping' = [stepping EXCEPT ![e].st = st]
      PROVE  stepping' \in [Execs -> {Quiet} \cup StepRequest]
  <2>1. stepping[e] \in StepRequest
    BY <1>5 DEF Quiet
  <2>2. [stepping[e] EXCEPT !.st = st] \in StepRequest
    BY <2>1 DEF StepRequest
  <2> QED
    BY <1>5, <2>2
<1>6. ASSUME NEW e \in Execs, ending[e].st # "idle", NEW st \in Answers,
             ending' = [ending EXCEPT ![e].st = st]
      PROVE  ending' \in [Execs -> {Quiet} \cup EndRequest]
  <2>1. ending[e] \in EndRequest
    BY <1>6 DEF Quiet
  <2>2. [ending[e] EXCEPT !.st = st] \in EndRequest
    BY <2>1 DEF EndRequest
  <2> QED
    BY <1>6, <2>2
<1>7. ASSUME NEW st
      PROVE  Settled(st) => refetch' \in FetchState
  BY EmptyFits DEF Settled
<1>8. ASSUME NEW m \in starting, ServeStart(m)
      PROVE  PanelTypeOK'
  <2>1. \A st \in Answers : [m EXCEPT !.st = st] \in [n : Nat, book : Runbooks, st : Answers]
    OBVIOUS
  <2> QED
    BY <1>1, <1>8, <2>1 DEF ServeStart, Answers
<1>9. ASSUME NEW m \in starting, StartSettled(m)
      PROVE  PanelTypeOK'
  BY <1>1, <1>7, <1>9 DEF StartSettled
<1>10. ASSUME NEW e \in Execs, ServeStep(e)
       PROVE  PanelTypeOK'
  BY <1>1, <1>5, <1>10 DEF ServeStep, Answers
<1>11. ASSUME NEW e \in Execs, ServeEnd(e)
       PROVE  PanelTypeOK'
  BY <1>1, <1>6, <1>11 DEF ServeEnd, Answers
<1>12. ASSUME NEW e \in Execs, AnswerLost(e)
       PROVE  PanelTypeOK'
  BY <1>1, <1>5, <1>6, <1>12 DEF AnswerLost, Answers
<1>13. ASSUME NEW e \in Execs, StepSettled(e) \/ EndSettled(e)
       PROVE  PanelTypeOK'
  BY <1>1, <1>7, <1>13 DEF StepSettled, EndSettled
<1>14. CASE Refetching \/ RefetchFailed
  BY <1>1, <1>14, EmptyFits DEF FetchState, Refetching, Poll, RefetchRead, RefetchLands, RefetchFailed
<1>15. CASE Other
  BY <1>1, <1>15 DEF Other
<1> QED
  BY <1>2, <1>3, <1>4, <1>8, <1>9, <1>10, <1>11, <1>12, <1>13, <1>14, <1>15 DEF RNext, Serve

-----------------------------------------------------------------------------
(* Types, and every row past its history, are an inductive invariant. *)
THEOREM Invariance ==
  ASSUME "end" \notin Steps
  PROVE  RSpec => []IInv
<1>1. RInit => IInv
  <2> SUFFICES ASSUME RInit
               PROVE  IInv
    OBVIOUS
  <2>1. NoList \in [Execs -> ExecState] /\ \A e \in Execs : Consistent(NoList[e])
    BY EmptyFits DEF NoList
  <2>2. PanelTypeOK
    BY <2>1, EmptyFits DEF RInit, PanelTypeOK
  <2> QED
    BY <2>1, <2>2 DEF RInit, IInv
<1>2. IInv /\ [RNext]_rvars => IInv'
  <2> SUFFICES ASSUME IInv, [RNext]_rvars
               PROVE  IInv'
    OBVIOUS
  <2>1. CASE RNext
    <3>1. Rows'
      BY <2>1, RowsKept
    <3>2. PanelTypeOK'
      BY <2>1, <3>1, TypesKept DEF IInv
    <3> QED
      BY <3>1, <3>2 DEF IInv, Rows
  <2>2. CASE UNCHANGED rvars
    BY <2>2 DEF rvars, IInv, PanelTypeOK, Consistent, Once, Past
  <2> QED
    BY <2>1, <2>2
<1> QED
  BY <1>1, <1>2, PTL DEF RSpec

(* No runbook step is begun or finished twice and nothing is recorded after the
   end, however many pages send requests made from old copies: the server
   compares state and status under the row's lock (apps/incidents/services.py). *)
THEOREM StepsHappenOnceHolds ==
  ASSUME "end" \notin Steps
  PROVE  RSpec => []StepsHappenOnce
<1>1. IInv => StepsHappenOnce
  BY DEF IInv, Consistent, Once, Finished, StepsHappenOnce
<1> QED
  BY <1>1, Invariance, PTL
=============================================================================
