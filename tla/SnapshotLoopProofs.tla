------------------------- MODULE SnapshotLoopProofs -------------------------
(***************************************************************************)
(* The loops of ingestion compute the closed forms of TelemetryMerge, for   *)
(* every batch.  One round adds one event to what has been merged, and the  *)
(* lemmas say what one more event does to each closed form, given that it   *)
(* comes after all others in the order of the stable sort (UpdateByMore,    *)
(* TouchesMore, CreateByMore).  The invariant LoopInv carries this order    *)
(* from the first loop to the second.                                       *)
(***************************************************************************)
EXTENDS SnapshotLoop, TelemetryMergeProofs, FiniteSetTheorems, SequenceTheorems

(* The order of unique_items: by time, and by position among equals. *)
Precedes(b, e, f) == \/ Time(e) < Time(f)
                     \/ Time(e) = Time(f) /\ Position(b, e) < Position(b, f)

(***************************************************************************)
(* Maxima, positions and the events that move the snapshot.                 *)
(***************************************************************************)

LEMMA MaxOfMore ==
  ASSUME NEW T \in SUBSET Column, T # {}, NEW c \in Column
  PROVE  Max(T \cup {c}) = Larger(Max(T), c)
<1>1. Max(T) \in T /\ \A t \in T : t <= Max(T)
  BY MaxColumn
<1>2. /\ Max(T \cup {c}) \in T \cup {c}
      /\ \A t \in T \cup {c} : t <= Max(T \cup {c})
  BY MaxColumn
<1> DEFINE m == Max(T)
           n == Max(T \cup {c})
<1>3. m \in Nat /\ n \in Nat /\ c \in Nat
  BY <1>1, <1>2, ColumnType
<1>4. m <= n /\ c <= n /\ (n = c \/ n <= m)
  BY <1>1, <1>2
<1> HIDE DEF m, n
<1>5. n = IF m >= c THEN m ELSE c
  BY <1>3, <1>4
<1> QED
  BY <1>5 DEF m, n, Larger

LEMMA MaxOfOne ==
  ASSUME NEW c \in Column
  PROVE  Max({c}) = c
BY MaxColumn

(* An event later than all others is the newest. *)
LEMMA NewestIsLater ==
  ASSUME NEW S \in SUBSET Events, NEW e \in Events, \A f \in S : Time(f) < Time(e)
  PROVE  Newest(S \cup {e}) = e
<1> DEFINE n == Newest(S \cup {e})
<1>1. n \in S \cup {e} /\ Time(e) <= Time(n)
  BY NewestIsLatest
<1>2. Time(e) \in Int /\ Time(n) \in Int
  BY <1>1, PayloadType, ColumnType
<1>3. ASSUME n \in S PROVE FALSE
  <2>1. Time(n) < Time(e)
    BY <1>3
  <2> HIDE DEF n
  <2> QED
    BY <1>1, <1>2, <2>1
<1> QED
  BY <1>1, <1>3

(* Events of a batch have a time and a position. *)
LEMMA BatchEventType ==
  ASSUME NEW b \in Seq(Events), NEW e \in Range(b)
  PROVE  e \in Events /\ Time(e) \in Int /\ Position(b, e) \in Int
<1>1. e \in Events
  BY DEF Range
<1>2. Time(e) \in Int
  BY <1>1, PayloadType, ColumnType
<1>3. Position(b, e) \in Int
  BY PositionType
<1> QED
  BY <1>1, <1>2, <1>3

(* No copy of an event comes before its position. *)
LEMMA PositionIsFirst ==
  ASSUME NEW b \in Seq(Events), NEW k \in DOMAIN b
  PROVE  Position(b, b[k]) <= k
<1> DEFINE T == {i \in DOMAIN b : b[i] = b[k]}
<1>1. T \in SUBSET Nat /\ T # {}
  OBVIOUS
<1>2. PICK i \in T : \A j \in T : i <= j
  BY <1>1, LeastExists
<1>3. /\ i \in DOMAIN b /\ b[i] = b[k]
      /\ \A j \in DOMAIN b : b[j] = b[k] => i <= j
  BY <1>2
<1>4. \A j \in DOMAIN b : b[j] = b[k] => Position(b, b[k]) <= j
  BY <1>3 DEF Position
<1> QED
  BY <1>4

(* One that is later than all others moves the snapshot too. *)
LEMMA PromotedLater ==
  ASSUME NEW b \in Seq(Events), NEW S \in SUBSET Range(b), NEW e \in Range(b), NEW since \in Int,
         Time(e) > since, \A f \in S : Time(f) < Time(e)
  PROVE  Promoted(b, S \cup {e}, since) = Promoted(b, S, since) \cup {e}
<1>2. \A f \in S \cup {e} : Position(b, f) \in Int /\ Time(f) \in Int
  BY BatchEventType
<1>3. \A f \in S : Time(f) # Time(e)
  BY <1>2
<1>4. Position(b, e) <= Position(b, e)
  BY <1>2
<1> QED
  BY <1>3, <1>4 DEF Promoted

(* One that follows another at its time, or is not later than the row, moves
   nothing and hides nothing. *)
LEMMA PromotedSame ==
  ASSUME NEW b \in Seq(Events), NEW S \in SUBSET Range(b), NEW e \in Range(b), NEW since \in Int,
         \A f \in S : Precedes(b, f, e),
         Time(e) <= since \/ \E f \in S : Time(f) = Time(e)
  PROVE  Promoted(b, S \cup {e}, since) = Promoted(b, S, since)
<1>2. \A f \in S \cup {e} : Position(b, f) \in Int /\ Time(f) \in Int
  BY BatchEventType
<1>3. \A f \in S : Time(f) = Time(e) => Position(b, f) <= Position(b, e) /\ ~(Position(b, e) <= Position(b, f))
  <2> TAKE f \in S
  <2> HAVE Time(f) = Time(e)
  <2>1. Position(b, f) < Position(b, e)
    BY <1>2 DEF Precedes
  <2> QED
    BY <1>2, <2>1
<1>4. e \notin Promoted(b, S \cup {e}, since)
  BY <1>2, <1>3 DEF Promoted
<1>5. e \notin Promoted(b, S, since)
  BY <1>2, <1>3 DEF Promoted
<1>6. ASSUME NEW f \in S, f # e
      PROVE  f \in Promoted(b, S \cup {e}, since) <=> f \in Promoted(b, S, since)
  BY <1>3 DEF Promoted
<1>7. Promoted(b, S \cup {e}, since) \subseteq S \cup {e} /\ Promoted(b, S, since) \subseteq S
  BY DEF Promoted
<1> QED
  BY <1>4, <1>5, <1>6, <1>7

(***************************************************************************)
(* One more event.                                                          *)
(***************************************************************************)

(* Nothing merged leaves the row. *)
LEMMA UpdateByNone ==
  ASSUME NEW b, NEW r \in Snapshot
  PROVE  MergeUpdate(r, b, {}) = r /\ Touches(r, {}) = FALSE
<1>1. Promoted(b, {}, r.last) = {}
  BY DEF Promoted
<1>2. {r.retry} \cup {Payload[e].retry : e \in {f \in {} : Time(f) >= r.last}} = {r.retry}
  OBVIOUS
<1>3. Max({r.retry}) = r.retry
  BY MaxOfOne DEF Snapshot
<1>4. {e \in {} : Payload[e].status = "success" \/ Payload[e].error} = {}
  OBVIOUS
<1>5. MergeUpdate(r, b, {}) = [status |-> r.status, last |-> r.last, retry |-> r.retry,
                               by |-> r.by, error |-> r.error]
  BY <1>1, <1>2, <1>3, <1>4 DEF MergeUpdate
<1> QED
  BY <1>5 DEF Snapshot, Touches

(* The retry column, with one more event. *)
LEMMA RetryOfMore ==
  ASSUME NEW S \in SUBSET Events, NEW r \in Snapshot, NEW e \in Events
  PROVE  LET R(Q) == Max({r.retry} \cup {Payload[g].retry : g \in {f \in Q : Time(f) >= r.last}})
         IN  R(S \cup {e}) = IF Time(e) >= r.last THEN Larger(R(S), Payload[e].retry) ELSE R(S)
<1> DEFINE T(Q) == {r.retry} \cup {Payload[g].retry : g \in {f \in Q : Time(f) >= r.last}}
<1>1. T(S) \in SUBSET Column /\ T(S) # {} /\ Payload[e].retry \in Column
  BY PayloadType DEF Snapshot
<1>2. T(S \cup {e}) = IF Time(e) >= r.last THEN T(S) \cup {Payload[e].retry} ELSE T(S)
  OBVIOUS
<1> HIDE DEF T
<1>3. Max(T(S \cup {e})) = IF Time(e) >= r.last THEN Larger(Max(T(S)), Payload[e].retry) ELSE Max(T(S))
  BY <1>1, <1>2, MaxOfMore
<1> QED
  BY <1>3 DEF T

(* One round of the loop over an existing row. *)
LEMMA UpdateByMore ==
  ASSUME NEW b \in Seq(Events), NEW S \in SUBSET Range(b), NEW r \in Snapshot,
         NEW e \in Range(b), \A f \in S : Precedes(b, f, e)
  PROVE  MergeUpdate(r, b, S \cup {e}) = UpdateStep(MergeUpdate(r, b, S), e)
<1> DEFINE m   == MergeUpdate(r, b, S)
           up  == Promoted(b, S, r.last)
           up2 == Promoted(b, S \cup {e}, r.last)
           tells(f) == Payload[f].status = "success" \/ Payload[f].error
           says(Q) == {f \in Q : tells(f)}
           R(Q) == Max({r.retry} \cup {Payload[g].retry : g \in {f \in Q : Time(f) >= r.last}})
<1>0. /\ S \in SUBSET Events /\ e \in Events /\ r.last \in Int
      /\ up \in SUBSET S /\ up2 \in SUBSET (S \cup {e})
      /\ \A f \in S \cup {e} : Time(f) \in Int
  BY BatchEventType, ColumnType DEF Snapshot, Promoted
<1>1. /\ m \in Snapshot /\ m.last >= r.last
      /\ \A f \in S : Time(f) <= m.last
      /\ m.last = r.last \/ (m.last > r.last /\ \E f \in S : Time(f) = m.last)
  BY UpdateIsLatest
<1>2. m.last \in Int /\ m.retry \in Int /\ Payload[e].retry \in Int
  BY <1>0, <1>1, PayloadType, ColumnType DEF Snapshot
<1>3. m = [status |-> IF up # {} THEN Payload[Newest(up)].status ELSE r.status,
           last   |-> IF up # {} THEN Time(Newest(up)) ELSE r.last,
           retry  |-> R(S),
           by     |-> IF up # {} THEN "event" ELSE r.by,
           error  |-> IF says(up) = {} THEN r.error
                      ELSE IF Payload[Newest(says(up))].status = "success" THEN "none"
                      ELSE "event"]
  BY DEF MergeUpdate
<1>4. MergeUpdate(r, b, S \cup {e}) =
          [status |-> IF up2 # {} THEN Payload[Newest(up2)].status ELSE r.status,
           last   |-> IF up2 # {} THEN Time(Newest(up2)) ELSE r.last,
           retry  |-> R(S \cup {e}),
           by     |-> IF up2 # {} THEN "event" ELSE r.by,
           error  |-> IF says(up2) = {} THEN r.error
                      ELSE IF Payload[Newest(says(up2))].status = "success" THEN "none"
                      ELSE "event"]
  BY DEF MergeUpdate
<1>5. R(S \cup {e}) = IF Time(e) >= r.last THEN Larger(R(S), Payload[e].retry) ELSE R(S)
  BY <1>0, RetryOfMore
<1>6. R(S) = m.retry
  BY <1>3
<1>7. CASE Time(e) > m.last
  <2>1. Time(e) > r.last /\ \A f \in S : Time(f) < Time(e)
    <3> HIDE DEF m
    <3> QED
      BY <1>0, <1>1, <1>2, <1>7
  <2>2. up2 = up \cup {e}
    BY <1>0, <2>1, PromotedLater
  <2>3. Newest(up2) = e
    <3> HIDE DEF up, up2
    <3>1. up \in SUBSET Events /\ \A f \in up : Time(f) < Time(e)
      BY <1>0, <2>1
    <3>2. Newest(up \cup {e}) = e
      BY <1>0, <3>1, NewestIsLater
    <3> QED
      BY <2>2, <3>2
  <2>4. (tells(e) => says(up2) = says(up) \cup {e}) /\ (~tells(e) => says(up2) = says(up))
    <3> HIDE DEF up, up2, tells
    <3>1. ASSUME tells(e) PROVE says(up \cup {e}) = says(up) \cup {e}
      BY <3>1, Zenon
    <3>2. ASSUME ~tells(e) PROVE says(up \cup {e}) = says(up)
      BY <3>2, Zenon
    <3> QED
      BY <2>2, <3>1, <3>2, Zenon
  <2>a. says(up) \in SUBSET S
    <3> HIDE DEF up, up2, tells
    <3> QED
      BY <1>0
  <2>5. ASSUME says(up2) = says(up) \cup {e} PROVE Newest(says(up2)) = e
    <3> HIDE DEF up, up2, says
    <3>1. says(up) \in SUBSET Events /\ \A f \in says(up) : Time(f) < Time(e)
      BY <1>0, <2>1, <2>a
    <3>2. Newest(says(up) \cup {e}) = e
      BY <1>0, <3>1, NewestIsLater
    <3> QED
      BY <2>5, <3>2
  <2>6. R(S \cup {e}) = Larger(m.retry, Payload[e].retry)
    BY <1>0, <1>5, <1>6, <2>1
  <2> DEFINE err(Q) == IF says(Q) = {} THEN r.error
                       ELSE IF Payload[Newest(says(Q))].status = "success" THEN "none"
                       ELSE "event"
  <2>7. err(up) = m.error
    BY <1>3
  <2>8. err(up2) = IF Payload[e].status = "success" THEN "none"
                   ELSE IF Payload[e].error THEN "event" ELSE m.error
    <3>1. CASE Payload[e].status = "success"
      BY <2>4, <2>5, <3>1
    <3>2. CASE Payload[e].status # "success" /\ Payload[e].error
      BY <2>4, <2>5, <3>2
    <3>3. CASE Payload[e].status # "success" /\ ~Payload[e].error
      BY <2>4, <2>7, <3>3
    <3> QED
      BY <3>1, <3>2, <3>3
  <2>9. up2 # {}
    BY <2>2
  <2> HIDE DEF m, up, up2, says, R, err
  <2>10. MergeUpdate(r, b, S \cup {e}) =
           [status |-> Payload[e].status, last |-> Time(e),
            retry |-> Larger(m.retry, Payload[e].retry), by |-> "event",
            error |-> IF Payload[e].status = "success" THEN "none"
                      ELSE IF Payload[e].error THEN "event" ELSE m.error]
    BY <1>4, <2>3, <2>6, <2>8, <2>9 DEF err
  <2>11. Payload[e].time > m.last
    BY <1>7 DEF Time
  <2> QED
    BY <2>10, <2>11 DEF UpdateStep, Time, m
<1>8. CASE ~(Time(e) > m.last)
  <2>1. Time(e) <= r.last \/ \E f \in S : Time(f) = Time(e)
    <3>1. CASE m.last = r.last
      BY <1>0, <1>2, <1>8, <3>1
    <3>2. CASE \E f \in S : Time(f) = m.last
      <4>1. PICK f \in S : Time(f) = m.last
        BY <3>2
      <4>2. Time(f) <= Time(e)
        BY <1>0, <4>1 DEF Precedes
      <4> HIDE DEF m
      <4> QED
        BY <1>0, <1>2, <1>8, <4>1, <4>2
    <3> QED
      BY <1>1, <3>1, <3>2
  <2>2. up2 = up
    BY <1>0, <2>1, PromotedSame
  <2>3. Time(e) >= r.last => Time(e) = m.last
    <3>1. CASE m.last = r.last
      <4> HIDE DEF m
      <4> QED
        BY <1>0, <1>2, <1>8, <3>1
    <3>2. CASE \E f \in S : Time(f) = m.last
      <4>1. PICK f \in S : Time(f) = m.last
        BY <3>2
      <4>2. Time(f) <= Time(e)
        BY <1>0, <4>1 DEF Precedes
      <4> HIDE DEF m
      <4> QED
        BY <1>0, <1>2, <1>8, <4>1, <4>2
    <3> QED
      BY <1>1, <3>1, <3>2
  <2>4. R(S \cup {e}) = IF Time(e) = m.last THEN Larger(m.retry, Payload[e].retry) ELSE m.retry
    <3> HIDE DEF m, R
    <3> QED
      BY <1>0, <1>1, <1>2, <1>5, <1>6, <2>3
  <2>5. R(S \cup {e}) = IF Time(e) = m.last /\ Payload[e].retry > m.retry
                        THEN Payload[e].retry ELSE m.retry
    <3> HIDE DEF m, R
    <3> QED
      BY <1>2, <2>4 DEF Larger
  <2>6. m.retry = R(S) /\ DOMAIN m = {"status", "last", "retry", "by", "error"}
    BY <1>3
  <2>7. MergeUpdate(r, b, S \cup {e}) = [m EXCEPT !.retry = R(S \cup {e})]
    <3> HIDE DEF up, up2, says, R, m
    <3> QED
      BY <1>3, <1>4, <2>2
  <2>8. [m EXCEPT !.retry = m.retry] = m
    BY <1>3
  <2>9. Payload[e].time = Time(e)
    BY DEF Time
  <2> HIDE DEF up, up2, says, R, m
  <2>10. ~(Payload[e].time > m.last)
    BY <1>8, <2>9
  <2> QED
    BY <2>5, <2>7, <2>8, <2>9, <2>10 DEF UpdateStep, m
<1> QED
  BY <1>7, <1>8

(* has_updates, with one more event. *)
LEMMA TouchesMore ==
  ASSUME NEW b \in Seq(Events), NEW S \in SUBSET Range(b), NEW r \in Snapshot,
         NEW e \in Range(b), \A f \in S : Precedes(b, f, e)
  PROVE  Touches(r, S \cup {e}) = (Touches(r, S) \/ Changes(MergeUpdate(r, b, S), e))
<1> DEFINE m == MergeUpdate(r, b, S)
           moves(f) == \/ Time(f) > r.last
                       \/ /\ Time(f) = r.last
                          /\ Payload[f].retry > r.retry \/ Payload[f].meta
<1>0. /\ S \in SUBSET Events /\ e \in Events /\ r.last \in Int
      /\ \A f \in S \cup {e} : Time(f) \in Int
  BY BatchEventType, ColumnType DEF Snapshot
<1>1. /\ m \in Snapshot /\ m.last >= r.last /\ m.retry >= r.retry
      /\ \A f \in S : Time(f) <= m.last
      /\ m.last = r.last \/ (m.last > r.last /\ \E f \in S : Time(f) = m.last)
  BY UpdateIsLatest
<1>2. /\ m.last \in Int /\ m.retry \in Int /\ r.retry \in Int
      /\ \A f \in S \cup {e} : Payload[f].retry \in Int
  BY <1>0, <1>1, PayloadType, ColumnType DEF Snapshot
<1>3. Touches(r, S \cup {e}) <=> Touches(r, S) \/ moves(e)
  <2>1. Touches(r, S) <=> \E f \in S : moves(f)
    BY DEF Touches
  <2>2. Touches(r, S \cup {e}) <=> \E f \in S \cup {e} : moves(f)
    BY DEF Touches
  <2> HIDE DEF moves
  <2> QED
    BY <2>1, <2>2, Zenon
<1> SUFFICES Touches(r, S \cup {e}) <=> Touches(r, S) \/ Changes(m, e)
  BY DEF Touches
<1>4. CASE m.last > r.last
  <2>1. PICK f \in S : Time(f) > r.last
    BY <1>1, <1>2, <1>0, <1>4
  <2> QED
    BY <1>3, <2>1 DEF Touches
<1>5. CASE m.last = r.last
  <2>1. \A f \in S : Time(f) <= r.last
    BY <1>1, <1>5
  <2>2. m.retry = Max({r.retry} \cup {Payload[g].retry : g \in {f \in S : Time(f) >= r.last}})
    BY DEF MergeUpdate
  <2>3. m.retry \in {r.retry} \cup {Payload[g].retry : g \in {f \in S : Time(f) >= r.last}}
    <3> DEFINE T == {r.retry} \cup {Payload[g].retry : g \in {f \in S : Time(f) >= r.last}}
    <3>1. T \in SUBSET Column /\ T # {}
      BY <1>0, PayloadType DEF Snapshot
    <3>2. Max(T) \in T
      BY <3>1, MaxColumn
    <3> QED
      BY <2>2, <3>2
  <2> HIDE DEF m
  <2>4. CASE m.retry = r.retry
    <3>1. Changes(m, e) <=> moves(e)
      BY <1>5, <2>4 DEF Changes
    <3> HIDE DEF moves
    <3> QED
      BY <1>3, <3>1 DEF m
  <2>5. CASE m.retry # r.retry
    <3>1. PICK f \in S : Time(f) >= r.last /\ m.retry = Payload[f].retry
      BY <2>3, <2>5
    <3>2. Time(f) = r.last
      BY <1>0, <2>1, <3>1
    <3>3. Payload[f].retry > r.retry
      BY <1>1, <1>2, <2>5, <3>1
    <3>4. Touches(r, S)
      BY <3>2, <3>3 DEF Touches
    <3> QED
      BY <1>3, <3>4
  <2> QED
    BY <2>4, <2>5
<1> QED
  BY <1>1, <1>4, <1>5

(* The first event of a new execution is its row. *)
LEMMA CreateByOne ==
  ASSUME NEW b \in Seq(Events), NEW e \in Range(b)
  PROVE  MergeCreate(b, {e}) = FirstRow(e)
<1>1. e \in Events /\ Time(e) > -1
  BY BatchEventType, PayloadType, ColumnType
<1>2. Promoted(b, {}, -1) = {}
  BY DEF Promoted
<1>3. Promoted(b, {e}, -1) = {e}
  <2>1. Promoted(b, {} \cup {e}, -1) = Promoted(b, {}, -1) \cup {e}
    BY <1>1, PromotedLater
  <2> QED
    BY <1>2, <2>1
<1>4. Newest({e}) = e
  BY <1>1, NewestIsLatest
<1>5. Max({Payload[f].retry : f \in {e}}) = Payload[e].retry
  <2>1. {Payload[f].retry : f \in {e}} = {Payload[e].retry}
    OBVIOUS
  <2> QED
    BY <1>1, <2>1, PayloadType, MaxOfOne
<1>6. (\E f \in {e} : Payload[f].error) <=> Payload[e].error
  OBVIOUS
<1> QED
  BY <1>3, <1>4, <1>5, <1>6 DEF MergeCreate, FirstRow, Time

(* One round of the loop that builds a new row. *)
LEMMA CreateByMore ==
  ASSUME NEW b \in Seq(Events), NEW S \in SUBSET Range(b), S # {},
         NEW e \in Range(b), \A f \in S : Precedes(b, f, e)
  PROVE  MergeCreate(b, S \cup {e}) = CreateStep(MergeCreate(b, S), e)
<1> DEFINE m   == MergeCreate(b, S)
           up  == Promoted(b, S, -1)
           up2 == Promoted(b, S \cup {e}, -1)
           R(Q) == Max({Payload[g].retry : g \in Q})
           err(Q) == IF \E f \in Q : Payload[f].error THEN "event" ELSE "none"
<1>0. /\ S \in SUBSET Events /\ e \in Events
      /\ up \in SUBSET S /\ up2 \in SUBSET (S \cup {e})
      /\ \A f \in S \cup {e} : Time(f) \in Int
  BY BatchEventType DEF Promoted
<1>1. /\ m \in Snapshot
      /\ \A f \in S : Time(f) <= m.last
      /\ \E f \in S : Time(f) = m.last
  BY CreateIsLatest
<1>2. m.last \in Int /\ Time(e) > -1
  BY <1>0, <1>1, PayloadType, ColumnType DEF Snapshot
<1>3. m = [status |-> Payload[Newest(up)].status, last |-> Time(Newest(up)), retry |-> R(S),
           by |-> "event", error |-> err(up)]
  BY DEF MergeCreate
<1>4. MergeCreate(b, S \cup {e}) =
        [status |-> Payload[Newest(up2)].status, last |-> Time(Newest(up2)),
         retry |-> R(S \cup {e}), by |-> "event", error |-> err(up2)]
  BY DEF MergeCreate
<1>5. R(S \cup {e}) = Larger(m.retry, Payload[e].retry)
  <2> DEFINE T(Q) == {Payload[g].retry : g \in Q}
  <2>1. T(S) \in SUBSET Column /\ T(S) # {} /\ Payload[e].retry \in Column
    BY <1>0, PayloadType
  <2>2. T(S \cup {e}) = T(S) \cup {Payload[e].retry}
    OBVIOUS
  <2>3. m.retry = Max(T(S))
    BY <1>3
  <2> HIDE DEF T, m
  <2>4. Max(T(S \cup {e})) = Larger(Max(T(S)), Payload[e].retry)
    BY <2>1, <2>2, MaxOfMore
  <2> QED
    BY <2>3, <2>4 DEF T
<1>6. CASE Time(e) > m.last
  <2>1. \A f \in S : Time(f) < Time(e)
    <3> HIDE DEF m
    <3> QED
      BY <1>0, <1>1, <1>2, <1>6
  <2>2. up2 = up \cup {e}
    BY <1>2, <2>1, PromotedLater
  <2>3. Newest(up2) = e
    <3> HIDE DEF up, up2
    <3>1. up \in SUBSET Events /\ \A f \in up : Time(f) < Time(e)
      BY <1>0, <2>1
    <3>2. Newest(up \cup {e}) = e
      BY <1>0, <3>1, NewestIsLater
    <3> QED
      BY <2>2, <3>2
  <2>4. err(up2) = IF Payload[e].error THEN "event" ELSE err(up)
    <3> HIDE DEF up, up2
    <3>1. (\E f \in up \cup {e} : Payload[f].error) <=> (Payload[e].error \/ \E f \in up : Payload[f].error)
      BY Zenon
    <3> QED
      BY <2>2, <3>1
  <2>5. m.error = err(up)
    BY <1>3
  <2> HIDE DEF m, up, up2, R, err
  <2>6. Payload[e].time > m.last /\ Payload[e].time = Time(e)
    BY <1>6 DEF Time
  <2> QED
    BY <1>4, <1>5, <2>3, <2>4, <2>5, <2>6 DEF CreateStep, m
<1>7. CASE ~(Time(e) > m.last)
  <2>1. \E f \in S : Time(f) = Time(e)
    <3>1. PICK f \in S : Time(f) = m.last
      BY <1>1
    <3>2. Time(f) <= Time(e)
      BY <1>0, <3>1 DEF Precedes
    <3> HIDE DEF m
    <3> QED
      BY <1>0, <1>2, <1>7, <3>1, <3>2
  <2>2. up2 = up
    <3>1. -1 \in Int
      OBVIOUS
    <3>2. Promoted(b, S \cup {e}, -1) = Promoted(b, S, -1)
      BY <2>1, <3>1, PromotedSame
    <3> QED
      BY <3>2
  <2>3. MergeCreate(b, S \cup {e}) = [m EXCEPT !.retry = R(S \cup {e})]
    <3> HIDE DEF up, up2, R, m, err
    <3> QED
      BY <1>3, <1>4, <2>2
  <2> HIDE DEF m, up, up2, R, err
  <2>4. ~(Payload[e].time > m.last)
    BY <1>7 DEF Time
  <2> QED
    BY <1>5, <2>3, <2>4 DEF CreateStep, m
<1> QED
  BY <1>6, <1>7

(* What the merge does not touch stays. *)
LEMMA UntouchedIsSame ==
  ASSUME NEW b \in Seq(Events), NEW S \in SUBSET Range(b), NEW r \in Snapshot, ~Touches(r, S)
  PROVE  MergeUpdate(r, b, S) = r
<1> DEFINE T == {Payload[g].retry : g \in {f \in S : Time(f) >= r.last}}
<1>a. S \in SUBSET Events
  BY DEF Range
<1>b. r.last \in Int /\ r.retry \in Column
  BY ColumnType DEF Snapshot
<1>0. S \in SUBSET Events /\ r.last \in Int /\ r.retry \in Column
  BY <1>a, <1>b
<1>1. \A f \in S : Time(f) \in Int /\ Payload[f].retry \in Column /\ ~(Time(f) > r.last)
  BY <1>0, PayloadType, ColumnType DEF Touches
<1>2. Promoted(b, S, r.last) = {}
  BY <1>1 DEF Promoted
<1>3. \A f \in S : Time(f) >= r.last => ~(Payload[f].retry > r.retry)
  BY <1>0, <1>1 DEF Touches
<1>4. Max({r.retry} \cup T) = r.retry
  <2>1. {r.retry} \cup T \in SUBSET Column /\ {r.retry} \cup T # {}
    BY <1>0, <1>1
  <2>2. Max({r.retry} \cup T) \in {r.retry} \cup T /\ r.retry <= Max({r.retry} \cup T)
    BY <2>1, MaxColumn
  <2>3. \A t \in T : t \in Int /\ ~(t > r.retry)
    BY <1>1, <1>3, ColumnType
  <2> DEFINE m == Max({r.retry} \cup T)
  <2>4. m \in {r.retry} \cup T /\ r.retry <= m /\ m \in Int /\ r.retry \in Int
    BY <2>1, <2>2, <1>0, ColumnType
  <2> HIDE DEF T, m
  <2>5. m = r.retry
    BY <2>3, <2>4
  <2> QED
    BY <2>5 DEF m
<1>5. MergeUpdate(r, b, S) = [status |-> r.status, last |-> r.last, retry |-> r.retry,
                              by |-> r.by, error |-> r.error]
  BY <1>2, <1>4 DEF MergeUpdate
<1> QED
  BY <1>5 DEF Snapshot

-----------------------------------------------------------------------------
(* The events the second loop has merged. *)
MergedEvents == {unique[k] : k \in 1..merged}

LoopTypes == /\ batch \in Seq(Events)
             /\ old \in OldRows \cup {NoExec} /\ known \in SUBSET Events
             /\ ahead \in SUBSET Grouped
             /\ unique \in Seq(Events) /\ merged \in 0..Len(unique)

(* What the first loop has collected: the new events among the items it has
   reached, in their order, and all of these before the items it has not. *)
Collected ==
  /\ Range(unique) = {batch[i] : i \in Grouped \ ahead} \ known
  /\ \A j, k \in DOMAIN unique : j < k => Precedes(batch, unique[j], unique[k])
  /\ \A i \in Grouped \ ahead, j \in ahead : i # j /\ SortedBefore(i, j)

(* The row is at any time the closed form of what has been merged. *)
RowFollows ==
  /\ ahead # {} => merged = 0
  /\ old # NoExec => /\ rowNow = MergeUpdate(old, batch, MergedEvents)
                     /\ hasUpdates = Touches(old, MergedEvents)
  /\ old = NoExec /\ merged > 0 => rowNow = MergeCreate(batch, MergedEvents)

LoopInv == LoopTypes /\ Collected /\ RowFollows

LEMMA LoopInit == Init => LoopInv
<1> SUFFICES ASSUME Init PROVE LoopInv
  OBVIOUS
<1>1. batch \in Seq(Events)
  BY LoopAssumption, SeqDef DEF Init
<1>2. unique = <<>> /\ DOMAIN unique = {} /\ Len(unique) = 0 /\ unique \in Seq(Events)
  BY DEF Init
<1>3. Range(unique) = {}
  BY <1>2 DEF Range
<1>4. LoopTypes
  <2>1. old \in OldRows \cup {NoExec} /\ known \in SUBSET Events
    BY LoopAssumption DEF Init
  <2>2. ahead \in SUBSET Grouped /\ merged \in 0..Len(unique)
    BY <1>2 DEF Init
  <2> QED
    BY <1>1, <1>2, <2>1, <2>2 DEF LoopTypes
<1>5. Collected
  BY <1>2, <1>3 DEF Init, Collected
<1>6. MergedEvents = {}
  BY DEF Init, MergedEvents
<1>7. ASSUME old # NoExec
      PROVE  rowNow = MergeUpdate(old, batch, MergedEvents) /\ hasUpdates = Touches(old, MergedEvents)
  <2>1. old \in Snapshot /\ rowNow = old /\ hasUpdates = FALSE
    BY <1>7, LoopAssumption DEF Init
  <2>2. MergeUpdate(old, batch, {}) = old /\ Touches(old, {}) = FALSE
    BY <2>1, UpdateByNone
  <2> QED
    BY <1>6, <2>1, <2>2
<1>8. merged = 0 /\ ~(merged > 0)
  BY DEF Init
<1>9. RowFollows
  BY <1>7, <1>8 DEF RowFollows
<1> QED
  BY <1>4, <1>5, <1>9 DEF LoopInv

(* A round of the first loop: what is appended has its first position here,
   and comes after all that has been appended. *)
LEMMA CollectKeeps == LoopInv /\ Collect => LoopInv'
<1> SUFFICES ASSUME LoopInv, Collect PROVE LoopInv'
  OBVIOUS
<1> USE DEF LoopInv
<1>1. PICK i \in ahead :
        /\ \A j \in ahead : SortedBefore(i, j)
        /\ ahead' = ahead \ {i}
        /\ unique' = IF Duplicate(batch[i]) THEN unique ELSE Append(unique, batch[i])
  BY DEF Collect
<1>2. UNCHANGED <<batch, old, known, merged, rowNow, hasUpdates>>
  BY DEF Collect
<1> DEFINE e == batch[i]
<1>3. /\ i \in DOMAIN batch /\ ExecOf(e) = Target /\ i \in Grouped
      /\ DOMAIN batch \subseteq Nat /\ e \in Events /\ e \in Range(batch)
  BY DEF LoopTypes, Grouped, Range
<1>4. Grouped' = Grouped
  BY <1>2 DEF Grouped
<1>5. /\ merged = 0 /\ merged' = 0 /\ MergedEvents = {} /\ MergedEvents' = {}
  BY <1>1, <1>2 DEF RowFollows, MergedEvents
<1>6. RowFollows'
  BY <1>2, <1>5 DEF RowFollows
<1>7. {batch[j] : j \in Grouped \ (ahead \ {i})} = {batch[j] : j \in Grouped \ ahead} \cup {e}
  BY <1>3
<1>8. ASSUME NEW k \in (Grouped \ ahead)', NEW j \in ahead' PROVE (k # j /\ SortedBefore(k, j))'
  <2>1. k # j /\ SortedBefore(k, j)
    BY <1>1, <1>4, <1>8 DEF Collected
  <2> QED
    BY <1>2, <2>1 DEF SortedBefore
<1>9. CASE Duplicate(e)
  <2>1. unique' = unique
    BY <1>1, <1>9
  <2>2. Range(unique) = ({batch[j] : j \in Grouped \ ahead} \cup {e}) \ known
    BY <1>9 DEF Collected, Duplicate
  <2>3. Collected'
    <3>1. (Range(unique) = {batch[j] : j \in Grouped \ ahead} \ known)'
      BY <1>1, <1>2, <1>4, <1>7, <2>1, <2>2
    <3>2. (\A j, k \in DOMAIN unique : j < k => Precedes(batch, unique[j], unique[k]))'
      BY <1>2, <2>1 DEF Collected
    <3> QED
      BY <1>8, <3>1, <3>2 DEF Collected
  <2>4. LoopTypes'
    BY <1>1, <1>2, <1>4, <2>1 DEF LoopTypes
  <2> QED
    BY <1>6, <2>3, <2>4
<1>10. CASE ~Duplicate(e)
  <2>1. unique' = Append(unique, e) /\ unique \in Seq(Events)
    BY <1>1, <1>10 DEF LoopTypes
  <2>2. /\ unique' \in Seq(Events) /\ Len(unique') = Len(unique) + 1
        /\ unique'[Len(unique) + 1] = e
        /\ \A k \in 1..Len(unique) : unique'[k] = unique[k]
        /\ DOMAIN unique = 1..Len(unique) /\ DOMAIN unique' = 1..(Len(unique) + 1)
        /\ Len(unique) \in Nat
    BY <1>3, <2>1
  <2>3. Range(unique') = Range(unique) \cup {e}
    BY <2>2 DEF Range
  <2>4. e \notin known /\ e \notin Range(unique)
    BY <1>10 DEF Duplicate
  <2>5. Position(batch, e) = i
    <3>1. ASSUME NEW k \in DOMAIN batch, batch[k] = e PROVE i <= k
      <4>1. k \in Grouped
        BY <1>3, <3>1 DEF Grouped
      <4>2. k \in ahead
        BY <2>4, <3>1, <4>1 DEF Collected
      <4>3. SortedBefore(i, k)
        BY <1>1, <4>2
      <4>4. Time(batch[i]) \in Int
        BY <1>3, BatchEventType DEF LoopTypes
      <4> QED
        BY <3>1, <4>3, <4>4 DEF SortedBefore
    <3>2. \A k \in DOMAIN batch :
            /\ batch[k] = e /\ (\A l \in DOMAIN batch : batch[l] = e => k <= l)
            => k = i
      BY <1>3, <3>1
    <3> QED
      BY <1>3, <3>1, <3>2 DEF Position
  <2>6. ASSUME NEW f \in Range(unique) PROVE Precedes(batch, f, e)
    <3>1. PICK k \in Grouped \ ahead : batch[k] = f
      BY DEF Collected
    <3>2. k # i /\ SortedBefore(k, i) /\ k \in DOMAIN batch
      BY <3>1 DEF Collected, Grouped
    <3>3. Position(batch, f) <= k
      BY <1>3, <3>1, <3>2, PositionIsFirst DEF LoopTypes
    <3>4. f \in Range(batch)
      BY <3>1, <3>2 DEF Range
    <3>5. Time(f) \in Int /\ Time(e) \in Int /\ Position(batch, f) \in Int
      BY <1>3, <3>4, BatchEventType DEF LoopTypes
    <3>6. k \in Nat /\ i \in Nat
      BY <1>3, <3>2
    <3> HIDE DEF e
    <3>7. Time(f) < Time(e) \/ (Time(f) = Time(e) /\ k <= i)
      BY <3>1, <3>2 DEF SortedBefore, e
    <3> QED
      BY <2>5, <3>2, <3>3, <3>5, <3>6, <3>7 DEF Precedes
  <2>7. (\A j, k \in DOMAIN unique : j < k => Precedes(batch, unique[j], unique[k]))'
    <3> SUFFICES ASSUME NEW j \in DOMAIN unique', NEW k \in DOMAIN unique', j < k
                 PROVE  Precedes(batch, unique'[j], unique'[k])
      BY <1>2
    <3>1. j \in 1..Len(unique) /\ unique'[j] = unique[j] /\ unique[j] \in Range(unique)
      BY <2>2 DEF Range
    <3>2. CASE k = Len(unique) + 1
      BY <2>2, <2>6, <3>1, <3>2
    <3>3. CASE k \in 1..Len(unique)
      BY <2>2, <3>1, <3>3 DEF Collected
    <3> QED
      BY <2>2, <3>2, <3>3
  <2>8. (Range(unique) = {batch[j] : j \in Grouped \ ahead} \ known)'
    <3>1. Range(unique') = ({batch[j] : j \in Grouped \ ahead} \cup {e}) \ known
      BY <2>3, <2>4 DEF Collected
    <3> QED
      BY <1>1, <1>2, <1>4, <1>7, <3>1
  <2>9. Collected'
    BY <1>8, <2>7, <2>8 DEF Collected
  <2>10. LoopTypes'
    BY <1>1, <1>2, <1>4, <1>5, <2>2 DEF LoopTypes
  <2> QED
    BY <1>6, <2>9, <2>10
<1> QED
  BY <1>9, <1>10

(* What the second loop merges next comes after what it has merged. *)
LEMMA MergeNext ==
  ASSUME LoopInv, Merge
  PROVE  /\ MergedEvents \in SUBSET Range(batch) /\ unique[merged + 1] \in Range(batch)
         /\ \A f \in MergedEvents : Precedes(batch, f, unique[merged + 1])
         /\ MergedEvents' = MergedEvents \cup {unique[merged + 1]}
         /\ MergedEvents = {} <=> merged = 0
         /\ LoopTypes' /\ Collected'
<1> USE DEF LoopInv
<1>1. /\ merged \in Nat /\ DOMAIN unique = 1..Len(unique) /\ Len(unique) \in Nat
      /\ 1..merged \subseteq DOMAIN unique /\ merged + 1 \in DOMAIN unique
  BY DEF LoopTypes, Merge
<1>2. Range(unique) \subseteq Range(batch)
  BY DEF Collected, Range, Grouped
<1>3. 1..(merged + 1) = (1..merged) \cup {merged + 1}
  BY <1>1
<1>4. MergedEvents' = {unique[k] : k \in 1..(merged + 1)}
  BY DEF Merge, MergedEvents
<1>5. MergedEvents' = MergedEvents \cup {unique[merged + 1]}
  BY <1>3, <1>4 DEF MergedEvents
<1>6. MergedEvents \subseteq Range(unique) /\ unique[merged + 1] \in Range(unique)
  BY <1>1 DEF MergedEvents, Range
<1>7. \A f \in MergedEvents : Precedes(batch, f, unique[merged + 1])
  BY <1>1 DEF MergedEvents, Collected
<1>8. MergedEvents = {} <=> merged = 0
  <2>1. merged # 0 => 1 \in 1..merged
    BY <1>1
  <2>2. merged = 0 => 1..merged = {}
    OBVIOUS
  <2>3. merged # 0 => unique[1] \in MergedEvents
    BY <2>1 DEF MergedEvents
  <2>4. merged = 0 => MergedEvents = {}
    BY <2>2 DEF MergedEvents
  <2> QED
    BY <2>3, <2>4
<1>9. LoopTypes'
  BY <1>1 DEF LoopTypes, Merge, Grouped
<1>10. Collected'
  BY DEF Collected, Merge, Grouped, SortedBefore
<1> QED
  BY <1>2, <1>5, <1>6, <1>7, <1>8, <1>9, <1>10

LEMMA MergeExistingKeeps == LoopInv /\ MergeExisting => LoopInv'
<1> SUFFICES ASSUME LoopInv, MergeExisting PROVE LoopInv'
  OBVIOUS
<1> DEFINE e == unique[merged + 1]
<1>1. Merge /\ old # NoExec /\ rowNow' = UpdateStep(rowNow, e)
      /\ hasUpdates' = (hasUpdates \/ Changes(rowNow, e))
  BY DEF MergeExisting
<1>2. old \in Snapshot /\ batch \in Seq(Events)
  BY <1>1, LoopAssumption DEF LoopInv, LoopTypes
<1>3. /\ rowNow = MergeUpdate(old, batch, MergedEvents)
      /\ hasUpdates = Touches(old, MergedEvents)
  BY <1>1 DEF LoopInv, RowFollows
<1>4. rowNow' = MergeUpdate(old, batch, MergedEvents')
  BY <1>1, <1>2, <1>3, MergeNext, UpdateByMore
<1>5. hasUpdates' = Touches(old, MergedEvents')
  <2>1. MergedEvents' = MergedEvents \cup {e}
    BY <1>1, MergeNext
  <2>2. Touches(old, MergedEvents \cup {e}) =
          (Touches(old, MergedEvents) \/ Changes(MergeUpdate(old, batch, MergedEvents), e))
    BY <1>1, <1>2, MergeNext, TouchesMore
  <2> QED
    BY <1>1, <1>3, <2>1, <2>2
<1>6. LoopTypes' /\ Collected'
  BY <1>1, MergeNext DEF LoopTypes
<1>7. RowFollows'
  BY <1>1, <1>4, <1>5 DEF RowFollows, Merge
<1> QED
  BY <1>6, <1>7 DEF LoopInv

LEMMA MergeNewKeeps == LoopInv /\ MergeNew => LoopInv'
<1> SUFFICES ASSUME LoopInv, MergeNew PROVE LoopInv'
  OBVIOUS
<1> DEFINE e == unique[merged + 1]
<1>1. /\ Merge /\ old = NoExec /\ UNCHANGED hasUpdates
      /\ rowNow' = IF merged = 0 THEN FirstRow(e) ELSE CreateStep(rowNow, e)
  BY DEF MergeNew
<1>2. batch \in Seq(Events) /\ merged \in Nat
  BY DEF LoopInv, LoopTypes
<1>3. rowNow' = MergeCreate(batch, MergedEvents')
  <2>1. CASE merged = 0
    BY <1>1, <1>2, <2>1, MergeNext, CreateByOne
  <2>2. CASE merged # 0
    <3>1. rowNow = MergeCreate(batch, MergedEvents)
      BY <1>1, <1>2, <2>2 DEF LoopInv, RowFollows
    <3> QED
      BY <1>1, <1>2, <2>2, <3>1, MergeNext, CreateByMore
  <2> QED
    BY <2>1, <2>2
<1>4. LoopTypes' /\ Collected'
  BY <1>1, MergeNext
<1>5. RowFollows'
  BY <1>1, <1>3 DEF RowFollows, Merge
<1> QED
  BY <1>4, <1>5 DEF LoopInv

(* Each round of either loop preserves LoopInv. *)
THEOREM LoopInvariance == Spec => []LoopInv
<1>1. Init => LoopInv
  BY LoopInit
<1>2. LoopInv /\ [Next]_vars => LoopInv'
  <2> SUFFICES ASSUME LoopInv, [Next]_vars PROVE LoopInv'
    OBVIOUS
  <2>1. CASE UNCHANGED vars
    BY <2>1 DEF vars, LoopInv, LoopTypes, Collected, RowFollows, MergedEvents, Grouped, SortedBefore
  <2> QED
    BY <2>1, CollectKeeps, MergeExistingKeeps, MergeNewKeeps DEF Next
<1> QED
  BY <1>1, <1>2, PTL DEF Spec

(* In a sequence without repetitions there are as many elements as indices. *)
LEMMA LengthIsCardinality ==
  ASSUME LoopInv
  PROVE  Cardinality(Range(unique)) = Len(unique)
<1> DEFINE n == Len(unique)
<1>1. unique \in Seq(Events) /\ n \in Nat /\ DOMAIN unique = 1..n
  BY DEF LoopInv, LoopTypes
<1>2. \A k \in 1..n : unique[k] \in Range(unique) /\ unique[k] \in Range(batch)
  BY <1>1 DEF Range, LoopInv, Collected, Grouped
<1>3. \A k \in 1..n : Time(unique[k]) \in Int /\ Position(batch, unique[k]) \in Int
  BY <1>2, BatchEventType DEF LoopInv, LoopTypes
<1>4. ASSUME NEW j \in 1..n, NEW k \in 1..n, j < k PROVE unique[j] # unique[k]
  <2>1. Precedes(batch, unique[j], unique[k])
    BY <1>1, <1>4 DEF LoopInv, Collected
  <2> QED
    BY <1>3, <2>1 DEF Precedes
<1>5. \A j, k \in 1..n : unique[j] = unique[k] => j = k
  BY <1>1, <1>4
<1>6. unique \in Bijection(1..n, Range(unique))
  <2>1. unique \in [1..n -> Range(unique)]
    BY <1>1 DEF Range
  <2> QED
    BY <1>1, <1>5, <2>1 DEF Bijection, Injection, Surjection, IsInjective, Range
<1>7. ExistsBijection(1..n, Range(unique))
  BY <1>6 DEF ExistsBijection
<1> QED
  BY <1>1, <1>7, FS_CountingElements

(* For every batch, every row and every set of recorded events the loops of
   ingest_executions_batch compute the closed forms of TelemetryMerge. *)
THEOREM LoopsCompute == Spec => []LoopsAreClosedForms
<1>1. LoopInv => LoopsAreClosedForms
  <2> SUFFICES ASSUME LoopInv, LoopsOver PROVE
                 /\ Len(unique) = Cardinality(New)
                 /\ old # NoExec => /\ rowNow = MergeUpdate(old, batch, New)
                                    /\ hasUpdates = Touches(old, New)
                                    /\ ~hasUpdates => rowNow = old
                 /\ old = NoExec /\ New # {} => rowNow = MergeCreate(batch, New)
    BY DEF LoopsAreClosedForms
  <2>1. Range(unique) = New
    BY DEF LoopInv, LoopTypes, Collected, LoopsOver, New, EventsOf, Grouped, Range
  <2>2. MergedEvents = Range(unique) /\ merged \in Nat
    BY DEF LoopInv, LoopTypes, LoopsOver, MergedEvents, Range
  <2>3. Len(unique) = Cardinality(New)
    BY <2>1, LengthIsCardinality
  <2>4. ASSUME old # NoExec
        PROVE  /\ rowNow = MergeUpdate(old, batch, New)
               /\ hasUpdates = Touches(old, New)
    BY <2>1, <2>2, <2>4 DEF LoopInv, RowFollows
  <2>5. ASSUME old # NoExec, ~hasUpdates PROVE rowNow = old
    <3>1. old \in Snapshot /\ batch \in Seq(Events) /\ New \in SUBSET Range(batch)
      BY <2>5, LoopAssumption DEF LoopInv, LoopTypes, New, EventsOf
    <3>2. ~Touches(old, New)
      BY <2>4, <2>5
    <3> QED
      BY <2>4, <2>5, <3>1, <3>2, UntouchedIsSame
  <2>6. ASSUME old = NoExec, New # {} PROVE rowNow = MergeCreate(batch, New)
    <3>1. merged > 0
      BY <2>1, <2>2, <2>6 DEF MergedEvents
    <3> QED
      BY <2>1, <2>2, <2>6, <3>1 DEF LoopInv, RowFollows
  <2> QED
    BY <2>3, <2>4, <2>5, <2>6
<1> QED
  BY <1>1, LoopInvariance, PTL
=============================================================================
