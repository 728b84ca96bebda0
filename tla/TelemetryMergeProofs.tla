------------------------ MODULE TelemetryMergeProofs ------------------------
(***************************************************************************)
(* What the merge of TelemetryMerge computes, for every batch: the columns  *)
(* have their types, the snapshot is that of a latest event, and it never   *)
(* moves back.  The columns are bounded, so the maxima and minima the merge *)
(* chooses exist by well-foundedness of < on the naturals.                  *)
(***************************************************************************)
EXTENDS TelemetryMerge, TLAPS, WellFoundedInduction

(* A set of naturals that is not empty has a least element. *)
LEMMA LeastExists ==
  ASSUME NEW T \in SUBSET Nat, T # {}
  PROVE  \E x \in T : \A y \in T : x <= y
<1>1. \E x \in T : \A y \in T : ~ (<<y, x>> \in OpToRel(<, Nat))
  BY WFMin, NatLessThanWellFounded
<1>2. PICK x \in T : \A y \in T : ~ (<<y, x>> \in OpToRel(<, Nat))
  BY <1>1
<1>3. \A y \in T : ~ (y < x)
  BY <1>2 DEF OpToRel
<1> QED
  BY <1>3

(* And one bounded from above has a greatest. *)
LEMMA GreatestExists ==
  ASSUME NEW N \in Nat, NEW T \in SUBSET (0..N), T # {}
  PROVE  \E x \in T : \A y \in T : y <= x
<1> DEFINE D == {N - t : t \in T}
<1>0. \A t \in T : N - t \in Nat
  OBVIOUS
<1>1. D \in SUBSET Nat /\ D # {}
  BY <1>0
<1>2. PICK d \in D : \A e \in D : d <= e
  BY <1>1, LeastExists
<1>3. PICK x \in T : d = N - x
  OBVIOUS
<1>4. \A y \in T : d <= N - y
  BY <1>2
<1> QED
  BY <1>3, <1>4

LEMMA PayloadType ==
  ASSUME NEW e \in Events
  PROVE  /\ Time(e) \in Column /\ Payload[e].retry \in Column
         /\ Payload[e].status \in Statuses /\ ExecOf(e) \in Executions
         /\ Payload[e].error \in BOOLEAN /\ Payload[e].meta \in BOOLEAN
BY PayloadAssumption DEF EventPayload, Time, ExecOf

LEMMA ColumnType ==
  /\ Largest \in Nat /\ 0 \in Column
  /\ Column \subseteq Nat /\ \A c \in Column : c \in Int /\ c > -1
BY PayloadAssumption DEF Column

(* Max, when every element is a column. *)
LEMMA MaxColumn ==
  ASSUME NEW T \in SUBSET Column, T # {}
  PROVE  Max(T) \in T /\ \A t \in T : t <= Max(T)
<1>1. PICK x \in T : \A y \in T : y <= x
  BY GreatestExists, ColumnType DEF Column
<1>2. \E m \in T : \A y \in T : m >= y
  BY <1>1, ColumnType
<1>3. Max(T) \in T /\ \A y \in T : Max(T) >= y
  BY <1>2 DEF Max
<1> QED
  BY <1>3, ColumnType

(* The newest of some events is one of them, and none is later. *)
LEMMA NewestIsLatest ==
  ASSUME NEW S \in SUBSET Events, S # {}
  PROVE  Newest(S) \in S /\ \A f \in S : Time(f) <= Time(Newest(S))
<1> DEFINE T == {Time(e) : e \in S}
<1>1. T \in SUBSET Column /\ T # {}
  BY PayloadType
<1>2. PICK e \in S : Time(e) = Max(T)
  BY <1>1, MaxColumn
<1>3. \A f \in S : Time(f) <= Time(e)
  BY <1>1, <1>2, MaxColumn
<1> QED
  BY <1>3 DEF Newest

(* The position of an event of the batch is an index. *)
LEMMA PositionType ==
  ASSUME NEW batch \in Seq(Events), NEW e \in Range(batch)
  PROVE  Position(batch, e) \in Nat
<1> DEFINE T == {i \in DOMAIN batch : batch[i] = e}
<1>1. T \in SUBSET Nat /\ T # {}
  BY DEF Range
<1>2. PICK i \in T : \A k \in T : i <= k
  BY <1>1, LeastExists
<1>3. /\ i \in DOMAIN batch /\ batch[i] = e
      /\ \A k \in DOMAIN batch : batch[k] = e => i <= k
  BY <1>2
<1>4. Position(batch, e) \in DOMAIN batch
  BY <1>3 DEF Position
<1> QED
  BY <1>4

(* If a new event is later than the row, some event moves the row, and every
   later event has the time of one that does. *)
LEMMA PromotedCovers ==
  ASSUME NEW batch \in Seq(Events), NEW S \in SUBSET Range(batch), NEW since \in Int,
         NEW f \in S, Time(f) > since
  PROVE  \E e \in Promoted(batch, S, since) : Time(e) = Time(f)
<1>0. S \in SUBSET Events
  BY DEF Range
<1> DEFINE P == {Position(batch, g) : g \in {h \in S : Time(h) = Time(f)}}
<1>1. P \in SUBSET Nat /\ P # {}
  BY PositionType
<1>2. PICK p \in P : \A q \in P : p <= q
  BY <1>1, LeastExists
<1>3. PICK e \in S : Time(e) = Time(f) /\ p = Position(batch, e)
  OBVIOUS
<1>4. \A g \in S : Time(g) = Time(e) => Position(batch, e) <= Position(batch, g)
  BY <1>2, <1>3
<1>5. e \in Promoted(batch, S, since)
  BY <1>3, <1>4 DEF Promoted
<1> QED
  BY <1>3, <1>5

(***************************************************************************)
(* What the merge leaves in the row, given the events S of the batch that   *)
(* are new to the execution.                                                *)
(***************************************************************************)

(* A new row carries the status and the time of a latest event. *)
THEOREM CreateIsLatest ==
  ASSUME NEW batch \in Seq(Events), NEW S \in SUBSET Range(batch), S # {}
  PROVE  LET new == MergeCreate(batch, S) IN
         /\ new \in Snapshot /\ new.by = "event"
         /\ \A e \in S : Time(e) <= new.last
         /\ \E e \in S : Time(e) = new.last /\ Payload[e].status = new.status
<1> DEFINE up == Promoted(batch, S, -1)
           new == MergeCreate(batch, S)
<1>0. S \in SUBSET Events /\ up \in SUBSET S
  BY DEF Range, Promoted
<1>1. \A f \in S : \E e \in up : Time(e) = Time(f)
  <2> TAKE f \in S
  <2>1. Time(f) > -1
    BY <1>0, PayloadType, ColumnType
  <2> QED
    BY <2>1, PromotedCovers
<1>2. Newest(up) \in up /\ \A f \in up : Time(f) <= Time(Newest(up))
  BY <1>0, <1>1, NewestIsLatest
<1>3. \A f \in S : Time(f) <= Time(Newest(up))
  BY <1>1, <1>2
<1>4. Max({Payload[e].retry : e \in S}) \in Column
  <2>1. {Payload[e].retry : e \in S} \in SUBSET Column /\ {Payload[e].retry : e \in S} # {}
    BY <1>0, PayloadType
  <2> QED
    BY <2>1, MaxColumn
<1>5. /\ new.status = Payload[Newest(up)].status
      /\ new.last = Time(Newest(up)) /\ new.by = "event"
  BY DEF MergeCreate
<1>6. new \in Snapshot
  BY <1>0, <1>2, <1>4, PayloadType DEF MergeCreate, Snapshot, Writers
<1> HIDE DEF new, up
<1> QED
  BY <1>0, <1>2, <1>3, <1>5, <1>6 DEF new

(* An existing row keeps its status, time and writer unless one of the new
   events is later; then it takes those of a latest one. *)
THEOREM UpdateIsLatest ==
  ASSUME NEW batch \in Seq(Events), NEW S \in SUBSET Range(batch), NEW old \in Snapshot
  PROVE  LET new == MergeUpdate(old, batch, S) IN
         /\ new \in Snapshot
         /\ new.last >= old.last /\ new.retry >= old.retry
         /\ \A e \in S : Time(e) <= new.last
         /\ \/ new.status = old.status /\ new.last = old.last /\ new.by = old.by
            \/ /\ new.last > old.last /\ new.by = "event"
               /\ \E e \in S : Time(e) = new.last /\ Payload[e].status = new.status
<1> DEFINE up == Promoted(batch, S, old.last)
           new == MergeUpdate(old, batch, S)
           R == {old.retry} \cup {Payload[e].retry : e \in {f \in S : Time(f) >= old.last}}
<1>0. S \in SUBSET Events /\ up \in SUBSET S
  BY DEF Range, Promoted
<1>a. old.last \in Column /\ old.retry \in Column /\ old.last \in Int
  BY ColumnType DEF Snapshot
<1>b. \A e \in S : Time(e) \in Int
  BY <1>0, PayloadType, ColumnType
<1>1. \A f \in S : Time(f) > old.last => \E e \in up : Time(e) = Time(f)
  BY <1>0, <1>a, PromotedCovers
<1>2. up # {} => Newest(up) \in up /\ \A f \in up : Time(f) <= Time(Newest(up))
  BY <1>0, NewestIsLatest
<1>3. \A e \in up : Time(e) > old.last
  BY DEF Promoted
<1>4. R \in SUBSET Column /\ R # {}
  BY <1>0, <1>a, PayloadType
<1>5. Max(R) \in Column /\ Max(R) >= old.retry
  BY <1>a, <1>4, MaxColumn, ColumnType
<1>6. new.retry = Max(R)
  BY DEF MergeUpdate
<1>7. CASE up = {}
  <2>1. /\ new.status = old.status /\ new.last = old.last /\ new.by = old.by
        /\ new.error = old.error
    BY <1>7 DEF MergeUpdate
  <2>2. ASSUME NEW e \in S PROVE Time(e) <= old.last
    <3>1. ~(Time(e) > old.last)
      BY <1>1, <1>7
    <3> HIDE DEF up, new, R
    <3> QED
      BY <3>1, <1>a, <1>b
  <2>4. new = [status |-> old.status, last |-> old.last, retry |-> Max(R), by |-> old.by,
               error |-> old.error]
    BY <1>7 DEF MergeUpdate
  <2>5. new \in Snapshot
    BY <1>a, <1>5, <2>4 DEF Snapshot
  <2> HIDE DEF new, up, R
  <2>6. new.last >= old.last /\ new.retry >= old.retry
    BY <1>a, <1>5, <1>6, <2>1
  <2>7. \A e \in S : Time(e) <= new.last
    BY <2>1, <2>2
  <2> QED
    BY <2>1, <2>5, <2>6, <2>7 DEF new
<1>8. CASE up # {}
  <2>1. /\ new.status = Payload[Newest(up)].status
        /\ new.last = Time(Newest(up)) /\ new.by = "event"
    BY <1>8 DEF MergeUpdate
  <2>2. new.last > old.last
    BY <1>2, <1>3, <1>8, <2>1
  <2>7. Newest(up) \in S
    BY <1>0, <1>2, <1>8
  <2>3. \A e \in S : Time(e) <= new.last
    <3> TAKE e \in S
    <3>1. CASE Time(e) > old.last
      BY <1>1, <1>2, <1>8, <2>1, <3>1
    <3>2. CASE ~(Time(e) > old.last)
      <4>1. Time(e) \in Int /\ new.last \in Int
        BY <1>b, <2>1, <2>7
      <4> HIDE DEF new, up, R
      <4> QED
        BY <3>2, <4>1, <1>a, <2>2
    <3> QED
      BY <3>1, <3>2
  <2>4. new.status \in Statuses /\ new.last \in Column
    BY <1>0, <2>1, <2>7, PayloadType
  <2>5. new.error \in Writers \cup {"none"}
    BY DEF MergeUpdate, Snapshot, Writers
  <2>6. new \in Snapshot
    BY <1>5, <1>6, <1>8, <2>1, <2>4, <2>5 DEF MergeUpdate, Snapshot, Writers
  <2> HIDE DEF new, up, R
  <2>8. new.last >= old.last /\ new.retry >= old.retry
    BY <1>a, <1>5, <1>6, <2>1, <2>2, <1>b, <2>7
  <2>9. \E e \in S : Time(e) = new.last /\ Payload[e].status = new.status
    BY <2>1, <2>7
  <2> QED
    BY <2>1, <2>2, <2>3, <2>6, <2>8, <2>9 DEF new
<1> QED
  BY <1>7, <1>8

(* A row the merge does not touch needs no save: none of the events is later. *)
LEMMA UntouchedIsLatest ==
  ASSUME NEW S \in SUBSET Events, NEW old \in Snapshot, ~Touches(old, S)
  PROVE  \A e \in S : Time(e) <= old.last
<1> TAKE e \in S
<1>1. Time(e) \in Int /\ old.last \in Int
  BY PayloadType, ColumnType DEF Snapshot
<1>2. ~(Time(e) > old.last)
  BY DEF Touches
<1> QED
  BY <1>1, <1>2
=============================================================================
