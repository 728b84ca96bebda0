--------------------- MODULE NotificationDeliveryProofs ----------------------
(***************************************************************************)
(* Safety of deliveries, for any number of deliveries, tasks, dispatchers   *)
(* and recoveries.  PickedStayPending is not inductive: what keeps the      *)
(* tasks and the other recoveries away are the row locks, so the invariant  *)
(* says that a recovery holds what it picked.  DuplicatesHaveCauses is not  *)
(* either: Owed counts, beside the receptions that happened, the tasks and  *)
(* dispatchers that may still lead to one.  The refinement of the promise   *)
(* needs also that a task and a settled row exclude each other.             *)
(***************************************************************************)
EXTENDS NotificationDelivery, FiniteSetTheorems, TLAPS

PickedLocked ==
  \A r \in Recoverers : \A d \in recovery[r].picked : locked[d] = r /\ status[d] = "PENDING"

IInv == TypeOK /\ PickedLocked

(* The steps of a delivery task, of dispatchers and recoverers, and of nobody. *)
ChainMoves(c) == \/ Load(c) \/ Attempt(c) \/ Save(c) \/ Retry(c) \/ WorkerLost(c)
                 \/ \E answer \in Answers : Send(c, answer)
                 \/ \E other \in Chains : Redeliver(c, other)

DispatchMoves(s) == \/ DispatchEnqueue(s) \/ DispatchLost(s)
                    \/ \E d \in Deliveries : Dispatch(s, d)

RecoveryMoves(r) == \/ Recover(r) \/ RecoverCommit(r) \/ RecoverLost(r)
                    \/ \E d \in Deliveries : Requeue(r, d)

RowMoves(d) == Age(d) \/ Delete(d)

LEMMA NextMoves ==
  ASSUME Next
  PROVE  \/ \E c \in Chains : ChainMoves(c)
         \/ \E s \in Dispatchers : DispatchMoves(s)
         \/ \E r \in Recoverers : RecoveryMoves(r)
         \/ \E d \in Deliveries : RowMoves(d)
BY DEF Next, ChainStep, RecoveryStep, ChainMoves, DispatchMoves, RecoveryMoves, RowMoves

-----------------------------------------------------------------------------
(* What TypeOK says of the messages, tasks and transactions. *)
ChainState == [pc: {"free", "queued", "loaded", "sending", "answered"},
               delivery: Deliveries \cup {NoOne}, retries: 0..MaxRetries,
               answer: Outcomes \cup {"none"}]

RecoveryState == [pc: {"idle", "picked"}, picked: SUBSET Deliveries, queued: SUBSET Deliveries]

LEMMA Idle == NoChain \in ChainState /\ NoRecovery \in RecoveryState
BY DeliveryAssumption DEF NoChain, NoRecovery, ChainState, RecoveryState

LEMMA EnqueueType ==
  ASSUME TypeOK, NEW c \in Chains, NEW d \in Deliveries \cup {NoOne}, Enqueue(c, d)
  PROVE  chain' \in [Chains -> ChainState]
BY DeliveryAssumption DEF TypeOK, Enqueue, Message, ChainState

LEMMA EndType ==
  ASSUME TypeOK, NEW c \in Chains, End(c)
  PROVE  chain' \in [Chains -> ChainState]
BY Idle DEF TypeOK, End, ChainState

LEMMA CountType ==
  ASSUME TypeOK, NEW d \in Deliveries \cup {NoOne}, CountCause(d)
  PROVE  causes' \in [Deliveries -> 0..MaxCount]
<1>1. \A n \in 0..MaxCount : Upto(n, MaxCount) \in 0..MaxCount
  BY DeliveryAssumption DEF Upto
<1> QED
  BY <1>1 DEF TypeOK, CountCause

LEMMA FaultType ==
  ASSUME TypeOK, Fault
  PROVE  faults' \in 0..MaxFaults
BY DeliveryAssumption DEF TypeOK, Fault

LEMMA UnlockType ==
  ASSUME TypeOK, NEW r \in Recoverers, Unlock(r)
  PROVE  locked' \in [Deliveries -> Recoverers \cup {NoOne}]
BY DEF TypeOK, Unlock

LEMMA MessageType ==
  ASSUME TypeOK, NEW c \in Chains
  PROVE  /\ chain[c] \in ChainState
         /\ chain[c].delivery \in Deliveries \cup {NoOne}
         /\ chain[c].retries < MaxRetries => Message(chain[c].delivery, chain[c].retries + 1) \in ChainState
<1>1. chain[c] \in ChainState
  BY DEF TypeOK, ChainState
<1>2. chain[c].delivery \in Deliveries \cup {NoOne} /\ chain[c].retries \in 0..MaxRetries
  BY <1>1 DEF ChainState
<1>3. chain[c].retries < MaxRetries => chain[c].retries + 1 \in 0..MaxRetries
  BY <1>2, DeliveryAssumption
<1> QED
  BY <1>1, <1>2, <1>3 DEF Message, ChainState

-----------------------------------------------------------------------------
LEMMA ChainTypes ==
  ASSUME TypeOK, NEW c \in Chains, ChainMoves(c)
  PROVE  TypeOK'
<1> chain[c] \in ChainState /\ chain[c].delivery \in Deliveries \cup {NoOne}
  BY MessageType
<1>1. CASE Load(c)
  <2>1. chain' \in [Chains -> ChainState]
    BY <1>1, EndType DEF Load, TypeOK, ChainState
  <2> QED BY <1>1, <2>1 DEF Load, TypeOK, ChainState
<1>2. CASE Attempt(c)
  <2>1. chain' \in [Chains -> ChainState]
    BY <1>2, EndType DEF Attempt, TypeOK, ChainState
  <2>2. age' \in [Deliveries -> Ages]
    BY <1>2 DEF Attempt, TypeOK, Ages
  <2> QED BY <1>2, <2>1, <2>2 DEF Attempt, TypeOK, ChainState
<1>3. CASE Save(c)
  <2>1. chain' \in [Chains -> ChainState]
    BY <1>3, EndType DEF Save
  <2>2. status' \in [Deliveries -> Statuses]
    BY <1>3 DEF Save, TypeOK, Statuses
  <2> QED BY <1>3, <2>1, <2>2 DEF Save, TypeOK, ChainState
<1>4. CASE Retry(c)
  <2>1. chain' \in [Chains -> ChainState]
    BY <1>4, EndType, MessageType DEF Retry, TypeOK, ChainState
  <2> QED BY <1>4, <2>1 DEF Retry, TypeOK, ChainState
<1>5. CASE WorkerLost(c)
  <2>1. chain' \in [Chains -> ChainState]
    BY <1>5, EndType DEF WorkerLost
  <2>2. causes' \in [Deliveries -> 0..MaxCount]
    BY <1>5, CountType DEF WorkerLost, TypeOK
  <2>3. faults' \in 0..MaxFaults
    BY <1>5, FaultType DEF WorkerLost
  <2> QED BY <1>5, <2>1, <2>2, <2>3 DEF WorkerLost, TypeOK, ChainState
<1>6. ASSUME NEW answer \in Answers, Send(c, answer)
      PROVE  TypeOK'
  <2>1. chain' \in [Chains -> ChainState]
    BY <1>6, DeliveryAssumption DEF Send, TypeOK, ChainState
  <2>2. received' \in [Deliveries -> 0..MaxCount + 1]
    <3>1. \A n \in 0..MaxCount + 1 : Upto(n, MaxCount + 1) \in 0..MaxCount + 1
      BY DeliveryAssumption DEF Upto
    <3> QED BY <1>6, <3>1 DEF Send, TypeOK
  <2>3. causes' \in [Deliveries -> 0..MaxCount]
    BY <1>6, CountType DEF Send, TypeOK
  <2> QED BY <1>6, <2>1, <2>2, <2>3 DEF Send, TypeOK, ChainState
<1>7. ASSUME NEW other \in Chains, Redeliver(c, other)
      PROVE  TypeOK'
  <2>1. chain' \in [Chains -> ChainState]
    BY <1>7 DEF Redeliver, TypeOK, ChainState
  <2>2. causes' \in [Deliveries -> 0..MaxCount]
    BY <1>7, CountType DEF Redeliver
  <2>3. faults' \in 0..MaxFaults
    BY <1>7, FaultType DEF Redeliver
  <2> QED BY <1>7, <2>1, <2>2, <2>3 DEF Redeliver, TypeOK, ChainState
<1> QED
  BY <1>1, <1>2, <1>3, <1>4, <1>5, <1>6, <1>7 DEF ChainMoves

LEMMA DispatchTypes ==
  ASSUME TypeOK, NEW s \in Dispatchers, DispatchMoves(s)
  PROVE  TypeOK'
<1>1. CASE DispatchEnqueue(s)
  <2>1. dispatch[s].delivery \in Deliveries \cup {NoOne}
    BY DEF TypeOK
  <2>2. chain' \in [Chains -> ChainState]
    BY <1>1, <2>1, EnqueueType DEF DispatchEnqueue
  <2> QED BY <1>1, <2>2 DEF DispatchEnqueue, DispatchOver, TypeOK, ChainState
<1>2. CASE DispatchLost(s)
  BY <1>2, FaultType DEF DispatchLost, DispatchOver, TypeOK
<1>3. ASSUME NEW d \in Deliveries, Dispatch(s, d)
      PROVE  TypeOK'
  <2>1. status' \in [Deliveries -> Statuses]
    BY <1>3 DEF Dispatch, TypeOK, Statuses
  <2>2. dispatch' \in [Dispatchers -> [pc: {"idle", "created", "done"}, delivery: Deliveries \cup {NoOne}]]
    BY <1>3 DEF Dispatch, DispatchOver, TypeOK
  <2> QED BY <1>3, <2>1, <2>2 DEF Dispatch, TypeOK
<1> QED
  BY <1>1, <1>2, <1>3 DEF DispatchMoves

LEMMA RecoveryTypes ==
  ASSUME TypeOK, NEW r \in Recoverers, RecoveryMoves(r)
  PROVE  TypeOK'
<1>1. CASE Recover(r)
  BY <1>1 DEF Recover, Picked, Orphans, TypeOK
<1>2. CASE RecoverCommit(r)
  BY <1>2, UnlockType, Idle DEF RecoverCommit, TypeOK, Ages, RecoveryState
<1>3. CASE RecoverLost(r)
  BY <1>3, UnlockType, FaultType, Idle DEF RecoverLost, TypeOK, RecoveryState
<1>4. ASSUME NEW d \in Deliveries, Requeue(r, d)
      PROVE  TypeOK'
  <2>1. chain' \in [Chains -> ChainState]
    BY <1>4, EnqueueType DEF Requeue
  <2>2. causes' \in [Deliveries -> 0..MaxCount]
    BY <1>4, CountType DEF Requeue
  <2> QED BY <1>4, <2>1, <2>2 DEF Requeue, TypeOK, ChainState
<1> QED
  BY <1>1, <1>2, <1>3, <1>4 DEF RecoveryMoves

-----------------------------------------------------------------------------
(* Tasks and deletions write only rows that no recovery holds. *)
LEMMA ChainKeeps ==
  ASSUME IInv, NEW c \in Chains, ChainMoves(c)
  PROVE  PickedLocked'
<1>1. recovery' = recovery /\ locked' = locked
  BY DEF ChainMoves, Load, Attempt, Save, Retry, WorkerLost, Send, Redeliver
<1>2. \A d \in Deliveries : locked[d] # NoOne => status'[d] = status[d]
  BY DEF ChainMoves, Load, Attempt, Save, Retry, WorkerLost, Send, Redeliver, IInv, TypeOK
<1> QED
  BY <1>1, <1>2, DeliveryAssumption DEF IInv, TypeOK, PickedLocked

LEMMA DispatchKeeps ==
  ASSUME IInv, NEW s \in Dispatchers, DispatchMoves(s)
  PROVE  PickedLocked'
<1>1. recovery' = recovery /\ locked' = locked
  BY DEF DispatchMoves, DispatchEnqueue, DispatchLost, Dispatch
<1>2. \A d \in Deliveries : status[d] = "PENDING" => status'[d] = "PENDING"
  BY DEF DispatchMoves, DispatchEnqueue, DispatchLost, Dispatch, IInv, TypeOK
<1> QED
  BY <1>1, <1>2 DEF IInv, TypeOK, PickedLocked

LEMMA RecoveryKeeps ==
  ASSUME IInv, NEW r \in Recoverers, RecoveryMoves(r)
  PROVE  PickedLocked'
<1>1. CASE Recover(r)
  BY <1>1, DeliveryAssumption DEF Recover, Picked, Orphans, IInv, TypeOK, PickedLocked
<1>2. CASE RecoverCommit(r)
  BY <1>2 DEF RecoverCommit, Unlock, NoRecovery, IInv, TypeOK, PickedLocked
<1>3. CASE RecoverLost(r)
  BY <1>3 DEF RecoverLost, Unlock, NoRecovery, IInv, TypeOK, PickedLocked
<1>4. ASSUME NEW d \in Deliveries, Requeue(r, d)
      PROVE  PickedLocked'
  BY <1>4 DEF Requeue, IInv, TypeOK, PickedLocked
<1> QED
  BY <1>1, <1>2, <1>3, <1>4 DEF RecoveryMoves

LEMMA RowKeeps ==
  ASSUME IInv, NEW d \in Deliveries, RowMoves(d)
  PROVE  IInv'
<1>1. CASE Age(d)
  BY <1>1 DEF Age, IInv, TypeOK, PickedLocked, Ages
<1>2. CASE Delete(d)
  BY <1>2, DeliveryAssumption DEF Delete, IInv, TypeOK, PickedLocked, Statuses
<1> QED
  BY <1>1, <1>2 DEF RowMoves

-----------------------------------------------------------------------------
LEMMA Start == Init => IInv
BY DeliveryAssumption
DEF Init, IInv, TypeOK, PickedLocked, NoChain, NoDispatch, NoRecovery, Statuses, Ages, Outcomes

LEMMA Step == IInv /\ [Next]_vars => IInv'
<1> SUFFICES ASSUME IInv, [Next]_vars PROVE IInv'
  OBVIOUS
<1> TypeOK
  BY DEF IInv
<1>1. ASSUME NEW c \in Chains, ChainMoves(c) PROVE IInv'
  BY <1>1, ChainTypes, ChainKeeps DEF IInv
<1>2. ASSUME NEW s \in Dispatchers, DispatchMoves(s) PROVE IInv'
  BY <1>2, DispatchTypes, DispatchKeeps DEF IInv
<1>3. ASSUME NEW r \in Recoverers, RecoveryMoves(r) PROVE IInv'
  BY <1>3, RecoveryTypes, RecoveryKeeps DEF IInv
<1>4. ASSUME NEW d \in Deliveries, RowMoves(d) PROVE IInv'
  BY <1>4, RowKeeps
<1>5. CASE UNCHANGED vars
  BY <1>5 DEF IInv, TypeOK, PickedLocked, vars
<1> QED
  BY <1>1, <1>2, <1>3, <1>4, <1>5, NextMoves

(* Every reachable state is typed, and a recovery holds the pending rows it
   picked until it commits. *)
THEOREM Invariance == Spec => []IInv
<1> QED
  BY Start, Step, PTL DEF Spec

(* Whatever the interleaving of dispatches, tasks, retries, recoveries and
   deletions, every row keeps a status and an age it can have, every task, dispatch
   and recovery the fields of its place, and no counter passes its bound. *)
THEOREM TypesCorrect == Spec => []TypeOK
<1>1. IInv => TypeOK
  BY DEF IInv
<1> QED
  BY <1>1, Invariance, PTL

(* recover_orphaned_deliveries: recoveries do not overlap, and what one of them
   is about to enqueue is still pending, whatever tasks, other recoveries and
   deletions do meanwhile. *)
THEOREM RecoveriesDisjoint == Spec => []PickedStayPending
<1>1. IInv => PickedStayPending
  BY DEF IInv, TypeOK, PickedLocked, PickedStayPending
<1> QED
  BY <1>1, Invariance, PTL
-----------------------------------------------------------------------------
(* A task that may still reach the receiver. *)
Hopeful(m) == \/ m.pc \in {"queued", "loaded", "sending"}
              \/ m.pc = "answered" /\ m.answer \in {"retry", "unheard"}

(* What may still lead to a reception of d: its tasks, dispatchers that have
   created its row, and the row while there is none. *)
Hopes(d) ==
  {<<"task", c>> : c \in {c \in Chains : chain[c].delivery = d /\ Hopeful(chain[c])}} \cup
  {<<"dispatch", s>> : s \in {s \in Dispatchers : dispatch[s].pc = "created" /\ dispatch[s].delivery = d}} \cup
  (IF status[d] = "none" THEN {<<"row", d>>} ELSE {})

(* Receptions, past and possible, are covered, unless causes has stopped. *)
Owed(d) ==
  /\ IsFiniteSet(Hopes(d))
  /\ causes[d] = MaxCount \/ received[d] + Cardinality(Hopes(d)) <= 1 + causes[d]

AllOwed == \A d \in Deliveries : Owed(d)

LEMMA CountersType ==
  ASSUME TypeOK, NEW d \in Deliveries
  PROVE  /\ causes[d] \in Nat /\ causes[d] <= MaxCount /\ MaxCount \in Nat
         /\ received[d] \in Nat /\ received[d] <= MaxCount + 1
BY DeliveryAssumption DEF TypeOK

LEMMA OneMore ==
  ASSUME NEW S, IsFiniteSet(S), NEW y
  PROVE  /\ IsFiniteSet(S \cup {y}) /\ Cardinality(S \cup {y}) \in Nat
         /\ Cardinality(S \cup {y}) <= Cardinality(S) + 1
         /\ Cardinality(S) \in Nat
<1>1. Cardinality(S) \in Nat
  BY FS_CardinalityType
<1>2. /\ IsFiniteSet(S \cup {y})
      /\ Cardinality(S \cup {y}) = IF y \in S THEN Cardinality(S) ELSE Cardinality(S) + 1
  BY FS_AddElement
<1> QED
  BY <1>1, <1>2

(* The ways in which a step keeps the balance of d. *)
LEMMA Kept ==
  ASSUME TypeOK, TypeOK', NEW d \in Deliveries, Owed(d), Hopes(d)' \subseteq Hopes(d),
         received'[d] = received[d],
         causes'[d] = causes[d] \/ causes'[d] = Upto(causes[d], MaxCount)
  PROVE  Owed(d)'
<1>1. /\ IsFiniteSet(Hopes(d)') /\ Cardinality(Hopes(d)') <= Cardinality(Hopes(d))
      /\ Cardinality(Hopes(d)') \in Nat /\ Cardinality(Hopes(d)) \in Nat
  BY FS_Subset, FS_CardinalityType DEF Owed
<1> QED
  BY <1>1, CountersType DEF Owed, Upto

LEMMA Swapped ==
  ASSUME TypeOK, TypeOK', NEW d \in Deliveries, Owed(d), NEW x \in Hopes(d), NEW y,
         Hopes(d)' \subseteq (Hopes(d) \ {x}) \cup {y},
         received'[d] = received[d], causes'[d] = causes[d]
  PROVE  Owed(d)'
<1> DEFINE S == Hopes(d) \ {x}
<1>1. /\ IsFiniteSet(S) /\ Cardinality(S) = Cardinality(Hopes(d)) - 1
      /\ Cardinality(S) \in Nat /\ Cardinality(Hopes(d)) \in Nat
  BY FS_RemoveElement, FS_CardinalityType DEF Owed
<1> HIDE DEF S
<1>2. /\ IsFiniteSet(S \cup {y}) /\ Cardinality(S \cup {y}) \in Nat
      /\ Cardinality(S \cup {y}) <= Cardinality(S) + 1
  BY <1>1, OneMore
<1>3. Hopes(d)' \subseteq S \cup {y}
  BY DEF S
<1>4. /\ IsFiniteSet(Hopes(d)') /\ Cardinality(Hopes(d)') <= Cardinality(S \cup {y})
      /\ Cardinality(Hopes(d)') \in Nat
  BY <1>2, <1>3, FS_Subset, FS_CardinalityType
<1> QED
  BY <1>1, <1>2, <1>4, CountersType DEF Owed

LEMMA Taken ==
  ASSUME TypeOK, TypeOK', NEW d \in Deliveries, Owed(d), NEW x \in Hopes(d),
         Hopes(d)' \subseteq Hopes(d) \ {x},
         received'[d] = Upto(received[d], MaxCount + 1), causes'[d] = causes[d]
  PROVE  Owed(d)'
<1> DEFINE S == Hopes(d) \ {x}
<1>1. /\ IsFiniteSet(S) /\ Cardinality(S) = Cardinality(Hopes(d)) - 1
      /\ Cardinality(S) \in Nat /\ Cardinality(Hopes(d)) \in Nat
  BY FS_RemoveElement, FS_CardinalityType DEF Owed
<1>2. /\ IsFiniteSet(Hopes(d)') /\ Cardinality(Hopes(d)') <= Cardinality(S)
      /\ Cardinality(Hopes(d)') \in Nat
  BY <1>1, FS_Subset, FS_CardinalityType
<1> QED
  BY <1>1, <1>2, CountersType DEF Owed, Upto

LEMMA ExcusedReception ==
  ASSUME TypeOK, TypeOK', NEW d \in Deliveries, Owed(d), Hopes(d)' \subseteq Hopes(d),
         received'[d] = Upto(received[d], MaxCount + 1),
         causes'[d] = Upto(causes[d], MaxCount)
  PROVE  Owed(d)'
<1>1. /\ IsFiniteSet(Hopes(d)') /\ Cardinality(Hopes(d)') <= Cardinality(Hopes(d))
      /\ Cardinality(Hopes(d)') \in Nat /\ Cardinality(Hopes(d)) \in Nat
  BY FS_Subset, FS_CardinalityType DEF Owed
<1> QED
  BY <1>1, CountersType DEF Owed, Upto

LEMMA ExcusedTask ==
  ASSUME TypeOK, TypeOK', NEW d \in Deliveries, Owed(d), NEW y,
         Hopes(d)' \subseteq Hopes(d) \cup {y},
         received'[d] = received[d], causes'[d] = Upto(causes[d], MaxCount)
  PROVE  Owed(d)'
<1>1. /\ IsFiniteSet(Hopes(d) \cup {y}) /\ Cardinality(Hopes(d) \cup {y}) \in Nat
      /\ Cardinality(Hopes(d) \cup {y}) <= Cardinality(Hopes(d)) + 1
      /\ Cardinality(Hopes(d)) \in Nat
  BY OneMore DEF Owed
<1>2. /\ IsFiniteSet(Hopes(d)') /\ Cardinality(Hopes(d)') <= Cardinality(Hopes(d) \cup {y})
      /\ Cardinality(Hopes(d)') \in Nat
  BY <1>1, FS_Subset, FS_CardinalityType
<1> QED
  BY <1>1, <1>2, CountersType DEF Owed, Upto

-----------------------------------------------------------------------------
(* What a step that writes one task does to the hopes for d. *)
LEMMA TaskHopes ==
  ASSUME TypeOK, NEW c \in Chains, NEW m, NEW d \in Deliveries,
         chain' = [chain EXCEPT ![c] = m], dispatch' = dispatch,
         status'[d] = "none" => status[d] = "none"
  PROVE  /\ Hopes(d)' \subseteq Hopes(d) \cup {<<"task", c>>}
         /\ ~(m.delivery = d /\ Hopeful(m)) => Hopes(d)' \subseteq Hopes(d) \ {<<"task", c>>}
         /\ chain[c].delivery = d /\ Hopeful(chain[c]) => <<"task", c>> \in Hopes(d)
<1>1. \A k \in Chains : chain'[k] = IF k = c THEN m ELSE chain[k]
  BY DEF TypeOK
<1> HIDE DEF Hopeful
<1> QED
  BY <1>1 DEF Hopes

LEMMA TaskGoesOn ==
  ASSUME TypeOK, NEW c \in Chains, NEW m, NEW d \in Deliveries,
         chain' = [chain EXCEPT ![c] = m], dispatch' = dispatch,
         status'[d] = "none" => status[d] = "none",
         (Hopeful(chain[c]) /\ m.delivery = chain[c].delivery) \/ ~Hopeful(m)
  PROVE  Hopes(d)' \subseteq Hopes(d)
<1> HIDE DEF Hopeful
<1> QED
  BY TaskHopes

LEMMA Unemployed == ~Hopeful(NoChain)
BY DEF Hopeful, NoChain

(* CountCause of one delivery, or of none. *)
LEMMA CausesGrow ==
  ASSUME TypeOK, NEW e, CountCause(e), NEW d \in Deliveries
  PROVE  causes'[d] = IF d = e THEN Upto(causes[d], MaxCount) ELSE causes[d]
BY DEF TypeOK, CountCause

-----------------------------------------------------------------------------
LEMMA ChainBalance ==
  ASSUME IInv, NEW c \in Chains, ChainMoves(c), NEW d \in Deliveries, Owed(d)
  PROVE  Owed(d)'
<1> DEFINE e == chain[c].delivery
<1>0. TypeOK /\ TypeOK'
  BY ChainTypes DEF IInv
<1>m. chain[c] \in ChainState
  BY <1>0, MessageType
<1>1. CASE Load(c)
  <2>1. PICK m : /\ chain' = [chain EXCEPT ![c] = m]
                 /\ m.delivery = chain[c].delivery \/ m = NoChain
    BY <1>1, <1>m DEF Load, End, ChainState
  <2>2. Hopeful(chain[c])
    BY <1>1 DEF Load, Hopeful
  <2>3. Hopes(d)' \subseteq Hopes(d)
    BY <1>0, <1>1, <2>1, <2>2, TaskGoesOn, Unemployed DEF Load
  <2> QED
    BY <1>0, <1>1, <2>3, Kept DEF Load
<1>2. CASE Attempt(c)
  <2>1. PICK m : /\ chain' = [chain EXCEPT ![c] = m]
                 /\ m.delivery = chain[c].delivery \/ m = NoChain
    BY <1>2, <1>m DEF Attempt, End, ChainState
  <2>2. Hopeful(chain[c])
    BY <1>2 DEF Attempt, Hopeful
  <2>3. Hopes(d)' \subseteq Hopes(d)
    BY <1>0, <1>2, <2>1, <2>2, TaskGoesOn, Unemployed DEF Attempt
  <2> QED
    BY <1>0, <1>2, <2>3, Kept DEF Attempt
<1>3. CASE Save(c)
  <2>1. status'[d] = "none" => status[d] = "none"
    BY <1>0, <1>3 DEF Save, TypeOK
  <2>2. Hopes(d)' \subseteq Hopes(d)
    BY <1>0, <1>3, <2>1, TaskGoesOn, Unemployed DEF Save, End
  <2> QED
    BY <1>0, <1>3, <2>2, Kept DEF Save
<1>4. CASE Retry(c)
  <2>1. PICK m : /\ chain' = [chain EXCEPT ![c] = m]
                 /\ m.delivery = chain[c].delivery \/ m = NoChain
    BY <1>4 DEF Retry, End, Message
  <2>2. Hopeful(chain[c])
    BY <1>4 DEF Retry, Hopeful
  <2>3. Hopes(d)' \subseteq Hopes(d)
    BY <1>0, <1>4, <2>1, <2>2, TaskGoesOn, Unemployed DEF Retry
  <2> QED
    BY <1>0, <1>4, <2>3, Kept DEF Retry
<1>5. CASE WorkerLost(c)
  <2>1. Hopes(d)' \subseteq Hopes(d)
    BY <1>0, <1>5, TaskGoesOn, Unemployed DEF WorkerLost, End
  <2>2. causes'[d] = causes[d] \/ causes'[d] = Upto(causes[d], MaxCount)
    BY <1>0, <1>5, CausesGrow DEF WorkerLost
  <2> QED
    BY <1>0, <1>5, <2>1, <2>2, Kept DEF WorkerLost
<1>6. ASSUME NEW answer \in Answers, Send(c, answer)
      PROVE  Owed(d)'
  <2> DEFINE m == [chain[c] EXCEPT !.pc = "answered", !.answer = answer]
  <2>1. /\ chain' = [chain EXCEPT ![c] = m]
        /\ m.pc = "answered" /\ m.answer = answer /\ m.delivery = e
    BY <1>6, <1>m DEF Send, ChainState
  <2>2. Hopeful(chain[c]) /\ status' = status /\ dispatch' = dispatch
    BY <1>6 DEF Send, Hopeful
  <2>3. Hopes(d)' \subseteq Hopes(d)
    BY <1>0, <2>1, <2>2, TaskGoesOn
  <2>4. /\ received'[d] = IF d = e /\ answer \in {"ok", "unheard"}
                          THEN Upto(received[d], MaxCount + 1) ELSE received[d]
        /\ causes'[d] = IF d = e /\ answer = "unheard"
                        THEN Upto(causes[d], MaxCount) ELSE causes[d]
    BY <1>0, <1>6, CausesGrow DEF Send, TypeOK
  <2>5. CASE d = e /\ answer = "ok"
    <3>1. ~Hopeful(m)
      BY <2>1, <2>5 DEF Hopeful
    <3>2. <<"task", c>> \in Hopes(d) /\ Hopes(d)' \subseteq Hopes(d) \ {<<"task", c>>}
      BY <1>0, <2>1, <2>2, <2>5, <3>1, TaskHopes
    <3> QED
      BY <1>0, <2>4, <2>5, <3>2, Taken
  <2>6. CASE d = e /\ answer = "unheard"
    BY <1>0, <2>3, <2>4, <2>6, ExcusedReception
  <2>7. CASE d # e \/ answer \notin {"ok", "unheard"}
    BY <1>0, <2>3, <2>4, <2>7, Kept
  <2> QED
    BY <2>5, <2>6, <2>7
<1>7. ASSUME NEW other \in Chains, Redeliver(c, other)
      PROVE  Owed(d)'
  <2>1. /\ chain' = [chain EXCEPT ![other] = chain[c]] /\ status' = status
        /\ dispatch' = dispatch /\ received' = received
    BY <1>7 DEF Redeliver
  <2>2. causes'[d] = IF d = e THEN Upto(causes[d], MaxCount) ELSE causes[d]
    BY <1>0, <1>7, CausesGrow DEF Redeliver
  <2>3. CASE d = e
    <3>1. Hopes(d)' \subseteq Hopes(d) \cup {<<"task", other>>}
      BY <1>0, <2>1, TaskHopes
    <3> QED
      BY <1>0, <2>1, <2>2, <2>3, <3>1, ExcusedTask
  <2>4. CASE d # e
    <3>1. Hopes(d)' \subseteq Hopes(d)
      BY <1>0, <2>1, <2>4, TaskHopes
    <3> QED
      BY <1>0, <2>1, <2>2, <2>4, <3>1, Kept
  <2> QED
    BY <2>3, <2>4
<1> QED
  BY <1>1, <1>2, <1>3, <1>4, <1>5, <1>6, <1>7 DEF ChainMoves

LEMMA DispatchBalance ==
  ASSUME IInv, NEW s \in Dispatchers, DispatchMoves(s), NEW d \in Deliveries, Owed(d)
  PROVE  Owed(d)'
<1>0. TypeOK /\ TypeOK'
  BY DispatchTypes DEF IInv
<1>1. CASE DispatchEnqueue(s)
  <2>1. PICK c \in Chains : chain' = [chain EXCEPT ![c] = Message(dispatch[s].delivery, 0)]
    BY <1>1 DEF DispatchEnqueue, Enqueue
  <2>2. /\ dispatch[s].pc = "created" /\ dispatch' = [dispatch EXCEPT ![s] = DispatchOver]
        /\ status' = status /\ received' = received /\ causes' = causes
    BY <1>1 DEF DispatchEnqueue
  <2>3. /\ \A k \in Chains : chain'[k] = IF k = c THEN Message(dispatch[s].delivery, 0) ELSE chain[k]
        /\ \A t \in Dispatchers : dispatch'[t] = IF t = s THEN DispatchOver ELSE dispatch[t]
        /\ DispatchOver.pc = "done" /\ Message(dispatch[s].delivery, 0).delivery = dispatch[s].delivery
    BY <1>0, <2>1, <2>2 DEF TypeOK, DispatchOver, Message
  <2>4. CASE dispatch[s].delivery = d
    <3>1. <<"dispatch", s>> \in Hopes(d)
      BY <2>2, <2>4 DEF Hopes
    <3>2. Hopes(d)' \subseteq (Hopes(d) \ {<<"dispatch", s>>}) \cup {<<"task", c>>}
      BY <2>2, <2>3 DEF Hopes
    <3> QED
      BY <1>0, <2>2, <3>1, <3>2, Swapped
  <2>5. CASE dispatch[s].delivery # d
    <3>1. Hopes(d)' \subseteq Hopes(d)
      BY <2>2, <2>3, <2>5 DEF Hopes
    <3> QED
      BY <1>0, <2>2, <3>1, Kept
  <2> QED
    BY <2>4, <2>5
<1>2. CASE DispatchLost(s)
  <2>1. /\ dispatch' = [dispatch EXCEPT ![s] = DispatchOver] /\ DispatchOver.pc = "done"
        /\ status' = status /\ received' = received /\ causes' = causes /\ chain' = chain
    BY <1>2 DEF DispatchLost, DispatchOver
  <2>2. \A t \in Dispatchers : dispatch'[t] = IF t = s THEN DispatchOver ELSE dispatch[t]
    BY <1>0, <2>1 DEF TypeOK
  <2>3. Hopes(d)' \subseteq Hopes(d)
    BY <2>1, <2>2 DEF Hopes
  <2> QED
    BY <1>0, <2>1, <2>3, Kept
<1>3. ASSUME NEW e \in Deliveries, Dispatch(s, e)
      PROVE  Owed(d)'
  <2>1. chain' = chain /\ received' = received /\ causes' = causes
    BY <1>3 DEF Dispatch
  <2>2. CASE status[e] = "none"
    <3>1. /\ status' = [status EXCEPT ![e] = "PENDING"]
          /\ dispatch' = [dispatch EXCEPT ![s] = [pc |-> "created", delivery |-> e]]
      BY <1>3, <2>2 DEF Dispatch
    <3>2. /\ status'[d] = IF d = e THEN "PENDING" ELSE status[d]
          /\ \A t \in Dispatchers :
               dispatch'[t] = IF t = s THEN [pc |-> "created", delivery |-> e] ELSE dispatch[t]
      BY <1>0, <3>1 DEF TypeOK
    <3>3. CASE d = e
      <4>1. <<"row", d>> \in Hopes(d)
        BY <2>2, <3>3 DEF Hopes
      <4>2. Hopes(d)' \subseteq (Hopes(d) \ {<<"row", d>>}) \cup {<<"dispatch", s>>}
        BY <2>1, <3>2, <3>3 DEF Hopes
      <4> QED
        BY <1>0, <2>1, <4>1, <4>2, Swapped
    <3>4. CASE d # e
      <4>1. Hopes(d)' \subseteq Hopes(d)
        BY <2>1, <3>2, <3>4 DEF Hopes
      <4> QED
        BY <1>0, <2>1, <4>1, Kept
    <3> QED
      BY <3>3, <3>4
  <2>3. CASE status[e] # "none"
    <3>1. /\ dispatch' = [dispatch EXCEPT ![s] = DispatchOver] /\ status' = status
          /\ DispatchOver.pc = "done"
      BY <1>3, <2>3 DEF Dispatch, DispatchOver
    <3>2. \A t \in Dispatchers : dispatch'[t] = IF t = s THEN DispatchOver ELSE dispatch[t]
      BY <1>0, <3>1 DEF TypeOK
    <3>3. Hopes(d)' \subseteq Hopes(d)
      BY <2>1, <3>1, <3>2 DEF Hopes
    <3> QED
      BY <1>0, <2>1, <3>3, Kept
  <2> QED
    BY <2>2, <2>3
<1> QED
  BY <1>1, <1>2, <1>3 DEF DispatchMoves

LEMMA RecoveryBalance ==
  ASSUME IInv, NEW r \in Recoverers, RecoveryMoves(r), NEW d \in Deliveries, Owed(d)
  PROVE  Owed(d)'
<1>0. TypeOK /\ TypeOK'
  BY RecoveryTypes DEF IInv
<1>1. CASE Recover(r) \/ RecoverCommit(r) \/ RecoverLost(r)
  <2>1. /\ chain' = chain /\ dispatch' = dispatch /\ status' = status
        /\ received' = received /\ causes' = causes
    BY <1>1 DEF Recover, RecoverCommit, RecoverLost
  <2>2. Hopes(d)' = Hopes(d)
    BY <2>1 DEF Hopes
  <2> QED
    BY <1>0, <2>1, <2>2, Kept
<1>2. ASSUME NEW e \in Deliveries, Requeue(r, e)
      PROVE  Owed(d)'
  <2>1. PICK c \in Chains : chain' = [chain EXCEPT ![c] = Message(e, 0)]
    BY <1>2 DEF Requeue, Enqueue
  <2>2. dispatch' = dispatch /\ status' = status /\ received' = received
    BY <1>2 DEF Requeue
  <2>3. causes'[d] = IF d = e THEN Upto(causes[d], MaxCount) ELSE causes[d]
    BY <1>0, <1>2, CausesGrow DEF Requeue
  <2>4. CASE d = e
    <3>1. Hopes(d)' \subseteq Hopes(d) \cup {<<"task", c>>}
      BY <1>0, <2>1, <2>2, TaskHopes
    <3> QED
      BY <1>0, <2>2, <2>3, <2>4, <3>1, ExcusedTask
  <2>5. CASE d # e
    <3>1. Message(e, 0).delivery # d
      BY <2>5 DEF Message
    <3>2. Hopes(d)' \subseteq Hopes(d)
      BY <1>0, <2>1, <2>2, <3>1, TaskHopes
    <3> QED
      BY <1>0, <2>2, <2>3, <2>5, <3>2, Kept
  <2> QED
    BY <2>4, <2>5
<1> QED
  BY <1>1, <1>2 DEF RecoveryMoves

LEMMA RowBalance ==
  ASSUME IInv, NEW e \in Deliveries, RowMoves(e), NEW d \in Deliveries, Owed(d)
  PROVE  Owed(d)'
<1>0. TypeOK /\ TypeOK'
  BY RowKeeps DEF IInv
<1>1. /\ chain' = chain /\ dispatch' = dispatch /\ received' = received /\ causes' = causes
      /\ status'[d] = "none" => status[d] = "none"
  BY <1>0 DEF RowMoves, Age, Delete, TypeOK
<1>2. Hopes(d)' \subseteq Hopes(d)
  BY <1>1 DEF Hopes
<1> QED
  BY <1>0, <1>1, <1>2, Kept

LEMMA BalanceStarts == Init => AllOwed
<1> SUFFICES ASSUME Init, NEW d \in Deliveries
             PROVE  Owed(d)
  BY DEF AllOwed
<1>1. Hopes(d) = {<<"row", d>>} /\ received[d] = 0 /\ causes[d] = 0
  BY DEF Init, Hopes, Hopeful, NoChain, NoDispatch
<1>2. IsFiniteSet({<<"row", d>>}) /\ Cardinality({<<"row", d>>}) = 1
  BY FS_Singleton
<1> QED
  BY <1>1, <1>2 DEF Owed

LEMMA BalanceStep == IInv /\ AllOwed /\ [Next]_vars => AllOwed'
<1> SUFFICES ASSUME IInv, AllOwed, [Next]_vars, NEW d \in Deliveries
             PROVE  Owed(d)'
  BY DEF AllOwed
<1>0. Owed(d)
  BY DEF AllOwed
<1>1. CASE Next
  BY <1>0, <1>1, NextMoves, ChainBalance, DispatchBalance, RecoveryBalance, RowBalance
<1>2. CASE UNCHANGED vars
  BY <1>0, <1>2 DEF vars, Owed, Hopes
<1> QED
  BY <1>1, <1>2

(* Every reception of a delivery that happened or may still happen is the first
   one or has a cause. *)
THEOREM BalanceInvariance == Spec => [](IInv /\ AllOwed)
<1> QED
  BY BalanceStarts, BalanceStep, Invariance, PTL DEF Spec

(* The unique row of a delivery (get_or_create in apps/notifications/services.py)
   and its status keep receptions single, unless an answer was lost or a
   recovery or the broker delivered the task again. *)
THEOREM DuplicatesExplained == Spec => []DuplicatesHaveCauses
<1>1. IInv /\ AllOwed => DuplicatesHaveCauses
  <2> SUFFICES ASSUME TypeOK, NEW d \in Deliveries, Owed(d)
               PROVE  received[d] <= 1 + causes[d]
    BY DEF IInv, AllOwed, DuplicatesHaveCauses
  <2>1. Cardinality(Hopes(d)) \in Nat
    BY FS_CardinalityType DEF Owed
  <2> QED
    BY <2>1, CountersType DEF Owed
<1> QED
  BY <1>1, BalanceInvariance, PTL
-----------------------------------------------------------------------------
(* Refinement.  What may still write the row of d: its tasks, its dispatchers,
   and the row itself when it does not wait for them (it is to be created, or
   has an outcome). *)
Live(d) ==
  {<<"task", c>> : c \in {c \in Chains : chain[c].delivery = d}} \cup
  {<<"dispatch", s>> : s \in {s \in Dispatchers : dispatch[s].delivery = d}} \cup
  (IF status[d] \in {"none", "SENT", "FAILED"} THEN {<<"row", d>>} ELSE {})

(* Without a cause there is one of them: no task holds an answer for a row that
   has an outcome already. *)
Single(d) == causes[d] = 0 => \A x, y \in Live(d) : x = y

(* A task or a dispatcher of d has a row. *)
Rowed(d) ==
  status[d] = "none" => /\ \A c \in Chains : chain[c].delivery # d
                        /\ \A s \in Dispatchers : dispatch[s].delivery # d

(* A task that holds a good answer reached the receiver. *)
Heard(d) == \A c \in Chains : chain[c].delivery = d /\ chain[c].answer = "ok" => received[d] > 0

Traced(d) == Single(d) /\ Rowed(d) /\ Heard(d)
AllTraced == \A d \in Deliveries : Traced(d)

(* The ways in which a step keeps d single. *)
LEMMA StaysSingle ==
  ASSUME TypeOK, NEW d \in Deliveries, Single(d), Live(d)' \subseteq Live(d),
         causes'[d] = causes[d] \/ causes'[d] = Upto(causes[d], MaxCount)
  PROVE  Single(d)'
<1>1. causes'[d] = 0 => causes[d] = 0
  BY CountersType DEF Upto
<1> HIDE DEF Live
<1> QED
  BY <1>1 DEF Single

LEMMA SwapsSingle ==
  ASSUME NEW d \in Deliveries, Single(d), NEW x \in Live(d), NEW y,
         Live(d)' \subseteq (Live(d) \ {x}) \cup {y}, causes'[d] = causes[d]
  PROVE  Single(d)'
BY DEF Single

LEMMA ExcusesSingle ==
  ASSUME TypeOK, NEW d \in Deliveries, causes'[d] = Upto(causes[d], MaxCount)
  PROVE  Single(d)'
<1>1. causes'[d] # 0
  BY CountersType, DeliveryAssumption DEF Upto
<1> QED
  BY <1>1 DEF Single

(* A step that writes one task and leaves it to its delivery, or ends it. *)
LEMMA TaskTraces ==
  ASSUME TypeOK, NEW c \in Chains, NEW m, NEW d \in Deliveries, Traced(d),
         chain' = [chain EXCEPT ![c] = m], dispatch' = dispatch, status'[d] = status[d],
         received[d] > 0 => received'[d] > 0,
         causes'[d] = causes[d] \/ causes'[d] = Upto(causes[d], MaxCount),
         m.delivery = d => /\ chain[c].delivery = d
                           /\ m.answer = "ok" => chain[c].answer = "ok" \/ received'[d] > 0
  PROVE  Traced(d)'
<1>1. \A k \in Chains : chain'[k] = IF k = c THEN m ELSE chain[k]
  BY DEF TypeOK
<1>2. Live(d)' \subseteq Live(d)
  BY <1>1 DEF Live
<1>3. Single(d)'
  BY <1>2, StaysSingle DEF Traced
<1>4. Rowed(d)'
  BY <1>1 DEF Traced, Rowed
<1>5. Heard(d)'
  BY <1>1 DEF Traced, Heard
<1> QED
  BY <1>3, <1>4, <1>5 DEF Traced

LEMMA Vacant ==
  ASSUME NEW d \in Deliveries
  PROVE  NoChain.delivery # d /\ NoDispatch.delivery # d /\ DispatchOver.delivery # d
BY DeliveryAssumption DEF NoChain, NoDispatch, DispatchOver

-----------------------------------------------------------------------------
LEMMA SaveTraces ==
  ASSUME TypeOK, NEW c \in Chains, Save(c), NEW d \in Deliveries, Traced(d)
  PROVE  Traced(d)'
<1>1. /\ chain' = [chain EXCEPT ![c] = NoChain] /\ dispatch' = dispatch
      /\ received' = received /\ causes' = causes
  BY DEF Save, End
<1>2. CASE chain[c].delivery # d
  <2>1. status'[d] = status[d]
    BY <1>2 DEF Save, TypeOK
  <2> QED
    BY <1>1, <2>1, TaskTraces, Vacant
<1>3. CASE chain[c].delivery = d
  <2>1. \A k \in Chains : chain'[k] = IF k = c THEN NoChain ELSE chain[k]
    BY <1>1 DEF TypeOK
  <2>2. <<"task", c>> \in Live(d)
    BY <1>3 DEF Live
  <2>3. Live(d)' \subseteq (Live(d) \ {<<"task", c>>}) \cup {<<"row", d>>}
    BY <1>1, <2>1, Vacant DEF Live
  <2>4. Single(d)'
    BY <1>1, <2>2, <2>3, SwapsSingle DEF Traced
  <2>5. status[d] # "none"
    BY <1>3 DEF Traced, Rowed
  <2>6. status'[d] # "none"
    BY <1>3, <2>5 DEF Save, TypeOK
  <2>7. Rowed(d)'
    BY <2>6 DEF Rowed
  <2>8. Heard(d)'
    BY <1>1, <2>1, Vacant DEF Traced, Heard
  <2> QED
    BY <2>4, <2>7, <2>8 DEF Traced
<1> QED
  BY <1>2, <1>3

LEMMA SendTraces ==
  ASSUME TypeOK, NEW c \in Chains, NEW answer \in Answers, Send(c, answer),
         NEW d \in Deliveries, Traced(d)
  PROVE  Traced(d)'
<1> DEFINE m == [chain[c] EXCEPT !.pc = "answered", !.answer = answer]
<1>0. chain[c] \in ChainState
  BY MessageType
<1>1. /\ chain' = [chain EXCEPT ![c] = m] /\ dispatch' = dispatch /\ status' = status
      /\ m.answer = answer /\ m.delivery = chain[c].delivery
  BY <1>0 DEF Send, ChainState
<1> HIDE DEF m
<1>2. received'[d] = IF d = chain[c].delivery /\ answer \in {"ok", "unheard"}
                     THEN Upto(received[d], MaxCount + 1) ELSE received[d]
  BY DEF Send, TypeOK
<1>3. Upto(received[d], MaxCount + 1) > 0
  BY CountersType DEF Upto
<1>4. causes'[d] = causes[d] \/ causes'[d] = Upto(causes[d], MaxCount)
  BY CausesGrow DEF Send
<1> QED
  BY <1>1, <1>2, <1>3, <1>4, TaskTraces

LEMMA RedeliverTraces ==
  ASSUME TypeOK, NEW c \in Chains, NEW other \in Chains, Redeliver(c, other),
         NEW d \in Deliveries, Traced(d)
  PROVE  Traced(d)'
<1>1. /\ chain' = [chain EXCEPT ![other] = chain[c]] /\ status' = status
      /\ dispatch' = dispatch /\ received' = received
  BY DEF Redeliver
<1>2. causes'[d] = IF d = chain[c].delivery THEN Upto(causes[d], MaxCount) ELSE causes[d]
  BY CausesGrow DEF Redeliver
<1>3. CASE chain[c].delivery = d
  <2>1. \A k \in Chains : chain'[k] = IF k = other THEN chain[c] ELSE chain[k]
    BY <1>1 DEF TypeOK
  <2>2. Single(d)'
    BY <1>2, <1>3, ExcusesSingle
  <2>3. Rowed(d)'
    BY <1>1, <1>3 DEF Traced, Rowed
  <2>4. Heard(d)'
    BY <1>1, <2>1 DEF Traced, Heard
  <2> QED
    BY <2>2, <2>3, <2>4 DEF Traced
<1>4. CASE chain[c].delivery # d
  BY <1>1, <1>2, <1>4, TaskTraces
<1> QED
  BY <1>3, <1>4

LEMMA ChainTraces ==
  ASSUME IInv, NEW c \in Chains, ChainMoves(c), NEW d \in Deliveries, Traced(d)
  PROVE  Traced(d)'
<1>0. TypeOK
  BY DEF IInv
<1>m. chain[c] \in ChainState
  BY <1>0, MessageType
<1>1. CASE Load(c) \/ Attempt(c) \/ Retry(c) \/ WorkerLost(c)
  <2>1. PICK m : /\ chain' = [chain EXCEPT ![c] = m]
                 /\ \/ m = NoChain
                    \/ /\ m.delivery = chain[c].delivery
                       /\ m.answer = chain[c].answer \/ m.answer = "none"
    BY <1>1, <1>m DEF Load, Attempt, Retry, WorkerLost, End, Message, ChainState
  <2>2. dispatch' = dispatch /\ status' = status /\ received' = received
    BY <1>1 DEF Load, Attempt, Retry, WorkerLost
  <2>3. causes'[d] = causes[d] \/ causes'[d] = Upto(causes[d], MaxCount)
    BY <1>0, <1>1, CausesGrow DEF Load, Attempt, Retry, WorkerLost
  <2> QED
    BY <1>0, <2>1, <2>2, <2>3, TaskTraces, Vacant
<1>2. CASE Save(c)
  BY <1>0, <1>2, SaveTraces
<1>3. ASSUME NEW answer \in Answers, Send(c, answer) PROVE Traced(d)'
  BY <1>0, <1>3, SendTraces
<1>4. ASSUME NEW other \in Chains, Redeliver(c, other) PROVE Traced(d)'
  BY <1>0, <1>4, RedeliverTraces
<1> QED
  BY <1>1, <1>2, <1>3, <1>4 DEF ChainMoves

LEMMA DispatchTraces ==
  ASSUME IInv, NEW s \in Dispatchers, DispatchMoves(s), NEW d \in Deliveries, Traced(d)
  PROVE  Traced(d)'
<1>0. TypeOK
  BY DEF IInv
<1>1. CASE DispatchEnqueue(s)
  <2>1. PICK c \in Chains : chain' = [chain EXCEPT ![c] = Message(dispatch[s].delivery, 0)]
    BY <1>1 DEF DispatchEnqueue, Enqueue
  <2>2. /\ dispatch' = [dispatch EXCEPT ![s] = DispatchOver]
        /\ status' = status /\ received' = received /\ causes' = causes
    BY <1>1 DEF DispatchEnqueue
  <2>3. /\ \A k \in Chains : chain'[k] = IF k = c THEN Message(dispatch[s].delivery, 0) ELSE chain[k]
        /\ \A t \in Dispatchers : dispatch'[t] = IF t = s THEN DispatchOver ELSE dispatch[t]
    BY <1>0, <2>1, <2>2 DEF TypeOK
  <2>4. /\ Message(dispatch[s].delivery, 0).delivery = dispatch[s].delivery
        /\ Message(dispatch[s].delivery, 0).answer = "none"
    BY DEF Message
  <2>5. Single(d)'
    <3>1. CASE dispatch[s].delivery = d
      <4>1. <<"dispatch", s>> \in Live(d)
        BY <3>1 DEF Live
      <4>2. Live(d)' \subseteq (Live(d) \ {<<"dispatch", s>>}) \cup {<<"task", c>>}
        BY <2>2, <2>3, Vacant DEF Live
      <4> QED
        BY <2>2, <4>1, <4>2, SwapsSingle DEF Traced
    <3>2. CASE dispatch[s].delivery # d
      <4>1. Live(d)' \subseteq Live(d)
        BY <2>2, <2>3, <2>4, <3>2, Vacant DEF Live
      <4> QED
        BY <1>0, <2>2, <4>1, StaysSingle DEF Traced
    <3> QED
      BY <3>1, <3>2
  <2>6. Rowed(d)'
    BY <2>2, <2>3, <2>4, Vacant DEF Traced, Rowed
  <2>7. Heard(d)'
    BY <2>2, <2>3, <2>4 DEF Traced, Heard
  <2> QED
    BY <2>5, <2>6, <2>7 DEF Traced
<1>2. CASE DispatchLost(s)
  <2>1. /\ dispatch' = [dispatch EXCEPT ![s] = DispatchOver]
        /\ status' = status /\ received' = received /\ causes' = causes /\ chain' = chain
    BY <1>2 DEF DispatchLost
  <2>2. \A t \in Dispatchers : dispatch'[t] = IF t = s THEN DispatchOver ELSE dispatch[t]
    BY <1>0, <2>1 DEF TypeOK
  <2>3. Live(d)' \subseteq Live(d)
    BY <2>1, <2>2, Vacant DEF Live
  <2>4. Single(d)'
    BY <1>0, <2>1, <2>3, StaysSingle DEF Traced
  <2>5. Rowed(d)'
    BY <2>1, <2>2, Vacant DEF Traced, Rowed
  <2>6. Heard(d)'
    BY <2>1 DEF Traced, Heard
  <2> QED
    BY <2>4, <2>5, <2>6 DEF Traced
<1>3. ASSUME NEW e \in Deliveries, Dispatch(s, e) PROVE Traced(d)'
  <2>1. chain' = chain /\ received' = received /\ causes' = causes
    BY <1>3 DEF Dispatch
  <2>2. Heard(d)'
    BY <2>1 DEF Traced, Heard
  <2>3. CASE status[e] = "none"
    <3>1. /\ status' = [status EXCEPT ![e] = "PENDING"]
          /\ dispatch' = [dispatch EXCEPT ![s] = [pc |-> "created", delivery |-> e]]
      BY <1>3, <2>3 DEF Dispatch
    <3>2. /\ status'[d] = IF d = e THEN "PENDING" ELSE status[d]
          /\ \A t \in Dispatchers :
               dispatch'[t] = IF t = s THEN [pc |-> "created", delivery |-> e] ELSE dispatch[t]
      BY <1>0, <3>1 DEF TypeOK
    <3>3. Single(d)'
      <4>1. CASE d = e
        <5>1. <<"row", d>> \in Live(d)
          BY <2>3, <4>1 DEF Live
        <5>2. Live(d)' \subseteq (Live(d) \ {<<"row", d>>}) \cup {<<"dispatch", s>>}
          BY <2>1, <3>2, <4>1 DEF Live
        <5> QED
          BY <2>1, <5>1, <5>2, SwapsSingle DEF Traced
      <4>2. CASE d # e
        <5>1. Live(d)' \subseteq Live(d)
          BY <2>1, <3>2, <4>2 DEF Live
        <5> QED
          BY <1>0, <2>1, <5>1, StaysSingle DEF Traced
      <4> QED
        BY <4>1, <4>2
    <3>4. Rowed(d)'
      BY <2>1, <3>2 DEF Traced, Rowed
    <3> QED
      BY <2>2, <3>3, <3>4 DEF Traced
  <2>4. CASE status[e] # "none"
    <3>1. dispatch' = [dispatch EXCEPT ![s] = DispatchOver] /\ status' = status
      BY <1>3, <2>4 DEF Dispatch
    <3>2. \A t \in Dispatchers : dispatch'[t] = IF t = s THEN DispatchOver ELSE dispatch[t]
      BY <1>0, <3>1 DEF TypeOK
    <3>3. Live(d)' \subseteq Live(d)
      BY <2>1, <3>1, <3>2, Vacant DEF Live
    <3>4. Single(d)'
      BY <1>0, <2>1, <3>3, StaysSingle DEF Traced
    <3>5. Rowed(d)'
      BY <2>1, <3>1, <3>2, Vacant DEF Traced, Rowed
    <3> QED
      BY <2>2, <3>4, <3>5 DEF Traced
  <2> QED
    BY <2>3, <2>4
<1> QED
  BY <1>1, <1>2, <1>3 DEF DispatchMoves

LEMMA RecoveryTraces ==
  ASSUME IInv, NEW r \in Recoverers, RecoveryMoves(r), NEW d \in Deliveries, Traced(d)
  PROVE  Traced(d)'
<1>0. TypeOK
  BY DEF IInv
<1>1. CASE Recover(r) \/ RecoverCommit(r) \/ RecoverLost(r)
  <2>1. /\ chain' = chain /\ dispatch' = dispatch /\ status' = status
        /\ received' = received /\ causes' = causes
    BY <1>1 DEF Recover, RecoverCommit, RecoverLost
  <2> QED
    BY <2>1 DEF Traced, Single, Live, Rowed, Heard
<1>2. ASSUME NEW e \in Deliveries, Requeue(r, e) PROVE Traced(d)'
  <2>1. PICK c \in Chains : chain' = [chain EXCEPT ![c] = Message(e, 0)]
    BY <1>2 DEF Requeue, Enqueue
  <2>2. dispatch' = dispatch /\ status' = status /\ received' = received
    BY <1>2 DEF Requeue
  <2>3. causes'[d] = IF d = e THEN Upto(causes[d], MaxCount) ELSE causes[d]
    BY <1>0, <1>2, CausesGrow DEF Requeue
  <2>4. Message(e, 0).delivery = e /\ Message(e, 0).answer = "none"
    BY DEF Message
  <2>5. CASE d = e
    <3>1. status[d] = "PENDING"
      BY <1>2, <2>5 DEF Requeue, IInv, PickedLocked
    <3>2. \A k \in Chains : chain'[k] = IF k = c THEN Message(e, 0) ELSE chain[k]
      BY <1>0, <2>1 DEF TypeOK
    <3>3. Single(d)'
      BY <1>0, <2>3, <2>5, ExcusesSingle
    <3>4. Rowed(d)'
      BY <2>2, <3>1 DEF Rowed
    <3>5. Heard(d)'
      BY <2>2, <2>4, <3>2 DEF Traced, Heard
    <3> QED
      BY <3>3, <3>4, <3>5 DEF Traced
  <2>6. CASE d # e
    BY <1>0, <2>1, <2>2, <2>3, <2>4, <2>6, TaskTraces
  <2> QED
    BY <2>5, <2>6
<1> QED
  BY <1>1, <1>2 DEF RecoveryMoves

LEMMA RowTraces ==
  ASSUME IInv, NEW e \in Deliveries, RowMoves(e), NEW d \in Deliveries, Traced(d)
  PROVE  Traced(d)'
<1>0. TypeOK
  BY DEF IInv
<1>1. /\ chain' = chain /\ dispatch' = dispatch /\ received' = received /\ causes' = causes
      /\ status'[d] = status[d] \/ status'[d] = "deleted"
  BY <1>0 DEF RowMoves, Age, Delete, TypeOK
<1>2. Live(d)' \subseteq Live(d)
  BY <1>1 DEF Live
<1>3. Single(d)'
  BY <1>0, <1>1, <1>2, StaysSingle DEF Traced
<1> QED
  BY <1>1, <1>3 DEF Traced, Rowed, Heard

LEMMA TracesStart == Init => AllTraced
<1> SUFFICES ASSUME Init, NEW d \in Deliveries
             PROVE  Traced(d)
  BY DEF AllTraced
<1>1. Live(d) = {<<"row", d>>}
  BY Vacant DEF Init, Live
<1>2. Single(d)
  BY <1>1 DEF Single
<1> QED
  BY <1>2, Vacant DEF Init, Traced, Rowed, Heard

LEMMA TracesStep == IInv /\ AllTraced /\ [Next]_vars => AllTraced'
<1> SUFFICES ASSUME IInv, AllTraced, [Next]_vars, NEW d \in Deliveries
             PROVE  Traced(d)'
  BY DEF AllTraced
<1>0. Traced(d)
  BY DEF AllTraced
<1>1. CASE Next
  BY <1>0, <1>1, NextMoves, ChainTraces, DispatchTraces, RecoveryTraces, RowTraces
<1>2. CASE UNCHANGED vars
  BY <1>0, <1>2 DEF vars, Traced, Single, Live, Rowed, Heard
<1> QED
  BY <1>1, <1>2

(* Without a cause a delivery has one task, dispatcher or settled row at a time;
   its tasks have a row; who holds a good answer has reached the receiver. *)
THEOREM TracesInvariance == Spec => [](IInv /\ AllOwed /\ AllTraced)
<1> QED
  BY TracesStart, TracesStep, BalanceInvariance, PTL DEF Spec

-----------------------------------------------------------------------------
(* Each step is one of the promise, or changes nothing that it speaks of. *)
Stutter == UNCHANGED <<status, received, causes>>

LEMMA SameCounting == \A n, bound : Promise!More(n, bound) = Upto(n, bound)
BY DEF Promise!More, Upto

LEMMA SameCause ==
  ASSUME NEW d \in Deliveries, CountCause(d)
  PROVE  Promise!Excuse(d)
BY SameCounting DEF CountCause, Promise!Excuse

LEMMA NobodysCause ==
  ASSUME TypeOK, NEW d \in {NoOne}, CountCause(d)
  PROVE  causes' = causes
<1>1. d \notin Deliveries
  BY DeliveryAssumption
<1> QED
  BY <1>1 DEF TypeOK, CountCause

(* A step that only counts a cause repeats, or is of nobody. *)
LEMMA CauseRepeats ==
  ASSUME TypeOK, NEW d \in Deliveries \cup {NoOne}, CountCause(d),
         status' = status, received' = received
  PROVE  Promise!Next \/ Stutter
<1>1. CASE d \in Deliveries
  BY <1>1, SameCause DEF Promise!Next, Promise!Repeat
<1>2. CASE d = NoOne
  BY <1>2, NobodysCause DEF Stutter
<1> QED
  BY <1>1, <1>2

(* What is being sent has a row, and no reception without a cause before it. *)
LEMMA MayReceive ==
  ASSUME TypeOK, NEW c \in Chains, chain[c].pc = "sending", NEW d \in Deliveries,
         chain[c].delivery = d, Owed(d), Rowed(d)
  PROVE  status[d] # "none" /\ (received[d] <= causes[d] \/ causes[d] = MaxCount)
<1>1. status[d] # "none"
  BY DEF Rowed
<1>2. <<"task", c>> \in Hopes(d)
  BY DEF Hopes, Hopeful
<1>3. Cardinality(Hopes(d)) \in Nat /\ Cardinality(Hopes(d)) # 0
  BY <1>2, FS_CardinalityType, FS_EmptySet DEF Owed
<1> QED
  BY <1>1, <1>3, CountersType DEF Owed

LEMMA SendPromised ==
  ASSUME TypeOK, NEW c \in Chains, NEW answer \in Answers, Send(c, answer),
         AllOwed, AllTraced
  PROVE  Promise!Next \/ Stutter
<1> DEFINE d == chain[c].delivery
<1>1. d \in Deliveries \cup {NoOne}
  BY MessageType
<1>2. /\ status' = status
      /\ received' = [received EXCEPT ![d] =
                        IF answer \in {"ok", "unheard"} THEN Upto(@, MaxCount + 1) ELSE @]
      /\ answer # "unheard" => causes' = causes
      /\ answer = "unheard" => CountCause(d)
      /\ chain[c].pc = "sending"
  BY DEF Send
<1> HIDE DEF d
<1>3. CASE d = NoOne
  <2>1. d \notin Deliveries
    BY <1>3, DeliveryAssumption
  <2>2. received' = received
    BY <1>2, <2>1 DEF TypeOK
  <2>3. causes' = causes
    BY <1>2, <1>3, NobodysCause
  <2> QED
    BY <1>2, <2>2, <2>3 DEF Stutter
<1>4. CASE d \in Deliveries /\ answer \in {"ok", "unheard"}
  <2>1. received' = [received EXCEPT ![d] = Upto(@, MaxCount + 1)]
    BY <1>2, <1>4
  <2>2. status[d] # "none" /\ (received[d] <= causes[d] \/ causes[d] = MaxCount)
    BY <1>2, <1>4, MayReceive DEF AllOwed, AllTraced, Traced, d
  <2>3. Promise!Receive(d)
    BY <2>1, <2>2, SameCounting DEF Promise!Receive
  <2>4. CASE answer = "unheard"
    BY <1>2, <1>4, <2>3, <2>4, SameCause DEF Promise!Next, Promise!TakeUnheard
  <2>5. CASE answer # "unheard"
    BY <1>2, <1>4, <2>3, <2>5 DEF Promise!Next, Promise!Take
  <2> QED
    BY <2>4, <2>5
<1>5. CASE d \in Deliveries /\ answer \notin {"ok", "unheard"}
  <2>1. received' = received
    BY <1>2, <1>5 DEF TypeOK
  <2> QED
    BY <1>2, <1>5, <2>1 DEF Stutter
<1> QED
  BY <1>1, <1>3, <1>4, <1>5

(* The task that saves an outcome is live, so an outcome that the row has already
   came with a cause. *)
LEMMA SavePromised ==
  ASSUME TypeOK, NEW c \in Chains, Save(c), AllTraced
  PROVE  Promise!Next \/ Stutter
<1> DEFINE d == chain[c].delivery
           outcome == IF chain[c].answer = "ok" THEN "SENT" ELSE "FAILED"
<1>1. d \in Deliveries \cup {NoOne}
  BY MessageType
<1>2. /\ status' = [status EXCEPT ![d] = IF @ = "deleted" THEN @ ELSE outcome]
      /\ received' = received /\ causes' = causes
  BY DEF Save
<1>3. CASE d = NoOne \/ (d \in Deliveries /\ status[d] = "deleted")
  <2>1. status' = status
    BY <1>2, <1>3, DeliveryAssumption DEF TypeOK
  <2> QED
    BY <1>2, <2>1 DEF Stutter
<1>4. CASE d \in Deliveries /\ status[d] # "deleted"
  <2>1. Single(d) /\ Rowed(d) /\ Heard(d)
    BY <1>4 DEF AllTraced, Traced
  <2>2. status[d] \in {"PENDING", "SENT", "FAILED"}
    BY <1>4, <2>1 DEF TypeOK, Statuses, Rowed
  <2>3. status[d] \in {"SENT", "FAILED"} => causes[d] > 0
    <3> SUFFICES ASSUME status[d] \in {"SENT", "FAILED"} PROVE causes[d] > 0
      OBVIOUS
    <3>1. <<"task", c>> \in Live(d) /\ <<"row", d>> \in Live(d)
      BY DEF Live
    <3>2. <<"task", c>> # <<"row", d>>
      OBVIOUS
    <3>3. causes[d] # 0
      BY <2>1, <3>1, <3>2 DEF Single
    <3> QED
      BY <1>4, <3>3, CountersType
  <2>4. outcome \in {"SENT", "FAILED"} /\ (outcome = "SENT" => received[d] > 0)
    BY <2>1 DEF Heard
  <2>5. status' = [status EXCEPT ![d] = outcome]
    BY <1>2, <1>4
  <2> HIDE DEF d, outcome
  <2>6. Promise!Conclude(d, outcome)
    BY <1>2, <2>2, <2>3, <2>4, <2>5 DEF Promise!Conclude
  <2> QED
    BY <1>4, <2>4, <2>6 DEF Promise!Next
<1> QED
  BY <1>1, <1>3, <1>4

LEMMA ChainPromised ==
  ASSUME TypeOK, NEW c \in Chains, ChainMoves(c), AllOwed, AllTraced
  PROVE  Promise!Next \/ Stutter
<1>1. CASE Load(c) \/ Attempt(c) \/ Retry(c)
  BY <1>1 DEF Load, Attempt, Retry, Stutter
<1>2. CASE Save(c)
  BY <1>2, SavePromised
<1>3. CASE WorkerLost(c)
  <2>1. status' = status /\ received' = received
    BY <1>3 DEF WorkerLost
  <2>2. CASE chain[c].answer = "ok"
    <3>1. CountCause(chain[c].delivery)
      BY <1>3, <2>2 DEF WorkerLost
    <3> QED
      BY <2>1, <3>1, MessageType, CauseRepeats
  <2>3. CASE chain[c].answer # "ok"
    BY <1>3, <2>1, <2>3 DEF WorkerLost, Stutter
  <2> QED
    BY <2>2, <2>3
<1>4. ASSUME NEW answer \in Answers, Send(c, answer) PROVE Promise!Next \/ Stutter
  BY <1>4, SendPromised
<1>5. ASSUME NEW other \in Chains, Redeliver(c, other) PROVE Promise!Next \/ Stutter
  <2>1. status' = status /\ received' = received /\ CountCause(chain[c].delivery)
    BY <1>5 DEF Redeliver
  <2> QED
    BY <2>1, MessageType, CauseRepeats
<1> QED
  BY <1>1, <1>2, <1>3, <1>4, <1>5 DEF ChainMoves

LEMMA DispatchPromised ==
  ASSUME NEW s \in Dispatchers, DispatchMoves(s)
  PROVE  Promise!Next \/ Stutter
<1>1. CASE DispatchEnqueue(s) \/ DispatchLost(s)
  BY <1>1 DEF DispatchEnqueue, DispatchLost, Stutter
<1>2. ASSUME NEW d \in Deliveries, Dispatch(s, d) PROVE Promise!Next \/ Stutter
  <2>1. CASE status[d] = "none"
    <3>1. Promise!Create(d)
      BY <1>2, <2>1 DEF Dispatch, Promise!Create
    <3> QED
      BY <3>1 DEF Promise!Next
  <2>2. CASE status[d] # "none"
    BY <1>2, <2>2 DEF Dispatch, Stutter
  <2> QED
    BY <2>1, <2>2
<1> QED
  BY <1>1, <1>2 DEF DispatchMoves

LEMMA RecoveryPromised ==
  ASSUME TypeOK, NEW r \in Recoverers, RecoveryMoves(r)
  PROVE  Promise!Next \/ Stutter
<1>1. CASE Recover(r) \/ RecoverCommit(r) \/ RecoverLost(r)
  BY <1>1 DEF Recover, RecoverCommit, RecoverLost, Stutter
<1>2. ASSUME NEW d \in Deliveries, Requeue(r, d) PROVE Promise!Next \/ Stutter
  BY <1>2, CauseRepeats DEF Requeue
<1> QED
  BY <1>1, <1>2 DEF RecoveryMoves

LEMMA RowPromised ==
  ASSUME NEW d \in Deliveries, RowMoves(d)
  PROVE  Promise!Next \/ Stutter
<1>1. CASE Age(d)
  BY <1>1 DEF Age, Stutter
<1>2. CASE Delete(d)
  <2>1. Promise!Delete(d)
    BY <1>2 DEF Delete, Promise!Delete
  <2> QED
    BY <2>1 DEF Promise!Next
<1> QED
  BY <1>1, <1>2 DEF RowMoves

(* Tasks, retries, recoveries and losses implement at-least-once delivery with
   excuses: SENT follows a reception, a second one or another outcome has a
   cause, and a deleted row (apps/notifications/tasks.py) stays deleted. *)
THEOREM PromiseKept == Spec => ImplementsPromise
<1>1. Init => Promise!Init
  BY DEF Init, Promise!Init
<1>2. IInv /\ AllOwed /\ AllTraced /\ [Next]_vars => [Promise!Next]_(Promise!vars)
  <2> SUFFICES ASSUME TypeOK, IInv, AllOwed, AllTraced, [Next]_vars
               PROVE  Promise!Next \/ Stutter
    BY DEF IInv, Stutter, Promise!vars
  <2>1. CASE Next
    BY <2>1, NextMoves, ChainPromised, DispatchPromised, RecoveryPromised, RowPromised
  <2>2. CASE UNCHANGED vars
    BY <2>2 DEF vars, Stutter
  <2> QED
    BY <2>1, <2>2
<1> QED
  BY <1>1, <1>2, TracesInvariance, PTL DEF Spec, ImplementsPromise, Promise!Spec
=============================================================================
