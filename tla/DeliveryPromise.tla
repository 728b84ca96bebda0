-------------------------- MODULE DeliveryPromise ---------------------------
(***************************************************************************)
(* What delivery promises of a notification, without tasks, queues, locks,  *)
(* retries and recoveries.  The receiver takes it at least once if the row  *)
(* says SENT, and once more only for a reason; an outcome that is recorded  *)
(* is revised only if there was a reason to deliver again; what is deleted  *)
(* stays deleted.                                                           *)
(***************************************************************************)
EXTENDS Naturals

CONSTANTS Deliveries,
          MaxCount     \* bound: where the counters stop

VARIABLES status,      \* the row of a delivery, "none" before it is created
          received,    \* how often the receiver took the notification
          causes       \* reasons for taking it again

vars == <<status, received, causes>>

Init == /\ status = [d \in Deliveries |-> "none"]
        /\ received = [d \in Deliveries |-> 0]
        /\ causes = [d \in Deliveries |-> 0]

More(n, bound) == IF n < bound THEN n + 1 ELSE n

Excuse(d) == causes' = [causes EXCEPT ![d] = More(@, MaxCount)]

(* The first reception needs no reason, each other uses one up. *)
Receive(d) == /\ status[d] # "none"
              /\ received[d] <= causes[d] \/ causes[d] = MaxCount
              /\ received' = [received EXCEPT ![d] = More(@, MaxCount + 1)]

Create(d) == /\ status[d] = "none"
             /\ status' = [status EXCEPT ![d] = "PENDING"]
             /\ UNCHANGED <<received, causes>>

Repeat(d) == Excuse(d) /\ UNCHANGED <<status, received>>

Take(d) == Receive(d) /\ UNCHANGED <<status, causes>>

(* taken, but nobody will know *)
TakeUnheard(d) == Receive(d) /\ Excuse(d) /\ UNCHANGED status

Conclude(d, outcome) ==
  /\ \/ status[d] = "PENDING"
     \/ status[d] \in {"SENT", "FAILED"} /\ causes[d] > 0
  /\ outcome = "SENT" => received[d] > 0
  /\ status' = [status EXCEPT ![d] = outcome]
  /\ UNCHANGED <<received, causes>>

Delete(d) == /\ status[d] \in {"PENDING", "SENT", "FAILED"}
             /\ status' = [status EXCEPT ![d] = "deleted"]
             /\ UNCHANGED <<received, causes>>

Next == \E d \in Deliveries :
          \/ Create(d) \/ Repeat(d) \/ Take(d) \/ TakeUnheard(d) \/ Delete(d)
          \/ \E outcome \in {"SENT", "FAILED"} : Conclude(d, outcome)

Spec == Init /\ [][Next]_vars
=============================================================================
