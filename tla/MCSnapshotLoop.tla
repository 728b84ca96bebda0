--------------------------- MODULE MCSnapshotLoop ---------------------------
(* Instance of SnapshotLoop: one execution under test and one bystander. *)
EXTENDS SnapshotLoop, TLC

CONSTANTS x1, x2, e1, e2, e3, e4, e5

Ev(x, t, s, r, err, m) ==
  [exec |-> x, time |-> t, status |-> s, retry |-> r, error |-> err, meta |-> m]

(* Two events share a time, one comes before them, one succeeds after a
   failure and one belongs to another execution. *)
MCPayload ==
  e1 :> Ev(x1, 1, "running", 1, FALSE, FALSE) @@
  e2 :> Ev(x1, 2, "failed", 0, TRUE, FALSE) @@
  e3 :> Ev(x1, 2, "success", 2, FALSE, TRUE) @@
  e4 :> Ev(x1, 3, "success", 0, FALSE, FALSE) @@
  e5 :> Ev(x2, 3, "success", 1, FALSE, FALSE)

(* The status and the error of an old row come from an event or from a user. *)
MCOldRows ==
  UNION {[status: {o[1]}, last: 0..3, retry: {0, 1}, by: {o[2]}, error: {o[3]}] :
         o \in {<<"running", "event", "none">>, <<"failed", "user", "user">>}}

(* nothing, the first event, one of two simultaneous ones, one of them and the last *)
MCKnownSets == {{}, {e1}, {e3}, {e2, e4}}
=============================================================================
