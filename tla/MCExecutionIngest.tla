-------------------------- MODULE MCExecutionIngest -------------------------
(* Instances of ExecutionIngest: three executions of one job, or of two jobs
   that share an external id. *)
EXTENDS ExecutionIngest, TLC

CONSTANTS x, y, z, j, k

Ev(w, t, s, n, err) ==
  [exec |-> w, time |-> t, status |-> s, retry |-> n, error |-> err, meta |-> FALSE]

MCPayload ==
  "x1" :> Ev(x, 1, "running", 0, FALSE) @@
  "x2" :> Ev(x, 2, "success", 0, FALSE) @@
  "x2f" :> Ev(x, 2, "failed", 1, TRUE) @@
  "y1" :> Ev(y, 1, "running", 0, FALSE) @@
  "y2" :> Ev(y, 2, "success", 0, FALSE) @@
  "y0" :> Ev(y, 0, "pending", 0, FALSE) @@
  "z1" :> Ev(z, 1, "success", 0, FALSE)

MCEvents == DOMAIN MCPayload
MCJobOf == [w \in Executions |-> j]
MCExternalId == x :> 1 @@ y :> 2 @@ z :> 3

(* z has the external id of x under another job. *)
MCJobOfTwo == x :> j @@ y :> j @@ z :> k
MCExternalIdTwo == x :> 1 @@ y :> 2 @@ z :> 1
MCTwoJobs == {<<"x2">>, <<"x2f", "x1">>, <<"y1", "z1">>}

(* Reordered deliveries of one execution and mixed batches of two. *)
MCOverlap == {<<"x2">>, <<"x1", "y1">>, <<"y1", "x2f", "x1", "x1">>}

(* An execution runs and ends, another one is queued. *)
MCPending == {<<"x1", "y0">>, <<"x2">>}

(* Jobs may be absent, as registered by the SDK (unverified) or deactivated. *)
MCJobsAny == {f \in JobTable : \A i \in Jobs : f[i].status = "absent" => ~f[i].verified}

(* One job known, the other absent, deactivated or registered. *)
MCJobsMixed ==
  {f \in MCJobsAny : /\ f[j] = [status |-> "active", verified |-> TRUE]
                     /\ f[k].verified = (f[k].status = "inactive")}

MCJobsKnown == [Jobs -> {[status |-> "active", verified |-> TRUE]}]

Symm == Permutations(Requests)
=============================================================================
