------------------------------ MODULE TaskPool ------------------------------
(***************************************************************************)
(* What the isolate pool promises the code that submits tasks to it: a     *)
(* submitted task is pending until it has an outcome, the outcome never    *)
(* changes, and it is reported once.  DownloadIsolatePool implements this  *)
(* module; DownloadLifecycle drives it.                                    *)
(***************************************************************************)
CONSTANT Tasks      \* task ids; a chapter's task id is derived from its id

VARIABLE state      \* state[t] of the submission of t

Outcomes == {"done", "failed"}
PoolStates == {"idle", "pending"} \cup Outcomes

PoolInit == state = [t \in Tasks |-> "idle"]

(* Submit and wait. *)
Submit(t) ==
    /\ state[t] = "idle"
    /\ state' = [state EXCEPT ![t] = "pending"]

(* The worker completed the task. *)
Complete(t) ==
    /\ state[t] = "pending"
    /\ state' = [state EXCEPT ![t] = "done"]

(* Tasks fail: a worker's error, a cancellation, a worker that died, or a  *)
(* pool that could not start, which fails all that waited for it at once.  *)
Fail(S) ==
    /\ S # {}
    /\ \A t \in S : state[t] = "pending"
    /\ state' = [t \in Tasks |-> IF t \in S THEN "failed" ELSE state[t]]

(* The outcome reaches whoever submitted. *)
Settle(t) ==
    /\ state[t] \in Outcomes
    /\ state' = [state EXCEPT ![t] = "idle"]

PoolNext ==
    \/ \E t \in Tasks : Submit(t) \/ Complete(t) \/ Settle(t)
    \/ \E S \in SUBSET Tasks : Fail(S)

PoolSpec == PoolInit /\ [][PoolNext]_state

=============================================================================
