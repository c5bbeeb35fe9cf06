----------------------------- MODULE JobLedger -----------------------------
(***************************************************************************)
(* What the server promises about a job to somebody who only polls         *)
(* GET /v1/jobs/{id} and receives the webhook, with no queue, no workers   *)
(* and no handlers: an id is shown as queued, it is run only if it was     *)
(* accepted, an accepted id is never shown anew, it ends in one outcome,   *)
(* and the webhook tells that outcome, once, and nothing else.  A record   *)
(* may be forgotten at any time.                                           *)
(***************************************************************************)
CONSTANT Jobs

VARIABLES
    status,     \* what GET /v1/jobs/{id} answers, "absent" for 404
    accepted,   \* ids the server has taken responsibility for
    outcome,    \* how the job ended, "absent" while it has not
    told        \* ids whose webhook event was handed over

vars == <<status, accepted, outcome, told>>

Init ==
    /\ status = [j \in Jobs |-> "absent"]
    /\ accepted = {}
    /\ outcome = [j \in Jobs |-> "absent"]
    /\ told = {}

Show(j) ==
    /\ status[j] = "absent" /\ j \notin accepted
    /\ status' = [status EXCEPT ![j] = "queued"]
    /\ UNCHANGED <<accepted, outcome, told>>

Accept(j) ==
    /\ j \notin accepted
    /\ accepted' = accepted \cup {j}
    /\ UNCHANGED <<status, outcome, told>>

Start(j) ==
    /\ status[j] = "queued" /\ j \in accepted
    /\ status' = [status EXCEPT ![j] = "running"]
    /\ UNCHANGED <<accepted, outcome, told>>

Finish(j, result) ==
    /\ status[j] = "running" /\ outcome[j] = "absent"
    /\ status' = [status EXCEPT ![j] = result]
    /\ outcome' = [outcome EXCEPT ![j] = result]
    /\ UNCHANGED <<accepted, told>>

Tell(j) ==
    /\ outcome[j] # "absent" /\ j \notin told
    /\ told' = told \cup {j}
    /\ UNCHANGED <<status, accepted, outcome>>

Forget(S) ==
    /\ status' = [j \in Jobs |-> IF j \in S THEN "absent" ELSE status[j]]
    /\ UNCHANGED <<accepted, outcome, told>>

Next ==
    \/ \E j \in Jobs : Show(j) \/ Accept(j) \/ Start(j) \/ Tell(j)
    \/ \E j \in Jobs, result \in {"succeeded", "failed"} : Finish(j, result)
    \/ \E S \in SUBSET Jobs : Forget(S)

Spec == Init /\ [][Next]_vars
=============================================================================
