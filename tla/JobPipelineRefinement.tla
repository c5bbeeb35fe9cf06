----------------------- MODULE JobPipelineRefinement -----------------------
(***************************************************************************)
(* JobPipeline implements JobLedger.  The status is the record in the map, *)
(* a job is accepted once try_send took its request, and its outcome is    *)
(* decided when finish_job updates the record, before the webhook task     *)
(* has carried it out.                                                     *)
(***************************************************************************)
EXTENDS JobPipeline

Deciding(j) == {w \in Workers : wjob[w] = j /\ wpc[w] \in {"append", "notify"}}

Outcome(j) ==
    IF Deciding(j) # {} THEN FinalStatus(CHOOSE w \in Deciding(j) : TRUE)
                        ELSE notified[j]

Ledger == INSTANCE JobLedger WITH
    status   <- jobs,
    accepted <- SentJobs,
    outcome  <- [j \in Jobs |-> Outcome(j)],
    told     <- {j \in Jobs : notified[j] # "absent"}

(* Handlers and workers together show a client of GET /v1/jobs/{id} and of  *)
(* the webhook nothing that the ledger forbids, whatever await points the   *)
(* steps interleave at and whatever is dropped, fails or is evicted.        *)
ImplementsLedger == Ledger!Spec
=============================================================================
