---------------------------- MODULE JobRecovery ----------------------------
(***************************************************************************)
(* Several lives of the process over one data directory.  A crash (or the  *)
(* end of serve(), which aborts the detached worker tasks the same way)    *)
(* keeps the JSONL files and the images and loses everything else.  The    *)
(* next start runs load_jobs: read both files, mark what was active as     *)
(* failed, append those records to results.jsonl one by one, rewrite the   *)
(* two files one after the other, apply the in-memory retention and only   *)
(* then serve.  The process may crash between any two of these.            *)
(*                                                                         *)
(* `older` is not reset: the updated_at it orders is in the files.  Neither*)
(* are `rpc`, which tells what clients were answered, and `notified`,      *)
(* which tells what webhook receivers were sent.                           *)
(***************************************************************************)
EXTENDS JobPipeline

CONSTANTS
    MetadataRetentionLimit, \* config.metadata_retention_limit
    MaxCrashes              \* bound on the crashes explored

ASSUME RecoveryAssumption == MetadataRetentionLimit \in Nat /\ MaxCrashes \in Nat

VARIABLES
    phase,      \* what the process is doing
    recovered,  \* load_jobs: recovered records not yet appended
    crashes

recoveryVars == <<phase, recovered, crashes>>
allVars      == <<vars, recoveryVars>>

Phases == {"serving", "down", "recovering", "compact_submissions",
           "compact_results", "retain", "refused"}

InitRecovery ==
    Init /\ phase = "serving" /\ recovered = {} /\ crashes = 0

Enter(from, to) == phase = from /\ phase' = to

Running == phase = "serving" /\ Next /\ UNCHANGED recoveryVars

(* The files an append is under way in *)
Appending ==
    {"submissions" : r \in {s \in Requests : rpc[s] = "persist"}}
      \cup {"results" : r \in {s \in Requests : rpc[s] = "persist_rollback"}}
      \cup {"results" : w \in {v \in Workers : wpc[v] = "append"}}
      \cup {"results" : j \in recovered}

Crash ==
    /\ crashes < MaxCrashes
    /\ phase \notin {"down", "refused"}
    /\ phase' = "down"
    /\ crashes' = crashes + 1
    /\ recovered' = {}
    /\ rpc' = [r \in Requests |->
                 IF rpc[r] \in HandlerSteps \ {"start"} THEN "dropped" ELSE rpc[r]]
    /\ jobs' = [j \in Jobs |-> "absent"]
    /\ queue' = <<>>
    /\ wpc' = [w \in Workers |-> "init"]
    /\ wjob' = [w \in Workers |-> NoJob]
    /\ wres' = [w \in Workers |-> "ok"]
    /\ ready' = 0
    /\ failed' = 0
    /\ metrics' = [c \in Counters |-> 0]
    /\ \/ UNCHANGED torn
       \/ "torn" \in Faults /\ \E log \in Appending : torn' = torn \cup {log}
    /\ UNCHANGED <<page, older, images, submissions, results, notified>>

-----------------------------------------------------------------------------

(* Records of submissions.jsonl overridden by those of results.jsonl; every *)
(* submission line says queued.                                             *)
Loaded ==
    [j \in Jobs |-> IF results[j] # "absent" THEN results[j]
                    ELSE IF j \in submissions THEN "queued" ELSE "absent"]

(* Mutant: records still queued are not recovered *)
InterruptedRunning(map) == {j \in Jobs : map[j] = "running"}

Interrupted(map) == {j \in Jobs : map[j] \in {"queued", "running"}}

(* All of S get a new updated_at, in the order HashMap iterates in *)
StampedInSomeOrder(S) ==
    \E rank \in [S -> 1..Cardinality(S)] :
        /\ \A a, b \in S : rank[a] = rank[b] => a = b
        /\ older' = {p \in older : p[1] \notin S}
                      \cup ((Jobs \ S) \X S)
                      \cup {p \in S \X S : rank[p[1]] < rank[p[2]]}

LoadMetadata ==
    /\ torn = {}
    /\ Enter("down", "recovering")
    /\ recovered' = Interrupted(Loaded)
    /\ jobs' = [j \in Jobs |-> IF j \in Interrupted(Loaded) THEN "failed" ELSE Loaded[j]]
    /\ StampedInSomeOrder(Interrupted(Loaded))
    /\ UNCHANGED <<handlerVars, queue, images, logVars, workerVars, poolVars,
                   notified, metrics, crashes>>

(* One line that does not parse and load_jobs fails; so does the next start. *)
LoadMetadataFails ==
    /\ torn # {}
    /\ Enter("down", "refused")
    /\ UNCHANGED <<vars, recovered, crashes>>

AppendRecovered(j) ==
    /\ phase = "recovering" /\ j \in recovered
    /\ results' = [results EXCEPT ![j] = jobs[j]]
    /\ recovered' = recovered \ {j}
    /\ UNCHANGED <<handlerVars, mapVars, queue, images, submissions, torn, workerVars,
                   poolVars, notified, metrics, phase, crashes>>

(* Mutant: the files are compacted before the recovered records are appended *)
CompactBeforeAppending ==
    /\ Enter("recovering",
             IF MetadataRetentionLimit = 0 THEN "retain" ELSE "compact_submissions")
    /\ UNCHANGED <<vars, recovered, crashes>>

(* compact_metadata returns at once when the limit is 0 *)
StartCompaction ==
    /\ recovered = {}
    /\ Enter("recovering",
             IF MetadataRetentionLimit = 0 THEN "retain" ELSE "compact_submissions")
    /\ UNCHANGED <<vars, recovered, crashes>>

(* write_jsonl_records: a temporary file renamed over submissions.jsonl *)
CompactSubmissions ==
    /\ Enter("compact_submissions", "compact_results")
    /\ submissions' = RecentRecords(jobs, MetadataRetentionLimit) \cap Interrupted(jobs)
    /\ UNCHANGED <<handlerVars, mapVars, queue, images, results, torn, workerVars,
                   poolVars, notified, metrics, recovered, crashes>>

CompactResults ==
    /\ Enter("compact_results", "retain")
    /\ results' =
         [j \in Jobs |->
            IF j \in RecentRecords(jobs, MetadataRetentionLimit) \ Interrupted(jobs)
            THEN jobs[j] ELSE "absent"]
    /\ UNCHANGED <<handlerVars, mapVars, queue, images, submissions, torn, workerVars,
                   poolVars, notified, metrics, recovered, crashes>>

(* retain_recent_jobs, then start_workers and serve *)
StartServing ==
    /\ Enter("retain", "serving")
    /\ jobs' = RetainRecent(jobs)
    /\ UNCHANGED <<handlerVars, older, queue, images, logVars, workerVars, poolVars,
                   notified, metrics, recovered, crashes>>

Startup ==
    \/ LoadMetadata
    \/ LoadMetadataFails
    \/ \E j \in Jobs : AppendRecovered(j)
    \/ StartCompaction
    \/ CompactSubmissions
    \/ CompactResults
    \/ StartServing

RecoveryNext == Running \/ Crash \/ Startup

(* Handlers and workers are tokio tasks: while the process serves, a         *)
(* runnable one is polled again.  Inference is a bounded loop, so a         *)
(* blocking task returns.  A start that is under way goes on.  Nothing      *)
(* obliges a client or a timeout to drop a handler, or a crash to happen.   *)
RecoveryFairness ==
    /\ \A r \in Requests : WF_allVars(phase = "serving" /\ Handler(r) /\ UNCHANGED recoveryVars)
    /\ \A w \in Workers : WF_allVars(phase = "serving" /\ Worker(w) /\ UNCHANGED recoveryVars)
    /\ WF_allVars(Startup)

RecoverySpec     == InitRecovery /\ [][RecoveryNext]_allVars
FairRecoverySpec == RecoverySpec /\ RecoveryFairness

-----------------------------------------------------------------------------

Logged == submissions \cup Present(results)

(* An outcome a webhook receiver was told is in results.jsonl, in every     *)
(* later life too, unless a compaction dropped it for enough later records  *)
(* (append before send_webhook, no failing append).                         *)
Superseded(j) ==
    /\ MetadataRetentionLimit > 0
    /\ Cardinality({k \in Present(results) : <<j, k>> \in older}) >= MetadataRetentionLimit

AnnouncedIsDurable ==
    \A j \in Jobs :
        notified[j] # "absent" =>
            \/ results[j] = notified[j]
            \/ results[j] = "absent" /\ Superseded(j)

(* No id that reached a JSONL file is ever lost from both files unless a    *)
(* compaction dropped it for enough later records: neither a crash between  *)
(* the appends of recovered records nor one between the two rewrites        *)
(* forgets a job (load_jobs, compact_metadata).                             *)
NewerLogged(j) == Cardinality({k \in Logged : <<j, k>> \in older})

Forgotten(j) ==
    j \in Logged \ Logged' => NewerLogged(j) >= MetadataRetentionLimit /\ MetadataRetentionLimit > 0

(* A persisted outcome is final: no later life of the server turns it into  *)
(* another one, and only the compaction of superseded records removes it    *)
(* (results override submissions in load_jobs).                             *)
Rewritten(j) ==
    results[j] # "absent" /\ results'[j] # results[j] => results'[j] = "absent" /\ Superseded(j)

(* The files keep the history: every step, of a server, of its recovery or  *)
(* of a crash, forgets and rewrites ids only in that way.                   *)
HistoryKept == [][\A j \in Jobs : Forgotten(j) /\ Rewritten(j)]_allVars

(* Once the server serves, nothing of an earlier life is shown as queued or *)
(* running, and what is shown agrees with the files and the webhooks (no    *)
(* handler dropped but by a crash).                                         *)
ServedAfterRecovery ==
    phase = "serving" =>
        /\ \A j \in Jobs : jobs[j] \in {"queued", "running"} => j \in Owned
        /\ OutcomesAgree

(* With metadata_retention_limit at least job_retention_limit, an outcome    *)
(* that can be queried is in results.jsonl: the two retentions keep the     *)
(* same latest records, so a restart does not lose what clients still see   *)
(* (compact_metadata, retain_recent_jobs).                                  *)
QueryableIsDurable ==
    \A j \in Jobs :
        phase = "serving" /\ jobs[j] \in Terminal /\ j \notin InFlight
            => results[j] = jobs[j]

(* What the server shows is neither a leftover of an earlier life nor       *)
(* something the next life will not know.                                   *)
ServedIsDurable == ServedAfterRecovery /\ QueryableIsDurable

(* The job counters of one life of the server agree with what its workers   *)
(* do, across time-outs, panics and crashes, and before the first crash     *)
(* with what was accepted.                                                  *)
MetricsAcrossLives ==
    /\ metrics.started = metrics.succeeded + metrics.failed + Cardinality(Computing)
    /\ metrics.timed_out <= metrics.restarts
    /\ metrics.restarts <= metrics.failed
    /\ crashes = 0 => MetricsBalance

(* Every accepted job ends with a persisted outcome although the server     *)
(* crashes while the job is queued, running or being recovered.             *)
AcceptedJobEnds == \A j \in Jobs : j \in SentJobs ~> results[j] # "absent"

(* Every accepted job is processed to the end unless a crash prevents it:   *)
(* its outcome is persisted and announced and its upload removed, although  *)
(* workers panic, time out and restart (no failing append, initialization   *)
(* or removal, no eviction).                                                *)
AcceptedJobCompletes ==
    \A j \in Jobs :
        j \in SentJobs ~> \/ /\ results[j] # "absent"
                            /\ notified[j] = results[j]
                            /\ j \notin images \cup InFlight
                         \/ crashes > 0

(***************************************************************************)
(* Statements of the documentation that the code does not keep             *)
(***************************************************************************)
(* metadata-and-cleanup.md: on startup the server reloads the JSONL files.  *)
NeverRefusesToStart == phase # "refused"

(* http-api.md: after the job reaches succeeded or failed the server sends  *)
(* the webhook event.  An accepted job recovered as failed is never told.   *)
FinishedJobAnnounced ==
    phase = "serving" =>
        \A j \in SentJobs \ InFlight : jobs[j] \in Terminal => notified[j] # "absent"
=============================================================================
