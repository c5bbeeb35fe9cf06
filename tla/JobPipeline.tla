---------------------------- MODULE JobPipeline ----------------------------
(***************************************************************************)
(* One life of the server process: the submission handlers, the bounded    *)
(* inference queue, the in-memory job map, the worker pool and the files   *)
(* under data/ that they share.                                            *)
(*                                                                         *)
(* A handler runs enqueue_record once per page of its submission.  Every   *)
(* await of that function is a point where other handlers and workers may  *)
(* run, so the full-queue check, the insertion into the map, the append to *)
(* submissions.jsonl, the try_send and the rollback are separate actions.  *)
(* A worker likewise: receive, mark running, infer, and the five steps of  *)
(* finish_job.  What happens between two awaits is one action.             *)
(***************************************************************************)
EXTENDS Naturals, Sequences, FiniteSets

CONSTANTS
    Jobs,               \* job ids (UUID v4 in the code)
    Requests,           \* HTTP submissions
    PagesOf,            \* PagesOf[r]: the job records of submission r, in order
    Pdf,                \* submissions that are PendingSubmission::Pdf
    CallerOwned,        \* jobs whose input_kind is "local_path"
    Workers,            \* config.workers worker tasks
    QueueSize,          \* config.queue_size
    JobRetentionLimit,  \* config.job_retention_limit
    Panicking,          \* jobs whose page the blocking inference may panic on
    JobTimeout,         \* config.job_timeout_seconds > 0
    Faults,             \* which environment faults may happen, see FaultKinds
    NoJob               \* a worker that holds no job

(***************************************************************************)
(* "input"   an upload that fails validation                               *)
(* "drop"    the handler's future dropped by TimeoutLayer or a disconnect  *)
(* "append"  append_jsonl returning an error, perhaps after a partial line *)
(* "init"    UnlimitedOcrWorker::new failing or panicking                  *)
(* "cleanup" remove_file failing                                           *)
(* "torn"    a crash in the middle of append_jsonl (JobRecovery)           *)
(***************************************************************************)
FaultKinds == {"input", "drop", "append", "init", "cleanup", "torn"}

ASSUME ConfigAssumption ==
    /\ QueueSize \in Nat \ {0}
    /\ JobRetentionLimit \in Nat
    /\ JobTimeout \in BOOLEAN
    /\ Faults \subseteq FaultKinds
    /\ NoJob \notin Jobs

ASSUME WorkersAssumption == IsFiniteSet(Workers)

ASSUME JobsAssumption == 
    /\ Pdf \subseteq Requests
    /\ CallerOwned \subseteq Jobs
    /\ Panicking \subseteq Jobs

(* Every record gets a fresh UUID; an image submission has one record. *)
ASSUME PagesAssumption ==
    /\ PagesOf \in [Requests -> Seq(Jobs)]
    /\ \A r \in Requests : Len(PagesOf[r]) >= 1
    /\ \A r \in Requests \ Pdf : Len(PagesOf[r]) = 1
    /\ \A r, s \in Requests :
         \A i \in DOMAIN PagesOf[r], k \in DOMAIN PagesOf[s] :
            PagesOf[r][i] = PagesOf[s][k] => r = s /\ i = k

VARIABLES
    rpc,          \* rpc[r]: where the handler of r is, or how it ended
    page,         \* page[r]: index of the record it enqueues now
    jobs,         \* AppState.jobs: the status of each record, or "absent"
    older,        \* <<a, b>> \in older: b's updated_at was set after a's
    queue,        \* the async_channel between handlers and workers
    images,       \* jobs whose image file exists
    submissions,  \* jobs with a line in submissions.jsonl
    results,      \* status of the last line for each job in results.jsonl
    torn,         \* JSONL files that contain a partial line
    wpc,          \* wpc[w]: where worker_loop of w is
    wjob,         \* the request worker w is processing
    wres,         \* its InferenceRunResult
    ready,        \* WorkerPoolState.ready
    failed,       \* WorkerPoolState.failed
    notified,     \* status of the record last handed to WebhookClient::deliver
    metrics       \* the job counters of AppMetrics

handlerVars == <<rpc, page>>
mapVars     == <<jobs, older>>
logVars     == <<submissions, results, torn>>
workerVars  == <<wpc, wjob, wres>>
poolVars    == <<ready, failed>>

vars == <<handlerVars, mapVars, queue, images, logVars, workerVars, poolVars,
          notified, metrics>>

Terminal == {"succeeded", "failed"}
Statuses == {"queued", "running"} \cup Terminal
Logs     == {"submissions", "results"}

HandlerSteps == {"start", "prepare", "capacity", "check", "insert", "persist",
                 "send", "rollback", "persist_rollback"}
Answers      == {"accepted", "unavailable", "bad_request", "internal_error", "dropped"}

Counters == {"started", "succeeded", "failed", "timed_out", "restarts"}

Outcomes    == {"ok", "err", "panic", "timeout"}
Finishing   == {"finish", "append", "notify", "cleanup", "retain"}
WorkerSteps == {"init", "idle", "starting", "infer", "late", "stopping", "dead"}
                 \cup Finishing

(***************************************************************************)
(* The job map                                                             *)
(***************************************************************************)
(* Mutant: the page loop keeps enqueueing the first record *)
FirstJobAgain(r) == PagesOf[r][1]

CurrentJob(r) == PagesOf[r][page[r]]
PageIds(r)    == {PagesOf[r][i] : i \in DOMAIN PagesOf[r]}
Uploaded(r)   == PageIds(r) \ CallerOwned

Present(map) == {j \in Jobs : map[j] # "absent"}

(* updated_at of j becomes now_utc() *)
Stamped(order, j) ==
    {p \in order : p[1] # j} \cup {<<a, j>> : a \in Jobs \ {j}}

(* updated_at of the records of r is set in page order *)
PagesStamped(order, r) ==
    {p \in order : p[1] \notin PageIds(r)}
      \cup ((Jobs \ PageIds(r)) \X PageIds(r))
      \cup {p \in PageIds(r) \X PageIds(r) :
              \E i, k \in DOMAIN PagesOf[r] :
                 i < k /\ p = <<PagesOf[r][i], PagesOf[r][k]>>}

(* recent_records: the `limit` ids with the latest updated_at *)
RecentRecords(map, limit) ==
    {j \in Present(map) :
        Cardinality({k \in Present(map) : <<j, k>> \in older}) < limit}

(* retain_recent_jobs: active records are not exempt *)
RetainRecent(map) ==
    [j \in Jobs |-> IF j \in RecentRecords(map, JobRetentionLimit)
                    THEN map[j] ELSE "absent"]

(* Mutant: the worker is never uncounted *)
NeverStopped(n) == n

(* AppMetrics: the counters of S go up by one *)
Count(S) ==
    metrics' = [c \in Counters |-> IF c \in S THEN metrics[c] + 1 ELSE metrics[c]]

(* mark_stopped: checked_sub leaves 0 alone *)
MarkStopped(n) == IF n > 0 THEN n - 1 ELSE 0

(* Mutant: the channel takes one request more than queue_size *)
IsFullOffByOne == Len(queue) > QueueSize

IsFull == Len(queue) >= QueueSize

(* The receivers live in the worker tasks: the channel closes with the last. *)
IsClosed == \A w \in Workers : wpc[w] = "dead"

Init ==
    /\ rpc = [r \in Requests |-> "start"]
    /\ page = [r \in Requests |-> 1]
    /\ jobs = [j \in Jobs |-> "absent"]
    /\ older = {}
    /\ queue = <<>>
    /\ images = {}
    /\ submissions = {}
    /\ results = [j \in Jobs |-> "absent"]
    /\ torn = {}
    /\ wpc = [w \in Workers |-> "init"]
    /\ wjob = [w \in Workers |-> NoJob]
    /\ wres = [w \in Workers |-> "ok"]
    /\ ready = 0
    /\ failed = 0
    /\ notified = [j \in Jobs |-> "absent"]
    /\ metrics = [c \in Counters |-> 0]

-----------------------------------------------------------------------------
(***************************************************************************)
(* Submission handlers                                                     *)
(***************************************************************************)
Go(r, from, to) == rpc[r] = from /\ rpc' = [rpc EXCEPT ![r] = to]

(* ensure_workers_ready, before the body is read *)
EnsureWorkersReady(r) ==
    /\ Go(r, "start", IF ready > 0 THEN "prepare" ELSE "unavailable")
    /\ UNCHANGED <<page, mapVars, queue, images, logVars, workerVars, poolVars,
                   notified, metrics>>

(* The body is read and validated, the images are saved or rendered and the *)
(* records are built.  What a failed rendering leaves behind no job ever     *)
(* owns: PdfSubmission follows those files.                                 *)
PrepareSubmission(r) ==
    /\ Go(r, "prepare", IF r \in Pdf THEN "capacity" ELSE "check")
    /\ images' = images \cup Uploaded(r)
    /\ older' = PagesStamped(older, r)
    /\ UNCHANGED <<page, jobs, queue, logVars, workerVars, poolVars, notified, metrics>>

RefuseSubmission(r) ==
    /\ "input" \in Faults
    /\ Go(r, "prepare", "bad_request")
    /\ UNCHANGED <<page, mapVars, queue, images, logVars, workerVars, poolVars,
                   notified, metrics>>

(* ensure_queue_has_capacity and cleanup_rendered_pages *)
EnsureQueueHasCapacity(r) ==
    /\ LET fits == Len(queue) + Len(PagesOf[r]) <= QueueSize
       IN /\ Go(r, "capacity", IF fits THEN "check" ELSE "unavailable")
          /\ images' = IF fits THEN images ELSE images \ PageIds(r)
    /\ UNCHANGED <<page, mapVars, queue, logVars, workerVars, poolVars, notified, metrics>>

(* queue_tx.is_full() *)
CheckFull(r) ==
    /\ Go(r, "check", IF IsFull THEN "unavailable" ELSE "insert")
    /\ UNCHANGED <<page, mapVars, queue, images, logVars, workerVars, poolVars,
                   notified, metrics>>

InsertRecord(r) ==
    /\ Go(r, "insert", "persist")
    /\ jobs' = [jobs EXCEPT ![CurrentJob(r)] = "queued"]
    /\ UNCHANGED <<page, older, queue, images, logVars, workerVars, poolVars,
                   notified, metrics>>

(* Mutant: nothing is written before the request is queued *)
SkipSubmission(r) ==
    /\ Go(r, "persist", "send")
    /\ UNCHANGED <<page, mapVars, queue, images, logVars, workerVars, poolVars,
                   notified, metrics>>

AppendSubmission(r) ==
    /\ Go(r, "persist", "send")
    /\ submissions' = submissions \cup {CurrentJob(r)}
    /\ UNCHANGED <<page, mapVars, queue, images, results, torn, workerVars, poolVars,
                   notified, metrics>>

(* append_jsonl failed, perhaps after writing part of the line *)
AppendFails(log) ==
    /\ "append" \in Faults
    /\ torn' \in {torn, torn \cup {log}}
    /\ UNCHANGED <<submissions, results>>

(* EnqueueError::Persist: the record stays in the map *)
AppendSubmissionFails(r) ==
    /\ Go(r, "persist", "internal_error")
    /\ AppendFails("submissions")
    /\ UNCHANGED <<page, mapVars, queue, images, workerVars, poolVars, notified, metrics>>

(* try_send succeeds; a PDF goes on with its next page *)
TrySend(r) ==
    /\ ~IsClosed /\ ~IsFull
    /\ queue' = Append(queue, CurrentJob(r))
    /\ IF page[r] < Len(PagesOf[r])
       THEN Go(r, "send", "check") /\ page' = [page EXCEPT ![r] = @ + 1]
       ELSE Go(r, "send", "accepted") /\ UNCHANGED page
    /\ UNCHANGED <<mapVars, images, logVars, workerVars, poolVars, notified, metrics>>

(* Mutant: the refusal is answered without the rollback *)
RefuseWithoutRollback(r) ==
    /\ IsClosed \/ IsFull
    /\ Go(r, "send", "unavailable")
    /\ UNCHANGED <<page, mapVars, queue, images, logVars, workerVars, poolVars,
                   notified, metrics>>

(* Mutant: a refused page takes the images of the whole document with it *)
RefuseAndCleanDocument(r) ==
    /\ IsClosed \/ IsFull
    /\ Go(r, "send", "rollback")
    /\ images' = images \ PageIds(r)
    /\ UNCHANGED <<page, mapVars, queue, logVars, workerVars, poolVars, notified, metrics>>

(* TrySendError::Full or TrySendError::Closed *)
TrySendFails(r) ==
    /\ IsClosed \/ IsFull
    /\ Go(r, "send", "rollback")
    /\ UNCHANGED <<page, mapVars, queue, images, logVars, workerVars, poolVars,
                   notified, metrics>>

RollbackUnqueued(r) ==
    /\ Go(r, "rollback", "persist_rollback")
    /\ jobs' = [jobs EXCEPT ![CurrentJob(r)] = "absent"]
    /\ UNCHANGED <<page, older, queue, images, logVars, workerVars, poolVars,
                   notified, metrics>>

PersistUnqueued(r) ==
    /\ older' = Stamped(older, CurrentJob(r))
    /\ \/ /\ Go(r, "persist_rollback", "unavailable")
          /\ results' = [results EXCEPT ![CurrentJob(r)] = "failed"]
          /\ UNCHANGED <<submissions, torn>>
       \/ /\ Go(r, "persist_rollback", "internal_error")
          /\ AppendFails("results")
    /\ UNCHANGED <<page, jobs, queue, images, workerVars, poolVars, notified, metrics>>

(* The handler's future is dropped at an await: no more of it runs. *)
DropHandler(r) ==
    /\ "drop" \in Faults
    /\ rpc[r] \in HandlerSteps \ {"start"}
    /\ rpc' = [rpc EXCEPT ![r] = "dropped"]
    /\ UNCHANGED <<page, mapVars, queue, images, logVars, workerVars, poolVars,
                   notified, metrics>>

Handler(r) ==
    \/ EnsureWorkersReady(r)
    \/ PrepareSubmission(r)
    \/ RefuseSubmission(r)
    \/ EnsureQueueHasCapacity(r)
    \/ CheckFull(r)
    \/ InsertRecord(r)
    \/ AppendSubmission(r)
    \/ AppendSubmissionFails(r)
    \/ TrySend(r)
    \/ TrySendFails(r)
    \/ RollbackUnqueued(r)
    \/ PersistUnqueued(r)

-----------------------------------------------------------------------------
(***************************************************************************)
(* Workers                                                                 *)
(***************************************************************************)
Step(w, from, to) == wpc[w] = from /\ wpc' = [wpc EXCEPT ![w] = to]

InitializeWorker(w) ==
    /\ Step(w, "init", "idle")
    /\ ready' = ready + 1
    /\ UNCHANGED <<handlerVars, mapVars, queue, images, logVars, wjob, wres, failed,
                   notified, metrics>>

(* worker_loop returns: this worker never serves again *)
InitializeWorkerFails(w) ==
    /\ "init" \in Faults
    /\ Step(w, "init", "dead")
    /\ failed' = failed + 1
    /\ UNCHANGED <<handlerVars, mapVars, queue, images, logVars, wjob, wres, ready,
                   notified, metrics>>

(* Mutant: the request is read but left in the channel *)
PeekRequest(w) ==
    /\ queue # <<>>
    /\ Step(w, "idle", "starting")
    /\ wjob' = [wjob EXCEPT ![w] = Head(queue)]
    /\ Count({"started"})
    /\ UNCHANGED <<handlerVars, mapVars, queue, images, logVars, wres, poolVars, notified>>

(* queue_rx.recv() and record_job_started *)
Receive(w) ==
    /\ queue # <<>>
    /\ Step(w, "idle", "starting")
    /\ wjob' = [wjob EXCEPT ![w] = Head(queue)]
    /\ queue' = Tail(queue)
    /\ Count({"started"})
    /\ UNCHANGED <<handlerVars, mapVars, images, logVars, wres, poolVars, notified>>

(* Mutant: an evicted record is inserted again as running *)
MarkRunningUpsert(w) ==
    /\ Step(w, "starting", "infer")
    /\ jobs' = [jobs EXCEPT ![wjob[w]] = "running"]
    /\ older' = Stamped(older, wjob[w])
    /\ UNCHANGED <<handlerVars, queue, images, logVars, wjob, wres, poolVars,
                   notified, metrics>>

(* A record that is gone is only logged; inference runs all the same. *)
MarkRunning(w) ==
    /\ Step(w, "starting", "infer")
    /\ IF jobs[wjob[w]] # "absent"
       THEN /\ jobs' = [jobs EXCEPT ![wjob[w]] = "running"]
            /\ older' = Stamped(older, wjob[w])
       ELSE UNCHANGED mapVars
    /\ UNCHANGED <<handlerVars, queue, images, logVars, wjob, wres, poolVars,
                   notified, metrics>>

InferenceSucceeds(w) ==
    /\ Step(w, "infer", "finish")
    /\ wres' = [wres EXCEPT ![w] = "ok"]
    /\ Count({"succeeded"})
    /\ UNCHANGED <<handlerVars, mapVars, queue, images, logVars, wjob, poolVars, notified>>

InferenceFails(w) ==
    /\ Step(w, "infer", "finish")
    /\ wres' = [wres EXCEPT ![w] = "err"]
    /\ Count({"failed"})
    /\ UNCHANGED <<handlerVars, mapVars, queue, images, logVars, wjob, poolVars, notified>>

(* Mutant: a panic is counted as a restart only *)
PanicsUncounted(w) ==
    /\ wjob[w] \in Panicking
    /\ Step(w, "infer", "finish")
    /\ wres' = [wres EXCEPT ![w] = "panic"]
    /\ Count({"restarts"})
    /\ UNCHANGED <<handlerVars, mapVars, queue, images, logVars, wjob, poolVars, notified>>

InferencePanics(w) ==
    /\ wjob[w] \in Panicking
    /\ Step(w, "infer", "finish")
    /\ wres' = [wres EXCEPT ![w] = "panic"]
    /\ Count({"failed", "restarts"})
    /\ UNCHANGED <<handlerVars, mapVars, queue, images, logVars, wjob, poolVars, notified>>

(* Mutant: record_job_timed_out does not count the job as failed *)
TimesOutUncounted(w) ==
    /\ JobTimeout
    /\ Step(w, "infer", "finish")
    /\ wres' = [wres EXCEPT ![w] = "timeout"]
    /\ Count({"timed_out", "restarts"})
    /\ ready' = MarkStopped(ready)
    /\ UNCHANGED <<handlerVars, mapVars, queue, images, logVars, wjob, failed, notified>>

(* The timeout fires first; the worker is marked stopped here already. *)
InferenceTimesOut(w) ==
    /\ JobTimeout
    /\ Step(w, "infer", "finish")
    /\ wres' = [wres EXCEPT ![w] = "timeout"]
    /\ Count({"timed_out", "failed", "restarts"})
    /\ ready' = MarkStopped(ready)
    /\ UNCHANGED <<handlerVars, mapVars, queue, images, logVars, wjob, failed, notified>>

FinalStatus(w) == IF wres[w] = "ok" THEN "succeeded" ELSE "failed"

(* Where worker w continues once finish_job returns *)
AfterFinish(w) == CASE wres[w] = "timeout" -> "late"
                    [] wres[w] = "panic"   -> "stopping"
                    [] OTHER               -> "idle"

HasRecord(w) == jobs[wjob[w]] # "absent"

(* finish_job under the write lock; a missing record ends it here. *)
FinishRecord(w) ==
    /\ wpc[w] = "finish"
    /\ \/ /\ HasRecord(w)
          /\ Step(w, "finish", "append")
          /\ jobs' = [jobs EXCEPT ![wjob[w]] = FinalStatus(w)]
          /\ older' = Stamped(older, wjob[w])
          /\ UNCHANGED wjob
       \/ /\ ~HasRecord(w)
          /\ Step(w, "finish", AfterFinish(w))
          /\ wjob' = [wjob EXCEPT ![w] = NoJob]
          /\ UNCHANGED mapVars
    /\ UNCHANGED <<handlerVars, queue, images, logVars, wres, poolVars, notified, metrics>>

(* Mutant: only successes are appended to results.jsonl *)
AppendSuccessOnly(w) ==
    /\ Step(w, "append", "notify")
    /\ results' = IF wres[w] = "ok" THEN [results EXCEPT ![wjob[w]] = "succeeded"]
                                    ELSE results
    /\ UNCHANGED <<handlerVars, mapVars, queue, images, submissions, torn, wjob, wres,
                   poolVars, notified, metrics>>

(* A failed append is logged and the job goes on. *)
AppendResult(w) ==
    /\ Step(w, "append", "notify")
    /\ \/ /\ results' = [results EXCEPT ![wjob[w]] = FinalStatus(w)]
          /\ UNCHANGED <<submissions, torn>>
       \/ AppendFails("results")
    /\ UNCHANGED <<handlerVars, mapVars, queue, images, wjob, wres, poolVars,
                   notified, metrics>>

(* Mutant: no webhook for jobs that failed *)
SendWebhookOnSuccess(w) ==
    /\ Step(w, "notify", "cleanup")
    /\ notified' = IF wres[w] = "ok" THEN [notified EXCEPT ![wjob[w]] = "succeeded"]
                                     ELSE notified
    /\ UNCHANGED <<handlerVars, mapVars, queue, images, logVars, wjob, wres, poolVars, metrics>>

(* send_webhook returns once the event is delivered or given up *)
SendWebhook(w) ==
    /\ Step(w, "notify", "cleanup")
    /\ notified' = [notified EXCEPT ![wjob[w]] = FinalStatus(w)]
    /\ UNCHANGED <<handlerVars, mapVars, queue, images, logVars, wjob, wres, poolVars, metrics>>

(* cleanup_job_artifacts; should_delete_image spares caller-owned files *)
CleanupArtifacts(w) ==
    /\ Step(w, "cleanup", "retain")
    /\ \/ images' = images \ ({wjob[w]} \ CallerOwned)
       \/ "cleanup" \in Faults /\ UNCHANGED images
    /\ UNCHANGED <<handlerVars, mapVars, queue, logVars, wjob, wres, poolVars,
                   notified, metrics>>

RetainRecentJobs(w) ==
    /\ Step(w, "retain", AfterFinish(w))
    /\ jobs' = RetainRecent(jobs)
    /\ wjob' = [wjob EXCEPT ![w] = NoJob]
    /\ UNCHANGED <<handlerVars, older, queue, images, logVars, wres, poolVars,
                   notified, metrics>>

(* wait_for_timed_out_inference: the late result is only logged *)
LateReturn(w) ==
    /\ Step(w, "late", "stopping")
    /\ UNCHANGED <<handlerVars, mapVars, queue, images, logVars, wjob, wres, poolVars,
                   notified, metrics>>

(* mark_stopped in worker_loop, then initialize_worker again *)
StopWorker(w) ==
    /\ Step(w, "stopping", "init")
    /\ ready' = MarkStopped(ready)
    /\ UNCHANGED <<handlerVars, mapVars, queue, images, logVars, wjob, wres, failed,
                   notified, metrics>>

Worker(w) ==
    \/ InitializeWorker(w)
    \/ InitializeWorkerFails(w)
    \/ Receive(w)
    \/ MarkRunning(w)
    \/ InferenceSucceeds(w)
    \/ InferenceFails(w)
    \/ InferencePanics(w)
    \/ InferenceTimesOut(w)
    \/ FinishRecord(w)
    \/ AppendResult(w)
    \/ SendWebhook(w)
    \/ CleanupArtifacts(w)
    \/ RetainRecentJobs(w)
    \/ LateReturn(w)
    \/ StopWorker(w)

Next ==
    \/ \E r \in Requests : Handler(r) \/ DropHandler(r)
    \/ \E w \in Workers : Worker(w)

Spec == Init /\ [][Next]_vars

-----------------------------------------------------------------------------
(***************************************************************************)
(* Type invariant                                                          *)
(***************************************************************************)
(* Every variable stays in its domain and the queue within its capacity. *)
TypeOK ==
    /\ rpc \in [Requests -> HandlerSteps \cup Answers]
    /\ page \in [Requests -> Nat \ {0}]
    /\ \A r \in Requests : page[r] <= Len(PagesOf[r])
    /\ jobs \in [Jobs -> Statuses \cup {"absent"}]
    /\ older \subseteq Jobs \X Jobs
    /\ queue \in Seq(Jobs)
    /\ Len(queue) <= QueueSize
    /\ images \subseteq Jobs \ CallerOwned
    /\ submissions \subseteq Jobs
    /\ results \in [Jobs -> Terminal \cup {"absent"}]
    /\ torn \subseteq Logs
    /\ wpc \in [Workers -> WorkerSteps]
    /\ wjob \in [Workers -> Jobs \cup {NoJob}]
    /\ wres \in [Workers -> Outcomes]
    /\ ready \in Nat
    /\ failed \in Nat
    /\ notified \in [Jobs -> Terminal \cup {"absent"}]
    /\ metrics \in [Counters -> Nat]
-----------------------------------------------------------------------------
(***************************************************************************)
(* Where a job is                                                          *)
(***************************************************************************)
InQueue  == {queue[i] : i \in DOMAIN queue}
Held     == {wjob[w] : w \in Workers} \ {NoJob}
InFlight == InQueue \cup Held

(* Page i of r went through try_send. *)
IsSent(r, i) == i < page[r] \/ (i = page[r] /\ rpc[r] = "accepted")

SentJobs ==
    {j \in Jobs : \E r \in Requests : \E i \in DOMAIN PagesOf[r] :
        j = PagesOf[r][i] /\ IsSent(r, i)}

(* Jobs in the map that a handler is still enqueueing or rolling back *)
BeingEnqueued ==
    {CurrentJob(r) : r \in {s \in Requests : rpc[s] \in {"persist", "send", "rollback"}}}

(* Jobs somebody is working on *)
Owned == InFlight \cup BeingEnqueued

(* Records whose handler ended between jobs.insert and try_send *)
Abandoned ==
    {CurrentJob(r) : r \in {s \in Requests : rpc[s] \in {"dropped", "internal_error"}}}

(* Workers whose inference is not over *)
Computing == {w \in Workers : wpc[w] \in {"starting", "infer"}}

(* Initialized workers whose stop has not been counted *)
Serving ==
    {w \in Workers :
        /\ wpc[w] \notin {"init", "dead", "late"}
        /\ wpc[w] \in Finishing \cup {"stopping"} => wres[w] # "timeout"}

(* A worker holds a request exactly from recv to the end of finish_job. *)
BusyHoldsJob ==
    \A w \in Workers :
        wjob[w] # NoJob <=> wpc[w] \in {"starting", "infer"} \cup Finishing

(* Only a timed-out inference is waited for after its job was failed. *)
LateTimedOut == \A w \in Workers : wpc[w] = "late" => wres[w] = "timeout"

(***************************************************************************)
(* Safety                                                                  *)
(***************************************************************************)
(* A job that try_send accepted is in one place: once in the queue or with  *)
(* one worker.  Nothing else ever gets there, so no refused or half-        *)
(* enqueued record is run (enqueue_record, worker receive loop).            *)
OneOwner ==
    /\ \A i, k \in DOMAIN queue : queue[i] = queue[k] => i = k
    /\ \A v, w \in Workers : wjob[v] = wjob[w] /\ wjob[v] # NoJob => v = w
    /\ InQueue \cap Held = {}
    /\ InFlight \subseteq SentJobs

(* The image of a job that still has to be read by inference is on disk:    *)
(* neither the PDF clean-up on a refusal nor the clean-up of another job    *)
(* takes it (submit.rs cleanup_rendered_pages, worker.rs cleanup).          *)
ImageAvailable ==
    \A j \in InQueue \cup {wjob[w] : w \in Computing} :
        j \in CallerOwned \/ j \in images

(* The record a client polls, its line in results.jsonl and the record in   *)
(* the webhook never give two different outcomes for a job, whatever the    *)
(* late result of a timed-out inference is.                                 *)
OutcomesAgree ==
    \A j \in Jobs : Cardinality({jobs[j], results[j], notified[j]} \cap Terminal) <= 1

(* After a 503 the record that could not be queued is not queryable, not    *)
(* announced by a webhook and not with a worker; nor are the pages after it *)
(* (rollback_unqueued_record, enqueue_pdf_records).                         *)
UnavailableLeavesNoRecord ==
    \A r \in Requests : rpc[r] = "unavailable" =>
        \A i \in DOMAIN PagesOf[r] : i >= page[r] =>
            /\ jobs[PagesOf[r][i]] = "absent"
            /\ notified[PagesOf[r][i]] = "absent"
            /\ PagesOf[r][i] \notin InFlight

(* /ready and ensure_workers_ready never count a worker that is being       *)
(* initialized, failed for good or is stuck in a timed-out inference.       *)
ReadyNotOverstated == ready <= Cardinality(Serving)

(* /metrics: every accepted job is counted started once, and every started  *)
(* job is succeeded, failed or still computing, across time-outs, panics    *)
(* and records that were evicted.                                           *)
MetricsBalance ==
    /\ metrics.started + Len(queue) = Cardinality(SentJobs)
    /\ metrics.started = metrics.succeeded + metrics.failed + Cardinality(Computing)
    /\ metrics.timed_out <= metrics.restarts
    /\ metrics.restarts <= metrics.failed

(* A record shown as queued or running is in the queue, with a worker or    *)
(* with its handler, or is what a handler that was dropped or could not     *)
(* append left behind: no other record stays active for ever.               *)
ActiveHasOwner ==
    \A j \in Jobs :
        jobs[j] \in {"queued", "running"} => j \in Owned \cup Abandoned

(* The records that nobody works on any more never exceed                   *)
(* job_retention_limit, those left behind before the queue apart.           *)
RetentionCap ==
    Cardinality(Present(jobs) \ (Owned \cup Abandoned)) <= JobRetentionLimit

(* No record stays for a reason nobody answers for: not one that was        *)
(* refused, not one that is active without an owner, and not more finished  *)
(* ones than are retained (rollback_unqueued_record, retain_recent_jobs).   *)
RecordsAccounted == UnavailableLeavesNoRecord /\ ActiveHasOwner /\ RetentionCap

(***************************************************************************)
(* Statements of the documentation that the code does not keep             *)
(***************************************************************************)
(* http-api.md: /ready returns 200 only after at least one worker has       *)
(* initialized, otherwise 503.  So with an idle worker it returns 200.      *)
ReadyWhenWorkerIdle == (\E w \in Workers : wpc[w] = "idle") => ready > 0

(* metadata-and-cleanup.md: uploaded images and rendered pages are removed  *)
(* after each job finishes.  Here: the job went through a worker.           *)
FinishedJobCleanedUp == \A j \in SentJobs \ InFlight : j \notin images
=============================================================================
