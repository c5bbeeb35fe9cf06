------------------------- MODULE JobRecovery_proofs -------------------------
(***************************************************************************)
(* What the JSONL files keep over any number of lives of the server, what  *)
(* each life counts and shows, and that receivers were told what is kept.  *)
(*                                                                         *)
(* While it serves, a step is one of JobPipeline, and the lemmas about the *)
(* steps of handlers and workers are used again; what they say of outcomes *)
(* does not survive a crash as a whole, so FilesInv holds only what does.  *)
(***************************************************************************)
EXTENDS JobPipeline_proofs, JobRecovery

(* The handlers that have not written the record they are at *)
Unwritten == {"start", "prepare", "capacity", "check", "insert", "persist"}

(* Nothing is logged of a page before its handler gets to it. *)
NoLineYet ==
    \A r \in Requests : rpc[r] \in HandlerSteps =>
        \A i \in DOMAIN PagesOf[r] :
            i > page[r] \/ (i = page[r] /\ rpc[r] \in Unwritten)
                => PagesOf[r][i] \notin submissions

(* Nobody has a result for a job before a worker appends it. *)
NoResultLine ==
    /\ \A j \in Undecided : results[j] = "absent"
    /\ \A w \in Workers : wpc[w] = "append" => results[wjob[w]] = "absent"

(* Between two lives there is no handler at work and no worker. *)
AllQuiet ==
    /\ \A r \in Requests : rpc[r] \notin HandlerSteps \ {"start"}
    /\ \A w \in Workers : wpc[w] = "init"
    /\ queue = <<>>

(* load_jobs: what the map holds at each of its steps *)
Restored ==
    /\ phase = "recovering" =>
         /\ \A j \in Jobs : jobs[j] = IF j \in recovered THEN "failed" ELSE results[j]
         /\ \A j \in recovered : results[j] = "absent" /\ j \in submissions
         /\ recovered \subseteq Jobs
         /\ submissions \subseteq Present(jobs)
    /\ phase \in {"compact_submissions", "compact_results"} =>
         /\ MetadataRetentionLimit > 0 /\ jobs = results
         /\ submissions \subseteq Present(jobs)
    /\ phase = "compact_results" => submissions = {}

FilesInv ==
    /\ NoLineYet
    /\ NoResultYet
    /\ NoResultLine
    /\ phase \in Phases
    /\ phase # "serving" => AllQuiet
    /\ Restored

(* A handler logs the page it is at, once. *)
LEMMA HandlerLogs ==
    ASSUME TypeOK, NEW r \in Requests, Handler(r) \/ DropHandler(r)
    PROVE  /\ submissions' \in {submissions, submissions \cup {CurrentJob(r)}}
           /\ submissions' # submissions =>
                rpc[r] = "persist" /\ rpc'[r] = "send" /\ UNCHANGED page
           /\ rpc'[r] \in Unwritten =>
                \/ rpc[r] \in Unwritten /\ page' = page
                \/ TrySend(r) /\ rpc[r] = "send" /\ page'[r] = page[r] + 1
           /\ rpc[r] \in HandlerSteps
<1> USE DEF TypeOK, Go, HandlerSteps, Unwritten
<1>1. CASE AppendSubmission(r)
  BY <1>1 DEF AppendSubmission
<1>2. CASE TrySend(r)
  <2>1. submissions' = submissions /\ rpc[r] = "send"
    BY <1>2 DEF TrySend, logVars
  <2>2. CASE page[r] < Len(PagesOf[r])
    BY <1>2, <2>1, <2>2 DEF TrySend
  <2>3. CASE ~(page[r] < Len(PagesOf[r]))
    BY <1>2, <2>1, <2>3 DEF TrySend
  <2> QED
    BY <2>2, <2>3
<1>3. CASE EnsureWorkersReady(r) \/ PrepareSubmission(r) \/ RefuseSubmission(r)
  BY <1>3 DEF EnsureWorkersReady, PrepareSubmission, RefuseSubmission, logVars
<1>4. CASE EnsureQueueHasCapacity(r) \/ CheckFull(r) \/ InsertRecord(r)
  BY <1>4 DEF EnsureQueueHasCapacity, CheckFull, InsertRecord, logVars
<1>5. CASE AppendSubmissionFails(r) \/ TrySendFails(r) \/ RollbackUnqueued(r)
  BY <1>5 DEF AppendSubmissionFails, TrySendFails, RollbackUnqueued, AppendFails, logVars
<1>6. CASE PersistUnqueued(r) \/ DropHandler(r)
  BY <1>6 DEF PersistUnqueued, DropHandler, AppendFails, logVars
<1> QED
  BY <1>1, <1>2, <1>3, <1>4, <1>5, <1>6 DEF Handler

LEMMA HandlerKeepsLines ==
    ASSUME TypeOK, NoLineYet, NEW r \in Requests, Handler(r) \/ DropHandler(r)
    PROVE  NoLineYet'
<1>0. TypeOK' /\ \A s \in Requests \ {r} : rpc'[s] = rpc[s]
  BY HandlerKeepsTypes, HandlerFrame
<1> SUFFICES ASSUME NEW s \in Requests, rpc'[s] \in HandlerSteps, NEW i \in DOMAIN PagesOf[s],
                    i > page'[s] \/ (i = page'[s] /\ rpc'[s] \in Unwritten)
             PROVE  PagesOf[s][i] \notin submissions'
  BY DEF NoLineYet
<1>1. /\ PagesOf[s][i] \in Jobs /\ i \in Nat /\ page[s] \in Nat /\ page'[s] \in Nat
      /\ page[r] \in DOMAIN PagesOf[r]
  BY <1>0, CurrentPage, PagesAssumption DEF TypeOK
<1>2. page'[s] = page[s] \/ (s = r /\ page'[s] = page[s] + 1)
  <2>1. CASE TrySend(r)
    BY <2>1, TrySendPage
  <2>2. CASE page' = page
    BY <2>2
  <2> QED
    BY <2>1, <2>2, HandlerFrame
<1>3. rpc[s] \in HandlerSteps /\ (i > page[s] \/ (i = page[s] /\ rpc[s] \in Unwritten))
  <2>1. CASE s = r
    <3>1. rpc'[r] \in Unwritten =>
            \/ rpc[r] \in Unwritten /\ page' = page
            \/ page'[r] = page[r] + 1
      BY HandlerLogs
    <3>2. rpc[r] \in HandlerSteps
      BY HandlerLogs
    <3> QED
      BY <1>1, <1>2, <2>1, <3>1, <3>2
  <2>2. CASE s # r
    BY <1>0, <1>2, <2>2
  <2> QED
    BY <2>1, <2>2
<1>4. PagesOf[s][i] \notin submissions
  BY <1>3 DEF NoLineYet
<1>5. CASE submissions' = submissions
  BY <1>4, <1>5
<1>6. CASE submissions' # submissions
  <2>1. /\ submissions' = submissions \cup {CurrentJob(r)} /\ page' = page
        /\ rpc'[r] = "send"
    BY <1>6, HandlerLogs
  <2>2. PagesOf[s][i] # CurrentJob(r)
    <3> SUFFICES ASSUME PagesOf[s][i] = PagesOf[r][page[r]] PROVE FALSE
      BY DEF CurrentJob
    <3>1. s = r /\ i = page[r]
      BY <1>1, PagesAssumption
    <3> QED
      BY <1>1, <2>1, <3>1 DEF Unwritten
  <2> QED
    BY <1>4, <2>1, <2>2
<1> QED
  BY <1>5, <1>6
LEMMA HandlerKeepsResults ==
    ASSUME TypeInv, OneOwner, NoResultYet, NoResultLine,
           NEW r \in Requests, Handler(r) \/ DropHandler(r)
    PROVE  NoResultLine'
<1> DEFINE c == CurrentJob(r)
<1>0. TypeOK /\ UNCHANGED <<wpc, wjob>>
  BY HandlerKeepsWorkers DEF TypeInv
<1>1. c \in Jobs /\ c \notin SentJobs /\ c \notin Undecided
  BY <1>0, CurrentPage, HandlerFrame, CurrentJobUnsent, UndecidedSent
<1>2. /\ rpc[r] \in HandlerSteps
      /\ \A j \in Jobs \ {c} : results'[j] = results[j]
  BY <1>0, HandlerRecords
<1>3. \A w \in Workers : wpc'[w] = "append" => results'[wjob'[w]] = "absent"
  <2> SUFFICES ASSUME NEW w \in Workers, wpc[w] = "append"
               PROVE  results'[wjob[w]] = "absent"
    BY <1>0
  <2>1. wjob[w] \in Jobs /\ wjob[w] # c
    BY <1>1, UndecidedSent DEF Settling
  <2> QED
    BY <1>2, <2>1 DEF NoResultLine
<1>4. \A j \in Undecided' : results'[j] = "absent"
  <2>1. CASE TrySend(r)
    <3>1. results' = results
      BY <2>1 DEF TrySend, logVars
    <3>2. results[c] = "absent"
      BY <1>0, <1>2, CurrentPage DEF NoResultYet, CurrentJob, TypeOK
    <3>3. InQueue' \subseteq InQueue \cup {c}
      <4>1. queue' = Append(queue, c) /\ queue \in Seq(Jobs)
        BY <1>0, <2>1 DEF TrySend, TypeOK
      <4> QED
        BY <1>1, <4>1 DEF InQueue
    <3>4. Undecided' \subseteq Undecided \cup {c}
      BY <1>0, <3>3 DEF Undecided
    <3> QED
      BY <3>1, <3>2, <3>4 DEF NoResultLine
  <2>2. CASE queue' = queue
    <3>1. Undecided' = Undecided
      BY <1>0, <2>2 DEF Undecided, InQueue
    <3>2. \A j \in Undecided : j \in Jobs \ {c}
      BY <1>1, UndecidedSent
    <3> QED
      BY <1>2, <3>1, <3>2 DEF NoResultLine
  <2> QED
    BY <1>0, <2>1, <2>2, HandlerFrame
<1> QED
  BY <1>3, <1>4 DEF NoResultLine

(* A worker appends one result, for its own job, and nothing to the other   *)
(* file.                                                                    *)
LEMMA WorkerLogs ==
    ASSUME TypeInv, NEW w \in Workers, Worker(w)
    PROVE  /\ submissions' = submissions
           /\ results' # results => wpc[w] = "append" /\ wpc'[w] = "notify"
           /\ wpc'[w] = "append" => wpc[w] = "finish" /\ wjob'[w] = wjob[w]
<1> USE DEF TypeInv, TypeOK, Step
<1>1. CASE AppendResult(w)
  BY <1>1 DEF AppendResult, AppendFails
<1>2. CASE FinishRecord(w)
  <2>1. AfterFinish(w) # "append"
    BY DEF AfterFinish
  <2> QED
    BY <1>2, <2>1 DEF FinishRecord, logVars
<1>3. CASE RetainRecentJobs(w)
  <2>1. AfterFinish(w) # "append"
    BY DEF AfterFinish
  <2> QED
    BY <1>3, <2>1 DEF RetainRecentJobs, logVars
<1>4. CASE ~(AppendResult(w) \/ FinishRecord(w) \/ RetainRecentJobs(w))
  BY <1>4 DEF Worker, logVars, InitializeWorker, InitializeWorkerFails, Receive, MarkRunning, InferenceSucceeds, InferenceFails, InferencePanics, InferenceTimesOut, SendWebhook, CleanupArtifacts, LateReturn, StopWorker
<1> QED
  BY <1>1, <1>2, <1>3, <1>4

LEMMA WorkerKeepsResults ==
    ASSUME TypeInv, OneOwner, NoResultLine, NEW w \in Workers, Worker(w)
    PROVE  NoResultLine'
<1>1. /\ Undecided' \subseteq Undecided /\ Undecided \subseteq Jobs
      /\ \A j \in Jobs \ {wjob[w]} : results'[j] = results[j]
  BY UndecidedShrinks, UndecidedSent, WorkerRecords
<1>2. wpc[w] \in Settling => wjob[w] \notin Undecided
  BY UndecidedSent
<1>3. \A j \in Undecided' : results'[j] = "absent"
  <2> SUFFICES ASSUME NEW j \in Undecided' PROVE results'[j] = "absent"
    OBVIOUS
  <2>1. j \in Jobs /\ results[j] = "absent"
    BY <1>1 DEF NoResultLine
  <2>2. CASE results' = results
    BY <2>1, <2>2
  <2>3. CASE results' # results
    <3>1. j # wjob[w]
      BY <1>1, <1>2, <2>3, WorkerLogs DEF Settling
    <3> QED
      BY <1>1, <2>1, <3>1
  <2> QED
    BY <2>2, <2>3
<1>4. ASSUME NEW v \in Workers, wpc'[v] = "append" PROVE results'[wjob'[v]] = "absent"
  <2>1. CASE v = w
    <3>1. wpc[w] = "finish" /\ wjob'[w] = wjob[w] /\ results' = results
      BY <1>4, <2>1, WorkerLogs
    <3>2. wjob[w] \in Undecided
      BY <3>1 DEF Undecided
    <3> QED
      BY <2>1, <3>1, <3>2 DEF NoResultLine
  <2>2. CASE v # w
    <3>1. wpc[v] = "append" /\ wjob'[v] = wjob[v]
      BY <1>4, <2>2, WorkerRecords
    <3>2. wjob[v] \in Jobs /\ wjob[v] # NoJob
      BY <3>1, BusySent DEF Finishing
    <3>3. wjob[v] # wjob[w]
      BY <2>2, <3>2 DEF OneOwner
    <3> QED
      BY <1>1, <3>1, <3>2, <3>3 DEF NoResultLine
  <2> QED
    BY <2>1, <2>2
<1> QED
  BY <1>3, <1>4 DEF NoResultLine
-----------------------------------------------------------------------------
(***************************************************************************)
(* Lives                                                                   *)
(***************************************************************************)
RecoveryInv == TypeInv /\ OneOwner /\ FilesInv /\ IsFiniteSet(Logged)

Interruptible == {"queued", "running"}

(* A crash ends the handlers at work and the workers, and keeps the files. *)
LEMMA CrashKeepsTypes ==
    ASSUME TypeInv, OneOwner, Crash
    PROVE  TypeInv' /\ OneOwner' /\ SentJobs' = SentJobs /\ AllQuiet' /\ Undecided' = {}
<1> USE DEF Crash
<1>1. TypeOK'
  <2>1. torn' \subseteq Logs
    <3>1. Appending \subseteq Logs
      BY DEF Appending, Logs
    <3>2. torn \subseteq Logs
      BY DEF TypeInv, TypeOK
    <3> QED
      BY <3>1, <3>2
  <2>2. rpc' \in [Requests -> HandlerSteps \cup Answers]
    BY DEF TypeInv, TypeOK, Answers
  <2>3. queue' \in Seq(Jobs) /\ Len(queue') <= QueueSize
    BY ConfigAssumption
  <2>4. /\ jobs' \in [Jobs -> Statuses \cup {"absent"}] /\ wpc' \in [Workers -> WorkerSteps]
        /\ wjob' \in [Workers -> Jobs \cup {NoJob}] /\ wres' \in [Workers -> Outcomes]
        /\ ready' \in Nat /\ failed' \in Nat /\ metrics' \in [Counters -> Nat]
    BY DEF WorkerSteps, Outcomes
  <2> QED
    BY <2>1, <2>2, <2>3, <2>4 DEF TypeInv, TypeOK
<1>2. BusyHoldsJob' /\ LateTimedOut'
  BY DEF BusyHoldsJob, LateTimedOut, Finishing
<1>3. \A r \in Requests : rpc'[r] = "accepted" <=> rpc[r] = "accepted"
  BY DEF TypeInv, TypeOK, HandlerSteps
<1>4. SentJobs' = SentJobs
  BY <1>3 DEF SentJobs, IsSent
<1>5. InQueue' = {} /\ Held' = {} /\ DOMAIN queue' = {}
  BY DEF InQueue, Held
<1>6. OneOwner'
  BY <1>5 DEF OneOwner, InFlight
<1>7. AllQuiet'
  BY DEF AllQuiet, TypeInv, TypeOK, HandlerSteps
<1>8. Undecided' = {}
  BY <1>5 DEF Undecided
<1> QED
  BY <1>1, <1>2, <1>4, <1>6, <1>7, <1>8 DEF TypeInv

LEMMA CrashKeepsFiles ==
    ASSUME TypeInv, OneOwner, FilesInv, Crash
    PROVE  FilesInv'
<1>1. UNCHANGED <<page, submissions, results>> /\ phase' = "down"
  BY DEF Crash
<1>2. \A r \in Requests : rpc'[r] \in HandlerSteps => rpc[r] = "start" /\ rpc'[r] = "start"
  BY DEF Crash, TypeInv, TypeOK, HandlerSteps
<1>3. NoLineYet'
  BY <1>1, <1>2 DEF FilesInv, NoLineYet, HandlerSteps, Unwritten
<1>4. NoResultYet'
  BY <1>1, <1>2 DEF FilesInv, NoResultYet, HandlerSteps
<1>5. NoResultLine'
  <2>1. \A w \in Workers : wpc'[w] = "init"
    BY DEF Crash
  <2> QED
    BY <2>1, CrashKeepsTypes DEF NoResultLine
<1>6. AllQuiet' /\ Restored' /\ phase' \in Phases
  BY <1>1, CrashKeepsTypes DEF Restored, Phases
<1> QED
  BY <1>3, <1>4, <1>5, <1>6 DEF FilesInv

(* load_jobs touches neither handlers nor the queue nor workers. *)
LEMMA StartupFrame ==
    ASSUME Startup
    PROVE  UNCHANGED <<handlerVars, queue, workerVars, poolVars, notified, metrics, images, torn>>
BY DEF Startup, vars, logVars, LoadMetadata, LoadMetadataFails, AppendRecovered, StartCompaction, CompactSubmissions, CompactResults, StartServing

LEMMA StartupKeepsTypes ==
    ASSUME TypeInv, OneOwner, FilesInv, Startup
    PROVE  TypeInv' /\ OneOwner'
<1>1. UNCHANGED <<rpc, page, queue, wpc, wjob, wres, ready, failed, notified, metrics, images, torn>>
  BY StartupFrame DEF handlerVars, workerVars, poolVars
<1>2. OneOwner'
  BY <1>1 DEF OneOwner, InFlight, InQueue, Held, SentJobs, IsSent
<1>3. BusyHoldsJob' /\ LateTimedOut'
  BY <1>1 DEF TypeInv, BusyHoldsJob, LateTimedOut
<1>4. /\ jobs' \in [Jobs -> Statuses \cup {"absent"}] /\ older' \subseteq Jobs \X Jobs
      /\ submissions' \subseteq Jobs /\ results' \in [Jobs -> Terminal \cup {"absent"}]
  <2> USE DEF TypeInv, TypeOK
  <2>1. CASE LoadMetadata
    <3>1. Interrupted(Loaded) \subseteq Jobs
      BY DEF Interrupted
    <3>2. older' \subseteq Jobs \X Jobs
      BY <2>1, <3>1 DEF LoadMetadata, StampedInSomeOrder
    <3>3. jobs' \in [Jobs -> Statuses \cup {"absent"}]
      BY <2>1 DEF LoadMetadata, Loaded, Statuses, Terminal
    <3> QED
      BY <2>1, <3>2, <3>3 DEF LoadMetadata, logVars
  <2>2. CASE \E j \in Jobs : AppendRecovered(j)
    <3>1. PICK j \in Jobs : AppendRecovered(j)
      BY <2>2
    <3>2. jobs[j] = "failed"
      BY <3>1 DEF AppendRecovered, FilesInv, Restored
    <3> QED
      BY <3>1, <3>2 DEF AppendRecovered, mapVars, Terminal
  <2>3. CASE CompactSubmissions
    BY <2>3 DEF CompactSubmissions, mapVars, Interrupted
  <2>4. CASE CompactResults
    BY <2>4 DEF CompactResults, mapVars, Interrupted, Statuses, Terminal
  <2>5. CASE StartServing
    BY <2>5 DEF StartServing, logVars, RetainRecent
  <2>6. CASE StartCompaction \/ LoadMetadataFails
    BY <2>6 DEF StartCompaction, LoadMetadataFails, vars, mapVars, logVars
  <2> QED
    BY <2>1, <2>2, <2>3, <2>4, <2>5, <2>6 DEF Startup
<1>5. TypeOK'
  BY <1>1, <1>4 DEF TypeInv, TypeOK
<1> QED
  BY <1>2, <1>3, <1>5 DEF TypeInv

(* While it starts, the server adds to the files only results of recovered  *)
(* jobs, and drops only what a compaction does.                             *)
LEMMA StartupFiles ==
    ASSUME TypeInv, FilesInv, Startup
    PROVE  /\ submissions' \subseteq submissions
           /\ \/ results' = results
              \/ \E j \in Jobs : /\ phase = "recovering" /\ results[j] = "absent" /\ j \in submissions
                                 /\ results' = [results EXCEPT ![j] = jobs[j]]
              \/ \A j \in Jobs : results'[j] \in {results[j], "absent"}
           /\ phase # "serving"
<1>1. CASE \E j \in Jobs : AppendRecovered(j)
  BY <1>1 DEF AppendRecovered, FilesInv, Restored
<1>2. CASE CompactSubmissions
  <2>1. Interrupted(jobs) = {}
    BY <1>2 DEF CompactSubmissions, Enter, FilesInv, Restored, Interrupted, TypeInv, TypeOK, Terminal
  <2> QED
    BY <1>2, <2>1 DEF CompactSubmissions, Enter
<1>3. CASE CompactResults
  BY <1>3 DEF CompactResults, Enter, FilesInv, Restored
<1>4. CASE LoadMetadata \/ LoadMetadataFails \/ StartCompaction \/ StartServing
  BY <1>4 DEF LoadMetadata, LoadMetadataFails, StartCompaction, StartServing, Enter, vars, logVars
<1> QED
  BY <1>1, <1>2, <1>3, <1>4 DEF Startup
LEMMA LoadRestores ==
    ASSUME TypeInv, LoadMetadata
    PROVE  Restored'
<1> DEFINE S == Interrupted(Loaded)
<1>1. S = {j \in Jobs : results[j] = "absent" /\ j \in submissions}
  BY DEF Interrupted, Loaded, TypeInv, TypeOK, Terminal
<1>2. /\ phase' = "recovering" /\ recovered' = S /\ results' = results /\ submissions' = submissions
      /\ jobs' = [j \in Jobs |-> IF j \in S THEN "failed" ELSE Loaded[j]]
  BY DEF LoadMetadata, Enter, logVars
<1>3. \A j \in Jobs : jobs'[j] = IF j \in S THEN "failed" ELSE results[j]
  BY <1>1, <1>2 DEF Loaded
<1>4. submissions \subseteq Jobs
  BY DEF TypeInv, TypeOK
<1> HIDE DEF S
<1>5. submissions \subseteq Present(jobs)'
  BY <1>1, <1>3, <1>4 DEF Present
<1> QED
  BY <1>1, <1>2, <1>3, <1>5 DEF Restored

LEMMA StartupRestores ==
    ASSUME TypeInv, FilesInv, Startup
    PROVE  Restored' /\ phase' \in Phases
<1>0. Restored
  BY DEF FilesInv
<1>1. CASE LoadMetadata
  BY <1>1, LoadRestores DEF LoadMetadata, Enter, Phases
<1>2. CASE \E j \in Jobs : AppendRecovered(j)
  <2>1. PICK j \in Jobs : AppendRecovered(j)
    BY <1>2
  <2>2. /\ phase = "recovering" /\ phase' = phase /\ j \in recovered
        /\ results' = [results EXCEPT ![j] = jobs[j]]
        /\ recovered' = recovered \ {j} /\ jobs' = jobs /\ submissions' = submissions
    BY <2>1 DEF AppendRecovered, mapVars
  <2>3. \A k \in Jobs : results'[k] = IF k = j THEN jobs[j] ELSE results[k]
    BY <2>2 DEF TypeInv, TypeOK
  <2>4. Present(jobs)' = Present(jobs)
    BY <2>2 DEF Present
  <2> QED
    BY <1>0, <2>2, <2>3, <2>4 DEF Restored, Phases
<1>3. CASE StartCompaction
  <2>1. /\ recovered = {} /\ phase = "recovering" /\ UNCHANGED vars
        /\ phase' = IF MetadataRetentionLimit = 0 THEN "retain" ELSE "compact_submissions"
    BY <1>3 DEF StartCompaction, Enter
  <2>2. jobs' = jobs /\ results' = results /\ submissions' = submissions
    BY <2>1 DEF vars, mapVars, logVars
  <2>3. jobs = results
    BY <1>0, <2>1 DEF Restored, TypeInv, TypeOK
  <2>4. Present(jobs)' = Present(jobs)
    BY <2>2 DEF Present
  <2> QED
    BY <1>0, <2>1, <2>2, <2>3, <2>4, RecoveryAssumption DEF Restored, Phases
<1>4. CASE CompactSubmissions
  <2>1. /\ phase = "compact_submissions" /\ phase' = "compact_results"
        /\ jobs' = jobs /\ results' = results
        /\ submissions' = RecentRecords(jobs, MetadataRetentionLimit) \cap Interrupted(jobs)
    BY <1>4 DEF CompactSubmissions, Enter, mapVars
  <2>2. Interrupted(jobs) = {}
    BY <1>0, <2>1 DEF Restored, Interrupted, TypeInv, TypeOK, Terminal
  <2> QED
    BY <1>0, <2>1, <2>2 DEF Restored, Phases
<1>5. CASE CompactResults \/ StartServing \/ LoadMetadataFails
  BY <1>5 DEF CompactResults, StartServing, LoadMetadataFails, Enter, Restored, Phases
<1> QED
  BY <1>1, <1>2, <1>3, <1>4, <1>5 DEF Startup

LEMMA StartupKeepsFiles ==
    ASSUME TypeInv, FilesInv, Startup
    PROVE  FilesInv'
<1>1. UNCHANGED <<rpc, page, queue, wpc, wjob>>
  BY StartupFrame DEF handlerVars, workerVars
<1>2. phase # "serving" /\ AllQuiet
  BY StartupFiles DEF FilesInv
<1>3. AllQuiet'
  BY <1>1, <1>2 DEF AllQuiet
<1>4. NoLineYet'
  BY <1>1, StartupFiles DEF FilesInv, NoLineYet
<1>5. NoResultYet'
  <2> SUFFICES ASSUME NEW r \in Requests, rpc[r] \in HandlerSteps,
                      NEW i \in DOMAIN PagesOf[r], i >= page[r]
               PROVE  results'[PagesOf[r][i]] = "absent"
    BY <1>1 DEF NoResultYet
  <2>1. PagesOf[r][i] \in Jobs /\ results[PagesOf[r][i]] = "absent"
    BY PagesAssumption DEF FilesInv, NoResultYet
  <2>2. PagesOf[r][i] \notin submissions
    <3>1. rpc[r] = "start" /\ i \in Nat /\ page[r] \in Nat
      BY <1>2, PagesAssumption DEF AllQuiet, TypeInv, TypeOK
    <3> QED
      BY <3>1 DEF FilesInv, NoLineYet, Unwritten
  <2>3. CASE results' = results
    BY <2>1, <2>3
  <2>4. CASE \E j \in Jobs : j \in submissions /\ results' = [results EXCEPT ![j] = jobs[j]]
    BY <2>1, <2>2, <2>4 DEF TypeInv, TypeOK
  <2>5. CASE \A j \in Jobs : results'[j] \in {results[j], "absent"}
    BY <2>1, <2>5
  <2> QED
    BY <2>3, <2>4, <2>5, StartupFiles
<1>6. NoResultLine'
  <2>1. Undecided' = {} /\ \A w \in Workers : wpc'[w] = "init"
    BY <1>3 DEF Undecided, InQueue, AllQuiet
  <2> QED
    BY <2>1 DEF NoResultLine
<1> QED
  BY <1>3, <1>4, <1>5, <1>6, StartupRestores DEF FilesInv

LEMMA RunningKeepsFiles ==
    ASSUME TypeInv, OneOwner, FilesInv, Running
    PROVE  FilesInv'
<1>1. phase = "serving" /\ phase' = phase /\ recovered' = recovered
  BY DEF Running, recoveryVars
<1>2. NoLineYet' /\ NoResultYet' /\ NoResultLine'
  <2>1. CASE \E r \in Requests : Handler(r) \/ DropHandler(r)
    BY <2>1, HandlerKeepsLines, HandlerKeepsNoResult, HandlerKeepsResults DEF FilesInv, TypeInv
  <2>2. CASE \E w \in Workers : Worker(w)
    <3>1. PICK w \in Workers : Worker(w)
      BY <2>2
    <3>2. NoLineYet'
      BY <3>1, WorkerLogs, WorkerFrame DEF FilesInv, NoLineYet
    <3> QED
      BY <3>1, <3>2, WorkerKeepsNoResult, WorkerKeepsResults DEF FilesInv
  <2> QED
    BY <2>1, <2>2 DEF Running, Next
<1>3. Restored' /\ phase' \in Phases
  BY <1>1 DEF Restored, Phases
<1> QED
  BY <1>1, <1>2, <1>3 DEF FilesInv
(* A step that only adds a line forgets and rewrites nothing. *)
LEMMA LineAdded ==
    ASSUME TypeInv, submissions \subseteq submissions',
           \A j \in Jobs : results[j] # "absent" => results'[j] = results[j]
    PROVE  \A j \in Jobs : Forgotten(j) /\ Rewritten(j)
<1>1. Logged \subseteq Logged'
  BY DEF Logged, Present
<1> QED
  BY <1>1 DEF Forgotten, Rewritten

LEMMA RunningKeepsHistory ==
    ASSUME TypeInv, OneOwner, FilesInv, IsFiniteSet(Logged), Running
    PROVE  /\ \A j \in Jobs : Forgotten(j) /\ Rewritten(j)
           /\ IsFiniteSet(Logged')
<1> SUFFICES ASSUME NEW x,
                    submissions \subseteq submissions', submissions' \subseteq submissions \cup {x},
                    \A j \in Jobs : results[j] # "absent" => results'[j] = results[j],
                    \A j \in Jobs : j # x => results'[j] = results[j]
             PROVE  IsFiniteSet(Logged')
  <2> DEFINE One(x) ==
               /\ submissions \subseteq submissions' /\ submissions' \subseteq submissions \cup {x}
               /\ \A j \in Jobs : results[j] # "absent" => results'[j] = results[j]
               /\ \A j \in Jobs : j # x => results'[j] = results[j]
  <2>1. \E x : One(x)
    <3>1. ASSUME NEW r \in Requests, Handler(r) \/ DropHandler(r) PROVE One(CurrentJob(r))
      <4>1. TypeOK /\ rpc[r] \in HandlerSteps
        BY <3>1, HandlerRecords DEF TypeInv
      <4>2. results[CurrentJob(r)] = "absent"
        BY <4>1, CurrentPage DEF FilesInv, NoResultYet, CurrentJob, TypeOK
      <4>3. \A j \in Jobs \ {CurrentJob(r)} : results'[j] = results[j]
        BY <3>1, <4>1, HandlerRecords
      <4>4. submissions' \in {submissions, submissions \cup {CurrentJob(r)}}
        BY <3>1, <4>1, HandlerLogs
      <4> QED
        BY <4>2, <4>3, <4>4
    <3>2. ASSUME NEW w \in Workers, Worker(w) PROVE One(wjob[w])
      <4>1. submissions' = submissions /\ \A j \in Jobs \ {wjob[w]} : results'[j] = results[j]
        BY <3>2, WorkerLogs, WorkerRecords
      <4>2. results[wjob[w]] # "absent" => results' = results
        BY <3>2, WorkerLogs DEF FilesInv, NoResultLine
      <4> QED
        BY <4>1, <4>2
    <3> QED
      BY <3>1, <3>2 DEF Running, Next
  <2>2. \A j \in Jobs : Forgotten(j) /\ Rewritten(j)
    BY <2>1, LineAdded
  <2> QED
    BY <2>1, <2>2
<1>1. Logged' \subseteq Logged \cup {x}
  BY DEF Logged, Present
<1>2. IsFiniteSet(Logged \cup {x})
  BY FS_AddElement
<1> QED
  BY <1>1, <1>2, FS_Subset

(* A compaction drops only what enough later records supersede. *)
LEMMA CompactionKeepsHistory ==
    ASSUME TypeInv, FilesInv, IsFiniteSet(Logged), CompactResults
    PROVE  \A j \in Jobs : Forgotten(j) /\ Rewritten(j)
<1> DEFINE limit == MetadataRetentionLimit
           Kept == RecentRecords(jobs, limit)
           later(j) == Cardinality({k \in Present(results) : <<j, k>> \in older})
<1>1. /\ jobs = results /\ submissions = {} /\ limit > 0 /\ limit \in Nat
      /\ submissions' = submissions
  BY RecoveryAssumption DEF CompactResults, Enter, FilesInv, Restored
<1>2. Interrupted(jobs) = {}
  BY <1>1 DEF Interrupted, TypeInv, TypeOK, Terminal
<1>3. \A j \in Jobs : results'[j] = IF j \in Kept THEN results[j] ELSE "absent"
  BY <1>1, <1>2 DEF CompactResults
<1>4. Logged = Present(results) /\ Logged' = Present(results)'
  BY <1>1 DEF Logged
<1>5. ASSUME NEW j \in Present(results), j \notin Kept PROVE later(j) >= limit
  <2>1. ~(later(j) < limit)
    BY <1>1, <1>5 DEF RecentRecords
  <2>2. later(j) \in Nat
    BY <1>4, FS_Subset, FS_CardinalityType
  <2> HIDE DEF later
  <2> QED
    BY <1>1, <2>1, <2>2
<1> SUFFICES ASSUME NEW j \in Jobs PROVE Forgotten(j) /\ Rewritten(j)
  OBVIOUS
<1>6. CASE j \in Kept \/ results[j] = "absent"
  BY <1>3, <1>4, <1>6 DEF Forgotten, Rewritten, Present
<1>7. CASE j \notin Kept /\ results[j] # "absent"
  <2>1. later(j) >= limit
    BY <1>5, <1>7 DEF Present
  <2>2. Forgotten(j)
    BY <1>1, <1>4, <2>1 DEF Forgotten, NewerLogged
  <2>3. Superseded(j)
    BY <1>1, <2>1 DEF Superseded
  <2>4. Rewritten(j)
    BY <1>3, <1>7, <2>3 DEF Rewritten
  <2> QED
    BY <2>2, <2>4
<1> QED
  BY <1>6, <1>7

LEMMA StartupKeepsHistory ==
    ASSUME TypeInv, FilesInv, IsFiniteSet(Logged), Startup
    PROVE  /\ \A j \in Jobs : Forgotten(j) /\ Rewritten(j)
           /\ IsFiniteSet(Logged')
<1>1. IsFiniteSet(Logged')
  <2>1. submissions' \subseteq submissions /\ Present(results)' \subseteq Logged
    BY StartupFiles DEF Logged, Present, TypeInv, TypeOK
  <2>2. Logged' \subseteq Logged
    BY <2>1 DEF Logged
  <2> QED
    BY <2>2, FS_Subset
<1>2. CASE \E j \in Jobs : AppendRecovered(j)
  <2>1. PICK j \in Jobs : AppendRecovered(j)
    BY <1>2
  <2>2. results[j] = "absent" /\ submissions' = submissions
        /\ results' = [results EXCEPT ![j] = jobs[j]]
    BY <2>1 DEF AppendRecovered, FilesInv, Restored
  <2> QED
    BY <1>1, <2>2, LineAdded DEF TypeInv, TypeOK
<1>3. CASE CompactSubmissions
  <2>1. results' = results /\ submissions \subseteq Present(results)
    BY <1>3 DEF CompactSubmissions, Enter, FilesInv, Restored
  <2>2. Logged \subseteq Logged'
    BY <2>1 DEF Logged, Present
  <2> QED
    BY <1>1, <2>1, <2>2 DEF Forgotten, Rewritten
<1>4. CASE CompactResults
  BY <1>1, <1>4, CompactionKeepsHistory
<1>5. CASE LoadMetadata \/ LoadMetadataFails \/ StartCompaction \/ StartServing
  <2>1. submissions' = submissions /\ results' = results
    BY <1>5 DEF LoadMetadata, LoadMetadataFails, StartCompaction, StartServing, vars, logVars
  <2> QED
    BY <1>1, <2>1, LineAdded
<1> QED
  BY <1>2, <1>3, <1>4, <1>5 DEF Startup

LEMMA RecoveryInductive ==
    RecoveryInv /\ [RecoveryNext]_allVars
       => RecoveryInv' /\ \A j \in Jobs : Forgotten(j) /\ Rewritten(j)
<1> SUFFICES ASSUME RecoveryInv, [RecoveryNext]_allVars
             PROVE  RecoveryInv' /\ \A j \in Jobs : Forgotten(j) /\ Rewritten(j)
  OBVIOUS
<1> USE DEF RecoveryInv
<1>1. CASE Running
  <2>1. [Next]_vars
    BY <1>1 DEF Running
  <2>2. TypeInv' /\ OneOwner'
    BY <2>1, TypeInvInductive, OneOwnerInductive
  <2> QED
    BY <1>1, <2>2, RunningKeepsFiles, RunningKeepsHistory
<1>2. CASE Crash
  <2>1. submissions' = submissions /\ results' = results
    BY <1>2 DEF Crash
  <2>2. Logged' = Logged
    BY <2>1 DEF Logged, Present
  <2> QED
    BY <1>2, <2>1, <2>2, CrashKeepsTypes, CrashKeepsFiles, LineAdded
<1>3. CASE Startup
  BY <1>3, StartupKeepsTypes, StartupKeepsFiles, StartupKeepsHistory
<1>4. CASE UNCHANGED allVars
  <2>1. UNCHANGED vars /\ phase' = phase /\ recovered' = recovered
    BY <1>4 DEF allVars, recoveryVars
  <2>2. TypeInv' /\ OneOwner'
    BY <2>1, TypeInvInductive, OneOwnerInductive
  <2>3. UNCHANGED <<rpc, page, jobs, queue, submissions, results, wpc, wjob>>
    BY <2>1 DEF vars, handlerVars, mapVars, logVars, workerVars
  <2>4. FilesInv'
    BY <2>1, <2>3 DEF FilesInv, NoLineYet, NoResultYet, NoResultLine, Undecided, InQueue, AllQuiet, Restored, Present
  <2>5. Logged' = Logged
    BY <2>3 DEF Logged, Present
  <2> QED
    BY <2>2, <2>3, <2>4, <2>5, LineAdded
<1> QED
  BY <1>1, <1>2, <1>3, <1>4 DEF RecoveryNext

LEMMA RecoveryAtStart == InitRecovery => RecoveryInv
<1> SUFFICES ASSUME InitRecovery PROVE RecoveryInv
  OBVIOUS
<1> USE DEF InitRecovery
<1>1. TypeInv
  BY InitTypes
<1>2. OneOwner
  BY DEF Init, OneOwner, InFlight, InQueue, Held
<1>3. Logged = {}
  BY DEF Init, Logged, Present
<1>4. IsFiniteSet(Logged)
  BY <1>3, FS_EmptySet
<1>5. NoLineYet /\ NoResultYet
  BY PagesAssumption DEF Init, NoLineYet, NoResultYet
<1>6. NoResultLine
  BY DEF Init, NoResultLine, Undecided, InQueue
<1>7. phase \in Phases /\ phase = "serving" /\ Restored
  BY DEF Phases, Restored
<1> QED
  BY <1>1, <1>2, <1>4, <1>5, <1>6, <1>7 DEF RecoveryInv, FilesInv

LEMMA AlwaysRecoveryInv == RecoverySpec => []RecoveryInv
BY RecoveryAtStart, RecoveryInductive, PTL DEF RecoverySpec

(* Over any number of crashes, in whatever step of a life or of a recovery, *)
(* the two JSONL files keep the history: an outcome once written is never   *)
(* replaced by another, and an id that was logged is lost only when at      *)
(* least metadata_retention_limit later ones are there (load_jobs,          *)
(* compact_metadata, finish_job, enqueue_record).                           *)
THEOREM HistoryIsKept == RecoverySpec => HistoryKept
BY RecoveryAtStart, RecoveryInductive, PTL DEF RecoverySpec, HistoryKept
-----------------------------------------------------------------------------
(***************************************************************************)
(* The job counters start anew with every life                             *)
(***************************************************************************)
LivesCounted ==
    /\ crashes \in Nat
    /\ LifeCounts
    /\ crashes = 0 => phase = "serving" /\ SentCounts

LEMMA LivesCountedInductive == RecoveryInv /\ LivesCounted /\ [RecoveryNext]_allVars => LivesCounted'
<1> SUFFICES ASSUME RecoveryInv, LivesCounted, [RecoveryNext]_allVars PROVE LivesCounted'
  OBVIOUS
<1>1. CASE Running
  <2>1. [Next]_vars /\ phase' = phase /\ crashes' = crashes
    BY <1>1 DEF Running, recoveryVars
  <2> QED
    BY <2>1, LifeCountsInductive, SentCountsInductive DEF LivesCounted, RecoveryInv
<1>2. CASE Crash
  <2>1. crashes' \in Nat /\ crashes' # 0
    BY <1>2 DEF Crash, LivesCounted
  <2>2. /\ metrics'.started = 0 /\ metrics'.succeeded = 0 /\ metrics'.failed = 0
        /\ metrics'.timed_out = 0 /\ metrics'.restarts = 0
    BY <1>2 DEF Crash, Counters
  <2>3. Computing' = {}
    BY <1>2 DEF Crash, Computing
  <2>4. LifeCounts'
    BY <2>2, <2>3, FS_EmptySet DEF LifeCounts
  <2> QED
    BY <2>1, <2>4 DEF LivesCounted
<1>3. CASE Startup
  <2>1. phase # "serving" /\ crashes' = crashes
    BY <1>3, StartupFiles DEF RecoveryInv, Startup, LoadMetadata, LoadMetadataFails, AppendRecovered, StartCompaction, CompactSubmissions, CompactResults, StartServing
  <2>2. UNCHANGED <<metrics, wpc>>
    BY <1>3, StartupFrame DEF workerVars
  <2> QED
    BY <2>1, <2>2 DEF LivesCounted, LifeCounts, Computing
<1>4. CASE UNCHANGED allVars
  <2>1. [Next]_vars /\ phase' = phase /\ crashes' = crashes
    BY <1>4 DEF allVars, recoveryVars
  <2> QED
    BY <2>1, LifeCountsInductive, SentCountsInductive DEF LivesCounted, RecoveryInv
<1> QED
  BY <1>1, <1>2, <1>3, <1>4 DEF RecoveryNext

(* In each life every job that was started is counted succeeded, failed or  *)
(* is computing, and no time-out or panic goes without its restart; before  *)
(* the first crash every accepted job is counted too (AppMetrics,           *)
(* worker_loop).                                                            *)
THEOREM LivesCountJobs == RecoverySpec => []MetricsAcrossLives
<1>1. InitRecovery => LivesCounted
  BY MetricsAtStart DEF InitRecovery, LivesCounted, MetricsInv
<1>2. LivesCounted => MetricsAcrossLives
  BY DEF LivesCounted, LifeCounts, SentCounts, MetricsAcrossLives, MetricsBalance
<1> QED
  BY <1>1, <1>2, AlwaysRecoveryInv, LivesCountedInductive, PTL DEF RecoverySpec
-----------------------------------------------------------------------------
(***************************************************************************)
(* Outcomes over several lives                                             *)
(***************************************************************************)
(* Jobs whose outcome a worker has appended and still announces or cleans  *)
(* up after                                                                *)
Appended == {"notify", "cleanup", "retain"}

AppendedFirst ==
    \A w \in Workers : wpc[w] \in Appended => results[wjob[w]] = FinalStatus(w)

AnnouncedLogged ==
    \A j \in Jobs : notified[j] # "absent" =>
        \/ results[j] = notified[j]
        \/ results[j] = "absent" /\ j \notin submissions /\ Superseded(j)

DurableInv ==
    /\ OutcomeInv
    /\ NothingSentYet
    /\ StrictOrder
    /\ Ordered
    /\ AppendedFirst
    /\ AnnouncedLogged

(* No handler ended and left an active record behind. *)
NothingAbandoned ==
    \A r \in Requests : rpc[r] \in {"dropped", "internal_error"} =>
        jobs[CurrentJob(r)] \notin {"queued", "running"}

DecidedLogged ==
    \A j \in Jobs : jobs[j] \in Terminal =>
        results[j] # "absent" \/ \E w \in Workers : wpc[w] = "append" /\ wjob[w] = j

ServedInv ==
    /\ IsFiniteSet(Present(jobs))
    /\ ActiveHasOwner
    /\ NothingAbandoned
    /\ phase = "serving" => RetentionCap /\ DecidedLogged
    /\ phase = "retain" =>
         \A j \in RecentRecords(jobs, JobRetentionLimit) : results[j] = jobs[j]
(* A job stays superseded while the later results are there.                *)
LEMMA SupersededStays ==
    ASSUME NEW j, Superseded(j), IsFiniteSet(Present(results)'),
           \A k \in Present(results) :
              k \in Present(results)' /\ (<<j, k>> \in older => <<j, k>> \in older')
    PROVE  Superseded(j)'
<1> DEFINE L == {k \in Present(results) : <<j, k>> \in older}
           M == {k \in Present(results)' : <<j, k>> \in older'}
<1>1. IsFiniteSet(M) /\ L \subseteq M
  BY FS_Subset
<1>2. /\ Cardinality(L) <= Cardinality(M)
      /\ Cardinality(L) \in Nat /\ Cardinality(M) \in Nat
  BY <1>1, FS_Subset, FS_CardinalityType
<1>3. MetadataRetentionLimit > 0 /\ Cardinality(L) >= MetadataRetentionLimit
  BY DEF Superseded
<1>4. Cardinality(M) >= MetadataRetentionLimit
  <2> HIDE DEF L, M
  <2> QED
    BY <1>2, <1>3, RecoveryAssumption
<1> QED
  BY <1>3, <1>4 DEF Superseded

(* What a worker writes while it settles a job *)
LEMMA WorkerSettles ==
    ASSUME TypeInv, "append" \notin Faults, NEW w \in Workers, Worker(w)
    PROVE  /\ wpc[w] = "append" =>
                /\ wpc'[w] = "notify" /\ notified' = notified /\ jobs' = jobs
                /\ results' = [results EXCEPT ![wjob[w]] = FinalStatus(w)]
           /\ wpc[w] # "append" => results' = results
           /\ notified' # notified =>
                wpc[w] = "notify" /\ notified' = [notified EXCEPT ![wjob[w]] = FinalStatus(w)]
           /\ wpc'[w] \in Appended =>
                /\ wpc[w] \in {"append"} \cup Appended
                /\ wjob'[w] = wjob[w] /\ wres'[w] = wres[w]
<1> USE DEF TypeInv, TypeOK, Step, Appended
<1>1. CASE AppendResult(w)
  BY <1>1 DEF AppendResult, AppendFails, mapVars
<1>2. CASE SendWebhook(w)
  BY <1>2 DEF SendWebhook, logVars
<1>3. CASE CleanupArtifacts(w)
  BY <1>3 DEF CleanupArtifacts, logVars
<1>4. CASE RetainRecentJobs(w) \/ FinishRecord(w)
  <2>1. AfterFinish(w) \notin Appended
    BY DEF AfterFinish
  <2> QED
    BY <1>4, <2>1 DEF RetainRecentJobs, FinishRecord, logVars
<1>5. CASE ~(AppendResult(w) \/ SendWebhook(w) \/ CleanupArtifacts(w) \/ RetainRecentJobs(w) \/ FinishRecord(w))
  BY <1>5 DEF Worker, logVars, InitializeWorker, InitializeWorkerFails, Receive, MarkRunning, InferenceSucceeds, InferenceFails, InferencePanics, InferenceTimesOut, LateReturn, StopWorker
<1> QED
  BY <1>1, <1>2, <1>3, <1>4, <1>5

LEMMA HandlerKeepsAppended ==
    ASSUME TypeInv, OneOwner, AppendedFirst, NEW r \in Requests, Handler(r) \/ DropHandler(r)
    PROVE  AppendedFirst'
<1>1. UNCHANGED <<wpc, wjob, wres>>
  BY HandlerKeepsWorkers
<1>2. \A j \in Jobs \ {CurrentJob(r)} : results'[j] = results[j]
  BY HandlerRecords DEF TypeInv
<1>3. CurrentJob(r) \notin SentJobs
  BY HandlerFrame, CurrentJobUnsent DEF TypeInv
<1> SUFFICES ASSUME NEW w \in Workers, wpc[w] \in Appended
             PROVE  results'[wjob[w]] = FinalStatus(w)
  BY <1>1 DEF AppendedFirst, FinalStatus
<1>4. wjob[w] \in Jobs /\ wjob[w] \in SentJobs
  BY BusySent DEF Appended, Finishing
<1> QED
  BY <1>2, <1>3, <1>4 DEF AppendedFirst

LEMMA WorkerKeepsAppended ==
    ASSUME TypeInv, OneOwner, AppendedFirst, "append" \notin Faults, NEW w \in Workers, Worker(w)
    PROVE  AppendedFirst'
<1>1. /\ \A j \in Jobs \ {wjob[w]} : results'[j] = results[j]
      /\ \A v \in Workers \ {w} : wpc'[v] = wpc[v] /\ wjob'[v] = wjob[v] /\ wres'[v] = wres[v]
  BY WorkerRecords
<1> SUFFICES ASSUME NEW v \in Workers, wpc'[v] \in Appended
             PROVE  results'[wjob'[v]] = FinalStatus(v)'
  BY DEF AppendedFirst
<1>2. CASE v = w
  <2>1. wpc[w] \in {"append"} \cup Appended /\ wjob'[w] = wjob[w] /\ FinalStatus(w)' = FinalStatus(w)
    BY <1>2, WorkerSettles DEF FinalStatus
  <2>2. wjob[w] \in Jobs
    BY <2>1, BusyJob DEF Appended, Finishing, TypeInv
  <2>3. CASE wpc[w] = "append"
    BY <1>2, <2>1, <2>2, <2>3, WorkerSettles DEF TypeInv, TypeOK
  <2>4. CASE wpc[w] \in Appended
    <3>1. results' = results
      BY <2>4, WorkerSettles DEF Appended
    <3> QED
      BY <1>2, <2>1, <2>4, <3>1 DEF AppendedFirst
  <2> QED
    BY <2>1, <2>3, <2>4
<1>3. CASE v # w
  <2>1. wpc[v] \in Appended /\ wjob'[v] = wjob[v] /\ FinalStatus(v)' = FinalStatus(v)
    BY <1>1, <1>3 DEF FinalStatus
  <2>2. wjob[v] \in Jobs /\ wjob[v] # wjob[w]
    BY <1>3, <2>1, BusySent DEF OneOwner, Appended, Finishing
  <2> QED
    BY <1>1, <2>1, <2>2 DEF AppendedFirst
<1> QED
  BY <1>2, <1>3

LEMMA HandlerKeepsAnnounced ==
    ASSUME TypeInv, OneOwner, DurableInv, IsFiniteSet(Present(results)'),
           NEW r \in Requests, Handler(r) \/ DropHandler(r)
    PROVE  AnnouncedLogged'
<1> DEFINE c == CurrentJob(r)
<1>1. TypeOK /\ notified' = notified /\ rpc[r] \in HandlerSteps
  BY HandlerKeepsWorkers, HandlerRecords DEF TypeInv
<1>2. /\ \A k \in Jobs \ {c} : results'[k] = results[k]
      /\ submissions' \subseteq submissions \cup {c}
  BY <1>1, HandlerRecords, HandlerLogs
<1>3. c \notin SentJobs /\ c \in Jobs
  BY <1>1, HandlerFrame, CurrentJobUnsent, CurrentPage
<1>4. results[c] = "absent"
  BY <1>1, CurrentPage DEF DurableInv, OutcomeInv, NoResultYet, CurrentJob, TypeOK
<1> SUFFICES ASSUME NEW j \in Jobs, notified[j] # "absent"
             PROVE  \/ results'[j] = notified[j]
                    \/ results'[j] = "absent" /\ j \notin submissions' /\ Superseded(j)'
  BY <1>1 DEF AnnouncedLogged
<1>5. j \in SentJobs /\ j # c /\ results'[j] = results[j]
  BY <1>2, <1>3 DEF DurableInv, OutcomeInv, UnsentUnannounced
<1>6. CASE results[j] = notified[j]
  BY <1>5, <1>6
<1>7. CASE results[j] = "absent" /\ j \notin submissions /\ Superseded(j)
  <2>1. Present(results) \subseteq Present(results)'
    BY <1>2, <1>4 DEF Present
  <2>2. \A k \in Present(results) : <<j, k>> \in older => <<j, k>> \in older'
    <3>1. CASE older' = older
      BY <3>1
    <3>2. CASE older' = Stamped(older, c)
      BY <1>5, <3>2 DEF Stamped
    <3>3. CASE PrepareSubmission(r)
      <4>1. older' = PagesStamped(older, r) /\ rpc[r] = "prepare"
        BY <3>3 DEF PrepareSubmission, Go
      <4>2. page[r] = 1
        BY <4>1 DEF DurableInv, NothingSentYet
      <4>3. \A i \in DOMAIN PagesOf[r] : ~IsSent(r, i)
        BY <4>1, <4>2, PagesAssumption DEF IsSent
      <4>4. j \notin PageIds(r)
        BY <1>5, <4>3, SentByItsHandler DEF PageIds
      <4> QED
        BY <4>1, <4>4 DEF PagesStamped
    <3>4. PrepareSubmission(r) \/ older' = older \/ older' = Stamped(older, c)
      BY DEF Handler, mapVars, EnsureWorkersReady, RefuseSubmission, EnsureQueueHasCapacity, CheckFull, InsertRecord, AppendSubmission, AppendSubmissionFails, TrySend, TrySendFails, RollbackUnqueued, PersistUnqueued, DropHandler
    <3> QED
      BY <3>1, <3>2, <3>3, <3>4
  <2>3. Superseded(j)'
    BY <1>7, <2>1, <2>2, SupersededStays
  <2> QED
    BY <1>2, <1>5, <1>7, <2>3
<1> QED
  BY <1>6, <1>7 DEF DurableInv, AnnouncedLogged

LEMMA WorkerKeepsAnnounced ==
    ASSUME TypeInv, OneOwner, DurableInv, NoResultLine, IsFiniteSet(Present(results)'),
           "append" \notin Faults, NEW w \in Workers, Worker(w)
    PROVE  AnnouncedLogged'
<1> DEFINE d == wjob[w]
<1>1. /\ \A k \in Jobs \ {d} : results'[k] = results[k] /\ notified'[k] = notified[k]
      /\ submissions' = submissions
  BY WorkerRecords, WorkerFiles
<1>2. \A k \in Jobs : results[k] # "absent" => results'[k] = results[k]
  <2>1. results[d] # "absent" => results' = results
    BY WorkerSettles DEF NoResultLine
  <2> QED
    BY <1>1, <2>1
<1> SUFFICES ASSUME NEW j \in Jobs, notified'[j] # "absent"
             PROVE  \/ results'[j] = notified'[j]
                    \/ results'[j] = "absent" /\ j \notin submissions /\ Superseded(j)'
  BY <1>1 DEF AnnouncedLogged
<1>3. CASE notified'[j] # notified[j]
  <2>1. /\ wpc[w] = "notify" /\ j = d /\ notified' = [notified EXCEPT ![d] = FinalStatus(w)]
        /\ results' = results
    BY <1>1, <1>3, WorkerSettles
  <2>2. notified'[j] = FinalStatus(w) /\ results[j] = FinalStatus(w)
    BY <2>1 DEF TypeInv, TypeOK, DurableInv, AppendedFirst, Appended
  <2> QED
    BY <2>1, <2>2
<1>4. CASE notified'[j] = notified[j] /\ results[j] = notified[j]
  BY <1>2, <1>4
<1>5. CASE /\ notified'[j] = notified[j]
           /\ results[j] = "absent" /\ j \notin submissions /\ Superseded(j)
  <2>1. CASE results'[j] # "absent"
    <3>1. j = d /\ wpc[w] = "append" /\ results'[j] = FinalStatus(w)
      BY <1>1, <1>5, <2>1, WorkerSettles DEF TypeInv, TypeOK
    <3>2. notified[j] \in {"absent", FinalStatus(w)}
      BY <3>1 DEF DurableInv, OutcomeInv, DecidedByWorker, Settling
    <3> QED
      BY <1>5, <3>1, <3>2
  <2>2. CASE results'[j] = "absent"
    <3>1. Present(results) \subseteq Present(results)'
      BY <1>2 DEF Present
    <3>2. older' = older \/ (d \in Jobs /\ older' = Stamped(older, d) /\ d \in Undecided)
      <4>1. CASE MarkRunning(w) \/ FinishRecord(w)
        <5>1. d \in Jobs /\ d \in Undecided /\ (older' = older \/ older' = Stamped(older, d))
          BY <4>1, BusyJob DEF MarkRunning, FinishRecord, Step, Undecided, mapVars, Finishing, TypeInv
        <5> QED
          BY <5>1
      <4>2. CASE ~(MarkRunning(w) \/ FinishRecord(w))
        BY <4>2 DEF Worker, mapVars, InitializeWorker, InitializeWorkerFails, Receive, InferenceSucceeds, InferenceFails, InferencePanics, InferenceTimesOut, AppendResult, SendWebhook, CleanupArtifacts, RetainRecentJobs, LateReturn, StopWorker
      <4> QED
        BY <4>1, <4>2
    <3>3. j \notin Undecided
      BY <1>5 DEF DurableInv, OutcomeInv, NoOutcomeYet
    <3>4. \A k \in Present(results) : <<j, k>> \in older => <<j, k>> \in older'
      BY <3>2, <3>3 DEF Stamped
    <3>5. Superseded(j)'
      BY <1>5, <3>1, <3>4, SupersededStays
    <3> QED
      BY <1>5, <2>2, <3>5
  <2> QED
    BY <2>1, <2>2
<1> QED
  BY <1>3, <1>4, <1>5 DEF DurableInv, AnnouncedLogged

LEMMA RunningKeepsDurable ==
    ASSUME RecoveryInv, RecoveryInv', DurableInv, "append" \notin Faults, Running
    PROVE  DurableInv'
<1>1. /\ TypeInv /\ OneOwner /\ TypeOK /\ NoResultLine /\ IsFiniteSet(Present(results)')
      /\ OutcomeInv /\ NothingSentYet /\ StrictOrder /\ Ordered /\ AppendedFirst
  <2>1. Present(results)' \subseteq Logged'
    BY DEF Logged
  <2> QED
    BY <2>1, FS_Subset DEF RecoveryInv, TypeInv, FilesInv, DurableInv
<1>2. ASSUME NEW r \in Requests, Handler(r) \/ DropHandler(r) PROVE DurableInv'
  <2>1. OutcomeInv'
    BY <1>1, <1>2, HandlerKeepsOutcomes
  <2>2. NothingSentYet' /\ StrictOrder' /\ Ordered'
    BY <1>1, <1>2, HandlerPlaces, HandlerKeepsOrder
  <2>3. AppendedFirst' /\ AnnouncedLogged'
    BY <1>1, <1>2, HandlerKeepsAppended, HandlerKeepsAnnounced
  <2> QED
    BY <2>1, <2>2, <2>3 DEF DurableInv
<1>3. ASSUME NEW w \in Workers, Worker(w) PROVE DurableInv'
  <2>1. OutcomeInv' /\ StrictOrder' /\ Ordered'
    BY <1>1, <1>3, WorkerKeepsOutcomes, WorkerKeepsOrder
  <2>2. NothingSentYet'
    BY <1>1, <1>3, WorkerFrame DEF NothingSentYet
  <2>3. AppendedFirst' /\ AnnouncedLogged'
    BY <1>1, <1>3, WorkerKeepsAppended, WorkerKeepsAnnounced
  <2> QED
    BY <2>1, <2>2, <2>3 DEF DurableInv
<1> QED
  BY <1>2, <1>3 DEF Running, Next

(* Where no handler is past its first step and no worker has a job, the     *)
(* outcomes are those of the records.                                       *)
LEMMA QuietOutcomes ==
    ASSUME OutcomeInv, AllQuiet', UNCHANGED <<page, notified>>, SentJobs' = SentJobs,
           NoResultYet', FreshRecords', \A j \in Jobs : AgreeOn(j)'
    PROVE  OutcomeInv'
<1>1. UnsentUnannounced'
  BY DEF OutcomeInv, UnsentUnannounced
<1>2. Undecided' = {} /\ \A w \in Workers : wpc'[w] = "init"
  BY DEF Undecided, InQueue, AllQuiet
<1>3. NoOutcomeYet' /\ DecidedByWorker'
  BY <1>2 DEF NoOutcomeYet, DecidedByWorker, Settling
<1> QED
  BY <1>1, <1>3 DEF OutcomeInv

LEMMA CrashKeepsDurable ==
    ASSUME RecoveryInv, RecoveryInv', DurableInv, Crash
    PROVE  DurableInv'
<1>1. /\ TypeInv /\ TypeOK /\ OneOwner /\ SentJobs' = SentJobs /\ AllQuiet'
      /\ NoResultYet' /\ IsFiniteSet(Present(results)')
      /\ OutcomeInv /\ NothingSentYet /\ StrictOrder /\ Ordered /\ AnnouncedLogged
  <2>1. Present(results)' \subseteq Logged'
    BY DEF Logged
  <2> QED
    BY <2>1, FS_Subset, CrashKeepsTypes DEF RecoveryInv, TypeInv, FilesInv, DurableInv
<1>2. UNCHANGED <<page, older, submissions, results, notified>>
  BY DEF Crash
<1>3. \A r \in Requests : rpc'[r] \in HandlerSteps => rpc[r] = "start" /\ rpc'[r] = "start"
  BY <1>1 DEF Crash, TypeOK, HandlerSteps
<1>4. \A j \in Jobs : jobs'[j] = "absent"
  BY DEF Crash
<1>5. FreshRecords'
  BY <1>4, PagesAssumption DEF FreshRecords
<1>6. ASSUME NEW j \in Jobs PROVE AgreeOn(j)'
  <2>1. PICK f \in Terminal : {jobs[j], results[j], notified[j]} \cap Terminal \subseteq {f}
    BY <1>1 DEF OutcomeInv, AgreeOn
  <2>2. {jobs'[j], results'[j], notified'[j]} \cap Terminal \subseteq {f}
    BY <1>2, <1>4, <2>1 DEF Terminal
  <2> QED
    BY <2>2 DEF AgreeOn
<1>7. OutcomeInv'
  BY <1>1, <1>2, <1>5, <1>6, QuietOutcomes
<1>8. NothingSentYet'
  BY <1>1, <1>2, <1>3 DEF NothingSentYet, HandlerSteps
<1>9. Known' \subseteq Known
  <2>1. {s \in Requests : rpc'[s] \in Prepared} = {}
    BY <1>3 DEF Prepared, HandlerSteps
  <2>2. Present(jobs)' = {} /\ Present(results)' = Present(results)
    BY <1>2, <1>4 DEF Present
  <2> QED
    BY <1>1, <1>2, <2>1, <2>2 DEF Known
<1>10. StrictOrder' /\ Ordered'
  BY <1>1, <1>2, <1>9 DEF StrictOrder, Ordered
<1>11. AppendedFirst'
  BY <1>1 DEF AllQuiet, AppendedFirst, Appended
<1>12. AnnouncedLogged'
  BY <1>1, <1>2 DEF AnnouncedLogged, Superseded, Present
<1> QED
  BY <1>7, <1>8, <1>10, <1>11, <1>12 DEF DurableInv

(* load_jobs gives the recovered records new times, one after the other.    *)
LEMMA RecoveredOrders ==
    ASSUME TypeOK, StrictOrder, Ordered, NEW S \in SUBSET Jobs, StampedInSomeOrder(S),
           Known' \subseteq Known
    PROVE  StrictOrder' /\ Ordered'
<1>0. PICK rank \in [S -> 1..Cardinality(S)] :
        /\ \A a, b \in S : rank[a] = rank[b] => a = b
        /\ older' = {p \in older : p[1] \notin S}
                      \cup ((Jobs \ S) \X S)
                      \cup {p \in S \X S : rank[p[1]] < rank[p[2]]}
  BY DEF StampedInSomeOrder
<1>1. \A a, b \in Jobs : <<a, b>> \in older' <=>
        \/ a \notin S /\ <<a, b>> \in older
        \/ a \notin S /\ b \in S
        \/ a \in S /\ b \in S /\ rank[a] < rank[b]
  BY <1>0
<1>2. \A a \in S : rank[a] \in Int
  BY <1>0
<1>3. Known \subseteq Jobs
  BY KnownJobs
<1>4. StrictOrder'
  BY <1>1, <1>2 DEF StrictOrder
<1>5. \A a, b \in S : a # b => rank[a] < rank[b] \/ rank[b] < rank[a]
  BY <1>0, <1>2
<1>6. Ordered'
  BY <1>1, <1>3, <1>5 DEF Ordered
<1> QED
  BY <1>4, <1>6

LEMMA StartupKnows ==
    ASSUME TypeInv, FilesInv, Startup
    PROVE  Known' \subseteq Known
<1>1. rpc' = rpc /\ SentJobs' = SentJobs
  BY StartupFrame DEF handlerVars, SentJobs, IsSent
<1>2. submissions' \subseteq submissions /\ Present(results)' \subseteq Present(results) \cup submissions
  BY StartupFiles DEF Present, TypeInv, TypeOK
<1>3. Present(jobs)' \subseteq Present(jobs) \cup submissions \cup Present(results)
  <2>1. CASE LoadMetadata
    <3>1. jobs' = [j \in Jobs |-> IF j \in Interrupted(Loaded) THEN "failed" ELSE Loaded[j]]
      BY <2>1 DEF LoadMetadata
    <3>2. \A j \in Jobs : Loaded[j] # "absent" \/ j \in Interrupted(Loaded)
                            => j \in submissions \cup Present(results)
      BY DEF Loaded, Interrupted, Present
    <3> QED
      BY <3>1, <3>2 DEF Present
  <2>2. CASE jobs' = jobs \/ jobs' = RetainRecent(jobs)
    BY <2>2 DEF RetainRecent, RecentRecords, Present
  <2> QED
    BY <2>1, <2>2 DEF Startup, LoadMetadataFails, AppendRecovered, StartCompaction, CompactSubmissions, CompactResults, StartServing, vars, mapVars
<1>4. UNION {PageIds(r) : r \in {s \in Requests : rpc'[s] \in Prepared}}
        = UNION {PageIds(r) : r \in {s \in Requests : rpc[s] \in Prepared}}
  BY <1>1
<1> QED
  BY <1>1, <1>2, <1>3, <1>4 DEF Known

LEMMA StartupKeepsOrder ==
    ASSUME TypeInv, FilesInv, StrictOrder, Ordered, Startup
    PROVE  StrictOrder' /\ Ordered'
<1>1. TypeOK /\ Known' \subseteq Known
  BY StartupKnows DEF TypeInv
<1>2. CASE LoadMetadata
  <2>1. Interrupted(Loaded) \in SUBSET Jobs /\ StampedInSomeOrder(Interrupted(Loaded))
    BY <1>2 DEF LoadMetadata, Interrupted
  <2> QED
    BY <1>1, <2>1, RecoveredOrders
<1>3. CASE older' = older
  BY <1>1, <1>3 DEF StrictOrder, Ordered
<1> QED
  BY <1>2, <1>3 DEF Startup, LoadMetadataFails, AppendRecovered, StartCompaction, CompactSubmissions, CompactResults, StartServing, vars, mapVars

(* A start takes the outcomes from the files, and fails only records of     *)
(* which there was none.                                                    *)
LEMMA StartupKeepsOutcomes ==
    ASSUME TypeInv, FilesInv, FilesInv', OutcomeInv, AnnouncedLogged, Startup
    PROVE  OutcomeInv'
<1>1. /\ UNCHANGED <<rpc, page, notified>> /\ SentJobs' = SentJobs /\ AllQuiet /\ AllQuiet'
      /\ NoResultYet'
  <2>1. phase # "serving" /\ AllQuiet
    BY StartupFiles DEF FilesInv
  <2>2. UNCHANGED <<rpc, page, notified, wpc, queue>>
    BY StartupFrame DEF handlerVars, workerVars
  <2> QED
    BY <2>1, <2>2 DEF SentJobs, IsSent, AllQuiet, FilesInv
<1>2. CASE LoadMetadata
  <2>1. /\ \A j \in Jobs : jobs'[j] = IF j \in Interrupted(Loaded) THEN "failed" ELSE Loaded[j]
        /\ results' = results
    BY <1>2 DEF LoadMetadata, logVars
  <2>2. \A j \in Jobs : /\ results[j] # "absent" => jobs'[j] = results[j]
                        /\ results[j] = "absent" /\ j \in submissions => jobs'[j] = "failed"
                        /\ results[j] = "absent" /\ j \notin submissions => jobs'[j] = "absent"
    BY <2>1 DEF Interrupted, Loaded, TypeInv, TypeOK, Terminal
  <2>3. FreshRecords'
    <3> SUFFICES ASSUME NEW r \in Requests, rpc[r] \in HandlerSteps,
                        NEW i \in DOMAIN PagesOf[r], i >= page[r]
                 PROVE  jobs'[PagesOf[r][i]] = "absent"
      BY <1>1 DEF FreshRecords
    <3>1. rpc[r] = "start" /\ i \in Nat /\ page[r] \in Nat /\ PagesOf[r][i] \in Jobs
      BY <1>1, PagesAssumption DEF AllQuiet, TypeInv, TypeOK
    <3>2. PagesOf[r][i] \notin submissions /\ results[PagesOf[r][i]] = "absent"
      BY <3>1 DEF FilesInv, NoLineYet, NoResultYet, Unwritten
    <3> QED
      BY <2>2, <3>1, <3>2
  <2>4. ASSUME NEW j \in Jobs PROVE AgreeOn(j)'
    <3>1. PICK f \in Terminal : {jobs[j], results[j], notified[j]} \cap Terminal \subseteq {f}
      BY DEF OutcomeInv, AgreeOn
    <3>2. CASE results[j] # "absent" \/ j \notin submissions
      <4>1. {jobs'[j], results'[j], notified'[j]} \cap Terminal \subseteq {f}
        BY <1>1, <2>1, <2>2, <3>1, <3>2 DEF Terminal
      <4> QED
        BY <4>1 DEF AgreeOn
    <3>3. CASE results[j] = "absent" /\ j \in submissions
      <4>1. notified[j] = "absent"
        BY <3>3 DEF AnnouncedLogged
      <4>2. {jobs'[j], results'[j], notified'[j]} \cap Terminal \subseteq {"failed"}
        BY <1>1, <2>1, <2>2, <3>3, <4>1 DEF Terminal
      <4> QED
        BY <4>2 DEF AgreeOn, Terminal
    <3> QED
      BY <3>2, <3>3
  <2> QED
    BY <1>1, <2>3, <2>4, QuietOutcomes
<1>3. CASE ~LoadMetadata
  <2>1. \A j \in Jobs : jobs'[j] \in {jobs[j], "absent"}
    BY <1>3 DEF Startup, LoadMetadataFails, AppendRecovered, StartCompaction, CompactSubmissions, CompactResults, StartServing, vars, mapVars, RetainRecent
  <2>2. \A j \in Jobs : results'[j] \in {jobs[j], results[j], "absent"}
    BY StartupFiles DEF TypeInv, TypeOK
  <2>3. FreshRecords'
    BY <1>1, <2>1, PagesAssumption DEF OutcomeInv, FreshRecords
  <2>4. ASSUME NEW j \in Jobs PROVE AgreeOn(j)'
    <3>1. PICK f \in Terminal : {jobs[j], results[j], notified[j]} \cap Terminal \subseteq {f}
      BY DEF OutcomeInv, AgreeOn
    <3>2. {jobs'[j], results'[j], notified'[j]} \cap Terminal \subseteq {f}
      BY <1>1, <2>1, <2>2, <3>1 DEF Terminal
    <3> QED
      BY <3>2 DEF AgreeOn
  <2> QED
    BY <1>1, <2>3, <2>4, QuietOutcomes
<1> QED
  BY <1>2, <1>3

(* A compaction drops an announced outcome only for later ones that it      *)
(* keeps, and a start forgets nothing else.                                 *)
LEMMA CompactionKeepsAnnounced ==
    ASSUME TypeInv, FilesInv, DurableInv, IsFiniteSet(Logged), CompactResults
    PROVE  AnnouncedLogged'
<1> DEFINE limit == MetadataRetentionLimit
           Kept == RecentRecords(jobs, limit)
<1>1. /\ jobs = results /\ submissions = {} /\ limit > 0 /\ limit \in Nat
      /\ UNCHANGED <<submissions, older, notified>>
  BY RecoveryAssumption DEF CompactResults, Enter, FilesInv, Restored, mapVars
<1>2. Interrupted(jobs) = {}
  BY <1>1 DEF Interrupted, TypeInv, TypeOK, Terminal
<1>3. \A j \in Jobs : results'[j] = IF j \in Kept THEN results[j] ELSE "absent"
  BY <1>1, <1>2 DEF CompactResults
<1>4. /\ Kept \subseteq Present(results) /\ Present(results)' = Kept /\ Present(jobs) = Present(results)
      /\ Kept \subseteq Jobs
  BY <1>1, <1>3 DEF RecentRecords, Present
<1>5. /\ IsFiniteSet(Present(jobs)) /\ IsFiniteSet(Kept)
      /\ TypeOK /\ StrictOrder /\ Ordered
  BY <1>4, FS_Subset DEF Logged, TypeInv, DurableInv
<1> SUFFICES ASSUME NEW j \in Jobs, notified[j] # "absent"
             PROVE  \/ results'[j] = notified[j]
                    \/ results'[j] = "absent" /\ j \notin submissions /\ Superseded(j)'
  BY <1>1 DEF AnnouncedLogged
<1>6. CASE j \in Kept
  <2>1. results'[j] = results[j] /\ results[j] # "absent"
    BY <1>3, <1>4, <1>6 DEF Present
  <2> QED
    BY <2>1 DEF DurableInv, AnnouncedLogged
<1>7. CASE j \notin Kept
  <2>1. results'[j] = "absent" /\ j \notin submissions
    BY <1>1, <1>3, <1>7
  <2>2. Cardinality(LaterRecords(j)) >= limit
    <3>1. CASE results[j] # "absent"
      <4>1. ~(Cardinality(LaterRecords(j)) < limit)
        BY <1>1, <1>7, <3>1 DEF RecentRecords, LaterRecords, Present
      <4>2. Cardinality(LaterRecords(j)) \in Nat
        BY <1>5, LaterTells
      <4> QED
        BY <1>1, <4>1, <4>2
    <3>2. CASE results[j] = "absent"
      <4>1. Superseded(j)
        BY <3>2 DEF DurableInv, AnnouncedLogged
      <4> QED
        BY <1>4, <4>1 DEF Superseded, LaterRecords
    <3> QED
      BY <3>1, <3>2
  <2>3. j \in Known
    BY DEF DurableInv, OutcomeInv, UnsentUnannounced, Known
  <2>4. Kept \subseteq LaterRecords(j) /\ Cardinality(Kept) >= limit
    BY <1>1, <1>5, <2>2, <2>3, RecentRecordsFill
  <2>5. {k \in Present(results)' : <<j, k>> \in older'} = Kept
    BY <1>1, <1>4, <2>4 DEF LaterRecords
  <2>6. Superseded(j)'
    BY <1>1, <2>4, <2>5 DEF Superseded
  <2> QED
    BY <2>1, <2>6
<1> QED
  BY <1>6, <1>7

LEMMA StartupKeepsAnnounced ==
    ASSUME TypeInv, FilesInv, DurableInv, IsFiniteSet(Logged), IsFiniteSet(Logged'), Startup
    PROVE  AnnouncedLogged'
<1>1. notified' = notified /\ IsFiniteSet(Present(results)')
  <2>1. Present(results)' \subseteq Logged'
    BY DEF Logged
  <2> QED
    BY <2>1, StartupFrame, FS_Subset
<1>2. CASE LoadMetadata
  <2> DEFINE S == Interrupted(Loaded)
  <2>1. /\ S = {j \in Jobs : results[j] = "absent" /\ j \in submissions}
        /\ UNCHANGED <<submissions, results>>
    BY <1>2 DEF LoadMetadata, logVars, Interrupted, Loaded, TypeInv, TypeOK, Terminal
  <2>2. \A j, k \in Jobs : j \notin S /\ <<j, k>> \in older => <<j, k>> \in older'
    BY <1>2 DEF LoadMetadata, StampedInSomeOrder
  <2> SUFFICES ASSUME NEW j \in Jobs, notified[j] # "absent"
               PROVE  \/ results[j] = notified[j]
                      \/ results[j] = "absent" /\ j \notin submissions /\ Superseded(j)'
    BY <1>1, <2>1 DEF AnnouncedLogged
  <2>3. CASE results[j] = "absent" /\ j \notin submissions /\ Superseded(j)
    <3>1. \A k \in Present(results) :
             k \in Present(results)' /\ (<<j, k>> \in older => <<j, k>> \in older')
      BY <2>1, <2>2, <2>3 DEF Present
    <3>2. Superseded(j)'
      BY <1>1, <2>3, <3>1, SupersededStays
    <3> QED
      BY <2>3, <3>2
  <2> QED
    BY <2>3 DEF DurableInv, AnnouncedLogged
<1>3. CASE \E k \in Jobs : AppendRecovered(k)
  <2>1. PICK k \in Jobs : AppendRecovered(k)
    BY <1>3
  <2>2. /\ results' = [results EXCEPT ![k] = jobs[k]] /\ results[k] = "absent" /\ k \in submissions
        /\ UNCHANGED <<submissions, older>>
    BY <2>1 DEF AppendRecovered, mapVars, FilesInv, Restored
  <2>3. \A j \in Jobs : j # k => results'[j] = results[j]
    BY <2>2 DEF TypeInv, TypeOK
  <2>4. notified[k] = "absent"
    BY <2>2 DEF DurableInv, AnnouncedLogged
  <2>5. Present(results) \subseteq Present(results)'
    BY <2>2, <2>3 DEF Present
  <2>6. ASSUME NEW j \in Jobs, Superseded(j) PROVE Superseded(j)'
    BY <1>1, <2>2, <2>5, <2>6, SupersededStays
  <2> QED
    BY <1>1, <2>2, <2>3, <2>4, <2>6 DEF DurableInv, AnnouncedLogged
<1>4. CASE CompactResults
  BY <1>4, CompactionKeepsAnnounced
<1>5. CASE LoadMetadataFails \/ StartCompaction \/ CompactSubmissions \/ StartServing
  <2>1. UNCHANGED <<results, older>> /\ submissions' \subseteq submissions
    BY <1>5, StartupFiles DEF LoadMetadataFails, StartCompaction, CompactSubmissions, StartServing, vars, mapVars, logVars
  <2>2. \A j \in Jobs : Superseded(j) => Superseded(j)'
    BY <2>1 DEF Superseded, Present
  <2> QED
    BY <1>1, <2>1, <2>2 DEF DurableInv, AnnouncedLogged
<1> QED
  BY <1>2, <1>3, <1>4, <1>5 DEF Startup

LEMMA DurableInductive ==
    ASSUME "append" \notin Faults
    PROVE  RecoveryInv /\ DurableInv /\ RecoveryInv' /\ [RecoveryNext]_allVars => DurableInv'
<1> SUFFICES ASSUME RecoveryInv, RecoveryInv', DurableInv, [RecoveryNext]_allVars
             PROVE  DurableInv'
  OBVIOUS
<1>1. CASE Running
  BY <1>1, RunningKeepsDurable
<1>2. CASE Crash
  BY <1>2, CrashKeepsDurable
<1>3. CASE Startup
  <2>1. OutcomeInv' /\ StrictOrder' /\ Ordered' /\ AnnouncedLogged'
    BY <1>3, StartupKeepsOutcomes, StartupKeepsOrder, StartupKeepsAnnounced DEF RecoveryInv, DurableInv
  <2>2. UNCHANGED <<rpc, page>> /\ AllQuiet'
    <3>1. phase # "serving" /\ UNCHANGED <<rpc, page, wpc, queue>>
      BY <1>3, StartupFiles, StartupFrame DEF RecoveryInv, handlerVars, workerVars
    <3> QED
      BY <3>1 DEF RecoveryInv, FilesInv, AllQuiet
  <2>3. NothingSentYet' /\ AppendedFirst'
    BY <2>2 DEF DurableInv, NothingSentYet, AllQuiet, AppendedFirst, Appended
  <2> QED
    BY <2>1, <2>3 DEF DurableInv
<1>4. CASE UNCHANGED allVars
  <2>1. UNCHANGED vars
    BY <1>4 DEF allVars
  <2>2. UNCHANGED <<rpc, page, jobs, older, queue, submissions, results, wpc, wjob, wres, notified>>
    BY <2>1 DEF vars, handlerVars, mapVars, logVars, workerVars
  <2>3. OutcomeInv'
    BY <2>1, OutcomeInductive DEF RecoveryInv, DurableInv
  <2>4. SentJobs' = SentJobs /\ Present(jobs)' = Present(jobs) /\ Present(results)' = Present(results)
    BY <2>2 DEF SentJobs, IsSent, Present
  <2>5. Known' = Known
    BY <2>2, <2>4 DEF Known
  <2>6. StrictOrder' /\ Ordered' /\ NothingSentYet' /\ AppendedFirst' /\ AnnouncedLogged'
    BY <2>2, <2>4, <2>5 DEF DurableInv, StrictOrder, Ordered, NothingSentYet, AppendedFirst, AnnouncedLogged, Superseded, FinalStatus
  <2> QED
    BY <2>3, <2>6 DEF DurableInv
<1> QED
  BY <1>1, <1>2, <1>3, <1>4 DEF RecoveryNext

LEMMA DurableAtStart == InitRecovery => DurableInv
<1> SUFFICES ASSUME InitRecovery PROVE DurableInv
  OBVIOUS
<1>1. Init
  BY DEF InitRecovery
<1>2. OutcomeInv
  BY <1>1, OutcomeAtStart
<1>3. StrictOrder /\ Ordered
  BY <1>1, RecordsAtStart DEF RecordInv, KeptInv
<1>4. NothingSentYet /\ AppendedFirst /\ AnnouncedLogged
  BY <1>1 DEF Init, NothingSentYet, AppendedFirst, Appended, AnnouncedLogged
<1> QED
  BY <1>2, <1>3, <1>4 DEF DurableInv

LEMMA AlwaysDurableInv ==
    ASSUME "append" \notin Faults
    PROVE  RecoverySpec => []DurableInv
BY DurableAtStart, AlwaysRecoveryInv, DurableInductive, PTL DEF RecoverySpec

(* An outcome that a webhook receiver was told is in results.jsonl, in      *)
(* every later life too, whatever crashes or compactions come between,      *)
(* unless metadata_retention_limit later outcomes are there in its place    *)
(* (finish_job appends before send_webhook; compact_metadata keeps the      *)
(* latest).  Only a failing append breaks this.                             *)
THEOREM AnnouncementsLast ==
    ASSUME "append" \notin Faults
    PROVE  RecoverySpec => []AnnouncedIsDurable
<1>1. DurableInv => AnnouncedIsDurable
  BY DEF DurableInv, AnnouncedLogged, AnnouncedIsDurable
<1> QED
  BY <1>1, AlwaysDurableInv, PTL
-----------------------------------------------------------------------------
(***************************************************************************)
(* What a server shows                                                     *)
(***************************************************************************)
(* Without a failing append or a dropped handler, a handler leaves no       *)
(* record behind that is still active.                                      *)
LEMMA HandlerEnds ==
    ASSUME TypeOK, Faults \cap {"append", "drop"} = {}, NEW r \in Requests, Handler(r)
    PROVE  rpc'[r] \notin {"dropped", "internal_error"}
BY DEF TypeOK, Handler, Go, AppendFails, EnsureWorkersReady, PrepareSubmission, RefuseSubmission, EnsureQueueHasCapacity, CheckFull, InsertRecord, AppendSubmission, AppendSubmissionFails, TrySend, TrySendFails, RollbackUnqueued, PersistUnqueued

LEMMA RunningAbandonsNothing ==
    ASSUME TypeInv, OneOwner, NothingAbandoned, Faults \cap {"append", "drop"} = {}, Next
    PROVE  NothingAbandoned'
<1>1. ASSUME NEW r \in Requests, Handler(r) PROVE NothingAbandoned'
  <2>1. TypeOK /\ rpc[r] \in HandlerSteps /\ rpc'[r] \notin {"dropped", "internal_error"}
    BY <1>1, HandlerEnds, HandlerRecords DEF TypeInv
  <2> SUFFICES ASSUME NEW s \in Requests, rpc'[s] \in {"dropped", "internal_error"}
               PROVE  jobs'[CurrentJob(s)'] \notin {"queued", "running"}
    BY DEF NothingAbandoned
  <2>2. s # r /\ rpc'[s] = rpc[s]
    BY <1>1, <2>1, HandlerFrame
  <2>3. page'[s] = page[s]
    <3>1. CASE TrySend(r)
      BY <2>1, <2>2, <3>1, TrySendPage
    <3>2. CASE ~TrySend(r)
      BY <1>1, <2>1, <3>2, HandlerFrame
    <3> QED
      BY <3>1, <3>2
  <2>4. CurrentJob(s)' = CurrentJob(s) /\ CurrentJob(s) \in Jobs /\ CurrentJob(s) # CurrentJob(r)
    BY <2>1, <2>2, <2>3, CurrentPage, PagesAssumption DEF CurrentJob
  <2>5. jobs'[CurrentJob(s)] = jobs[CurrentJob(s)]
    BY <1>1, <2>1, <2>4, HandlerRecords
  <2> QED
    BY <2>2, <2>4, <2>5 DEF NothingAbandoned
<1>2. ASSUME NEW w \in Workers, Worker(w) PROVE NothingAbandoned'
  <2>1. TypeOK /\ UNCHANGED <<rpc, page>>
    BY <1>2, WorkerFrame DEF TypeInv
  <2> SUFFICES ASSUME NEW s \in Requests, rpc[s] \in {"dropped", "internal_error"}
               PROVE  jobs'[CurrentJob(s)] \notin {"queued", "running"}
    BY <2>1 DEF NothingAbandoned, CurrentJob
  <2>2. CurrentJob(s) \in Jobs /\ CurrentJob(s) \notin SentJobs
    BY <2>1, CurrentPage, CurrentJobUnsent
  <2>3. wjob[w] = NoJob \/ wjob[w] \in SentJobs
    BY DEF OneOwner, InFlight, Held
  <2>4. CurrentJob(s) # wjob[w]
    BY <2>2, <2>3, ConfigAssumption
  <2>5. jobs'[CurrentJob(s)] \in {jobs[CurrentJob(s)], "absent"}
    BY <1>2, <2>2, <2>4, WorkerRecords
  <2> QED
    BY <2>5 DEF NothingAbandoned
<1>3. ASSUME NEW r \in Requests, DropHandler(r) PROVE FALSE
  BY <1>3 DEF DropHandler
<1> QED
  BY <1>1, <1>2, <1>3 DEF Next

(* finish_job has appended every outcome in the map or is about to.         *)
LEMMA RunningLogsDecided ==
    ASSUME RecoveryInv, DurableInv, DecidedLogged, "append" \notin Faults, Next
    PROVE  DecidedLogged'
<1>1. TypeInv /\ TypeOK /\ OneOwner /\ NoResultLine /\ NoResultYet
  BY DEF RecoveryInv, TypeInv, FilesInv
<1>2. ASSUME NEW r \in Requests, Handler(r) \/ DropHandler(r) PROVE DecidedLogged'
  <2>1. /\ \A j \in Jobs \ {CurrentJob(r)} : jobs'[j] = jobs[j] /\ results'[j] = results[j]
        /\ jobs'[CurrentJob(r)] \in {jobs[CurrentJob(r)], "absent", "queued"}
        /\ results' = results \/ results'[CurrentJob(r)] = "failed"
    BY <1>1, <1>2, HandlerRecords
  <2>2. UNCHANGED <<wpc, wjob>>
    BY <1>1, <1>2, HandlerKeepsWorkers
  <2>3. \A j \in Jobs : /\ jobs'[j] \in Terminal => jobs[j] \in Terminal
                        /\ results[j] # "absent" => results'[j] # "absent"
    BY <2>1 DEF Terminal
  <2> QED
    BY <2>2, <2>3 DEF DecidedLogged
<1>3. ASSUME NEW w \in Workers, Worker(w) PROVE DecidedLogged'
  <2> DEFINE d == wjob[w]
  <2>1. /\ \A j \in Jobs \ {d} : jobs'[j] \in {jobs[j], "absent"} /\ results'[j] = results[j]
        /\ \A v \in Workers \ {w} : wpc'[v] = wpc[v] /\ wjob'[v] = wjob[v]
    BY <1>1, <1>3, WorkerRecords
  <2>2. CASE AppendResult(w)
    <3>0. wpc[w] = "append"
      BY <2>2 DEF AppendResult, Step
    <3>1. d \in Jobs /\ jobs' = jobs /\ results' = [results EXCEPT ![d] = FinalStatus(w)]
      <4>1. d \in Jobs
        BY <1>1, <3>0, BusyJob DEF Finishing, TypeInv
      <4> QED
        BY <1>1, <1>3, <3>0, <4>1, WorkerSettles
    <3>2. \A j \in Jobs : results[j] # "absent" \/ j = d => results'[j] # "absent"
      BY <1>1, <3>1 DEF TypeOK, FinalStatus
    <3>3. \A j \in Jobs, v \in Workers : wpc[v] = "append" /\ wjob[v] = j /\ j # d
                                           => wpc'[v] = "append" /\ wjob'[v] = j
      BY <2>1
    <3> QED
      BY <3>1, <3>2, <3>3 DEF DecidedLogged
  <2>3. CASE FinishRecord(w) /\ HasRecord(w)
    <3>1. wpc'[w] = "append" /\ wjob' = wjob /\ results' = results /\ wpc[w] = "finish"
      BY <1>1, <2>3 DEF FinishRecord, HasRecord, Step, TypeOK, logVars
    <3>2. \A j \in Jobs : jobs'[j] \in Terminal => jobs[j] \in Terminal \/ j = d
      BY <2>1 DEF Terminal
    <3>3. \A v \in Workers : wpc[v] = "append" => wpc'[v] = "append"
      BY <2>1, <3>1
    <3> QED
      BY <3>1, <3>2, <3>3 DEF DecidedLogged
  <2>4. CASE ~AppendResult(w) /\ ~(FinishRecord(w) /\ HasRecord(w))
    <3>1. \A j \in Jobs : jobs'[j] \in Terminal => jobs[j] \in Terminal
      <4>1. CASE RetainRecentJobs(w)
        BY <4>1 DEF RetainRecentJobs, RetainRecent, Terminal
      <4>2. CASE MarkRunning(w)
        BY <1>1, <4>2 DEF MarkRunning, TypeOK, mapVars, Terminal
      <4>3. CASE ~RetainRecentJobs(w) /\ ~MarkRunning(w)
        <5>1. jobs' = jobs
          BY <1>3, <2>4, <4>3 DEF Worker, mapVars, InitializeWorker, InitializeWorkerFails, Receive, InferenceSucceeds, InferenceFails, InferencePanics, InferenceTimesOut, FinishRecord, SendWebhook, CleanupArtifacts, LateReturn, StopWorker
        <5> QED
          BY <5>1
      <4> QED
        BY <4>1, <4>2, <4>3
    <3>2. results' = results
      BY <1>3, <2>4 DEF Worker, logVars, InitializeWorker, InitializeWorkerFails, Receive, MarkRunning, InferenceSucceeds, InferenceFails, InferencePanics, InferenceTimesOut, FinishRecord, SendWebhook, CleanupArtifacts, RetainRecentJobs, LateReturn, StopWorker
    <3>3. wpc[w] # "append"
      BY <1>3, <2>4 DEF Worker, Step, InitializeWorker, InitializeWorkerFails, Receive, MarkRunning, InferenceSucceeds, InferenceFails, InferencePanics, InferenceTimesOut, FinishRecord, SendWebhook, CleanupArtifacts, RetainRecentJobs, LateReturn, StopWorker
    <3> QED
      BY <2>1, <3>1, <3>2, <3>3 DEF DecidedLogged
  <2> QED
    BY <2>2, <2>3, <2>4
<1> QED
  BY <1>2, <1>3 DEF Next

LEMMA RunningKeepsServed ==
    ASSUME RecoveryInv, DurableInv, ServedInv, Faults \cap {"append", "drop"} = {}, Running
    PROVE  ServedInv'
<1>1. phase = "serving" /\ phase' = "serving" /\ Next
  BY DEF Running, recoveryVars
<1>2. TypeInv /\ OneOwner /\ OutcomeInv /\ KeptInv
  BY <1>1 DEF RecoveryInv, DurableInv, ServedInv, KeptInv
<1>3. KeptInv'
  BY <1>1, <1>2, HandlerKeepsKept, WorkerKeepsKept DEF Next
<1>4. NothingAbandoned' /\ DecidedLogged'
  BY <1>1, <1>2, RunningAbandonsNothing, RunningLogsDecided DEF ServedInv
<1> QED
  BY <1>1, <1>3, <1>4 DEF ServedInv, KeptInv

LEMMA StartupKeepsRecords ==
    ASSUME RecoveryInv, ServedInv, Startup
    PROVE  IsFiniteSet(Present(jobs)') /\ ActiveHasOwner' /\ NothingAbandoned'
<1>1. TypeInv /\ UNCHANGED <<rpc, page, queue, wjob>>
  BY StartupFrame DEF RecoveryInv, handlerVars, workerVars
<1>2. Owned' = Owned /\ Abandoned' = Abandoned
  BY <1>1 DEF Owned, InFlight, InQueue, Held, BeingEnqueued, Abandoned, CurrentJob
<1>3. CASE LoadMetadata
  <2>1. /\ \A j \in Jobs : jobs'[j] = IF j \in Interrupted(Loaded) THEN "failed" ELSE Loaded[j]
        /\ \A j \in Jobs : jobs'[j] # "absent" => j \in Logged
    BY <1>3 DEF LoadMetadata, Interrupted, Loaded, Logged, Present
  <2>2. \A j \in Jobs : jobs'[j] \notin {"queued", "running"}
    BY <2>1 DEF Interrupted
  <2>3. Present(jobs)' \subseteq Logged /\ IsFiniteSet(Logged)
    BY <2>1 DEF Present, RecoveryInv
  <2>4. \A r \in Requests : CurrentJob(r) \in Jobs
    BY <1>1, CurrentPage DEF TypeInv
  <2> QED
    BY <1>1, <2>2, <2>3, <2>4, FS_Subset DEF ActiveHasOwner, NothingAbandoned, CurrentJob
<1>4. CASE ~LoadMetadata
  <2>1. \A j \in Jobs : jobs'[j] \in {jobs[j], "absent"}
    BY <1>4 DEF Startup, LoadMetadataFails, AppendRecovered, StartCompaction, CompactSubmissions, CompactResults, StartServing, vars, mapVars, RetainRecent
  <2>2. Present(jobs)' \subseteq Present(jobs)
    BY <2>1 DEF Present
  <2>3. \A r \in Requests : CurrentJob(r) \in Jobs /\ CurrentJob(r)' = CurrentJob(r)
    BY <1>1, CurrentPage DEF TypeInv, CurrentJob
  <2>4. ActiveHasOwner'
    BY <1>2, <2>1 DEF ServedInv, ActiveHasOwner
  <2>5. NothingAbandoned'
    BY <1>1, <2>1, <2>3 DEF ServedInv, NothingAbandoned
  <2> QED
    BY <2>2, <2>4, <2>5, FS_Subset DEF ServedInv
<1> QED
  BY <1>3, <1>4

(* What is kept for clients is kept in the files: the two retentions keep   *)
(* the same latest records, the larger limit more of them.                  *)
LEMMA RetentionsAgree ==
    ASSUME RecoveryInv, ServedInv, Startup, phase' = "retain",
           MetadataRetentionLimit = 0 \/ JobRetentionLimit <= MetadataRetentionLimit
    PROVE  \A j \in RecentRecords(jobs, JobRetentionLimit)' : results'[j] = jobs'[j]
<1>1. CASE StartCompaction
  <2>1. /\ phase = "recovering" /\ recovered = {} /\ UNCHANGED <<jobs, results>>
    BY <1>1 DEF StartCompaction, Enter, vars, mapVars, logVars
  <2> QED
    BY <2>1 DEF RecoveryInv, FilesInv, Restored, RecentRecords, Present
<1>2. CASE CompactResults
  <2>1. /\ jobs = results /\ MetadataRetentionLimit > 0 /\ UNCHANGED <<jobs, older>>
        /\ Interrupted(jobs) = {}
    BY <1>2 DEF CompactResults, Enter, mapVars, RecoveryInv, FilesInv, Restored, Interrupted, TypeInv, TypeOK, Terminal
  <2>2. /\ JobRetentionLimit <= MetadataRetentionLimit
        /\ JobRetentionLimit \in Nat /\ MetadataRetentionLimit \in Nat
    BY <2>1, ConfigAssumption, RecoveryAssumption
  <2>3. RecentRecords(jobs, JobRetentionLimit) \subseteq RecentRecords(jobs, MetadataRetentionLimit)
    <3> SUFFICES ASSUME NEW j \in Present(jobs), Cardinality(LaterRecords(j)) < JobRetentionLimit
                 PROVE  Cardinality(LaterRecords(j)) < MetadataRetentionLimit
      BY DEF RecentRecords, LaterRecords
    <3>1. Cardinality(LaterRecords(j)) \in Nat
      BY FS_Subset, FS_CardinalityType DEF ServedInv, LaterRecords
    <3> QED
      BY <2>2, <3>1
  <2>4. RecentRecords(jobs, JobRetentionLimit)' = RecentRecords(jobs, JobRetentionLimit)
    BY <2>1 DEF RecentRecords, Present
  <2>5. \A j \in RecentRecords(jobs, MetadataRetentionLimit) : results'[j] = jobs[j]
    BY <1>2, <2>1 DEF CompactResults, RecentRecords, Present
  <2> QED
    BY <2>1, <2>3, <2>4, <2>5
<1>3. CASE ~StartCompaction /\ ~CompactResults
  BY <1>3 DEF Startup, Enter, LoadMetadata, LoadMetadataFails, AppendRecovered, CompactSubmissions, StartServing
<1> QED
  BY <1>1, <1>2, <1>3

LEMMA ServingStarts ==
    ASSUME RecoveryInv, DurableInv, ServedInv, StartServing
    PROVE  RetentionCap' /\ DecidedLogged'
<1> DEFINE R == RecentRecords(jobs, JobRetentionLimit)
<1>1. /\ TypeOK /\ StrictOrder /\ Ordered /\ IsFiniteSet(Present(jobs)) /\ JobRetentionLimit \in Nat
  BY ConfigAssumption DEF RecoveryInv, TypeInv, DurableInv, ServedInv
<1>2. /\ phase = "retain" /\ results' = results
      /\ \A j \in Jobs : jobs'[j] = IF j \in R THEN jobs[j] ELSE "absent"
  BY DEF StartServing, Enter, RetainRecent, logVars
<1>3. IsFiniteSet(R) /\ Cardinality(R) <= JobRetentionLimit /\ Cardinality(R) \in Nat
  BY <1>1, RecentRecordsBound, FS_CardinalityType
<1>4. RetentionCap'
  <2> DEFINE K == Present(jobs)' \ (Owned' \cup Abandoned')
  <2>1. K \subseteq R
    BY <1>2 DEF Present
  <2>2. Cardinality(K) <= Cardinality(R) /\ Cardinality(K) \in Nat
    BY <1>3, <2>1, FS_Subset, FS_CardinalityType
  <2>3. Cardinality(K) <= JobRetentionLimit
    <3> HIDE DEF K, R
    <3> QED
      BY <1>1, <1>3, <2>2
  <2> QED
    BY <2>3 DEF RetentionCap
<1>5. DecidedLogged'
  BY <1>2 DEF ServedInv, DecidedLogged, Terminal
<1> QED
  BY <1>4, <1>5

LEMMA ServedInductive ==
    ASSUME Faults \cap {"append", "drop"} = {},
           MetadataRetentionLimit = 0 \/ JobRetentionLimit <= MetadataRetentionLimit
    PROVE  RecoveryInv /\ DurableInv /\ ServedInv /\ [RecoveryNext]_allVars => ServedInv'
<1> SUFFICES ASSUME RecoveryInv, DurableInv, ServedInv, [RecoveryNext]_allVars
             PROVE  ServedInv'
  OBVIOUS
<1>1. CASE Running
  BY <1>1, RunningKeepsServed
<1>2. CASE Crash
  <2>1. phase' = "down" /\ \A j \in Jobs : jobs'[j] = "absent"
    BY <1>2 DEF Crash
  <2>2. Present(jobs)' = {}
    BY <2>1 DEF Present
  <2>3. TypeOK' /\ \A r \in Requests : CurrentJob(r)' \in Jobs
    <3>1. page' = page /\ TypeOK'
      BY <1>2, CrashKeepsTypes DEF Crash, RecoveryInv, TypeInv
    <3> QED
      BY <3>1, CurrentPage DEF RecoveryInv, TypeInv, CurrentJob
  <2>4. ActiveHasOwner' /\ NothingAbandoned'
    BY <2>1, <2>3 DEF ActiveHasOwner, NothingAbandoned
  <2> QED
    BY <2>1, <2>2, <2>4, FS_EmptySet DEF ServedInv
<1>3. CASE Startup
  <2>1. phase # "serving"
    BY <1>3, StartupFiles DEF RecoveryInv
  <2>2. phase' = "serving" => StartServing
    BY <1>3, <2>1, RecoveryAssumption DEF Startup, Enter, LoadMetadata, LoadMetadataFails, AppendRecovered, StartCompaction, CompactSubmissions, CompactResults
  <2> QED
    BY <1>3, <2>2, StartupKeepsRecords, RetentionsAgree, ServingStarts DEF ServedInv
<1>4. CASE UNCHANGED allVars
  <2>1. UNCHANGED <<rpc, page, jobs, older, queue, results, wpc, wjob, phase>>
    BY <1>4 DEF allVars, recoveryVars, vars, handlerVars, mapVars, logVars, workerVars
  <2> QED
    BY <2>1 DEF ServedInv, ActiveHasOwner, NothingAbandoned, RetentionCap, DecidedLogged, RecentRecords, Present, Owned, InFlight, InQueue, Held, BeingEnqueued, Abandoned, CurrentJob
<1> QED
  BY <1>1, <1>2, <1>3, <1>4 DEF RecoveryNext

LEMMA ServedAtStart == InitRecovery => ServedInv
<1> SUFFICES ASSUME InitRecovery PROVE ServedInv
  OBVIOUS
<1>1. Init /\ phase = "serving"
  BY DEF InitRecovery
<1>2. IsFiniteSet(Present(jobs)) /\ ActiveHasOwner /\ RetentionCap
  BY <1>1, RecordsAtStart DEF RecordInv, KeptInv
<1>3. NothingAbandoned /\ DecidedLogged
  BY <1>1 DEF Init, NothingAbandoned, DecidedLogged, Terminal
<1> QED
  BY <1>1, <1>2, <1>3 DEF ServedInv

(* Once a server serves, what it shows as queued or running somebody works  *)
(* on, what it shows agrees with the files and the webhooks, and an outcome *)
(* it shows is in results.jsonl for the next life, as long as no append     *)
(* fails, no handler is dropped but by a crash, and the metadata retention  *)
(* keeps no fewer records than the map (load_jobs, compact_metadata,        *)
(* retain_recent_jobs, finish_job).                                         *)
THEOREM ServedLasts ==
    ASSUME Faults \cap {"append", "drop"} = {},
           MetadataRetentionLimit = 0 \/ JobRetentionLimit <= MetadataRetentionLimit
    PROVE  RecoverySpec => []ServedIsDurable
<1>1. RecoveryInv /\ DurableInv /\ ServedInv => ServedIsDurable
  <2> SUFFICES ASSUME RecoveryInv, DurableInv, ServedInv PROVE ServedIsDurable
    OBVIOUS
  <2>1. ServedAfterRecovery
    <3>1. OutcomesAgree
      BY OneIsAgreed DEF DurableInv
    <3>2. \A j \in Abandoned : jobs[j] \notin {"queued", "running"}
      BY DEF ServedInv, NothingAbandoned, Abandoned
    <3> QED
      BY <3>1, <3>2 DEF ServedAfterRecovery, ServedInv, ActiveHasOwner
  <2>2. QueryableIsDurable
    <3> SUFFICES ASSUME NEW j \in Jobs, phase = "serving", jobs[j] \in Terminal, j \notin InFlight
                 PROVE  results[j] = jobs[j]
      BY DEF QueryableIsDurable
    <3>1. PICK f \in Terminal : {jobs[j], results[j], notified[j]} \cap Terminal \subseteq {f}
      BY DEF DurableInv, OutcomeInv, AgreeOn
    <3>2. \A w \in Workers : wjob[w] # j
      BY ConfigAssumption DEF InFlight, Held
    <3>3. results[j] # "absent"
      BY <3>2 DEF ServedInv, DecidedLogged
    <3>4. results[j] \in Terminal
      BY <3>3 DEF RecoveryInv, TypeInv, TypeOK
    <3> QED
      BY <3>1, <3>4
  <2> QED
    BY <2>1, <2>2 DEF ServedIsDurable
<1>2. RecoverySpec => [](RecoveryInv /\ DurableInv)
  <2>1. "append" \notin Faults
    OBVIOUS
  <2> QED
    BY <2>1, AlwaysRecoveryInv, AlwaysDurableInv, PTL
<1> QED
  BY <1>1, <1>2, ServedAtStart, ServedInductive, PTL DEF RecoverySpec

(* Whatever crashes and recoveries do, the record, the line in results.jsonl *)
(* and the record a webhook receiver got never give two outcomes for a job: *)
(* load_jobs fails only jobs nobody was told of (no failing append).        *)
THEOREM OneOutcomeForEver ==
    ASSUME "append" \notin Faults
    PROVE  RecoverySpec => []OutcomesAgree
<1>1. DurableInv => OutcomesAgree
  BY OneIsAgreed DEF DurableInv
<1> QED
  BY <1>1, AlwaysDurableInv, PTL
=============================================================================
