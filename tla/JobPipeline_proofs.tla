------------------------ MODULE JobPipeline_proofs ------------------------
(***************************************************************************)
(* Proofs about JobPipeline, for any number of submissions, pages, jobs    *)
(* and workers, any queue size and retention limit, and every combination  *)
(* of the faults: types and ownership first, and on top of them the job    *)
(* counters, the images on disk, the outcomes of jobs, the records that    *)
(* are kept, and that JobPipeline implements JobLedger.                    *)
(***************************************************************************)
EXTENDS JobPipelineRefinement, TLAPS, FiniteSetTheorems

(* TypeOK alone is not inductive: that MarkRunning and finish_job touch the *)
(* record of a job needs the worker to hold one.                            *)
TypeInv == TypeOK /\ BusyHoldsJob /\ LateTimedOut

-----------------------------------------------------------------------------
(* A handler always stands at a page of its submission, so the record it    *)
(* enqueues is a job (the loop of enqueue_pdf_records).                     *)
LEMMA CurrentPage ==
    ASSUME TypeOK, NEW r \in Requests
    PROVE  /\ CurrentJob(r) \in Jobs
           /\ PageIds(r) \subseteq Jobs
           /\ Len(PagesOf[r]) \in Nat
           /\ page[r] \in DOMAIN PagesOf[r]
BY PagesAssumption DEF TypeOK, CurrentJob, PageIds

(* A worker that is busy has a request whose id it can look up. *)
LEMMA BusyJob ==
    ASSUME TypeOK, BusyHoldsJob, NEW w \in Workers,
           wpc[w] \in {"starting", "infer"} \cup Finishing
    PROVE  wjob[w] \in Jobs
BY DEF TypeOK, BusyHoldsJob

(* Setting updated_at keeps the order a relation on jobs. *)
LEMMA StampedType ==
    ASSUME TypeOK, NEW j \in Jobs
    PROVE  Stamped(older, j) \subseteq Jobs \X Jobs
BY DEF TypeOK, Stamped

(* The same for all the pages of a submission. *)
LEMMA PagesStampedType ==
    ASSUME TypeOK, NEW r \in Requests
    PROVE  PagesStamped(older, r) \subseteq Jobs \X Jobs
BY CurrentPage DEF TypeOK, PagesStamped

-----------------------------------------------------------------------------
(* The empty data directory and an unstarted pool satisfy the invariant. *)
LEMMA InitTypes == Init => TypeInv
<1> SUFFICES ASSUME Init PROVE TypeInv
  OBVIOUS
<1>1. TypeOK
  <2>1. \A r \in Requests : 1 <= Len(PagesOf[r])
    BY PagesAssumption
  <2> QED
    BY <2>1, ConfigAssumption
    DEF Init, TypeOK, HandlerSteps, WorkerSteps, Outcomes
<1>2. BusyHoldsJob /\ LateTimedOut
  BY DEF Init, BusyHoldsJob, LateTimedOut, Finishing
<1> QED
  BY <1>1, <1>2 DEF TypeInv

(* Every step of enqueue_record and of the handlers around it keeps the     *)
(* types; try_send keeps the queue within its capacity.                     *)
LEMMA HandlerKeepsTypes ==
    ASSUME TypeOK, NEW r \in Requests, Handler(r) \/ DropHandler(r)
    PROVE  TypeOK'
<1> USE DEF TypeOK, HandlerSteps, Answers, Statuses, Terminal, Logs, handlerVars,
            mapVars, logVars, workerVars, poolVars, Go, AppendFails
<1>1. CASE EnsureWorkersReady(r)
  BY <1>1 DEF EnsureWorkersReady
<1>2. CASE PrepareSubmission(r)
  BY <1>2, CurrentPage, PagesStampedType DEF PrepareSubmission, Uploaded
<1>3. CASE RefuseSubmission(r)
  BY <1>3 DEF RefuseSubmission
<1>4. CASE EnsureQueueHasCapacity(r)
  BY <1>4 DEF EnsureQueueHasCapacity
<1>5. CASE CheckFull(r)
  BY <1>5 DEF CheckFull
<1>6. CASE InsertRecord(r)
  BY <1>6, CurrentPage DEF InsertRecord
<1>7. CASE AppendSubmission(r)
  BY <1>7, CurrentPage DEF AppendSubmission
<1>8. CASE AppendSubmissionFails(r)
  BY <1>8 DEF AppendSubmissionFails
<1>9. CASE TrySend(r)
  <2>1. queue' \in Seq(Jobs) /\ Len(queue') <= QueueSize
    <3>1. Len(queue) < QueueSize
      BY <1>9, ConfigAssumption DEF TrySend, IsFull
    <3> QED
      BY <1>9, <3>1, CurrentPage, ConfigAssumption DEF TrySend
  <2>2. /\ page' \in [Requests -> Nat \ {0}]
        /\ \A s \in Requests : page'[s] <= Len(PagesOf[s])
    <3>1. CASE page[r] < Len(PagesOf[r])
      <4>1. page' = [page EXCEPT ![r] = page[r] + 1]
        BY <1>9, <3>1 DEF TrySend
      <4> QED
        BY <3>1, <4>1, CurrentPage
    <3>2. CASE ~(page[r] < Len(PagesOf[r]))
      BY <1>9, <3>2 DEF TrySend
    <3> QED
      BY <3>1, <3>2
  <2> QED
    BY <1>9, <2>1, <2>2 DEF TrySend
<1>10. CASE TrySendFails(r)
  BY <1>10 DEF TrySendFails
<1>11. CASE RollbackUnqueued(r)
  BY <1>11, CurrentPage DEF RollbackUnqueued
<1>12. CASE PersistUnqueued(r)
  BY <1>12, CurrentPage, StampedType DEF PersistUnqueued
<1>13. CASE DropHandler(r)
  BY <1>13 DEF DropHandler
<1> QED
  BY <1>1, <1>2, <1>3, <1>4, <1>5, <1>6, <1>7, <1>8, <1>9, <1>10, <1>11, <1>12, <1>13 DEF Handler

(* Every step of worker_loop and finish_job keeps the types. *)
LEMMA WorkerKeepsTypes ==
    ASSUME TypeOK, BusyHoldsJob, NEW w \in Workers, Worker(w)
    PROVE  TypeOK'
<1> USE DEF TypeOK, Statuses, Terminal, Logs, WorkerSteps, Finishing, Outcomes,
            handlerVars, mapVars, logVars, workerVars, poolVars, Step, AppendFails
<1>1. CASE InitializeWorker(w)
  BY <1>1 DEF InitializeWorker
<1>2. CASE InitializeWorkerFails(w)
  BY <1>2 DEF InitializeWorkerFails
<1>3. CASE Receive(w)
  BY <1>3, ConfigAssumption DEF Receive, Count
<1>4. CASE MarkRunning(w)
  <2>1. wjob[w] \in Jobs
    BY <1>4, BusyJob DEF MarkRunning
  <2>2. Stamped(older, wjob[w]) \subseteq Jobs \X Jobs
    BY <2>1, StampedType
  <2>3. /\ jobs' = jobs \/ jobs' = [jobs EXCEPT ![wjob[w]] = "running"]
        /\ older' = older \/ older' = Stamped(older, wjob[w])
    BY <1>4 DEF MarkRunning
  <2>4. jobs' \in [Jobs -> Statuses \cup {"absent"}]
    BY <2>1, <2>3
  <2>5. older' \subseteq Jobs \X Jobs
    BY <2>2, <2>3
  <2> QED
    BY <1>4, <2>4, <2>5 DEF MarkRunning
<1>5. CASE InferenceSucceeds(w)
  BY <1>5 DEF InferenceSucceeds, Count
<1>6. CASE InferenceFails(w)
  BY <1>6 DEF InferenceFails, Count
<1>7. CASE InferencePanics(w)
  BY <1>7 DEF InferencePanics, Count
<1>8. CASE InferenceTimesOut(w)
  BY <1>8 DEF InferenceTimesOut, Count, MarkStopped
<1>9. CASE FinishRecord(w)
  <2>1. wjob[w] \in Jobs
    BY <1>9, BusyJob DEF FinishRecord
  <2>2. Stamped(older, wjob[w]) \subseteq Jobs \X Jobs
    BY <2>1, StampedType
  <2>3. /\ jobs' = jobs \/ jobs' = [jobs EXCEPT ![wjob[w]] = FinalStatus(w)]
        /\ older' = older \/ older' = Stamped(older, wjob[w])
    BY <1>9 DEF FinishRecord
  <2>4. FinalStatus(w) \in Statuses
    BY DEF FinalStatus
  <2>5. jobs' \in [Jobs -> Statuses \cup {"absent"}]
    BY <2>1, <2>3, <2>4
  <2>6. older' \subseteq Jobs \X Jobs
    BY <2>2, <2>3
  <2>7. wjob' \in [Workers -> Jobs \cup {NoJob}]
    BY <1>9 DEF FinishRecord
  <2>8. wpc' \in [Workers -> WorkerSteps]
    BY <1>9, ZenonT(30) DEF FinishRecord, AfterFinish
  <2> QED
    BY <1>9, <2>5, <2>6, <2>7, <2>8 DEF FinishRecord
<1>10. CASE AppendResult(w)
  BY <1>10, BusyJob DEF AppendResult, FinalStatus
<1>11. CASE SendWebhook(w)
  BY <1>11, BusyJob DEF SendWebhook, FinalStatus
<1>12. CASE CleanupArtifacts(w)
  BY <1>12 DEF CleanupArtifacts
<1>13. CASE RetainRecentJobs(w)
  <2>1. jobs' \in [Jobs -> Statuses \cup {"absent"}]
    BY <1>13 DEF RetainRecentJobs, RetainRecent
  <2>2. wpc' \in [Workers -> WorkerSteps]
    BY <1>13 DEF RetainRecentJobs, AfterFinish
  <2> QED
    BY <1>13, <2>1, <2>2 DEF RetainRecentJobs
<1>14. CASE LateReturn(w)
  BY <1>14 DEF LateReturn
<1>15. CASE StopWorker(w)
  BY <1>15 DEF StopWorker, MarkStopped
<1> QED
  BY <1>1, <1>2, <1>3, <1>4, <1>5, <1>6, <1>7, <1>8, <1>9, <1>10, <1>11, <1>12, <1>13, <1>14, <1>15 DEF Worker

(* Handlers do not touch the workers. *)
LEMMA HandlerKeepsWorkers ==
    ASSUME NEW r \in Requests, Handler(r) \/ DropHandler(r)
    PROVE  UNCHANGED <<wpc, wjob, wres, ready, notified, metrics>>
BY DEF Handler, workerVars, poolVars, EnsureWorkersReady, PrepareSubmission, RefuseSubmission, EnsureQueueHasCapacity, CheckFull, InsertRecord, AppendSubmission, AppendSubmissionFails, TrySend, TrySendFails, RollbackUnqueued, PersistUnqueued, DropHandler

(* A worker takes a request only when idle and gives it up only where       *)
(* finish_job returns.                                                      *)
LEMMA WorkerKeepsBusy ==
    ASSUME TypeInv, NEW w \in Workers, Worker(w)
    PROVE  BusyHoldsJob' /\ LateTimedOut'
<1> USE DEF TypeInv, TypeOK, BusyHoldsJob, LateTimedOut, Finishing, Step
<1>1. CASE InitializeWorker(w)
  BY <1>1 DEF InitializeWorker
<1>2. CASE InitializeWorkerFails(w)
  BY <1>2 DEF InitializeWorkerFails
<1>3. CASE Receive(w)
  BY <1>3, ConfigAssumption DEF Receive
<1>4. CASE MarkRunning(w)
  BY <1>4 DEF MarkRunning
<1>5. CASE InferenceSucceeds(w)
  BY <1>5 DEF InferenceSucceeds
<1>6. CASE InferenceFails(w)
  BY <1>6 DEF InferenceFails
<1>7. CASE InferencePanics(w)
  BY <1>7 DEF InferencePanics
<1>8. CASE InferenceTimesOut(w)
  BY <1>8 DEF InferenceTimesOut
<1>9. CASE FinishRecord(w)
  <2>1. CASE HasRecord(w)
    BY <1>9, <2>1 DEF FinishRecord
  <2>2. CASE ~HasRecord(w)
    <3>1. AfterFinish(w) \in {"late", "stopping", "idle"}
      BY DEF AfterFinish
    <3>2. AfterFinish(w) = "late" => wres[w] = "timeout"
      BY DEF AfterFinish
    <3> QED
      BY <1>9, <2>2, <3>1, <3>2, ZenonT(30) DEF FinishRecord
  <2> QED
    BY <2>1, <2>2
<1>10. CASE AppendResult(w)
  BY <1>10 DEF AppendResult
<1>11. CASE SendWebhook(w)
  BY <1>11 DEF SendWebhook
<1>12. CASE CleanupArtifacts(w)
  BY <1>12 DEF CleanupArtifacts
<1>13. CASE RetainRecentJobs(w)
  BY <1>13 DEF RetainRecentJobs, AfterFinish
<1>14. CASE LateReturn(w)
  BY <1>14 DEF LateReturn
<1>15. CASE StopWorker(w)
  BY <1>15 DEF StopWorker
<1> QED
  BY <1>1, <1>2, <1>3, <1>4, <1>5, <1>6, <1>7, <1>8, <1>9, <1>10, <1>11, <1>12, <1>13, <1>14, <1>15 DEF Worker

(* The strengthened type invariant is preserved by every step. *)
LEMMA TypeInvInductive == TypeInv /\ [Next]_vars => TypeInv'
<1> SUFFICES ASSUME TypeInv, [Next]_vars PROVE TypeInv'
  OBVIOUS
<1>1. ASSUME NEW r \in Requests, Handler(r) \/ DropHandler(r) PROVE TypeInv'
  <2>1. TypeOK'
    BY <1>1, HandlerKeepsTypes DEF TypeInv
  <2>2. UNCHANGED <<wpc, wjob, wres>>
    BY <1>1, HandlerKeepsWorkers
  <2> QED
    BY <2>1, <2>2 DEF TypeInv, BusyHoldsJob, LateTimedOut
<1>2. ASSUME NEW w \in Workers, Worker(w) PROVE TypeInv'
  BY <1>2, WorkerKeepsTypes, WorkerKeepsBusy DEF TypeInv
<1>3. CASE UNCHANGED vars
  BY <1>3 DEF TypeInv, TypeOK, BusyHoldsJob, LateTimedOut, vars, handlerVars, mapVars,
              logVars, workerVars, poolVars
<1> QED
  BY <1>1, <1>2, <1>3 DEF Next

(* Type correctness with the strengthening the steps need (worker_loop). *)
THEOREM TypeInvariant == Spec => []TypeInv
BY InitTypes, TypeInvInductive, PTL DEF Spec

(* Type correctness: every variable stays in its domain and the channel     *)
(* never holds more than queue_size requests, for all values of the         *)
(* constants (enqueue_record, worker_loop).                                 *)
THEOREM TypeCorrect == Spec => []TypeOK
<1>1. TypeInv => TypeOK
  BY DEF TypeInv
<1> QED
  BY <1>1, TypeInvariant, PTL
-----------------------------------------------------------------------------
(***************************************************************************)
(* One owner per job                                                       *)
(*                                                                         *)
(* OneOwner is inductive given the types.  Only try_send adds to what is   *)
(* in flight, and the record it adds belongs to a page that was not sent   *)
(* before; UUIDs are fresh, so it is not the record of any other page      *)
(* (PagesAssumption).  recv moves the head of the queue to an idle worker. *)
(***************************************************************************)

(* What a step of a handler may change of the queue and of its position. *)
LEMMA HandlerFrame ==
    ASSUME TypeOK, NEW r \in Requests, Handler(r) \/ DropHandler(r)
    PROVE  /\ rpc[r] # "accepted"
           /\ \A s \in Requests \ {r} : rpc'[s] = rpc[s]
           /\ TrySend(r) \/ UNCHANGED <<page, queue>>
BY DEF TypeOK, Handler, Go, HandlerSteps, handlerVars, EnsureWorkersReady, PrepareSubmission, RefuseSubmission, EnsureQueueHasCapacity, CheckFull, InsertRecord, AppendSubmission, AppendSubmissionFails, TrySendFails, RollbackUnqueued, PersistUnqueued, DropHandler, TrySend

(* What a step of a worker may change of the queue and of its request. *)
LEMMA WorkerFrame ==
    ASSUME NEW w \in Workers, Worker(w)
    PROVE  /\ UNCHANGED <<rpc, page>>
           /\ \/ Receive(w)
              \/ UNCHANGED <<queue, wjob>>
              \/ UNCHANGED queue /\ wjob' = [wjob EXCEPT ![w] = NoJob]
BY DEF Worker, handlerVars, InitializeWorker, InitializeWorkerFails, Receive, MarkRunning, InferenceSucceeds, InferenceFails, InferencePanics, InferenceTimesOut, FinishRecord, AppendResult, SendWebhook, CleanupArtifacts, RetainRecentJobs, LateReturn, StopWorker

(* The page a handler has not yet sent is not the record of a sent page. *)
LEMMA CurrentJobUnsent ==
    ASSUME TypeOK, NEW r \in Requests, rpc[r] # "accepted"
    PROVE  CurrentJob(r) \notin SentJobs
<1> SUFFICES ASSUME CurrentJob(r) \in SentJobs PROVE FALSE
  OBVIOUS
<1>1. PICK s \in Requests :
        \E i \in DOMAIN PagesOf[s] : CurrentJob(r) = PagesOf[s][i] /\ IsSent(s, i)
  BY DEF SentJobs
<1>2. PICK i \in DOMAIN PagesOf[s] : CurrentJob(r) = PagesOf[s][i] /\ IsSent(s, i)
  BY <1>1
<1>3. s = r /\ i = page[r]
  BY <1>2, CurrentPage, PagesAssumption DEF CurrentJob
<1> QED
  BY <1>2, <1>3 DEF IsSent, TypeOK

(* try_send either moves on to the next page or ends the submission. *)
LEMMA TrySendPage ==
    ASSUME TypeOK, NEW r \in Requests, TrySend(r)
    PROVE  \/ \A s \in Requests : page'[s] = IF s = r THEN page[s] + 1 ELSE page[s]
           \/ page' = page /\ rpc'[r] = "accepted"
<1>1. CASE page[r] < Len(PagesOf[r])
  <2>1. page' = [page EXCEPT ![r] = page[r] + 1]
    BY <1>1 DEF TrySend
  <2> QED
    BY <2>1 DEF TypeOK
<1>2. CASE ~(page[r] < Len(PagesOf[r]))
  BY <1>2 DEF TrySend, Go, TypeOK
<1> QED
  BY <1>1, <1>2

(* Sent pages stay sent. *)
LEMMA SentJobsGrow ==
    ASSUME TypeOK, NEW r \in Requests, Handler(r) \/ DropHandler(r)
    PROVE  SentJobs \subseteq SentJobs'
<1>1. ASSUME NEW s \in Requests
      PROVE  page'[s] = page[s] \/ (s = r /\ page'[s] = page[s] + 1)
  <2>1. CASE TrySend(r)
    <3>1. CASE page' = page
      BY <3>1
    <3>2. CASE \A q \in Requests : page'[q] = IF q = r THEN page[q] + 1 ELSE page[q]
      BY <3>2
    <3> QED
      BY <2>1, <3>1, <3>2, TrySendPage
  <2>2. CASE UNCHANGED <<page, queue>>
    BY <2>2
  <2> QED
    BY <2>1, <2>2, HandlerFrame
<1>2. ASSUME NEW s \in Requests, NEW i \in DOMAIN PagesOf[s], IsSent(s, i)
      PROVE  IsSent(s, i)'
  <2>1. CASE s = r
    <3>1. i < page[s]
      BY <1>2, <2>1, HandlerFrame DEF IsSent
    <3>2. page[s] \in Nat /\ i \in Nat
      BY PagesAssumption DEF TypeOK
    <3> QED
      BY <1>1, <3>1, <3>2 DEF IsSent
  <2>2. CASE s # r
    BY <1>1, <1>2, <2>2, HandlerFrame DEF IsSent
  <2> QED
    BY <2>1, <2>2
<1> QED
  BY <1>2 DEF SentJobs

(* The record try_send takes counts as sent afterwards. *)
LEMMA TrySendSends ==
    ASSUME TypeOK, NEW r \in Requests, TrySend(r)
    PROVE  CurrentJob(r) \in SentJobs'
<1>1. page[r] \in DOMAIN PagesOf[r] /\ CurrentJob(r) \in Jobs
  BY CurrentPage
<1>2. page'[r] = page[r] + 1 \/ (page' = page /\ rpc'[r] = "accepted")
  <2>1. CASE \A s \in Requests : page'[s] = IF s = r THEN page[s] + 1 ELSE page[s]
    BY <2>1
  <2> QED
    BY <2>1, TrySendPage
<1>3. page[r] < page'[r] \/ (page[r] = page'[r] /\ rpc'[r] = "accepted")
  BY <1>2 DEF TypeOK
<1>4. \E i \in DOMAIN PagesOf[r] :
        /\ CurrentJob(r) = PagesOf[r][i]
        /\ i < page'[r] \/ (i = page'[r] /\ rpc'[r] = "accepted")
  BY <1>1, <1>3 DEF CurrentJob
<1> QED
  BY <1>1, <1>4 DEF SentJobs, IsSent

(* try_send: the new request is nowhere else. *)
LEMMA TrySendKeepsOwner ==
    ASSUME TypeOK, OneOwner, NEW r \in Requests, TrySend(r)
    PROVE  OneOwner'
<1> DEFINE c == CurrentJob(r)
<1>1. c \in Jobs /\ c \notin SentJobs
  BY CurrentPage, CurrentJobUnsent DEF TrySend, Go
<1>2. c \notin InQueue /\ c \notin Held
  BY <1>1 DEF OneOwner, InFlight
<1>3. queue' = Append(queue, c) /\ wjob' = wjob
  BY DEF TrySend, workerVars
<1>4. /\ DOMAIN queue' = 1..(Len(queue) + 1)
      /\ \A i \in DOMAIN queue' : queue'[i] = IF i = Len(queue) + 1 THEN c ELSE queue[i]
  BY <1>1, <1>3 DEF TypeOK
<1>5. DOMAIN queue = 1..Len(queue) /\ Len(queue) \in Nat
  BY DEF TypeOK
<1>6. \A i \in DOMAIN queue : queue[i] # c
  BY <1>2 DEF InQueue
<1>7. \A i, k \in DOMAIN queue' : queue'[i] = queue'[k] => i = k
  BY <1>4, <1>5, <1>6 DEF OneOwner
<1>8. InQueue' \subseteq InQueue \cup {c}
  BY <1>4, <1>5 DEF InQueue
<1>9. Held' = Held
  BY <1>3 DEF Held
<1>10. SentJobs \subseteq SentJobs' /\ c \in SentJobs'
  BY SentJobsGrow, TrySendSends DEF Handler
<1> QED
  BY <1>2, <1>3, <1>7, <1>8, <1>9, <1>10 DEF OneOwner, InFlight

(* recv: the head of the queue moves to a worker that held nothing. *)
LEMMA ReceiveKeepsOwner ==
    ASSUME TypeInv, OneOwner, NEW w \in Workers, Receive(w)
    PROVE  OneOwner'
<1> DEFINE h == Head(queue)
<1>1. /\ queue # <<>>
      /\ queue' = Tail(queue)
      /\ wjob' = [wjob EXCEPT ![w] = h]
  BY DEF Receive
<1>2. /\ h = queue[1]
      /\ 1 \in DOMAIN queue
      /\ DOMAIN queue = 1..Len(queue)
      /\ DOMAIN queue' = 1..(Len(queue) - 1)
      /\ Len(queue) \in Nat
      /\ \A i \in DOMAIN queue' : queue'[i] = queue[i + 1]
  BY <1>1 DEF TypeInv, TypeOK
<1>3. wjob[w] = NoJob
  BY DEF TypeInv, BusyHoldsJob, Receive, Step, Finishing
<1>4. h \in InQueue /\ h \notin Held /\ h # NoJob
  <2>1. h \in InQueue
    BY <1>2 DEF InQueue
  <2>2. h \in Jobs
    BY <1>2 DEF TypeInv, TypeOK
  <2> QED
    BY <2>1, <2>2, ConfigAssumption DEF OneOwner
<1>5. \A i, k \in DOMAIN queue' : queue'[i] = queue'[k] => i = k
  BY <1>2 DEF OneOwner
<1>6. InQueue' \subseteq InQueue /\ h \notin InQueue'
  BY <1>2 DEF InQueue, OneOwner
<1>7. wjob \in [Workers -> Jobs \cup {NoJob}]
  BY DEF TypeInv, TypeOK
<1>8. Held' \subseteq Held \cup {h}
  BY <1>1, <1>7 DEF Held
<1>9. \A v \in Workers : wjob[v] # h
  BY <1>4 DEF Held
<1>10. \A u, v \in Workers : wjob'[u] = wjob'[v] /\ wjob'[u] # NoJob => u = v
  BY <1>1, <1>7, <1>9 DEF OneOwner
<1>11. SentJobs' = SentJobs
  BY DEF Receive, handlerVars, SentJobs, IsSent
<1> QED
  BY <1>4, <1>5, <1>6, <1>8, <1>10, <1>11 DEF OneOwner, InFlight

(* Ownership is preserved by every step of every handler and worker. *)
LEMMA OneOwnerInductive == TypeInv /\ OneOwner /\ [Next]_vars => OneOwner'
<1> SUFFICES ASSUME TypeInv, OneOwner, [Next]_vars PROVE OneOwner'
  OBVIOUS
<1>1. ASSUME NEW r \in Requests, Handler(r) \/ DropHandler(r) PROVE OneOwner'
  <2>1. CASE TrySend(r)
    BY <2>1, TrySendKeepsOwner DEF TypeInv
  <2>2. CASE UNCHANGED <<page, queue>>
    <3>1. wjob' = wjob
      BY <1>1, HandlerKeepsWorkers
    <3>2. SentJobs \subseteq SentJobs'
      BY <1>1, SentJobsGrow DEF TypeInv
    <3> QED
      BY <2>2, <3>1, <3>2 DEF OneOwner, InFlight, InQueue, Held
  <2> QED
    BY <1>1, <2>1, <2>2, HandlerFrame DEF TypeInv
<1>2. ASSUME NEW w \in Workers, Worker(w) PROVE OneOwner'
  <2>1. SentJobs' = SentJobs
    BY <1>2, WorkerFrame DEF SentJobs, IsSent
  <2>2. CASE Receive(w)
    BY <2>2, ReceiveKeepsOwner
  <2>3. CASE UNCHANGED <<queue, wjob>>
    BY <2>1, <2>3 DEF OneOwner, InFlight, InQueue, Held
  <2>4. CASE UNCHANGED queue /\ wjob' = [wjob EXCEPT ![w] = NoJob]
    <3>1. wjob \in [Workers -> Jobs \cup {NoJob}]
      BY DEF TypeInv, TypeOK
    <3>2. \A v \in Workers : wjob'[v] = IF v = w THEN NoJob ELSE wjob[v]
      BY <2>4, <3>1
    <3>3. Held' \subseteq Held /\ InQueue' = InQueue
      BY <2>4, <3>2 DEF Held, InQueue
    <3> QED
      BY <2>1, <2>4, <3>2, <3>3 DEF OneOwner, InFlight
  <2> QED
    BY <1>2, <2>2, <2>3, <2>4, WorkerFrame
<1>3. CASE UNCHANGED vars
  BY <1>3 DEF OneOwner, InFlight, InQueue, Held, SentJobs, IsSent, vars, handlerVars,
              workerVars
<1> QED
  BY <1>1, <1>2, <1>3 DEF Next

(* Every accepted job is in exactly one place, and only accepted jobs are   *)
(* anywhere: no job is run by two workers or twice at once, no refused one  *)
(* is run, whatever the interleaving of handlers and workers.               *)
THEOREM OwnershipCorrect == Spec => []OneOwner
<1>1. Init => OneOwner
  BY DEF Init, OneOwner, InFlight, InQueue, Held
<1> QED
  BY <1>1, TypeInvariant, OneOwnerInductive, PTL DEF Spec
-----------------------------------------------------------------------------
(***************************************************************************)
(* The readiness count                                                     *)
(*                                                                         *)
(* A worker enters Serving only when mark_initialized counts it, and each  *)
(* way out of Serving (the timeout, the stop after a panic) is uncounted   *)
(* by mark_stopped.  The second mark_stopped of a timed-out worker finds   *)
(* it outside Serving, so it can only lower the count.                     *)
(***************************************************************************)

(* mark_stopped lowers a positive count by one and leaves 0 alone. *)
LEMMA MarkStoppedNat ==
    ASSUME NEW n \in Nat
    PROVE  /\ MarkStopped(n) \in Nat
           /\ MarkStopped(n) <= n
           /\ n > 0 => MarkStopped(n) = n - 1
BY DEF MarkStopped

(* What a step of a worker does to the count and to the serving workers. *)
LEMMA WorkerReady ==
    ASSUME TypeInv, NEW w \in Workers, Worker(w)
    PROVE  \/ ready' = ready + 1 /\ w \notin Serving /\ Serving' = Serving \cup {w}
           \/ ready' = MarkStopped(ready) /\ w \in Serving /\ Serving' = Serving \ {w}
           \/ ready' \in {ready, MarkStopped(ready)} /\ Serving' = Serving
<1> USE DEF TypeInv, TypeOK, Serving, Finishing, Step, workerVars, poolVars
<1>1. CASE InitializeWorker(w)
  BY <1>1 DEF InitializeWorker
<1>2. CASE InitializeWorkerFails(w)
  BY <1>2 DEF InitializeWorkerFails
<1>3. CASE Receive(w)
  BY <1>3 DEF Receive
<1>4. CASE MarkRunning(w)
  BY <1>4 DEF MarkRunning
<1>5. CASE InferenceSucceeds(w)
  BY <1>5 DEF InferenceSucceeds
<1>6. CASE InferenceFails(w)
  BY <1>6 DEF InferenceFails
<1>7. CASE InferencePanics(w)
  BY <1>7 DEF InferencePanics
<1>8. CASE InferenceTimesOut(w)
  BY <1>8 DEF InferenceTimesOut
<1>9. CASE FinishRecord(w)
  BY <1>9 DEF FinishRecord, AfterFinish
<1>10. CASE AppendResult(w)
  BY <1>10 DEF AppendResult
<1>11. CASE SendWebhook(w)
  BY <1>11 DEF SendWebhook
<1>12. CASE CleanupArtifacts(w)
  BY <1>12 DEF CleanupArtifacts
<1>13. CASE RetainRecentJobs(w)
  BY <1>13 DEF RetainRecentJobs, AfterFinish
<1>14. CASE LateReturn(w)
  BY <1>14 DEF LateReturn, LateTimedOut
<1>15. CASE StopWorker(w)
  BY <1>15 DEF StopWorker
<1> QED
  BY <1>1, <1>2, <1>3, <1>4, <1>5, <1>6, <1>7, <1>8, <1>9, <1>10, <1>11, <1>12, <1>13, <1>14, <1>15 DEF Worker

(* The count stays at most the number of serving workers in every step. *)
LEMMA ReadyInductive == TypeInv /\ ReadyNotOverstated /\ [Next]_vars => ReadyNotOverstated'
<1> SUFFICES ASSUME TypeInv, ReadyNotOverstated, [Next]_vars PROVE ReadyNotOverstated'
  OBVIOUS
<1>1. IsFiniteSet(Serving) /\ Cardinality(Serving) \in Nat
  <2>1. IsFiniteSet(Serving)
    BY WorkersAssumption, FS_Subset DEF Serving
  <2> QED
    BY <2>1, FS_CardinalityType
<1>2. ready \in Nat /\ ready <= Cardinality(Serving)
  BY DEF TypeInv, TypeOK, ReadyNotOverstated
<1>3. CASE ready' = ready /\ Serving' = Serving
  BY <1>2, <1>3 DEF ReadyNotOverstated
<1>4. ASSUME NEW r \in Requests, Handler(r) \/ DropHandler(r) PROVE ReadyNotOverstated'
  BY <1>3, <1>4, HandlerKeepsWorkers DEF Serving
<1>5. ASSUME NEW w \in Workers, Worker(w) PROVE ReadyNotOverstated'
  <2>1. CASE ready' = ready + 1 /\ w \notin Serving /\ Serving' = Serving \cup {w}
    <3>1. Cardinality(Serving \cup {w}) = Cardinality(Serving) + 1
      BY <1>1, <2>1, FS_AddElement
    <3> QED
      BY <1>1, <1>2, <2>1, <3>1 DEF ReadyNotOverstated
  <2>2. CASE ready' = MarkStopped(ready) /\ w \in Serving /\ Serving' = Serving \ {w}
    <3>1. Cardinality(Serving \ {w}) = Cardinality(Serving) - 1
      BY <1>1, <2>2, FS_RemoveElement
    <3>2. Cardinality(Serving \ {w}) \in Nat
      BY <1>1, FS_RemoveElement, FS_CardinalityType
    <3>3. CASE ready > 0
      BY <1>1, <1>2, <2>2, <3>1, <3>3, MarkStoppedNat DEF ReadyNotOverstated
    <3>4. CASE ready = 0
      BY <2>2, <3>2, <3>4 DEF ReadyNotOverstated, MarkStopped
    <3> QED
      BY <1>2, <3>3, <3>4
  <2>3. CASE ready' \in {ready, MarkStopped(ready)} /\ Serving' = Serving
    <3>1. ready' <= ready /\ ready' \in Nat
      BY <1>2, <2>3, MarkStoppedNat
    <3> QED
      BY <1>1, <1>2, <2>3, <3>1 DEF ReadyNotOverstated
  <2> QED
    BY <1>5, <2>1, <2>2, <2>3, WorkerReady
<1>6. CASE UNCHANGED vars
  BY <1>3, <1>6 DEF vars, workerVars, poolVars, Serving
<1> QED
  BY <1>4, <1>5, <1>6 DEF Next

(* /ready never reports more workers than can take a request: none that is  *)
(* being initialized, failed for good, or stuck in a timed-out inference,   *)
(* for any number of workers (WorkerPoolState, worker_loop).                *)
THEOREM ReadyCorrect == Spec => []ReadyNotOverstated
<1>1. Init => ReadyNotOverstated
  <2> SUFFICES ASSUME Init PROVE ReadyNotOverstated
    OBVIOUS
  <2>1. Cardinality(Serving) \in Nat
    BY WorkersAssumption, FS_Subset, FS_CardinalityType DEF Serving
  <2> QED
    BY <2>1 DEF Init, ReadyNotOverstated
<1> QED
  BY <1>1, TypeInvariant, ReadyInductive, PTL DEF Spec

(***************************************************************************)
(* The job counters                                                        *)
(*                                                                         *)
(* Sent jobs are counted by the pages that handlers have sent, so the      *)
(* counters balance for an unbounded number of submissions too.            *)
(***************************************************************************)

(* try_send sends the current record and no other. *)
LEMMA TrySendSendsOne ==
    ASSUME TypeOK, NEW r \in Requests, TrySend(r)
    PROVE  SentJobs' = SentJobs \cup {CurrentJob(r)}
<1>1. SentJobs \cup {CurrentJob(r)} \subseteq SentJobs'
  BY SentJobsGrow, TrySendSends DEF Handler
<1>2. ASSUME NEW s \in Requests, NEW i \in DOMAIN PagesOf[s], IsSent(s, i)'
      PROVE  PagesOf[s][i] \in SentJobs \cup {CurrentJob(r)}
  <2>0. PagesOf[s][i] \in Jobs /\ i \in Nat /\ page[s] \in Nat
    BY PagesAssumption DEF TypeOK
  <2>1. CASE s # r
    <3>1. page'[s] = page[s] /\ rpc'[s] = rpc[s]
      BY <2>1, TrySendPage, HandlerFrame DEF Handler
    <3> QED
      BY <1>2, <2>0, <3>1 DEF IsSent, SentJobs
  <2>2. CASE s = r
    <3>1. i < page[r] \/ i = page[r]
      <4>1. CASE \A q \in Requests : page'[q] = IF q = r THEN page[q] + 1 ELSE page[q]
        BY <1>2, <2>0, <2>2, <4>1 DEF IsSent, TrySend, Go, TypeOK
      <4>2. CASE page' = page /\ rpc'[r] = "accepted"
        BY <1>2, <2>0, <2>2, <4>2 DEF IsSent
      <4> QED
        BY <4>1, <4>2, TrySendPage
    <3>2. CASE i < page[r]
      BY <2>0, <2>2, <3>2 DEF IsSent, SentJobs
    <3>3. CASE i = page[r]
      BY <2>2, <3>3 DEF CurrentJob
    <3> QED
      BY <3>1, <3>2, <3>3
  <2> QED
    BY <2>1, <2>2
<1> QED
  BY <1>1, <1>2 DEF SentJobs

(* No other step of a handler changes what was sent. *)
LEMMA SentOnlyBySend ==
    ASSUME TypeOK, NEW r \in Requests, Handler(r) \/ DropHandler(r), ~TrySend(r)
    PROVE  SentJobs' = SentJobs
<1>1. UNCHANGED page /\ rpc[r] # "accepted" /\ rpc'[r] # "accepted"
      /\ \A s \in Requests \ {r} : rpc'[s] = rpc[s]
  <2>1. rpc'[r] # "accepted"
    BY DEF TypeOK, Handler, Go, HandlerSteps, EnsureWorkersReady, PrepareSubmission, RefuseSubmission, EnsureQueueHasCapacity, CheckFull, InsertRecord, AppendSubmission, AppendSubmissionFails, TrySendFails, RollbackUnqueued, PersistUnqueued, DropHandler
  <2> QED
    BY <2>1, HandlerFrame
<1>2. \A s \in Requests : \A i \in DOMAIN PagesOf[s] : IsSent(s, i)' <=> IsSent(s, i)
  BY <1>1 DEF IsSent
<1> QED
  BY <1>2 DEF SentJobs

(* What a step of a worker does to the counters, the jobs computed and the  *)
(* queue                                                                    *)
LEMMA WorkerCounts ==
    ASSUME TypeInv, NEW w \in Workers, Worker(w)
    PROVE  \/ /\ metrics'.started = metrics.started + 1
              /\ \A c \in Counters \ {"started"} : metrics'[c] = metrics[c]
              /\ w \notin Computing /\ Computing' = Computing \cup {w}
              /\ Len(queue) > 0 /\ Len(queue') = Len(queue) - 1
           \/ /\ metrics'.started = metrics.started
              /\ \/ /\ metrics'.succeeded = metrics.succeeded + 1
                    /\ \A c \in Counters \ {"succeeded"} : metrics'[c] = metrics[c]
                 \/ /\ metrics'.failed = metrics.failed + 1
                    /\ metrics'.succeeded = metrics.succeeded
                    /\ \/ UNCHANGED <<metrics.timed_out, metrics.restarts>>
                       \/ /\ metrics'.restarts = metrics.restarts + 1
                          /\ metrics'.timed_out \in {metrics.timed_out, metrics.timed_out + 1}
              /\ w \in Computing /\ Computing' = Computing \ {w}
              /\ queue' = queue
           \/ metrics' = metrics /\ Computing' = Computing /\ queue' = queue
<1> USE DEF TypeInv, TypeOK, Computing, Finishing, Step
<1>1. CASE InitializeWorker(w)
  BY <1>1 DEF InitializeWorker
<1>2. CASE InitializeWorkerFails(w)
  BY <1>2 DEF InitializeWorkerFails
<1>3. CASE Receive(w)
  <2>1. Len(queue) > 0 /\ Len(queue') = Len(queue) - 1
    BY <1>3 DEF Receive
  <2>2. w \notin Computing /\ Computing' = Computing \cup {w}
    BY <1>3 DEF Receive
  <2>3. /\ metrics'.started = metrics.started + 1
        /\ \A c \in Counters \ {"started"} : metrics'[c] = metrics[c]
    BY <1>3 DEF Receive, Count, Counters
  <2> QED
    BY <2>1, <2>2, <2>3
<1>4. CASE MarkRunning(w)
  BY <1>4 DEF MarkRunning
<1>5. CASE InferenceSucceeds(w) \/ InferenceFails(w) \/ InferencePanics(w) \/ InferenceTimesOut(w)
  <2>1. w \in Computing /\ Computing' = Computing \ {w} /\ queue' = queue
    BY <1>5 DEF InferenceSucceeds, InferenceFails, InferencePanics, InferenceTimesOut
  <2>2. CASE InferenceSucceeds(w)
    <3>1. /\ metrics'.succeeded = metrics.succeeded + 1
          /\ \A c \in Counters \ {"succeeded"} : metrics'[c] = metrics[c]
      BY <2>2 DEF InferenceSucceeds, Count, Counters
    <3> QED
      BY <2>1, <3>1 DEF Counters
  <2>3. CASE InferenceFails(w)
    <3>1. /\ metrics'.failed = metrics.failed + 1
          /\ \A c \in Counters \ {"failed"} : metrics'[c] = metrics[c]
      BY <2>3 DEF InferenceFails, Count, Counters
    <3> QED
      BY <2>1, <3>1 DEF Counters
  <2>4. CASE InferencePanics(w)
    <3>1. /\ metrics'.failed = metrics.failed + 1 /\ metrics'.restarts = metrics.restarts + 1
          /\ \A c \in Counters \ {"failed", "restarts"} : metrics'[c] = metrics[c]
      BY <2>4 DEF InferencePanics, Count, Counters
    <3> QED
      BY <2>1, <3>1 DEF Counters
  <2>5. CASE InferenceTimesOut(w)
    <3>1. /\ metrics'.failed = metrics.failed + 1 /\ metrics'.restarts = metrics.restarts + 1
          /\ metrics'.timed_out = metrics.timed_out + 1
          /\ \A c \in {"started", "succeeded"} : metrics'[c] = metrics[c]
      BY <2>5 DEF InferenceTimesOut, Count, Counters
    <3> QED
      BY <2>1, <3>1 DEF Counters
  <2> QED
    BY <1>5, <2>2, <2>3, <2>4, <2>5
<1>9. CASE FinishRecord(w)
  BY <1>9 DEF FinishRecord, AfterFinish
<1>10. CASE AppendResult(w)
  BY <1>10 DEF AppendResult
<1>11. CASE SendWebhook(w)
  BY <1>11 DEF SendWebhook
<1>12. CASE CleanupArtifacts(w)
  BY <1>12 DEF CleanupArtifacts
<1>13. CASE RetainRecentJobs(w)
  BY <1>13 DEF RetainRecentJobs, AfterFinish
<1>14. CASE LateReturn(w)
  BY <1>14 DEF LateReturn
<1>15. CASE StopWorker(w)
  BY <1>15 DEF StopWorker
<1> QED
  BY <1>1, <1>2, <1>3, <1>4, <1>5, <1>9, <1>10, <1>11, <1>12, <1>13, <1>14, <1>15 DEF Worker

(* What the counters say of the jobs that were started, and what they say   *)
(* of those that were accepted; the former starts anew with every life.     *)
LifeCounts ==
    /\ metrics.started = metrics.succeeded + metrics.failed + Cardinality(Computing)
    /\ metrics.timed_out <= metrics.restarts
    /\ metrics.restarts <= metrics.failed

SentCounts == metrics.started + Len(queue) = Cardinality(SentJobs) /\ IsFiniteSet(SentJobs)

MetricsInv == LifeCounts /\ SentCounts

LEMMA CountsTyped ==
    ASSUME TypeInv
    PROVE  /\ IsFiniteSet(Computing) /\ Cardinality(Computing) \in Nat
           /\ metrics.started \in Nat /\ metrics.succeeded \in Nat /\ metrics.failed \in Nat
           /\ metrics.timed_out \in Nat /\ metrics.restarts \in Nat /\ Len(queue) \in Nat
<1>1. IsFiniteSet(Computing)
  BY WorkersAssumption, FS_Subset DEF Computing
<1> QED
  BY <1>1, FS_CardinalityType DEF TypeInv, TypeOK, Counters

LEMMA LifeCountsInductive == TypeInv /\ LifeCounts /\ [Next]_vars => LifeCounts'
<1> SUFFICES ASSUME TypeInv, LifeCounts, [Next]_vars PROVE LifeCounts'
  OBVIOUS
<1>1. /\ metrics.started \in Nat /\ metrics.succeeded \in Nat /\ metrics.failed \in Nat
      /\ metrics.timed_out \in Nat /\ metrics.restarts \in Nat
      /\ IsFiniteSet(Computing) /\ Cardinality(Computing) \in Nat
  BY CountsTyped
<1>2. /\ metrics.started = metrics.succeeded + metrics.failed + Cardinality(Computing)
      /\ metrics.timed_out <= metrics.restarts /\ metrics.restarts <= metrics.failed
  BY DEF LifeCounts
<1>3. CASE UNCHANGED metrics /\ Computing' = Computing
  BY <1>2, <1>3 DEF LifeCounts
<1>4. ASSUME NEW w \in Workers, Worker(w) PROVE LifeCounts'
  <2>1. CASE /\ metrics'.started = metrics.started + 1
             /\ \A c \in Counters \ {"started"} : metrics'[c] = metrics[c]
             /\ w \notin Computing /\ Computing' = Computing \cup {w}
    <3>1. /\ metrics'.succeeded = metrics.succeeded /\ metrics'.failed = metrics.failed
          /\ metrics'.timed_out = metrics.timed_out /\ metrics'.restarts = metrics.restarts
      BY <2>1 DEF Counters
    <3>2. Cardinality(Computing') = Cardinality(Computing) + 1
      BY <1>1, <2>1, FS_AddElement
    <3> QED
      BY <1>1, <1>2, <2>1, <3>1, <3>2 DEF LifeCounts
  <2>2. CASE /\ metrics'.started = metrics.started
             /\ \/ /\ metrics'.succeeded = metrics.succeeded + 1
                   /\ \A c \in Counters \ {"succeeded"} : metrics'[c] = metrics[c]
                \/ /\ metrics'.failed = metrics.failed + 1
                   /\ metrics'.succeeded = metrics.succeeded
                   /\ \/ UNCHANGED <<metrics.timed_out, metrics.restarts>>
                      \/ /\ metrics'.restarts = metrics.restarts + 1
                         /\ metrics'.timed_out \in {metrics.timed_out, metrics.timed_out + 1}
             /\ w \in Computing /\ Computing' = Computing \ {w}
    <3>1. Cardinality(Computing') = Cardinality(Computing) - 1 /\ Cardinality(Computing') \in Nat
      <4>1. Computing' \subseteq Computing
        BY <2>2
      <4>2. Cardinality(Computing') \in Nat
        BY <1>1, <4>1, FS_Subset, FS_CardinalityType
      <4> QED
        BY <1>1, <2>2, <4>2, FS_RemoveElement
    <3>2. CASE /\ metrics'.succeeded = metrics.succeeded + 1
               /\ \A c \in Counters \ {"succeeded"} : metrics'[c] = metrics[c]
      <4>1. /\ metrics'.failed = metrics.failed /\ metrics'.timed_out = metrics.timed_out
            /\ metrics'.restarts = metrics.restarts
        BY <3>2 DEF Counters
      <4> QED
        BY <1>1, <1>2, <2>2, <3>1, <3>2, <4>1 DEF LifeCounts
    <3>3. CASE /\ metrics'.failed = metrics.failed + 1
               /\ metrics'.succeeded = metrics.succeeded
               /\ UNCHANGED <<metrics.timed_out, metrics.restarts>>
      BY <1>1, <1>2, <2>2, <3>1, <3>3 DEF LifeCounts
    <3>4. CASE /\ metrics'.failed = metrics.failed + 1
               /\ metrics'.succeeded = metrics.succeeded
               /\ metrics'.restarts = metrics.restarts + 1
               /\ metrics'.timed_out \in {metrics.timed_out, metrics.timed_out + 1}
      <4>1. metrics'.timed_out <= metrics'.restarts
        BY <1>1, <1>2, <3>4
      <4> QED
        BY <1>1, <1>2, <2>2, <3>1, <3>4, <4>1 DEF LifeCounts
    <3> QED
      BY <2>2, <3>2, <3>3, <3>4
  <2> QED
    BY <1>3, <1>4, <2>1, <2>2, WorkerCounts
<1>5. ASSUME NEW r \in Requests, Handler(r) \/ DropHandler(r) PROVE LifeCounts'
  BY <1>3, <1>5, HandlerKeepsWorkers DEF Computing
<1>6. CASE UNCHANGED vars
  BY <1>3, <1>6 DEF vars, workerVars, Computing
<1> QED
  BY <1>4, <1>5, <1>6 DEF Next

LEMMA SentCountsInductive == TypeInv /\ SentCounts /\ [Next]_vars => SentCounts'
<1> SUFFICES ASSUME TypeInv, SentCounts, [Next]_vars PROVE SentCounts'
  OBVIOUS
<1>1. metrics.started \in Nat /\ Len(queue) \in Nat /\ Cardinality(SentJobs) \in Nat
  BY CountsTyped, FS_CardinalityType DEF SentCounts
<1>2. CASE UNCHANGED <<metrics, queue>> /\ SentJobs' = SentJobs
  BY <1>2 DEF SentCounts
<1>3. ASSUME NEW r \in Requests, Handler(r) \/ DropHandler(r) PROVE SentCounts'
  <2>1. metrics' = metrics
    BY <1>3, HandlerKeepsWorkers
  <2>2. CASE TrySend(r)
    <3>1. CurrentJob(r) \notin SentJobs
      BY <1>3, HandlerFrame, CurrentJobUnsent DEF TypeInv
    <3>2. SentJobs' = SentJobs \cup {CurrentJob(r)}
      BY <2>2, TrySendSendsOne DEF TypeInv
    <3>3. IsFiniteSet(SentJobs') /\ Cardinality(SentJobs') = Cardinality(SentJobs) + 1
      BY <3>1, <3>2, FS_AddElement DEF SentCounts
    <3>4. Len(queue') = Len(queue) + 1
      BY <2>2, CurrentPage DEF TrySend, TypeInv, TypeOK
    <3> QED
      BY <1>1, <2>1, <3>3, <3>4 DEF SentCounts
  <2>3. CASE ~TrySend(r)
    BY <1>2, <1>3, <2>1, <2>3, SentOnlyBySend, HandlerFrame DEF TypeInv
  <2> QED
    BY <2>2, <2>3
<1>4. ASSUME NEW w \in Workers, Worker(w) PROVE SentCounts'
  <2>1. SentJobs' = SentJobs
    BY <1>4, WorkerFrame DEF SentJobs, IsSent
  <2>2. metrics'.started + Len(queue') = metrics.started + Len(queue)
    <3>1. \/ metrics'.started = metrics.started + 1 /\ Len(queue') = Len(queue) - 1
          \/ metrics'.started = metrics.started /\ queue' = queue
      BY <1>4, WorkerCounts
    <3> QED
      BY <1>1, <3>1
  <2> QED
    BY <2>1, <2>2 DEF SentCounts
<1>5. CASE UNCHANGED vars
  BY <1>2, <1>5 DEF vars, handlerVars, SentJobs, IsSent
<1> QED
  BY <1>3, <1>4, <1>5 DEF Next

LEMMA MetricsInductive == TypeInv /\ MetricsInv /\ [Next]_vars => MetricsInv'
BY LifeCountsInductive, SentCountsInductive DEF MetricsInv

LEMMA NothingSent == Init => SentJobs = {}
<1> SUFFICES ASSUME Init PROVE SentJobs = {}
  OBVIOUS
<1>1. \A r \in Requests : \A i \in DOMAIN PagesOf[r] : ~IsSent(r, i)
  BY PagesAssumption DEF Init, IsSent
<1> QED
  BY <1>1 DEF SentJobs

LEMMA MetricsAtStart == Init => MetricsInv
<1> SUFFICES ASSUME Init PROVE MetricsInv
  OBVIOUS
<1>1. Computing = {} /\ SentJobs = {}
  BY NothingSent DEF Init, Computing
<1>2. Cardinality({}) = 0 /\ IsFiniteSet({})
  BY FS_EmptySet
<1>3. \A c \in Counters : metrics[c] = 0
  BY DEF Init
<1>4. /\ metrics.started = 0 /\ metrics.succeeded = 0 /\ metrics.failed = 0
      /\ metrics.timed_out = 0 /\ metrics.restarts = 0 /\ Len(queue) = 0
  BY <1>3 DEF Counters, Init
<1> QED
  BY <1>1, <1>2, <1>4 DEF MetricsInv, LifeCounts, SentCounts

(* /metrics: every accepted job is counted started once and every started   *)
(* one is succeeded, failed or computing, for any number of submissions and *)
(* workers and whatever times out, panics or is evicted (AppMetrics).       *)
THEOREM MetricsCorrect == Spec => []MetricsBalance
<1>1. MetricsInv => MetricsBalance
  BY DEF MetricsInv, LifeCounts, SentCounts, MetricsBalance
<1> QED
  BY <1>1, MetricsAtStart, TypeInvariant, MetricsInductive, PTL DEF Spec
-----------------------------------------------------------------------------
(***************************************************************************)
(* Images on disk                                                          *)
(*                                                                         *)
(* The images of the pages a handler has still to send are there from the  *)
(* moment they are saved.  Only a handler that has sent nothing removes    *)
(* the images of its pages, and a worker removes that of the job it ends.  *)
(***************************************************************************)
PagesWaiting == {"capacity", "check", "insert", "persist", "send"}

(* A submission that has not passed the capacity check has sent no page. *)
NothingSentYet == \A r \in Requests : rpc[r] \in {"start", "prepare", "capacity"} => page[r] = 1

UnsentOnDisk ==
    \A r \in Requests : rpc[r] \in PagesWaiting =>
        \A i \in DOMAIN PagesOf[r] : i >= page[r] => PagesOf[r][i] \in CallerOwned \cup images

ImageInv == NothingSentYet /\ UnsentOnDisk /\ ImageAvailable

(* UUIDs are fresh: a page of r is a sent job only when r sent that page. *)
LEMMA SentByItsHandler ==
    ASSUME NEW r \in Requests, NEW i \in DOMAIN PagesOf[r], PagesOf[r][i] \in SentJobs
    PROVE  IsSent(r, i)
<1>1. PICK s \in Requests : \E k \in DOMAIN PagesOf[s] : PagesOf[r][i] = PagesOf[s][k] /\ IsSent(s, k)
  BY DEF SentJobs
<1>2. PICK k \in DOMAIN PagesOf[s] : PagesOf[r][i] = PagesOf[s][k] /\ IsSent(s, k)
  BY <1>1
<1> QED
  BY <1>2, PagesAssumption

(* Where the handlers stand *)
LEMMA HandlerPlaces ==
    ASSUME TypeOK, NothingSentYet, NEW r \in Requests, Handler(r) \/ DropHandler(r)
    PROVE  /\ NothingSentYet'
           /\ rpc'[r] \in PagesWaiting => rpc[r] \in PagesWaiting \cup {"prepare"}
           /\ page'[r] >= page[r] /\ \A s \in Requests \ {r} : page'[s] = page[s]
<1> USE DEF TypeOK, NothingSentYet, PagesWaiting, Go, HandlerSteps
<1>1. CASE TrySend(r)
  <2>1. rpc[r] = "send" /\ rpc'[r] \in {"check", "accepted"}
    BY <1>1 DEF TrySend
  <2>2. /\ page'[r] >= page[r] /\ \A s \in Requests \ {r} : page'[s] = page[s]
    <3>1. CASE page' = page
      BY <3>1
    <3>2. CASE \A s \in Requests : page'[s] = IF s = r THEN page[s] + 1 ELSE page[s]
      BY <3>2
    <3> QED
      BY <1>1, <3>1, <3>2, TrySendPage
  <2> QED
    BY <2>1, <2>2, HandlerFrame
<1>2. CASE UNCHANGED <<page, queue>> /\ ~TrySend(r)
  <2>1. /\ rpc'[r] \in {"start", "prepare", "capacity"}
             => rpc[r] \in {"start", "prepare", "capacity"}
        /\ rpc'[r] \in PagesWaiting => rpc[r] \in PagesWaiting \cup {"prepare"}
    BY <1>2 DEF Handler, EnsureWorkersReady, PrepareSubmission, RefuseSubmission, EnsureQueueHasCapacity, CheckFull, InsertRecord, AppendSubmission, AppendSubmissionFails, TrySendFails, RollbackUnqueued, PersistUnqueued, DropHandler
  <2> QED
    BY <1>2, <2>1, HandlerFrame
<1> QED
  BY <1>1, <1>2, HandlerFrame

(* What a handler does to the images *)
LEMMA HandlerImages ==
    ASSUME TypeOK, NEW r \in Requests, Handler(r) \/ DropHandler(r)
    PROVE  \/ /\ images \subseteq images'
              /\ rpc[r] = "prepare" /\ rpc'[r] \in PagesWaiting => Uploaded(r) \subseteq images'
           \/ /\ rpc[r] = "capacity" /\ rpc'[r] \notin PagesWaiting
              /\ images' = images \ PageIds(r)
<1> USE DEF TypeOK, PagesWaiting, Go
<1>1. CASE EnsureQueueHasCapacity(r)
  BY <1>1 DEF EnsureQueueHasCapacity
<1>2. CASE PrepareSubmission(r)
  BY <1>2 DEF PrepareSubmission
<1>3. CASE RefuseSubmission(r) \/ DropHandler(r)
  BY <1>3 DEF RefuseSubmission, DropHandler
<1>4. CASE EnsureWorkersReady(r) \/ CheckFull(r) \/ InsertRecord(r) \/ AppendSubmission(r)
             \/ AppendSubmissionFails(r) \/ TrySend(r) \/ TrySendFails(r)
             \/ RollbackUnqueued(r) \/ PersistUnqueued(r)
  BY <1>4 DEF EnsureWorkersReady, CheckFull, InsertRecord, AppendSubmission, AppendSubmissionFails, TrySend, TrySendFails, RollbackUnqueued, PersistUnqueued
<1> QED
  BY <1>1, <1>2, <1>3, <1>4 DEF Handler

(* Jobs whose image inference still has to read *)
ToRead == InQueue \cup {wjob[w] : w \in Computing}

LEMMA HandlerKeepsImages ==
    ASSUME TypeInv, OneOwner, ImageInv, NEW r \in Requests, Handler(r) \/ DropHandler(r)
    PROVE  ImageInv'
<1>0. TypeOK /\ TypeOK'
  BY HandlerKeepsTypes DEF TypeInv
<1>1. /\ NothingSentYet'
      /\ rpc'[r] \in PagesWaiting => rpc[r] \in PagesWaiting \cup {"prepare"}
      /\ page'[r] >= page[r] /\ \A s \in Requests \ {r} : page'[s] = page[s]
      /\ \A s \in Requests \ {r} : rpc'[s] = rpc[s]
  BY <1>0, HandlerPlaces, HandlerFrame DEF ImageInv
<1>2. \A s \in Requests : /\ page[s] \in Nat /\ page'[s] \in Nat /\ DOMAIN PagesOf[s] \subseteq Nat
                          /\ \A i \in DOMAIN PagesOf[s] : PagesOf[s][i] \in PageIds(s)
  BY <1>0, PagesAssumption DEF TypeOK, PageIds
<1>3. wjob' = wjob /\ Computing' = Computing
  BY HandlerKeepsWorkers DEF Computing
<1>4. CASE /\ images \subseteq images'
           /\ rpc[r] = "prepare" /\ rpc'[r] \in PagesWaiting => Uploaded(r) \subseteq images'
  <2>1. UnsentOnDisk'
    <3> SUFFICES ASSUME NEW s \in Requests, rpc'[s] \in PagesWaiting,
                        NEW i \in DOMAIN PagesOf[s], i >= page'[s]
                 PROVE  PagesOf[s][i] \in CallerOwned \cup images'
      BY DEF UnsentOnDisk
    <3>1. i >= page[s]
      BY <1>1, <1>2
    <3>2. CASE rpc[s] \in PagesWaiting
      BY <1>4, <3>1, <3>2 DEF ImageInv, UnsentOnDisk
    <3>3. CASE s = r /\ rpc[r] = "prepare"
      BY <1>2, <1>4, <3>3 DEF Uploaded
    <3> QED
      BY <1>1, <3>2, <3>3
  <2>2. ToRead' \subseteq ToRead \/ (TrySend(r) /\ ToRead' \subseteq ToRead \cup {CurrentJob(r)})
    <3>1. CASE TrySend(r)
      <4>1. InQueue' \subseteq InQueue \cup {CurrentJob(r)}
        <5>1. queue' = Append(queue, CurrentJob(r))
          BY <3>1 DEF TrySend
        <5>2. CurrentJob(r) \in Jobs /\ queue \in Seq(Jobs)
          BY <1>0, CurrentPage DEF TypeOK
        <5> QED
          BY <5>1, <5>2 DEF InQueue
      <4> QED
        BY <1>3, <3>1, <4>1 DEF ToRead
    <3>2. CASE queue' = queue
      BY <1>3, <3>2 DEF ToRead, InQueue
    <3> QED
      BY <1>0, <3>1, <3>2, HandlerFrame
  <2>3. TrySend(r) => CurrentJob(r) \in CallerOwned \cup images
    <3>1. TrySend(r) => rpc[r] \in PagesWaiting
      BY DEF TrySend, Go, PagesWaiting
    <3>2. page[r] \in DOMAIN PagesOf[r] /\ page[r] >= page[r]
      BY <1>0, <1>2, CurrentPage
    <3> QED
      BY <3>1, <3>2 DEF ImageInv, UnsentOnDisk, CurrentJob
  <2>4. ImageAvailable'
    BY <1>4, <2>2, <2>3 DEF ImageInv, ImageAvailable, ToRead
  <2> QED
    BY <1>1, <2>1, <2>4 DEF ImageInv
<1>5. CASE /\ rpc[r] = "capacity" /\ rpc'[r] \notin PagesWaiting
           /\ images' = images \ PageIds(r)
  <2>1. ~TrySend(r)
    BY <1>5 DEF TrySend, Go
  <2>2. ToRead' = ToRead
    BY <1>0, <1>3, <2>1, HandlerFrame DEF ToRead, InQueue
  <2>3. ToRead \cap PageIds(r) = {}
    <3>1. ASSUME NEW i \in DOMAIN PagesOf[r] PROVE PagesOf[r][i] \notin SentJobs
      <4>1. ~IsSent(r, i)
        BY <1>2, <1>5, PagesAssumption DEF ImageInv, NothingSentYet, IsSent
      <4> QED
        BY <4>1, SentByItsHandler
    <3>2. NoJob \notin PageIds(r)
      BY <1>0, CurrentPage, ConfigAssumption
    <3>3. ToRead \subseteq InFlight \cup {NoJob}
      BY DEF ToRead, InFlight, Held, Computing
    <3> QED
      BY <3>1, <3>2, <3>3 DEF OneOwner, PageIds
  <2>4. ImageAvailable'
    BY <1>5, <2>2, <2>3 DEF ImageInv, ImageAvailable, ToRead
  <2>5. UnsentOnDisk'
    <3> SUFFICES ASSUME NEW s \in Requests, rpc'[s] \in PagesWaiting,
                        NEW i \in DOMAIN PagesOf[s], i >= page'[s]
                 PROVE  PagesOf[s][i] \in CallerOwned \cup images'
      BY DEF UnsentOnDisk
    <3>1. s # r /\ rpc[s] \in PagesWaiting /\ i >= page[s]
      BY <1>1, <1>5
    <3>2. PagesOf[s][i] \in CallerOwned \cup images
      BY <3>1 DEF ImageInv, UnsentOnDisk
    <3>3. PagesOf[s][i] \notin PageIds(r)
      BY <3>1, PagesAssumption DEF PageIds
    <3> QED
      BY <1>5, <3>2, <3>3
  <2> QED
    BY <1>1, <2>4, <2>5 DEF ImageInv
<1> QED
  BY <1>0, <1>4, <1>5, HandlerImages

LEMMA WorkerKeepsImages ==
    ASSUME TypeInv, OneOwner, ImageInv, NEW w \in Workers, Worker(w)
    PROVE  ImageInv'
<1>1. UNCHANGED <<rpc, page>>
  BY WorkerFrame
<1>2. ToRead' \subseteq ToRead
  <2>1. CASE Receive(w)
    <3>1. /\ queue # <<>> /\ queue' = Tail(queue) /\ wjob' = [wjob EXCEPT ![w] = Head(queue)]
          /\ wpc' = [wpc EXCEPT ![w] = "starting"]
      BY <2>1 DEF Receive, Step
    <3>2. InQueue' \subseteq InQueue /\ Head(queue) \in InQueue
      BY <3>1 DEF TypeInv, TypeOK, InQueue
    <3>3. \A v \in Workers \ {w} : wjob'[v] = wjob[v] /\ wpc'[v] = wpc[v]
      BY <3>1 DEF TypeInv, TypeOK
    <3>4. wjob'[w] = Head(queue)
      BY <3>1 DEF TypeInv, TypeOK
    <3> QED
      BY <3>2, <3>3, <3>4 DEF ToRead, Computing
  <2>2. CASE ~Receive(w)
    <3>1. queue' = queue /\ Computing' \subseteq Computing
      BY <2>2 DEF Worker, Step, Computing, TypeInv, TypeOK, InitializeWorker, InitializeWorkerFails, MarkRunning, InferenceSucceeds, InferenceFails, InferencePanics, InferenceTimesOut, FinishRecord, AfterFinish, AppendResult, SendWebhook, CleanupArtifacts, RetainRecentJobs, LateReturn, StopWorker
    <3>2. \A v \in Computing' : wjob'[v] = wjob[v]
      <4>1. wjob' = wjob \/ (wjob' = [wjob EXCEPT ![w] = NoJob] /\ w \notin Computing)
        BY <2>2 DEF Worker, Step, Computing, workerVars, InitializeWorker, InitializeWorkerFails, MarkRunning, InferenceSucceeds, InferenceFails, InferencePanics, InferenceTimesOut, FinishRecord, AppendResult, SendWebhook, CleanupArtifacts, RetainRecentJobs, LateReturn, StopWorker
      <4> QED
        BY <3>1, <4>1 DEF TypeInv, TypeOK, Computing
    <3> QED
      BY <3>1, <3>2 DEF ToRead, InQueue
  <2> QED
    BY <2>1, <2>2
<1>3. CASE images' = images
  BY <1>1, <1>2, <1>3 DEF ImageInv, NothingSentYet, UnsentOnDisk, ImageAvailable, ToRead
<1>4. CASE CleanupArtifacts(w) /\ images' # images
  <2>1. images \ {wjob[w]} \subseteq images'
    BY <1>4 DEF CleanupArtifacts
  <2>2. wpc[w] = "cleanup" /\ wjob[w] \in Held /\ w \notin Computing
    BY <1>4, BusyJob, ConfigAssumption DEF CleanupArtifacts, Step, Held, Computing, TypeInv, Finishing
  <2>3. wjob[w] \notin ToRead
    <3>1. \A v \in Computing : wjob[v] # wjob[w]
      BY <2>2 DEF OneOwner, Computing, Held
    <3> QED
      BY <2>2, <3>1 DEF OneOwner, ToRead
  <2>4. ImageAvailable'
    BY <1>2, <2>1, <2>3 DEF ImageInv, ImageAvailable, ToRead
  <2>5. UnsentOnDisk'
    <3> SUFFICES ASSUME NEW s \in Requests, rpc[s] \in PagesWaiting,
                        NEW i \in DOMAIN PagesOf[s], i >= page[s]
                 PROVE  PagesOf[s][i] \in CallerOwned \cup images'
      BY <1>1 DEF UnsentOnDisk
    <3>1. PagesOf[s][i] \in CallerOwned \cup images
      BY DEF ImageInv, UnsentOnDisk
    <3>2. ~IsSent(s, i)
      BY PagesAssumption DEF IsSent, PagesWaiting, TypeInv, TypeOK
    <3>3. PagesOf[s][i] \notin SentJobs
      BY <3>2, SentByItsHandler
    <3>4. wjob[w] \in SentJobs
      BY <2>2 DEF OneOwner, InFlight
    <3> QED
      BY <2>1, <3>1, <3>3, <3>4
  <2> QED
    BY <1>1, <2>4, <2>5 DEF ImageInv, NothingSentYet
<1> QED
  BY <1>3, <1>4 DEF Worker, InitializeWorker, InitializeWorkerFails, Receive, MarkRunning, InferenceSucceeds, InferenceFails, InferencePanics, InferenceTimesOut, FinishRecord, AppendResult, SendWebhook, RetainRecentJobs, LateReturn, StopWorker

LEMMA ImageInductive == TypeInv /\ OneOwner /\ ImageInv /\ [Next]_vars => ImageInv'
<1> SUFFICES ASSUME TypeInv, OneOwner, ImageInv, [Next]_vars PROVE ImageInv'
  OBVIOUS
<1>1. CASE UNCHANGED vars
  BY <1>1 DEF vars, handlerVars, workerVars, ImageInv, NothingSentYet, UnsentOnDisk, ImageAvailable, InQueue, Computing
<1> QED
  BY <1>1, HandlerKeepsImages, WorkerKeepsImages DEF Next

(* A job that inference still has to read has its image, whatever other     *)
(* submissions are refused, cleaned up or dropped meanwhile (submit.rs      *)
(* cleanup_rendered_pages, worker.rs cleanup_job_artifacts).                *)
THEOREM ImagesStay == Spec => []ImageAvailable
<1>1. Init => ImageInv
  BY DEF Init, ImageInv, NothingSentYet, UnsentOnDisk, PagesWaiting, ImageAvailable, InQueue, Computing
<1>2. ImageInv => ImageAvailable
  BY DEF ImageInv
<1> QED
  BY <1>1, <1>2, TypeInvariant, OwnershipCorrect, ImageInductive, PTL DEF Spec
-----------------------------------------------------------------------------
(***************************************************************************)
(* Outcomes                                                                *)
(*                                                                         *)
(* Nobody decides about a job before a worker finishes it, except that a   *)
(* handler fails the page it could not queue; and what one worker writes   *)
(* while it finishes a job is one outcome.                                 *)
(***************************************************************************)
Settling == {"append", "notify", "cleanup", "retain"}

(* Jobs that are queued or with a worker that has not decided about them *)
Undecided ==
    InQueue \cup {wjob[w] : w \in {v \in Workers : wpc[v] \in {"starting", "infer", "finish"}}}

AgreeOn(j) ==
    \E f \in Terminal : {jobs[j], results[j], notified[j]} \cap Terminal \subseteq {f}

UnsentUnannounced == \A j \in Jobs \ SentJobs : notified[j] = "absent"

(* A handler that is at work has failed none of the pages before it. *)
NoResultYet ==
    \A r \in Requests : rpc[r] \in HandlerSteps =>
        \A i \in DOMAIN PagesOf[r] : i >= page[r] => results[PagesOf[r][i]] = "absent"

(* Nor does it find a record of them but the one it inserted. *)
FreshRecords ==
    \A r \in Requests : rpc[r] \in HandlerSteps =>
        \A i \in DOMAIN PagesOf[r] : i >= page[r] => jobs[PagesOf[r][i]] \in {"absent", "queued"}

NoOutcomeYet ==
    \A j \in Undecided :
        results[j] = "absent" /\ notified[j] = "absent" /\ jobs[j] \notin Terminal

DecidedByWorker ==
    \A w \in Workers : wpc[w] \in Settling =>
        {jobs[wjob[w]], results[wjob[w]], notified[wjob[w]]} \subseteq {"absent", FinalStatus(w)}

OutcomeInv ==
    /\ UnsentUnannounced
    /\ NoResultYet
    /\ FreshRecords
    /\ NoOutcomeYet
    /\ DecidedByWorker
    /\ \A j \in Jobs : AgreeOn(j)

(* What is in flight has been sent, and the rest of it is with one worker. *)
LEMMA UndecidedSent ==
    ASSUME TypeInv, OneOwner
    PROVE  /\ Undecided \subseteq SentJobs /\ SentJobs \subseteq Jobs
           /\ \A w \in Workers : wpc[w] \in Settling =>
                wjob[w] \in SentJobs /\ wjob[w] \notin Undecided
<1>1. ASSUME NEW w \in Workers, wpc[w] \in {"starting", "infer"} \cup Finishing
      PROVE  wjob[w] \in Held /\ wjob[w] # NoJob
  BY <1>1, BusyJob, ConfigAssumption DEF TypeInv, Held
<1>2. Undecided \subseteq SentJobs /\ SentJobs \subseteq Jobs
  BY <1>1 DEF Undecided, OneOwner, InFlight, SentJobs, Finishing
<1>3. ASSUME NEW w \in Workers, wpc[w] \in Settling
      PROVE  wjob[w] \in SentJobs /\ wjob[w] \notin Undecided
  <2>1. wjob[w] \in Held /\ wjob[w] # NoJob
    BY <1>1, <1>3 DEF Settling, Finishing
  <2>2. \A v \in Workers : wpc[v] \in {"starting", "infer", "finish"} => wjob[v] # wjob[w]
    BY <1>3, <2>1 DEF OneOwner, Settling
  <2> QED
    BY <2>1, <2>2 DEF OneOwner, InFlight, Undecided
<1> QED
  BY <1>2, <1>3

(* A worker that holds a job holds one that was sent. *)
LEMMA BusySent ==
    ASSUME TypeInv, OneOwner, NEW w \in Workers, wpc[w] \in {"starting", "infer"} \cup Finishing
    PROVE  wjob[w] \in Jobs /\ wjob[w] # NoJob /\ wjob[w] \in SentJobs
<1>1. wjob[w] \in Jobs /\ wjob[w] # NoJob
  BY BusyJob, ConfigAssumption DEF TypeInv
<1> QED
  BY <1>1 DEF OneOwner, InFlight, Held

(* Handlers touch only a record that was not sent. *)
LEMMA HandlerRecords ==
    ASSUME TypeOK, NEW r \in Requests, Handler(r) \/ DropHandler(r)
    PROVE  /\ rpc[r] \in HandlerSteps
           /\ \A j \in Jobs \ {CurrentJob(r)} : jobs'[j] = jobs[j] /\ results'[j] = results[j]
           /\ jobs'[CurrentJob(r)] \in {jobs[CurrentJob(r)], "absent", "queued"}
           /\ \/ results' = results
              \/ results'[CurrentJob(r)] = "failed" /\ rpc'[r] \notin HandlerSteps /\ page' = page
<1>1. CurrentJob(r) \in Jobs
  BY CurrentPage
<1>2. rpc[r] \in HandlerSteps
  BY DEF Handler, Go, HandlerSteps, EnsureWorkersReady, PrepareSubmission, RefuseSubmission, EnsureQueueHasCapacity, CheckFull, InsertRecord, AppendSubmission, AppendSubmissionFails, TrySend, TrySendFails, RollbackUnqueued, PersistUnqueued, DropHandler
<1>3. CASE InsertRecord(r) \/ RollbackUnqueued(r)
  BY <1>1, <1>2, <1>3 DEF InsertRecord, RollbackUnqueued, logVars, TypeOK
<1>4. CASE PersistUnqueued(r)
  BY <1>1, <1>2, <1>4 DEF PersistUnqueued, AppendFails, Go, TypeOK, HandlerSteps
<1>5. CASE ~(InsertRecord(r) \/ RollbackUnqueued(r) \/ PersistUnqueued(r))
  <2>1. jobs' = jobs /\ results' = results
    BY <1>5 DEF Handler, mapVars, logVars, AppendFails, EnsureWorkersReady, PrepareSubmission, RefuseSubmission, EnsureQueueHasCapacity, CheckFull, AppendSubmission, AppendSubmissionFails, TrySend, TrySendFails, DropHandler
  <2> QED
    BY <1>2, <2>1
<1> QED
  BY <1>3, <1>4, <1>5

(* A page that a handler still has to enqueue is not failed. *)
LEMMA HandlerKeepsNoResult ==
    ASSUME TypeOK, NoResultYet, NEW r \in Requests, Handler(r) \/ DropHandler(r)
    PROVE  NoResultYet'
<1> DEFINE c == CurrentJob(r)
<1>a. TypeOK'
  BY HandlerKeepsTypes
<1>b. /\ rpc[r] \in HandlerSteps
      /\ \A j \in Jobs \ {c} : results'[j] = results[j]
      /\ \/ results' = results
         \/ results'[c] = "failed" /\ rpc'[r] \notin HandlerSteps /\ page' = page
  BY HandlerRecords
<1> SUFFICES ASSUME NEW s \in Requests, rpc'[s] \in HandlerSteps,
                    NEW i \in DOMAIN PagesOf[s], i >= page'[s]
             PROVE  results'[PagesOf[s][i]] = "absent"
  BY DEF NoResultYet
<1>1. PagesOf[s][i] \in Jobs /\ i \in Nat /\ page[s] \in Nat /\ page'[s] \in Nat
  BY <1>a, PagesAssumption DEF TypeOK
<1>2. i >= page[s] /\ rpc[s] \in HandlerSteps
  <2>1. page'[s] >= page[s]
    <3>1. page'[s] = page[s] \/ page'[s] = page[s] + 1
      BY <1>a, TrySendPage, HandlerFrame
    <3> QED
      BY <1>1, <3>1
  <2> QED
    BY <1>a, <1>b, <1>1, <2>1, HandlerFrame
<1>3. results[PagesOf[s][i]] = "absent"
  BY <1>2 DEF NoResultYet
<1>4. CASE s = r
  BY <1>b, <1>3, <1>4
<1>5. CASE s # r
  <2>1. PagesOf[s][i] # c
    BY <1>a, <1>5, CurrentPage, PagesAssumption DEF CurrentJob
  <2> QED
    BY <1>b, <1>1, <1>3, <2>1
<1> QED
  BY <1>4, <1>5

LEMMA HandlerKeepsFresh ==
    ASSUME TypeOK, FreshRecords, NEW r \in Requests, Handler(r) \/ DropHandler(r)
    PROVE  FreshRecords'
<1>1. /\ TypeOK' /\ rpc[r] \in HandlerSteps
      /\ \A j \in Jobs \ {CurrentJob(r)} : jobs'[j] = jobs[j]
      /\ jobs'[CurrentJob(r)] \in {jobs[CurrentJob(r)], "absent", "queued"}
  BY HandlerKeepsTypes, HandlerRecords
<1> SUFFICES ASSUME NEW s \in Requests, rpc'[s] \in HandlerSteps,
                    NEW i \in DOMAIN PagesOf[s], i >= page'[s]
             PROVE  jobs'[PagesOf[s][i]] \in {"absent", "queued"}
  BY DEF FreshRecords
<1>2. PagesOf[s][i] \in Jobs /\ i \in Nat /\ page[s] \in Nat /\ page'[s] \in Nat
  BY <1>1, PagesAssumption DEF TypeOK
<1>3. i >= page[s] /\ rpc[s] \in HandlerSteps
  <2>1. page'[s] = page[s] \/ page'[s] = page[s] + 1
    BY TrySendPage, HandlerFrame
  <2>2. page'[s] >= page[s]
    BY <1>2, <2>1
  <2> QED
    BY <1>1, <1>2, <2>2, HandlerFrame
<1> QED
  BY <1>1, <1>2, <1>3 DEF FreshRecords

LEMMA HandlerKeepsOutcomes ==
    ASSUME TypeInv, OneOwner, OutcomeInv, NEW r \in Requests, Handler(r) \/ DropHandler(r)
    PROVE  OutcomeInv'
<1> DEFINE c == CurrentJob(r)
<1>0. TypeOK /\ TypeOK'
  BY HandlerKeepsTypes DEF TypeInv
<1>1. UNCHANGED <<wpc, wjob, wres, notified>>
  BY HandlerKeepsWorkers
<1>2. c \in Jobs /\ c \notin SentJobs /\ c \notin Undecided
  BY <1>0, CurrentPage, HandlerFrame, CurrentJobUnsent, UndecidedSent
<1>3. /\ rpc[r] \in HandlerSteps
      /\ \A j \in Jobs \ {c} : jobs'[j] = jobs[j] /\ results'[j] = results[j]
      /\ jobs'[c] \in {jobs[c], "absent", "queued"}
      /\ \/ results' = results
         \/ results'[c] = "failed" /\ rpc'[r] \notin HandlerSteps /\ page' = page
  BY <1>0, HandlerRecords
<1>4. SentJobs \subseteq SentJobs'
  BY <1>0, SentJobsGrow
<1>5. UnsentUnannounced'
  BY <1>1, <1>4 DEF OutcomeInv, UnsentUnannounced
<1>6. NoResultYet' /\ FreshRecords'
  BY <1>0, HandlerKeepsNoResult, HandlerKeepsFresh DEF OutcomeInv
<1>c. results[c] = "absent" /\ notified[c] = "absent" /\ jobs[c] \in {"absent", "queued"}
  <2>1. page[r] \in DOMAIN PagesOf[r] /\ page[r] >= page[r]
    BY <1>0, CurrentPage DEF TypeOK
  <2>2. results[c] = "absent" /\ jobs[c] \in {"absent", "queued"}
    BY <1>3, <2>1 DEF OutcomeInv, NoResultYet, FreshRecords, CurrentJob
  <2> QED
    BY <1>2, <2>2 DEF OutcomeInv, UnsentUnannounced
<1>7. NoOutcomeYet'
  <2>1. CASE TrySend(r)
    <3>1. jobs' = jobs /\ results' = results
      BY <2>1 DEF TrySend, mapVars, logVars
    <3>2. results[c] = "absent" /\ notified[c] = "absent" /\ jobs[c] \notin Terminal
      BY <1>c DEF Terminal
    <3>4. Undecided' \subseteq Undecided \cup {c}
      <4>1. InQueue' \subseteq InQueue \cup {c}
        <5>1. queue' = Append(queue, c) /\ queue \in Seq(Jobs)
          BY <1>0, <2>1 DEF TrySend, TypeOK
        <5> QED
          BY <1>2, <5>1 DEF InQueue
      <4> QED
        BY <1>1, <4>1 DEF Undecided
    <3> QED
      BY <1>1, <3>1, <3>2, <3>4 DEF OutcomeInv, NoOutcomeYet
  <2>2. CASE queue' = queue
    <3>1. Undecided' = Undecided
      BY <1>1, <2>2 DEF Undecided, InQueue
    <3>2. \A j \in Undecided : j \in Jobs \ {c}
      BY <1>2, UndecidedSent
    <3> QED
      BY <1>1, <1>3, <3>1, <3>2 DEF OutcomeInv, NoOutcomeYet
  <2> QED
    BY <1>0, <2>1, <2>2, HandlerFrame
<1>8. DecidedByWorker'
  <2>1. \A w \in Workers : wpc[w] \in Settling => wjob[w] \in Jobs \ {c}
    BY <1>2, UndecidedSent
  <2> QED
    BY <1>1, <1>3, <2>1 DEF OutcomeInv, DecidedByWorker, FinalStatus
<1>9. ASSUME NEW j \in Jobs PROVE AgreeOn(j)'
  <2>1. CASE j # c
    BY <1>1, <1>3, <2>1 DEF OutcomeInv, AgreeOn
  <2>2. CASE j = c
    <3>1. notified'[c] = "absent" /\ jobs'[c] \in {"absent", "queued"} /\ results'[c] \in {"absent", "failed"}
      BY <1>1, <1>3, <1>c
    <3> QED
      BY <2>2, <3>1 DEF AgreeOn, Terminal
  <2> QED
    BY <2>1, <2>2
<1> QED
  BY <1>5, <1>6, <1>7, <1>8, <1>9 DEF OutcomeInv

(* A worker writes about its own job only; retention may evict any record. *)
LEMMA WorkerRecords ==
    ASSUME TypeInv, NEW w \in Workers, Worker(w)
    PROVE  /\ \A j \in Jobs \ {wjob[w]} :
                /\ jobs'[j] \in {jobs[j], "absent"}
                /\ results'[j] = results[j] /\ notified'[j] = notified[j]
           /\ \A v \in Workers \ {w} : wpc'[v] = wpc[v] /\ wjob'[v] = wjob[v] /\ wres'[v] = wres[v]
<1>1. \A v \in Workers \ {w} : wpc'[v] = wpc[v] /\ wjob'[v] = wjob[v] /\ wres'[v] = wres[v]
  BY DEF TypeInv, TypeOK, Worker, Step, workerVars, InitializeWorker, InitializeWorkerFails, Receive, MarkRunning, InferenceSucceeds, InferenceFails, InferencePanics, InferenceTimesOut, FinishRecord, AppendResult, SendWebhook, CleanupArtifacts, RetainRecentJobs, LateReturn, StopWorker
<1>2. \A j \in Jobs \ {wjob[w]} : jobs'[j] \in {jobs[j], "absent"}
  <2>1. CASE RetainRecentJobs(w)
    BY <2>1 DEF RetainRecentJobs, RetainRecent
  <2>2. CASE ~RetainRecentJobs(w)
    BY <2>2 DEF TypeInv, TypeOK, Worker, mapVars, InitializeWorker, InitializeWorkerFails, Receive, MarkRunning, InferenceSucceeds, InferenceFails, InferencePanics, InferenceTimesOut, FinishRecord, AppendResult, SendWebhook, CleanupArtifacts, LateReturn, StopWorker
  <2> QED
    BY <2>1, <2>2
<1>3. \A j \in Jobs \ {wjob[w]} : results'[j] = results[j] /\ notified'[j] = notified[j]
  BY DEF TypeInv, TypeOK, Worker, logVars, AppendFails, InitializeWorker, InitializeWorkerFails, Receive, MarkRunning, InferenceSucceeds, InferenceFails, InferencePanics, InferenceTimesOut, FinishRecord, AppendResult, SendWebhook, CleanupArtifacts, RetainRecentJobs, LateReturn, StopWorker
<1> QED
  BY <1>1, <1>2, <1>3

(* What a worker does to the record, the result and the webhook of its job *)
LEMMA WorkerDecides ==
    ASSUME TypeInv, NEW w \in Workers, Worker(w), wjob[w] # NoJob
    PROVE  LET j == wjob[w]  same == results'[j] = results[j] /\ notified'[j] = notified[j]
           IN  \/ /\ wpc[w] \in {"starting", "infer"} /\ wpc'[w] \in {"infer", "finish"}
                  /\ jobs'[j] \in {jobs[j], "running"} /\ same /\ wjob'[w] = j
               \/ /\ wpc[w] = "finish" /\ wpc'[w] \in Settling /\ jobs'[j] = FinalStatus(w)
                  /\ same /\ wjob'[w] = j /\ wres'[w] = wres[w]
               \/ /\ wpc[w] = "finish" /\ jobs'[j] = jobs[j] /\ same /\ wjob'[w] = NoJob
                  /\ wpc'[w] \notin {"starting", "infer"} \cup Finishing
               \/ /\ wpc[w] \in Settling /\ jobs'[j] \in {jobs[j], "absent"}
                  /\ results'[j] \in {results[j], FinalStatus(w)}
                  /\ notified'[j] \in {notified[j], FinalStatus(w)}
                  /\ \/ wpc'[w] \in Settling /\ wjob'[w] = j /\ wres'[w] = wres[w]
                     \/ wjob'[w] = NoJob /\ wpc'[w] \notin {"starting", "infer"} \cup Finishing
<1> USE DEF TypeInv, TypeOK, Step, Settling, workerVars, logVars, mapVars
<1>0. wpc[w] \in {"starting", "infer"} \cup Finishing /\ wjob[w] \in Jobs
  BY DEF BusyHoldsJob
<1>1. CASE MarkRunning(w)
  BY <1>0, <1>1 DEF MarkRunning
<1>2. CASE InferenceSucceeds(w) \/ InferenceFails(w) \/ InferencePanics(w) \/ InferenceTimesOut(w)
  BY <1>0, <1>2 DEF InferenceSucceeds, InferenceFails, InferencePanics, InferenceTimesOut
<1>3. CASE FinishRecord(w)
  <2>1. AfterFinish(w) \notin {"starting", "infer"} \cup Finishing
    BY DEF AfterFinish, Finishing
  <2>2. CASE HasRecord(w)
    BY <1>0, <1>3, <2>2 DEF FinishRecord
  <2>3. CASE ~HasRecord(w)
    BY <1>0, <1>3, <2>1, <2>3 DEF FinishRecord
  <2> QED
    BY <2>2, <2>3
<1>4. CASE AppendResult(w)
  BY <1>0, <1>4 DEF AppendResult, AppendFails
<1>5. CASE SendWebhook(w)
  BY <1>0, <1>5 DEF SendWebhook
<1>6. CASE CleanupArtifacts(w)
  BY <1>0, <1>6 DEF CleanupArtifacts
<1>7. CASE RetainRecentJobs(w)
  <2>1. AfterFinish(w) \notin {"starting", "infer"} \cup Finishing
    BY DEF AfterFinish, Finishing
  <2>2. jobs'[wjob[w]] \in {jobs[wjob[w]], "absent"}
    BY <1>0, <1>7 DEF RetainRecentJobs, RetainRecent
  <2> QED
    BY <1>0, <1>7, <2>1, <2>2 DEF RetainRecentJobs
<1>8. CASE InitializeWorker(w) \/ InitializeWorkerFails(w) \/ Receive(w) \/ LateReturn(w) \/ StopWorker(w)
  BY <1>0, <1>8 DEF InitializeWorker, InitializeWorkerFails, Receive, LateReturn, StopWorker, Finishing
<1> QED
  BY <1>1, <1>2, <1>3, <1>4, <1>5, <1>6, <1>7, <1>8 DEF Worker
(* Without a job a worker only takes the next one. *)
LEMMA IdleWorker ==
    ASSUME TypeInv, NEW w \in Workers, Worker(w), wjob[w] = NoJob
    PROVE  /\ wpc'[w] \notin Settling
           /\ \/ queue # <<>> /\ queue' = Tail(queue) /\ wjob'[w] = Head(queue)
              \/ queue' = queue /\ wpc'[w] \notin {"starting", "infer", "finish"}
<1>0. wpc[w] \notin {"starting", "infer"} \cup Finishing
  BY DEF TypeInv, BusyHoldsJob
<1>1. InitializeWorker(w) \/ InitializeWorkerFails(w) \/ Receive(w) \/ LateReturn(w) \/ StopWorker(w)
  BY <1>0 DEF Worker, Step, Finishing, MarkRunning, InferenceSucceeds, InferenceFails, InferencePanics, InferenceTimesOut, FinishRecord, AppendResult, SendWebhook, CleanupArtifacts, RetainRecentJobs
<1> QED
  BY <1>1 DEF TypeInv, TypeOK, Step, Settling, InitializeWorker, InitializeWorkerFails, Receive, LateReturn, StopWorker

(* The undecided jobs are the ones before, but for the worker's own. *)
LEMMA UndecidedShrinks ==
    ASSUME TypeInv, NEW w \in Workers, Worker(w)
    PROVE  Undecided' \subseteq Undecided
<1>1. \A v \in Workers \ {w} : wpc'[v] = wpc[v] /\ wjob'[v] = wjob[v]
  BY WorkerRecords
<1>2. CASE wjob[w] = NoJob
  <2>1. CASE queue # <<>> /\ queue' = Tail(queue) /\ wjob'[w] = Head(queue)
    <3>1. InQueue' \subseteq InQueue /\ Head(queue) \in InQueue
      BY <2>1 DEF TypeInv, TypeOK, InQueue
    <3> QED
      BY <1>1, <2>1, <3>1 DEF Undecided
  <2>2. CASE queue' = queue /\ wpc'[w] \notin {"starting", "infer", "finish"}
    BY <1>1, <2>2 DEF Undecided, InQueue
  <2> QED
    BY <1>2, <2>1, <2>2, IdleWorker
<1>3. CASE wjob[w] # NoJob
  <2>1. queue' = queue
    BY <1>3, WorkerFrame DEF TypeInv, BusyHoldsJob, Receive, Step, Finishing
  <2>2. wpc'[w] \in {"starting", "infer", "finish"} =>
          wpc[w] \in {"starting", "infer", "finish"} /\ wjob'[w] = wjob[w]
    BY <1>3, WorkerDecides DEF Settling, Finishing
  <2> QED
    BY <1>1, <2>1, <2>2 DEF Undecided, InQueue
<1> QED
  BY <1>2, <1>3

LEMMA WorkerKeepsNoResult ==
    ASSUME TypeInv, OneOwner, NoResultYet, NEW w \in Workers, Worker(w)
    PROVE  NoResultYet'
<1> DEFINE d == wjob[w]
<1>a. UNCHANGED <<rpc, page>>
  BY WorkerFrame
<1>b. \A j \in Jobs \ {d} : results'[j] = results[j]
  BY WorkerRecords
<1>c. d # NoJob => d \in SentJobs
  BY DEF OneOwner, InFlight, Held
<1> SUFFICES ASSUME NEW s \in Requests, rpc[s] \in HandlerSteps,
                    NEW i \in DOMAIN PagesOf[s], i >= page[s]
             PROVE  results'[PagesOf[s][i]] = "absent"
  BY <1>a DEF NoResultYet
<1>1. PagesOf[s][i] \in Jobs /\ ~IsSent(s, i)
  BY PagesAssumption DEF IsSent, HandlerSteps, TypeInv, TypeOK
<1>2. PagesOf[s][i] \notin SentJobs
  BY <1>1, SentByItsHandler
<1> QED
  BY <1>b, <1>c, <1>1, <1>2, ConfigAssumption DEF NoResultYet

LEMMA WorkerKeepsFresh ==
    ASSUME TypeInv, OneOwner, FreshRecords, NEW w \in Workers, Worker(w)
    PROVE  FreshRecords'
<1>1. UNCHANGED <<rpc, page>> /\ \A j \in Jobs \ {wjob[w]} : jobs'[j] \in {jobs[j], "absent"}
  BY WorkerFrame, WorkerRecords
<1>2. wjob[w] # NoJob => wjob[w] \in SentJobs
  BY DEF OneOwner, InFlight, Held
<1> SUFFICES ASSUME NEW s \in Requests, rpc[s] \in HandlerSteps,
                    NEW i \in DOMAIN PagesOf[s], i >= page[s]
             PROVE  jobs'[PagesOf[s][i]] \in {"absent", "queued"}
  BY <1>1 DEF FreshRecords
<1>3. PagesOf[s][i] \in Jobs /\ ~IsSent(s, i)
  BY PagesAssumption DEF IsSent, HandlerSteps, TypeInv, TypeOK
<1>4. PagesOf[s][i] \notin SentJobs
  BY <1>3, SentByItsHandler
<1> QED
  BY <1>1, <1>2, <1>3, <1>4, ConfigAssumption DEF FreshRecords

LEMMA WorkerKeepsOutcomes ==
    ASSUME TypeInv, OneOwner, OutcomeInv, NEW w \in Workers, Worker(w)
    PROVE  OutcomeInv'
<1> DEFINE d == wjob[w]
           Same(j) == results'[j] = results[j] /\ notified'[j] = notified[j]
<1>0. FinalStatus(w) \in Terminal /\ (d # NoJob => d \in Jobs)
  BY DEF FinalStatus, Terminal, TypeInv, TypeOK
<1>1. /\ UNCHANGED <<rpc, page>> /\ SentJobs' = SentJobs
      /\ Undecided' \subseteq Undecided /\ Undecided \subseteq SentJobs /\ SentJobs \subseteq Jobs
  BY WorkerFrame, UndecidedShrinks, UndecidedSent DEF SentJobs, IsSent
<1>2. /\ \A j \in Jobs \ {d} : jobs'[j] \in {jobs[j], "absent"} /\ Same(j)
      /\ \A v \in Workers \ {w} : wpc'[v] = wpc[v] /\ wjob'[v] = wjob[v] /\ wres'[v] = wres[v]
  BY WorkerRecords
<1>3. d # NoJob => d \in SentJobs
  BY DEF OneOwner, InFlight, Held
<1>4. UnsentUnannounced'
  <2>1. \A j \in Jobs \ SentJobs : j # d
    BY <1>3, ConfigAssumption
  <2> QED
    BY <1>1, <1>2, <2>1 DEF OutcomeInv, UnsentUnannounced
<1>5. NoResultYet' /\ FreshRecords'
  BY WorkerKeepsNoResult, WorkerKeepsFresh DEF OutcomeInv
<1>6. \A j \in Jobs \ {d} : AgreeOn(j)'
  BY <1>2 DEF OutcomeInv, AgreeOn, Terminal
<1>7. ASSUME NEW v \in Workers \ {w}, wpc[v] \in Settling
      PROVE  {jobs'[wjob[v]], results'[wjob[v]], notified'[wjob[v]]}
                \subseteq {"absent", FinalStatus(v)}
  <2>1. wjob[v] \in Jobs /\ wjob[v] # d
    BY <1>7, BusyJob, ConfigAssumption DEF OneOwner, TypeInv, Settling, Finishing
  <2> QED
    BY <1>2, <1>7, <2>1 DEF OutcomeInv, DecidedByWorker
<1>8. ASSUME wpc'[w] \in Settling =>
                {jobs'[wjob'[w]], results'[wjob'[w]], notified'[wjob'[w]]}
                   \subseteq {"absent", FinalStatus(w)} /\ wres'[w] = wres[w]
      PROVE  DecidedByWorker'
  BY <1>2, <1>7, <1>8 DEF DecidedByWorker, FinalStatus
<1>9. ASSUME NEW j \in Undecided', j # d
      PROVE  results'[j] = "absent" /\ notified'[j] = "absent" /\ jobs'[j] \notin Terminal
  <2>1. j \in Jobs /\ j \in Undecided
    BY <1>1, <1>9
  <2> QED
    BY <1>2, <1>9, <2>1 DEF OutcomeInv, NoOutcomeYet, Terminal
<1>10. CASE d = NoJob
  <2>1. wpc'[w] \notin Settling
    BY <1>10, IdleWorker
  <2>2. d \notin Jobs
    BY <1>10, ConfigAssumption
  <2>3. NoOutcomeYet'
    BY <1>1, <1>9, <2>2 DEF NoOutcomeYet
  <2> QED
    BY <1>4, <1>5, <1>6, <1>8, <2>1, <2>2, <2>3 DEF OutcomeInv
<1>11. CASE d # NoJob
  <2>0. d \in Jobs /\ (wpc[w] \in {"starting", "infer", "finish"} => d \in Undecided)
    BY <1>0, <1>11 DEF Undecided
  <2>1. CASE /\ wpc[w] \in {"starting", "infer"} /\ wpc'[w] \in {"infer", "finish"}
             /\ jobs'[d] \in {jobs[d], "running"} /\ Same(d) /\ wjob'[w] = d
    <3>1. results'[d] = "absent" /\ notified'[d] = "absent" /\ jobs'[d] \notin Terminal
      BY <2>0, <2>1 DEF OutcomeInv, NoOutcomeYet, Terminal
    <3>2. NoOutcomeYet'
      BY <1>9, <3>1 DEF NoOutcomeYet
    <3>3. DecidedByWorker'
      BY <1>8, <2>1 DEF Settling
    <3>4. \A j \in Jobs : j = d => AgreeOn(j)'
      BY <3>1 DEF AgreeOn, Terminal
    <3> QED
      BY <1>4, <1>5, <1>6, <3>2, <3>3, <3>4 DEF OutcomeInv
  <2>2. CASE /\ wpc[w] = "finish" /\ wpc'[w] \in Settling /\ jobs'[d] = FinalStatus(w)
             /\ Same(d) /\ wjob'[w] = d /\ wres'[w] = wres[w]
    <3>1. results'[d] = "absent" /\ notified'[d] = "absent"
      BY <2>0, <2>2 DEF OutcomeInv, NoOutcomeYet
    <3>2. d \notin Undecided'
      <4>1. d \in Held /\ d \notin InQueue
        BY <1>11 DEF Held, OneOwner
      <4>2. queue' = queue
        BY <1>11, WorkerFrame DEF TypeInv, BusyHoldsJob, Receive, Step, Finishing
      <4>3. \A v \in Workers : wpc'[v] \in {"starting", "infer", "finish"} => wjob'[v] # d
        BY <1>2, <1>11, <2>2 DEF OneOwner, Settling
      <4> QED
        BY <4>1, <4>2, <4>3 DEF Undecided, InQueue
    <3>3. NoOutcomeYet'
      BY <1>9, <3>2 DEF NoOutcomeYet
    <3>4. DecidedByWorker'
      BY <1>8, <2>2, <3>1
    <3>5. \A j \in Jobs : j = d => AgreeOn(j)'
      BY <1>0, <2>2, <3>1 DEF AgreeOn, Terminal
    <3> QED
      BY <1>4, <1>5, <1>6, <3>3, <3>4, <3>5 DEF OutcomeInv
  <2>3. CASE /\ wpc[w] = "finish" /\ jobs'[d] = jobs[d] /\ Same(d) /\ wjob'[w] = NoJob
             /\ wpc'[w] \notin {"starting", "infer"} \cup Finishing
    <3>1. results'[d] = "absent" /\ notified'[d] = "absent" /\ jobs'[d] \notin Terminal
      BY <2>0, <2>3 DEF OutcomeInv, NoOutcomeYet
    <3>2. NoOutcomeYet'
      BY <1>9, <3>1 DEF NoOutcomeYet
    <3>3. DecidedByWorker'
      BY <1>8, <2>3 DEF Settling, Finishing
    <3>4. \A j \in Jobs : j = d => AgreeOn(j)'
      BY <3>1 DEF AgreeOn, Terminal
    <3> QED
      BY <1>4, <1>5, <1>6, <3>2, <3>3, <3>4 DEF OutcomeInv
  <2>4. CASE /\ wpc[w] \in Settling /\ jobs'[d] \in {jobs[d], "absent"}
             /\ results'[d] \in {results[d], FinalStatus(w)}
             /\ notified'[d] \in {notified[d], FinalStatus(w)}
             /\ \/ wpc'[w] \in Settling /\ wjob'[w] = d /\ wres'[w] = wres[w]
                \/ wjob'[w] = NoJob /\ wpc'[w] \notin {"starting", "infer"} \cup Finishing
    <3>1. {jobs'[d], results'[d], notified'[d]} \subseteq {"absent", FinalStatus(w)}
      BY <2>4 DEF OutcomeInv, DecidedByWorker
    <3>2. d \notin Undecided
      BY <2>4, UndecidedSent
    <3>3. NoOutcomeYet'
      BY <1>1, <1>9, <3>2 DEF NoOutcomeYet
    <3>4. DecidedByWorker'
      BY <1>8, <2>4, <3>1 DEF Settling, Finishing
    <3>5. \A j \in Jobs : j = d => AgreeOn(j)'
      BY <1>0, <3>1 DEF AgreeOn, Terminal
    <3> QED
      BY <1>4, <1>5, <1>6, <3>3, <3>4, <3>5 DEF OutcomeInv
  <2> QED
    BY <1>11, <2>1, <2>2, <2>3, <2>4, WorkerDecides
<1> QED
  BY <1>10, <1>11

LEMMA OutcomeInductive == TypeInv /\ OneOwner /\ OutcomeInv /\ [Next]_vars => OutcomeInv'
<1> SUFFICES ASSUME TypeInv, OneOwner, OutcomeInv, [Next]_vars PROVE OutcomeInv'
  OBVIOUS
<1>1. CASE UNCHANGED vars
  <2>1. UNCHANGED <<rpc, page, jobs, results, notified, queue, wpc, wjob, wres>>
    BY <1>1 DEF vars, handlerVars, mapVars, logVars, workerVars
  <2>2. SentJobs' = SentJobs /\ Undecided' = Undecided
    BY <2>1 DEF SentJobs, IsSent, Undecided, InQueue
  <2> QED
    BY <2>1, <2>2 DEF OutcomeInv, UnsentUnannounced, NoResultYet, FreshRecords, NoOutcomeYet, DecidedByWorker, AgreeOn, FinalStatus
<1> QED
  BY <1>1, HandlerKeepsOutcomes, WorkerKeepsOutcomes DEF Next

LEMMA OutcomeAtStart == Init => OutcomeInv
<1> SUFFICES ASSUME Init PROVE OutcomeInv
  OBVIOUS
<1>1. Undecided = {}
  BY DEF Init, Undecided, InQueue
<1>2. UnsentUnannounced /\ NoOutcomeYet
  BY <1>1 DEF Init, UnsentUnannounced, NoOutcomeYet
<1>3. NoResultYet /\ FreshRecords
  BY PagesAssumption DEF Init, NoResultYet, FreshRecords
<1>4. DecidedByWorker
  BY DEF Init, DecidedByWorker, Settling
<1>5. \A j \in Jobs : AgreeOn(j)
  BY DEF Init, AgreeOn, Terminal
<1> QED
  BY <1>2, <1>3, <1>4, <1>5 DEF OutcomeInv

LEMMA AlwaysOutcomeInv == Spec => []OutcomeInv
BY OutcomeAtStart, TypeInvariant, OwnershipCorrect, OutcomeInductive, PTL DEF Spec

LEMMA OneIsAgreed == OutcomeInv => OutcomesAgree
<1> SUFFICES ASSUME OutcomeInv, NEW j \in Jobs
             PROVE  Cardinality({jobs[j], results[j], notified[j]} \cap Terminal) <= 1
  BY DEF OutcomesAgree
<1>1. PICK f \in Terminal : {jobs[j], results[j], notified[j]} \cap Terminal \subseteq {f}
  BY DEF OutcomeInv, AgreeOn
<1>2. IsFiniteSet({f}) /\ Cardinality({f}) = 1
  BY FS_Singleton
<1>3. Cardinality({jobs[j], results[j], notified[j]} \cap Terminal) <= Cardinality({f})
  BY <1>1, <1>2, FS_Subset
<1> QED
  BY <1>2, <1>3

(* The record a client polls, the line in results.jsonl and the record in   *)
(* the webhook give one outcome, whatever a late inference returns and      *)
(* whoever evicts the record meanwhile (finish_job).                        *)
THEOREM OneOutcome == Spec => []OutcomesAgree
BY OneIsAgreed, AlwaysOutcomeInv, PTL
-----------------------------------------------------------------------------
(***************************************************************************)
(* Records that are kept                                                   *)
(*                                                                         *)
(* Retention keeps the records with the fewest later ones, so that it      *)
(* keeps no more than the limit needs updated_at to order the records that *)
(* are there: StrictOrder and Ordered.  A record is set before the queue,  *)
(* and from then on it is accounted for: RecordsOf and ActiveHasOwner.     *)
(***************************************************************************)
StrictOrder ==
    /\ \A j \in Jobs : <<j, j>> \notin older
    /\ \A i, j, k \in Jobs : <<i, j>> \in older /\ <<j, k>> \in older => <<i, k>> \in older

(* Records in the map or the files, those accepted and those of handlers    *)
(* that have built theirs                                                   *)
Prepared == {"capacity", "check", "insert", "persist", "send", "rollback", "persist_rollback"}

Known ==
    Present(jobs) \cup SentJobs \cup submissions \cup Present(results)
      \cup UNION {PageIds(r) : r \in {s \in Requests : rpc[s] \in Prepared}}

Ordered == \A j, k \in Known : j # k => <<j, k>> \in older \/ <<k, j>> \in older

(* Handlers that may have left the current record in the map *)
Inserted == {"persist", "send", "rollback", "accepted", "dropped", "internal_error"}

RecordsOf ==
    \A r \in Requests : \A i \in DOMAIN PagesOf[r] :
        i > page[r] \/ (i = page[r] /\ rpc[r] \notin Inserted) => jobs[PagesOf[r][i]] = "absent"

Ownerless == Present(jobs) \ (Owned \cup Abandoned)

KeptInv ==
    /\ StrictOrder
    /\ Ordered
    /\ IsFiniteSet(Present(jobs))
    /\ ActiveHasOwner
    /\ RetentionCap

RecordInv == KeptInv /\ RecordsOf

LEMMA KnownJobs ==
    ASSUME TypeOK
    PROVE  Known \subseteq Jobs
BY CurrentPage DEF Known, Present, SentJobs, TypeOK

(* now_utc() makes j the latest and leaves the others in their order. *)
LEMMA StampedOrders ==
    ASSUME TypeOK, StrictOrder, Ordered, NEW j \in Jobs, older' = Stamped(older, j),
           Known' \subseteq Known \cup {j}
    PROVE  StrictOrder' /\ Ordered'
<1>1. \A a, b \in Jobs : <<a, b>> \in older' <=> a # j /\ (b = j \/ <<a, b>> \in older)
  BY DEF Stamped
<1>2. Known \subseteq Jobs
  BY KnownJobs
<1> QED
  BY <1>1, <1>2 DEF StrictOrder, Ordered

(* The records of a submission are stamped in the order of its pages. *)
LEMMA PagesStampedOrders ==
    ASSUME TypeOK, StrictOrder, Ordered, NEW r \in Requests,
           older' = PagesStamped(older, r), Known' \subseteq Known \cup PageIds(r)
    PROVE  StrictOrder' /\ Ordered'
<1> DEFINE P == PageIds(r)
           Before(a, b) == \E i, k \in DOMAIN PagesOf[r] :
                              i < k /\ a = PagesOf[r][i] /\ b = PagesOf[r][k]
<1>0. P \subseteq Jobs /\ Known \subseteq Jobs /\ DOMAIN PagesOf[r] \subseteq Nat
  BY KnownJobs, CurrentPage, PagesAssumption
<1>1. \A a, b \in Jobs : <<a, b>> \in older' <=>
        \/ a \notin P /\ <<a, b>> \in older
        \/ a \notin P /\ b \in P
        \/ a \in P /\ b \in P /\ Before(a, b)
  <2> SUFFICES ASSUME NEW a \in Jobs, NEW b \in Jobs
               PROVE  <<a, b>> \in older' <=>
                        \/ a \notin P /\ <<a, b>> \in older
                        \/ a \notin P /\ b \in P
                        \/ a \in P /\ b \in P /\ Before(a, b)
    OBVIOUS
  <2>1. <<a, b>> \in {p \in older : p[1] \notin P} <=> a \notin P /\ <<a, b>> \in older
    OBVIOUS
  <2>2. <<a, b>> \in (Jobs \ P) \X P <=> a \notin P /\ b \in P
    OBVIOUS
  <2>3. <<a, b>> \in {p \in P \X P : \E i, k \in DOMAIN PagesOf[r] :
                                        i < k /\ p = <<PagesOf[r][i], PagesOf[r][k]>>}
          <=> a \in P /\ b \in P /\ Before(a, b)
    OBVIOUS
  <2> QED
    BY <2>1, <2>2, <2>3 DEF PagesStamped
<1>2. \A a, b \in P : a # b => Before(a, b) \/ Before(b, a)
  BY <1>0 DEF PageIds
<1>3. \A a, b, c \in P : /\ ~Before(a, a)
                         /\ Before(a, b) /\ Before(b, c) => Before(a, c)
  <2>1. \A i, k \in DOMAIN PagesOf[r] : PagesOf[r][i] = PagesOf[r][k] => i = k
    BY PagesAssumption
  <2> QED
    BY <1>0, <2>1 DEF PageIds
<1> HIDE DEF Before, P
<1>4. StrictOrder'
  BY <1>0, <1>1, <1>3 DEF StrictOrder
<1>5. Ordered'
  <2> SUFFICES ASSUME NEW a \in Known', NEW b \in Known', a # b
               PROVE  <<a, b>> \in older' \/ <<b, a>> \in older'
    BY DEF Ordered
  <2>1. a \in Jobs /\ b \in Jobs /\ (a \in Known \/ a \in P) /\ (b \in Known \/ b \in P)
    BY <1>0 DEF P
  <2>2. CASE a \in P /\ b \in P
    BY <1>1, <1>2, <2>1, <2>2
  <2>3. CASE ~(a \in P /\ b \in P)
    BY <1>1, <2>1, <2>3 DEF Ordered
  <2> QED
    BY <2>2, <2>3
<1> QED
  BY <1>4, <1>5

(* Records in the map that are later than j *)
LaterRecords(j) == {k \in Present(jobs) : <<j, k>> \in older}

(* The number of later records tells two records apart. *)
LEMMA LaterTells ==
    ASSUME TypeOK, StrictOrder, Ordered, IsFiniteSet(Present(jobs))
    PROVE  /\ \A j : /\ IsFiniteSet(LaterRecords(j)) /\ Cardinality(LaterRecords(j)) \in Nat
                     /\ LaterRecords(j) \subseteq Present(jobs)
           /\ \A j \in Present(jobs) : Cardinality(LaterRecords(j)) < Cardinality(Present(jobs))
           /\ \A j, k \in Present(jobs) :
                Cardinality(LaterRecords(j)) = Cardinality(LaterRecords(k)) => j = k
<1> DEFINE S == Present(jobs)
<1>1. S \subseteq Jobs /\ S \subseteq Known
  BY DEF Present, Known
<1>2. \A j : IsFiniteSet(LaterRecords(j)) /\ Cardinality(LaterRecords(j)) \in Nat
             /\ LaterRecords(j) \subseteq S
  BY FS_Subset, FS_CardinalityType DEF LaterRecords
<1>3. ASSUME NEW j \in S PROVE Cardinality(LaterRecords(j)) < Cardinality(S)
  <2>1. LaterRecords(j) \subseteq S /\ j \in S /\ j \notin LaterRecords(j)
    BY <1>1, <1>3 DEF LaterRecords, StrictOrder
  <2>2. /\ Cardinality(LaterRecords(j)) <= Cardinality(S)
        /\ Cardinality(LaterRecords(j)) # Cardinality(S)
        /\ Cardinality(S) \in Nat
    BY <2>1, FS_Subset, FS_CardinalityType
  <2> QED
    BY <1>2, <2>2
<1>4. ASSUME NEW j \in S, NEW k \in S, <<j, k>> \in older
      PROVE  Cardinality(LaterRecords(j)) # Cardinality(LaterRecords(k))
  <2>1. LaterRecords(k) \subseteq LaterRecords(j) /\ k \in LaterRecords(j) /\ k \notin LaterRecords(k)
    BY <1>1, <1>4 DEF LaterRecords, StrictOrder
  <2>2. LaterRecords(k) # LaterRecords(j)
    BY <2>1
  <2> QED
    BY <1>2, <2>1, <2>2, FS_Subset
<1>5. \A j, k \in S : Cardinality(LaterRecords(j)) = Cardinality(LaterRecords(k)) => j = k
  BY <1>1, <1>4 DEF Ordered
<1> QED
  BY <1>2, <1>3, <1>5

(* So there are at most as many records as there are numbers of later ones. *)
LEMMA RanksBound ==
    ASSUME TypeOK, StrictOrder, Ordered, IsFiniteSet(Present(jobs)),
           NEW R \in SUBSET Present(jobs), NEW lo \in Nat, NEW hi \in Nat, lo <= hi,
           \A j \in R : lo <= Cardinality(LaterRecords(j)) /\ Cardinality(LaterRecords(j)) < hi
    PROVE  IsFiniteSet(R) /\ Cardinality(R) <= hi - lo /\ Cardinality(R) \in Nat
<1> DEFINE rank == [j \in R |-> Cardinality(LaterRecords(j))]
<1>1. rank \in [R -> lo..(hi - 1)]
  <2> SUFFICES ASSUME NEW j \in R PROVE Cardinality(LaterRecords(j)) \in lo..(hi - 1)
    OBVIOUS
  <2>1. Cardinality(LaterRecords(j)) \in Nat
    BY LaterTells
  <2> QED
    BY <2>1
<1>2. \A j, k \in R : rank[j] = rank[k] => j = k
  BY LaterTells
<1>3. rank \in Injection(R, lo..(hi - 1))
  <2> HIDE DEF rank
  <2>1. DOMAIN rank = R
    BY <1>1
  <2> QED
    BY <1>1, <1>2, <2>1 DEF Injection, IsInjective
<1>4. IsFiniteSet(lo..(hi - 1)) /\ Cardinality(lo..(hi - 1)) = hi - lo
  <2>1. lo \in Int /\ hi - 1 \in Int
    OBVIOUS
  <2>2. /\ IsFiniteSet(lo..(hi - 1))
        /\ Cardinality(lo..(hi - 1)) = IF lo > hi - 1 THEN 0 ELSE hi - 1 - lo + 1
    BY <2>1, FS_Interval
  <2> QED
    BY <2>2
<1>5. IsFiniteSet(R) /\ Cardinality(R) <= hi - lo
  BY <1>3, <1>4, FS_Injection
<1> QED
  BY <1>5, FS_CardinalityType

(* recent_records keeps at most `limit` records. *)
LEMMA RecentRecordsBound ==
    ASSUME TypeOK, StrictOrder, Ordered, IsFiniteSet(Present(jobs)), NEW limit \in Nat
    PROVE  /\ RecentRecords(jobs, limit) \subseteq Present(jobs)
           /\ IsFiniteSet(RecentRecords(jobs, limit))
           /\ Cardinality(RecentRecords(jobs, limit)) <= limit
<1> DEFINE R == RecentRecords(jobs, limit)
<1>1. R \subseteq Present(jobs)
  BY DEF RecentRecords
<1>2. ASSUME NEW j \in R
      PROVE  0 <= Cardinality(LaterRecords(j)) /\ Cardinality(LaterRecords(j)) < limit
  <2>1. Cardinality(LaterRecords(j)) < limit
    BY DEF RecentRecords, LaterRecords
  <2>2. Cardinality(LaterRecords(j)) \in Nat
    BY LaterTells
  <2> QED
    BY <2>1, <2>2
<1>3. IsFiniteSet(R) /\ Cardinality(R) <= limit - 0
  <2> HIDE DEF R
  <2>1. 0 \in Nat /\ 0 <= limit
    OBVIOUS
  <2> QED
    BY <1>1, <1>2, <2>1, RanksBound
<1> QED
  BY <1>1, <1>3

(* It keeps that many where there are as many, and they are later than any  *)
(* record it does not keep.                                                 *)
LEMMA RecentRecordsFill ==
    ASSUME TypeOK, StrictOrder, Ordered, IsFiniteSet(Present(jobs)), NEW limit \in Nat,
           NEW j \in Known, Cardinality(LaterRecords(j)) >= limit
    PROVE  /\ RecentRecords(jobs, limit) \subseteq LaterRecords(j)
           /\ Cardinality(RecentRecords(jobs, limit)) >= limit
<1> DEFINE S == Present(jobs)
           R == RecentRecords(jobs, limit)
           later(k) == Cardinality(LaterRecords(k))
           n == Cardinality(S)
<1>0. S \subseteq Known /\ Known \subseteq Jobs /\ R \subseteq S
      /\ \A k : later(k) \in Nat /\ IsFiniteSet(LaterRecords(k)) /\ LaterRecords(k) \subseteq S
  BY KnownJobs, LaterTells DEF Known, RecentRecords
<1>1. \A k \in S : k \in R <=> later(k) < limit
  BY DEF RecentRecords, LaterRecords
<1>2. ASSUME NEW k \in R PROVE k \in LaterRecords(j)
  <2>1. later(k) < limit /\ later(k) \in Nat /\ later(j) \in Nat
    BY <1>0, <1>1, <1>2
  <2>2. k # j
    BY <2>1
  <2>3. ASSUME <<k, j>> \in older PROVE FALSE
    <3>1. LaterRecords(j) \subseteq LaterRecords(k)
      BY <1>0, <2>3 DEF LaterRecords, StrictOrder
    <3>2. later(j) <= later(k)
      BY <1>0, <3>1, FS_Subset
    <3> QED
      BY <2>1, <3>2
  <2>4. <<j, k>> \in older
    BY <1>0, <2>2, <2>3 DEF Ordered
  <2> QED
    BY <1>0, <2>4 DEF LaterRecords
<1>3. n \in Nat /\ n >= limit
  <2>1. n \in Nat /\ later(j) <= n /\ later(j) \in Nat
    BY <1>0, FS_Subset, FS_CardinalityType
  <2> HIDE DEF later, n
  <2> QED
    BY <2>1 DEF later
<1>4. IsFiniteSet(S \ R) /\ Cardinality(S \ R) <= n - limit /\ Cardinality(S \ R) \in Nat
  <2>1. \A k \in S \ R : limit <= later(k) /\ later(k) < n
    <3> SUFFICES ASSUME NEW k \in S \ R PROVE limit <= later(k) /\ later(k) < n
      OBVIOUS
    <3>1. later(k) < n /\ later(k) \in Nat /\ ~(later(k) < limit)
      BY <1>1, LaterTells
    <3> HIDE DEF later, n
    <3> QED
      BY <3>1
  <2> HIDE DEF R, S, n
  <2> QED
    BY <1>3, <2>1, RanksBound DEF S
<1>5. IsFiniteSet(R) /\ Cardinality(R) \in Nat
  BY <1>0, FS_Subset, FS_CardinalityType
<1>6. n = Cardinality(R) + Cardinality(S \ R)
  <2> HIDE DEF R, S
  <2>1. R \cup (S \ R) = S /\ R \cap (S \ R) = {}
    BY <1>0
  <2>2. Cardinality(R \cup (S \ R)) = Cardinality(R) + Cardinality(S \ R) - Cardinality(R \cap (S \ R))
    BY <1>4, <1>5, FS_Union
  <2>3. Cardinality({}) = 0
    BY FS_EmptySet
  <2>4. Cardinality(S) = Cardinality(R) + Cardinality(S \ R) - 0
    BY <2>1, <2>2, <2>3
  <2> QED
    BY <1>4, <1>5, <2>4
<1>7. Cardinality(R) >= limit
  <2> HIDE DEF R, S, n
  <2> QED
    BY <1>3, <1>4, <1>5, <1>6
<1> QED
  BY <1>2, <1>7
-----------------------------------------------------------------------------
(* Records that a handler is or was responsible for *)
Attended ==
    {CurrentJob(r) : r \in {s \in Requests :
        rpc[s] \in {"persist", "send", "rollback", "dropped", "internal_error"}}}

LEMMA AttendedIs == Attended = BeingEnqueued \cup Abandoned
  BY DEF Attended, BeingEnqueued, Abandoned

LEMMA AttendedNext == Attended' = BeingEnqueued' \cup Abandoned'
  BY DEF Attended, BeingEnqueued, Abandoned

(* The steps of a handler, as far as its record is concerned *)
LEMMA HandlerMoves ==
    ASSUME TypeOK, NEW r \in Requests, Handler(r) \/ DropHandler(r)
    PROVE  \/ /\ rpc[r] = "insert" /\ rpc'[r] = "persist" /\ UNCHANGED <<page, queue>>
              /\ jobs' = [jobs EXCEPT ![CurrentJob(r)] = "queued"]
           \/ /\ rpc[r] = "rollback" /\ rpc'[r] = "persist_rollback" /\ UNCHANGED <<page, queue>>
              /\ jobs' = [jobs EXCEPT ![CurrentJob(r)] = "absent"]
           \/ TrySend(r) /\ rpc[r] = "send" /\ jobs' = jobs
           \/ /\ UNCHANGED <<page, queue, jobs>>
              /\ rpc[r] \in {"persist", "send", "rollback"}
                   => rpc'[r] \in {"send", "rollback", "internal_error", "dropped"}
              /\ rpc'[r] \in Inserted \/ rpc[r] \notin Inserted
              /\ rpc[r] \notin {"dropped", "internal_error"}
<1> USE DEF TypeOK, Go, HandlerSteps, Inserted
<1>1. CASE InsertRecord(r)
  BY <1>1 DEF InsertRecord
<1>2. CASE RollbackUnqueued(r)
  BY <1>2 DEF RollbackUnqueued
<1>3. CASE TrySend(r)
  BY <1>3 DEF TrySend, mapVars
<1>4. CASE EnsureWorkersReady(r) \/ PrepareSubmission(r) \/ RefuseSubmission(r)
  BY <1>4 DEF EnsureWorkersReady, PrepareSubmission, RefuseSubmission, mapVars
<1>5. CASE EnsureQueueHasCapacity(r) \/ CheckFull(r)
  BY <1>5 DEF EnsureQueueHasCapacity, CheckFull, mapVars
<1>6. CASE AppendSubmission(r) \/ AppendSubmissionFails(r)
  BY <1>6 DEF AppendSubmission, AppendSubmissionFails, mapVars
<1>7. CASE TrySendFails(r) \/ PersistUnqueued(r)
  BY <1>7 DEF TrySendFails, PersistUnqueued, mapVars
<1>8. CASE DropHandler(r)
  BY <1>8 DEF DropHandler, mapVars
<1> QED
  BY <1>1, <1>2, <1>3, <1>4, <1>5, <1>6, <1>7, <1>8 DEF Handler

(* What a handler does to the order of the records *)
LEMMA HandlerOrders ==
    ASSUME TypeOK, NEW r \in Requests, Handler(r) \/ DropHandler(r)
    PROVE  \/ /\ older' = older \/ older' = Stamped(older, CurrentJob(r))
              /\ rpc'[r] \in Prepared => rpc[r] \in Prepared
           \/ older' = PagesStamped(older, r) /\ jobs' = jobs
<1> USE DEF Go, Prepared, TypeOK
<1>1. CASE PrepareSubmission(r)
  BY <1>1 DEF PrepareSubmission
<1>2. CASE PersistUnqueued(r)
  BY <1>2 DEF PersistUnqueued
<1>3. CASE ~PrepareSubmission(r) /\ ~PersistUnqueued(r)
  BY <1>3 DEF Handler, mapVars, EnsureWorkersReady, RefuseSubmission, EnsureQueueHasCapacity, CheckFull, InsertRecord, AppendSubmission, AppendSubmissionFails, TrySend, TrySendFails, RollbackUnqueued, DropHandler
<1> QED
  BY <1>1, <1>2, <1>3

LEMMA HandlerKeepsOrder ==
    ASSUME TypeOK, StrictOrder, Ordered, NEW r \in Requests, Handler(r) \/ DropHandler(r)
    PROVE  StrictOrder' /\ Ordered'
<1> DEFINE c == CurrentJob(r)
           Files == SentJobs \cup submissions \cup Present(results)
<1>1. c \in Jobs /\ c \in PageIds(r) /\ \A s \in Requests \ {r} : rpc'[s] = rpc[s]
  BY CurrentPage, HandlerFrame DEF CurrentJob, PageIds
<1>2. Present(jobs)' \subseteq Present(jobs) \cup {c} /\ Files' \subseteq Files \cup {c}
  <2>1. \A j \in Jobs \ {c} : jobs'[j] = jobs[j] /\ results'[j] = results[j]
    BY HandlerRecords
  <2>2. SentJobs' \subseteq SentJobs \cup {c}
    BY TrySendSendsOne, SentOnlyBySend
  <2>3. submissions' \subseteq submissions \cup {c}
    BY DEF Handler, EnsureWorkersReady, PrepareSubmission, RefuseSubmission, EnsureQueueHasCapacity, CheckFull, InsertRecord, AppendSubmission, AppendSubmissionFails, TrySend, TrySendFails, RollbackUnqueued, PersistUnqueued, DropHandler, AppendFails, logVars
  <2> QED
    BY <2>1, <2>2, <2>3 DEF Present
<1>3. rpc[r] \in Prepared \/ (jobs' = jobs /\ Files' = Files)
  <2>1. CASE EnsureWorkersReady(r) \/ PrepareSubmission(r) \/ RefuseSubmission(r)
    <3>1. ~TrySend(r) /\ UNCHANGED <<jobs, submissions, results>>
      BY <2>1 DEF EnsureWorkersReady, PrepareSubmission, RefuseSubmission, TrySend, Go, mapVars, logVars
    <3> QED
      BY <2>1, <3>1, SentOnlyBySend DEF Handler, Present
  <2>2. CASE DropHandler(r)
    <3>1. ~TrySend(r) /\ UNCHANGED <<jobs, submissions, results>>
      BY <2>2 DEF DropHandler, TrySend, Go, mapVars, logVars, TypeOK
    <3> QED
      BY <2>2, <3>1, SentOnlyBySend DEF Present
  <2>3. CASE EnsureQueueHasCapacity(r) \/ CheckFull(r) \/ InsertRecord(r) \/ AppendSubmission(r)
               \/ AppendSubmissionFails(r) \/ TrySend(r) \/ TrySendFails(r)
               \/ RollbackUnqueued(r) \/ PersistUnqueued(r)
    BY <2>3 DEF EnsureQueueHasCapacity, CheckFull, InsertRecord, AppendSubmission, AppendSubmissionFails, TrySend, TrySendFails, RollbackUnqueued, PersistUnqueued, Go, Prepared
  <2> QED
    BY <2>1, <2>2, <2>3 DEF Handler
<1>4. Known' \subseteq Known \cup PageIds(r)
  BY <1>1, <1>2 DEF Known
<1>5. CASE /\ older' = older \/ older' = Stamped(older, c)
           /\ rpc'[r] \in Prepared => rpc[r] \in Prepared
  <2>1. c \in Known \/ (jobs' = jobs /\ Files' = Files)
    BY <1>1, <1>3 DEF Known
  <2>2. Known' \subseteq Known
    BY <1>1, <1>2, <1>5, <2>1 DEF Known, Present
  <2>3. CASE older' = older
    BY <2>2, <2>3 DEF StrictOrder, Ordered
  <2>4. CASE older' = Stamped(older, c)
    BY <1>1, <2>2, <2>4, StampedOrders
  <2> QED
    BY <1>5, <2>3, <2>4
<1>6. CASE older' = PagesStamped(older, r)
  BY <1>4, <1>6, PagesStampedOrders
<1> QED
  BY <1>5, <1>6, HandlerOrders

(* Fewer records without an owner keep the limit. *)
LEMMA FewerOwnerless ==
    ASSUME KeptInv, Ownerless' \subseteq Ownerless
    PROVE  RetentionCap'
<1>1. IsFiniteSet(Ownerless)
  BY FS_Subset DEF KeptInv, Ownerless
<1>2. /\ Cardinality(Ownerless') <= Cardinality(Ownerless)
      /\ Cardinality(Ownerless') \in Nat /\ Cardinality(Ownerless) \in Nat
  BY <1>1, FS_Subset, FS_CardinalityType
<1> QED
  BY <1>2, ConfigAssumption DEF KeptInv, RetentionCap, Ownerless

LEMMA HandlerKeepsKept ==
    ASSUME TypeInv, OneOwner, KeptInv, NEW r \in Requests, Handler(r) \/ DropHandler(r)
    PROVE  KeptInv'
<1> DEFINE c == CurrentJob(r)
<1>0. TypeOK /\ TypeOK' /\ jobs \in [Jobs -> Statuses \cup {"absent"}]
  BY HandlerKeepsTypes DEF TypeInv, TypeOK
<1>1. /\ c \in Jobs /\ wjob' = wjob
      /\ \A s \in Requests \ {r} : rpc'[s] = rpc[s] /\ page'[s] = page[s] /\ CurrentJob(s)' = CurrentJob(s)
  <2>1. \A s \in Requests \ {r} : page'[s] = page[s]
    <3>1. CASE TrySend(r)
      BY <1>0, <3>1, TrySendPage
    <3>2. CASE UNCHANGED <<page, queue>>
      BY <3>2
    <3> QED
      BY <1>0, <3>1, <3>2, HandlerFrame
  <2>2. \A s \in Requests \ {r} : CurrentJob(s)' = CurrentJob(s)
    BY <2>1 DEF CurrentJob
  <2>3. \A s \in Requests \ {r} : rpc'[s] = rpc[s]
    BY <1>0, HandlerFrame
  <2>4. c \in Jobs /\ wjob' = wjob
    BY <1>0, CurrentPage, HandlerKeepsWorkers
  <2> QED
    BY <2>1, <2>2, <2>3, <2>4
<1>2. StrictOrder' /\ Ordered'
  BY <1>0, HandlerKeepsOrder DEF KeptInv
<1>3. Present(jobs)' \subseteq Present(jobs) \cup {c} /\ IsFiniteSet(Present(jobs)')
  <2>1. Present(jobs)' \subseteq Present(jobs) \cup {c}
    BY <1>0, HandlerRecords DEF Present
  <2>2. IsFiniteSet(Present(jobs) \cup {c})
    BY FS_AddElement DEF KeptInv
  <2> QED
    BY <2>1, <2>2, FS_Subset
<1>4. \A s \in Requests : \A i \in DOMAIN PagesOf[s] :
        /\ PagesOf[s][i] \in Jobs /\ i \in Nat /\ page[s] \in Nat
        /\ PagesOf[s][i] = c => s = r /\ i = page[r]
  BY <1>0, CurrentPage, PagesAssumption, SMTT(30) DEF TypeOK, CurrentJob
(* It is enough that a record which is there is attended, in flight or was so. *)
<1>5. ASSUME InFlight \subseteq InFlight',
             \A j \in Jobs : jobs'[j] # "absent" =>
                \/ jobs'[j] = jobs[j] /\ (j \in Attended => j \in Attended' \cup InFlight')
                \/ j \in Attended' \cup InFlight'
      PROVE  KeptInv'
  <2>1. ActiveHasOwner'
    BY <1>5, AttendedIs, AttendedNext DEF KeptInv, ActiveHasOwner, Owned
  <2>2. Ownerless' \subseteq Ownerless
    BY <1>5, AttendedIs, AttendedNext DEF Ownerless, Owned, Present
  <2>3. RetentionCap'
    BY <2>2, FewerOwnerless
  <2> QED
    BY <1>2, <1>3, <1>5, <2>1, <2>3 DEF KeptInv
<1>7. ASSUME NEW j \in Attended, j # c PROVE j \in Attended'
  BY <1>1, <1>7 DEF Attended
<1>8. CASE UNCHANGED <<page, queue>>
  <2>1. InFlight' = InFlight
    BY <1>1, <1>8 DEF InFlight, InQueue, Held
  <2>2. CurrentJob(r)' = c
    BY <1>8 DEF CurrentJob
  <2>3. CASE rpc[r] = "insert" /\ rpc'[r] = "persist" /\ jobs' = [jobs EXCEPT ![c] = "queued"]
    <3>2. c \in Attended'
      BY <2>2, <2>3 DEF Attended
    <3>3. \A j \in Jobs \ {c} : jobs'[j] = jobs[j]
      BY <1>0, <1>1, <2>3
    <3> QED
      BY <1>5, <1>7, <2>1, <3>2, <3>3
  <2>4. CASE rpc[r] = "rollback" /\ rpc'[r] = "persist_rollback" /\ jobs' = [jobs EXCEPT ![c] = "absent"]
    <3>2. \A j \in Jobs \ {c} : jobs'[j] = jobs[j]
      BY <2>4
    <3>3. jobs'[c] = "absent"
      BY <1>0, <1>1, <2>4
    <3> QED
      BY <1>5, <1>7, <2>1, <3>2, <3>3
  <2>5. CASE /\ jobs' = jobs
             /\ rpc[r] \in {"persist", "send", "rollback"}
                  => rpc'[r] \in {"send", "rollback", "internal_error", "dropped"}
             /\ rpc'[r] \in Inserted \/ rpc[r] \notin Inserted
             /\ rpc[r] \notin {"dropped", "internal_error"}
    <3>2. c \in Attended => c \in Attended'
      <4>1. ASSUME c \in Attended PROVE rpc[r] \in {"persist", "send", "rollback"}
        <5>1. PICK s \in Requests : CurrentJob(s) = c /\ rpc[s] \in
                {"persist", "send", "rollback", "dropped", "internal_error"}
          BY <4>1 DEF Attended
        <5>2. s = r
          BY <1>0, <1>4, <5>1, CurrentPage DEF CurrentJob
        <5> QED
          BY <2>5, <5>1, <5>2
      <4> QED
        BY <2>2, <2>5, <4>1 DEF Attended
    <3> QED
      BY <1>5, <1>7, <2>1, <2>5, <3>2
  <2>6. CASE TrySend(r)
    <3>1. queue' = Append(queue, c) /\ queue \in Seq(Jobs)
      BY <1>0, <2>6 DEF TrySend, TypeOK
    <3> QED
      BY <1>1, <1>8, <3>1
  <2> QED
    BY <1>0, <1>8, <2>3, <2>4, <2>5, <2>6, HandlerMoves
<1>9. CASE TrySend(r)
  <2>1. queue' = Append(queue, c) /\ queue \in Seq(Jobs) /\ jobs' = jobs
    BY <1>0, <1>9 DEF TrySend, TypeOK, mapVars
  <2>2. InFlight \subseteq InFlight' /\ c \in InFlight'
    <3>1. InQueue \subseteq InQueue' /\ c \in InQueue'
      <4>1. /\ DOMAIN queue' = 1..(Len(queue) + 1) /\ DOMAIN queue = 1..Len(queue)
            /\ Len(queue) \in Nat
            /\ \A i \in DOMAIN queue : queue'[i] = queue[i]
            /\ queue'[Len(queue) + 1] = c
        BY <1>1, <2>1
      <4>2. \A i \in DOMAIN queue : i \in DOMAIN queue'
        BY <4>1
      <4>3. Len(queue) + 1 \in DOMAIN queue'
        BY <4>1
      <4>4. InQueue \subseteq InQueue'
        BY <4>1, <4>2 DEF InQueue
      <4>5. c \in InQueue'
        <5>1. \A i \in DOMAIN queue' : queue'[i] \in InQueue'
          BY DEF InQueue
        <5>2. queue'[Len(queue) + 1] \in InQueue'
          BY <4>3, <5>1
        <5>3. queue'[Len(queue) + 1] = c
          BY <4>1
        <5> QED
          BY <5>2, <5>3
      <4> QED
        BY <4>4, <4>5
    <3> QED
      BY <1>1, <3>1 DEF InFlight, Held
  <2> QED
    BY <1>5, <1>7, <2>1, <2>2
<1> QED
  BY <1>0, <1>8, <1>9, HandlerFrame

LEMMA HandlerKeepsRecordsOf ==
    ASSUME TypeOK, RecordsOf, NEW r \in Requests, Handler(r) \/ DropHandler(r)
    PROVE  RecordsOf'
<1> DEFINE c == CurrentJob(r)
<1>0. /\ TypeOK' /\ c \in Jobs
      /\ \A s \in Requests \ {r} : rpc'[s] = rpc[s] /\ page'[s] = page[s]
  <2>1. \A s \in Requests \ {r} : page'[s] = page[s]
    BY TrySendPage, HandlerFrame
  <2> QED
    BY <2>1, HandlerKeepsTypes, CurrentPage, HandlerFrame
<1>1. \A s \in Requests : \A i \in DOMAIN PagesOf[s] :
        /\ PagesOf[s][i] \in Jobs /\ i \in Nat /\ page[s] \in Nat
        /\ PagesOf[s][i] = c => s = r /\ i = page[r]
  BY CurrentPage, PagesAssumption DEF TypeOK, CurrentJob
<1>2. \A j \in Jobs \ {c} : jobs'[j] = jobs[j]
  BY HandlerRecords
<1>3. \A s \in Requests \ {r} : \A i \in DOMAIN PagesOf[s] :
        i > page'[s] \/ (i = page'[s] /\ rpc'[s] \notin Inserted)
           => jobs'[PagesOf[s][i]] = "absent"
  BY <1>0, <1>1, <1>2 DEF RecordsOf
<1> SUFFICES ASSUME NEW i \in DOMAIN PagesOf[r],
                    i > page'[r] \/ (i = page'[r] /\ rpc'[r] \notin Inserted)
             PROVE  jobs'[PagesOf[r][i]] = "absent"
  BY <1>3 DEF RecordsOf
<1>4. CASE TrySend(r)
  <2>1. jobs' = jobs
    BY <1>4 DEF TrySend, mapVars
  <2>2. CASE page'[r] = page[r] + 1
    BY <1>1, <2>1, <2>2 DEF RecordsOf
  <2>3. CASE page' = page /\ rpc'[r] = "accepted"
    BY <1>1, <2>1, <2>3 DEF RecordsOf, Inserted
  <2> QED
    BY <1>4, <2>2, <2>3, TrySendPage
<1>5. CASE page' = page /\ rpc[r] = "insert" /\ rpc'[r] = "persist"
  BY <1>1, <1>2, <1>5 DEF RecordsOf, Inserted
<1>6. CASE page' = page /\ jobs' = [jobs EXCEPT ![c] = "absent"]
  <2>1. i = page[r] => jobs'[PagesOf[r][i]] = "absent"
    BY <1>0, <1>6 DEF CurrentJob, TypeOK
  <2> QED
    BY <1>1, <1>2, <1>6, <2>1 DEF RecordsOf
<1>7. CASE page' = page /\ jobs' = jobs /\ (rpc'[r] \in Inserted \/ rpc[r] \notin Inserted)
  BY <1>1, <1>7 DEF RecordsOf
<1> QED
  BY <1>4, <1>5, <1>6, <1>7, HandlerMoves
(* What a worker does to the map: no record comes back, only its own is     *)
(* stamped, and its own is no longer in flight when it has none or when     *)
(* retention has run.                                                       *)
LEMMA WorkerMap ==
    ASSUME TypeInv, NEW w \in Workers, Worker(w)
    PROVE  /\ older' = older \/ (wjob[w] \in Jobs /\ older' = Stamped(older, wjob[w]))
           /\ Present(jobs)' \subseteq Present(jobs)
<1> USE DEF TypeInv, TypeOK, Step, mapVars, Present
<1>1. CASE MarkRunning(w)
  <2>1. wjob[w] \in Jobs
    BY <1>1, BusyJob DEF MarkRunning
  <2> QED
    BY <1>1, <2>1 DEF MarkRunning
<1>2. CASE FinishRecord(w)
  <2>1. wjob[w] \in Jobs
    BY <1>2, BusyJob DEF FinishRecord, Finishing
  <2> QED
    BY <1>2, <2>1 DEF FinishRecord, HasRecord
<1>3. CASE RetainRecentJobs(w)
  BY <1>3 DEF RetainRecentJobs, RetainRecent, RecentRecords
<1>4. CASE ~(MarkRunning(w) \/ FinishRecord(w) \/ RetainRecentJobs(w))
  BY <1>4 DEF Worker, InitializeWorker, InitializeWorkerFails, Receive, InferenceSucceeds, InferenceFails, InferencePanics, InferenceTimesOut, AppendResult, SendWebhook, CleanupArtifacts, LateReturn, StopWorker
<1> QED
  BY <1>1, <1>2, <1>3, <1>4

LEMMA WorkerFlight ==
    ASSUME TypeInv, NEW w \in Workers, Worker(w)
    PROVE  \/ InFlight \subseteq InFlight'
           \/ /\ wjob[w] \in Jobs /\ InFlight \subseteq InFlight' \cup {wjob[w]}
              /\ \/ RetainRecentJobs(w) /\ wpc[w] = "retain"
                 \/ jobs[wjob[w]] = "absent" /\ jobs' = jobs
<1> USE DEF TypeInv, TypeOK, Step
<1>1. CASE Receive(w)
  <2>1. wjob[w] = NoJob
    BY <1>1 DEF Receive, BusyHoldsJob, Finishing
  <2>2. queue' = Tail(queue) /\ queue # <<>> /\ wjob' = [wjob EXCEPT ![w] = Head(queue)]
    BY <1>1 DEF Receive
  <2>3. InQueue \subseteq InQueue' \cup {Head(queue)}
    <3>1. \A k \in DOMAIN queue' : queue'[k] \in InQueue'
      BY DEF InQueue
    <3>2. ASSUME NEW i \in DOMAIN queue, i # 1 PROVE queue[i] \in InQueue'
      <4>1. i - 1 \in DOMAIN queue' /\ queue'[i - 1] = queue[i]
        BY <2>2, <3>2
      <4> QED
        BY <3>1, <4>1
    <3>3. queue[1] = Head(queue)
      BY <2>2
    <3> QED
      BY <3>2, <3>3 DEF InQueue
  <2>4. Head(queue) \in Held' /\ Held \subseteq Held'
    <3>1. Head(queue) \in Jobs
      BY <2>2
    <3>2. wjob'[w] = Head(queue) /\ \A v \in Workers \ {w} : wjob'[v] = wjob[v]
      BY <2>2
    <3>3. \A v \in Workers : wjob'[v] # NoJob => wjob'[v] \in Held'
      BY DEF Held
    <3>4. Head(queue) \in Held'
      BY <3>1, <3>2, <3>3, ConfigAssumption
    <3>5. ASSUME NEW j \in Held PROVE j \in Held'
      <4>1. PICK v \in Workers : j = wjob[v] /\ j # NoJob
        BY <3>5 DEF Held
      <4> QED
        BY <2>1, <3>2, <3>3, <4>1
    <3> QED
      BY <3>4, <3>5
  <2> QED
    BY <2>3, <2>4 DEF InFlight
<1>2. CASE UNCHANGED <<queue, wjob>>
  BY <1>2 DEF InFlight, InQueue, Held
<1>3. CASE FinishRecord(w) \/ RetainRecentJobs(w)
  <2>1. wjob[w] \in Jobs /\ queue' = queue
    BY <1>3, BusyJob DEF FinishRecord, RetainRecentJobs, Finishing
  <2>2. \A v \in Workers \ {w} : wjob'[v] = wjob[v]
    BY WorkerRecords
  <2>3. InFlight \subseteq InFlight' \cup {wjob[w]}
    BY <2>1, <2>2 DEF InFlight, InQueue, Held
  <2>4. CASE RetainRecentJobs(w)
    BY <2>1, <2>3, <2>4 DEF RetainRecentJobs
  <2>5. CASE FinishRecord(w) /\ HasRecord(w)
    <3>1. UNCHANGED <<queue, wjob>>
      BY <2>5 DEF FinishRecord
    <3> QED
      BY <1>2, <3>1
  <2>6. CASE FinishRecord(w) /\ ~HasRecord(w)
    BY <2>1, <2>3, <2>6 DEF FinishRecord, HasRecord, mapVars
  <2> QED
    BY <1>3, <2>4, <2>5, <2>6
<1>4. CASE ~Receive(w) /\ ~FinishRecord(w) /\ ~RetainRecentJobs(w)
  <2>1. UNCHANGED <<queue, wjob>>
    BY <1>4 DEF Worker, workerVars, InitializeWorker, InitializeWorkerFails, MarkRunning, InferenceSucceeds, InferenceFails, InferencePanics, InferenceTimesOut, AppendResult, SendWebhook, CleanupArtifacts, LateReturn, StopWorker
  <2> QED
    BY <1>2, <2>1
<1> QED
  BY <1>1, <1>3, <1>4
LEMMA WorkerFiles ==
    ASSUME TypeInv, OneOwner, NEW w \in Workers, Worker(w)
    PROVE  /\ SentJobs' = SentJobs /\ submissions' = submissions
           /\ Present(results)' \subseteq Present(results) \cup SentJobs
<1>1. SentJobs' = SentJobs
  BY WorkerFrame DEF SentJobs, IsSent
<1>2. submissions' = submissions
  BY DEF Worker, logVars, AppendFails, InitializeWorker, InitializeWorkerFails, Receive, MarkRunning, InferenceSucceeds, InferenceFails, InferencePanics, InferenceTimesOut, FinishRecord, AppendResult, SendWebhook, CleanupArtifacts, RetainRecentJobs, LateReturn, StopWorker
<1>3. Present(results)' \subseteq Present(results) \cup {wjob[w]}
  BY WorkerRecords DEF Present
<1>4. wjob[w] # NoJob => wjob[w] \in SentJobs
  BY DEF OneOwner, InFlight, Held
<1>5. NoJob \notin Present(results)'
  BY ConfigAssumption DEF Present
<1> QED
  BY <1>1, <1>2, <1>3, <1>4, <1>5

LEMMA WorkerKeepsOrder ==
    ASSUME TypeInv, OneOwner, StrictOrder, Ordered, NEW w \in Workers, Worker(w)
    PROVE  StrictOrder' /\ Ordered'
<1>1. UNCHANGED <<rpc, page>>
  BY WorkerFrame
<1>2. /\ older' = older \/ (wjob[w] \in Jobs /\ older' = Stamped(older, wjob[w]))
      /\ Present(jobs)' \subseteq Present(jobs)
  BY WorkerMap
<1>3. Known' \subseteq Known
  BY <1>1, <1>2, WorkerFiles DEF Known
<1>4. CASE older' = older
  BY <1>3, <1>4 DEF StrictOrder, Ordered
<1>5. CASE wjob[w] \in Jobs /\ older' = Stamped(older, wjob[w])
  BY <1>3, <1>5, StampedOrders DEF TypeInv
<1> QED
  BY <1>2, <1>4, <1>5

LEMMA WorkerKeepsKept ==
    ASSUME TypeInv, OneOwner, OutcomeInv, KeptInv, NEW w \in Workers, Worker(w)
    PROVE  KeptInv'
<1> DEFINE d == wjob[w]
<1>0. TypeOK /\ TypeOK'
  BY WorkerKeepsTypes DEF TypeInv
<1>1. UNCHANGED <<rpc, page>>
  BY WorkerFrame
<1>2. /\ older' = older \/ (d \in Jobs /\ older' = Stamped(older, d))
      /\ Present(jobs)' \subseteq Present(jobs)
  BY WorkerMap
<1>3. StrictOrder' /\ Ordered'
  BY WorkerKeepsOrder DEF KeptInv
<1>4. IsFiniteSet(Present(jobs)')
  BY <1>2, FS_Subset DEF KeptInv
<1>6. Attended' = Attended
  BY <1>1 DEF Attended, CurrentJob
<1>7. \A j \in Jobs \ {d} : jobs'[j] \in {jobs[j], "absent"}
  BY WorkerRecords
(* When nothing leaves the queue and the workers *)
<1>8. CASE InFlight \subseteq InFlight'
  <2>1. ActiveHasOwner'
    <3> SUFFICES ASSUME NEW j \in Jobs, jobs'[j] \in {"queued", "running"}
                 PROVE  j \in InFlight' \cup Attended'
      BY AttendedNext DEF ActiveHasOwner, Owned
    <3>1. CASE j = d
      <4>1. j # NoJob
        BY ConfigAssumption
      <4> QED
        BY <1>8, <3>1, <4>1 DEF InFlight, Held
    <3>2. CASE j # d
      <4>1. jobs[j] \in {"queued", "running"}
        BY <1>7, <3>2
      <4> QED
        BY <1>6, <1>8, <4>1, AttendedIs DEF KeptInv, ActiveHasOwner, Owned
    <3> QED
      BY <3>1, <3>2
  <2>2. Ownerless' \subseteq Ownerless
    BY <1>2, <1>6, <1>8, AttendedIs, AttendedNext DEF Ownerless, Owned
  <2>3. RetentionCap'
    BY <2>2, FewerOwnerless
  <2> QED
    BY <1>3, <1>4, <2>1, <2>3 DEF KeptInv
<1>9. CASE /\ d \in Jobs /\ InFlight \subseteq InFlight' \cup {d}
           /\ RetainRecentJobs(w) /\ wpc[w] = "retain"
  <2>1. jobs[d] \notin {"queued", "running"}
    BY <1>9 DEF OutcomeInv, DecidedByWorker, Settling, FinalStatus
  <2>2. jobs' = RetainRecent(jobs)
    BY <1>9 DEF RetainRecentJobs
  <2>3. \A j \in Jobs : jobs'[j] \in {jobs[j], "absent"}
    BY <2>2 DEF RetainRecent
  <2>4. ActiveHasOwner'
    <3> SUFFICES ASSUME NEW j \in Jobs, jobs'[j] \in {"queued", "running"}
                 PROVE  j \in InFlight' \cup Attended'
      BY AttendedNext DEF ActiveHasOwner, Owned
    <3>1. jobs[j] \in {"queued", "running"} /\ j # d
      BY <2>1, <2>3
    <3> QED
      BY <1>6, <1>9, <3>1, AttendedIs DEF KeptInv, ActiveHasOwner, Owned
  <2>5. RetentionCap'
    <3> DEFINE K == RecentRecords(jobs, JobRetentionLimit)
    <3>1. IsFiniteSet(K) /\ Cardinality(K) <= JobRetentionLimit
      BY <1>0, RecentRecordsBound, ConfigAssumption DEF KeptInv
    <3>2. Ownerless' \subseteq K
      BY <2>2 DEF Ownerless, Present, RetainRecent
    <3>3. /\ Cardinality(Ownerless') <= Cardinality(K)
          /\ Cardinality(Ownerless') \in Nat /\ Cardinality(K) \in Nat
      BY <3>1, <3>2, FS_Subset, FS_CardinalityType
    <3>4. Cardinality(Ownerless') <= JobRetentionLimit
      <4> HIDE DEF K
      <4> QED
        BY <3>1, <3>3, ConfigAssumption
    <3> QED
      BY <3>4 DEF RetentionCap, Ownerless
  <2> QED
    BY <1>3, <1>4, <2>4, <2>5 DEF KeptInv
<1>10. CASE /\ d \in Jobs /\ InFlight \subseteq InFlight' \cup {d}
            /\ jobs[d] = "absent" /\ jobs' = jobs
  <2>1. ActiveHasOwner'
    <3> SUFFICES ASSUME NEW j \in Jobs, jobs'[j] \in {"queued", "running"}
                 PROVE  j \in InFlight' \cup Attended'
      BY AttendedNext DEF ActiveHasOwner, Owned
    <3>1. jobs[j] \in {"queued", "running"} /\ j # d
      BY <1>10
    <3> QED
      BY <1>6, <1>10, <3>1, AttendedIs DEF KeptInv, ActiveHasOwner, Owned
  <2>2. Ownerless' \subseteq Ownerless
    <3>1. d \notin Present(jobs)'
      BY <1>10 DEF Present
    <3> QED
      BY <1>2, <1>6, <1>10, <3>1, AttendedIs, AttendedNext DEF Ownerless, Owned
  <2>3. RetentionCap'
    BY <2>2, FewerOwnerless
  <2> QED
    BY <1>3, <1>4, <2>1, <2>3 DEF KeptInv
<1> QED
  BY <1>8, <1>9, <1>10, WorkerFlight

LEMMA WorkerKeepsRecordsOf ==
    ASSUME TypeInv, RecordsOf, NEW w \in Workers, Worker(w)
    PROVE  RecordsOf'
<1> SUFFICES ASSUME NEW r \in Requests, NEW i \in DOMAIN PagesOf[r],
                    i > page[r] \/ (i = page[r] /\ rpc[r] \notin Inserted)
             PROVE  jobs'[PagesOf[r][i]] = "absent"
  BY WorkerFrame DEF RecordsOf
<1>1. PagesOf[r][i] \in Jobs /\ jobs[PagesOf[r][i]] = "absent"
  BY PagesAssumption DEF RecordsOf
<1> QED
  BY <1>1, WorkerMap DEF Present

LEMMA KeptInductive ==
    TypeInv /\ OneOwner /\ OutcomeInv /\ KeptInv /\ [Next]_vars => KeptInv'
<1> SUFFICES ASSUME TypeInv, OneOwner, OutcomeInv, KeptInv, [Next]_vars PROVE KeptInv'
  OBVIOUS
<1>1. CASE UNCHANGED vars
  <2>1. UNCHANGED <<rpc, page, jobs, older, queue, wjob, submissions, results>>
    BY <1>1 DEF vars, handlerVars, mapVars, logVars, workerVars
  <2>2. /\ Known' = Known /\ Present(jobs)' = Present(jobs)
        /\ Owned' = Owned /\ Abandoned' = Abandoned
    BY <2>1 DEF Known, SentJobs, IsSent, Present, Owned, InFlight, InQueue, Held, BeingEnqueued, Abandoned, CurrentJob
  <2>3. StrictOrder' /\ Ordered' /\ ActiveHasOwner' /\ RetentionCap'
    BY <2>1, <2>2 DEF KeptInv, StrictOrder, Ordered, ActiveHasOwner, RetentionCap
  <2> QED
    BY <2>2, <2>3 DEF KeptInv
<1> QED
  BY <1>1, HandlerKeepsKept, WorkerKeepsKept DEF Next

LEMMA RecordInductive ==
    TypeInv /\ OneOwner /\ OutcomeInv /\ RecordInv /\ [Next]_vars => RecordInv'
<1> SUFFICES ASSUME TypeInv, RecordInv, [Next]_vars PROVE RecordsOf'
  BY KeptInductive DEF RecordInv
<1>1. CASE UNCHANGED vars
  BY <1>1 DEF vars, handlerVars, mapVars, RecordInv, RecordsOf
<1> QED
  BY <1>1, HandlerKeepsRecordsOf, WorkerKeepsRecordsOf DEF Next, RecordInv, TypeInv

LEMMA RecordsAtStart == Init => RecordInv
<1> SUFFICES ASSUME Init PROVE RecordInv
  OBVIOUS
<1>1. Present(jobs) = {} /\ Known = {}
  BY NothingSent DEF Init, Present, Known, Prepared
<1>2. IsFiniteSet({}) /\ Cardinality({}) = 0
  BY FS_EmptySet
<1>3. StrictOrder /\ Ordered
  BY <1>1 DEF Init, StrictOrder, Ordered
<1>4. RecordsOf /\ ActiveHasOwner
  BY PagesAssumption DEF Init, RecordsOf, ActiveHasOwner
<1>5. RetentionCap
  <2>1. Present(jobs) \ (Owned \cup Abandoned) = {}
    BY <1>1
  <2> QED
    BY <1>2, <2>1, ConfigAssumption DEF RetentionCap
<1> QED
  BY <1>1, <1>2, <1>3, <1>4, <1>5 DEF RecordInv, KeptInv

LEMMA AlwaysRecordInv == Spec => []RecordInv
BY RecordsAtStart, RecordInductive, TypeInvariant, OwnershipCorrect, AlwaysOutcomeInv, PTL DEF Spec

(* No record stays in the map for a reason nobody answers for: not one that *)
(* was refused, not one that is shown queued or running and is nobody's,    *)
(* and of the finished ones never more than job_retention_limit, however    *)
(* many clients submit and workers evict at once (enqueue_record,           *)
(* rollback_unqueued_record, finish_job, retain_recent_jobs).               *)
THEOREM RecordsKept == Spec => []RecordsAccounted
<1>1. TypeInv /\ OneOwner /\ OutcomeInv /\ RecordInv => RecordsAccounted
  <2> SUFFICES ASSUME TypeInv, OneOwner, OutcomeInv, RecordInv PROVE UnavailableLeavesNoRecord
    BY DEF RecordsAccounted, RecordInv, KeptInv
  <2> SUFFICES ASSUME NEW r \in Requests, rpc[r] = "unavailable",
                      NEW i \in DOMAIN PagesOf[r], i >= page[r]
               PROVE  /\ jobs[PagesOf[r][i]] = "absent"
                      /\ notified[PagesOf[r][i]] = "absent"
                      /\ PagesOf[r][i] \notin InFlight
    BY DEF UnavailableLeavesNoRecord
  <2>1. PagesOf[r][i] \in Jobs /\ i \in Nat /\ page[r] \in Nat
    BY PagesAssumption DEF TypeInv, TypeOK
  <2>2. PagesOf[r][i] \notin SentJobs
    BY <2>1, SentByItsHandler DEF IsSent
  <2>3. jobs[PagesOf[r][i]] = "absent"
    BY <2>1 DEF RecordInv, RecordsOf, Inserted
  <2> QED
    BY <2>1, <2>2, <2>3 DEF OutcomeInv, UnsentUnannounced, OneOwner
<1> QED
  BY <1>1, TypeInvariant, OwnershipCorrect, AlwaysOutcomeInv, AlwaysRecordInv, PTL

(***************************************************************************)
(* JobPipeline implements JobLedger: the initial states map to the initial *)
(* state and every step of a handler or a worker to a step of the ledger   *)
(* or to none.  The ledger is about jobs, so most steps are a stutter; the *)
(* others are Show (insert), Accept (try_send), Start, Finish, Tell        *)
(* (webhook) and Forget (rollback and retention).                          *)
(***************************************************************************)

(* What a worker has shown of its job, and not yet told *)
Shown ==
    \A w \in Workers :
        /\ wpc[w] \in {"infer", "finish"} => jobs[wjob[w]] \in {"absent", "running"}
        /\ wpc[w] \in {"append", "notify"} => notified[wjob[w]] = "absent"

LedgerInv == TypeInv /\ OneOwner /\ OutcomeInv /\ RecordInv /\ Shown

(* The worker of a job knows the outcome before the webhook has told it. *)
LEMMA OutcomeOf ==
    ASSUME OneOwner, NEW j \in Jobs
    PROVE  /\ \A w \in Workers :
                wjob[w] = j /\ wpc[w] \in {"append", "notify"} => Outcome(j) = FinalStatus(w)
           /\ (\A w \in Workers : wjob[w] = j => wpc[w] \notin {"append", "notify"})
                => Outcome(j) = notified[j]
<1>1. ASSUME NEW w \in Workers, wjob[w] = j, wpc[w] \in {"append", "notify"}
      PROVE  Outcome(j) = FinalStatus(w)
  <2>1. w \in Deciding(j) /\ \A v \in Deciding(j) : v = w
    BY <1>1, ConfigAssumption DEF Deciding, OneOwner
  <2>2. (CHOOSE v \in Deciding(j) : TRUE) = w
    BY <2>1
  <2> QED
    BY <2>1, <2>2 DEF Outcome
<1>2. ASSUME \A w \in Workers : wjob[w] = j => wpc[w] \notin {"append", "notify"}
      PROVE  Outcome(j) = notified[j]
  BY <1>2 DEF Outcome, Deciding
<1> QED
  BY <1>1, <1>2

LEMMA OutcomeOfNext ==
    ASSUME OneOwner', NEW j \in Jobs
    PROVE  /\ \A w \in Workers :
                wjob'[w] = j /\ wpc'[w] \in {"append", "notify"} => Outcome(j)' = FinalStatus(w)'
           /\ (\A w \in Workers : wjob'[w] = j => wpc'[w] \notin {"append", "notify"})
                => Outcome(j)' = notified'[j]
<1>1. ASSUME NEW w \in Workers, wjob'[w] = j, wpc'[w] \in {"append", "notify"}
      PROVE  Outcome(j)' = FinalStatus(w)'
  <2>1. w \in Deciding(j)' /\ \A v \in Deciding(j)' : v = w
    BY <1>1, ConfigAssumption DEF Deciding, OneOwner
  <2>2. (CHOOSE v \in Deciding(j)' : TRUE) = w
    BY <2>1
  <2> QED
    BY <2>1, <2>2 DEF Outcome, FinalStatus
<1>2. ASSUME \A w \in Workers : wjob'[w] = j => wpc'[w] \notin {"append", "notify"}
      PROVE  Outcome(j)' = notified'[j]
  BY <1>2 DEF Outcome, Deciding
<1> QED
  BY <1>1, <1>2

(* A step that moves no worker into or out of those steps, and tells        *)
(* nothing, decides nothing.                                                *)
LEMMA OutcomesUnchanged ==
    ASSUME OneOwner, OneOwner', notified' = notified,
           \A w \in Workers :
              /\ wpc[w] \in {"append", "notify"} =>
                    wpc'[w] \in {"append", "notify"} /\ wjob'[w] = wjob[w] /\ wres'[w] = wres[w]
              /\ wpc'[w] \in {"append", "notify"} => wpc[w] \in {"append", "notify"}
    PROVE  \A j \in Jobs : Outcome(j)' = Outcome(j)
<1> SUFFICES ASSUME NEW j \in Jobs PROVE Outcome(j)' = Outcome(j)
  OBVIOUS
<1>1. CASE \E w \in Workers : wjob[w] = j /\ wpc[w] \in {"append", "notify"}
  <2>1. PICK w \in Workers : wjob[w] = j /\ wpc[w] \in {"append", "notify"}
    BY <1>1
  <2>2. Outcome(j) = FinalStatus(w)
    BY <2>1, OutcomeOf
  <2>3. Outcome(j)' = FinalStatus(w)'
    BY <2>1, OutcomeOfNext
  <2>4. FinalStatus(w)' = FinalStatus(w)
    BY <2>1 DEF FinalStatus
  <2> QED
    BY <2>2, <2>3, <2>4
<1>2. CASE \A w \in Workers : wjob[w] = j => wpc[w] \notin {"append", "notify"}
  <2>1. \A w \in Workers : wjob'[w] = j => wpc'[w] \notin {"append", "notify"}
    BY <1>2
  <2>2. Outcome(j) = notified[j]
    BY <1>2, OutcomeOf
  <2>3. Outcome(j)' = notified'[j]
    BY <2>1, OutcomeOfNext
  <2> QED
    BY <2>2, <2>3
<1> QED
  BY <1>1, <1>2
LEMMA HandlerKeepsShown ==
    ASSUME TypeInv, OneOwner, Shown, NEW r \in Requests, Handler(r) \/ DropHandler(r)
    PROVE  Shown'
<1>1. UNCHANGED <<wpc, wjob, notified>>
  BY HandlerKeepsWorkers
<1>2. CurrentJob(r) \notin SentJobs
  BY HandlerFrame, CurrentJobUnsent DEF TypeInv
<1>3. ASSUME NEW w \in Workers, wpc[w] \in {"infer", "finish"}
      PROVE  jobs'[wjob[w]] = jobs[wjob[w]]
  <2>1. wjob[w] \in Jobs /\ wjob[w] \in SentJobs
    BY <1>3, BusySent DEF Finishing
  <2> QED
    BY <1>2, <2>1, HandlerRecords DEF TypeInv
<1> QED
  BY <1>1, <1>3 DEF Shown

LEMMA WorkerKeepsShown ==
    ASSUME TypeInv, OneOwner, OutcomeInv, Shown, NEW w \in Workers, Worker(w)
    PROVE  Shown'
<1> DEFINE d == wjob[w]
           ShownBy(v) ==
              /\ wpc'[v] \in {"infer", "finish"} => jobs'[wjob'[v]] \in {"absent", "running"}
              /\ wpc'[v] \in {"append", "notify"} => notified'[wjob'[v]] = "absent"
<1>1. ASSUME NEW v \in Workers, v # w PROVE ShownBy(v)
  <2>1. wpc'[v] = wpc[v] /\ wjob'[v] = wjob[v]
    BY <1>1, WorkerRecords
  <2>2. CASE wpc[v] \in {"infer", "finish", "append", "notify"}
    <3>1. wjob[v] \in Jobs /\ wjob[v] # NoJob
      BY <2>2, BusySent DEF Finishing
    <3>2. wjob[v] # d
      BY <1>1, <3>1 DEF OneOwner
    <3>3. jobs'[wjob[v]] \in {jobs[wjob[v]], "absent"} /\ notified'[wjob[v]] = notified[wjob[v]]
      BY <3>1, <3>2, WorkerRecords
    <3> QED
      BY <2>1, <3>3 DEF Shown
  <2> QED
    BY <2>1, <2>2
<1>2. ShownBy(w)
  <2> USE DEF TypeInv, TypeOK, Step
  <2>1. CASE MarkRunning(w)
    <3>1. d \in Jobs
      BY <2>1, BusySent DEF MarkRunning, Finishing
    <3> QED
      BY <2>1, <3>1 DEF MarkRunning, mapVars
  <2>2. CASE InferenceSucceeds(w) \/ InferenceFails(w) \/ InferencePanics(w) \/ InferenceTimesOut(w)
    BY <2>2 DEF Shown, mapVars, InferenceSucceeds, InferenceFails, InferencePanics, InferenceTimesOut
  <2>3. CASE FinishRecord(w)
    <3>1. notified[d] = "absent" /\ notified' = notified
      BY <2>3 DEF FinishRecord, OutcomeInv, NoOutcomeYet, Undecided
    <3>2. AfterFinish(w) \notin {"infer", "finish", "append", "notify"}
      BY DEF AfterFinish
    <3> QED
      BY <2>3, <3>1, <3>2 DEF FinishRecord
  <2>4. CASE AppendResult(w)
    BY <2>4 DEF AppendResult, Shown
  <2>5. CASE RetainRecentJobs(w)
    <3>1. AfterFinish(w) \notin {"infer", "finish", "append", "notify"}
      BY DEF AfterFinish
    <3> QED
      BY <2>5, <3>1 DEF RetainRecentJobs
  <2>6. CASE ~(MarkRunning(w) \/ FinishRecord(w) \/ AppendResult(w) \/ RetainRecentJobs(w)
               \/ InferenceSucceeds(w) \/ InferenceFails(w) \/ InferencePanics(w) \/ InferenceTimesOut(w))
    BY <2>6 DEF Worker, InitializeWorker, InitializeWorkerFails, Receive, SendWebhook, CleanupArtifacts, LateReturn, StopWorker
  <2> QED
    BY <2>1, <2>2, <2>3, <2>4, <2>5, <2>6
<1> QED
  BY <1>1, <1>2 DEF Shown

LEMMA ShownInductive ==
    TypeInv /\ OneOwner /\ OutcomeInv /\ Shown /\ [Next]_vars => Shown'
<1> SUFFICES ASSUME TypeInv, OneOwner, OutcomeInv, Shown, [Next]_vars PROVE Shown'
  OBVIOUS
<1>1. CASE UNCHANGED vars
  <2>1. UNCHANGED <<wpc, wjob, jobs, notified>>
    BY <1>1 DEF vars, workerVars, mapVars
  <2> QED
    BY <2>1 DEF Shown
<1> QED
  BY <1>1, HandlerKeepsShown, WorkerKeepsShown DEF Next

(* insert is Show, try_send is Accept and the rollback is Forget. *)
LEMMA HandlerIsLedger ==
    ASSUME LedgerInv, OneOwner', NEW r \in Requests, Handler(r) \/ DropHandler(r)
    PROVE  Ledger!Next \/ UNCHANGED Ledger!vars
<1> DEFINE c == CurrentJob(r)
           outcome == [j \in Jobs |-> Outcome(j)]
           told == {j \in Jobs : notified[j] # "absent"}
<1>0. TypeOK /\ OneOwner /\ jobs \in [Jobs -> Statuses \cup {"absent"}]
  BY DEF LedgerInv, TypeInv, TypeOK
<1>1. outcome' = outcome /\ told' = told
  <2>1. UNCHANGED <<wpc, wjob, wres, notified>>
    BY HandlerKeepsWorkers
  <2>2. \A j \in Jobs : Outcome(j)' = Outcome(j)
    BY <1>0, <2>1, OutcomesUnchanged
  <2> QED
    BY <2>1, <2>2
<1>2. c \in Jobs /\ c \notin SentJobs
  BY <1>0, CurrentPage, HandlerFrame, CurrentJobUnsent
<1> HIDE DEF outcome, told
<1>3. CASE TrySend(r)
  <2>1. SentJobs' = SentJobs \cup {c} /\ jobs' = jobs
    BY <1>0, <1>3, TrySendSendsOne DEF TrySend, mapVars
  <2>2. Ledger!Accept(c)
    BY <1>1, <1>2, <2>1 DEF Ledger!Accept, outcome, told
  <2> QED
    BY <1>2, <2>2 DEF Ledger!Next
<1>4. CASE ~TrySend(r)
  <2>1. SentJobs' = SentJobs
    BY <1>0, <1>4, SentOnlyBySend
  <2>2. CASE rpc[r] = "insert" /\ jobs' = [jobs EXCEPT ![c] = "queued"]
    <3>1. jobs[c] = "absent"
      BY <1>0, <2>2, CurrentPage DEF LedgerInv, RecordInv, RecordsOf, Inserted, CurrentJob
    <3>2. Ledger!Show(c)
      BY <1>1, <1>2, <2>1, <2>2, <3>1 DEF Ledger!Show, outcome, told
    <3> QED
      BY <1>2, <3>2 DEF Ledger!Next
  <2>3. CASE jobs' = [jobs EXCEPT ![c] = "absent"]
    <3>1. jobs' = [j \in Jobs |-> IF j \in {c} THEN "absent" ELSE jobs[j]]
      BY <1>0, <2>3
    <3>2. Ledger!Forget({c})
      BY <1>1, <2>1, <3>1 DEF Ledger!Forget, outcome, told
    <3>3. {c} \in SUBSET Jobs
      BY <1>2
    <3> QED
      BY <3>2, <3>3 DEF Ledger!Next
  <2>4. CASE jobs' = jobs
    BY <1>1, <2>1, <2>4 DEF Ledger!vars, outcome, told
  <2> QED
    BY <1>0, <1>4, <2>2, <2>3, <2>4, HandlerMoves
<1> QED
  BY <1>3, <1>4
(* A worker starts, finishes and tells its job; retention forgets.          *)
LEMMA WorkerIsLedger ==
    ASSUME LedgerInv, OneOwner', NEW w \in Workers, Worker(w)
    PROVE  Ledger!Next \/ UNCHANGED Ledger!vars
<1> PICK d : d = wjob[w]
  OBVIOUS
<1> DEFINE outcome == [j \in Jobs |-> Outcome(j)]
           told == {j \in Jobs : notified[j] # "absent"}
           quiet == /\ wpc[w] \notin {"append", "notify"} /\ wpc'[w] \notin {"append", "notify"}
                    /\ notified' = notified
<1>0. /\ TypeInv /\ TypeOK /\ OneOwner /\ OutcomeInv /\ Shown
      /\ jobs \in [Jobs -> Statuses \cup {"absent"}]
  BY DEF LedgerInv, TypeInv, TypeOK
<1>1. SentJobs' = SentJobs
  BY WorkerFrame DEF SentJobs, IsSent
<1>2. \A v \in Workers \ {w} : wpc'[v] = wpc[v] /\ wjob'[v] = wjob[v] /\ wres'[v] = wres[v]
  BY <1>0, WorkerRecords
<1>3. ASSUME quiet PROVE outcome' = outcome /\ told' = told
  <2>1. \A v \in Workers :
          /\ wpc[v] \in {"append", "notify"} =>
                wpc'[v] \in {"append", "notify"} /\ wjob'[v] = wjob[v] /\ wres'[v] = wres[v]
          /\ wpc'[v] \in {"append", "notify"} => wpc[v] \in {"append", "notify"}
    BY <1>2, <1>3
  <2>2. \A j \in Jobs : Outcome(j)' = Outcome(j)
    BY <1>0, <1>3, <2>1, OutcomesUnchanged
  <2> QED
    BY <1>3, <2>2
<1> HIDE DEF outcome, told
<1>4. CASE MarkRunning(w)
  <2>1. d \in Jobs /\ d \in SentJobs
    BY <1>0, <1>4, BusySent DEF MarkRunning, Step
  <2>2. quiet
    BY <1>0, <1>4 DEF MarkRunning, Step, TypeOK
  <2>3. outcome' = outcome /\ told' = told
    BY <1>3, <2>2
  <2>4. CASE jobs[d] = "queued"
    <3>1. jobs' = [jobs EXCEPT ![d] = "running"]
      BY <1>4, <2>4 DEF MarkRunning
    <3>2. Ledger!Start(d)
      BY <1>1, <2>1, <2>3, <2>4, <3>1 DEF Ledger!Start, outcome, told
    <3> QED
      BY <2>1, <3>2 DEF Ledger!Next
  <2>5. CASE jobs[d] # "queued"
    <3>1. jobs[d] \in {"absent", "running"}
      <4>1. jobs[d] \notin Terminal
        BY <1>0, <1>4 DEF MarkRunning, Step, OutcomeInv, NoOutcomeYet, Undecided
      <4> QED
        BY <1>0, <2>1, <2>5, <4>1 DEF Statuses
    <3>2. jobs' = jobs
      BY <1>0, <1>4, <2>1, <3>1 DEF MarkRunning, mapVars
    <3> QED
      BY <1>1, <2>3, <3>2 DEF Ledger!vars, outcome, told
  <2> QED
    BY <2>4, <2>5
<1>5. CASE FinishRecord(w)
  <2>1. /\ d \in Jobs /\ notified[d] = "absent" /\ notified' = notified
        /\ jobs[d] \in {"absent", "running"} /\ wpc[w] = "finish" /\ wres' = wres
    BY <1>0, <1>5, BusySent DEF FinishRecord, Finishing, OutcomeInv, NoOutcomeYet, Undecided, Shown
  <2>2. CASE ~HasRecord(w)
    <3>1. quiet
      <4>1. AfterFinish(w) \notin {"append", "notify"}
        BY DEF AfterFinish
      <4> QED
        BY <1>0, <1>5, <2>1, <2>2, <4>1 DEF FinishRecord, Step, TypeOK
    <3>2. jobs' = jobs
      BY <1>5, <2>2 DEF FinishRecord, mapVars
    <3> QED
      BY <1>1, <1>3, <3>1, <3>2 DEF Ledger!vars, outcome, told
  <2>3. CASE HasRecord(w)
    <3>1. /\ jobs' = [jobs EXCEPT ![d] = FinalStatus(w)] /\ wjob' = wjob
          /\ wpc' = [wpc EXCEPT ![w] = "append"]
      BY <1>5, <2>3 DEF FinishRecord, Step
    <3>2. FinalStatus(w) \in {"succeeded", "failed"} /\ FinalStatus(w)' = FinalStatus(w)
      BY <2>1 DEF FinalStatus
    <3>3. jobs[d] = "running"
      BY <2>1, <2>3 DEF HasRecord
    <3>4. \A v \in Workers : wjob[v] = d => v = w
      BY <1>0, <2>1, ConfigAssumption DEF OneOwner
    <3>5. Outcome(d) = "absent"
      <4>1. \A v \in Workers : wjob[v] = d => wpc[v] \notin {"append", "notify"}
        BY <2>1, <3>4
      <4> QED
        BY <1>0, <2>1, <4>1, OutcomeOf
    <3>6. Outcome(d)' = FinalStatus(w)
      <4>1. wjob'[w] = d /\ wpc'[w] = "append"
        BY <1>0, <3>1 DEF TypeOK
      <4> QED
        BY <2>1, <3>2, <4>1, OutcomeOfNext
    <3>7. \A j \in Jobs \ {d} : Outcome(j)' = Outcome(j)
      <4> SUFFICES ASSUME NEW j \in Jobs \ {d} PROVE Outcome(j)' = Outcome(j)
        OBVIOUS
      <4>1. \A v \in Workers : wjob[v] = j => v # w
        OBVIOUS
      <4>2. Deciding(j)' = Deciding(j)
        BY <1>2, <3>1, <4>1 DEF Deciding
      <4> QED
        BY <2>1, <4>2 DEF Outcome, FinalStatus
    <3>8. outcome' = [outcome EXCEPT ![d] = FinalStatus(w)] /\ outcome[d] = "absent"
      <4>1. \A j \in Jobs : Outcome(j)' = IF j = d THEN FinalStatus(w) ELSE Outcome(j)
        BY <3>6, <3>7
      <4>2. outcome' = [j \in Jobs |-> IF j = d THEN FinalStatus(w) ELSE Outcome(j)]
        BY <4>1 DEF outcome
      <4>3. outcome[d] = "absent"
        BY <2>1, <3>5 DEF outcome
      <4> QED
        BY <2>1, <4>2, <4>3 DEF outcome
    <3>9. told' = told
      BY <2>1 DEF told
    <3>10. Ledger!Finish(d, FinalStatus(w))
      BY <1>1, <3>1, <3>3, <3>8, <3>9 DEF Ledger!Finish, outcome, told
    <3> QED
      BY <2>1, <3>2, <3>10 DEF Ledger!Next
  <2> QED
    BY <2>2, <2>3
<1>6. CASE AppendResult(w)
  <2>1. /\ jobs' = jobs /\ wjob' = wjob /\ wres' = wres /\ notified' = notified
        /\ wpc[w] = "append" /\ wpc'[w] = "notify"
    BY <1>0, <1>6 DEF AppendResult, Step, mapVars, TypeOK
  <2>2. \A j \in Jobs : Outcome(j)' = Outcome(j)
    BY <1>0, <1>2, <2>1, OutcomesUnchanged
  <2>3. outcome' = outcome /\ told' = told
    BY <2>1, <2>2 DEF outcome, told
  <2> QED
    BY <1>1, <2>1, <2>3 DEF Ledger!vars, outcome, told
<1>7. CASE SendWebhook(w)
  <2>1. /\ jobs' = jobs /\ wjob' = wjob /\ wres' = wres
        /\ wpc[w] = "notify" /\ wpc' = [wpc EXCEPT ![w] = "cleanup"]
        /\ notified' = [notified EXCEPT ![d] = FinalStatus(w)]
    BY <1>0, <1>7 DEF SendWebhook, Step, mapVars
  <2>2. d \in Jobs /\ notified[d] = "absent" /\ wpc'[w] = "cleanup"
    BY <1>0, <2>1, BusySent DEF Finishing, Shown, TypeOK
  <2>3. FinalStatus(w) # "absent"
    BY DEF FinalStatus
  <2>4. \A v \in Workers : wjob[v] = d => v = w
    BY <1>0, <2>2, ConfigAssumption DEF OneOwner
  <2>5. Outcome(d) = FinalStatus(w)
    BY <1>0, <2>1, <2>2, OutcomeOf
  <2>6. Outcome(d)' = FinalStatus(w)
    <3>1. \A v \in Workers : wjob'[v] = d => wpc'[v] \notin {"append", "notify"}
      BY <2>1, <2>2, <2>4
    <3>2. \A j \in Jobs : (\A v \in Workers : wjob'[v] = j => wpc'[v] \notin {"append", "notify"})
                              => Outcome(j)' = notified'[j]
      BY OutcomeOfNext
    <3>3. Outcome(d)' = notified'[d]
      BY <2>2, <3>1, <3>2
    <3> QED
      BY <1>0, <2>1, <2>2, <3>3 DEF TypeOK
  <2>7. \A j \in Jobs \ {d} : Outcome(j)' = Outcome(j)
    <3> SUFFICES ASSUME NEW j \in Jobs \ {d} PROVE Outcome(j)' = Outcome(j)
      OBVIOUS
    <3>1. \A v \in Workers : wjob[v] = j => v # w
      OBVIOUS
    <3>2. Deciding(j)' = Deciding(j) /\ notified'[j] = notified[j]
      BY <1>0, <1>2, <2>1, <3>1 DEF Deciding, TypeOK
    <3> QED
      BY <2>1, <3>2 DEF Outcome, FinalStatus
  <2>8. outcome' = outcome
    <3>1. \A j \in Jobs : Outcome(j)' = Outcome(j)
      BY <2>5, <2>6, <2>7
    <3> QED
      BY <3>1 DEF outcome
  <2>9. told' = told \cup {d} /\ d \notin told /\ outcome[d] # "absent"
    BY <1>0, <2>1, <2>2, <2>3, <2>5 DEF outcome, told, TypeOK
  <2>10. Ledger!Tell(d)
    BY <1>1, <2>1, <2>8, <2>9 DEF Ledger!Tell, outcome, told
  <2> QED
    BY <2>2, <2>10 DEF Ledger!Next
<1>8. CASE RetainRecentJobs(w)
  <2>1. quiet
    <3>1. AfterFinish(w) \notin {"append", "notify"}
      BY DEF AfterFinish
    <3> QED
      BY <1>0, <1>8, <3>1 DEF RetainRecentJobs, Step, TypeOK
  <2>2. outcome' = outcome /\ told' = told
    BY <1>3, <2>1
  <2> DEFINE S == Jobs \ RecentRecords(jobs, JobRetentionLimit)
  <2>3. jobs' = [j \in Jobs |-> IF j \in S THEN "absent" ELSE jobs[j]]
    BY <1>8 DEF RetainRecentJobs, RetainRecent
  <2>4. S \in SUBSET Jobs
    OBVIOUS
  <2> HIDE DEF S
  <2>5. Ledger!Forget(S)
    BY <1>1, <2>2, <2>3 DEF Ledger!Forget, outcome, told
  <2> QED
    BY <2>4, <2>5 DEF Ledger!Next
<1>9. CASE ~(MarkRunning(w) \/ FinishRecord(w) \/ AppendResult(w) \/ SendWebhook(w)
             \/ RetainRecentJobs(w))
  <2>1. quiet /\ jobs' = jobs
    BY <1>0, <1>9 DEF Worker, TypeOK, Step, mapVars, InitializeWorker, InitializeWorkerFails, Receive, InferenceSucceeds, InferenceFails, InferencePanics, InferenceTimesOut, CleanupArtifacts, LateReturn, StopWorker
  <2> QED
    BY <1>1, <1>3, <2>1 DEF Ledger!vars, outcome, told
<1> QED
  BY <1>4, <1>5, <1>6, <1>7, <1>8, <1>9

LEMMA LedgerStep == LedgerInv /\ LedgerInv' /\ [Next]_vars => [Ledger!Next]_Ledger!vars
<1> SUFFICES ASSUME LedgerInv, LedgerInv', [Next]_vars
             PROVE  Ledger!Next \/ UNCHANGED Ledger!vars
  OBVIOUS
<1>0. OneOwner'
  BY DEF LedgerInv
<1>1. CASE UNCHANGED vars
  <2>1. UNCHANGED <<rpc, page, jobs, notified, wpc, wjob, wres>>
    BY <1>1 DEF vars, handlerVars, mapVars, workerVars
  <2>2. SentJobs' = SentJobs /\ \A j \in Jobs : Outcome(j)' = Outcome(j)
    BY <2>1 DEF SentJobs, IsSent, Outcome, Deciding, FinalStatus
  <2> QED
    BY <2>1, <2>2 DEF Ledger!vars
<1> QED
  BY <1>0, <1>1, HandlerIsLedger, WorkerIsLedger DEF Next

LEMMA AlwaysLedgerInv == Spec => []LedgerInv
<1>1. Init => Shown
  BY DEF Init, Shown
<1>2. TypeInv /\ OneOwner /\ OutcomeInv /\ Shown /\ [Next]_vars => Shown'
  BY ShownInductive
<1>3. TypeInv /\ OneOwner /\ OutcomeInv /\ RecordInv /\ Shown => LedgerInv
  BY DEF LedgerInv
<1> QED
  BY <1>1, <1>2, <1>3, TypeInvariant, OwnershipCorrect, AlwaysOutcomeInv, AlwaysRecordInv, PTL DEF Spec

LEMMA LedgerAtStart == Init => Ledger!Init
<1> SUFFICES ASSUME Init PROVE Ledger!Init
  OBVIOUS
<1>1. SentJobs = {} /\ \A j \in Jobs : Outcome(j) = "absent"
  BY NothingSent DEF Init, Outcome, Deciding
<1> QED
  BY <1>1 DEF Init, Ledger!Init

(* Handlers and workers show a client of GET /v1/jobs/{id} and of the       *)
(* webhook nothing that the ledger forbids, for any number of submissions,  *)
(* pages and workers, whatever await points the steps interleave at and     *)
(* whatever is dropped, fails or is evicted (enqueue_record, finish_job,    *)
(* retain_recent_jobs).                                                     *)
THEOREM PipelineRefines == Spec => ImplementsLedger
<1> QED
  BY LedgerAtStart, AlwaysLedgerInv, LedgerStep, PTL DEF Spec, ImplementsLedger, Ledger!Spec
=============================================================================
