# A verification project for unlimited-ocr-server

`unlimited-ocr-server` is an HTTP server that takes images and PDFs, keeps one
job record per page, and runs OCR inference on a pool of model workers behind a
bounded queue. Results are polled, kept in JSONL files and announced by
webhooks. This directory holds TLA+ models of the parts where order, failure
and sharing matter, the TLC runs that check them, and TLAPS proofs about most of
them. Paths below are relative to the crate (`src/` in the repository).

## 1. Inventory

| Part | Code | State it keeps | Operations |
|---|---|---|---|
| Submission handlers | `api/submit.rs`, `api/submit/validation.rs`, `jobs/queue.rs` | position of each handler, its page, its image files | readiness check, read and validate, render, capacity check, `enqueue_record` per page, rollback, answer |
| Inference queue | `async_channel` made in `main.rs` | at most `queue_size` requests, closed with the last receiver | `is_full`, `len`, `try_send`, `recv` |
| Job map | `AppState.jobs` | records by id, with `status` and `updated_at` | insert, remove, mark running, finish, retain recent |
| Worker pool | `jobs/worker.rs`, `state.rs` | per worker: request, model, position; `ready` and `failed` counts | initialize, receive, infer, time out, finish, restart, give up |
| Metadata store | `jobs/store.rs`, `util.rs` | `submissions.jsonl`, `results.jsonl` | append, load, recover, compact |
| Webhook delivery | `jobs/webhook.rs` | attempt, event id, dead letters, `webhook_failures` | send, retry with backoff, give up |
| Request gate | `api.rs`, `api/security.rs`, `RateLimiter` and `AppMetrics` in `state.rs` | fixed window, request counters | key check, rate limit, timeout, count |
| Job list, job page | `api.rs`, `templates.rs` | none; each request sorts a copy of the map | clamp, sort, cut one page; match detections with tables |
| Other read endpoints | `api.rs`, `api/system.rs` | none | read and format |
| Inference | `inference.rs`, `inference/feeds.rs`, `inference/tensor.rs` | model sessions, tokens, KV cache | prompt, image tensor, generation loop, sampling |
| Output parser | `inference/parse.rs` | none | detections, tables, rows, cells, text |
| PDF rendering | `pdf.rs`, `api/submit.rs` | files in the directory all submissions share, a `pdftoppm` process | count, render, collect, clean up |
| Configuration | `config.rs`, `config/*` | none after start | load, clamp |

How they interact. A handler never talks to a worker directly: it inserts the
record into the map, appends it to `submissions.jsonl` and puts a request with
the same id into the channel. A worker takes the request, changes the record in
the map, and when inference is over updates the record, appends it to
`results.jsonl`, delivers the webhook, removes the image and trims the map.
Metrics and the ready count are atomics that both sides touch. The map is
behind a `tokio::sync::RwLock` that is released between any two of these steps.

What is hard here:

* `enqueue_record` checks the queue, awaits twice and then sends; a PDF does
  this once per page after one capacity check for all pages.
* A handler's future can be dropped at any await (`TimeoutLayer`, disconnect).
* Inference cannot be interrupted: a timed-out job is failed while its
  inference still runs, and the worker is only restarted after it returns.
* Retention evicts by `updated_at`, also records that are queued or running.
* Appends can fail or be torn, and the process can die between any two steps,
  also while it recovers from the last time.
* Webhook answers get lost, and abandoned requests may still arrive.
* PDFs are rendered into one directory by processes that outlive a dropped
  handler, from files whose owner may replace them after they were counted.
* The pages of the job list are cut from a list that changes between requests.
* Generated text follows its format more or less, and is cut off anywhere.
* Generation pads, trims, counts and offsets around graphs of fixed length, and
  keeps a cache from one graph to the next.

What makes each part correct: a job that was accepted is in one place and ends
once, with one outcome, everywhere the same (handlers, queue, workers, map); a
refused submission leaves nothing behind that runs or can be queried; the counts
on `/ready` and `/metrics` agree with what the workers do; what was logged is
not forgotten and what was decided is not changed by a restart (store); a
receiver that honours the event id acts once, and a dead letter means that every
attempt failed (webhooks); a token depends on the text before it and on nothing
else, however it is computed, and is drawn as its weight says (inference); what
was generated is shown once and in its order, however its markup is damaged
(parser); the records of a PDF are its pages in order and every file left behind
has a known cause (rendering); following the list skips no record that stays
(list); the limiter refuses only when the limit is used up and the counters
count what was answered (gate).

`PROJECT.json` lists every component with its status and every hazard at its
line with the properties meant to catch it.

## 2. Modules

| Module | Models | Composition |
|---|---|---|
| `JobPipeline` | handlers, queue, map, workers, files of one process life | the core |
| `JobLedger` | what a client may observe of a job | abstract specification |
| `JobPipelineRefinement` | the mapping from the pipeline to the ledger | extends `JobPipeline`, instantiates `JobLedger` |
| `JobRecovery` | crashes and starts over one data directory | extends `JobPipeline`, runs its `Next` while serving |
| `WebhookDelivery` | the inside of `send_webhook` | details one action of `JobPipeline` |
| `PdfSubmission` | rendering a PDF and the files it makes | details `PrepareSubmission` and the page loop of `JobPipeline` for PDFs |
| `RequestGate` | the middleware around every handler | before `JobPipeline`'s handlers start |
| `Generation` | one inference: graphs, prompt, generation loops, KV cache | details the step of `JobPipeline` in which inference ends |
| `KvCacheTensors` | the cache tensor by tensor | extends `Generation`, runs its steps |
| `Sampling` | how a token is drawn from a row of logits | extends `KvCacheTensors`, runs its steps |
| `Autoregression` | drawing tokens from the text so far | abstract specification of `Generation` |
| `OcrOutput` | what the parser finds in generated text | operators |
| `JobListing` | the paged list of jobs over a changing map | on its own; its changes are those `JobPipeline` makes to the map |
| `JobViews` | the list and the page of one job | extends `JobListing` and `OcrOutput` |
| `MCJobPipeline`, `MCJobRecovery`, `MCRequestGate`, `MCGeneration`, `MCJobViews` | small instances | for TLC |
| `JobPipeline_proofs` | types, ownership, readiness, metrics, images, outcomes, records, and that the pipeline implements the ledger | extends `JobPipelineRefinement` |
| `JobRecovery_proofs` | files, counters, outcomes and what is shown, over crashes | extends `JobPipeline_proofs` and `JobRecovery` |
| `Generation_proofs` | loops, cache, mask, tensors, sampling | extends `Sampling` |
| `OcrOutput_proofs` | lemmas about the parser and any text | extends `OcrOutput` |
| `JobViews_proofs` | the pages of the list, and what the page of a job shows | extends `JobViews` and `OcrOutput_proofs` |
| `PdfSubmission_proofs`, `WebhookDelivery_proofs`, `RequestGate_proofs` | theorems about each | extend their modules |

### JobPipeline

One action per stretch of code between two awaits. `rpc[r]` is where the handler
of submission `r` is, `page[r]` the record it enqueues now:

| `rpc` | next code | actions |
|---|---|---|
| `start` | `ensure_workers_ready` | `EnsureWorkersReady` |
| `prepare` | read, validate, save or render, build records | `PrepareSubmission`, `RefuseSubmission` |
| `capacity` (PDF only) | `ensure_queue_has_capacity` | `EnsureQueueHasCapacity` |
| `check` | `queue_tx.is_full()` | `CheckFull` |
| `insert` | `jobs.insert` | `InsertRecord` |
| `persist` | `append_jsonl(submissions)` | `AppendSubmission`, `AppendSubmissionFails` |
| `send` | `try_send` | `TrySend` (next page or `accepted`), `TrySendFails` |
| `rollback` | `jobs.remove` | `RollbackUnqueued` |
| `persist_rollback` | append the failed record to results | `PersistUnqueued` |

`DropHandler` ends a handler anywhere after its first step. `wpc[w]` is where
`worker_loop` of `w` is: `init`, `idle`, `starting` (received, not yet marked
running), `infer`, the five steps of `finish_job` (`finish`, `append`, `notify`,
`cleanup`, `retain`), `late` (waiting for a timed-out inference), `stopping`,
`dead`. `wres[w]` remembers how the inference ended, which decides the final
status and whether the worker restarts.

Abstractions. A job id stands for its record; of the record only the status is
kept. `updated_at` is the order `older` (`<<a, b>>` when `b` was stamped after
`a`), which is all that retention and compaction use; clocks are taken to move
forward and stamps to differ. A file is the set of ids (or the last status per
id) that its lines give, plus whether it is torn. The records of one
submission are built in one action together with their images; what happens
inside that action for a PDF, and what it leaves behind when it fails, is
`PdfSubmission`. Every job has a webhook URL, and `notified` is
the status of the record handed to `deliver`. `recv` returns an error only when
all senders are gone, which does not happen while the router lives, so
`worker_loop` has no third exit. `Faults` names which environment faults an
instance allows, so that a property can say under which it holds; `Panicking`
are the jobs whose inference may panic in its blocking task.

Assumptions on the constants come from `Config::load`: at least one worker,
`queue_size` at least 1 (`async_channel::bounded(0)` panics), limits that may be
0, `job_timeout_seconds = 0` for no timeout (`JobTimeout`), fresh UUIDs.

### JobRecovery

`Running` is a step of the pipeline. `Crash` may happen in every phase and loses
all but files, images, what clients were answered and what receivers were told.
`LoadMetadata`, `AppendRecovered` (once per record), `StartCompaction`,
`CompactSubmissions`, `CompactResults` and `StartServing` are `load_jobs` step
by step. The end of `serve` is a crash too: the detached worker tasks are
dropped with the runtime. `StampedInSomeOrder` is the iteration order of a
`HashMap`. An append that is cut off by the crash may tear its file, and
`LoadMetadataFails` is what happens then. The fairness that liveness needs is
stated here once, for any number of lives, and with no crash it is that of the
pipeline alone.

### WebhookDelivery

`FromJob` draws the event id once; `Send`, then one of `Delivered`,
`AttemptFails` (unreachable, not 2xx, or the answer is lost after the receiver
processed the event), `AttemptTimesOut` (the request may still be under way and
reach the receiver by `ProcessLate`); `BackoffElapses`; `GiveUp`. Delays are
kept as the exponent of 2, with `checked_shl` and its fallback.

### RequestGate

Layers from the outside: `track_request_metrics`, `TimeoutLayer`, `require_api_key`,
`rate_limit`, handler. There is no await between arrival and handler, so refusing
and admitting are single actions. The handler answers with any of `HandlerStatuses`
(`Respond`; 200 or 503 for a probe), the layers with 401, 408 (`TimeOut`) and 429,
and every one of these answers passes through `track_request_metrics` (`Answer`),
which counts 4xx and 5xx as failed. A connection that is dropped before passes
through nothing (`Disconnect`). The clock counts ticks so that the truncation to
whole seconds in `RetryAfter` happens.

### Generation

`Load` is the last part of `UnlimitedOcrWorker::new`: a fixed image size or a
decode graph that does not fit refuses the worker. `BuildImagePrompt` puts the
image slots into the prompt. Then either `StartFullSequence` and `RunModel` (the
whole padded sequence for every token, at most `GenerationStepLimit` times), or
`RunPrefillModel` once and `RunDecodeModel` per token. `InferenceFails` may end
every step with an error.

What a graph computes is not modelled; what it is given is. A row is a token,
its position and whether it is an image slot; a cache tensor is the sequence of
rows it was made from, and logits at a position depend on the rows up to it.
So `context`, the rows a token was sampled from, shows whether padding,
trimming, positions or a stale cache reached the answer, and the token itself is
any of `Vocabulary`. `graph` holds what the code reads from the graphs'
metadata, with 0 for an axis that is not fixed; the decode graph may return
another number of tensors than it takes, which nothing checks before the second
decode step, and that step then fails.

### PdfSubmission

`step[d]` is where the handler of document `d` is, `renderer[d]` its `pdftoppm`
process and `files` the directory. `WriteUpload`, `InspectPageCount` (pdfinfo and
the limit), `StartRenderer`, `RenderEnds`, `CollectRenderedPages` and
`CleanupUploadedPdf` are `render_pdf_pages` and its caller; `ReadPage`,
`EnsureQueueHasCapacity`, `EnqueuePage` and `CleanupPage` do one page at a time;
`TakeJob` is a worker that receives a job, `FinishJob` the end of that job, whatever
the inference said: the image goes, or stays if the record is gone by then
(`evicted`). `WorkersGiveUp` closes the channel. The renderer goes on (`RenderPage`,
`RendererExits`), also after `DropHandler`: nothing kills it. `ReplaceSource` is the
owner of a local PDF, who may change its number of pages between `pdfinfo` and
`pdftoppm`. `enqueue_record` is one step with three outcomes (queued, refused, not
logged); what happens inside it is `JobPipeline`. The submissions of images and
their files are in `JobPipeline` only.

The code leaves page images behind, and so does the model:

* those of a rendering that failed and of a handler that was dropped;
* the page whose record was refused, by a full or a closed queue, and those after it
  (`unavailable`);
* the page whose record, or its rollback, could not be appended, and those after it
  (`not_persisted`): the error leaves the loop and nobody cleans up;
* the page whose record was evicted while its job was queued or running, since
  `finish_job` then returns before the clean-up;
* what is queued when all workers give up, and files whose `remove_file` failed.

`FilesAccounted` says that nothing else is left: the pages before the refused one are
not, nor those of a document refused as a whole. The model is one life of the
process; what a crash leaves is in `JobRecovery`, for the files of its submissions.

### KvCacheTensors and Sampling

`KvCacheTensors` follows the values themselves. A graph lists its cache tensors in
any order, the code sorts their names and pairs sorted outputs with sorted
inputs; `Trimmed` is the index arithmetic of `trim_typed_cache_tensor` over values
flattened over batch, heads, places and dimensions. The names of two graphs are
taken to end in the same suffixes, `NameOrder`, in the order of strings, in which
layer 10 comes before layer 2. Graphs whose names do not correspond are paired
all the same, since only their number is compared: that assumption is the one
under which the pairing is right.

`Sampling` takes a row of integer logits, with both infinities and NaN in the
order of `total_cmp`, and weights that are any positive whole numbers until they
underflow to 0, so sums are exact; a sum of weights is the number of their units
(`UnitsBefore`). NaN wins at temperature 0, as in the code. The row is looked at
only for the first token of a full sequence; all other tokens are any of
`Vocabulary`. How the image, the prompt and the logits are computed is left out.

### JobListing and JobViews

`JobListing` keeps the order in which `render_jobs_index` sorts the records.
`OpenList` takes any `?page=` and `?per_page=`, `FollowNext` the link of the page
shown; each is one request under one read lock. Between them the store may
`InsertRecord`, `QueueRecord`, `RollbackRecord`, `UpdateRecord` (to the front)
and `RetainRecentJobs`, each as in `JobPipeline`, at most `MaxChanges` times.

`OcrOutput` reads text as a sequence of tokens: markers, tags, boxes, entities and
words. `Detections`, `Tables`, `RowsFrom`, `Cells` and `CellText` are the loops of
`inference/parse.rs` as recursive functions over positions, with what each does
at a missing end. `DetectionViews` is how `api.rs` finds the table of a
detection. Two things the parser does are kept as they are: a bare `<` takes
everything up to the next `>`, and a bare `&` takes the entity after it along,
undecoded. Of a cell's attributes `rowspan` is kept; `colspan`, read by the same
function, is left out.

`JobViews` says what the model may have meant (`Pages`: blocks with label, boxes,
words or rows) and writes it as its training format asks (`Written`).
`OpenPage` opens a page cut off at any token, `OpenDamagedTable` a table of which
one or two tokens were replaced, `OpenCell` a cell with characters that need
escaping. The reference for the parser is thus what was meant, and not a second
parser. `ViewsAssumption` bounds what may be meant: a word is no markup (else the
model would have written something other than it meant), a character of a cell
neither a tag nor an entity, a damage a sequence of tags. A header may hold
several boxes, of which the parser takes the last, and the ones before it are part
of the label (`Label`). `TableAssumption` lets the words of the damaged table be
told apart, so that one that is shown twice or out of place can be seen.

## 3. Runs

Bounded instances end with nothing left to do (every submission answered, every
queue empty), so deadlock checking is off; that nothing stops too early is what
the liveness properties say.

| Run | Instance | Shows |
|---|---|---|
| `pipeline_safety` | 2-page PDF and an image by path, 2 workers, queue 2, retention 1, refused inputs, failing appends and initializations, dropped handlers, time-outs, inferences that fail, and one that may panic | `TypeOK`, `OneOwner`, `ImageAvailable`, `OutcomesAgree`, `ReadyNotOverstated`, `MetricsBalance`, `RecordsAccounted` (an unavailable submission leaves no record, an active record has an owner, retention is kept), and `ImplementsLedger`: what a client sees of a job is what `JobLedger` allows |
| `recovery_safety` | 3 images, 1 worker, queue 1, both limits 1, panics, torn appends, failing clean-ups, 2 crashes | `AnnouncedIsDurable`, `ServedIsDurable` (after a start nothing of an earlier life is active, and what can be queried is on disk), `HistoryKept` (no id is forgotten and no outcome rewritten) |
| `recovery_liveness` | 2 images, one by path, 2 workers, queue 1, panics, time-outs, refused inputs, dropped handlers, 2 crashes, no compaction | `AcceptedJobEnds`, `AcceptedJobCompletes`, and `MetricsAcrossLives` |
| `webhook` | 1 delivery, 35 attempts, 1 late request at a time | `ProcessedOnce`, `FailuresAccounted` (a dead letter means all attempts failed, and each is counted once), `BackoffNeverShrinks`, `DeliveryEnds` |
| `gate` | 4 requests, a probe, one without key, limit 1, window of 2 s with 2 ticks each, clock up to 7; handlers that answer 200, 404 or 503 | `RequestsCounted` (each answer once, each 4xx and 5xx as failed), `RateLimitHolds` (no more than twice the limit in any window, and no refusal without need), `RetryAfterHonest` |
| `generation` | 3 image slots, prompts of 4 to 8 tokens that may name `<image>` again, 4 new tokens, graphs of length 4, 6 or any, up to 2 tensors in any order, 2 heads of 2 | `TypeOK`, `MaskMatchesText`, `CacheFollowsText`, `LimitExact` (the loops fit their graphs and stop only for a reason), `TensorsHoldText` (each tensor is fed to its own layer, and holds the text head by head), `SampledByWeight`, `ImplementsAutoregression` |
| `pdf` | an upload and a local PDF of 0 to 3 pages, limit 2, queue 3, 2 workers, all eight faults (`FaultKinds`) | `TypeOK`, `PagesInOrder`, `WithinPageLimit`, `QueuedPagesOnDisk`, `FilesAccounted`, `SubmissionCompletes` (it ends, and the pages of an accepted one go) |
| `views` | 5 jobs, retention 3, pages of up to 3 rows, 3 changes; 128 pages of two or three blocks cut anywhere, a table of 3 rows with two of 7 damages, cells of up to 3 characters | `ListPagesCorrect`, `WalkEnds`, `PageShownAsMeant`, `CutOffKeepsPrefix`, `DamageContained`, `CellTextFaithful` |

Why these bounds. Two submissions of which one has two pages are the least with
which a page loses the race for the queue after the capacity check, a refused
page follows an accepted one, and retention (one record) evicts a record that is
queued or running; two workers are the least for the interplay of restart and
readiness. Three records with both limits at one make compaction drop a record
that is newer than another, and two crashes let the second fall into the recovery
from the first. Thirty-five attempts go past 16, the cap of the shift, and past
32, the width of `u32`; deliveries share nothing but the failure counter, so one
is enough for TLC, and the proof covers any number. Nearly two windows with a
limit of one show both sides of a boundary. The lengths of `generation` have
prompts shorter than the graph (padded), just as long (one step) and longer
(refused), and four tokens let the limit, the end-of-sequence token and the full
graph each be what stops the loop; two tensors in two orders are the least that
can be mixed up, two heads and two dimensions the least for wrong strides. The
page counts are none, one, just the limit and one more; a queue of three fits one
document of two pages and the first page of another. A 404 and a 503 are the least
that tell the two halves of `IsError` apart. Two damages are the least
that close a tag in the wrong place. Named bounds: `MaxCrashes`, `MaxLate`,
`MaxTime`, `PageCounts`, `MaxChanges`; in `views` the page of a job is opened
only from a list of one record that did not change (`OpensJob`), since what it
shows does not depend on the list. Symmetry is used for workers and for ordinary
requests, in runs without liveness properties only.

Properties that hold only under a condition say so: `ActiveHasOwner` and
`RetentionCap` except the record that a dropped handler, or one whose append
failed, leaves queued for good (`Abandoned`); `AnnouncedIsDurable` needs
succeeding appends and allows for compaction, `QueryableIsDurable` a metadata
limit of at least the job limit; `AcceptedJobEnds` needs initializations and
appends that succeed and no compaction or eviction, `AcceptedJobCompletes`
moreover removals that succeed. `QuietRecordsShown` allows one missed record for
each one rolled back meanwhile, which is what the code does. `AcceptedPagesRemoved`
excepts the pages whose removal failed or whose record was evicted, and claims nothing
once all workers have given up: it is the sentence of
`metadata-and-cleanup.md:15` as far as it holds, and `FinishedJobCleanedUp` below is
where it does not.

Fairness. Handlers and workers are tokio tasks: one that can go on is polled
again, hence weak fairness per handler and per worker while the server serves;
inference is a bounded loop in a blocking task, which returns or panics. A start
that is under way goes on (`WF(Startup)`). `pdftoppm` comes to an end on a finite
document: an assumption about an external program, needed because its output is
awaited without a time limit. In `pdf` workers take jobs and finish each one they
took. The client of the job list follows its links and
the map may change or not. Nobody is obliged to crash, to drop a handler or, in
`WebhookDelivery`, to answer: there only the client's own steps are fair, among
them its request timeout.

### Where code and documentation disagree

| Run | Property | What happens |
|---|---|---|
| `pipeline_ready` | `ReadyWhenWorkerIdle` | `mark_stopped` is called twice for a timed-out worker, so `/ready` answers 503 while another worker is idle |
| `pipeline_eviction` | `FinishedJobCleanedUp` | an evicted record makes `finish_job` skip everything, clean-up included |
| `recovery_torn` | `NeverRefusesToStart` | one torn line and `load_jobs` fails on every start |
| `recovery_webhook` | `FinishedJobAnnounced` | jobs recovered as failed are not announced |

`findings` in `PROJECT.json` quotes the lines. The images of jobs recovered as
failed stay on disk as well, against the same sentence as `FinishedJobCleanedUp`.

## 4. Proofs

Every theorem is about all values of the constants that the named assumptions of
its module allow, and is checked to the last leaf.

`JobPipeline_proofs`:

* `TypeCorrect`: `Spec => []TypeOK`. `TypeOK` is not inductive: that
  `MarkRunning` and `FinishRecord` look up a job needs `BusyHoldsJob` (a worker
  holds a request exactly from `recv` to the end of `finish_job`), and the
  readiness proof needs `LateTimedOut`. `TypeInv` is their conjunction, proved
  with one lemma for the steps of a handler and one for those of a worker.
* `OwnershipCorrect`: `Spec => []OneOwner`. Inductive relative to the types.
  Only `TrySend` puts a job in flight; its record belongs to a page not sent
  before (`CurrentJobUnsent`), and since ids are fresh it is in no queue slot
  and with no worker. `Receive` moves the head of the queue to a worker that
  held nothing. Sent pages stay sent (`SentJobsGrow`).
* `ReadyCorrect`: `Spec => []ReadyNotOverstated`. `WorkerReady` says what a step
  does to the count and to the set `Serving` together; the second
  `mark_stopped` of a timed-out worker finds it outside `Serving` already.
  Needs that `Workers` is finite, to count.

On the same invariants:

* `MetricsCorrect`: `Spec => []MetricsBalance`. A send adds one job to those sent
  and one to a counter (`TrySendSendsOne`, `SentOnlyBySend`); a worker's step
  counts a start when it enters the set of workers that compute and an end when it
  leaves it (`WorkerCounts`).
* `ImagesStay`: `Spec => []ImageAvailable`. `ImageInv` adds that before a handler
  waits at its pages nothing of it is sent, and that what it has not sent yet is
  on disk; removal is by the worker that owns the job, and no other has it.
* `OneOutcome`: `Spec => []OutcomesAgree`. `OutcomeInv` says who may know an
  outcome: pages not sent have none except by their own rollback, queued and
  starting jobs have none, and from `finish` on the worker that holds the job
  decides it, in the order map, `results.jsonl`, webhook.
* `RecordsKept`: `Spec => []RecordsAccounted`. `RecordInv` adds that `older` is a
  strict total order of the records; that retention leaves at most its limit is
  `RecentRecordsBound`, by an injection of the kept records into their ranks.

* `PipelineRefines`: `Spec => ImplementsLedger`, from `LedgerInv` (the invariants
  above and `Shown`: what the worker of a job has made visible). Inserting a
  record is `Show`, `try_send` is `Accept`, marking it running is `Start`,
  `finish_job` is `Finish`, the webhook is `Tell`, rollback and retention are
  `Forget`, and all other steps stutter.

`JobRecovery_proofs`, over any number of crashes. While the server serves, a step
is one of the pipeline and the lemmas above apply again; but not every invariant
above survives a crash, so each theorem has one that does.

* `HistoryIsKept`: `RecoverySpec => HistoryKept`. `OutcomeInv` does not survive
  a failing append as a whole, so `FilesInv` keeps only what does: a page not yet
  reached has no line, an undecided job has no result, between two lives nobody
  works, and at each step of `load_jobs` the map is what the files say
  (`Restored`).
* `LivesCountJobs`: `RecoverySpec => []MetricsAcrossLives`. `MetricsInv` is split
  into the counts of one life (`LifeCounts`), which a crash sets to zero together
  with the workers, and the counts of what was sent (`SentCounts`), which hold
  until the first crash.
* `AnnouncementsLast`: `RecoverySpec => []AnnouncedIsDurable`, if `"append"` is
  no fault. `DurableInv` adds to `OutcomeInv` that a worker past the append has
  its outcome in `results.jsonl` (`AppendedFirst`), that the order of what is in
  the map or the files stays total over a restart (`Ordered`), and
  `AnnouncedLogged`, which is `AnnouncedIsDurable` and that an id dropped by a
  compaction is dropped from both files. Without that last part the next
  `load_jobs` could take the job up again as interrupted. Compaction keeps the
  newest, so one that is dropped has `metadata_retention_limit` newer ones in its
  place, and those are superseded by as many before they are dropped
  themselves (`SupersededStays`).
* `OneOutcomeForEver`: `RecoverySpec => []OutcomesAgree`, under the same
  hypothesis, from the same invariant: what `load_jobs` fails nobody was told of.
* `ServedLasts`: `RecoverySpec => []ServedIsDurable`, if neither `"append"` nor
  `"drop"` is a fault and the metadata limit is 0 (keep all) or at least the job
  limit. `ServedInv` adds that no handler leaves an active record behind, that
  each finished record is logged or its worker is about to append it
  (`DecidedLogged`), and what the last step of a start keeps. The hypotheses are
  needed: a dropped handler leaves a queued record without an owner, a failing
  append a finished record without a line, and a smaller metadata limit forgets
  at the next start what could be queried before.

`Generation_proofs`:

* `GenerationTypeCorrect` and `CacheIsText`, from the inductive invariant
  `GenInv`. `CacheFollowsText` alone is not inductive: that the row the decode
  graph appends is the row of the last token needs that a pushed token is no
  image slot and that the mask is as long as the text (`InLoop`, `Aligned`).
  `PaddingIsCutOff` says that neither the logits nor the trimmed cache see the
  padding, `ExtendedIsText` that the extended cache is the text.
* `LimitIsExact` and `DecodeGraphFits`, from `StopInv`: the steps left of a loop
  always add up to one of its two limits, and are within the room left.
* `GenerationRefines`: `Spec => ImplementsAutoregression`. `TokenIsDrawn` maps
  the three steps that push a token to `Draw`, `BuildImagePrompt` is `Read`,
  `InferenceFails` is `Fail`, and the other steps stutter.
* `SlotsMatchImage`: `Spec => []MaskMatchesText`. A prompt is cut where it names
  the image; `PromptMarksItsImage` counts the marked places of the parts put
  together, and `MaskStep` shows that what a step appends is never marked,
  whatever token was drawn.
* `TensorsAreText`: `TensorSpec => []TensorsHoldText`, for any number of layers,
  batches, heads and dimensions. `TensorInv` keeps that each graph lists the
  names it has, each once (`NamesListed`), and that the values at hand are, name by name
  in sorted order, the tensor of the rows of `cache` (`ValuesHoldCache`). That a
  permutation has one ordered listing is `SortedListing`; that the flat index of
  a head, a row and a dimension survives trimming to fewer rows and growing by one
  is `TrimmedTensor` and `GrownTensor`, on the arithmetic of quotient and
  remainder in `PlaceInBlocks`. `TensorSpec` implies `Spec`, so that `cache` is
  the text is `CacheIsText`.
* `DrawnByWeight`: `SamplingSpec => []SampledByWeight`, for any row, vocabulary
  and weights. A drawn row is looked at once, so the property is inductive as it
  stands; what it takes is arithmetic on one row. The weights before a token add
  up (`WeightsAddUp`), so the samples below the total are cut into one stretch for
  each token: a sample within a stretch draws its token (`SampleDraws`), and each
  is within one (`SampleHasToken`, by the least token whose weight passes it). The
  stretch is as long as the weight (`WeightShares`). For infinite logits the
  same is the ranks in a finite set (`RankFacts`, `InfiniteShares`).
  `SamplingSpec` implies `TensorSpec` (`DrawingIsAStep`), so that all of the above
  is about the run's specification too.

`PdfSubmission_proofs`: `PdfTypeCorrect`, `PageLimitKept`, `QueuedPagesKept`,
`FilesAccountedFor` and `PagesStayInOrder`, from `PdfInv`, which says of each
document what its handler, renderer, pages and records are like at each step
(`Shaped`) and where its files are (`Filed`). Documents share the directory; that a
step touches only the files of its own document (`StepTouchesOwnFiles`) reduces an
invariant about all of them to one about each. Queue and workers are shared too: an
image is queued or with a worker, never both and never twice (`TakeJob` moves it),
and only `FinishJob` removes the file of another's page, which is then neither. The
pages from the cursor on were never queued, and those before it are queued, with a
worker, removed or evicted: with `Unqueued`, that is all that a loop cut short
leaves (`FilesAccountedFor`). `PagesStayInOrder` needs `InOrder` besides: once
collected and as many as counted, the pages of a document are its pages 1 to the
count (sorted, each once, none past the count), and the records built so far are
theirs, one for each when the last is read.

`WebhookDelivery_proofs`: `OneEventPerJob`, `FailuresAreAccounted` and
`BackoffGrows`, from `DeliveryInv`: all that was sent or is still under way for a
job carries its one event id (`OneEvent`), the requests made are the attempts
begun (`Counted`), and a delivery that ended did so for its reason (`Ended`).

`RequestGate_proofs`: `EveryAnswerCounted`, `RateLimitKept` and
`RetryAfterIsHonest`, for any statuses that handlers may give besides the three that
the layers give. Each step answers one request and adds it to the counters
(`AnswerCounted`), or answers none and leaves them alone (`NoAnswer`). `LimiterInv`
keeps that `count` is the number of requests admitted in this window and that the
window before admitted at most the limit; any stretch of a window's length touches
only those two, which gives `BurstBound`.

`JobViews_proofs`, about the list: `PagesMissNothing`, `Spec => []ListPagesCorrect`,
for any map, page, rows per page and retention limit, from `ListInv`. While nothing
changes, what was shown is the stretch of the list that ends where the next page
starts (`InStep`). With changes, the records that kept still and stand before that
place without having been shown are at most as many as were rolled back meanwhile
(`FewMissed`): an insertion or an update at the front moves others only further
down, where the next page finds them, a rollback moves one across the boundary, and
retention removes from the end only what is no longer still. That a page shown
starts within the list is `PageBounds`, from the arithmetic of `total_pages`
(`RoundedUp`), and `OpeningKeepsTheList` is the same under `ViewsSpec`, whose steps
follow `JobListing` or leave the list alone.

`JobViews_proofs`, about the page of a job, under `ViewsSpec` and for any pages,
tables, damages and texts the assumptions allow. An answer was made of the
constants when it was opened and no later step changes it (`AnswerInv`), so each
of the four theorems is one about the parser and all texts of a kind. The parser's
loops are recursive functions over the positions of a text of any length, and the
library's induction theorems take an operator, which cannot be instantiated here;
`OcrOutput_proofs` therefore derives what it needs from the least number with a
property (`LeastOf`). `UpTo` and `DownTo` are induction over a set of numbers,
`LoopExists` and `FoldExists` give the functions such loops define, for any step
given as a function, and the `...Unfold` lemmas (`DetectionsUnfold`, `RowsUnfold`,
`CellsUnfold`, `StripTagsUnfold`, `TablesUnfold`, `ViewsUnfold`) state each loop of
`OcrOutput` as one equation per position. `FlattenParts` is the same for what
`FlattenSeq` puts together.

* `CutOffShowsTheBeginning`: `[]CutOffKeepsPrefix`. A scan of the shorter text
  finds what one of the longer finds, or nothing (`CutScan`); so from each
  position on, the loop sees the same detections up to one that may miss its end
  (`DetectionsBegin`), the rows of a closed table are the same (`RowsCut`,
  `TableCut`), and the tables are a prefix (`TablesBegin`).
* `PagesAreShownAsMeant`: `[]PageShownAsMeant`. `StandsAt` says where a piece of
  what was written stands in the text, `IsChain` that a loop which goes from one
  piece to the next puts their results together (`ChainFlattens`). Cells stand one
  behind the other in a row (`CellAt`, `CellsAsMeant`), rows in a table
  (`TableLayout`, `RowAt`, `TableAsMeant`), blocks on a page (`PageLayout`,
  `BlockAt`, `PageFound`); a malformed header passes its loop by without a
  detection (`HeaderAsMeant`). A table is matched with its own detection and not
  with another of the same box, since a table keeps the
  text it was read from, and the rows of that text (`TablesHoldTheirRows`,
  `OwnTable`).
* `CellsShowTheirText`: `[]CellTextFaithful`. Escaping leaves no bare `<` or `&`
  (`EscapedFacts`), so stripping removes exactly the tags (`StripsWritten`) and
  decoding gives back each character (`DecodesEscaped`).
* `DamageStaysContained`: `[]DamageContained`. Before the first damage the text is
  the written one (`DamagedBegins`), and the rows that close there are found as
  meant whatever follows (`RowsShown`, `RowsBeforeDamage`). For the rest no layout
  is left to reason from; instead every loop of the parser only moves on, so the
  words of what it finds stand at rising places of the damaged text, from
  stripping (`StripRises`) over cells and rows to the table (`CellsRise`,
  `RowsRise`, `TableRises`). Damage brings in tags only (`StaysToldApart`), so a
  word has one place there and none is shown twice.

Model-checked only: the liveness properties `AcceptedJobEnds`,
`AcceptedJobCompletes`, `DeliveryEnds`, `SubmissionCompletes` and `WalkEnds`, since
fairness and ENABLED are out of the prover's reach. Every other property of the
passing runs is stated by a theorem. The four findings are counterexamples, which
TLC shows.

## 5. Not modelled, and what is left

Not modelled, with the reason:

* Configuration: resolved once before anything runs, environment over file over
  default; no state, no concurrency. What it admits are the assumptions on the
  constants (`queue_size` 0 makes `async_channel::bounded` panic at the start, so
  it is excluded).
* Templates, HTML escaping, OpenAPI text, system usage, CLI and logging: they
  format what others decide.
* Resizing, padding and normalizing pixels, and what ONNX sessions compute:
  floating-point arithmetic and external code. Of tensors only lengths, counts,
  names, order and index arithmetic are kept.
* The checks of submitted images, URLs and paths: one refusal in
  `PrepareSubmission`. CORS and response headers are constant.

Left to do: `WebhookDelivery` as a refinement of the webhook step of `JobPipeline`,
and `PdfSubmission` as one of its `PrepareSubmission` and page loop.
