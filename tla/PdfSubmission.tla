--------------------------- MODULE PdfSubmission ---------------------------
(***************************************************************************)
(* What PrepareSubmission of JobPipeline stands for when the submission is *)
(* a PDF: the document is written, counted by pdfinfo, rendered page by    *)
(* page by pdftoppm into the directory all submissions share, the pages    *)
(* are collected from a listing of that directory, read, turned into job   *)
(* records and enqueued one after the other.                               *)
(*                                                                         *)
(* pdftoppm is a process of its own: nothing kills it when the handler's   *)
(* future is dropped.  A document submitted by path belongs to the caller, *)
(* who may replace it at any time.                                         *)
(***************************************************************************)
EXTENDS Naturals, Sequences, FiniteSets

CONSTANTS
    Documents,    \* PDF submissions
    Uploads,      \* those sent in the body; the others are local paths
    PageCounts,   \* page counts a PDF may have (bound)
    MaxPdfPages,  \* config.max_pdf_pages
    QueueSize,    \* config.queue_size
    Workers,      \* config.worker_count
    Faults        \* which environment faults may happen, see FaultKinds

(***************************************************************************)
(* "drop"    the handler's future dropped by TimeoutLayer or a disconnect  *)
(* "io"      write of the upload or read_dir returning an error            *)
(* "render"  pdfinfo or pdftoppm missing or exiting with an error          *)
(* "page"    a page that cannot be read or fails validate_image_bytes      *)
(* "append"  a line that cannot be appended while a page is enqueued: that *)
(*           of the submission, or that of its rollback                    *)
(* "close"   every worker gives up, which closes the channel               *)
(* "evict"   the record of a queued or running job taken out of the store  *)
(*           by job_retention_limit when another job finishes              *)
(* "remove"  remove_file failing                                           *)
(***************************************************************************)
FaultKinds == {"drop", "io", "render", "page", "append", "close", "evict", "remove"}

ASSUME DocumentsAssumption ==
    /\ Uploads \subseteq Documents
    /\ PageCounts \subseteq Nat
    /\ MaxPdfPages \in Nat \ {0}
    /\ QueueSize \in Nat \ {0}
    /\ Workers \in Nat \ {0}
    /\ Faults \subseteq FaultKinds

VARIABLES
    step,      \* step[d]: where the handler of d is, or how it ended
    source,    \* source[d]: pages the PDF has now
    counted,   \* counted[d]: page_count of render_pdf_pages
    renderer,  \* renderer[d]: the pdftoppm process
    files,     \* files that exist: <<d, 0>> the PDF itself, which is
               \* {batch_id}.pdf or the caller's file, <<d, n>> its page n
    pages,     \* pages[d]: images of the RenderedPdfPages, in order
    records,   \* records[d]: the JobRecords built so far
    cursor,    \* cursor[d]: next page to read, enqueue or remove
    answer,    \* answer[d]: what the handler returns after its clean-up
    queue,     \* images of the queued page jobs
    running,   \* images of the jobs the workers have taken
    closed,    \* whether the channel is closed
    undeleted, \* files a remove_file failed for
    evicted    \* images whose job finished without a record

handlerVars == <<step, counted, pages, records, cursor, answer>>
fileVars    == <<files, undeleted>>
workerVars  == <<running, closed, evicted>>
vars == <<handlerVars, source, renderer, fileVars, queue, workerVars>>

Steps   == {"write", "inspect", "render", "rendering", "collect", "discard", "read",
            "capacity", "cleanup", "enqueue"}
Answers == {"accepted", "not_saved", "not_rendered", "bad_page", "no_capacity", "unavailable",
            "not_persisted", "dropped"}

Idle == [state |-> "none", last |-> 0, next |-> 1]

Init ==
    /\ step = [d \in Documents |-> IF d \in Uploads THEN "write" ELSE "inspect"]
    /\ source \in [Documents -> PageCounts]
    /\ counted = [d \in Documents |-> 0]
    /\ renderer = [d \in Documents |-> Idle]
    /\ files = {<<d, 0>> : d \in Documents \ Uploads}
    /\ undeleted = {}
    /\ pages = [d \in Documents |-> <<>>]
    /\ records = [d \in Documents |-> <<>>]
    /\ cursor = [d \in Documents |-> 1]
    /\ answer = [d \in Documents |-> "accepted"]
    /\ queue = <<>> /\ running = {} /\ closed = FALSE /\ evicted = {}

Go(d, from, to) == step[d] = from /\ step' = [step EXCEPT ![d] = to]

Pdf(d)      == <<d, 0>>
ImagesOf(d) == {f \in files : f[1] = d /\ f[2] # 0}

(* remove_file, whose error is at most logged *)
Remove(path) ==
    \/ files' = files \ {path} /\ UNCHANGED undeleted
    \/ "remove" \in Faults /\ undeleted' = undeleted \cup {path} /\ UNCHANGED files

-----------------------------------------------------------------------------
(***************************************************************************)
(* uploaded_pdf_page_records and render_pdf_pages                          *)
(***************************************************************************)
(* Where a rendering that did not succeed continues *)
AfterFailure(d) == IF d \in Uploads THEN "discard" ELSE "not_rendered"
AfterSuccess(d) == IF d \in Uploads THEN "discard" ELSE "read"

Fail(d, from) ==
    /\ Go(d, from, AfterFailure(d))
    /\ answer' = [answer EXCEPT ![d] = "not_rendered"]

WriteUpload(d) ==
    /\ \/ Go(d, "write", "inspect") /\ files' = files \cup {Pdf(d)}
       \/ /\ "io" \in Faults
          /\ Go(d, "write", "not_saved")
          /\ files' \in {files, files \cup {Pdf(d)}}
    /\ UNCHANGED <<source, counted, renderer, undeleted, pages, records, cursor, answer, queue, workerVars>>

(* Mutant: a document without pages is the only one refused *)
InspectUnlimited(d) ==
    /\ \/ /\ source[d] # 0
          /\ Go(d, "inspect", "render")
          /\ counted' = [counted EXCEPT ![d] = source[d]]
          /\ UNCHANGED answer
       \/ source[d] = 0 /\ Fail(d, "inspect") /\ UNCHANGED counted
    /\ UNCHANGED <<source, renderer, fileVars, pages, records, cursor, queue, workerVars>>

(* pdfinfo, then the two checks of the page count *)
InspectPageCount(d) ==
    /\ \/ /\ source[d] \in 1..MaxPdfPages
          /\ Go(d, "inspect", "render")
          /\ counted' = [counted EXCEPT ![d] = source[d]]
          /\ UNCHANGED answer
       \/ /\ source[d] \notin 1..MaxPdfPages \/ "render" \in Faults
          /\ Fail(d, "inspect")
          /\ UNCHANGED counted
    /\ UNCHANGED <<source, renderer, fileVars, pages, records, cursor, queue, workerVars>>

(* Mutant: pdftoppm is started without -l *)
StartWithoutLast(d) ==
    /\ Go(d, "render", "rendering")
    /\ renderer' = [renderer EXCEPT ![d] =
         [state |-> "running", next |-> 1, last |-> source[d]]]
    /\ UNCHANGED <<source, counted, fileVars, pages, records, cursor, answer, queue, workerVars>>

(* pdftoppm -f 1 -l page_count: it renders what the file holds by then *)
StartRenderer(d) ==
    /\ Go(d, "render", "rendering")
    /\ renderer' = [renderer EXCEPT ![d] =
         [state |-> "running", next |-> 1,
          last  |-> IF counted[d] < source[d] THEN counted[d] ELSE source[d]]]
    /\ UNCHANGED <<source, counted, fileVars, pages, records, cursor, answer, queue, workerVars>>

(* The external renderer: one page, its end, or an error at any page *)
RenderPage(d) ==
    /\ renderer[d].state = "running" /\ renderer[d].next <= renderer[d].last
    /\ files' = files \cup {<<d, renderer[d].next>>}
    /\ renderer' = [renderer EXCEPT ![d].next = @ + 1]
    /\ UNCHANGED <<handlerVars, source, undeleted, queue, workerVars>>

RendererExits(d) ==
    /\ renderer[d].state = "running"
    /\ \/ /\ renderer[d].next > renderer[d].last
          /\ renderer' = [renderer EXCEPT ![d].state = "success"]
       \/ /\ "render" \in Faults
          /\ renderer' = [renderer EXCEPT ![d].state = "failure"]
    /\ UNCHANGED <<handlerVars, source, fileVars, queue, workerVars>>

(* Mutant: only a successful exit ends the wait *)
RenderSucceeds(d) ==
    /\ renderer[d].state = "success" /\ Go(d, "rendering", "collect")
    /\ UNCHANGED <<source, counted, renderer, fileVars, pages, records, cursor, answer, queue, workerVars>>

RenderEnds(d) ==
    /\ \/ renderer[d].state = "success" /\ Go(d, "rendering", "collect") /\ UNCHANGED answer
       \/ renderer[d].state = "failure" /\ Fail(d, "rendering")
    /\ UNCHANGED <<source, counted, renderer, fileVars, pages, records, cursor, queue, workerVars>>

(* read_dir, filtered by the stem of the batch *)
Rendered(d) == ImagesOf(d)

(* read_dir yields the entries in any order *)
Listings(S) == {l \in [1..Cardinality(S) -> S] : \A f \in S : \E i \in DOMAIN l : l[i] = f}

(* Mutant: the pages stay in the order of the listing *)
ListingOrder(l) == TRUE

SortedByPage(l) == \A i, k \in DOMAIN l : i < k => l[i][2] < l[k][2]

CollectRenderedPages(d) ==
    /\ \/ /\ Cardinality(Rendered(d)) = counted[d]
          /\ \E l \in Listings(Rendered(d)) :
                SortedByPage(l) /\ pages' = [pages EXCEPT ![d] = l]
          /\ Go(d, "collect", AfterSuccess(d))
          /\ UNCHANGED answer
       \/ /\ Cardinality(Rendered(d)) # counted[d] \/ "io" \in Faults
          /\ Fail(d, "collect")
          /\ UNCHANGED pages
    /\ UNCHANGED <<source, counted, renderer, fileVars, records, cursor, queue, workerVars>>

(* cleanup_uploaded_pdf, whatever render_pdf_pages returned *)
CleanupUploadedPdf(d) ==
    /\ Go(d, "discard", IF answer[d] = "accepted" THEN "read" ELSE "not_rendered")
    /\ Remove(Pdf(d))
    /\ UNCHANGED <<source, counted, renderer, pages, records, cursor, answer, queue, workerVars>>

-----------------------------------------------------------------------------
(***************************************************************************)
(* page_records_from_rendered_pdf and enqueue_pending_submission           *)
(***************************************************************************)
Current(d) == pages[d][cursor[d]]

(* The record of the page at the cursor *)
Record(d) == [image |-> Current(d), page |-> Current(d)[2], of |-> Len(pages[d])]

Advance(d) == cursor' = [cursor EXCEPT ![d] = @ + 1]
Rewind(d)  == cursor' = [cursor EXCEPT ![d] = 1]

AbandonPages(d, from, why) ==
    /\ Go(d, from, "cleanup")
    /\ answer' = [answer EXCEPT ![d] = why]
    /\ Rewind(d)

ReadPage(d) ==
    /\ step[d] = "read"
    /\ \/ /\ Current(d) \in files
          /\ records' = [records EXCEPT ![d] = Append(@, Record(d))]
          /\ IF cursor[d] < Len(pages[d])
             THEN Advance(d) /\ UNCHANGED step
             ELSE Rewind(d) /\ Go(d, "read", "capacity")
          /\ UNCHANGED answer
       \/ /\ Current(d) \notin files \/ "page" \in Faults
          /\ AbandonPages(d, "read", "bad_page")
          /\ UNCHANGED records
    /\ UNCHANGED <<source, counted, renderer, fileVars, pages, queue, workerVars>>

EnsureQueueHasCapacity(d) ==
    /\ \/ /\ Len(queue) + Len(records[d]) <= QueueSize
          /\ Go(d, "capacity", "enqueue")
          /\ UNCHANGED <<answer, cursor>>
       \/ /\ Len(queue) + Len(records[d]) > QueueSize
          /\ AbandonPages(d, "capacity", "no_capacity")
    /\ UNCHANGED <<source, counted, renderer, fileVars, pages, records, queue, workerVars>>

(* Mutant: every rendered page in the directory goes *)
CleanupEverything(d) ==
    /\ Go(d, "cleanup", answer[d])
    /\ files' = {f \in files : f[2] = 0}
    /\ UNCHANGED <<source, counted, renderer, undeleted, pages, records, cursor, answer, queue, workerVars>>

(* Mutant: only the pages that became records are removed *)
CleanupRecords(d) ==
    /\ Go(d, "cleanup", answer[d])
    /\ files' = files \ {records[d][i].image : i \in DOMAIN records[d]}
    /\ UNCHANGED <<source, counted, renderer, undeleted, pages, records, cursor, answer, queue, workerVars>>

(* cleanup_paths: one remove_file per page *)
CleanupPage(d) ==
    /\ step[d] = "cleanup"
    /\ Remove(Current(d))
    /\ IF cursor[d] < Len(pages[d])
       THEN Advance(d) /\ UNCHANGED step
       ELSE UNCHANGED cursor /\ Go(d, "cleanup", answer[d])
    /\ UNCHANGED <<source, counted, renderer, pages, records, answer, queue, workerVars>>

(* enqueue_record once per page.  A page that is refused or cannot be logged *)
(* ends the loop; its image and those after it stay.                        *)
EnqueuePage(d) ==
    /\ step[d] = "enqueue"
    /\ \/ /\ Len(queue) < QueueSize /\ ~closed
          /\ queue' = Append(queue, records[d][cursor[d]].image)
          /\ Advance(d)
          /\ IF cursor[d] < Len(records[d]) THEN UNCHANGED step
                                            ELSE Go(d, "enqueue", "accepted")
       \/ /\ Len(queue) >= QueueSize \/ closed
          /\ Go(d, "enqueue", "unavailable")
          /\ UNCHANGED <<queue, cursor>>
       \/ /\ "append" \in Faults
          /\ Go(d, "enqueue", "not_persisted")
          /\ UNCHANGED <<queue, cursor>>
    /\ UNCHANGED <<source, counted, renderer, fileVars, pages, records, answer, workerVars>>

(* Dropping the future at an await.  A blocking file operation already under *)
(* way completes all the same, which is the step and then the drop.         *)
DropHandler(d) ==
    /\ "drop" \in Faults
    /\ step[d] \in Steps
    /\ step' = [step EXCEPT ![d] = "dropped"]
    /\ UNCHANGED <<source, counted, renderer, fileVars, pages, records, cursor, answer, queue, workerVars>>

(* An idle worker receives the oldest job. *)
TakeJob ==
    /\ ~closed
    /\ queue # <<>> /\ Cardinality(running) < Workers
    /\ queue' = Tail(queue)
    /\ running' = running \cup {Head(queue)}
    /\ UNCHANGED <<handlerVars, source, renderer, fileVars, closed, evicted>>

(* finish_job, whatever became of the inference: the page goes              *)
(* (cleanup_job_artifacts), but not if the record is gone.                  *)
FinishJob(image) ==
    /\ image \in running
    /\ running' = running \ {image}
    /\ \/ Remove(image) /\ UNCHANGED evicted
       \/ /\ "evict" \in Faults
          /\ evicted' = evicted \cup {image}
          /\ UNCHANGED fileVars
    /\ UNCHANGED <<handlerVars, source, renderer, queue, closed>>

(* The last worker leaves run_worker, and its receiver with it. *)
WorkersGiveUp ==
    /\ "close" \in Faults
    /\ running = {} /\ ~closed
    /\ closed' = TRUE
    /\ UNCHANGED <<handlerVars, source, renderer, fileVars, queue, running, evicted>>

(* The owner of a local PDF replaces it before pdftoppm has opened it. *)
ReplaceSource(d) ==
    /\ d \notin Uploads
    /\ step[d] \in {"inspect", "render"}
    /\ \E n \in PageCounts : source' = [source EXCEPT ![d] = n]
    /\ UNCHANGED <<handlerVars, renderer, fileVars, queue, workerVars>>

Handler(d) ==
    \/ WriteUpload(d)
    \/ InspectPageCount(d)
    \/ StartRenderer(d)
    \/ RenderEnds(d)
    \/ CollectRenderedPages(d)
    \/ CleanupUploadedPdf(d)
    \/ ReadPage(d)
    \/ EnsureQueueHasCapacity(d)
    \/ CleanupPage(d)
    \/ EnqueuePage(d)

Renderer(d) == RenderPage(d) \/ RendererExits(d)

Next ==
    \/ \E d \in Documents : Handler(d) \/ Renderer(d) \/ DropHandler(d) \/ ReplaceSource(d)
    \/ TakeJob \/ WorkersGiveUp
    \/ \E image \in running : FinishJob(image)

(* Handlers and workers are tokio tasks that are polled again, and finish   *)
(* their jobs; pdftoppm is given a finite document and comes to an end.     *)
Fairness ==
    /\ \A d \in Documents : WF_vars(Handler(d)) /\ WF_vars(Renderer(d))
    /\ WF_vars(TakeJob)
    /\ \A image \in Documents \X (1..MaxPdfPages) : WF_vars(FinishJob(image))

Spec     == Init /\ [][Next]_vars
FairSpec == Spec /\ Fairness

-----------------------------------------------------------------------------
(***************************************************************************)
(* Safety                                                                  *)
(***************************************************************************)
(* Every variable stays in its domain. *)
Paths == Documents \X Nat

RendererType == [state : {"none", "running", "success", "failure"}, last : Nat, next : Nat]

TypeOK ==
    /\ step \in [Documents -> Steps \cup Answers]
    /\ source \in [Documents -> PageCounts]
    /\ counted \in [Documents -> 0..MaxPdfPages]
    /\ renderer \in [Documents -> RendererType]
    /\ files \subseteq Paths
    /\ undeleted \subseteq Paths
    /\ pages \in [Documents -> Seq(Paths)]
    /\ records \in [Documents -> Seq([image : Paths, page : Nat, of : Nat])]
    /\ cursor \in [Documents -> Nat \ {0}]
    /\ answer \in [Documents -> {"accepted", "not_rendered", "bad_page", "no_capacity"}]
    /\ queue \in Seq(Paths)
    /\ Len(queue) <= QueueSize
    /\ running \subseteq Paths /\ evicted \subseteq Paths
    /\ closed \in BOOLEAN

(* The images of the jobs that are queued or running *)
Pending == {queue[i] : i \in DOMAIN queue} \cup running

(* The records of a document are its pages 1 to page_count in order, each   *)
(* with its own image, whatever read_dir yields first, whatever other       *)
(* documents are rendered into the same directory meanwhile and although    *)
(* the PDF may have been replaced after it was counted.                     *)
PagesInOrder ==
    \A d \in Documents :
        step[d] \in {"capacity", "enqueue", "accepted", "no_capacity", "unavailable",
                     "not_persisted"} =>
            records[d] = [i \in 1..counted[d] |->
                            [image |-> <<d, i>>, page |-> i, of |-> counted[d]]]

(* No page past max_pdf_pages is ever rendered, although the check is made  *)
(* on the answer of pdfinfo and the document may have grown since.          *)
WithinPageLimit == \A f \in files : f[2] <= MaxPdfPages

(* The image of every page that is queued or being computed is on disk: no  *)
(* refusal, failure or finished job of another document removes it.         *)
QueuedPagesOnDisk == Pending \subseteq files

(* The pages the loop of enqueue_pdf_records had not queued when it ended   *)
Unqueued(d) == {pages[d][i] : i \in cursor[d]..Len(pages[d])}

(* A page image is still with its handler, in the queue or with a worker,   *)
(* or it was left behind by                                                 *)
(*   - a dropped handler or a failed rendering;                             *)
(*   - a page before it, or its own, that was refused by a full or closed   *)
(*     queue or could not be appended: the pages before that one are not    *)
(*     left behind;                                                         *)
(*   - the eviction of its record while its job was queued or running;      *)
(*   - a failed remove_file.                                                *)
(* In particular, a page that is refused after the collection and a         *)
(* document that does not fit leave none.                                   *)
PagesHaveOwner ==
    \A f \in files :
        f[2] # 0 =>
            \/ step[f[1]] \in Steps
            \/ step[f[1]] \in {"dropped", "not_rendered"}
            \/ step[f[1]] \in {"unavailable", "not_persisted"} /\ f \in Unqueued(f[1])
            \/ f \in Pending \cup undeleted \cup evicted

(* The PDF of an upload is gone once its handler has answered, whichever    *)
(* step failed, unless the handler was dropped, or the write or the removal *)
(* itself failed (cleanup_uploaded_pdf).                                    *)
UploadRemoved ==
    \A d \in Uploads :
        Pdf(d) \in files =>
            step[d] \in Steps \cup {"dropped", "not_saved"} \/ Pdf(d) \in undeleted

(* The PDF of a caller stays, although its pages, which are made from it in  *)
(* data/images/, are removed (should_delete_image).                         *)
CallerFileKept == \A d \in Documents \ Uploads : Pdf(d) \in files

(* Every file is there for a reason, and the callers' files are there.      *)
FilesAccounted == PagesHaveOwner /\ UploadRemoved /\ CallerFileKept

(***************************************************************************)
(* Liveness                                                                *)
(***************************************************************************)
(* Every submission ends, however its renderer does. *)
SubmissionEnds == \A d \in Documents : <>(step[d] \in Answers)

(* The pages of an accepted document are gone once its jobs have finished   *)
(* (metadata-and-cleanup.md:15), apart from those whose removal failed or   *)
(* whose record was evicted before; if all workers give up, what is queued  *)
(* stays.                                                                   *)
AcceptedPagesRemoved ==
    \A d \in Documents :
        (step[d] = "accepted") ~> (ImagesOf(d) \subseteq undeleted \cup evicted \/ closed)

(* A submission ends, and what it rendered goes after it, those pages apart. *)
SubmissionCompletes == SubmissionEnds /\ AcceptedPagesRemoved
=============================================================================
