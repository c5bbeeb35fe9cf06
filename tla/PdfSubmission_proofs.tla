------------------------ MODULE PdfSubmission_proofs ------------------------
(***************************************************************************)
(* Proofs about PdfSubmission, for any documents, page counts, limits,     *)
(* queue size and number of workers, every combination of the faults and   *)
(* every interleaving of handlers, renderers, workers and owners of local  *)
(* files.                                                                  *)
(*                                                                         *)
(* The invariant has two parts: Shaped says of one document what its       *)
(* handler holds at each step, and Filed says where its files are.         *)
(***************************************************************************)
EXTENDS PdfSubmission, TLAPS, FiniteSetTheorems

(* The pages of d have been collected. *)
Collected(d) ==
    \/ step[d] \in {"read", "capacity", "cleanup", "enqueue",
                    "accepted", "bad_page", "no_capacity", "unavailable", "not_persisted"}
    \/ step[d] = "discard" /\ answer[d] = "accepted"

Early == {"write", "inspect", "render", "rendering", "collect"}

(* The process is started once, after the count, and stays within it. *)
RendererShaped(d) ==
    /\ renderer[d].next > 0
    /\ step[d] \in {"write", "inspect", "render", "not_saved"} => renderer[d].state = "none"
    /\ step[d] \in {"render", "rendering", "collect"} => counted[d] > 0
    /\ renderer[d].state # "none" =>
        renderer[d].last <= counted[d] /\ renderer[d].next <= renderer[d].last + 1
    /\ step[d] = "collect" \/ Collected(d) => renderer[d].state = "success"

(* What the handler will answer, and where a local document never is *)
AnswerShaped(d) ==
    /\ step[d] \in Early => answer[d] = "accepted" /\ cursor[d] = 1 /\ records[d] = <<>>
    /\ step[d] = "discard" => d \in Uploads
    /\ step[d] = "cleanup" => answer[d] \in {"bad_page", "no_capacity"}

(* The collected pages are images of d, each once. *)
PagesShaped(d) ==
    Collected(d) =>
        /\ Len(pages[d]) > 0
        /\ \A i \in DOMAIN pages[d] : pages[d][i][1] = d /\ pages[d][i][2] # 0
        /\ \A i, k \in DOMAIN pages[d] : i # k => pages[d][i] # pages[d][k]

(* The records follow the pages, and the cursor is inside what it runs over. *)
RecordsShaped(d) ==
    Collected(d) =>
        /\ Len(records[d]) <= Len(pages[d])
        /\ \A k \in DOMAIN records[d] : records[d][k].image = pages[d][k]
        /\ step[d] \in {"discard", "capacity"} => cursor[d] = 1
        /\ step[d] = "discard" => records[d] = <<>>
        /\ step[d] = "read" => Len(records[d]) = cursor[d] - 1
        /\ step[d] \in {"read", "cleanup", "enqueue"} => cursor[d] <= Len(pages[d])
        /\ step[d] \in {"capacity", "enqueue"} => Len(records[d]) = Len(pages[d])

Shaped(d) == RendererShaped(d) /\ AnswerShaped(d) /\ PagesShaped(d) /\ RecordsShaped(d)

-----------------------------------------------------------------------------
(* A page exists once its process has written it. *)
FilesRendered ==
    \A f \in files :
        f[2] # 0 => renderer[f[1]].state # "none" /\ f[2] < renderer[f[1]].next

(* A document with a job in the queue or with a worker *)
Queueing == {"enqueue", "accepted", "unavailable", "not_persisted", "dropped"}

(* Every page that is queued or running is there, has one job, and is of a  *)
(* document that reached the queue.                                         *)
QueueFiled ==
    /\ Pending \subseteq files
    /\ \A i, k \in DOMAIN queue : i # k => queue[i] # queue[k]
    /\ \A i \in DOMAIN queue : queue[i] \notin running
    /\ \A f \in Pending : f[2] # 0 /\ step[f[1]] \in Queueing

(* What the handler goes on with is there and not in the queue yet. *)
RecordsFiled(d) ==
    /\ step[d] \in {"read", "capacity"} =>
        \A k \in DOMAIN records[d] : records[d][k].image \in files
    /\ step[d] = "enqueue" =>
        \A k \in DOMAIN records[d] :
            k >= cursor[d] => records[d][k].image \in files \ Pending

(* The pages that are there are those the handler has still to treat or did *)
(* not reach, those that are queued or running, those whose record was gone *)
(* when their job ended and those whose removal failed.                     *)
ImagesFiled(d) ==
    /\ (step[d] = "discard" /\ answer[d] = "accepted") \/ step[d] \in {"read", "capacity"} =>
        \A f \in ImagesOf(d) : \E k \in DOMAIN pages[d] : pages[d][k] = f
    /\ step[d] \in {"enqueue", "unavailable", "not_persisted"} =>
        \A f \in ImagesOf(d) :
            \/ f \in Pending \cup undeleted \cup evicted
            \/ \E k \in DOMAIN pages[d] : k >= cursor[d] /\ pages[d][k] = f
    /\ step[d] = "cleanup" =>
        \A f \in ImagesOf(d) :
            \/ f \in undeleted
            \/ \E k \in DOMAIN pages[d] : k >= cursor[d] /\ pages[d][k] = f
    /\ step[d] \in {"accepted", "bad_page", "no_capacity"} =>
        ImagesOf(d) \subseteq Pending \cup undeleted \cup evicted

(* The PDF of an upload is removed before its pages are looked at; that of  *)
(* a caller is never.                                                       *)
PdfFiled(d) ==
    /\ d \notin Uploads => Pdf(d) \in files
    /\ d \in Uploads /\ step[d] \in {"read", "capacity", "cleanup", "enqueue"}
                             \cup (Answers \ {"not_saved", "dropped"}) =>
        Pdf(d) \notin files \/ Pdf(d) \in undeleted

Filed(d) == RecordsFiled(d) /\ ImagesFiled(d) /\ PdfFiled(d)

PdfInv ==
    /\ TypeOK
    /\ \A d \in Documents : Shaped(d)
    /\ FilesRendered
    /\ QueueFiled
    /\ \A d \in Documents : Filed(d)

Acts(d) == Handler(d) \/ Renderer(d) \/ DropHandler(d) \/ ReplaceSource(d)

-----------------------------------------------------------------------------
(* What the types say of one document *)
LEMMA TypeOf ==
    ASSUME TypeOK, NEW d \in Documents
    PROVE  /\ step[d] \in Steps \cup Answers
           /\ source[d] \in Nat
           /\ counted[d] \in Nat /\ counted[d] <= MaxPdfPages
           /\ renderer[d] \in RendererType
           /\ renderer[d].state \in {"none", "running", "success", "failure"}
           /\ renderer[d].last \in Nat /\ renderer[d].next \in Nat
           /\ pages[d] \in Seq(Paths) /\ Len(pages[d]) \in Nat
           /\ DOMAIN pages[d] = 1..Len(pages[d])
           /\ records[d] \in Seq([image : Paths, page : Nat, of : Nat])
           /\ Len(records[d]) \in Nat /\ DOMAIN records[d] = 1..Len(records[d])
           /\ cursor[d] \in Nat \ {0}
           /\ answer[d] \in {"accepted", "not_rendered", "bad_page", "no_capacity"}
<1>1. /\ pages[d] \in Seq(Paths)
      /\ records[d] \in Seq([image : Paths, page : Nat, of : Nat])
  BY DEF TypeOK
<1>2. Len(pages[d]) \in Nat /\ DOMAIN pages[d] = 1..Len(pages[d])
  BY <1>1
<1>3. Len(records[d]) \in Nat /\ DOMAIN records[d] = 1..Len(records[d])
  BY <1>1
<1>4. counted[d] \in 0..MaxPdfPages /\ source[d] \in PageCounts
  BY DEF TypeOK
<1>5. counted[d] \in Nat /\ counted[d] <= MaxPdfPages /\ source[d] \in Nat
  <2>1. MaxPdfPages \in Nat /\ PageCounts \subseteq Nat
    BY DocumentsAssumption
  <2>2. \A n \in 0..MaxPdfPages : n \in Nat /\ n <= MaxPdfPages
    BY <2>1
  <2> QED
    BY <1>4, <2>1, <2>2
<1>6. /\ renderer[d] \in RendererType
      /\ renderer[d].state \in {"none", "running", "success", "failure"}
      /\ renderer[d].last \in Nat /\ renderer[d].next \in Nat
  BY DEF TypeOK, RendererType
<1>7. /\ step[d] \in Steps \cup Answers
      /\ cursor[d] \in Nat \ {0}
      /\ answer[d] \in {"accepted", "not_rendered", "bad_page", "no_capacity"}
  BY DEF TypeOK
<1> QED
  BY <1>1, <1>2, <1>3, <1>5, <1>6, <1>7

(* The page at the cursor, while the handler runs over its pages, and the   *)
(* record of it, while it runs over its records                             *)
LEMMA AtCursor ==
    ASSUME TypeOK, NEW d \in Documents, Shaped(d),
           step[d] \in {"read", "cleanup", "enqueue"}
    PROVE  /\ cursor[d] \in DOMAIN pages[d]
           /\ Current(d) \in Paths
           /\ Current(d)[1] = d /\ Current(d)[2] # 0 /\ Current(d)[2] \in Nat
           /\ step[d] = "enqueue" =>
                /\ cursor[d] \in DOMAIN records[d]
                /\ records[d][cursor[d]].image = Current(d)
<1>1. Collected(d)
  BY DEF Collected
<1>2. cursor[d] \in DOMAIN pages[d]
  BY <1>1, TypeOf DEF Shaped, RecordsShaped
<1>3. Current(d) \in Paths
  BY <1>2, TypeOf DEF Current
<1>4. Current(d)[1] = d /\ Current(d)[2] # 0
  BY <1>1, <1>2 DEF Shaped, PagesShaped, Current
<1>5. ASSUME step[d] = "enqueue"
      PROVE  cursor[d] \in DOMAIN records[d] /\ records[d][cursor[d]].image = Current(d)
  BY <1>1, <1>2, <1>5, TypeOf DEF Shaped, RecordsShaped, Current
<1> QED
  BY <1>2, <1>3, <1>4, <1>5 DEF Paths

(* The image of a record is a page of the document. *)
LEMMA ImageOfOwn ==
    ASSUME TypeOK, NEW d \in Documents, Shaped(d), Collected(d)
    PROVE  \A k \in DOMAIN records[d] :
             /\ k \in DOMAIN pages[d] /\ records[d][k].image = pages[d][k]
             /\ records[d][k].image[1] = d /\ records[d][k].image[2] # 0
<1>1. /\ \A i \in DOMAIN pages[d] : pages[d][i][1] = d /\ pages[d][i][2] # 0
      /\ \A k \in DOMAIN records[d] : records[d][k].image = pages[d][k]
      /\ Len(records[d]) <= Len(pages[d])
  BY DEF Shaped, PagesShaped, RecordsShaped
<1>2. \A k \in DOMAIN records[d] : k \in DOMAIN pages[d]
  BY <1>1, TypeOf
<1> QED
  BY <1>1, <1>2

(* The queue after try_send of one more image *)
LEMMA QueueGrows ==
    ASSUME queue \in Seq(Paths), NEW f \in Paths, queue' = Append(queue, f), running' = running
    PROVE  /\ queue' \in Seq(Paths) /\ Len(queue') = Len(queue) + 1
           /\ Pending' = Pending \cup {f}
<1>1. /\ Len(queue) \in Nat /\ DOMAIN queue = 1..Len(queue)
      /\ Len(queue') = Len(queue) + 1 /\ DOMAIN queue' = 1..(Len(queue) + 1)
      /\ \A i \in 1..Len(queue) : queue'[i] = queue[i]
      /\ queue'[Len(queue) + 1] = f
  OBVIOUS
<1>2. \A x : x \in Pending' <=> x \in Pending \cup {f}
  BY <1>1 DEF Pending
<1> QED
  BY <1>1, <1>2

(* The queue after a worker took its oldest job *)
LEMMA QueueShrinks ==
    ASSUME queue \in Seq(Paths), queue # <<>>, queue' = Tail(queue),
           \A i, k \in DOMAIN queue : i # k => queue[i] # queue[k]
    PROVE  /\ queue' \in Seq(Paths) /\ Len(queue') < Len(queue)
           /\ 1 \in DOMAIN queue /\ Head(queue) = queue[1] /\ Head(queue) \in Paths
           /\ \A i \in DOMAIN queue' : /\ i + 1 \in DOMAIN queue /\ queue'[i] = queue[i + 1]
                                       /\ queue'[i] # Head(queue)
           /\ \A i \in DOMAIN queue : queue[i] # Head(queue) =>
                 \E k \in DOMAIN queue' : queue'[k] = queue[i]
           /\ \A i, k \in DOMAIN queue' : i # k => queue'[i] # queue'[k]
<1>1. /\ Len(queue) \in Nat \ {0} /\ DOMAIN queue = 1..Len(queue)
      /\ Head(queue) = queue[1] /\ Head(queue) \in Paths
      /\ queue' \in Seq(Paths)
      /\ Len(queue') = Len(queue) - 1 /\ DOMAIN queue' = 1..(Len(queue) - 1)
      /\ \A i \in 1..(Len(queue) - 1) : queue'[i] = queue[i + 1]
  OBVIOUS
<1>2. 1 \in DOMAIN queue
  BY <1>1
<1>3. ASSUME NEW i \in DOMAIN queue'
      PROVE  i + 1 \in DOMAIN queue /\ queue'[i] = queue[i + 1] /\ queue'[i] # Head(queue)
  <2>1. i + 1 \in 1..Len(queue) /\ 1 \in 1..Len(queue) /\ i + 1 # 1
    BY <1>1
  <2> QED
    BY <1>1, <2>1
<1>4. ASSUME NEW i \in DOMAIN queue, queue[i] # Head(queue)
      PROVE  \E k \in DOMAIN queue' : queue'[k] = queue[i]
  <2>1. i - 1 \in 1..(Len(queue) - 1) /\ queue[i] = queue'[i - 1]
    BY <1>1, <1>4
  <2> QED
    BY <1>1, <2>1
<1>5. \A i, k \in DOMAIN queue' : i # k => queue'[i] # queue'[k]
  <2> TAKE i, k \in DOMAIN queue'
  <2>1. i + 1 \in DOMAIN queue /\ k + 1 \in DOMAIN queue /\ (i # k => i + 1 # k + 1)
    BY <1>1
  <2> QED
    BY <1>1, <2>1
<1> QED
  BY <1>1, <1>2, <1>3, <1>4, <1>5

-----------------------------------------------------------------------------
(* Nothing has been written and every caller's file is there. *)
LEMMA InitInv == Init => PdfInv
<1> SUFFICES ASSUME Init PROVE PdfInv
  OBVIOUS
<1>1. TypeOK
  <2>1. /\ step \in [Documents -> Steps \cup Answers]
        /\ source \in [Documents -> PageCounts]
        /\ files \subseteq Paths /\ undeleted \subseteq Paths
    BY DEF Init, Steps, Paths
  <2>2. /\ counted \in [Documents -> 0..MaxPdfPages]
        /\ cursor \in [Documents -> Nat \ {0}]
        /\ answer \in [Documents -> {"accepted", "not_rendered", "bad_page", "no_capacity"}]
    BY DocumentsAssumption DEF Init
  <2>3. renderer \in [Documents -> RendererType]
    BY DEF Init, Idle, RendererType
  <2>4. /\ pages \in [Documents -> Seq(Paths)]
        /\ records \in [Documents -> Seq([image : Paths, page : Nat, of : Nat])]
    BY DEF Init
  <2>5. queue \in Seq(Paths) /\ Len(queue) <= QueueSize
    BY DocumentsAssumption DEF Init
  <2>6. running \subseteq Paths /\ evicted \subseteq Paths /\ closed \in BOOLEAN
    BY DEF Init
  <2> QED
    BY <2>1, <2>2, <2>3, <2>4, <2>5, <2>6 DEF TypeOK
<1>2. ASSUME NEW d \in Documents PROVE Shaped(d)
  BY DEF Init, Shaped, RendererShaped, AnswerShaped, PagesShaped, RecordsShaped, Collected,
         Idle, Early
<1>3. FilesRendered /\ QueueFiled
  BY DEF Init, FilesRendered, QueueFiled, Pending
<1>4. ASSUME NEW d \in Documents PROVE Filed(d)
  BY DocumentsAssumption
  DEF Init, Filed, RecordsFiled, ImagesFiled, PdfFiled, Pdf, Answers
<1> QED
  BY <1>1, <1>2, <1>3, <1>4 DEF PdfInv

(* What a step of d leaves alone of another document *)
Same(e) ==
    /\ step'[e] = step[e] /\ counted'[e] = counted[e] /\ renderer'[e] = renderer[e]
    /\ pages'[e] = pages[e] /\ records'[e] = records[e]
    /\ cursor'[e] = cursor[e] /\ answer'[e] = answer[e]

LEMMA OthersUntouched ==
    ASSUME TypeOK, NEW d \in Documents, Acts(d), NEW e \in Documents, e # d
    PROVE  Same(e)
<1> USE DEF TypeOK, Same, Go, handlerVars
<1>1. CASE WriteUpload(d)
  BY <1>1 DEF WriteUpload
<1>2. CASE InspectPageCount(d)
  BY <1>2 DEF InspectPageCount, Fail
<1>3. CASE StartRenderer(d)
  BY <1>3 DEF StartRenderer
<1>4. CASE RenderEnds(d)
  BY <1>4 DEF RenderEnds, Fail
<1>5. CASE CollectRenderedPages(d)
  BY <1>5 DEF CollectRenderedPages, Fail
<1>6. CASE CleanupUploadedPdf(d)
  BY <1>6 DEF CleanupUploadedPdf
<1>7. CASE ReadPage(d)
  BY <1>7 DEF ReadPage, AbandonPages, Advance, Rewind
<1>8. CASE EnsureQueueHasCapacity(d)
  BY <1>8 DEF EnsureQueueHasCapacity, AbandonPages, Rewind
<1>9. CASE CleanupPage(d)
  BY <1>9 DEF CleanupPage, Advance
<1>10. CASE EnqueuePage(d)
  BY <1>10 DEF EnqueuePage, Advance
<1>11. CASE RenderPage(d) \/ RendererExits(d)
  BY <1>11 DEF RenderPage, RendererExits
<1>12. CASE DropHandler(d) \/ ReplaceSource(d)
  BY <1>12 DEF DropHandler, ReplaceSource
<1> QED
  BY <1>1, <1>2, <1>3, <1>4, <1>5, <1>6, <1>7, <1>8, <1>9, <1>10, <1>11, <1>12
  DEF Acts, Handler, Renderer

(* A document nothing happened to keeps its shape. *)
LEMMA SameShape ==
    ASSUME NEW e \in Documents, Shaped(e), Same(e)
    PROVE  Shaped(e)'
<1>1. RendererShaped(e)'
  BY DEF Shaped, Same, RendererShaped, Collected
<1>2. AnswerShaped(e)'
  BY DEF Shaped, Same, AnswerShaped
<1>3. PagesShaped(e)'
  BY DEF Shaped, Same, PagesShaped, Collected
<1>4. RecordsShaped(e)'
  BY DEF Shaped, Same, RecordsShaped, Collected
<1> QED
  BY <1>1, <1>2, <1>3, <1>4 DEF Shaped

(* A step of d adds and removes files of d only, queues images of d only    *)
(* and takes nothing from the workers or out of the queue.                  *)
OwnFilesOnly(d) ==
    /\ \A f : f[1] # d => ((f \in files') <=> (f \in files))
    /\ \A f : f[1] # d => ((f \in Pending') <=> (f \in Pending))
    /\ Pending \subseteq Pending'
    /\ undeleted \subseteq undeleted'
    /\ evicted' = evicted

LEMMA WorkersUntouched ==
    ASSUME NEW d \in Documents, Acts(d)
    PROVE  UNCHANGED workerVars
BY DEF Acts, Handler, Renderer, WriteUpload, InspectPageCount, StartRenderer, RenderEnds,
       CollectRenderedPages, CleanupUploadedPdf, ReadPage, EnsureQueueHasCapacity, CleanupPage,
       EnqueuePage, RenderPage, RendererExits, DropHandler, ReplaceSource

LEMMA StepTouchesOwnFiles ==
    ASSUME TypeOK, NEW d \in Documents, Shaped(d), Acts(d)
    PROVE  OwnFilesOnly(d)
<1>0. running' = running /\ evicted' = evicted
  BY WorkersUntouched DEF workerVars
<1> USE <1>0 DEF OwnFilesOnly, fileVars
<1>1. CASE WriteUpload(d)
  BY <1>1 DEF WriteUpload, Pdf, Pending
<1>2. CASE InspectPageCount(d) \/ StartRenderer(d) \/ RenderEnds(d) \/ CollectRenderedPages(d)
  BY <1>2 DEF InspectPageCount, StartRenderer, RenderEnds, CollectRenderedPages, Pending
<1>3. CASE CleanupUploadedPdf(d)
  BY <1>3 DEF CleanupUploadedPdf, Remove, Pdf, Pending
<1>4. CASE ReadPage(d) \/ EnsureQueueHasCapacity(d) \/ DropHandler(d) \/ ReplaceSource(d)
  BY <1>4 DEF ReadPage, EnsureQueueHasCapacity, DropHandler, ReplaceSource, Pending
<1>5. CASE CleanupPage(d)
  <2>1. step[d] = "cleanup" /\ Remove(Current(d)) /\ queue' = queue
    BY <1>5 DEF CleanupPage
  <2>2. Current(d)[1] = d
    BY <2>1, AtCursor
  <2> QED
    BY <2>1, <2>2 DEF Remove, Pending
<1>6. CASE EnqueuePage(d)
  <2>1. step[d] = "enqueue" /\ files' = files /\ undeleted' = undeleted
    BY <1>6 DEF EnqueuePage
  <2>2. CASE queue' = queue
    BY <2>1, <2>2 DEF Pending
  <2>3. CASE queue' = Append(queue, records[d][cursor[d]].image)
    <3>1. queue' = Append(queue, Current(d)) /\ Current(d) \in Paths /\ Current(d)[1] = d
      BY <2>1, <2>3, AtCursor
    <3>2. Pending' = Pending \cup {Current(d)}
      BY <3>1, QueueGrows DEF TypeOK
    <3> QED
      BY <2>1, <3>1, <3>2
  <2> QED
    BY <1>6, <2>2, <2>3 DEF EnqueuePage
<1>7. CASE RenderPage(d) \/ RendererExits(d)
  BY <1>7 DEF RenderPage, RendererExits, Pending
<1> QED
  BY <1>1, <1>2, <1>3, <1>4, <1>5, <1>6, <1>7 DEF Acts, Handler, Renderer

(* A document nothing happened to keeps its files. *)
LEMMA SameFiles ==
    ASSUME TypeOK, NEW d \in Documents, NEW e \in Documents, e # d,
           Shaped(e), Filed(e), Same(e), OwnFilesOnly(d)
    PROVE  Filed(e)'
<1>1. \A f : f[1] = e => ((f \in files') <=> (f \in files))
  BY DEF OwnFilesOnly
<1>2. \A f : f[1] = e => ((f \in Pending') <=> (f \in Pending))
  BY DEF OwnFilesOnly
<1>3. ImagesOf(e)' = ImagesOf(e)
  BY <1>1 DEF ImagesOf
<1>4. undeleted \subseteq undeleted' /\ evicted' = evicted
  BY DEF OwnFilesOnly
<1>5. \A k \in DOMAIN records[e] : step[e] \in {"read", "capacity", "enqueue"} =>
        records[e][k].image[1] = e
  BY ImageOfOwn DEF Collected
<1>6. RecordsFiled(e)'
  BY <1>1, <1>2, <1>5 DEF Filed, RecordsFiled, Same
<1>7. ImagesFiled(e)'
  <2>1. \A f \in ImagesOf(e) : f[1] = e
    BY DEF ImagesOf
  <2> QED
    BY <1>2, <1>3, <1>4, <2>1 DEF Filed, ImagesFiled, Same
<1>8. PdfFiled(e)'
  BY <1>1, <1>4 DEF Filed, PdfFiled, Same, Pdf
<1> QED
  BY <1>6, <1>7, <1>8 DEF Filed

-----------------------------------------------------------------------------
(* Removing a file or failing to, and what it leaves alone *)
LEMMA RemoveType ==
    ASSUME TypeOK, NEW f \in Paths, Remove(f)
    PROVE  files' \subseteq Paths /\ undeleted' \subseteq Paths
BY DEF TypeOK, Remove

(* A listing is a sequence, and so is a sequence with one more element. *)
LEMMA ListingType ==
    ASSUME NEW n \in Nat, NEW S, NEW l \in [1..n -> S]
    PROVE  l \in Seq(S)
OBVIOUS

LEMMA AppendType ==
    ASSUME NEW S, NEW s \in Seq(S), NEW x \in S
    PROVE  Append(s, x) \in Seq(S)
OBVIOUS

(* The cursor after a step that moves it *)
LEMMA CursorMoves ==
    ASSUME TypeOK, NEW d \in Documents
    PROVE  /\ Advance(d) => cursor' \in [Documents -> Nat \ {0}] /\ cursor'[d] = cursor[d] + 1
           /\ Rewind(d) => cursor' \in [Documents -> Nat \ {0}] /\ cursor'[d] = 1
<1>1. cursor \in [Documents -> Nat \ {0}]
  BY DEF TypeOK
<1>2. cursor[d] \in Nat \ {0}
  BY <1>1
<1>3. cursor[d] + 1 \in Nat \ {0} /\ 1 \in Nat \ {0}
  BY <1>2
<1>4. ASSUME Advance(d)
      PROVE  cursor' \in [Documents -> Nat \ {0}] /\ cursor'[d] = cursor[d] + 1
  BY <1>1, <1>3, <1>4 DEF Advance
<1>5. ASSUME Rewind(d)
      PROVE  cursor' \in [Documents -> Nat \ {0}] /\ cursor'[d] = 1
  BY <1>1, <1>3, <1>5 DEF Rewind
<1> QED
  BY <1>4, <1>5

(* What changes of a process when it goes on or ends *)
LEMMA SetState ==
    ASSUME NEW r \in RendererType, NEW s \in {"none", "running", "success", "failure"}
    PROVE  /\ [r EXCEPT !.state = s] \in RendererType
           /\ [r EXCEPT !.state = s].state = s
           /\ [r EXCEPT !.state = s].last = r.last
           /\ [r EXCEPT !.state = s].next = r.next
BY DEF RendererType

LEMMA SetNext ==
    ASSUME NEW r \in RendererType, NEW n \in Nat
    PROVE  /\ [r EXCEPT !.next = n] \in RendererType
           /\ [r EXCEPT !.next = n].state = r.state
           /\ [r EXCEPT !.next = n].last = r.last
           /\ [r EXCEPT !.next = n].next = n
BY DEF RendererType

(* RenderPage and RendererExits, as equations about the process *)
LEMMA PageRendered ==
    ASSUME TypeOK, NEW d \in Documents, RenderPage(d)
    PROVE  /\ renderer' \in [Documents -> RendererType]
           /\ renderer'[d].state = "running" /\ renderer'[d].last = renderer[d].last
           /\ renderer'[d].next = renderer[d].next + 1
<1>1. renderer \in [Documents -> RendererType]
  BY DEF TypeOK
<1>2. renderer[d] \in RendererType /\ renderer[d].next + 1 \in Nat
  BY TypeOf
<1>3. renderer' = [renderer EXCEPT ![d].next = renderer[d].next + 1]
  BY DEF RenderPage
<1>4. [renderer[d] EXCEPT !.next = renderer[d].next + 1] \in RendererType
  BY <1>2, SetNext
<1>5. renderer' \in [Documents -> RendererType]
  BY <1>1, <1>3, <1>4
<1>6. renderer'[d] = [renderer[d] EXCEPT !.next = renderer[d].next + 1]
  BY <1>1, <1>3
<1>7. renderer[d].state = "running"
  BY DEF RenderPage
<1> QED
  BY <1>2, <1>5, <1>6, <1>7, SetNext

LEMMA RendererEnded ==
    ASSUME TypeOK, NEW d \in Documents, RendererExits(d)
    PROVE  /\ renderer' \in [Documents -> RendererType]
           /\ renderer[d].state = "running"
           /\ renderer'[d].state \in {"success", "failure"}
           /\ renderer'[d].last = renderer[d].last /\ renderer'[d].next = renderer[d].next
<1>1. renderer \in [Documents -> RendererType]
  BY DEF TypeOK
<1>2. renderer[d] \in RendererType
  BY TypeOf
<1>3. PICK s \in {"success", "failure"} : renderer' = [renderer EXCEPT ![d].state = s]
  BY DEF RendererExits
<1>4. [renderer[d] EXCEPT !.state = s] \in RendererType
  BY <1>2, SetState
<1>5. renderer' \in [Documents -> RendererType]
  BY <1>1, <1>3, <1>4
<1>6. renderer'[d] = [renderer[d] EXCEPT !.state = s]
  BY <1>1, <1>3
<1>7. renderer[d].state = "running"
  BY DEF RendererExits
<1> QED
  BY <1>2, <1>5, <1>6, <1>7, SetState

(* Every step of a handler, its renderer and the owner of its file keeps    *)
(* the types; what is indexed by the cursor is there.                       *)
LEMMA StepKeepsTypes ==
    ASSUME TypeOK, NEW d \in Documents, Shaped(d), Acts(d)
    PROVE  TypeOK'
<1> DEFINE RecordType == [image : Paths, page : Nat, of : Nat]
           AnswerType == {"accepted", "not_rendered", "bad_page", "no_capacity"}
<1> HIDE DEF RecordType, AnswerType
<1>0. /\ step \in [Documents -> Steps \cup Answers]
      /\ counted \in [Documents -> 0..MaxPdfPages]
      /\ pages \in [Documents -> Seq(Paths)]
      /\ records \in [Documents -> Seq(RecordType)]
      /\ cursor \in [Documents -> Nat \ {0}]
      /\ answer \in [Documents -> AnswerType]
  BY DEF TypeOK, RecordType, AnswerType
<1>00. UNCHANGED <<running, closed, evicted>>
  BY WorkersUntouched DEF workerVars
<1> USE <1>00
<1>1. CASE WriteUpload(d)
  <2>1. Pdf(d) \in Paths
    BY DEF Pdf, Paths
  <2>2. files' \subseteq Paths
    BY <1>1, <2>1 DEF WriteUpload, TypeOK
  <2>3. step' \in [Documents -> Steps \cup Answers]
    BY <1>0, <1>1 DEF WriteUpload, Go, Steps, Answers
  <2> QED
    BY <1>1, <2>2, <2>3 DEF WriteUpload, TypeOK
<1>2. CASE InspectPageCount(d)
  <2>1. step' \in [Documents -> Steps \cup Answers]
    BY <1>0, <1>2 DEF InspectPageCount, Fail, AfterFailure, Go, Steps, Answers
  <2>2. answer' \in [Documents -> AnswerType]
    BY <1>0, <1>2 DEF InspectPageCount, Fail, AnswerType
  <2>3. counted' \in [Documents -> 0..MaxPdfPages]
    <3>1. ASSUME source[d] \in 1..MaxPdfPages PROVE source[d] \in 0..MaxPdfPages
      BY <3>1, DocumentsAssumption
    <3> QED
      BY <1>0, <1>2, <3>1 DEF InspectPageCount
  <2> QED
    BY <1>2, <2>1, <2>2, <2>3 DEF InspectPageCount, fileVars, TypeOK, AnswerType
<1>3. CASE StartRenderer(d)
  <2>1. counted[d] \in Nat /\ source[d] \in Nat
    BY TypeOf
  <2>2. renderer' \in [Documents -> RendererType]
    BY <1>3, <2>1 DEF StartRenderer, RendererType, TypeOK
  <2>3. step' \in [Documents -> Steps \cup Answers]
    BY <1>0, <1>3 DEF StartRenderer, Go, Steps
  <2> QED
    BY <1>3, <2>2, <2>3 DEF StartRenderer, fileVars, TypeOK
<1>4. CASE RenderEnds(d)
  <2>1. step' \in [Documents -> Steps \cup Answers]
    BY <1>0, <1>4 DEF RenderEnds, Fail, AfterFailure, Go, Steps, Answers
  <2>2. answer' \in [Documents -> AnswerType]
    BY <1>0, <1>4 DEF RenderEnds, Fail, AnswerType
  <2> QED
    BY <1>4, <2>1, <2>2 DEF RenderEnds, fileVars, TypeOK, AnswerType
<1>5. CASE CollectRenderedPages(d)
  <2>1. ASSUME NEW l \in Listings(Rendered(d)), Cardinality(Rendered(d)) = counted[d]
        PROVE  l \in Seq(Paths)
    <3>1. Rendered(d) \subseteq Paths
      BY DEF Rendered, ImagesOf, TypeOK
    <3>2. l \in [1..counted[d] -> Paths]
      BY <2>1, <3>1 DEF Listings
    <3>3. counted[d] \in Nat
      BY TypeOf
    <3> QED
      BY <3>2, <3>3, ListingType
  <2>2. pages' \in [Documents -> Seq(Paths)]
    BY <1>0, <1>5, <2>1 DEF CollectRenderedPages
  <2>3. step' \in [Documents -> Steps \cup Answers]
    BY <1>0, <1>5 DEF CollectRenderedPages, Fail, AfterFailure, AfterSuccess, Go, Steps, Answers
  <2>4. answer' \in [Documents -> AnswerType]
    BY <1>0, <1>5 DEF CollectRenderedPages, Fail, AnswerType
  <2> QED
    BY <1>5, <2>2, <2>3, <2>4 DEF CollectRenderedPages, fileVars, TypeOK, AnswerType
<1>6. CASE CleanupUploadedPdf(d)
  <2>1. files' \subseteq Paths /\ undeleted' \subseteq Paths
    BY <1>6, RemoveType DEF CleanupUploadedPdf, Pdf, Paths
  <2>2. step' \in [Documents -> Steps \cup Answers]
    BY <1>0, <1>6 DEF CleanupUploadedPdf, Go, Steps, Answers
  <2> QED
    BY <1>6, <2>1, <2>2 DEF CleanupUploadedPdf, TypeOK
<1>7. CASE ReadPage(d)
  <2>1. step[d] = "read"
    BY <1>7 DEF ReadPage
  <2>2. Record(d) \in RecordType
    BY <2>1, AtCursor, TypeOf DEF Record, RecordType
  <2>3. records' \in [Documents -> Seq(RecordType)]
    <3>1. Append(records[d], Record(d)) \in Seq(RecordType)
      BY <1>0, <2>2, AppendType
    <3>2. \/ records' = [records EXCEPT ![d] = Append(records[d], Record(d))]
          \/ records' = records
      BY <1>7 DEF ReadPage
    <3> QED
      BY <1>0, <3>1, <3>2
  <2>4. cursor' \in [Documents -> Nat \ {0}]
    BY <1>0, <1>7, CursorMoves DEF ReadPage, AbandonPages
  <2>5. step' \in [Documents -> Steps \cup Answers]
    BY <1>0, <1>7 DEF ReadPage, AbandonPages, Go, Steps
  <2>6. answer' \in [Documents -> AnswerType]
    BY <1>0, <1>7 DEF ReadPage, AbandonPages, AnswerType
  <2> QED
    BY <1>7, <2>3, <2>4, <2>5, <2>6 DEF ReadPage, fileVars, TypeOK, AnswerType, RecordType
<1>8. CASE EnsureQueueHasCapacity(d)
  <2>1. cursor' \in [Documents -> Nat \ {0}]
    BY <1>0, <1>8, CursorMoves DEF EnsureQueueHasCapacity, AbandonPages
  <2>2. step' \in [Documents -> Steps \cup Answers]
    BY <1>0, <1>8 DEF EnsureQueueHasCapacity, AbandonPages, Go, Steps
  <2>3. answer' \in [Documents -> AnswerType]
    BY <1>0, <1>8 DEF EnsureQueueHasCapacity, AbandonPages, AnswerType
  <2> QED
    BY <1>8, <2>1, <2>2, <2>3 DEF EnsureQueueHasCapacity, fileVars, TypeOK, AnswerType
<1>9. CASE CleanupPage(d)
  <2>1. files' \subseteq Paths /\ undeleted' \subseteq Paths
    BY <1>9, AtCursor, RemoveType DEF CleanupPage
  <2>2. cursor' \in [Documents -> Nat \ {0}]
    BY <1>0, <1>9, CursorMoves DEF CleanupPage
  <2>3. step' \in [Documents -> Steps \cup Answers]
    <3>1. answer[d] \in Answers
      BY <1>9 DEF CleanupPage, Shaped, AnswerShaped, Answers
    <3> QED
      BY <1>0, <1>9, <3>1 DEF CleanupPage, Go
  <2> QED
    BY <1>9, <2>1, <2>2, <2>3 DEF CleanupPage, TypeOK
<1>10. CASE EnqueuePage(d)
  <2>1. step[d] = "enqueue"
    BY <1>10 DEF EnqueuePage
  <2>2. queue' \in Seq(Paths) /\ Len(queue') <= QueueSize
    <3>1. CASE queue' = Append(queue, Current(d)) /\ Len(queue) < QueueSize
      <4>1. queue \in Seq(Paths) /\ Current(d) \in Paths
        BY <2>1, AtCursor DEF TypeOK
      <4>2. queue' \in Seq(Paths) /\ Len(queue') = Len(queue) + 1
        BY <3>1, <4>1
      <4>3. Len(queue) \in Nat /\ QueueSize \in Nat
        BY <4>1, DocumentsAssumption
      <4> QED
        BY <3>1, <4>2, <4>3
    <3>2. CASE queue' = queue
      BY <3>2 DEF TypeOK
    <3> QED
      BY <1>10, <2>1, <3>1, <3>2, AtCursor DEF EnqueuePage
  <2>3. cursor' \in [Documents -> Nat \ {0}]
    BY <1>0, <1>10, CursorMoves DEF EnqueuePage
  <2>4. step' \in [Documents -> Steps \cup Answers]
    BY <1>0, <1>10 DEF EnqueuePage, Go, Steps, Answers
  <2> QED
    BY <1>10, <2>2, <2>3, <2>4 DEF EnqueuePage, fileVars, TypeOK
<1>11. CASE RenderPage(d)
  <2>1. <<d, renderer[d].next>> \in Paths
    BY TypeOf DEF Paths
  <2>2. files' \subseteq Paths
    BY <1>11, <2>1 DEF RenderPage, TypeOK
  <2> QED
    BY <1>11, <2>2, PageRendered DEF RenderPage, handlerVars, TypeOK
<1>12. CASE RendererExits(d)
  BY <1>12, RendererEnded DEF RendererExits, handlerVars, fileVars, TypeOK
<1>13. CASE DropHandler(d)
  <2>1. step' \in [Documents -> Steps \cup Answers]
    BY <1>0, <1>13 DEF DropHandler, Answers
  <2> QED
    BY <1>13, <2>1 DEF DropHandler, fileVars, TypeOK
<1>14. CASE ReplaceSource(d)
  BY <1>14 DEF ReplaceSource, handlerVars, fileVars, TypeOK
<1> QED
  BY <1>1, <1>2, <1>3, <1>4, <1>5, <1>6, <1>7, <1>8, <1>9, <1>10, <1>11, <1>12, <1>13, <1>14
  DEF Acts, Handler, Renderer

-----------------------------------------------------------------------------
(* A listing sorted by page has every image once. *)
LEMMA ListingShaped ==
    ASSUME TypeOK, NEW d \in Documents, NEW l \in Listings(Rendered(d)), SortedByPage(l),
           Cardinality(Rendered(d)) = counted[d], counted[d] > 0
    PROVE  /\ Len(l) \in Nat /\ Len(l) > 0 /\ DOMAIN l = 1..Len(l)
           /\ \A i \in DOMAIN l : l[i] \in Rendered(d) /\ l[i][1] = d /\ l[i][2] # 0
           /\ \A i, k \in DOMAIN l : i # k => l[i] # l[k]
           /\ \A f \in Rendered(d) : \E i \in DOMAIN l : l[i] = f
<1>1. counted[d] \in Nat
  BY TypeOf
<1>2. l \in [1..counted[d] -> Rendered(d)]
  BY DEF Listings
<1>3. l \in Seq(Rendered(d)) /\ Len(l) = counted[d] /\ DOMAIN l = 1..counted[d]
  <2>1. l \in Seq(Rendered(d))
    BY <1>1, <1>2, ListingType
  <2>2. DOMAIN l = 1..counted[d]
    BY <1>2
  <2>3. Len(l) \in Nat /\ DOMAIN l = 1..Len(l)
    BY <2>1
  <2> QED
    BY <1>1, <2>1, <2>2, <2>3
<1>4. \A i \in DOMAIN l : l[i] \in Rendered(d) /\ l[i][1] = d /\ l[i][2] # 0
  BY <1>2 DEF Rendered, ImagesOf
<1>5. \A i \in DOMAIN l : l[i][2] \in Nat
  <2>1. Rendered(d) \subseteq Paths
    BY DEF Rendered, ImagesOf, TypeOK
  <2>2. \A i \in DOMAIN l : l[i] \in Paths
    BY <1>2, <2>1
  <2> QED
    BY <2>2 DEF Paths
<1>6. ASSUME NEW i \in DOMAIN l, NEW k \in DOMAIN l, i # k PROVE l[i] # l[k]
  <2>1. i < k \/ k < i
    BY <1>1, <1>3, <1>6
  <2>2. l[i][2] < l[k][2] \/ l[k][2] < l[i][2]
    BY <2>1 DEF SortedByPage
  <2>3. l[i][2] # l[k][2]
    BY <1>5, <2>2
  <2> QED
    BY <2>3
<1>7. \A f \in Rendered(d) : \E i \in DOMAIN l : l[i] = f
  BY DEF Listings
<1> QED
  BY <1>3, <1>4, <1>6, <1>7

(* Each step of a document leaves it in shape. *)
LEMMA StepKeepsShape ==
    ASSUME TypeOK, NEW d \in Documents, Shaped(d), Acts(d)
    PROVE  Shaped(d)'
<1> USE TypeOf
<1>1. CASE WriteUpload(d)
  <2>1. /\ step[d] = "write" /\ step'[d] \in {"inspect", "not_saved"}
        /\ UNCHANGED <<counted, renderer, pages, records, cursor, answer>>
    BY <1>1 DEF WriteUpload, Go, TypeOK
  <2> QED
    BY <2>1 DEF Shaped, RendererShaped, AnswerShaped, PagesShaped, RecordsShaped, Collected, Early
<1>2. CASE InspectPageCount(d)
  <2>1. /\ step[d] = "inspect"
        /\ UNCHANGED <<renderer, pages, records, cursor>>
        /\ \/ /\ step'[d] = "render" /\ answer' = answer
              /\ counted'[d] > 0
           \/ /\ step'[d] = (IF d \in Uploads THEN "discard" ELSE "not_rendered")
              /\ answer'[d] = "not_rendered" /\ counted' = counted
    <3>1. \A n \in 1..MaxPdfPages : n > 0
      BY DocumentsAssumption
    <3> QED
      BY <1>2, <3>1 DEF InspectPageCount, Fail, AfterFailure, Go, TypeOK
  <2> QED
    BY <2>1 DEF Shaped, RendererShaped, AnswerShaped, PagesShaped, RecordsShaped, Collected, Early
<1>3. CASE StartRenderer(d)
  <2>1. /\ step[d] = "render" /\ step'[d] = "rendering"
        /\ UNCHANGED <<counted, pages, records, cursor, answer>>
        /\ renderer'[d].state = "running" /\ renderer'[d].next = 1
        /\ renderer'[d].last \in Nat /\ renderer'[d].last <= counted[d]
    <3> DEFINE low == IF counted[d] < source[d] THEN counted[d] ELSE source[d]
    <3>1. low \in Nat /\ low <= counted[d]
      OBVIOUS
    <3> HIDE DEF low
    <3>2. renderer' = [renderer EXCEPT ![d] = [state |-> "running", next |-> 1, last |-> low]]
      BY <1>3 DEF StartRenderer, low
    <3>3. renderer'[d] = [state |-> "running", next |-> 1, last |-> low]
      BY <3>2 DEF TypeOK
    <3> QED
      BY <1>3, <3>1, <3>3 DEF StartRenderer, Go, TypeOK
  <2> QED
    BY <2>1 DEF Shaped, RendererShaped, AnswerShaped, PagesShaped, RecordsShaped, Collected, Early
<1>4. CASE RenderEnds(d)
  <2>1. /\ step[d] = "rendering"
        /\ UNCHANGED <<counted, renderer, pages, records, cursor>>
        /\ \/ renderer[d].state = "success" /\ step'[d] = "collect" /\ answer' = answer
           \/ /\ step'[d] = (IF d \in Uploads THEN "discard" ELSE "not_rendered")
              /\ answer'[d] = "not_rendered"
    BY <1>4 DEF RenderEnds, Fail, AfterFailure, Go, TypeOK
  <2> QED
    BY <2>1 DEF Shaped, RendererShaped, AnswerShaped, PagesShaped, RecordsShaped, Collected, Early
<1>5. CASE CollectRenderedPages(d)
  <2>1. step[d] = "collect" /\ UNCHANGED <<counted, renderer, records, cursor>>
    BY <1>5 DEF CollectRenderedPages, Fail, Go
  <2>2. /\ renderer[d].state = "success" /\ counted[d] > 0
        /\ answer[d] = "accepted" /\ cursor[d] = 1 /\ records[d] = <<>>
    BY <2>1 DEF Shaped, RendererShaped, AnswerShaped, Early
  <2>3. CASE Fail(d, "collect") /\ pages' = pages
    <3>1. /\ step'[d] = (IF d \in Uploads THEN "discard" ELSE "not_rendered")
          /\ answer'[d] = "not_rendered"
      BY <2>3 DEF Fail, AfterFailure, Go, TypeOK
    <3> QED
      BY <2>1, <2>3, <3>1
      DEF Shaped, RendererShaped, AnswerShaped, PagesShaped, RecordsShaped, Collected, Early
  <2>4. CASE ~(Fail(d, "collect") /\ pages' = pages)
    <3>1. /\ Cardinality(Rendered(d)) = counted[d] /\ answer' = answer
          /\ Go(d, "collect", AfterSuccess(d))
          /\ \E l \in Listings(Rendered(d)) :
                SortedByPage(l) /\ pages' = [pages EXCEPT ![d] = l]
      BY <1>5, <2>4 DEF CollectRenderedPages
    <3>2. PICK l \in Listings(Rendered(d)) :
            SortedByPage(l) /\ pages' = [pages EXCEPT ![d] = l]
      BY <3>1
    <3>3. pages'[d] = l
      BY <3>2 DEF TypeOK
    <3>4. step'[d] = (IF d \in Uploads THEN "discard" ELSE "read")
      BY <3>1 DEF Go, AfterSuccess, TypeOK
    <3>5. PagesShaped(d)'
      BY <2>2, <3>1, <3>2, <3>3, ListingShaped DEF PagesShaped
    <3>6. RendererShaped(d)'
      BY <2>1, <2>2, <3>4 DEF Shaped, RendererShaped
    <3>7. AnswerShaped(d)'
      BY <2>1, <2>2, <3>1, <3>4 DEF Shaped, AnswerShaped, Early
    <3>8. RecordsShaped(d)'
      <4>1. Len(pages'[d]) > 0 /\ Len(pages'[d]) \in Nat
        BY <2>2, <3>1, <3>2, <3>3, ListingShaped
      <4>2. records'[d] = <<>> /\ Len(records'[d]) = 0 /\ DOMAIN records'[d] = {} /\ cursor'[d] = 1
        BY <2>1, <2>2
      <4> QED
        BY <3>4, <4>1, <4>2 DEF RecordsShaped
    <3> QED
      BY <3>5, <3>6, <3>7, <3>8 DEF Shaped
  <2> QED
    BY <2>3, <2>4
<1>6. CASE CleanupUploadedPdf(d)
  <2>1. /\ step[d] = "discard"
        /\ step'[d] = (IF answer[d] = "accepted" THEN "read" ELSE "not_rendered")
        /\ UNCHANGED <<counted, renderer, pages, records, cursor, answer>>
    BY <1>6 DEF CleanupUploadedPdf, Go, TypeOK
  <2>2. CASE answer[d] = "accepted"
    <3>1. Collected(d)
      BY <2>1, <2>2 DEF Collected
    <3>2. RendererShaped(d)' /\ AnswerShaped(d)' /\ PagesShaped(d)'
      BY <2>1, <2>2, <3>1 DEF Shaped, RendererShaped, AnswerShaped, PagesShaped, Early
    <3>3. Len(records[d]) = 0
      BY <2>1, <3>1 DEF Shaped, RecordsShaped
    <3>4. RecordsShaped(d)'
      BY <2>1, <2>2, <3>1, <3>3 DEF Shaped, PagesShaped, RecordsShaped
    <3> QED
      BY <3>2, <3>4 DEF Shaped
  <2>3. CASE answer[d] # "accepted"
    BY <2>1, <2>3
    DEF Shaped, RendererShaped, AnswerShaped, PagesShaped, RecordsShaped, Collected, Early
  <2> QED
    BY <2>2, <2>3
<1>7. CASE ReadPage(d)
  <2>1. step[d] = "read" /\ Collected(d) /\ UNCHANGED <<counted, renderer, pages>>
    BY <1>7 DEF ReadPage, Collected
  <2>2. /\ renderer[d].state = "success"
        /\ Len(records[d]) = cursor[d] - 1 /\ cursor[d] \in 1..Len(pages[d])
        /\ \A k \in DOMAIN records[d] : records[d][k].image = pages[d][k]
    BY <2>1 DEF Shaped, RendererShaped, RecordsShaped
  <2>3. CASE AbandonPages(d, "read", "bad_page") /\ records' = records
    <3>1. step'[d] = "cleanup" /\ answer'[d] = "bad_page" /\ cursor'[d] = 1
      BY <2>3, CursorMoves DEF AbandonPages, Go, TypeOK
    <3>2. RendererShaped(d)' /\ AnswerShaped(d)' /\ PagesShaped(d)'
      BY <2>1, <2>2, <3>1 DEF Shaped, RendererShaped, AnswerShaped, PagesShaped, Early
    <3>3. RecordsShaped(d)'
      BY <2>1, <2>2, <2>3, <3>1 DEF Shaped, PagesShaped, RecordsShaped
    <3> QED
      BY <3>2, <3>3 DEF Shaped
  <2>4. CASE ~(AbandonPages(d, "read", "bad_page") /\ records' = records)
    <3> DEFINE r == Record(d)
               T == [image : Paths, page : Nat, of : Nat]
    <3>1. /\ records' = [records EXCEPT ![d] = Append(records[d], r)]
          /\ answer' = answer
          /\ \/ cursor[d] < Len(pages[d]) /\ Advance(d) /\ step' = step
             \/ cursor[d] >= Len(pages[d]) /\ Rewind(d) /\ Go(d, "read", "capacity")
      BY <1>7, <2>4 DEF ReadPage
    <3>2. r \in T /\ r.image = pages[d][cursor[d]]
      BY <2>1, AtCursor DEF Record, Current
    <3>3. records'[d] = Append(records[d], r)
      BY <3>1 DEF TypeOK
    <3> HIDE DEF r, T
    <3>4. /\ Len(records'[d]) = cursor[d] /\ DOMAIN records'[d] = 1..cursor[d]
          /\ \A k \in 1..(cursor[d] - 1) : records'[d][k] = records[d][k]
          /\ records'[d][cursor[d]] = r
      <4>1. records[d] \in Seq(T) /\ Len(records[d]) = cursor[d] - 1
        BY <2>2 DEF T
      <4> QED
        BY <2>2, <3>2, <3>3, <4>1
    <3>5. \A k \in DOMAIN records'[d] : records'[d][k].image = pages[d][k]
      <4> TAKE k \in DOMAIN records'[d]
      <4>1. CASE k = cursor[d]
        BY <3>2, <3>4, <4>1
      <4>2. CASE k # cursor[d]
        <5>1. k \in 1..(cursor[d] - 1) /\ k \in DOMAIN records[d]
          BY <2>2, <3>4, <4>2
        <5> QED
          BY <2>2, <3>4, <5>1
      <4> QED
        BY <4>1, <4>2
    <3>6. /\ step'[d] \in {"read", "capacity"}
          /\ step'[d] = "read" => cursor'[d] = cursor[d] + 1 /\ cursor[d] < Len(pages[d])
          /\ step'[d] = "capacity" => cursor'[d] = 1 /\ cursor[d] = Len(pages[d])
      <4>1. CASE cursor[d] < Len(pages[d]) /\ Advance(d) /\ step' = step
        BY <2>1, <4>1, CursorMoves
      <4>2. CASE cursor[d] >= Len(pages[d]) /\ Rewind(d) /\ Go(d, "read", "capacity")
        <5>1. step'[d] = "capacity"
          BY <4>2 DEF Go, TypeOK
        <5> QED
          BY <2>2, <4>2, <5>1, CursorMoves
      <4> QED
        BY <3>1, <4>1, <4>2
    <3>7. RendererShaped(d)' /\ AnswerShaped(d)' /\ PagesShaped(d)'
      BY <2>1, <2>2, <3>1, <3>6 DEF Shaped, RendererShaped, AnswerShaped, PagesShaped, Early
    <3>8. RecordsShaped(d)'
      BY <2>1, <2>2, <3>4, <3>5, <3>6 DEF RecordsShaped
    <3> QED
      BY <3>7, <3>8 DEF Shaped
  <2> QED
    BY <2>3, <2>4
<1>8. CASE EnsureQueueHasCapacity(d)
  <2>1. /\ step[d] = "capacity" /\ Collected(d)
        /\ UNCHANGED <<counted, renderer, pages, records>>
        /\ \/ step'[d] = "enqueue" /\ answer' = answer /\ cursor' = cursor
           \/ step'[d] = "cleanup" /\ answer'[d] = "no_capacity" /\ cursor'[d] = 1
    BY <1>8, CursorMoves DEF EnsureQueueHasCapacity, AbandonPages, Go, Collected, TypeOK
  <2>2. RendererShaped(d)' /\ AnswerShaped(d)' /\ PagesShaped(d)'
    BY <2>1 DEF Shaped, RendererShaped, AnswerShaped, PagesShaped, Early
  <2>3. RecordsShaped(d)'
    BY <2>1 DEF Shaped, PagesShaped, RecordsShaped
  <2> QED
    BY <2>2, <2>3 DEF Shaped
<1>9. CASE CleanupPage(d)
  <2>1. /\ step[d] = "cleanup" /\ Collected(d)
        /\ UNCHANGED <<counted, renderer, pages, records, answer>>
        /\ \/ /\ cursor[d] < Len(pages[d])
              /\ cursor'[d] = cursor[d] + 1 /\ step' = step
           \/ step'[d] = answer[d] /\ cursor' = cursor
    BY <1>9, CursorMoves DEF CleanupPage, Go, Collected, TypeOK
  <2>2. answer[d] \in {"bad_page", "no_capacity"}
    BY <2>1 DEF Shaped, AnswerShaped
  <2>3. RendererShaped(d)' /\ AnswerShaped(d)' /\ PagesShaped(d)'
    BY <2>1, <2>2 DEF Shaped, RendererShaped, AnswerShaped, PagesShaped, Early
  <2>4. RecordsShaped(d)'
    BY <2>1, <2>2 DEF Shaped, PagesShaped, RecordsShaped
  <2> QED
    BY <2>3, <2>4 DEF Shaped
<1>10. CASE EnqueuePage(d)
  <2>1. /\ step[d] = "enqueue" /\ Collected(d)
        /\ UNCHANGED <<counted, renderer, pages, records, answer>>
        /\ \/ /\ cursor[d] < Len(records[d])
              /\ cursor'[d] = cursor[d] + 1 /\ step' = step
           \/ step'[d] \in {"accepted", "unavailable", "not_persisted"}
    BY <1>10, CursorMoves DEF EnqueuePage, Go, Collected, TypeOK
  <2>2. RendererShaped(d)' /\ AnswerShaped(d)' /\ PagesShaped(d)'
    BY <2>1 DEF Shaped, RendererShaped, AnswerShaped, PagesShaped, Early
  <2>3. RecordsShaped(d)'
    BY <2>1 DEF Shaped, PagesShaped, RecordsShaped
  <2> QED
    BY <2>2, <2>3 DEF Shaped
<1>11. CASE RenderPage(d) \/ RendererExits(d)
  <2>1. /\ UNCHANGED <<step, counted, pages, records, cursor, answer>>
        /\ renderer[d].state = "running" /\ renderer'[d].state # "none"
        /\ renderer'[d].last = renderer[d].last
        /\ \/ renderer'[d].next = renderer[d].next
           \/ /\ renderer'[d].next = renderer[d].next + 1
              /\ renderer[d].next <= renderer[d].last
    BY <1>11, PageRendered, RendererEnded DEF RenderPage, RendererExits, handlerVars
  <2>2. ~Collected(d) /\ step[d] # "collect"
    BY <2>1 DEF Shaped, RendererShaped
  <2>3. RendererShaped(d)'
    BY <2>1, <2>2 DEF Shaped, RendererShaped, Collected
  <2> QED
    BY <2>1, <2>2, <2>3 DEF Shaped, AnswerShaped, PagesShaped, RecordsShaped, Collected
<1>12. CASE DropHandler(d)
  <2>1. step'[d] = "dropped" /\ UNCHANGED <<counted, renderer, pages, records, cursor, answer>>
    BY <1>12 DEF DropHandler, TypeOK
  <2> QED
    BY <2>1
    DEF Shaped, RendererShaped, AnswerShaped, PagesShaped, RecordsShaped, Collected, Early
<1>13. CASE ReplaceSource(d)
  BY <1>13, SameShape DEF ReplaceSource, handlerVars, Same
<1> QED
  BY <1>1, <1>2, <1>3, <1>4, <1>5, <1>6, <1>7, <1>8, <1>9, <1>10, <1>11, <1>12, <1>13
  DEF Acts, Handler, Renderer

-----------------------------------------------------------------------------
(* What a step other than the renderer's does to the images of its document *)
LEMMA NoNewImages ==
    ASSUME TypeOK, NEW d \in Documents, Shaped(d), Acts(d), ~RenderPage(d),
           NEW f \in files', f[2] # 0
    PROVE  f \in files
<1>1. CASE WriteUpload(d)
  BY <1>1 DEF WriteUpload, Pdf
<1>2. CASE InspectPageCount(d) \/ StartRenderer(d) \/ RenderEnds(d) \/ CollectRenderedPages(d)
  BY <1>2 DEF InspectPageCount, StartRenderer, RenderEnds, CollectRenderedPages, fileVars
<1>3. CASE CleanupUploadedPdf(d) \/ CleanupPage(d)
  BY <1>3 DEF CleanupUploadedPdf, CleanupPage, Remove
<1>4. CASE ReadPage(d) \/ EnsureQueueHasCapacity(d) \/ EnqueuePage(d)
  BY <1>4 DEF ReadPage, EnsureQueueHasCapacity, EnqueuePage, fileVars
<1>5. CASE RendererExits(d) \/ DropHandler(d) \/ ReplaceSource(d)
  BY <1>5 DEF RendererExits, DropHandler, ReplaceSource, fileVars
<1> QED
  BY <1>1, <1>2, <1>3, <1>4, <1>5 DEF Acts, Handler, Renderer

(* The process of a document goes on from where it is. *)
LEMMA RendererGoesOn ==
    ASSUME TypeOK, NEW d \in Documents, Shaped(d), Acts(d), renderer[d].state # "none"
    PROVE  renderer'[d].state # "none" /\ renderer'[d].next >= renderer[d].next
<1>1. CASE RenderPage(d) \/ RendererExits(d)
  BY <1>1, TypeOf, PageRendered, RendererEnded
<1>2. CASE ~(RenderPage(d) \/ RendererExits(d))
  <2>1. ~StartRenderer(d)
    BY DEF StartRenderer, Go, Shaped, RendererShaped
  <2>2. renderer' = renderer
    BY <1>2, <2>1
    DEF Acts, Handler, Renderer, WriteUpload, InspectPageCount, RenderEnds, CollectRenderedPages,
        CleanupUploadedPdf, ReadPage, EnsureQueueHasCapacity, CleanupPage, EnqueuePage,
        DropHandler, ReplaceSource
  <2> QED
    BY <2>2, TypeOf
<1> QED
  BY <1>1, <1>2

LEMMA StepKeepsRendered ==
    ASSUME TypeOK, NEW d \in Documents, Shaped(d), FilesRendered, Acts(d)
    PROVE  FilesRendered'
<1> SUFFICES ASSUME NEW f \in files', f[2] # 0
             PROVE  renderer'[f[1]].state # "none" /\ f[2] < renderer'[f[1]].next
  BY DEF FilesRendered
<1>1. CASE f \in files
  <2>1. f[1] \in Documents /\ f[2] \in Nat
    BY <1>1 DEF TypeOK, Paths
  <2>2. renderer[f[1]].state # "none" /\ f[2] < renderer[f[1]].next
    BY <1>1 DEF FilesRendered
  <2>3. CASE f[1] # d
    BY <2>1, <2>2, <2>3, OthersUntouched DEF Same
  <2>4. CASE f[1] = d
    <3>1. renderer'[d].state # "none" /\ renderer'[d].next >= renderer[d].next
      BY <2>2, <2>4, RendererGoesOn
    <3>2. renderer'[d].next \in Nat /\ renderer[d].next \in Nat
      <4>1. TypeOK'
        BY StepKeepsTypes
      <4> QED
        BY <4>1, TypeOf DEF TypeOK, RendererType
    <3> QED
      BY <2>1, <2>2, <2>4, <3>1, <3>2
  <2> QED
    BY <2>3, <2>4
<1>2. CASE f \notin files
  <2>1. RenderPage(d)
    BY <1>2, NoNewImages
  <2>2. f = <<d, renderer[d].next>>
    BY <1>2, <2>1 DEF RenderPage
  <2>3. renderer'[d].state # "none" /\ renderer'[d].next = renderer[d].next + 1
    BY <2>1, PageRendered
  <2> QED
    BY <2>2, <2>3, TypeOf
<1> QED
  BY <1>1, <1>2

(* A document with a job in the queue only goes on enqueueing or is dropped. *)
LEMMA QueueingStays ==
    ASSUME TypeOK, NEW d \in Documents, Acts(d), step[d] \in Queueing
    PROVE  /\ step'[d] \in Queueing
           /\ \/ UNCHANGED <<files, undeleted>>
              \/ RenderPage(d)
<1>1. CASE EnqueuePage(d)
  BY <1>1 DEF EnqueuePage, Go, TypeOK, Queueing, fileVars
<1>2. CASE RenderPage(d)
  BY <1>2 DEF RenderPage, handlerVars
<1>3. CASE RendererExits(d)
  BY <1>3 DEF RendererExits, handlerVars, fileVars
<1>4. CASE DropHandler(d)
  BY <1>4 DEF DropHandler, TypeOK, Queueing, fileVars
<1>5. CASE ReplaceSource(d)
  BY <1>5 DEF ReplaceSource, Queueing
<1>6. ~(\/ WriteUpload(d) \/ InspectPageCount(d) \/ StartRenderer(d) \/ RenderEnds(d)
        \/ CollectRenderedPages(d) \/ CleanupUploadedPdf(d) \/ ReadPage(d)
        \/ EnsureQueueHasCapacity(d) \/ CleanupPage(d))
  BY DEF Queueing, WriteUpload, InspectPageCount, StartRenderer, RenderEnds, Fail, AbandonPages,
         CollectRenderedPages, CleanupUploadedPdf, ReadPage, EnsureQueueHasCapacity, CleanupPage, Go
<1> QED
  BY <1>1, <1>2, <1>3, <1>4, <1>5, <1>6 DEF Acts, Handler, Renderer

(* What a step that queues nothing does to the queue *)
LEMMA QueueStays ==
    ASSUME NEW d \in Documents, Acts(d), ~EnqueuePage(d)
    PROVE  UNCHANGED <<queue, running>> /\ Pending' = Pending
<1>1. running' = running
  BY WorkersUntouched DEF workerVars
<1>2. queue' = queue
  BY DEF Acts, Handler, Renderer, WriteUpload, InspectPageCount, StartRenderer, RenderEnds,
         CollectRenderedPages, CleanupUploadedPdf, ReadPage, EnsureQueueHasCapacity, CleanupPage,
         RenderPage, RendererExits, DropHandler, ReplaceSource
<1> QED
  BY <1>1, <1>2 DEF Pending

(* What EnqueuePage does: the page at the cursor joins the queue, or the    *)
(* document is refused at this page.                                        *)
LEMMA PageEnqueued ==
    ASSUME TypeOK, NEW d \in Documents, Shaped(d), EnqueuePage(d)
    PROVE  /\ step[d] = "enqueue"
           /\ UNCHANGED <<files, undeleted, pages, records, answer, running, evicted>>
           /\ \/ /\ queue' = Append(queue, Current(d)) /\ Pending' = Pending \cup {Current(d)}
                 /\ cursor'[d] = cursor[d] + 1
                 /\ \/ step'[d] = "enqueue" /\ cursor[d] < Len(records[d])
                    \/ step'[d] = "accepted" /\ cursor[d] >= Len(records[d])
              \/ /\ step'[d] \in {"unavailable", "not_persisted"} /\ cursor' = cursor
                 /\ queue' = queue /\ Pending' = Pending
<1>1. step[d] = "enqueue" /\ UNCHANGED <<files, undeleted, pages, records, answer, running, evicted>>
  BY DEF EnqueuePage, fileVars, workerVars
<1>2. Current(d) \in Paths /\ records[d][cursor[d]].image = Current(d)
  BY <1>1, AtCursor
<1>3. CASE /\ Go(d, "enqueue", "unavailable") \/ Go(d, "enqueue", "not_persisted")
           /\ UNCHANGED <<queue, cursor>>
  BY <1>1, <1>3 DEF Go, TypeOK, Pending
<1>4. CASE /\ queue' = Append(queue, Current(d)) /\ Advance(d)
           /\ \/ cursor[d] < Len(records[d]) /\ step' = step
              \/ cursor[d] >= Len(records[d]) /\ Go(d, "enqueue", "accepted")
  <2>1. Pending' = Pending \cup {Current(d)}
    BY <1>1, <1>2, <1>4, QueueGrows DEF TypeOK
  <2>2. cursor'[d] = cursor[d] + 1
    BY <1>4, CursorMoves
  <2>3. \/ step'[d] = "enqueue" /\ cursor[d] < Len(records[d])
        \/ step'[d] = "accepted" /\ cursor[d] >= Len(records[d])
    BY <1>1, <1>4 DEF Go, TypeOK
  <2> QED
    BY <1>1, <1>4, <2>1, <2>2, <2>3
<1>5. \/ /\ Go(d, "enqueue", "unavailable") \/ Go(d, "enqueue", "not_persisted")
         /\ UNCHANGED <<queue, cursor>>
      \/ /\ queue' = Append(queue, Current(d)) /\ Advance(d)
         /\ \/ cursor[d] < Len(records[d]) /\ step' = step
            \/ cursor[d] >= Len(records[d]) /\ Go(d, "enqueue", "accepted")
  <2>1. cursor[d] \in Nat /\ Len(records[d]) \in Nat
    BY TypeOf
  <2> QED
    BY <1>2, <2>1 DEF EnqueuePage
<1> QED
  BY <1>3, <1>4, <1>5

(* The page at the cursor of an enqueueing handler is not in the queue yet. *)
LEMMA CurrentNotQueued ==
    ASSUME TypeOK, NEW d \in Documents, Shaped(d), RecordsFiled(d), step[d] = "enqueue"
    PROVE  Current(d) \in files \ Pending
<1>1. cursor[d] \in DOMAIN records[d] /\ records[d][cursor[d]].image = Current(d)
  BY AtCursor
<1>2. cursor[d] >= cursor[d]
  BY TypeOf
<1> QED
  BY <1>1, <1>2 DEF RecordsFiled

(* The queue keeps its promises to the workers: no step of a handler        *)
(* removes the image of a queued job or queues an image twice.              *)
LEMMA StepKeepsQueue ==
    ASSUME TypeOK, NEW d \in Documents, Shaped(d), QueueFiled, RecordsFiled(d), Acts(d)
    PROVE  QueueFiled'
<1>1. CASE EnqueuePage(d)
  <2>1. CASE /\ queue' = Append(queue, Current(d)) /\ Pending' = Pending \cup {Current(d)}
             /\ running' = running /\ step'[d] \in Queueing
    <3>1. Current(d) \in files \ Pending /\ Current(d)[1] = d /\ Current(d)[2] # 0
      BY <1>1, AtCursor, CurrentNotQueued, PageEnqueued
    <3>2. files' = files
      BY <1>1, PageEnqueued
    <3>3. Pending' \subseteq files'
      BY <2>1, <3>1, <3>2 DEF QueueFiled
    <3>4. \A i, k \in DOMAIN queue' : i # k => queue'[i] # queue'[k]
      <4>1. queue \in Seq(Paths) /\ Current(d) \in Paths
        BY <1>1, AtCursor, PageEnqueued DEF TypeOK
      <4>2. /\ Len(queue) \in Nat /\ DOMAIN queue = 1..Len(queue)
            /\ DOMAIN queue' = 1..(Len(queue) + 1)
            /\ \A i \in 1..Len(queue) : queue'[i] = queue[i]
            /\ queue'[Len(queue) + 1] = Current(d)
        BY <2>1, <4>1
      <4>3. \A i \in 1..Len(queue) : queue[i] # Current(d)
        BY <3>1, <4>2 DEF Pending
      <4>4. \A i, k \in 1..Len(queue) : i # k => queue[i] # queue[k]
        BY <4>2 DEF QueueFiled
      <4>5. \A i \in DOMAIN queue' : i \in 1..Len(queue) \/ i = Len(queue) + 1
        BY <4>2
      <4> QED
        BY <4>2, <4>3, <4>4, <4>5
    <3>6. \A i \in DOMAIN queue' : queue'[i] \notin running'
      <4>1. queue \in Seq(Paths) /\ Current(d) \in Paths
        BY <1>1, AtCursor, PageEnqueued DEF TypeOK
      <4>2. \A i \in DOMAIN queue' :
              queue'[i] = Current(d) \/ (i \in DOMAIN queue /\ queue'[i] = queue[i])
        BY <2>1, <4>1
      <4>3. Current(d) \notin running
        BY <3>1 DEF Pending
      <4> QED
        BY <2>1, <4>2, <4>3 DEF QueueFiled
    <3>5. ASSUME NEW f \in Pending' PROVE f[2] # 0 /\ step'[f[1]] \in Queueing
      <4>1. CASE f = Current(d)
        BY <2>1, <3>1, <4>1
      <4>2. CASE f \in Pending
        <5>1. f[2] # 0 /\ step[f[1]] \in Queueing /\ f[1] \in Documents
          BY <4>2 DEF QueueFiled, Queueing, TypeOK, Paths
        <5> QED
          BY <1>1, <2>1, <5>1, OthersUntouched DEF Same, Acts, Handler
      <4> QED
        BY <2>1, <4>1, <4>2
    <3> QED
      BY <3>3, <3>4, <3>5, <3>6 DEF QueueFiled
  <2>2. CASE /\ UNCHANGED <<queue, running>> /\ Pending' = Pending
             /\ step'[d] \in Queueing
    <3>1. files' = files
      BY <1>1, PageEnqueued
    <3>2. ASSUME NEW f \in Pending PROVE f[2] # 0 /\ step'[f[1]] \in Queueing
      <4>1. f[2] # 0 /\ step[f[1]] \in Queueing /\ f[1] \in Documents
        BY DEF QueueFiled, Queueing, TypeOK, Paths
      <4> QED
        BY <1>1, <2>2, <4>1, OthersUntouched DEF Same, Acts, Handler
    <3> QED
      BY <2>2, <3>1, <3>2 DEF QueueFiled, Queueing
  <2> QED
    BY <1>1, <2>1, <2>2, PageEnqueued DEF Queueing
<1>2. CASE ~EnqueuePage(d)
  <2>1. UNCHANGED <<queue, running>> /\ Pending' = Pending
    BY <1>2, QueueStays
  <2>2. ASSUME NEW f \in Pending
        PROVE  f \in files' /\ f[2] # 0 /\ step'[f[1]] \in Queueing
    <3>1. f \in files /\ f[2] # 0 /\ step[f[1]] \in Queueing /\ f[1] \in Documents
      BY DEF QueueFiled, Queueing, TypeOK, Paths
    <3>2. CASE f[1] # d
      BY <3>1, <3>2, OthersUntouched, StepTouchesOwnFiles DEF Same, OwnFilesOnly
    <3>3. CASE f[1] = d
      <4>1. step'[d] \in Queueing /\ (files' = files \/ RenderPage(d))
        BY <3>1, <3>3, QueueingStays
      <4>2. files \subseteq files'
        BY <4>1 DEF RenderPage
      <4> QED
        BY <3>1, <3>3, <4>1, <4>2
    <3> QED
      BY <3>2, <3>3
  <2> QED
    BY <2>1, <2>2 DEF QueueFiled, Queueing
<1> QED
  BY <1>1, <1>2

-----------------------------------------------------------------------------
(* The caller's PDF stays, that of an upload goes before its pages are      *)
(* looked at.                                                               *)
LEMMA StepKeepsPdf ==
    ASSUME TypeOK, NEW d \in Documents, Shaped(d), PdfFiled(d), Acts(d)
    PROVE  PdfFiled(d)'
<1> DEFINE Past == {"read", "capacity", "cleanup", "enqueue"}
                       \cup (Answers \ {"not_saved", "dropped"})
<1>1. CASE WriteUpload(d)
  <2>1. files \subseteq files' /\ step'[d] \in {"inspect", "not_saved"}
    BY <1>1 DEF WriteUpload, Go, TypeOK
  <2> QED
    BY <2>1 DEF PdfFiled, Answers, Pdf
<1>2. CASE CleanupUploadedPdf(d)
  <2>1. step[d] = "discard" /\ Remove(Pdf(d))
    BY <1>2 DEF CleanupUploadedPdf, Go
  <2>2. d \in Uploads
    BY <2>1 DEF Shaped, AnswerShaped
  <2>3. Pdf(d) \notin files' \/ Pdf(d) \in undeleted'
    BY <2>1 DEF Remove
  <2> QED
    BY <2>2, <2>3 DEF PdfFiled, Pdf
<1>3. CASE CleanupPage(d)
  <2>1. step[d] = "cleanup" /\ Remove(Current(d)) /\ Current(d)[2] # 0
    BY <1>3, AtCursor DEF CleanupPage
  <2>2. Current(d) # Pdf(d)
    BY <2>1 DEF Pdf
  <2> QED
    BY <2>1, <2>2 DEF PdfFiled, Remove, Pdf
<1>4. CASE RenderPage(d)
  <2>1. /\ step' = step /\ undeleted' = undeleted
        /\ files' = files \cup {<<d, renderer[d].next>>}
    BY <1>4 DEF RenderPage, handlerVars
  <2>2. <<d, renderer[d].next>> # Pdf(d)
    BY TypeOf DEF Shaped, RendererShaped, Pdf
  <2> QED
    BY <2>1, <2>2 DEF PdfFiled, Pdf
<1>5. CASE InspectPageCount(d) \/ RenderEnds(d) \/ CollectRenderedPages(d)
  <2>1. UNCHANGED <<files, undeleted>>
    BY <1>5 DEF InspectPageCount, RenderEnds, CollectRenderedPages, fileVars
  <2>2. d \in Uploads => step'[d] \notin Past
    BY <1>5 DEF InspectPageCount, RenderEnds, CollectRenderedPages, Fail, AfterFailure,
                AfterSuccess, Go, TypeOK, Answers
  <2> QED
    BY <2>1, <2>2 DEF PdfFiled, Pdf
<1>6. CASE StartRenderer(d) \/ RendererExits(d) \/ DropHandler(d) \/ ReplaceSource(d)
  <2>1. /\ UNCHANGED <<files, undeleted>>
        /\ step'[d] \in {step[d], "rendering", "dropped"}
    BY <1>6 DEF StartRenderer, RendererExits, DropHandler, ReplaceSource, fileVars, handlerVars,
                Go, TypeOK
  <2> QED
    BY <2>1 DEF PdfFiled, Pdf, Answers
<1>7. CASE ReadPage(d) \/ EnsureQueueHasCapacity(d) \/ EnqueuePage(d)
  <2>1. UNCHANGED <<files, undeleted>> /\ step[d] \in Past
    BY <1>7 DEF ReadPage, EnsureQueueHasCapacity, EnqueuePage, fileVars, Go, AbandonPages
  <2> QED
    BY <2>1 DEF PdfFiled, Pdf
<1> QED
  BY <1>1, <1>2, <1>3, <1>4, <1>5, <1>6, <1>7 DEF Acts, Handler, Renderer

(* What the records stand for stays on disk until it is queued. *)
LEMMA StepKeepsRecords ==
    ASSUME TypeOK, NEW d \in Documents, Shaped(d), QueueFiled, RecordsFiled(d), Acts(d)
    PROVE  RecordsFiled(d)'
<1>1. CASE ReadPage(d)
  <2>1. step[d] = "read" /\ UNCHANGED <<files, pages>>
    BY <1>1 DEF ReadPage, fileVars
  <2>2. CASE step'[d] = "cleanup"
    BY <2>2 DEF RecordsFiled
  <2>3. CASE step'[d] # "cleanup"
    <3>1. /\ Current(d) \in files /\ step'[d] \in {"read", "capacity"}
          /\ records' = [records EXCEPT ![d] = Append(records[d], Record(d))]
      BY <1>1, <2>3 DEF ReadPage, AbandonPages, Go, TypeOK
    <3>2. Record(d) \in [image : Paths, page : Nat, of : Nat] /\ Record(d).image = Current(d)
      BY <2>1, AtCursor, TypeOf DEF Record
    <3> DEFINE T == [image : Paths, page : Nat, of : Nat]
               r == Record(d)
    <3>3. records[d] \in Seq(T) /\ records'[d] = Append(records[d], r)
      BY <3>1 DEF TypeOK
    <3>4. r \in T /\ r.image \in files
      BY <3>1, <3>2
    <3> HIDE DEF T, r
    <3>5. \A k \in DOMAIN records'[d] :
            records'[d][k] = r \/ (k \in DOMAIN records[d] /\ records'[d][k] = records[d][k])
      BY <3>3, <3>4
    <3>6. \A k \in DOMAIN records[d] : records[d][k].image \in files
      BY <2>1 DEF RecordsFiled
    <3>7. \A k \in DOMAIN records'[d] : records'[d][k].image \in files'
      BY <2>1, <3>4, <3>5, <3>6
    <3> QED
      BY <3>1, <3>7 DEF RecordsFiled
  <2> QED
    BY <2>2, <2>3
<1>2. CASE EnsureQueueHasCapacity(d)
  <2>1. /\ step[d] = "capacity" /\ UNCHANGED <<files, queue, running, records>>
        /\ step'[d] \in {"enqueue", "cleanup"}
    BY <1>2 DEF EnsureQueueHasCapacity, AbandonPages, Go, fileVars, workerVars, TypeOK
  <2>2. Collected(d)
    BY <2>1 DEF Collected
  <2>3. \A k \in DOMAIN records[d] : records[d][k].image \in files \ Pending
    <3> TAKE k \in DOMAIN records[d]
    <3>1. records[d][k].image \in files
      BY <2>1 DEF RecordsFiled
    <3>2. records[d][k].image[1] = d
      BY <2>2, ImageOfOwn
    <3>3. ASSUME NEW f \in Pending PROVE f[1] # d
      BY <2>1 DEF QueueFiled, Queueing
    <3> QED
      BY <3>1, <3>2, <3>3
  <2> QED
    BY <2>1, <2>3 DEF RecordsFiled, Pending
<1>3. CASE EnqueuePage(d)
  <2>1. CASE /\ Pending' = Pending \cup {Current(d)}
             /\ cursor'[d] = cursor[d] + 1 /\ step'[d] = "enqueue"
    <3>1. /\ step[d] = "enqueue" /\ UNCHANGED <<files, records>> /\ Collected(d)
          /\ cursor[d] \in DOMAIN pages[d]
      BY <1>3, AtCursor, PageEnqueued DEF Collected
    <3>2. ASSUME NEW k \in DOMAIN records[d], k >= cursor[d] + 1
          PROVE  records[d][k].image \in files \ Pending /\ records[d][k].image # Current(d)
      <4>1. k \in DOMAIN pages[d] /\ records[d][k].image = pages[d][k]
        BY <3>1, ImageOfOwn
      <4>2. k \in Nat /\ cursor[d] \in Nat
        BY TypeOf
      <4>3. k # cursor[d] /\ k >= cursor[d]
        BY <3>2, <4>2
      <4>4. pages[d][k] # Current(d)
        BY <3>1, <4>1, <4>3 DEF Shaped, PagesShaped, Current
      <4>5. records[d][k].image \in files \ Pending
        BY <3>1, <4>3 DEF RecordsFiled
      <4> QED
        BY <4>1, <4>4, <4>5
    <3> QED
      BY <2>1, <3>1, <3>2 DEF RecordsFiled
  <2>2. CASE step'[d] \in {"accepted", "unavailable", "not_persisted"}
    BY <2>2 DEF RecordsFiled
  <2> QED
    BY <1>3, <2>1, <2>2, PageEnqueued
<1>4. CASE RenderPage(d) \/ RendererExits(d) \/ ReplaceSource(d)
  <2>1. UNCHANGED <<step, records, cursor, queue, running>> /\ files \subseteq files'
    BY <1>4 DEF RenderPage, RendererExits, ReplaceSource, handlerVars, fileVars, workerVars
  <2> QED
    BY <2>1 DEF RecordsFiled, Pending
<1>5. CASE CleanupUploadedPdf(d)
  <2>1. /\ step[d] = "discard" /\ records' = records
        /\ step'[d] = (IF answer[d] = "accepted" THEN "read" ELSE "not_rendered")
    BY <1>5 DEF CleanupUploadedPdf, Go, TypeOK
  <2>2. CASE answer[d] = "accepted"
    <3>1. records[d] = <<>>
      BY <2>1, <2>2 DEF Shaped, RecordsShaped, Collected
    <3>2. DOMAIN records'[d] = {}
      BY <2>1, <3>1
    <3> QED
      BY <2>1, <2>2, <3>2 DEF RecordsFiled
  <2>3. CASE answer[d] # "accepted"
    BY <2>1, <2>3 DEF RecordsFiled
  <2> QED
    BY <2>2, <2>3
<1>6. CASE CollectRenderedPages(d)
  <2>1. step[d] = "collect" /\ records' = records /\ step'[d] # "enqueue"
    BY <1>6 DEF CollectRenderedPages, Fail, AfterFailure, AfterSuccess, Go, TypeOK
  <2>2. records[d] = <<>>
    BY <2>1 DEF Shaped, AnswerShaped, Early
  <2>3. DOMAIN records'[d] = {}
    BY <2>1, <2>2
  <2> QED
    BY <2>1, <2>3 DEF RecordsFiled
<1>7. CASE \/ WriteUpload(d) \/ InspectPageCount(d) \/ StartRenderer(d) \/ RenderEnds(d)
           \/ DropHandler(d)
  <2>1. step'[d] \notin {"read", "capacity", "enqueue"}
    BY <1>7 DEF WriteUpload, InspectPageCount, StartRenderer, RenderEnds, DropHandler, Fail,
                AfterFailure, Go, TypeOK
  <2> QED
    BY <2>1 DEF RecordsFiled
<1>8. CASE CleanupPage(d)
  <2>1. step[d] = "cleanup" /\ step'[d] \in {"cleanup", answer[d]}
    BY <1>8 DEF CleanupPage, Go, TypeOK
  <2>2. answer[d] \in {"bad_page", "no_capacity"}
    BY <2>1 DEF Shaped, AnswerShaped
  <2> QED
    BY <2>1, <2>2 DEF RecordsFiled
<1> QED
  BY <1>1, <1>2, <1>3, <1>4, <1>5, <1>6, <1>7, <1>8 DEF Acts, Handler, Renderer

(* After a page is removed or its removal failed, or it is queued, what is  *)
(* left to treat starts at the next one.                                    *)
LEMMA CursorPassed ==
    ASSUME TypeOK, NEW d \in Documents, cursor[d] \in DOMAIN pages[d],
           NEW k \in DOMAIN pages[d], k >= cursor[d], pages[d][k] # Current(d)
    PROVE  k >= cursor[d] + 1 /\ cursor[d] < Len(pages[d])
<1>1. k \in Nat /\ cursor[d] \in Nat /\ Len(pages[d]) \in Nat /\ k <= Len(pages[d])
  BY TypeOf
<1>2. k # cursor[d]
  BY DEF Current
<1> QED
  BY <1>1, <1>2

(* Every image on disk stays accounted for. *)
LEMMA StepKeepsImages ==
    ASSUME TypeOK, NEW d \in Documents, Shaped(d), ImagesFiled(d), Acts(d)
    PROVE  ImagesFiled(d)'
<1>0. \A f : f \in ImagesOf(d)' => f \in files' /\ f[1] = d /\ f[2] # 0
  BY DEF ImagesOf
<1>00. evicted' = evicted
  BY WorkersUntouched DEF workerVars
<1>1. ASSUME ~RenderPage(d), NEW f \in ImagesOf(d)' PROVE f \in ImagesOf(d)
  BY <1>0, <1>1, NoNewImages DEF ImagesOf
<1>2. CASE RenderPage(d)
  <2>1. UNCHANGED <<step, answer>> /\ renderer[d].state = "running"
    BY <1>2 DEF RenderPage, handlerVars
  <2>2. ~Collected(d)
    BY <2>1 DEF Shaped, RendererShaped
  <2> QED
    BY <2>1, <2>2 DEF Collected, ImagesFiled
<1>3. CASE RendererExits(d) \/ ReplaceSource(d)
  <2>1. UNCHANGED <<step, answer, pages, cursor, queue, running, files, undeleted>>
    BY <1>3 DEF RendererExits, ReplaceSource, handlerVars, fileVars, workerVars
  <2> QED
    BY <1>00, <2>1 DEF ImagesFiled, ImagesOf, Pending
<1>4. CASE CollectRenderedPages(d)
  <2>1. files' = files
    BY <1>4 DEF CollectRenderedPages, fileVars
  <2>2. CASE Fail(d, "collect")
    <3>1. step'[d] \in {"discard", "not_rendered"} /\ answer'[d] = "not_rendered"
      BY <2>2 DEF Fail, AfterFailure, Go, TypeOK
    <3> QED
      BY <3>1 DEF ImagesFiled
  <2>3. CASE ~Fail(d, "collect")
    <3>1. /\ step[d] = "collect" /\ Cardinality(Rendered(d)) = counted[d]
          /\ step'[d] \in {"discard", "read"}
          /\ \E l \in Listings(Rendered(d)) :
                SortedByPage(l) /\ pages' = [pages EXCEPT ![d] = l]
      BY <1>4, <2>3 DEF CollectRenderedPages, Go, AfterSuccess, TypeOK
    <3>2. PICK l \in Listings(Rendered(d)) :
            SortedByPage(l) /\ pages' = [pages EXCEPT ![d] = l]
      BY <3>1
    <3>3. pages'[d] = l
      BY <3>2 DEF TypeOK
    <3>4. counted[d] > 0
      BY <3>1 DEF Shaped, RendererShaped
    <3>5. \A f \in Rendered(d) : \E k \in DOMAIN l : l[k] = f
      BY <3>1, <3>2, <3>4, ListingShaped
    <3>6. ImagesOf(d)' = Rendered(d)
      BY <2>1 DEF ImagesOf, Rendered
    <3> QED
      BY <3>1, <3>3, <3>5, <3>6 DEF ImagesFiled
  <2> QED
    BY <2>2, <2>3
<1>5. CASE CleanupUploadedPdf(d)
  <2>1. /\ step[d] = "discard" /\ UNCHANGED <<pages, answer>> /\ ~RenderPage(d)
        /\ step'[d] = (IF answer[d] = "accepted" THEN "read" ELSE "not_rendered")
    BY <1>5 DEF CleanupUploadedPdf, Go, TypeOK, RenderPage, handlerVars
  <2> QED
    BY <1>1, <2>1 DEF ImagesFiled
<1>6. CASE ReadPage(d) \/ EnsureQueueHasCapacity(d)
  <2>1. /\ step[d] \in {"read", "capacity"} /\ UNCHANGED <<pages, files>>
        /\ step'[d] \in {"read", "capacity", "enqueue", "cleanup"}
        /\ step'[d] \in {"enqueue", "cleanup"} => cursor'[d] = 1
    <3>1. CASE ReadPage(d)
      BY <3>1, CursorMoves DEF ReadPage, AbandonPages, Go, fileVars, TypeOK
    <3>2. CASE EnsureQueueHasCapacity(d)
      <4>1. step[d] = "capacity" => cursor[d] = 1
        BY DEF Shaped, RecordsShaped, Collected
      <4> QED
        BY <3>2, <4>1, CursorMoves DEF EnsureQueueHasCapacity, AbandonPages, Go, fileVars, TypeOK
    <3> QED
      BY <1>6, <3>1, <3>2
  <2>2. ImagesOf(d)' = ImagesOf(d)
    BY <2>1 DEF ImagesOf
  <2>3. \A f \in ImagesOf(d) : \E k \in DOMAIN pages[d] : k >= 1 /\ pages[d][k] = f
    <3>1. \A k \in DOMAIN pages[d] : k >= 1
      BY TypeOf
    <3>2. \A f \in ImagesOf(d) : \E k \in DOMAIN pages[d] : pages[d][k] = f
      BY <2>1 DEF ImagesFiled
    <3> QED
      BY <3>1, <3>2
  <2> QED
    BY <2>1, <2>2, <2>3 DEF ImagesFiled
<1>7. CASE CleanupPage(d)
  <2>1. /\ step[d] = "cleanup" /\ pages' = pages /\ Remove(Current(d)) /\ ~RenderPage(d)
        /\ \/ step'[d] = "cleanup" /\ cursor'[d] = cursor[d] + 1
           \/ step'[d] = answer[d] /\ cursor[d] >= Len(pages[d])
    <3>1. cursor[d] \in Nat /\ Len(pages[d]) \in Nat
      BY TypeOf
    <3>2. step[d] = "cleanup" /\ pages' = pages /\ Remove(Current(d))
      BY <1>7 DEF CleanupPage
    <3>3. ~RenderPage(d)
      <4>1. renderer[d].state = "success"
        BY <3>2 DEF Shaped, RendererShaped, Collected
      <4> QED
        BY <4>1 DEF RenderPage
    <3>4. CASE cursor[d] < Len(pages[d]) /\ Advance(d) /\ step' = step
      BY <3>2, <3>3, <3>4, CursorMoves
    <3>5. CASE cursor[d] >= Len(pages[d]) /\ Go(d, "cleanup", answer[d])
      BY <3>2, <3>3, <3>5 DEF Go, TypeOK
    <3> QED
      BY <1>7, <3>1, <3>4, <3>5 DEF CleanupPage
  <2>2. answer[d] \in {"bad_page", "no_capacity"} /\ cursor[d] \in DOMAIN pages[d]
    BY <2>1, AtCursor DEF Shaped, AnswerShaped
  <2>3. ASSUME NEW f \in ImagesOf(d)', f \notin undeleted'
        PROVE  /\ cursor[d] < Len(pages[d])
               /\ \E k \in DOMAIN pages[d] : k >= cursor[d] + 1 /\ pages[d][k] = f
    <3>1. f \in ImagesOf(d) /\ f \notin undeleted
      BY <1>1, <2>1, <2>3 DEF Remove
    <3>2. PICK k \in DOMAIN pages[d] : k >= cursor[d] /\ pages[d][k] = f
      BY <2>1, <3>1 DEF ImagesFiled
    <3>3. f # Current(d)
      BY <1>0, <2>1, <2>3 DEF Remove
    <3> QED
      BY <2>2, <3>2, <3>3, CursorPassed
  <2>4. CASE step'[d] = "cleanup" /\ cursor'[d] = cursor[d] + 1
    BY <2>1, <2>3, <2>4 DEF ImagesFiled
  <2>5. CASE step'[d] = answer[d] /\ cursor[d] >= Len(pages[d])
    <3>1. cursor[d] \in Nat /\ Len(pages[d]) \in Nat
      BY TypeOf
    <3>2. ImagesOf(d)' \subseteq undeleted'
      BY <2>3, <2>5, <3>1
    <3> QED
      BY <2>2, <2>5, <3>2 DEF ImagesFiled
  <2> QED
    BY <2>1, <2>4, <2>5
<1>8. CASE EnqueuePage(d)
  <2>1. /\ step[d] = "enqueue" /\ UNCHANGED <<files, undeleted, pages, records>> /\ Collected(d)
    BY <1>8, PageEnqueued DEF Collected
  <2>2. ImagesOf(d)' = ImagesOf(d)
    BY <2>1 DEF ImagesOf
  <2>3. CASE /\ step'[d] \in {"unavailable", "not_persisted"}
             /\ cursor' = cursor /\ Pending' = Pending
    BY <1>00, <2>1, <2>2, <2>3 DEF ImagesFiled
  <2>4. CASE /\ Pending' = Pending \cup {Current(d)} /\ cursor'[d] = cursor[d] + 1
             /\ \/ step'[d] = "enqueue"
                \/ step'[d] = "accepted" /\ cursor[d] >= Len(records[d])
    <3>1. cursor[d] \in DOMAIN pages[d] /\ Len(records[d]) = Len(pages[d])
      BY <2>1, AtCursor DEF Shaped, RecordsShaped
    <3>2. ASSUME NEW f \in ImagesOf(d)', f \notin Pending' \cup undeleted' \cup evicted'
          PROVE  /\ cursor[d] < Len(pages[d])
                 /\ \E k \in DOMAIN pages[d] : k >= cursor[d] + 1 /\ pages[d][k] = f
      <4>1. /\ f \in ImagesOf(d) /\ f \notin Pending \cup undeleted \cup evicted
            /\ f # Current(d)
        BY <1>00, <2>1, <2>2, <2>4, <3>2
      <4>2. PICK k \in DOMAIN pages[d] : k >= cursor[d] /\ pages[d][k] = f
        BY <2>1, <4>1 DEF ImagesFiled
      <4> QED
        BY <3>1, <4>1, <4>2, CursorPassed
    <3>3. CASE step'[d] = "enqueue"
      BY <2>1, <2>4, <3>2, <3>3 DEF ImagesFiled
    <3>4. CASE step'[d] = "accepted" /\ cursor[d] >= Len(records[d])
      <4>1. cursor[d] \in Nat /\ Len(pages[d]) \in Nat
        BY TypeOf
      <4>2. ImagesOf(d)' \subseteq Pending' \cup undeleted' \cup evicted'
        BY <3>1, <3>2, <3>4, <4>1
      <4> QED
        BY <3>4, <4>2 DEF ImagesFiled
    <3> QED
      BY <2>4, <3>3, <3>4
  <2> QED
    BY <1>8, <2>3, <2>4, PageEnqueued
<1>9. CASE \/ WriteUpload(d) \/ InspectPageCount(d) \/ StartRenderer(d) \/ RenderEnds(d)
           \/ DropHandler(d)
  <2>1. \/ step'[d] \in {"inspect", "not_saved", "render", "rendering", "collect",
                         "not_rendered", "dropped"}
        \/ step'[d] = "discard" /\ answer'[d] = "not_rendered"
    BY <1>9 DEF WriteUpload, InspectPageCount, StartRenderer, RenderEnds, DropHandler, Fail,
                AfterFailure, Go, TypeOK
  <2> QED
    BY <2>1 DEF ImagesFiled
<1> QED
  BY <1>2, <1>3, <1>4, <1>5, <1>6, <1>7, <1>8, <1>9 DEF Acts, Handler, Renderer

-----------------------------------------------------------------------------
(* An image that a worker takes is still one job's. *)
LEMMA JobTaken ==
    ASSUME TypeOK, QueueFiled, TakeJob
    PROVE  /\ queue' \in Seq(Paths) /\ Len(queue') <= QueueSize
           /\ running' \subseteq Paths
           /\ Pending' = Pending
           /\ \A i, k \in DOMAIN queue' : i # k => queue'[i] # queue'[k]
           /\ \A i \in DOMAIN queue' : queue'[i] \notin running'
<1> DEFINE head == Head(queue)
<1>1. /\ queue # <<>> /\ queue' = Tail(queue) /\ running' = running \cup {head}
      /\ queue \in Seq(Paths) /\ Len(queue) <= QueueSize /\ running \subseteq Paths
      /\ \A i, k \in DOMAIN queue : i # k => queue[i] # queue[k]
      /\ \A i \in DOMAIN queue : queue[i] \notin running
  BY DEF TakeJob, TypeOK, QueueFiled
<1>2. /\ queue' \in Seq(Paths) /\ Len(queue') < Len(queue)
      /\ 1 \in DOMAIN queue /\ head = queue[1] /\ head \in Paths
      /\ \A i \in DOMAIN queue' : /\ i + 1 \in DOMAIN queue /\ queue'[i] = queue[i + 1]
                                  /\ queue'[i] # head
      /\ \A i \in DOMAIN queue : queue[i] # head => \E k \in DOMAIN queue' : queue'[k] = queue[i]
      /\ \A i, k \in DOMAIN queue' : i # k => queue'[i] # queue'[k]
  BY <1>1, QueueShrinks
<1> HIDE DEF head
<1>3. Len(queue') <= QueueSize
  <2>1. Len(queue) \in Nat /\ Len(queue') \in Nat /\ QueueSize \in Nat
    BY <1>1, <1>2, DocumentsAssumption
  <2> QED
    BY <1>1, <1>2, <2>1
<1>4. ASSUME NEW f \in Pending' PROVE f \in Pending
  <2>1. CASE f \in running'
    BY <1>1, <1>2, <2>1 DEF Pending
  <2>2. CASE f \notin running'
    <3>1. PICK i \in DOMAIN queue' : f = queue'[i]
      BY <2>2 DEF Pending
    <3> QED
      BY <1>2, <3>1 DEF Pending
  <2> QED
    BY <2>1, <2>2
<1>5. ASSUME NEW f \in Pending PROVE f \in Pending'
  <2>1. CASE f \in running \cup {head}
    BY <1>1, <2>1 DEF Pending
  <2>2. CASE f \notin running \cup {head}
    <3>1. PICK i \in DOMAIN queue : f = queue[i]
      BY <2>2 DEF Pending
    <3>2. PICK k \in DOMAIN queue' : queue'[k] = f
      BY <1>2, <2>2, <3>1
    <3> QED
      BY <3>2 DEF Pending
  <2> QED
    BY <2>1, <2>2
<1>6. Pending' = Pending
  BY <1>4, <1>5
<1>7. \A i \in DOMAIN queue' : queue'[i] \notin running'
  BY <1>1, <1>2
<1> QED
  BY <1>1, <1>2, <1>3, <1>6, <1>7

(* A step that only moves jobs between the queue and the workers, or that   *)
(* closes the channel, leaves the files where they are accounted for.       *)
LEMMA QuietStep ==
    ASSUME PdfInv, UNCHANGED <<handlerVars, renderer, fileVars, evicted>>, Pending' = Pending
    PROVE  /\ FilesRendered'
           /\ Pending' \subseteq files'
           /\ \A f \in Pending' : f[2] # 0 /\ step'[f[1]] \in Queueing
           /\ \A d \in Documents : Shaped(d)' /\ Filed(d)'
<1> USE DEF handlerVars, fileVars
<1>1. FilesRendered'
  BY DEF PdfInv, FilesRendered
<1>2. /\ Pending' \subseteq files'
      /\ \A f \in Pending' : f[2] # 0 /\ step'[f[1]] \in Queueing
  BY DEF PdfInv, QueueFiled
<1>3. ASSUME NEW d \in Documents PROVE Shaped(d)'
  BY SameShape DEF PdfInv, Same
<1>4. ASSUME NEW d \in Documents PROVE Filed(d)'
  <2>1. Filed(d) /\ ImagesOf(d)' = ImagesOf(d)
    BY DEF PdfInv, ImagesOf
  <2>2. RecordsFiled(d)'
    BY <2>1 DEF Filed, RecordsFiled
  <2>3. ImagesFiled(d)'
    BY <2>1 DEF Filed, ImagesFiled
  <2>4. PdfFiled(d)'
    BY <2>1 DEF Filed, PdfFiled, Pdf
  <2> QED
    BY <2>2, <2>3, <2>4 DEF Filed
<1> QED
  BY <1>1, <1>2, <1>3, <1>4

(* A finished job takes its own image from the disk and nothing else, or    *)
(* leaves it.                                                               *)
LEMMA JobFinished ==
    ASSUME TypeOK, QueueFiled, NEW gone \in running, FinishJob(gone)
    PROVE  /\ gone \in Paths /\ gone \in Pending /\ gone[2] # 0 /\ step[gone[1]] \in Queueing
           /\ Pending' = Pending \ {gone}
           /\ UNCHANGED <<handlerVars, source, renderer, queue, closed>>
           /\ running' = running \ {gone}
           /\ undeleted \subseteq undeleted' /\ evicted \subseteq evicted'
           /\ \/ files' = files \ {gone} /\ UNCHANGED <<undeleted, evicted>>
              \/ /\ files' = files /\ gone \in undeleted' \cup evicted'
                 /\ undeleted' \cup evicted' \subseteq undeleted \cup evicted \cup {gone}
<1>1. gone \in Paths /\ gone \in Pending
  BY DEF TypeOK, Pending
<1>2. gone[2] # 0 /\ step[gone[1]] \in Queueing
  BY <1>1 DEF QueueFiled
<1>3. UNCHANGED <<handlerVars, source, renderer, queue, closed>> /\ running' = running \ {gone}
  BY DEF FinishJob
<1>4. Pending' = Pending \ {gone}
  BY <1>3 DEF Pending, QueueFiled
<1>5. /\ undeleted \subseteq undeleted' /\ evicted \subseteq evicted'
      /\ \/ files' = files \ {gone} /\ UNCHANGED <<undeleted, evicted>>
         \/ /\ files' = files /\ gone \in undeleted' \cup evicted'
            /\ undeleted' \cup evicted' \subseteq undeleted \cup evicted \cup {gone}
  <2>1. CASE Remove(gone) /\ evicted' = evicted
    BY <2>1 DEF Remove
  <2>2. CASE evicted' = evicted \cup {gone} /\ UNCHANGED fileVars
    BY <2>2 DEF fileVars
  <2> QED
    BY <2>1, <2>2 DEF FinishJob
<1> QED
  BY <1>1, <1>2, <1>3, <1>4, <1>5

LEMMA FinishKeepsFiled ==
    ASSUME TypeOK, QueueFiled, NEW gone \in running, FinishJob(gone),
           NEW d \in Documents, Shaped(d), Filed(d)
    PROVE  Filed(d)'
<1>1. /\ gone \in Pending /\ gone[2] # 0 /\ step[gone[1]] \in Queueing
      /\ Pending' = Pending \ {gone}
      /\ UNCHANGED <<step, pages, records, cursor, answer>>
      /\ undeleted \subseteq undeleted' /\ evicted \subseteq evicted'
      /\ files' = files \ {gone} \/ (files' = files /\ gone \in undeleted' \cup evicted')
  BY JobFinished DEF handlerVars
<1>2. RecordsFiled(d)'
  <2>1. CASE step[d] \in {"read", "capacity"}
    <3>1. gone[1] # d
      BY <1>1, <2>1 DEF Queueing
    <3>2. \A k \in DOMAIN records[d] : records[d][k].image[1] = d
      BY <2>1, ImageOfOwn DEF Collected
    <3> QED
      BY <1>1, <2>1, <3>1, <3>2 DEF Filed, RecordsFiled
  <2>2. CASE step[d] = "enqueue"
    BY <1>1, <2>2 DEF Filed, RecordsFiled
  <2>3. CASE step[d] \notin {"read", "capacity", "enqueue"}
    BY <1>1, <2>3 DEF RecordsFiled
  <2> QED
    BY <2>1, <2>2, <2>3
<1>3. ImagesFiled(d)'
  <2>1. ASSUME NEW f \in ImagesOf(d)'
        PROVE  /\ f \in ImagesOf(d)
               /\ f \in Pending \cup undeleted \cup evicted
                    => f \in Pending' \cup undeleted' \cup evicted'
               /\ f \in undeleted => f \in undeleted'
    BY <1>1 DEF ImagesOf
  <2> QED
    BY <1>1, <2>1 DEF Filed, ImagesFiled
<1>4. PdfFiled(d)'
  <2>1. gone # Pdf(d)
    BY <1>1 DEF Pdf
  <2> QED
    BY <1>1, <2>1 DEF Filed, PdfFiled, Pdf
<1> QED
  BY <1>2, <1>3, <1>4 DEF Filed

LEMMA NextInv == PdfInv /\ [Next]_vars => PdfInv'
<1> SUFFICES ASSUME PdfInv, [Next]_vars PROVE PdfInv'
  OBVIOUS
<1>0. /\ TypeOK /\ FilesRendered /\ QueueFiled
      /\ \A d \in Documents : Shaped(d) /\ Filed(d)
  BY DEF PdfInv
<1>1. ASSUME NEW d \in Documents, Acts(d) PROVE PdfInv'
  <2>1. OwnFilesOnly(d)
    BY <1>0, <1>1, StepTouchesOwnFiles
  <2>2. ASSUME NEW e \in Documents PROVE Shaped(e)' /\ Filed(e)'
    <3>1. CASE e = d
      <4>1. Shaped(d)'
        BY <1>0, <1>1, StepKeepsShape
      <4>2. Filed(d)'
        BY <1>0, <1>1, StepKeepsRecords, StepKeepsImages, StepKeepsPdf DEF Filed
      <4> QED
        BY <3>1, <4>1, <4>2
    <3>2. CASE e # d
      <4>1. Same(e)
        BY <1>0, <1>1, <3>2, OthersUntouched
      <4> QED
        BY <1>0, <2>1, <3>2, <4>1, SameShape, SameFiles
    <3> QED
      BY <3>1, <3>2
  <2>3. TypeOK' /\ FilesRendered' /\ QueueFiled'
    BY <1>0, <1>1, StepKeepsTypes, StepKeepsRendered, StepKeepsQueue DEF Filed
  <2> QED
    BY <2>2, <2>3 DEF PdfInv
<1>2. ASSUME NEW gone \in running, FinishJob(gone) PROVE PdfInv'
  <2>1. TypeOK'
    <3>1. /\ files' \subseteq Paths /\ undeleted' \subseteq Paths /\ evicted' \subseteq Paths
          /\ running' \subseteq Paths
      <4>1. /\ gone \in Paths /\ running' = running \ {gone}
            /\ \/ files' = files \ {gone} /\ UNCHANGED <<undeleted, evicted>>
               \/ /\ files' = files
                  /\ undeleted' \cup evicted' \subseteq undeleted \cup evicted \cup {gone}
        BY <1>0, <1>2, JobFinished
      <4>2. /\ files \subseteq Paths /\ undeleted \subseteq Paths /\ evicted \subseteq Paths
            /\ running \subseteq Paths
        BY <1>0 DEF TypeOK
      <4> QED
        BY <4>1, <4>2
    <3>2. UNCHANGED <<handlerVars, source, renderer, queue, closed>>
      BY <1>0, <1>2, JobFinished
    <3> QED
      BY <1>0, <3>1, <3>2 DEF TypeOK, handlerVars
  <2>2. FilesRendered'
    <3>1. renderer' = renderer /\ files' \subseteq files
      BY <1>0, <1>2, JobFinished
    <3> QED
      BY <1>0, <3>1 DEF FilesRendered
  <2>3. QueueFiled'
    <3>1. /\ Pending' = Pending \ {gone} /\ files \ {gone} \subseteq files'
          /\ UNCHANGED <<step, queue>> /\ running' \subseteq running
      BY <1>0, <1>2, JobFinished DEF handlerVars
    <3> QED
      BY <1>0, <3>1 DEF QueueFiled
  <2>4. ASSUME NEW d \in Documents PROVE Shaped(d)' /\ Filed(d)'
    <3>1. Same(d)
      BY <1>0, <1>2, JobFinished DEF Same, handlerVars
    <3> QED
      BY <1>0, <1>2, <3>1, SameShape, FinishKeepsFiled
  <2> QED
    BY <2>1, <2>2, <2>3, <2>4 DEF PdfInv
<1>3. CASE TakeJob
  <2>1. /\ UNCHANGED <<handlerVars, source, renderer, fileVars, closed, evicted>>
        /\ Pending' = Pending
    BY <1>0, <1>3, JobTaken DEF TakeJob
  <2>2. TypeOK'
    BY <1>0, <1>3, <2>1, JobTaken DEF TypeOK, handlerVars, fileVars
  <2>3. QueueFiled'
    BY <1>0, <1>3, <2>1, JobTaken, QuietStep DEF QueueFiled
  <2> QED
    BY <2>1, <2>2, <2>3, QuietStep DEF PdfInv
<1>4. CASE WorkersGiveUp \/ UNCHANGED vars
  <2>1. /\ UNCHANGED <<handlerVars, source, renderer, fileVars, queue, running, evicted>>
        /\ closed' \in BOOLEAN
    BY <1>0, <1>4 DEF WorkersGiveUp, vars, workerVars, TypeOK
  <2>2. Pending' = Pending
    BY <2>1 DEF Pending
  <2>3. TypeOK'
    BY <1>0, <2>1 DEF TypeOK, handlerVars, fileVars
  <2>4. QueueFiled'
    BY <1>0, <2>1, <2>2, QuietStep DEF QueueFiled
  <2> QED
    BY <2>1, <2>2, <2>3, <2>4, QuietStep DEF PdfInv
<1> QED
  BY <1>1, <1>2, <1>3, <1>4 DEF Next, Acts

LEMMA AlwaysPdfInv == Spec => []PdfInv
BY InitInv, NextInv, PTL DEF Spec

-----------------------------------------------------------------------------
(***************************************************************************)
(* The theorems                                                            *)
(***************************************************************************)
(* The variables keep their domains and the queue its capacity, in every    *)
(* interleaving of handlers, renderers and workers (state.rs, submit.rs).   *)
THEOREM PdfTypeCorrect == Spec => []TypeOK
<1>1. PdfInv => TypeOK
  BY DEF PdfInv
<1> QED
  BY <1>1, AlwaysPdfInv, PTL

(* No page past max_pdf_pages is rendered, although a local document may    *)
(* grow after render_pdf_pages counted it: the process gets the count.      *)
THEOREM PageLimitKept == Spec => []WithinPageLimit
<1>1. PdfInv => WithinPageLimit
  <2> SUFFICES ASSUME PdfInv, NEW f \in files PROVE f[2] <= MaxPdfPages
    BY DEF WithinPageLimit
  <2>1. TypeOK /\ f[1] \in Documents /\ f[2] \in Nat
    BY DEF PdfInv, TypeOK, Paths
  <2>2. MaxPdfPages \in Nat
    BY DocumentsAssumption
  <2>3. CASE f[2] = 0
    BY <2>2, <2>3
  <2>4. CASE f[2] # 0
    <3> DEFINE p == renderer[f[1]]
    <3>1. p.state # "none" /\ f[2] < p.next
      BY <2>4 DEF PdfInv, FilesRendered
    <3>2. p.last <= counted[f[1]] /\ p.next <= p.last + 1
      BY <2>1, <3>1 DEF PdfInv, Shaped, RendererShaped
    <3>3. /\ p.last \in Nat /\ p.next \in Nat
          /\ counted[f[1]] \in Nat /\ counted[f[1]] <= MaxPdfPages
      BY <2>1, TypeOf
    <3> QED
      BY <2>1, <2>2, <3>1, <3>2, <3>3
  <2> QED
    BY <2>3, <2>4
<1> QED
  BY <1>1, AlwaysPdfInv, PTL

(* The image of every queued or running page is on disk until its job has   *)
(* ended: no refusal, clean-up or finished job of another document takes it. *)
THEOREM QueuedPagesKept == Spec => []QueuedPagesOnDisk
<1>1. PdfInv => QueuedPagesOnDisk
  BY DEF PdfInv, QueueFiled, QueuedPagesOnDisk
<1> QED
  BY <1>1, AlwaysPdfInv, PTL

(* Every file is accounted for: cleanup_rendered_pages,                     *)
(* cleanup_uploaded_pdf and cleanup_job_artifacts leave nothing but what a  *)
(* dropped handler, a failed rendering, a page that is refused or not       *)
(* appended (it and those after it), an evicted record or a failed          *)
(* remove_file leaves behind, and never take a caller's document.           *)
THEOREM FilesAccountedFor == Spec => []FilesAccounted
<1>1. PdfInv => PagesHaveOwner
  <2> SUFFICES ASSUME PdfInv, NEW f \in files, f[2] # 0,
                      step[f[1]] \notin Steps \cup {"dropped", "not_rendered"},
                      f \notin Pending \cup undeleted \cup evicted
               PROVE  step[f[1]] \in {"unavailable", "not_persisted"} /\ f \in Unqueued(f[1])
    BY DEF PagesHaveOwner
  <2> DEFINE d == f[1]
  <2>1. TypeOK /\ d \in Documents /\ f \in ImagesOf(d)
    BY DEF PdfInv, TypeOK, Paths, ImagesOf
  <2> HIDE DEF d
  <2>2. Shaped(d) /\ Filed(d)
    BY <2>1 DEF PdfInv
  <2>3. step[d] \in Answers \ {"dropped", "not_rendered"}
    BY <2>1, TypeOf DEF d
  <2>4. step[d] # "not_saved"
    <3>1. renderer[d].state # "none"
      BY DEF PdfInv, FilesRendered, d
    <3> QED
      BY <2>2, <3>1 DEF Shaped, RendererShaped
  <2>5. step[d] \notin {"accepted", "bad_page", "no_capacity"}
    BY <2>1, <2>2 DEF Filed, ImagesFiled
  <2>6. step[d] \in {"unavailable", "not_persisted"}
    BY <2>3, <2>4, <2>5 DEF Answers
  <2>7. PICK k \in DOMAIN pages[d] : k >= cursor[d] /\ pages[d][k] = f
    BY <2>1, <2>2, <2>6 DEF Filed, ImagesFiled
  <2>8. k \in cursor[d]..Len(pages[d])
    BY <2>1, <2>7, TypeOf
  <2>9. f \in Unqueued(d)
    BY <2>7, <2>8 DEF Unqueued
  <2> QED
    BY <2>6, <2>9 DEF d
<1>2. PdfInv => UploadRemoved
  <2> SUFFICES ASSUME PdfInv, NEW d \in Uploads, Pdf(d) \in files,
                      step[d] \notin Steps \cup {"dropped", "not_saved"}
               PROVE  Pdf(d) \in undeleted
    BY DEF UploadRemoved
  <2>1. d \in Documents /\ TypeOK
    BY DocumentsAssumption DEF PdfInv
  <2>2. step[d] \in Answers \ {"not_saved", "dropped"}
    BY <2>1, TypeOf
  <2> QED
    BY <2>1, <2>2 DEF PdfInv, Filed, PdfFiled
<1>3. PdfInv => CallerFileKept
  BY DEF PdfInv, Filed, PdfFiled, CallerFileKept
<1> QED
  BY <1>1, <1>2, <1>3, AlwaysPdfInv, PTL DEF FilesAccounted
-----------------------------------------------------------------------------
(***************************************************************************)
(* The order of the pages                                                  *)
(*                                                                         *)
(* A listing sorted by page tells the pages apart, but that its i-th entry *)
(* is page i also needs that there are as many entries as pages: then the  *)
(* numbers, which increase, leave no gap.                                  *)
(***************************************************************************)
LEMMA RoomInInterval ==
    ASSUME NEW a \in Int, NEW b \in Int, NEW c \in Int, NEW e \in Int, a <= b,
           NEW f \in [a..b -> c..e], \A i, k \in a..b : f[i] = f[k] => i = k
    PROVE  b - a <= e - c
<1>1. f \in Injection(a..b, c..e)
  BY DEF Injection, IsInjective
<1>2. IsFiniteSet(c..e) /\ Cardinality(c..e) = IF c > e THEN 0 ELSE e - c + 1
  BY FS_Interval
<1>3. Cardinality(a..b) = b - a + 1
  <2>1. Cardinality(a..b) = IF a > b THEN 0 ELSE b - a + 1
    BY FS_Interval
  <2> QED
    BY <2>1
<1>4. Cardinality(a..b) <= Cardinality(c..e)
  BY <1>1, <1>2, FS_Injection
<1> QED
  BY <1>2, <1>3, <1>4

LEMMA IncreasingIsIdentity ==
    ASSUME NEW n \in Nat, NEW f \in [1..n -> 1..n], \A i, k \in 1..n : i < k => f[i] < f[k]
    PROVE  \A i \in 1..n : f[i] = i
<1> SUFFICES ASSUME NEW i \in 1..n PROVE f[i] = i
  OBVIOUS
<1>1. f[i] \in 1..n /\ i \in Int /\ f[i] \in Int /\ n \in Int
  OBVIOUS
<1>2. \A j, k \in 1..n : f[j] = f[k] => j = k
  <2> SUFFICES ASSUME NEW j \in 1..n, NEW k \in 1..n, f[j] = f[k], j # k PROVE FALSE
    OBVIOUS
  <2>1. f[j] \in Int /\ f[k] \in Int
    OBVIOUS
  <2> QED
    BY <2>1
<1>3. i <= f[i]
  <2> DEFINE g == [k \in 1..i |-> f[k]]
  <2>1. \A k \in 1..i : k \in 1..n /\ f[k] \in 1..f[i]
    <3> SUFFICES ASSUME NEW k \in 1..i PROVE k \in 1..n /\ f[k] \in 1..f[i]
      OBVIOUS
    <3>1. k \in 1..n /\ f[k] \in 1..n
      OBVIOUS
    <3>2. k = i \/ k < i
      OBVIOUS
    <3> QED
      BY <1>1, <3>1, <3>2, SMTT(30)
  <2>2. g \in [1..i -> 1..f[i]] /\ \A j, k \in 1..i : g[j] = g[k] => j = k
    BY <1>2, <2>1
  <2> HIDE DEF g
  <2>3. 1 \in Int /\ i \in Int /\ f[i] \in Int /\ 1 <= i
    BY <1>1
  <2>4. i - 1 <= f[i] - 1
    BY <2>2, <2>3, RoomInInterval, Zenon
  <2> QED
    BY <1>1, <2>4
<1>4. f[i] <= i
  <2> DEFINE g == [k \in i..n |-> f[k]]
  <2>1. \A k \in i..n : k \in 1..n /\ f[k] \in f[i]..n
    <3> SUFFICES ASSUME NEW k \in i..n PROVE k \in 1..n /\ f[k] \in f[i]..n
      OBVIOUS
    <3>1. k \in 1..n /\ f[k] \in 1..n
      OBVIOUS
    <3>2. k = i \/ i < k
      OBVIOUS
    <3> QED
      BY <1>1, <3>1, <3>2, SMTT(30)
  <2>2. g \in [i..n -> f[i]..n] /\ \A j, k \in i..n : g[j] = g[k] => j = k
    BY <1>2, <2>1
  <2> HIDE DEF g
  <2>3. i \in Int /\ n \in Int /\ f[i] \in Int /\ i <= n
    BY <1>1
  <2>4. n - i <= n - f[i]
    BY <2>2, <2>3, RoomInInterval, Zenon
  <2> QED
    BY <1>1, <2>4
<1> QED
  BY <1>1, <1>3, <1>4

(* The listing of a directory that holds as many pages of d as were counted *)
(* is, once sorted, its pages from the first to the last.                   *)
LEMMA ListingInOrder ==
    ASSUME TypeOK, NEW d \in Documents, Shaped(d), FilesRendered, step[d] = "collect",
           NEW l \in Listings(Rendered(d)), SortedByPage(l),
           Cardinality(Rendered(d)) = counted[d]
    PROVE  Len(l) = counted[d] /\ \A i \in 1..counted[d] : l[i] = <<d, i>>
<1> DEFINE n == counted[d]
<1>1. n \in Nat /\ n > 0 /\ renderer[d].state = "success"
  BY TypeOf DEF Shaped, RendererShaped
<1>2. /\ l \in [1..n -> Rendered(d)] /\ DOMAIN l = 1..n /\ Len(l) = n
      /\ \A i \in 1..n : l[i] \in Rendered(d)
  <2>1. l \in [1..n -> Rendered(d)]
    BY DEF Listings
  <2>2. Len(l) \in Nat /\ DOMAIN l = 1..Len(l)
    BY <1>1, ListingShaped
  <2> QED
    BY <1>1, <2>1, <2>2
<1>3. \A f \in Rendered(d) : f = <<d, f[2]>> /\ f[2] \in 1..n
  <2> SUFFICES ASSUME NEW f \in Rendered(d) PROVE f = <<d, f[2]>> /\ f[2] \in 1..n
    OBVIOUS
  <2>1. f \in Paths /\ f \in files /\ f[1] = d /\ f[2] # 0
    BY DEF Rendered, ImagesOf, TypeOK
  <2>2. f = <<d, f[2]>> /\ f[2] \in Nat
    BY <2>1 DEF Paths
  <2>3. f[2] < renderer[d].next
    BY <2>1 DEF FilesRendered
  <2>4. renderer[d].last <= n /\ renderer[d].next <= renderer[d].last + 1
    BY <1>1 DEF Shaped, RendererShaped
  <2>5. renderer[d].last \in Nat /\ renderer[d].next \in Nat
    BY TypeOf
  <2> HIDE DEF n
  <2>6. f[2] <= n
    BY <1>1, <2>2, <2>3, <2>4, <2>5
  <2> QED
    BY <1>1, <2>1, <2>2, <2>6
<1> DEFINE number == [i \in 1..n |-> l[i][2]]
<1>4. number \in [1..n -> 1..n] /\ \A i, k \in 1..n : i < k => number[i] < number[k]
  BY <1>2, <1>3 DEF SortedByPage
<1>5. \A i \in 1..n : number[i] = i
  <2> HIDE DEF number, n
  <2> QED
    BY <1>1, <1>4, IncreasingIsIdentity
<1> QED
  BY <1>2, <1>3, <1>5

(* A handler that has read all pages of d and not yet given up *)
Complete(d) ==
    \/ step[d] \in {"capacity", "enqueue", "accepted", "no_capacity", "unavailable",
                    "not_persisted"}
    \/ step[d] = "cleanup" /\ answer[d] = "no_capacity"

InOrder(d) ==
    /\ Collected(d) =>
        /\ Len(pages[d]) = counted[d]
        /\ \A i \in 1..counted[d] : pages[d][i] = <<d, i>>
        /\ \A k \in DOMAIN records[d] :
             records[d][k] = [image |-> <<d, k>>, page |-> k, of |-> counted[d]]
    /\ Complete(d) => Len(records[d]) = counted[d]

LEMMA StepKeepsOrder ==
    ASSUME TypeOK, NEW d \in Documents, Shaped(d), FilesRendered, InOrder(d), Acts(d)
    PROVE  InOrder(d)'
<1> USE TypeOf
<1>1. CASE CollectRenderedPages(d)
  <2>1. step[d] = "collect" /\ UNCHANGED <<counted, records>> /\ records[d] = <<>>
    BY <1>1 DEF CollectRenderedPages, Fail, Go, Shaped, AnswerShaped, Early
  <2>2. ~Complete(d)'
    BY <1>1 DEF CollectRenderedPages, Fail, AfterFailure, AfterSuccess, Go, Complete, TypeOK
  <2>3. CASE Fail(d, "collect") /\ pages' = pages
    <3>1. ~Collected(d)'
      BY <2>3 DEF Fail, AfterFailure, Go, Collected, TypeOK
    <3> QED
      BY <2>2, <3>1 DEF InOrder
  <2>4. CASE ~(Fail(d, "collect") /\ pages' = pages)
    <3>1. PICK l \in Listings(Rendered(d)) :
            SortedByPage(l) /\ pages' = [pages EXCEPT ![d] = l]
      BY <1>1, <2>4 DEF CollectRenderedPages
    <3>2. Cardinality(Rendered(d)) = counted[d] /\ pages'[d] = l
      BY <1>1, <2>4, <3>1 DEF CollectRenderedPages, TypeOK
    <3>3. Len(l) = counted[d] /\ \A i \in 1..counted[d] : l[i] = <<d, i>>
      BY <2>1, <3>1, <3>2, ListingInOrder
    <3>4. DOMAIN records'[d] = {}
      BY <2>1
    <3> QED
      BY <2>1, <2>2, <3>2, <3>3, <3>4 DEF InOrder
  <2> QED
    BY <2>3, <2>4
<1>2. CASE ReadPage(d)
  <2>1. /\ step[d] = "read" /\ Collected(d) /\ UNCHANGED <<counted, pages>>
        /\ cursor[d] \in DOMAIN pages[d] /\ Len(records[d]) = cursor[d] - 1
        /\ Len(pages[d]) = counted[d] /\ Current(d) = <<d, cursor[d]>>
    BY <1>2, AtCursor DEF ReadPage, Collected, InOrder, Current, Shaped, RecordsShaped
  <2>2. CASE AbandonPages(d, "read", "bad_page") /\ records' = records
    <3>1. ~Complete(d)'
      BY <2>2 DEF AbandonPages, Go, Complete, TypeOK
    <3> QED
      BY <2>1, <2>2, <3>1 DEF InOrder
  <2>3. CASE ~(AbandonPages(d, "read", "bad_page") /\ records' = records)
    <3> DEFINE r == Record(d)
               T == [image : Paths, page : Nat, of : Nat]
    <3>1. /\ records' = [records EXCEPT ![d] = Append(records[d], r)]
          /\ \/ cursor[d] < Len(pages[d]) /\ step' = step
             \/ cursor[d] >= Len(pages[d]) /\ Go(d, "read", "capacity")
      BY <1>2, <2>3 DEF ReadPage
    <3>2. r \in T /\ r = [image |-> <<d, cursor[d]>>, page |-> cursor[d], of |-> counted[d]]
      <4>1. r = [image |-> <<d, cursor[d]>>, page |-> cursor[d], of |-> counted[d]]
        BY <2>1 DEF Record
      <4>2. <<d, cursor[d]>> \in Paths /\ cursor[d] \in Nat /\ counted[d] \in Nat
        BY DEF Paths
      <4> QED
        BY <4>1, <4>2
    <3>3. records'[d] = Append(records[d], r) /\ records[d] \in Seq(T)
      BY <3>1 DEF TypeOK
    <3> HIDE DEF r, T
    <3>4. /\ Len(records'[d]) = cursor[d] /\ DOMAIN records'[d] = 1..cursor[d]
          /\ \A k \in 1..(cursor[d] - 1) : records'[d][k] = records[d][k]
          /\ records'[d][cursor[d]] = r
      BY <2>1, <3>2, <3>3
    <3>5. \A k \in DOMAIN records'[d] :
            records'[d][k] = [image |-> <<d, k>>, page |-> k, of |-> counted[d]]
      <4> TAKE k \in DOMAIN records'[d]
      <4>1. CASE k = cursor[d]
        BY <3>2, <3>4, <4>1
      <4>2. CASE k # cursor[d]
        <5>1. k \in 1..(cursor[d] - 1) /\ k \in DOMAIN records[d]
          BY <2>1, <3>4, <4>2
        <5> QED
          BY <2>1, <3>4, <5>1 DEF InOrder
      <4> QED
        BY <4>1, <4>2
    <3>6. Complete(d)' => cursor[d] = counted[d]
      <4>1. CASE step' = step
        BY <2>1, <4>1 DEF Complete
      <4>2. CASE step' # step
        BY <2>1, <3>1, <4>2
      <4> QED
        BY <4>1, <4>2
    <3> QED
      BY <2>1, <3>4, <3>5, <3>6 DEF InOrder
  <2> QED
    BY <2>2, <2>3
<1> USE DEF Go, TypeOK, Collected, Complete, InOrder
<1>3. CASE WriteUpload(d) \/ DropHandler(d)
  BY <1>3 DEF WriteUpload, DropHandler
<1>4. CASE InspectPageCount(d) \/ RenderEnds(d)
  <2>1. ~Collected(d)' /\ ~Complete(d)'
    BY <1>4 DEF InspectPageCount, RenderEnds, Fail, AfterFailure
  <2> QED
    BY <2>1
<1>5. CASE StartRenderer(d)
  BY <1>5 DEF StartRenderer
<1>6. CASE CleanupUploadedPdf(d)
  BY <1>6 DEF CleanupUploadedPdf
<1>7. CASE EnsureQueueHasCapacity(d) \/ EnqueuePage(d)
  BY <1>7 DEF EnsureQueueHasCapacity, EnqueuePage, AbandonPages
<1>8. CASE CleanupPage(d)
  BY <1>8 DEF CleanupPage, Shaped, AnswerShaped
<1>9. CASE RenderPage(d) \/ RendererExits(d) \/ ReplaceSource(d)
  BY <1>9 DEF RenderPage, RendererExits, ReplaceSource, handlerVars
<1> QED
  BY <1>1, <1>2, <1>3, <1>4, <1>5, <1>6, <1>7, <1>8, <1>9 DEF Acts, Handler, Renderer

LEMMA OrderInductive ==
    PdfInv /\ (\A d \in Documents : InOrder(d)) /\ [Next]_vars
       => (\A d \in Documents : InOrder(d))'
<1> SUFFICES ASSUME PdfInv, \A d \in Documents : InOrder(d), [Next]_vars, NEW e \in Documents
             PROVE  InOrder(e)'
  OBVIOUS
<1>0. TypeOK /\ FilesRendered /\ Shaped(e) /\ InOrder(e)
  BY DEF PdfInv
<1>1. CASE Same(e)
  BY <1>0, <1>1 DEF Same, InOrder, Collected, Complete
<1>2. ASSUME NEW d \in Documents, Acts(d) PROVE InOrder(e)'
  BY <1>0, <1>1, <1>2, OthersUntouched, StepKeepsOrder
<1>3. CASE \/ TakeJob \/ WorkersGiveUp \/ UNCHANGED vars
           \/ \E image \in running : FinishJob(image)
  BY <1>1, <1>3 DEF TakeJob, WorkersGiveUp, FinishJob, Same, vars, handlerVars
<1> QED
  BY <1>2, <1>3 DEF Next, Acts

(* The records of a PDF are its pages 1 to page_count in order, each with   *)
(* its own image, whatever order read_dir lists the directory in, whatever  *)
(* other documents are rendered into it and although the PDF may have been  *)
(* replaced after it was counted (collect_rendered_pages,                   *)
(* page_records_from_rendered_pdf).                                         *)
THEOREM PagesStayInOrder == Spec => []PagesInOrder
<1>1. Init => \A d \in Documents : InOrder(d)
  BY DEF Init, InOrder, Collected, Complete
<1>2. PdfInv /\ (\A d \in Documents : InOrder(d)) => PagesInOrder
  <2> SUFFICES ASSUME PdfInv, NEW d \in Documents, InOrder(d),
                      step[d] \in {"capacity", "enqueue", "accepted", "no_capacity",
                                   "unavailable", "not_persisted"}
               PROVE  records[d] = [i \in 1..counted[d] |->
                                      [image |-> <<d, i>>, page |-> i, of |-> counted[d]]]
    BY DEF PagesInOrder
  <2>1. /\ records[d] \in Seq([image : Paths, page : Nat, of : Nat])
        /\ DOMAIN records[d] = 1..Len(records[d])
    BY TypeOf DEF PdfInv
  <2>2. records[d] = [i \in 1..Len(records[d]) |-> records[d][i]]
    BY <2>1
  <2>3. /\ Len(records[d]) = counted[d]
        /\ \A i \in 1..counted[d] :
             records[d][i] = [image |-> <<d, i>>, page |-> i, of |-> counted[d]]
    BY <2>1 DEF InOrder, Collected, Complete
  <2> QED
    BY <2>2, <2>3
<1> QED
  BY <1>1, <1>2, AlwaysPdfInv, OrderInductive, PTL DEF Spec
=============================================================================
