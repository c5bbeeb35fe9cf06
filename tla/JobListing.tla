----------------------------- MODULE JobListing -----------------------------
(***************************************************************************)
(* The list of jobs under /jobs.  Each request sorts a copy of the map by  *)
(* updated_at, latest first, and cuts one page out of it; a client follows *)
(* the "next" links.  Between two of its requests records are inserted,    *)
(* updated, rolled back and evicted, so the pages it sees are cut out of   *)
(* different lists.                                                        *)
(***************************************************************************)
EXTENDS Naturals, Sequences, FiniteSets

CONSTANTS
    Jobs,               \* job ids
    JobRetentionLimit,  \* config.job_retention_limit
    PageQueries,        \* values of ?page=, 1 when it is missing
    PerPageQueries,     \* values of ?per_page=, 25 when it is missing
    MaxPerPage,         \* 100
    MaxChanges          \* bound on the changes during one walk

ASSUME ListingAssumption ==
    /\ IsFiniteSet(Jobs)
    /\ JobRetentionLimit \in Nat
    /\ PageQueries \subseteq Nat /\ PerPageQueries \subseteq Nat
    /\ MaxPerPage \in Nat \ {0}
    /\ MaxChanges \in Nat

VARIABLES
    list,       \* the job ids in the order render_jobs_index sorts them
    unsent,     \* records inserted by a handler that has not queued them yet
    walk,       \* where the client is: "start", "walking" or "done"
    page,       \* the page it asks for next
    perPage,
    first,      \* the page it was shown first, 0 before
    seen,       \* the rows it was shown, page after page
    quiet,      \* records neither updated nor removed since the first page
    rollbacks,  \* records rolled back since then
    changes

storeVars  == <<list, unsent>>
clientVars == <<walk, page, perPage, first, seen>>
watchVars  == <<quiet, rollbacks, changes>>
vars       == <<storeVars, clientVars, watchVars>>

Listed == {list[i] : i \in DOMAIN list}

AllOrders(S) == {l \in [1..Cardinality(S) -> S] : \A i, k \in DOMAIN l : l[i] = l[k] => i = k}

(* One order for each number of records: the ids are interchangeable. *)
Init ==
    /\ \E n \in 0..Cardinality(Jobs) :
         list = SubSeq(CHOOSE l \in AllOrders(Jobs) : TRUE, 1, n)
    /\ unsent = {}
    /\ walk = "start"
    /\ page = 1
    /\ perPage = 1
    /\ first = 0
    /\ seen = <<>>
    /\ quiet = Listed
    /\ rollbacks = 0
    /\ changes = 0

-----------------------------------------------------------------------------
(***************************************************************************)
(* render_jobs_index                                                       *)
(***************************************************************************)
Clamp(n, low, high) == IF n < low THEN low ELSE IF n > high THEN high ELSE n

ClampPerPage(n) == Clamp(n, 1, MaxPerPage)

(* total_jobs.div_ceil(per_page).max(1) *)
TotalPages(n) == Clamp((Len(list) + n - 1) \div n, 1, Len(list) + 1)

ClampPage(p, n) == Clamp(p, 1, TotalPages(n))

(* records[start..end], for a page p of n rows that has been clamped *)
Start(p, n) == (p - 1) * n
End(p, n)   == LET e == Start(p, n) + n IN IF e < Len(list) THEN e ELSE Len(list)

(* Mutant: the oldest records come first *)
RowsOldestFirst(p, n) ==
    [i \in 1..(End(p, n) - Start(p, n)) |-> list[Len(list) + 1 - Start(p, n) - i]]

Rows(p, n) == SubSeq(list, Start(p, n) + 1, End(p, n))

(* Mutant: the last page links to itself *)
HasNextOnLast(p, n) == p <= TotalPages(n)

HasNext(p, n) == p < TotalPages(n)

(* One request and its page; a client without a next link is done. *)
Show(p, n) ==
    /\ seen' = seen \o Rows(p, n)
    /\ perPage' = n
    /\ IF HasNext(p, n)
       THEN walk' = "walking" /\ page' = p + 1
       ELSE walk' = "done" /\ page' = p
    /\ UNCHANGED <<storeVars, watchVars>>

OpenList ==
    /\ walk = "start"
    /\ \E p \in PageQueries, q \in PerPageQueries :
         LET n == ClampPerPage(q)
         IN  first' = ClampPage(p, n) /\ Show(first', n)

FollowNext ==
    /\ walk = "walking"
    /\ Show(ClampPage(page, perPage), perPage)
    /\ UNCHANGED first

-----------------------------------------------------------------------------
(***************************************************************************)
(* What others do to the map meanwhile                                     *)
(***************************************************************************)
Change ==
    /\ walk = "walking"
    /\ changes < MaxChanges
    /\ changes' = changes + 1
    /\ UNCHANGED clientVars

Without(j) ==
    LET at == CHOOSE i \in DOMAIN list : list[i] = j
    IN  [i \in 1..(Len(list) - 1) |-> list[IF i < at THEN i ELSE i + 1]]

(* A record is inserted with the updated_at of its creation, so others may  *)
(* have been updated since and come first.                                  *)
InsertRecord(j) ==
    /\ Change
    /\ j \notin Listed \cup {seen[i] : i \in DOMAIN seen} \cup quiet
    /\ \E k \in 0..Len(list) :
         list' = SubSeq(list, 1, k) \o <<j>> \o SubSeq(list, k + 1, Len(list))
    /\ unsent' = unsent \cup {j}
    /\ UNCHANGED <<quiet, rollbacks>>

QueueRecord(j) ==
    /\ Change
    /\ j \in unsent
    /\ unsent' = unsent \ {j}
    /\ UNCHANGED <<list, quiet, rollbacks>>

RollbackRecord(j) ==
    /\ Change
    /\ j \in unsent \cap Listed
    /\ list' = Without(j)
    /\ unsent' = unsent \ {j}
    /\ rollbacks' = rollbacks + 1
    /\ UNCHANGED quiet

(* mark_running and finish_job set updated_at to now under the lock. *)
UpdateRecord(j) ==
    /\ Change
    /\ j \in Listed \ unsent
    /\ list' = <<j>> \o Without(j)
    /\ quiet' = quiet \ {j}
    /\ UNCHANGED <<unsent, rollbacks>>

(* retain_recent_jobs keeps the head of the list. *)
RetainRecentJobs ==
    /\ Change
    /\ Len(list) > JobRetentionLimit
    /\ list' = SubSeq(list, 1, JobRetentionLimit)
    /\ quiet' = quiet \cap {list[i] : i \in 1..JobRetentionLimit}
    /\ UNCHANGED <<unsent, rollbacks>>

Store ==
    \/ \E j \in Jobs : InsertRecord(j) \/ QueueRecord(j) \/ RollbackRecord(j) \/ UpdateRecord(j)
    \/ RetainRecentJobs

Client == OpenList \/ FollowNext

Next == Client \/ Store

(* The client goes on following the links; nothing obliges the store. *)
Spec == Init /\ [][Next]_vars /\ WF_vars(Client)

-----------------------------------------------------------------------------

(* records[start..end] is in range for every query, also for a page link    *)
(* that was followed after the list had shrunk, and no page of a list that  *)
(* is not empty is empty.                                                   *)
SliceInRange ==
    \A p \in PageQueries \cup {page}, q \in PerPageQueries \cup {perPage} :
        LET n == ClampPerPage(q)
            c == ClampPage(p, n)
        IN  /\ Start(c, n) <= End(c, n) /\ End(c, n) <= Len(list)
            /\ list # <<>> => Start(c, n) < End(c, n)

RowsSeen == {seen[i] : i \in DOMAIN seen}

(* Without a change meanwhile the pages put together are the list, from the *)
(* first record of the first page to the end.                               *)
PagesPartitionList ==
    changes = 0 /\ first # 0 =>
        LET from == Start(first, perPage)
        IN  /\ seen = SubSeq(list, from + 1, from + Len(seen))
            /\ walk = "done" => from + Len(seen) = Len(list)

(* A client that starts at the first page and follows the links is shown    *)
(* every record that was there all along and not updated meanwhile:         *)
(* insertions, updates and evictions of other records never make it skip    *)
(* one, and each record rolled back at most one.                            *)
QuietRecordsShown ==
    walk = "done" /\ first = 1 =>
        Cardinality(quiet \ RowsSeen) <= rollbacks

(* The pages of the list are slices of it that miss nothing, whether or not *)
(* the list changes under the client.                                       *)
ListPagesCorrect == SliceInRange /\ PagesPartitionList /\ QuietRecordsShown

(* The links lead to an end once the list no longer changes, also from a    *)
(* page that is past the end by then.                                       *)
WalkEnds == (walk = "walking") ~> (walk = "done")
=============================================================================
