-------------------------- MODULE WebhookDelivery --------------------------
(***************************************************************************)
(* What a worker does inside send_webhook, the step that JobPipeline takes *)
(* as one action: the attempt loop of WebhookClient::deliver against a     *)
(* receiver that may refuse, hang, lose its answer, or process a request   *)
(* long after the attempt was given up.  The receiver does what            *)
(* http-api.md asks of it: it ignores an event id it has processed.        *)
(* Several workers deliver at the same time, one job each.                 *)
(***************************************************************************)
EXTENDS Naturals, FiniteSets

CONSTANTS
    Jobs,            \* finished jobs with a webhook_url
    MaxAttempts,     \* max_attempts, clamped to at least 1
    Backoff,         \* initial_backoff is not zero
    RequestTimeout,  \* config.webhook_timeout_seconds > 0
    AppendMayFail,   \* appending the dead letter may fail
    MaxLate          \* bound on abandoned requests that may still arrive

ASSUME DeliveryAssumption ==
    /\ IsFiniteSet(Jobs)
    /\ MaxAttempts \in Nat \ {0}
    /\ Backoff \in BOOLEAN /\ RequestTimeout \in BOOLEAN /\ AppendMayFail \in BOOLEAN
    /\ MaxLate \in Nat

VARIABLES
    pc,           \* pc[j]: where deliver is for job j
    attempt,      \* attempt[j]: the running attempt, 0 before the first
    shift,        \* the last wait was initial_backoff * 2^shift[j]
    eventIds,     \* number of event ids drawn so far
    event,        \* event[j]: id of the event, 0 before it is made
    sent,         \* sent[j]: HTTP requests made for job j
    late,         \* abandoned requests the receiver may still get
    processed,    \* <<event id, job>> pairs the receiver has processed
    result,       \* WebhookDeliveryResult
    deadLetters,  \* webhooks_dead_letter.jsonl
    failures      \* webhook_failures

vars == <<pc, attempt, shift, eventIds, event, sent, late, processed, result,
          deadLetters, failures>>

Results == {"none", "delivered", "failed", "dead_letter_failed"}

Init ==
    /\ pc = [j \in Jobs |-> "start"]
    /\ attempt = [j \in Jobs |-> 0]
    /\ shift = [j \in Jobs |-> 0]
    /\ eventIds = 0
    /\ event = [j \in Jobs |-> 0]
    /\ sent = [j \in Jobs |-> 0]
    /\ late = {}
    /\ processed = {}
    /\ result = [j \in Jobs |-> "none"]
    /\ deadLetters = {}
    /\ failures = 0

Goto(j, from, to) == pc[j] = from /\ pc' = [pc EXCEPT ![j] = to]

(* Mutant: the shift is not capped, so checked_shl runs out at 32 *)
BackoffShiftUncapped(n) == IF n - 1 < 32 THEN n - 1 ELSE 0

(* backoff_delay after attempt n: checked_shl fails from 32 on *)
BackoffShift(n) ==
    LET capped == IF n - 1 < 16 THEN n - 1 ELSE 16
    IN  IF capped < 32 THEN capped ELSE 0

(* WebhookEvent::from_job, once for all attempts *)
FromJob(j) ==
    /\ Goto(j, "start", "request")
    /\ attempt' = [attempt EXCEPT ![j] = 1]
    /\ eventIds' = eventIds + 1
    /\ event' = [event EXCEPT ![j] = eventIds']
    /\ UNCHANGED <<shift, sent, late, processed, result, deadLetters, failures>>

(* Mutant: every attempt serializes a new event *)
SendNewEvent(j) ==
    /\ Goto(j, "request", "response")
    /\ sent' = [sent EXCEPT ![j] = @ + 1]
    /\ eventIds' = eventIds + 1
    /\ event' = [event EXCEPT ![j] = eventIds']
    /\ UNCHANGED <<attempt, shift, late, processed, result, deadLetters, failures>>

(* The POST of the running attempt leaves *)
Send(j) ==
    /\ Goto(j, "request", "response")
    /\ sent' = [sent EXCEPT ![j] = @ + 1]
    /\ UNCHANGED <<attempt, shift, eventIds, event, late, processed, result,
                   deadLetters, failures>>

(* The receiver processes the event, unless it did so before. *)
Process(id, j) == processed' = processed \cup {<<id, j>>}

(* 2xx *)
Delivered(j) ==
    /\ Goto(j, "response", "returned")
    /\ Process(event[j], j)
    /\ result' = [result EXCEPT ![j] = "delivered"]
    /\ UNCHANGED <<attempt, shift, eventIds, event, sent, late, deadLetters, failures>>

(* The rest of the loop body after an attempt that failed *)
Retry(j) ==
    IF attempt[j] < MaxAttempts
    THEN /\ Goto(j, "response", IF Backoff THEN "backoff" ELSE "request")
         /\ shift' = IF Backoff THEN [shift EXCEPT ![j] = BackoffShift(attempt[j])] ELSE shift
         /\ attempt' = IF Backoff THEN attempt ELSE [attempt EXCEPT ![j] = @ + 1]
    ELSE /\ Goto(j, "response", "dead_letter")
         /\ UNCHANGED <<shift, attempt>>

(* The endpoint is unreachable or answers something else than 2xx, or its   *)
(* answer is lost; it may have processed the event all the same.            *)
AttemptFails(j) ==
    /\ Retry(j)
    /\ Process(event[j], j) \/ UNCHANGED processed
    /\ UNCHANGED <<eventIds, event, sent, late, result, deadLetters, failures>>

(* Mutant: the client is built without the request timeout *)
NeverTimesOut(j) == FALSE /\ UNCHANGED vars

(* No answer within webhook_timeout_seconds: the request is abandoned.      *)
AttemptTimesOut(j) ==
    /\ RequestTimeout
    /\ Retry(j)
    /\ \/ UNCHANGED late
       \/ /\ Cardinality(late) < MaxLate
          /\ late' = late \cup {<<event[j], j, attempt[j]>>}
    /\ UNCHANGED <<eventIds, event, sent, processed, result, deadLetters, failures>>

(* The receiver gets to a request that the client gave up. *)
ProcessLate(id, j, n) ==
    /\ <<id, j, n>> \in late
    /\ late' = late \ {<<id, j, n>>}
    /\ Process(id, j)
    /\ UNCHANGED <<pc, attempt, shift, eventIds, event, sent, result, deadLetters, failures>>

BackoffElapses(j) ==
    /\ Goto(j, "backoff", "request")
    /\ attempt' = [attempt EXCEPT ![j] = @ + 1]
    /\ UNCHANGED <<shift, eventIds, event, sent, late, processed, result, deadLetters,
                   failures>>

(* Mutant: only a dead letter that was written is counted *)
CountIfWritten(j) ==
    /\ Goto(j, "dead_letter", "returned")
    /\ \/ /\ deadLetters' = deadLetters \cup {j}
          /\ failures' = failures + 1
          /\ result' = [result EXCEPT ![j] = "failed"]
       \/ /\ AppendMayFail
          /\ result' = [result EXCEPT ![j] = "dead_letter_failed"]
          /\ UNCHANGED <<deadLetters, failures>>
    /\ UNCHANGED <<attempt, shift, eventIds, event, sent, late, processed>>

(* append_jsonl to the dead letters, then record_webhook_failure *)
GiveUp(j) ==
    /\ Goto(j, "dead_letter", "returned")
    /\ failures' = failures + 1
    /\ \/ /\ deadLetters' = deadLetters \cup {j}
          /\ result' = [result EXCEPT ![j] = "failed"]
       \/ /\ AppendMayFail
          /\ result' = [result EXCEPT ![j] = "dead_letter_failed"]
          /\ UNCHANGED deadLetters
    /\ UNCHANGED <<attempt, shift, eventIds, event, sent, late, processed>>

(* What the task of the worker does by itself; the rest is the receiver's. *)
Client(j) ==
    FromJob(j) \/ Send(j) \/ AttemptTimesOut(j) \/ BackoffElapses(j) \/ GiveUp(j)

Receiver(j) == Delivered(j) \/ AttemptFails(j)

Next ==
    \/ \E j \in Jobs : Client(j) \/ Receiver(j)
    \/ \E entry \in late : ProcessLate(entry[1], entry[2], entry[3])

Spec == Init /\ [][Next]_vars

(* The tokio task and its timers run; nothing obliges a receiver to answer. *)
FairSpec == Spec /\ \A j \in Jobs : WF_vars(Client(j))

-----------------------------------------------------------------------------

(* A receiver that uses x-server-event-id as the idempotency key processes  *)
(* each completed job once, although attempts are repeated after lost       *)
(* answers and abandoned requests arrive late.                              *)
ProcessedOnce == \A p, q \in processed : p[2] = q[2] => p[1] = q[1]

(* metadata-and-cleanup.md: a dead letter is written only after all         *)
(* configured attempts have failed; a delivered event has none.             *)
DeadLetterAfterAllAttempts ==
    \A j \in Jobs :
        /\ j \in deadLetters => sent[j] = MaxAttempts /\ result[j] = "failed"
        /\ result[j] = "delivered" => \E p \in processed : p[2] = j

(* /metrics: every delivery that was given up is counted once, whether or   *)
(* not its dead letter could be written.                                    *)
FailuresCounted ==
    failures = Cardinality({j \in Jobs : result[j] \in {"failed", "dead_letter_failed"}})

(* A delivery is given up for cause, and each time it is told.              *)
FailuresAccounted == DeadLetterAfterAllAttempts /\ FailuresCounted

(* The waits of a delivery never get shorter, however many attempts are     *)
(* configured (backoff_delay: the shift is capped before the width of u32). *)
BackoffNeverShrinks == [][\A j \in Jobs : shift'[j] >= shift[j]]_vars

(* With a request timeout a delivery always returns, so a receiver that     *)
(* hangs does not keep the worker for ever; the event was processed by the  *)
(* receiver, is a dead letter, or the dead letter failed.                   *)
DeliveryEnds ==
    \A j \in Jobs :
        pc[j] = "start" ~> /\ pc[j] = "returned"
                           /\ \/ \E p \in processed : p[2] = j
                              \/ j \in deadLetters
                              \/ result[j] = "dead_letter_failed"
=============================================================================
