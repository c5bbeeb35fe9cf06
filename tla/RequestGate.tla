---------------------------- MODULE RequestGate ----------------------------
(***************************************************************************)
(* The middleware that a request passes before a handler and on its way    *)
(* back: track_request_metrics around TimeoutLayer around require_api_key  *)
(* around rate_limit.  Between the arrival of a request and its handler    *)
(* there is no await, so admission is one step; the handler may take any   *)
(* time, be cut off by the timeout, or be dropped with its connection.     *)
(*                                                                         *)
(* Time is a clock of ticks, TicksPerSecond of them in a second, so that   *)
(* the fraction of a second that Duration::as_secs drops is there.         *)
(***************************************************************************)
EXTENDS Naturals, FiniteSets

CONSTANTS
    Calls,           \* requests that clients make
    Probes,          \* those for /health or /ready
    Unauthorized,    \* those without a valid key, when api_keys is set
    HandlerStatuses, \* what extractors and handlers answer: 200, the 4xx and
                     \* 5xx of ApiError, 413 of DefaultBodyLimit, ...
    Limit,           \* rate_limit_requests_per_minute, 0 disables
    WindowSeconds,   \* 60 in RateLimiter::check
    TicksPerSecond,
    MaxTime          \* bound on the clock

ASSUME GateAssumption ==
    /\ IsFiniteSet(Calls)
    /\ Probes \subseteq Calls /\ Unauthorized \subseteq Calls
    /\ HandlerStatuses \subseteq (100..599) \ {401, 408, 429}
    /\ Limit \in Nat
    /\ WindowSeconds \in Nat \ {0} /\ TicksPerSecond \in Nat \ {0}
    /\ MaxTime \in Nat

VARIABLES
    now,         \* Instant::now()
    startedAt,   \* RateLimitWindow.started_at
    count,       \* RateLimitWindow.count
    call,        \* call[c]: where request c is
    status,      \* status[c]: the status of its response, 0 before
    checked,     \* checked[c]: when the limiter decided on c
    retryAfter,  \* Retry-After of a 429
    total,       \* http_requests_total
    bad          \* http_requests_failed

vars == <<now, startedAt, count, call, status, checked, retryAfter, total, bad>>

Window == WindowSeconds * TicksPerSecond

ProbeStatuses == {200, 503}
StatusesOf(c) == IF c \in Probes THEN ProbeStatuses ELSE HandlerStatuses

(* Mutant: only a client error is a failure *)
IsClientError(code) == code \in 400..499

(* is_client_error() || is_server_error() *)
IsError(code) == code \in 400..499 \/ code \in 500..599

Init ==
    /\ now = 0
    /\ startedAt = 0
    /\ count = 0
    /\ call = [c \in Calls |-> "new"]
    /\ status = [c \in Calls |-> 0]
    /\ checked = [c \in Calls |-> 0]
    /\ retryAfter = [c \in Calls |-> 0]
    /\ total = 0
    /\ bad = 0

(* The response leaves through track_request_metrics: record_http_request *)
Answer(c, code) ==
    /\ call' = [call EXCEPT ![c] = "answered"]
    /\ status' = [status EXCEPT ![c] = code]
    /\ total' = total + 1
    /\ bad' = bad + IF IsError(code) THEN 1 ELSE 0

(* Mutant: the sub-second rest of a window asks for an immediate retry *)
RetryAfterZero(start) == (Window - (now - start)) \div TicksPerSecond

(* checked_sub, as_secs (which rounds down), max(1) *)
RetryAfter(start) ==
    LET seconds == (Window - (now - start)) \div TicksPerSecond
    IN  IF seconds = 0 THEN 1 ELSE seconds

(* started_at once the window that has elapsed is replaced *)
CurrentWindow == IF now - startedAt >= Window THEN now ELSE startedAt

CountInWindow == IF now - startedAt >= Window THEN 0 ELSE count

(* Mutant: the limiter runs before the key is checked *)
UnauthorizedAfterLimit(c) ==
    /\ c \in Unauthorized \ Probes
    /\ call[c] = "new"
    /\ Answer(c, 401)
    /\ startedAt' = CurrentWindow
    /\ count' = CountInWindow + 1
    /\ UNCHANGED <<now, checked, retryAfter>>

(* require_api_key is outside rate_limit: a 401 is not charged. *)
RefuseKey(c) ==
    /\ c \in Unauthorized \ Probes
    /\ call[c] = "new"
    /\ Answer(c, 401)
    /\ UNCHANGED <<now, startedAt, count, checked, retryAfter>>

(* Requests the limiter does not decide on *)
Exempt(c) == c \in Probes \/ Limit = 0

Pass(c) ==
    /\ Exempt(c) /\ (c \in Probes \/ c \notin Unauthorized)
    /\ call[c] = "new"
    /\ call' = [call EXCEPT ![c] = "handling"]
    /\ UNCHANGED <<now, startedAt, count, status, checked, retryAfter, total, bad>>

(* RateLimiter::check, Allowed *)
Admit(c) ==
    /\ ~Exempt(c) /\ c \notin Unauthorized
    /\ call[c] = "new"
    /\ CountInWindow < Limit
    /\ startedAt' = CurrentWindow
    /\ count' = CountInWindow + 1
    /\ call' = [call EXCEPT ![c] = "handling"]
    /\ checked' = [checked EXCEPT ![c] = now]
    /\ UNCHANGED <<now, status, retryAfter, total, bad>>

(* RateLimiter::check, Limited *)
Reject(c) ==
    /\ ~Exempt(c) /\ c \notin Unauthorized
    /\ call[c] = "new"
    /\ CountInWindow >= Limit
    /\ startedAt' = CurrentWindow
    /\ count' = CountInWindow
    /\ checked' = [checked EXCEPT ![c] = now]
    /\ retryAfter' = [retryAfter EXCEPT ![c] = RetryAfter(CurrentWindow)]
    /\ Answer(c, 429)
    /\ UNCHANGED now

(* The handler answers, with whatever status: an IntoResponse or an ApiError *)
Respond(c) ==
    /\ call[c] = "handling"
    /\ \E code \in StatusesOf(c) : Answer(c, code)
    /\ UNCHANGED <<now, startedAt, count, checked, retryAfter>>

(* TimeoutLayer answers in its place. *)
TimeOut(c) ==
    /\ call[c] = "handling"
    /\ Answer(c, 408)
    /\ UNCHANGED <<now, startedAt, count, checked, retryAfter>>

(* The client goes away: the whole stack is dropped before it records. *)
Disconnect(c) ==
    /\ call[c] = "handling"
    /\ call' = [call EXCEPT ![c] = "dropped"]
    /\ UNCHANGED <<now, startedAt, count, status, checked, retryAfter, total, bad>>

Tick ==
    /\ now < MaxTime
    /\ now' = now + 1
    /\ UNCHANGED <<startedAt, count, call, status, checked, retryAfter, total, bad>>

Next ==
    \/ Tick
    \/ \E c \in Calls :
         \/ RefuseKey(c) \/ Pass(c) \/ Admit(c) \/ Reject(c)
         \/ Respond(c) \/ TimeOut(c) \/ Disconnect(c)

Spec == Init /\ [][Next]_vars

-----------------------------------------------------------------------------

(* Requests the limiter let through *)
Admitted == {c \in Calls \ Unauthorized : ~Exempt(c) /\ call[c] # "new" /\ status[c] # 429}

(* Fixed windows: however requests fall around a boundary, no minute sees   *)
(* more than twice the limit (RateLimiter::check).                          *)
BurstBound ==
    Limit # 0 => \A c \in Admitted :
        Cardinality({d \in Admitted : checked[d] \in checked[c]..(checked[c] + Window - 1)})
            <= 2 * Limit

(* A request is refused only when the limit was used up by admitted         *)
(* requests less than a window ago; refused keys, refused requests and      *)
(* probes use up nothing (order of the layers in router).                   *)
RefusedOnlyWhenUsedUp ==
    \A c \in Calls : status[c] = 429 =>
        Cardinality({d \in Admitted : /\ checked[d] <= checked[c]
                                      /\ checked[d] + Window > checked[c]}) >= Limit

(* The limit is neither exceeded nor applied without need.                  *)
RateLimitHolds == BurstBound /\ RefusedOnlyWhenUsedUp

(* A client that waits Retry-After seconds is within a second of the end of *)
(* the window that refused it, and is never told to retry at once.          *)
RetryAfterHonest ==
    [][\A c \in Calls : status[c] # 429 /\ status'[c] = 429 =>
         /\ retryAfter'[c] >= 1
         /\ now + (retryAfter'[c] + 1) * TicksPerSecond > startedAt' + Window]_vars

(* /metrics counts every answered request once, and as failed exactly those *)
(* answered with 400 to 599, whether a layer, the timeout or the handler    *)
(* gave the status; a dropped connection is not counted                     *)
(* (track_request_metrics).                                                 *)
RequestsCounted ==
    /\ total = Cardinality({c \in Calls : call[c] = "answered"})
    /\ bad = Cardinality({c \in Calls : call[c] = "answered" /\ status[c] \in 400..599})
=============================================================================
