----------------------- MODULE WebhookDelivery_proofs -----------------------
(***************************************************************************)
(* Proofs about WebhookDelivery, for any finite number of jobs delivered   *)
(* at the same time, any number of attempts, with and without backoff and  *)
(* timeout, and every order in which the receiver gets to requests.        *)
(***************************************************************************)
EXTENDS WebhookDelivery, TLAPS, FiniteSetTheorems

Places == {"start", "request", "response", "backoff", "dead_letter", "returned"}

Failed == {"failed", "dead_letter_failed"}

DeliveryTypes ==
    /\ pc \in [Jobs -> Places]
    /\ attempt \in [Jobs -> 0..MaxAttempts]
    /\ shift \in [Jobs -> Nat]
    /\ eventIds \in Nat
    /\ event \in [Jobs -> Nat]
    /\ sent \in [Jobs -> Nat]
    /\ result \in [Jobs -> Results]
    /\ deadLetters \subseteq Jobs
    /\ failures \in Nat

(* Whatever the receiver has or will get about j carries the one id that j  *)
(* was given before its first attempt.                                      *)
OneEvent ==
    /\ \A p \in processed : p[2] \in Jobs /\ pc[p[2]] # "start" /\ p[1] = event[p[2]]
    /\ \A l \in late : l[2] \in Jobs /\ pc[l[2]] # "start" /\ l[1] = event[l[2]]

(* Requests sent and attempts counted go together. *)
Counted(j) ==
    /\ pc[j] = "start" => attempt[j] = 0 /\ sent[j] = 0 /\ shift[j] = 0
    /\ pc[j] # "start" => attempt[j] > 0 /\ shift[j] <= BackoffShift(attempt[j])
    /\ pc[j] = "request" => sent[j] = attempt[j] - 1
    /\ pc[j] \in {"response", "backoff", "dead_letter"} => sent[j] = attempt[j]
    /\ pc[j] = "backoff" => attempt[j] < MaxAttempts
    /\ pc[j] = "dead_letter" => attempt[j] = MaxAttempts

(* How the delivery of j ended *)
Ended(j) ==
    /\ pc[j] # "returned" <=> result[j] = "none"
    /\ result[j] \in Failed => sent[j] = MaxAttempts
    /\ j \in deadLetters => result[j] = "failed"
    /\ result[j] = "delivered" => \E p \in processed : p[2] = j

DeliveryInv ==
    /\ DeliveryTypes
    /\ OneEvent
    /\ \A j \in Jobs : Counted(j)
    /\ \A j \in Jobs : Ended(j)
    /\ FailuresCounted

-----------------------------------------------------------------------------
(* The exponent of the waits *)
LEMMA ShiftGrows ==
    ASSUME NEW m \in Nat \ {0}, NEW n \in Nat, m <= n
    PROVE  BackoffShift(m) \in Nat /\ BackoffShift(m) <= BackoffShift(n)
  BY DEF BackoffShift

LEMMA InitDelivery == Init => DeliveryInv
<1> SUFFICES ASSUME Init PROVE DeliveryInv
  OBVIOUS
<1>1. DeliveryTypes /\ OneEvent
  BY DeliveryAssumption DEF Init, DeliveryTypes, OneEvent, Places, Results
<1>2. \A j \in Jobs : Counted(j) /\ Ended(j)
  BY DEF Init, Counted, Ended, Failed
<1>3. {j \in Jobs : result[j] \in {"failed", "dead_letter_failed"}} = {}
  BY DEF Init
<1>4. FailuresCounted
  BY <1>3, FS_EmptySet DEF Init, FailuresCounted
<1> QED
  BY <1>1, <1>2, <1>4 DEF DeliveryInv

(* One job gives up: exactly it joins those that were given up. *)
LEMMA OneMoreFailure ==
    ASSUME NEW j \in Jobs, DeliveryTypes, FailuresCounted,
           result[j] \notin Failed, NEW r \in Failed,
           result' = [result EXCEPT ![j] = r], failures' = failures + 1
    PROVE  FailuresCounted'
<1> DEFINE Told == {i \in Jobs : result[i] \in {"failed", "dead_letter_failed"}}
<1>1. IsFiniteSet(Told)
  BY FS_Subset, DeliveryAssumption
<1>2. Told' = Told \cup {j} /\ j \notin Told
  BY DEF DeliveryTypes, Failed
<1>3. Cardinality(Told \cup {j}) = Cardinality(Told) + 1
  BY <1>1, <1>2, FS_AddElement
<1> QED
  BY <1>2, <1>3 DEF FailuresCounted

LEMMA SameFailures ==
    ASSUME NEW j \in Jobs, DeliveryTypes, FailuresCounted,
           result[j] \notin Failed, NEW r \in {"none", "delivered"},
           result' = [result EXCEPT ![j] = r], failures' = failures
    PROVE  FailuresCounted'
<1>1. {i \in Jobs : result[i] \in {"failed", "dead_letter_failed"}}
        = {i \in Jobs : result'[i] \in {"failed", "dead_letter_failed"}}
  BY DEF DeliveryTypes, Failed
<1> QED
  BY <1>1 DEF FailuresCounted

(* What the client does next changes one job, and its event only once. *)
LEMMA ClientStep ==
    ASSUME NEW j \in Jobs, DeliveryInv, FromJob(j) \/ Send(j) \/ BackoffElapses(j)
    PROVE  DeliveryInv'
<1> USE DeliveryAssumption
<1>1. DeliveryTypes'
  BY DEF DeliveryInv, DeliveryTypes, Counted, FromJob, Send, BackoffElapses, Goto, Places
<1>2. \A i \in Jobs : pc[i] # "start" => pc'[i] # "start" /\ event'[i] = event[i]
  BY DEF DeliveryInv, DeliveryTypes, FromJob, Send, BackoffElapses, Goto
<1>3. OneEvent'
  BY <1>2 DEF DeliveryInv, OneEvent, FromJob, Send, BackoffElapses
<1>4. \A i \in Jobs \ {j} : Counted(i)'
  BY DEF DeliveryInv, DeliveryTypes, Counted, FromJob, Send, BackoffElapses, Goto
<1>5. Counted(j)'
  <2>1. CASE FromJob(j)
    BY <2>1 DEF DeliveryInv, DeliveryTypes, Counted, FromJob, Goto, BackoffShift
  <2>2. CASE Send(j)
    BY <2>2 DEF DeliveryInv, DeliveryTypes, Counted, Send, Goto
  <2>3. CASE BackoffElapses(j)
    <3>1. attempt[j] \in Nat \ {0} /\ shift[j] <= BackoffShift(attempt[j])
      BY <2>3 DEF DeliveryInv, DeliveryTypes, Counted, BackoffElapses, Goto
    <3>2. BackoffShift(attempt[j]) <= BackoffShift(attempt[j] + 1)
      BY <3>1, ShiftGrows
    <3>3. shift[j] <= BackoffShift(attempt[j] + 1)
      BY <3>1, <3>2 DEF DeliveryInv, DeliveryTypes, BackoffShift
    <3> QED
      BY <2>3, <3>1, <3>3 DEF DeliveryInv, DeliveryTypes, Counted, BackoffElapses, Goto
  <2> QED
    BY <2>1, <2>2, <2>3
<1>6. \A i \in Jobs : Ended(i)'
  BY DEF DeliveryInv, DeliveryTypes, Ended, Failed, FromJob, Send, BackoffElapses, Goto, Places
<1>7. FailuresCounted'
  BY DEF DeliveryInv, FailuresCounted, FromJob, Send, BackoffElapses
<1> QED
  BY <1>1, <1>3, <1>4, <1>5, <1>6, <1>7 DEF DeliveryInv

(* An attempt that failed leads to the next one or to the dead letter. *)
LEMMA AttemptStep ==
    ASSUME NEW j \in Jobs, DeliveryInv, AttemptFails(j) \/ AttemptTimesOut(j)
    PROVE  DeliveryInv' /\ shift'[j] >= shift[j]
<1> USE DeliveryAssumption
<1>1. Retry(j) /\ UNCHANGED <<eventIds, event, sent, result, deadLetters, failures>>
  BY DEF AttemptFails, AttemptTimesOut
<1>2. pc[j] = "response" /\ attempt[j] \in Nat \ {0} /\ attempt[j] <= MaxAttempts
  BY <1>1 DEF DeliveryInv, DeliveryTypes, Counted, Retry, Goto
<1>3. BackoffShift(attempt[j]) \in Nat
  BY <1>2, ShiftGrows
<1>4. DeliveryTypes'
  BY <1>1, <1>2, <1>3 DEF DeliveryInv, DeliveryTypes, Retry, Goto, Places
<1>5. \A i \in Jobs : pc[i] # "start" => pc'[i] # "start" /\ event'[i] = event[i]
  BY <1>1 DEF DeliveryInv, DeliveryTypes, Retry, Goto
<1>6. /\ processed' \subseteq processed \cup {<<event[j], j>>}
      /\ processed \subseteq processed'
      /\ late' \subseteq late \cup {<<event[j], j, attempt[j]>>}
  BY DEF AttemptFails, AttemptTimesOut, Process
<1>7. OneEvent'
  BY <1>2, <1>5, <1>6 DEF DeliveryInv, OneEvent
<1>8. \A i \in Jobs \ {j} : Counted(i)'
  BY <1>1 DEF DeliveryInv, DeliveryTypes, Counted, Retry, Goto
<1>9. Counted(j)' /\ shift'[j] >= shift[j]
  <2>1. shift[j] \in Nat /\ shift[j] <= BackoffShift(attempt[j]) /\ sent[j] = attempt[j]
    BY <1>2 DEF DeliveryInv, DeliveryTypes, Counted
  <2>2. CASE attempt[j] < MaxAttempts /\ Backoff
    <3>1. pc'[j] = "backoff" /\ attempt' = attempt /\ shift'[j] = BackoffShift(attempt[j])
      BY <1>1, <2>2 DEF DeliveryInv, DeliveryTypes, Retry, Goto
    <3> QED
      BY <1>1, <1>2, <1>3, <2>1, <2>2, <3>1 DEF Counted
  <2>3. CASE attempt[j] < MaxAttempts /\ ~Backoff
    <3>1. pc'[j] = "request" /\ attempt'[j] = attempt[j] + 1 /\ shift' = shift
      BY <1>1, <2>3 DEF DeliveryInv, DeliveryTypes, Retry, Goto
    <3>2. BackoffShift(attempt[j]) <= BackoffShift(attempt[j] + 1)
          /\ BackoffShift(attempt[j] + 1) \in Nat
      BY <1>2, ShiftGrows
    <3> QED
      BY <1>1, <1>2, <1>3, <2>1, <2>3, <3>1, <3>2 DEF Counted
  <2>4. CASE ~(attempt[j] < MaxAttempts)
    <3>1. pc'[j] = "dead_letter" /\ attempt' = attempt /\ shift' = shift
      BY <1>1, <2>4 DEF DeliveryInv, DeliveryTypes, Retry, Goto
    <3> QED
      BY <1>1, <1>2, <2>1, <2>4, <3>1 DEF Counted
  <2> QED
    BY <2>2, <2>3, <2>4
<1>10. \A i \in Jobs : pc'[i] # "returned" <=> pc[i] # "returned"
  BY <1>1, <1>2 DEF DeliveryInv, DeliveryTypes, Retry, Goto
<1>11. \A i \in Jobs : Ended(i)'
  BY <1>1, <1>6, <1>10 DEF DeliveryInv, Ended
<1>12. FailuresCounted'
  BY <1>1 DEF DeliveryInv, FailuresCounted
<1> QED
  BY <1>4, <1>7, <1>8, <1>9, <1>11, <1>12 DEF DeliveryInv

LEMMA DeliveredStep ==
    ASSUME NEW j \in Jobs, DeliveryInv, Delivered(j)
    PROVE  DeliveryInv'
<1>1. pc[j] = "response" /\ pc' = [pc EXCEPT ![j] = "returned"] /\ result[j] = "none"
  BY DEF DeliveryInv, Ended, Delivered, Goto
<1>2. DeliveryTypes'
  BY <1>1 DEF DeliveryInv, DeliveryTypes, Delivered, Places, Results
<1>3. \A i \in Jobs : pc[i] # "start" => pc'[i] # "start"
  BY <1>1 DEF DeliveryInv, DeliveryTypes
<1>4. OneEvent'
  BY <1>1, <1>3 DEF DeliveryInv, OneEvent, Delivered, Process
<1>5. \A i \in Jobs : Counted(i)'
  BY <1>1 DEF DeliveryInv, DeliveryTypes, Counted, Delivered
<1>6. <<event[j], j>> \in processed' /\ processed \subseteq processed'
  BY DEF Delivered, Process
<1>7. \A i \in Jobs \ {j} : Ended(i)'
  BY <1>1, <1>6 DEF DeliveryInv, DeliveryTypes, Ended, Delivered
<1>8. Ended(j)'
  BY <1>1, <1>6 DEF DeliveryInv, DeliveryTypes, Ended, Delivered, Failed
<1>9. FailuresCounted'
  BY <1>1, SameFailures DEF DeliveryInv, Delivered, Failed
<1> QED
  BY <1>2, <1>4, <1>5, <1>7, <1>8, <1>9 DEF DeliveryInv

LEMMA GiveUpStep ==
    ASSUME NEW j \in Jobs, DeliveryInv, GiveUp(j)
    PROVE  DeliveryInv'
<1>1. pc[j] = "dead_letter" /\ pc' = [pc EXCEPT ![j] = "returned"] /\ result[j] = "none"
  BY DEF DeliveryInv, Ended, GiveUp, Goto
<1>2. PICK r \in Failed : /\ result' = [result EXCEPT ![j] = r]
                          /\ IF r = "failed" THEN deadLetters' = deadLetters \cup {j}
                                             ELSE deadLetters' = deadLetters
  BY DEF GiveUp, Failed
<1>3. DeliveryTypes'
  BY <1>1, <1>2 DEF DeliveryInv, DeliveryTypes, GiveUp, Places, Results, Failed
<1>4. \A i \in Jobs : pc[i] # "start" => pc'[i] # "start"
  BY <1>1 DEF DeliveryInv, DeliveryTypes
<1>5. OneEvent'
  BY <1>4 DEF DeliveryInv, OneEvent, GiveUp
<1>6. \A i \in Jobs : Counted(i)'
  BY <1>1 DEF DeliveryInv, DeliveryTypes, Counted, GiveUp
<1>7. \A i \in Jobs \ {j} : Ended(i)'
  BY <1>1, <1>2 DEF DeliveryInv, DeliveryTypes, Ended, GiveUp
<1>8. sent'[j] = MaxAttempts /\ pc'[j] = "returned" /\ result'[j] = r
  BY <1>1, <1>2 DEF DeliveryInv, DeliveryTypes, Counted, GiveUp
<1>9. j \in deadLetters' => r = "failed"
  BY <1>1, <1>2 DEF DeliveryInv, Ended
<1>10. Ended(j)'
  BY <1>8, <1>9 DEF Ended, Failed
<1>11. failures' = failures + 1
  BY DEF GiveUp
<1>12. FailuresCounted'
  BY <1>1, <1>2, <1>11, OneMoreFailure DEF DeliveryInv, Failed
<1> QED
  BY <1>3, <1>5, <1>6, <1>7, <1>10, <1>12 DEF DeliveryInv

LEMMA LateStep ==
    ASSUME DeliveryInv, NEW l \in late, ProcessLate(l[1], l[2], l[3])
    PROVE  DeliveryInv'
<1>1. UNCHANGED <<pc, attempt, shift, eventIds, event, sent, result, deadLetters, failures>>
  BY DEF ProcessLate
<1>2. l[2] \in Jobs /\ pc[l[2]] # "start" /\ l[1] = event[l[2]]
  BY DEF DeliveryInv, OneEvent
<1>3. processed' = processed \cup {<<l[1], l[2]>>} /\ late' \subseteq late
  BY DEF ProcessLate, Process
<1>4. OneEvent'
  BY <1>1, <1>2, <1>3 DEF DeliveryInv, OneEvent
<1>5. \A j \in Jobs : Ended(j)'
  BY <1>1, <1>3 DEF DeliveryInv, Ended
<1>6. DeliveryTypes' /\ FailuresCounted' /\ \A j \in Jobs : Counted(j)'
  BY <1>1 DEF DeliveryInv, DeliveryTypes, FailuresCounted, Counted
<1> QED
  BY <1>4, <1>5, <1>6 DEF DeliveryInv

LEMMA DeliveryStep == DeliveryInv /\ [Next]_vars => DeliveryInv'
<1> SUFFICES ASSUME DeliveryInv, [Next]_vars PROVE DeliveryInv'
  OBVIOUS
<1>1. ASSUME NEW j \in Jobs, Client(j) \/ Receiver(j) PROVE DeliveryInv'
  BY <1>1, ClientStep, AttemptStep, DeliveredStep, GiveUpStep DEF Client, Receiver
<1>2. ASSUME NEW l \in late, ProcessLate(l[1], l[2], l[3]) PROVE DeliveryInv'
  BY <1>2, LateStep
<1>3. CASE UNCHANGED vars
  BY <1>3 DEF vars, DeliveryInv, DeliveryTypes, OneEvent, Counted, Ended, FailuresCounted
<1> QED
  BY <1>1, <1>2, <1>3 DEF Next

LEMMA AlwaysDeliveryInv == Spec => []DeliveryInv
  BY InitDelivery, DeliveryStep, PTL DEF Spec

-----------------------------------------------------------------------------
(* A receiver that honours x-server-event-id acts once for each job, however *)
(* attempts, lost answers and abandoned requests interleave.                *)
THEOREM OneEventPerJob == Spec => []ProcessedOnce
<1>1. DeliveryInv => ProcessedOnce
  BY DEF DeliveryInv, OneEvent, ProcessedOnce
<1> QED
  BY <1>1, AlwaysDeliveryInv, PTL

(* A dead letter is written after all attempts, and every delivery that was *)
(* given up is counted once.                                                *)
THEOREM FailuresAreAccounted == Spec => []FailuresAccounted
<1>1. DeliveryInv => FailuresAccounted
  BY DEF DeliveryInv, Ended, Failed, FailuresAccounted, DeadLetterAfterAllAttempts
<1> QED
  BY <1>1, AlwaysDeliveryInv, PTL

(* No wait is shorter than the one before, for any number of attempts and   *)
(* past the width of the shift (backoff_delay).                             *)
THEOREM BackoffGrows == Spec => BackoffNeverShrinks
<1>1. DeliveryInv /\ [Next]_vars => [\A j \in Jobs : shift'[j] >= shift[j]]_vars
  <2> SUFFICES ASSUME DeliveryInv, Next, NEW i \in Jobs PROVE shift'[i] >= shift[i]
    OBVIOUS
  <2>1. shift[i] \in Nat
    BY DEF DeliveryInv, DeliveryTypes
  <2>2. ASSUME NEW j \in Jobs, AttemptFails(j) \/ AttemptTimesOut(j)
        PROVE  shift'[i] >= shift[i]
    <3>1. i # j => shift'[i] = shift[i]
      BY <2>2 DEF DeliveryInv, DeliveryTypes, AttemptFails, AttemptTimesOut, Retry
    <3> QED
      BY <2>1, <2>2, <3>1, AttemptStep
  <2>3. ASSUME NEW j \in Jobs,
               FromJob(j) \/ Send(j) \/ BackoffElapses(j) \/ GiveUp(j) \/ Delivered(j)
        PROVE  shift' = shift
    BY <2>3 DEF FromJob, Send, BackoffElapses, GiveUp, Delivered
  <2>4. ASSUME NEW l \in late, ProcessLate(l[1], l[2], l[3]) PROVE shift' = shift
    BY <2>4 DEF ProcessLate
  <2> QED
    BY <2>1, <2>2, <2>3, <2>4 DEF Next, Client, Receiver
<1> QED
  BY <1>1, AlwaysDeliveryInv, PTL DEF Spec, BackoffNeverShrinks
=============================================================================
