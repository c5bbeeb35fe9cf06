------------------------- MODULE RequestGate_proofs -------------------------
(***************************************************************************)
(* Proofs about RequestGate, for any finite number of requests, any limit, *)
(* length of the window and resolution of the clock.                       *)
(*                                                                         *)
(* The limiter keeps one number.  The invariant says which requests it     *)
(* stands for (ThisWindow), and that the window before it can add at most  *)
(* the limit to any stretch of time that reaches into this one.            *)
(***************************************************************************)
EXTENDS RequestGate, TLAPS, FiniteSetTheorems

Places == {"new", "handling", "answered", "dropped"}

GateTypes ==
    /\ now \in Nat
    /\ startedAt \in Nat
    /\ count \in Nat
    /\ call \in [Calls -> Places]
    /\ status \in [Calls -> Nat]
    /\ \A c \in Calls : call[c] # "answered" => status[c] = 0
    /\ checked \in [Calls -> Nat]
    /\ retryAfter \in [Calls -> Nat]
    /\ total \in Nat
    /\ bad \in Nat

(* Admitted since the window started, and in the window's length before it *)
ThisWindow == {d \in Admitted : checked[d] >= startedAt}
WindowBefore == {d \in Admitted : checked[d] < startedAt /\ checked[d] + Window > startedAt}

(* What the limiter decided, it decided before now and before the window ends. *)
WindowShaped ==
    /\ startedAt <= now
    /\ \A c \in Calls : checked[c] <= now
    /\ \A d \in Admitted : checked[d] < startedAt + Window

LimiterInv ==
    /\ WindowShaped
    /\ count = Cardinality(ThisWindow)
    /\ count <= Limit
    /\ Cardinality(WindowBefore) <= Limit
    /\ BurstBound
    /\ RefusedOnlyWhenUsedUp

-----------------------------------------------------------------------------
LEMMA WindowType == Window \in Nat \ {0}
  BY GateAssumption DEF Window

LEMMA FiniteCalls == \A S : S \subseteq Calls => IsFiniteSet(S) /\ Cardinality(S) \in Nat
  BY GateAssumption, FS_Subset, FS_CardinalityType

(* Whoever answers, the status is a number, and not one of the layers'. *)
LEMMA StatusRange == \A c \in Calls : \A code \in StatusesOf(c) : code \in Nat \ {401, 408, 429}
  BY GateAssumption DEF StatusesOf, ProbeStatuses

LEMMA AnswerTyped ==
    ASSUME GateTypes, NEW c \in Calls, NEW code \in Nat, Answer(c, code)
    PROVE  /\ call' \in [Calls -> Places] /\ status' \in [Calls -> Nat]
           /\ \A d \in Calls : call'[d] # "answered" => status'[d] = 0
           /\ total' \in Nat /\ bad' \in Nat
  BY DEF GateTypes, Places, Answer

LEMMA GateTypesStep == GateTypes /\ [Next]_vars => GateTypes'
<1> SUFFICES ASSUME GateTypes, [Next]_vars PROVE GateTypes'
  OBVIOUS
<1> USE DEF GateTypes, Places
<1>1. CASE Tick
  BY <1>1 DEF Tick
<1>2. ASSUME NEW c \in Calls, RefuseKey(c) PROVE GateTypes'
  BY <1>2, AnswerTyped DEF RefuseKey
<1>3. ASSUME NEW c \in Calls, Pass(c) PROVE GateTypes'
  BY <1>3 DEF Pass
<1>4. ASSUME NEW c \in Calls, Admit(c) PROVE GateTypes'
  BY <1>4 DEF Admit, CurrentWindow, CountInWindow
<1>5. ASSUME NEW c \in Calls, Reject(c) PROVE GateTypes'
  <2>1. CurrentWindow \in Nat
    BY DEF CurrentWindow
  <2>2. CountInWindow \in Nat
    BY DEF CountInWindow
  <2>3. now - CurrentWindow < Window
    BY WindowType DEF CurrentWindow
  <2>4. Window - (now - CurrentWindow) \in Nat /\ TicksPerSecond \in Nat \ {0}
    BY <2>1, <2>3, WindowType, GateAssumption
  <2>5. RetryAfter(CurrentWindow) \in Nat
    BY <2>4 DEF RetryAfter
  <2> QED
    BY <1>5, <2>1, <2>2, <2>5, AnswerTyped DEF Reject
<1>6. ASSUME NEW c \in Calls, Respond(c) PROVE GateTypes'
  <2>1. PICK code \in StatusesOf(c) : Answer(c, code)
    BY <1>6 DEF Respond
  <2>2. code \in Nat
    BY <2>1, StatusRange
  <2>3. /\ call' \in [Calls -> Places] /\ status' \in [Calls -> Nat]
        /\ \A d \in Calls : call'[d] # "answered" => status'[d] = 0
        /\ total' \in Nat /\ bad' \in Nat
    BY <2>1, <2>2, AnswerTyped
  <2>4. UNCHANGED <<now, startedAt, count, checked, retryAfter>>
    BY <1>6 DEF Respond
  <2> QED
    BY <2>3, <2>4
<1>9. ASSUME NEW c \in Calls, TimeOut(c) PROVE GateTypes'
  BY <1>9, AnswerTyped DEF TimeOut
<1>7. ASSUME NEW c \in Calls, Disconnect(c) PROVE GateTypes'
  BY <1>7 DEF Disconnect
<1>8. CASE UNCHANGED vars
  BY <1>8 DEF vars
<1> QED
  BY <1>1, <1>2, <1>3, <1>4, <1>5, <1>6, <1>7, <1>8, <1>9 DEF Next

LEMMA AlwaysGateTypes == Spec => []GateTypes
<1>1. Init => GateTypes
  BY DEF Init, GateTypes, Places
<1> QED
  BY <1>1, GateTypesStep, PTL DEF Spec

-----------------------------------------------------------------------------
(* A request that is answered joins the answered ones, and the failed ones  *)
(* if its status is an error.                                               *)
LEMMA AnswerCounted ==
    ASSUME GateTypes, RequestsCounted, NEW c \in Calls, call[c] # "answered",
           NEW code \in Nat, Answer(c, code)
    PROVE  RequestsCounted'
<1> DEFINE Answered == {d \in Calls : call[d] = "answered"}
           Erroneous == {d \in Calls : call[d] = "answered" /\ status[d] \in 400..599}
<1>1. /\ IsFiniteSet(Answered) /\ Cardinality(Answered) \in Nat
      /\ IsFiniteSet(Erroneous) /\ Cardinality(Erroneous) \in Nat
  BY FiniteCalls
<1>2. Answered' = Answered \cup {c} /\ c \notin Answered /\ c \notin Erroneous
  BY DEF GateTypes, Answer
<1>3. Cardinality(Answered') = Cardinality(Answered) + 1
  BY <1>1, <1>2, FS_AddElement
<1>4. IsError(code) <=> code \in 400..599
  BY DEF IsError
<1>5. CASE ~IsError(code)
  <2>1. Erroneous' = Erroneous
    BY <1>2, <1>4, <1>5 DEF GateTypes, Answer
  <2>2. total' = total + 1 /\ bad' = bad
    BY <1>5 DEF GateTypes, Answer
  <2> QED
    BY <1>3, <2>1, <2>2 DEF RequestsCounted
<1>6. CASE IsError(code)
  <2>1. Erroneous' = Erroneous \cup {c}
    BY <1>4, <1>6 DEF GateTypes, Answer
  <2>2. Cardinality(Erroneous') = Cardinality(Erroneous) + 1
    <3> HIDE DEF Erroneous
    <3>1. Cardinality(Erroneous \cup {c}) = Cardinality(Erroneous) + 1
      BY <1>1, <1>2, FS_AddElement
    <3> QED
      BY <2>1, <3>1
  <2>3. total' = total + 1 /\ bad' = bad + 1
    BY <1>6 DEF Answer
  <2> QED
    BY <1>3, <2>2, <2>3 DEF RequestsCounted
<1> QED
  BY <1>5, <1>6

(* Nobody is answered: the counters and what they stand for stay. *)
LEMMA NoAnswer ==
    ASSUME GateTypes, RequestsCounted, UNCHANGED <<status, total, bad>>,
           \A d \in Calls : call'[d] = "answered" <=> call[d] = "answered"
    PROVE  RequestsCounted'
<1>1. /\ {d \in Calls : call'[d] = "answered"} = {d \in Calls : call[d] = "answered"}
      /\ {d \in Calls : call'[d] = "answered" /\ status'[d] \in 400..599}
           = {d \in Calls : call[d] = "answered" /\ status[d] \in 400..599}
  OBVIOUS
<1> QED
  BY <1>1 DEF RequestsCounted

(* Every answered request is counted once and as failed exactly if its      *)
(* status is a 4xx or a 5xx, whoever gave it and whatever is cut off or     *)
(* dropped (track_request_metrics).                                         *)
THEOREM EveryAnswerCounted == Spec => []RequestsCounted
<1>1. Init => RequestsCounted
  <2>1. Init => /\ {c \in Calls : call[c] = "answered"} = {}
                /\ {c \in Calls : call[c] = "answered" /\ status[c] \in 400..599} = {}
    BY DEF Init
  <2> QED
    BY <2>1, FS_EmptySet DEF Init, RequestsCounted
<1>2. GateTypes /\ RequestsCounted /\ [Next]_vars => RequestsCounted'
  <2> SUFFICES ASSUME GateTypes, RequestsCounted, [Next]_vars PROVE RequestsCounted'
    OBVIOUS
  <2>1. ASSUME NEW c \in Calls, RefuseKey(c) PROVE RequestsCounted'
    BY <2>1, AnswerCounted DEF RefuseKey
  <2>2. ASSUME NEW c \in Calls, Reject(c) PROVE RequestsCounted'
    BY <2>2, AnswerCounted DEF Reject
  <2>3. ASSUME NEW c \in Calls, Respond(c) PROVE RequestsCounted'
    BY <2>3, AnswerCounted, StatusRange DEF Respond
  <2>7. ASSUME NEW c \in Calls, TimeOut(c) PROVE RequestsCounted'
    BY <2>7, AnswerCounted DEF TimeOut
  <2>4. ASSUME NEW c \in Calls, Pass(c) \/ Admit(c) \/ Disconnect(c)
        PROVE  RequestsCounted'
    BY <2>4, NoAnswer DEF Pass, Admit, Disconnect, GateTypes
  <2>5. CASE Tick
    BY <2>5, NoAnswer DEF Tick
  <2>6. CASE UNCHANGED vars
    BY <2>6, NoAnswer DEF vars
  <2> QED
    BY <2>1, <2>2, <2>3, <2>4, <2>5, <2>6, <2>7 DEF Next
<1> QED
  BY <1>1, <1>2, AlwaysGateTypes, PTL DEF Spec

-----------------------------------------------------------------------------
LEMMA AdmittedInCalls ==
    Admitted \subseteq Calls /\ ThisWindow \subseteq Calls /\ WindowBefore \subseteq Calls
  BY DEF Admitted, ThisWindow, WindowBefore

(* Steps that decide on no request change nothing the limiter knows. *)
LEMMA NoDecision ==
    ASSUME GateTypes, GateTypes', LimiterInv,
           UNCHANGED <<startedAt, count, checked>>, now' >= now,
           Admitted' = Admitted, \A c \in Calls : status'[c] = 429 => status[c] = 429
    PROVE  LimiterInv'
<1>1. ThisWindow' = ThisWindow /\ WindowBefore' = WindowBefore
  BY DEF ThisWindow, WindowBefore
<1>2. WindowShaped'
  BY DEF LimiterInv, WindowShaped, GateTypes
<1>3. BurstBound'
  BY DEF LimiterInv, BurstBound
<1>4. RefusedOnlyWhenUsedUp'
  BY DEF LimiterInv, RefusedOnlyWhenUsedUp
<1> QED
  BY <1>1, <1>2, <1>3, <1>4 DEF LimiterInv

(* The requests admitted by the window that c joins, and by the one before *)
LEMMA WindowMoves ==
    ASSUME GateTypes, LimiterInv, NEW c \in Calls, Admit(c)
    PROVE  /\ c \notin Admitted /\ Admitted' = Admitted \cup {c}
           /\ ThisWindow' =
                (IF now - startedAt >= Window THEN {} ELSE ThisWindow) \cup {c}
           /\ WindowBefore' \subseteq
                (IF now - startedAt >= Window THEN ThisWindow ELSE WindowBefore)
<1> USE WindowType
<1>1. c \notin Admitted /\ Admitted' = Admitted \cup {c}
  BY DEF Admit, Admitted, Exempt, GateTypes
<1>2. /\ checked'[c] = now /\ \A d \in Admitted : checked'[d] = checked[d]
      /\ \A d \in Admitted : checked[d] \in Nat /\ checked[d] < startedAt + Window
      /\ startedAt <= now /\ startedAt \in Nat /\ now \in Nat
      /\ startedAt' = CurrentWindow
  BY <1>1 DEF Admit, GateTypes, LimiterInv, WindowShaped, Admitted
<1>3. CASE now - startedAt >= Window
  <2>1. startedAt' = now /\ now >= startedAt + Window
    BY <1>2, <1>3 DEF CurrentWindow
  <2>2. ThisWindow' = {c}
    BY <1>1, <1>2, <2>1 DEF ThisWindow
  <2>3. WindowBefore' \subseteq ThisWindow
    BY <1>1, <1>2, <2>1 DEF ThisWindow, WindowBefore
  <2> QED
    BY <1>1, <1>3, <2>2, <2>3
<1>4. CASE ~(now - startedAt >= Window)
  <2>1. startedAt' = startedAt
    BY <1>2, <1>4 DEF CurrentWindow
  <2>2. ThisWindow' = ThisWindow \cup {c}
    BY <1>1, <1>2, <2>1 DEF ThisWindow
  <2>3. WindowBefore' \subseteq WindowBefore
    BY <1>1, <1>2, <2>1 DEF WindowBefore
  <2> QED
    BY <1>1, <1>4, <2>2, <2>3
<1> QED
  BY <1>3, <1>4

LEMMA AdmitStep ==
    ASSUME GateTypes, GateTypes', LimiterInv, NEW c \in Calls, Admit(c)
    PROVE  LimiterInv'
<1> USE WindowType
<1>1. /\ c \notin Admitted /\ Admitted' = Admitted \cup {c}
      /\ checked'[c] = now /\ \A d \in Calls \ {c} : checked'[d] = checked[d]
      /\ now' = now /\ Limit \in Nat
  <2>1. c \notin Admitted /\ Admitted' = Admitted \cup {c}
    BY WindowMoves
  <2>2. checked'[c] = now /\ \A d \in Calls \ {c} : checked'[d] = checked[d]
    BY DEF Admit, GateTypes
  <2> QED
    BY <2>1, <2>2, GateAssumption DEF Admit
<1>2. startedAt' <= now /\ startedAt' + Window > now /\ startedAt' >= startedAt
  BY DEF Admit, CurrentWindow, GateTypes, LimiterInv, WindowShaped
<1>3. WindowShaped'
  <2>1. \A d \in Calls : checked'[d] <= now'
    BY <1>1 DEF GateTypes, LimiterInv, WindowShaped
  <2>2. \A d \in Admitted : checked'[d] < startedAt' + Window
    BY <1>1, <1>2, AdmittedInCalls DEF GateTypes, LimiterInv, WindowShaped
  <2> QED
    BY <1>1, <1>2, <2>1, <2>2 DEF GateTypes, WindowShaped
<1>4. count' = Cardinality(ThisWindow') /\ count' <= Limit
  <2>1. IsFiniteSet(ThisWindow) /\ c \notin ThisWindow
    BY <1>1, FiniteCalls, AdmittedInCalls DEF ThisWindow
  <2>2. Cardinality(ThisWindow \cup {c}) = Cardinality(ThisWindow) + 1
    BY <2>1, FS_AddElement
  <2>3. Cardinality({} \cup {c}) = 1
    BY FS_EmptySet, FS_AddElement
  <2>4. count' = CountInWindow + 1 /\ CountInWindow < Limit
    BY DEF Admit
  <2>5. CASE now - startedAt >= Window
    <3>1. ThisWindow' = {} \cup {c}
      BY <2>5, WindowMoves
    <3> QED
      BY <1>1, <2>3, <2>4, <2>5, <3>1 DEF CountInWindow
  <2>6. CASE ~(now - startedAt >= Window)
    <3>1. ThisWindow' = ThisWindow \cup {c}
      BY <2>6, WindowMoves
    <3> QED
      BY <1>1, <2>2, <2>4, <2>6, <3>1 DEF CountInWindow, LimiterInv, GateTypes
  <2> QED
    BY <2>5, <2>6
<1>5. Cardinality(WindowBefore') <= Limit
  <2>1. /\ IsFiniteSet(ThisWindow) /\ Cardinality(ThisWindow) <= Limit
        /\ IsFiniteSet(WindowBefore) /\ Cardinality(WindowBefore) <= Limit
    BY FiniteCalls, AdmittedInCalls DEF LimiterInv
  <2>2. WindowBefore' \subseteq ThisWindow \/ WindowBefore' \subseteq WindowBefore
    BY WindowMoves
  <2>3. \A S \in {ThisWindow, WindowBefore} :
          WindowBefore' \subseteq S => Cardinality(WindowBefore') <= Cardinality(S)
    BY <2>1, FS_Subset
  <2>4. /\ Cardinality(ThisWindow) \in Nat /\ Cardinality(WindowBefore) \in Nat
        /\ \E S \in {ThisWindow, WindowBefore} : WindowBefore' \subseteq S
        /\ Cardinality(WindowBefore') \in Nat
    BY <2>1, <2>2, FS_CardinalityType, FS_Subset
  <2> QED
    BY <1>1, <2>1, <2>3, <2>4
<1>6. BurstBound'
  <2> SUFFICES ASSUME Limit # 0, NEW e \in Admitted'
               PROVE  Cardinality({d \in Admitted' : checked'[d] \in
                                    checked'[e]..(checked'[e] + Window - 1)}) <= 2 * Limit
    BY DEF BurstBound
  <2> DEFINE Burst == {d \in Admitted' :
                         checked'[d] \in checked'[e]..(checked'[e] + Window - 1)}
  <2>1. \A d \in Admitted' : checked'[d] \in Nat
    BY <1>1, AdmittedInCalls DEF GateTypes
  <2>2. CASE c \in Burst
    <3>1. checked'[e] + Window > now
      BY <1>1, <2>1, <2>2 DEF GateTypes
    <3>2. Burst \subseteq ThisWindow' \cup WindowBefore'
      BY <1>2, <2>1, <3>1 DEF ThisWindow, WindowBefore, GateTypes
    <3>3. IsFiniteSet(ThisWindow') /\ IsFiniteSet(WindowBefore')
      BY <1>1, FiniteCalls, AdmittedInCalls DEF ThisWindow, WindowBefore
    <3>4. /\ IsFiniteSet(ThisWindow' \cup WindowBefore')
          /\ Cardinality(ThisWindow' \cup WindowBefore') =
               Cardinality(ThisWindow') + Cardinality(WindowBefore')
                 - Cardinality(ThisWindow' \cap WindowBefore')
      BY <3>3, FS_Union
    <3>5. /\ Cardinality(Burst) <= Cardinality(ThisWindow' \cup WindowBefore')
          /\ Cardinality(Burst) \in Nat
      BY <3>2, <3>4, FS_Subset, FS_CardinalityType
    <3>6. /\ Cardinality(ThisWindow' \cap WindowBefore') \in Nat
          /\ Cardinality(ThisWindow') \in Nat /\ Cardinality(WindowBefore') \in Nat
          /\ Cardinality(ThisWindow' \cup WindowBefore') \in Nat
      BY <3>3, <3>4, FS_Intersection, FS_CardinalityType
    <3> QED
      BY <1>1, <1>4, <1>5, <3>4, <3>5, <3>6
  <2>3. CASE c \notin Burst
    <3>1. e # c
      BY <1>1, <2>1, <2>3
    <3>2. e \in Admitted /\ checked'[e] = checked[e] /\ \A d \in Admitted : checked'[d] = checked[d]
      BY <1>1, <3>1, AdmittedInCalls
    <3>3. Burst = {d \in Admitted : checked[d] \in checked[e]..(checked[e] + Window - 1)}
      BY <1>1, <2>3, <3>2
    <3> QED
      BY <3>2, <3>3 DEF LimiterInv, BurstBound
  <2> QED
    BY <2>2, <2>3
<1>7. RefusedOnlyWhenUsedUp'
  <2> SUFFICES ASSUME NEW r \in Calls, status'[r] = 429
               PROVE  Cardinality({d \in Admitted' : /\ checked'[d] <= checked'[r]
                                                     /\ checked'[d] + Window > checked'[r]})
                        >= Limit
    BY DEF RefusedOnlyWhenUsedUp
  <2> DEFINE Before == {d \in Admitted : checked[d] <= checked[r] /\ checked[d] + Window > checked[r]}
             After == {d \in Admitted' : /\ checked'[d] <= checked'[r]
                                         /\ checked'[d] + Window > checked'[r]}
  <2>1. r # c /\ status[r] = 429 /\ checked'[r] = checked[r]
    BY <1>1 DEF Admit, GateTypes
  <2>2. Before \subseteq After
    BY <1>1, <2>1, AdmittedInCalls
  <2>3. Before \subseteq Calls /\ After \subseteq Calls
    BY <1>1, AdmittedInCalls
  <2>4. /\ Cardinality(Before) <= Cardinality(After)
        /\ Cardinality(Before) \in Nat /\ Cardinality(After) \in Nat
    BY <2>2, <2>3, FiniteCalls, FS_Subset
  <2>5. Cardinality(Before) >= Limit
    BY <2>1 DEF LimiterInv, RefusedOnlyWhenUsedUp
  <2> QED
    BY <1>1, <2>4, <2>5
<1> QED
  BY <1>3, <1>4, <1>5, <1>6, <1>7 DEF LimiterInv

(* Only a window that is still running refuses. *)
LEMMA RefusedInWindow ==
    ASSUME GateTypes, NEW c \in Calls, Reject(c)
    PROVE  ~(now - startedAt >= Window) /\ startedAt' = startedAt /\ count' = count
  BY GateAssumption DEF Reject, Exempt, CountInWindow, CurrentWindow

LEMMA RejectStep ==
    ASSUME GateTypes, GateTypes', LimiterInv, NEW c \in Calls, Reject(c)
    PROVE  LimiterInv'
<1> USE WindowType
<1>1. /\ now - startedAt < Window /\ startedAt' = startedAt /\ count' = count
      /\ count >= Limit /\ now' = now
  <2>1. ~(now - startedAt >= Window) /\ startedAt' = startedAt /\ count' = count
    BY RefusedInWindow
  <2>2. count >= Limit /\ now' = now
    BY <2>1 DEF Reject, CountInWindow
  <2> QED
    BY <2>1, <2>2 DEF GateTypes
<1>2. c \notin Admitted /\ Admitted' = Admitted
  BY DEF Reject, Answer, Admitted, Exempt, GateTypes
<1>3. /\ checked'[c] = now /\ \A d \in Calls \ {c} : checked'[d] = checked[d]
      /\ \A d \in Admitted : checked'[d] = checked[d]
  BY <1>2, AdmittedInCalls DEF Reject, GateTypes
<1>4. ThisWindow' = ThisWindow /\ WindowBefore' = WindowBefore
  BY <1>1, <1>2, <1>3 DEF ThisWindow, WindowBefore
<1>5. WindowShaped'
  BY <1>1, <1>2, <1>3 DEF GateTypes, LimiterInv, WindowShaped
<1>6. BurstBound'
  BY <1>2, <1>3 DEF LimiterInv, BurstBound
<1>7. RefusedOnlyWhenUsedUp'
  <2> SUFFICES ASSUME NEW r \in Calls, status'[r] = 429
               PROVE  Cardinality({d \in Admitted' : /\ checked'[d] <= checked'[r]
                                                     /\ checked'[d] + Window > checked'[r]})
                        >= Limit
    BY DEF RefusedOnlyWhenUsedUp
  <2>1. CASE r # c
    <3>1. status[r] = 429 /\ checked'[r] = checked[r]
      BY <1>3, <2>1 DEF Reject, Answer, GateTypes
    <3>2. {d \in Admitted' : /\ checked'[d] <= checked'[r] /\ checked'[d] + Window > checked'[r]}
          = {d \in Admitted : /\ checked[d] <= checked[r] /\ checked[d] + Window > checked[r]}
      BY <1>2, <1>3, <3>1
    <3> QED
      BY <3>1, <3>2 DEF LimiterInv, RefusedOnlyWhenUsedUp
  <2>2. CASE r = c
    <3> DEFINE After == {d \in Admitted' : /\ checked'[d] <= checked'[r]
                                           /\ checked'[d] + Window > checked'[r]}
    <3>1. ThisWindow \subseteq After
      BY <1>1, <1>2, <1>3, <2>2, AdmittedInCalls
         DEF ThisWindow, GateTypes, LimiterInv, WindowShaped
    <3>2. /\ Cardinality(ThisWindow) <= Cardinality(After)
          /\ Cardinality(ThisWindow) \in Nat /\ Cardinality(After) \in Nat
      <4>1. After \subseteq Calls
        BY <1>2, AdmittedInCalls
      <4> QED
        BY <3>1, <4>1, FiniteCalls, FS_Subset, AdmittedInCalls
    <3> QED
      BY <1>1, <3>2, GateAssumption DEF LimiterInv
  <2> QED
    BY <2>1, <2>2
<1> QED
  BY <1>1, <1>4, <1>5, <1>6, <1>7 DEF LimiterInv

LEMMA LimiterStep == GateTypes /\ GateTypes' /\ LimiterInv /\ [Next]_vars => LimiterInv'
<1> SUFFICES ASSUME GateTypes, GateTypes', LimiterInv, [Next]_vars PROVE LimiterInv'
  OBVIOUS
<1>1. ASSUME NEW c \in Calls, RefuseKey(c) \/ Pass(c) \/ Disconnect(c)
      PROVE  LimiterInv'
  <2>1. Admitted' = Admitted /\ \A d \in Calls : status'[d] = 429 => status[d] = 429
    BY <1>1 DEF RefuseKey, Answer, Pass, Disconnect, Admitted, Exempt, GateTypes
  <2>2. UNCHANGED <<now, startedAt, count, checked>>
    BY <1>1 DEF RefuseKey, Pass, Disconnect
  <2> QED
    BY <2>1, <2>2, NoDecision DEF GateTypes
<1>5. ASSUME NEW c \in Calls, Respond(c) \/ TimeOut(c) PROVE LimiterInv'
  <2>1. PICK code \in Nat \ {429} : call[c] = "handling" /\ Answer(c, code)
    BY <1>5, StatusRange DEF Respond, TimeOut
  <2>2. \A d \in Calls : status'[d] = 429 => status[d] = 429
    BY <2>1 DEF Answer, GateTypes
  <2>3. status[c] # 429
    BY <2>1 DEF GateTypes
  <2>4. Admitted' = Admitted
    BY <2>1, <2>3 DEF Answer, Admitted, Exempt, GateTypes
  <2>5. UNCHANGED <<now, startedAt, count, checked>>
    BY <1>5 DEF Respond, TimeOut
  <2> QED
    BY <2>2, <2>4, <2>5, NoDecision DEF GateTypes
<1>2. ASSUME NEW c \in Calls, Admit(c) PROVE LimiterInv'
  BY <1>2, AdmitStep
<1>3. ASSUME NEW c \in Calls, Reject(c) PROVE LimiterInv'
  BY <1>3, RejectStep
<1>4. CASE Tick \/ UNCHANGED vars
  <2>1. /\ UNCHANGED <<startedAt, count, call, status, checked>> /\ now' >= now
    BY <1>4 DEF Tick, vars, GateTypes
  <2>2. Admitted' = Admitted
    BY <2>1 DEF Admitted, Exempt
  <2> QED
    BY <2>1, <2>2, NoDecision
<1> QED
  BY <1>1, <1>2, <1>3, <1>4, <1>5 DEF Next

LEMMA InitLimiter == Init => LimiterInv
<1> SUFFICES ASSUME Init PROVE LimiterInv
  OBVIOUS
<1>1. Admitted = {} /\ ThisWindow = {} /\ WindowBefore = {}
  BY DEF Init, Admitted, ThisWindow, WindowBefore
<1>2. WindowShaped /\ BurstBound /\ RefusedOnlyWhenUsedUp
  BY <1>1, WindowType DEF Init, WindowShaped, BurstBound, RefusedOnlyWhenUsedUp
<1> QED
  BY <1>1, <1>2, FS_EmptySet, GateAssumption DEF Init, LimiterInv

LEMMA AlwaysLimiterInv == Spec => []LimiterInv
  BY InitLimiter, LimiterStep, AlwaysGateTypes, PTL DEF Spec

(* No stretch of a window's length sees more than twice the limit, and a    *)
(* request is refused only when the limit was used up (RateLimiter::check). *)
THEOREM RateLimitKept == Spec => []RateLimitHolds
<1>1. LimiterInv => RateLimitHolds
  BY DEF LimiterInv, RateLimitHolds
<1> QED
  BY <1>1, AlwaysLimiterInv, PTL

-----------------------------------------------------------------------------
(* as_secs rounds down by less than a second. *)
LEMMA SecondsRoundDown ==
    ASSUME NEW rest \in Nat, NEW ticks \in Nat \ {0}
    PROVE  rest < (rest \div ticks + 1) * ticks
  OBVIOUS

(* A refused client is told to wait for at least a second, and after one    *)
(* second more its window is over (RateLimiter::check, Retry-After).        *)
THEOREM RetryAfterIsHonest == Spec => RetryAfterHonest
<1>1. ASSUME GateTypes, NEW c \in Calls, Reject(c)
      PROVE  /\ retryAfter'[c] >= 1
             /\ now + (retryAfter'[c] + 1) * TicksPerSecond > startedAt' + Window
  <2> DEFINE rest == Window - (now - startedAt)
             seconds == rest \div TicksPerSecond
  <2>1. startedAt' = CurrentWindow /\ CurrentWindow = startedAt
    BY <1>1, RefusedInWindow DEF Reject
  <2>2. rest \in Nat /\ TicksPerSecond \in Nat \ {0}
    BY <1>1, RefusedInWindow, WindowType, GateAssumption DEF GateTypes
  <2>3. seconds \in Nat /\ rest < (seconds + 1) * TicksPerSecond
    BY <2>2, SecondsRoundDown
  <2>4. retryAfter'[c] = IF seconds = 0 THEN 1 ELSE seconds
    BY <1>1, <2>1 DEF Reject, GateTypes, RetryAfter
  <2> HIDE DEF seconds
  <2>5. rest < (retryAfter'[c] + 1) * TicksPerSecond
    <3>1. CASE seconds = 0
      BY <2>2, <2>3, <2>4, <3>1
    <3>2. CASE seconds # 0
      BY <2>3, <2>4, <3>2
    <3> QED
      BY <3>1, <3>2
  <2>6. retryAfter'[c] \in Nat /\ retryAfter'[c] >= 1
    BY <2>3, <2>4
  <2>7. (retryAfter'[c] + 1) * TicksPerSecond \in Nat
    BY <2>2, <2>6
  <2> DEFINE wait == (retryAfter'[c] + 1) * TicksPerSecond
  <2> HIDE DEF wait
  <2>8. rest < wait /\ wait \in Nat
    BY <2>5, <2>7 DEF wait
  <2>9. now + wait > startedAt + Window
    BY <1>1, <2>8, WindowType DEF GateTypes
  <2> QED
    BY <2>1, <2>6, <2>9 DEF wait
<1>2. GateTypes /\ [Next]_vars
        => [\A c \in Calls : status[c] # 429 /\ status'[c] = 429 =>
              /\ retryAfter'[c] >= 1
              /\ now + (retryAfter'[c] + 1) * TicksPerSecond > startedAt' + Window]_vars
  <2> SUFFICES ASSUME GateTypes, Next, NEW d \in Calls, status[d] # 429, status'[d] = 429
               PROVE  Reject(d)
    BY <1>1
  <2>1. ASSUME NEW c \in Calls,
               RefuseKey(c) \/ Pass(c) \/ Admit(c) \/ Respond(c) \/ TimeOut(c) \/ Disconnect(c)
        PROVE  status'[d] # 429
    <3>1. CASE Pass(c) \/ Admit(c) \/ Disconnect(c)
      BY <3>1 DEF Pass, Admit, Disconnect
    <3>2. CASE RefuseKey(c) \/ Respond(c) \/ TimeOut(c)
      <4>1. PICK code \in Nat \ {429} : Answer(c, code)
        BY <3>2, StatusRange DEF RefuseKey, Respond, TimeOut
      <4> QED
        BY <4>1 DEF Answer, GateTypes
    <3> QED
      BY <2>1, <3>1, <3>2
  <2>2. ASSUME NEW c \in Calls, Reject(c) PROVE c = d
    BY <2>2 DEF Reject, Answer, GateTypes
  <2>3. ~Tick
    BY DEF Tick
  <2> QED
    BY <2>1, <2>2, <2>3 DEF Next
<1> QED
  BY <1>2, AlwaysGateTypes, PTL DEF Spec, RetryAfterHonest
=============================================================================
