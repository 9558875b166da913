--------------------------- MODULE CriticalProofs ---------------------------
(***************************************************************************)
(* Theorems about the running of a job, for any jobs, number of retries    *)
(* and OS threads.                                                         *)
(***************************************************************************)
EXTENDS Critical, SequenceTheorems, TLAPS

USE DEF ctxVars, layoutVars, At, Goto

Inputs == {"click", "clear", "type", "navigate", "scroll", "wait"}

(* What has been sent by the time the worker is at a control point, for an *)
(* action of typing ...                                                    *)
TypingSent ==
    CASE pc \in {"layout", "clear"} -> inputs = <<"click">>
      [] pc = "send" -> inputs = IF ClearFirst[job] THEN <<"click", "clear">> ELSE <<"click">>
      [] pc \in {"restore", "idle"} -> IsPrefix(inputs, Plan(job))
      [] OTHER -> inputs = <<>>

(* ... and for one of a single driver call.                                *)
CallSent ==
    IF pc = "idle" THEN IsPrefix(inputs, Plan(job)) ELSE inputs = <<>>

(* The inputs sent so far, at every control point of a run.                *)
Progress ==
    IF job = NoJob THEN outcome = "none"
    ELSE
        /\ Kind[job] = "type" => TypingSent
        /\ Kind[job] # "type" => CallSent
        /\ pc \in {"layout", "clear", "restore", "element"} => Kind[job] = "type"
        /\ pc \in {"locate", "move", "guard", "click"} => Kind[job] # "navigate"
        /\ pc = "clear" => ClearFirst[job]
        /\ pc = "restore" => result \in Outcomes
        /\ pc = "restore" /\ result = "done" => inputs = Plan(job)
        /\ outcome = "done" => inputs = Plan(job)

(* The cursor moves, against the attempts begun.                           *)
Attempts ==
    moves <= IF pc \in {"entry", "focus", "locate", "move", "sleep"} THEN retry ELSE retry + 1

(* A plan is a sequence of inputs, and these are its beginnings.           *)
LEMMA PlanBeginnings ==
    ASSUME NEW j \in Jobs
    PROVE  /\ Plan(j) \in Seq(Inputs)
           /\ IsPrefix(<<>>, Plan(j))
           /\ IsPrefix(Plan(j), Plan(j))
           /\ Kind[j] = "type" => IsPrefix(<<"click">>, Plan(j))
           /\ Kind[j] = "type" /\ ClearFirst[j] => IsPrefix(<<"click", "clear">>, Plan(j))
<1>1. CASE Kind[j] # "type"
  BY <1>1, JobAssumption DEF Plan, IsPrefix, Inputs
<1>2. CASE Kind[j] = "type" /\ ClearFirst[j]
  BY <1>2 DEF Plan, IsPrefix, Inputs
<1>3. CASE Kind[j] = "type" /\ ~ClearFirst[j]
  BY <1>3 DEF Plan, IsPrefix, Inputs
<1>. QED
  BY <1>1, <1>2, <1>3

(* Append builds the tuple one longer.                                     *)
LEMMA AppendPair ==
    ASSUME NEW a, NEW b PROVE Append(<<a>>, b) = <<a, b>>
<1> DEFINE S == {a, b}
           s == Append(<<a>>, b)
           t == <<a, b>>
<1>1. <<a>> \in Seq(S) /\ t \in Seq(S) /\ Len(t) = 2 /\ Len(<<a>>) = 1
  OBVIOUS
<1>2. s \in Seq(S) /\ Len(s) = 2 /\ s[1] = a /\ s[2] = b
  BY <1>1, AppendProperties
<1>3. t[1] = a /\ t[2] = b
  OBVIOUS
<1> HIDE DEF S, s, t
<1>4. \A i \in 1..Len(s) : s[i] = t[i]
  BY <1>2, <1>3
<1>5. s = t
  BY <1>1, <1>2, <1>4, SeqEqual
<1>. QED
  BY <1>5 DEF s, t

(* The same for a tuple of two.                                            *)
LEMMA AppendTriple ==
    ASSUME NEW a, NEW b, NEW c PROVE Append(<<a, b>>, c) = <<a, b, c>>
<1> DEFINE S == {a, b, c}
           s == Append(<<a, b>>, c)
           t == <<a, b, c>>
<1>1. <<a, b>> \in Seq(S) /\ t \in Seq(S) /\ Len(t) = 3 /\ Len(<<a, b>>) = 2
  OBVIOUS
<1>2. s \in Seq(S) /\ Len(s) = 3 /\ s[1] = a /\ s[2] = b /\ s[3] = c
  BY <1>1, AppendProperties
<1>3. t[1] = a /\ t[2] = b /\ t[3] = c
  OBVIOUS
<1> HIDE DEF S, s, t
<1>4. \A i \in 1..Len(s) : s[i] = t[i]
  BY <1>2, <1>3
<1>5. s = t
  BY <1>1, <1>2, <1>4, SeqEqual
<1>. QED
  BY <1>5 DEF s, t

(* Sending the next input of a plan.                                       *)
LEMMA PlanSteps ==
    ASSUME NEW j \in Jobs
    PROVE  /\ Kind[j] # "type" => Append(<<>>, Kind[j]) = Plan(j)
           /\ Kind[j] = "type" /\ ClearFirst[j] =>
                Append(<<"click", "clear">>, "type") = Plan(j)
           /\ Kind[j] = "type" /\ ~ClearFirst[j] => Append(<<"click">>, "type") = Plan(j)
           /\ Append(<<"click">>, "clear") = <<"click", "clear">>
           /\ Append(<<>>, "click") = <<"click">>
<1>1. Kind[j] # "type" => Append(<<>>, Kind[j]) = Plan(j)
  BY DEF Plan
<1>2. Kind[j] = "type" /\ ClearFirst[j] => Append(<<"click", "clear">>, "type") = Plan(j)
  BY AppendTriple DEF Plan
<1>3. Kind[j] = "type" /\ ~ClearFirst[j] => Append(<<"click">>, "type") = Plan(j)
  BY AppendPair DEF Plan
<1>4. Append(<<"click">>, "clear") = <<"click", "clear">>
  BY AppendPair
<1>5. Append(<<>>, "click") = <<"click">>
  OBVIOUS
<1>. QED
  BY <1>1, <1>2, <1>3, <1>4, <1>5

(* Every step keeps the types.                                             *)
LEMMA TypeStep == TypeOK /\ Progress /\ [Next]_vars => TypeOK'
<1> SUFFICES ASSUME TypeOK, Progress, [Next]_vars PROVE TypeOK'
  OBVIOUS
<1> USE JobAssumption, RetryAssumption DEF TypeOK, Pcs, NativePcs, Outcomes, MovesBound
<1>1. ASSUME NEW j \in Jobs, Begin(j) PROVE TypeOK'
  <2>1. job' = j /\ job' # NoJob /\ outcome' = "none"
    BY <1>1 DEF Begin
  <2>2. /\ pc' \in {"page", "entry", "fallback"}
        /\ pc' # "page" => OnNative[j]
        /\ pc' = "entry" => windows
        /\ pc' = "fallback" => ~windows
    BY <1>1 DEF Begin
  <2>3. inputs' \in Seq(Inputs) /\ moves' = 0 /\ retry' = 0 /\ expired' = FALSE
    BY <1>1 DEF Begin
  <2>4. 0 \in 0..DriftRetries /\ 0 \in 0..(DriftRetries + 2)
    OBVIOUS
  <2>. QED
    BY <1>1, <2>1, <2>2, <2>3, <2>4 DEF Begin, Inputs
<1>2. CASE Expire
  BY <1>2 DEF Expire
<1>3. CASE Cancel
  BY <1>3 DEF Cancel
<1>4. ASSUME NEW t \in Threads, Migrate(t) PROVE TypeOK'
  BY <1>4 DEF Migrate
<1>5. CASE Entry
  BY <1>5 DEF Entry, Return, Retried, Settle
<1>6. CASE Focus
  BY <1>6 DEF Focus, Fail, Return, Retried, Settle
<1>7. CASE Locate
  BY <1>7 DEF Locate, Fail, Return, Retried, Settle
<1>8. CASE MoveTo
  <2>1. moves' \in 0..MovesBound
    BY <1>8 DEF MoveTo
  <2>. QED
    BY <1>8, <2>1 DEF MoveTo, Fail, Return, Retried, Settle
<1>9. CASE DriftGuard
  BY <1>9 DEF DriftGuard, Return, Retried, Settle
<1>10. CASE ClickAt
  <2>1. inputs' \in Seq(Inputs)
    <3>1. inputs' \in {inputs, Append(inputs, "click")}
      BY <1>10 DEF ClickAt, Sent
    <3>. QED
      BY <3>1 DEF Inputs
  <2>. QED
    BY <1>10, <2>1 DEF ClickAt, Fail, Return, Retried, Settle, AfterClick, Inputs
<1>11. CASE ForceENUSLayout
  BY <1>11 DEF ForceENUSLayout
<1>12. CASE ClearInput
  <2>1. inputs' \in Seq(Inputs)
    BY <1>12 DEF ClearInput, Sent, Inputs
  <2>. QED
    BY <1>12, <2>1 DEF ClearInput, Typed, Settle, Inputs
<1>13. CASE Send
  BY <1>13 DEF Send, Typed, Return, Retried, Settle, Sent
<1>14. CASE RestoreLayout
  BY <1>14 DEF RestoreLayout, Return, Retried, Settle, Progress
<1>15. CASE Retry
  <2>1. retry' \in 0..DriftRetries
    <3>1. CASE retry < DriftRetries
      BY <1>15, <3>1 DEF Retry
    <3>2. CASE ~(retry < DriftRetries)
      BY <1>15, <3>2 DEF Retry
    <3>. QED
      BY <3>1, <3>2
  <2>. QED
    BY <1>15, <2>1 DEF Retry, Settle
<1>16. CASE Sleep
  BY <1>16 DEF Sleep, Settle
<1>17. CASE Page
  BY <1>17 DEF Page, Settle
<1>18. CASE Fallback
  BY <1>18 DEF Fallback, Settle
<1>19. CASE FocusElement
  <2>1. inputs' \in Seq(Inputs)
    BY <1>19 DEF FocusElement, Sent, Inputs
  <2>. QED
    BY <1>19, <2>1 DEF FocusElement, Settle, Inputs
<1>20. CASE UNCHANGED vars
  BY <1>20 DEF vars
<1>. QED
  BY <1>1, <1>2, <1>3, <1>4, <1>5, <1>6, <1>7, <1>8, <1>9, <1>10, <1>11, <1>12, <1>13, <1>14,
     <1>15, <1>16, <1>17, <1>18, <1>19, <1>20 DEF Next, Worker, ExecuteCritical

(* Every step keeps what has been sent in line with the control point.     *)
LEMMA ProgressStep == TypeOK /\ Progress /\ [Next]_vars => Progress'
<1> SUFFICES ASSUME TypeOK, Progress, [Next]_vars PROVE Progress'
  OBVIOUS
<1>0. /\ job # NoJob => job \in Jobs
      /\ pc # "idle" => job \in Jobs /\ job # NoJob /\ outcome = "none"
      /\ pc \in NativePcs \cup {"fallback"} =>
            OnNative[job] /\ Kind[job] \in {"click", "type", "navigate"}
  BY JobAssumption DEF TypeOK, NativePcs
<1> USE DEF Progress, TypingSent, CallSent
<1>1. ASSUME NEW j \in Jobs, Begin(j) PROVE Progress'
  BY <1>1 DEF Begin
<1>2. CASE Expire
  BY <1>2 DEF Expire
<1>3. CASE Cancel
  BY <1>3 DEF Cancel
<1>4. ASSUME NEW t \in Threads, Migrate(t) PROVE Progress'
  BY <1>4 DEF Migrate
<1>5. CASE Entry
  BY <1>0, <1>5, PlanBeginnings DEF Entry, Return, Retried, Settle, NativePcs, Plan
<1>6. CASE Focus
  BY <1>0, <1>6, PlanBeginnings DEF Focus, Fail, Return, Retried, Settle, NativePcs
<1>7. CASE Locate
  BY <1>0, <1>7, PlanBeginnings DEF Locate, Fail, Return, Retried, Settle, NativePcs
<1>8. CASE MoveTo
  BY <1>0, <1>8, PlanBeginnings DEF MoveTo, Fail, Return, Retried, Settle, NativePcs
<1>9. CASE DriftGuard
  BY <1>0, <1>9, PlanBeginnings DEF DriftGuard, Return, Retried, Settle, NativePcs
<1>10. CASE ClickAt
  BY <1>0, <1>10, PlanBeginnings, PlanSteps
  DEF ClickAt, Fail, Return, Retried, Settle, Sent, AfterClick, NativePcs
<1>11. CASE ForceENUSLayout
  BY <1>0, <1>11 DEF ForceENUSLayout, NativePcs
<1>12. CASE ClearInput
  BY <1>0, <1>12, PlanBeginnings, PlanSteps DEF ClearInput, Typed, Settle, Sent, Outcomes
<1>13. CASE Send
  <2>1. pc = "send" /\ job \in Jobs /\ job # NoJob
    BY <1>0, <1>13, JobAssumption DEF Send
  <2>2. inputs' = Append(inputs, Kind[job]) /\ job' = job
    BY <1>13 DEF Send, Typed, Return, Retried, Settle, Sent
  <2>3. inputs' = Plan(job)
    <3>1. CASE Kind[job] = "type" /\ ClearFirst[job]
      BY <2>1, <2>2, <3>1, PlanSteps
    <3>2. CASE Kind[job] = "type" /\ ~ClearFirst[job]
      BY <2>1, <2>2, <3>2, PlanSteps
    <3>3. CASE Kind[job] # "type"
      BY <2>1, <2>2, <3>3, PlanSteps
    <3>. QED
      BY <3>1, <3>2, <3>3
  <2>4. \/ pc' = "idle"
        \/ pc' = "restore" /\ Kind[job] = "type" /\ result' \in Outcomes /\ outcome' = outcome
    BY <1>13, <2>1 DEF Send, Typed, Return, Retried, Settle, Outcomes
  <2>5. IsPrefix(inputs', Plan(job))
    BY <2>1, <2>3, PlanBeginnings
  <2>6. pc' \in {"restore", "idle"} /\ job' # NoJob /\ Plan(job') = Plan(job)
    BY <2>1, <2>2, <2>4
  <2>. QED
    BY <1>0, <2>1, <2>2, <2>3, <2>4, <2>5, <2>6
<1>14. CASE RestoreLayout
  BY <1>0, <1>14 DEF RestoreLayout, Return, Retried, Settle, Outcomes
<1>15. CASE Retry
  BY <1>0, <1>15, PlanBeginnings DEF Retry, Settle
<1>16. CASE Sleep
  BY <1>0, <1>16, PlanBeginnings DEF Sleep, Settle
<1>17. CASE Page
  BY <1>0, <1>17, PlanBeginnings DEF Page, Settle
<1>18. CASE Fallback
  BY <1>0, <1>18, PlanBeginnings DEF Fallback, Settle
<1>19. CASE FocusElement
  BY <1>0, <1>19, PlanBeginnings, PlanSteps DEF FocusElement, Settle, Sent
<1>20. CASE UNCHANGED vars
  BY <1>20 DEF vars
<1>. QED
  BY <1>1, <1>2, <1>3, <1>4, <1>5, <1>6, <1>7, <1>8, <1>9, <1>10, <1>11, <1>12, <1>13, <1>14,
     <1>15, <1>16, <1>17, <1>18, <1>19, <1>20 DEF Next, Worker, ExecuteCritical

(* Every step keeps the cursor moves within the attempts begun.            *)
LEMMA AttemptsStep == TypeOK /\ Attempts /\ [Next]_vars => Attempts'
<1> SUFFICES ASSUME TypeOK, Attempts, [Next]_vars PROVE Attempts'
  OBVIOUS
<1>0. moves \in Nat /\ retry \in Nat
  BY RetryAssumption DEF TypeOK, MovesBound
<1> USE DEF Attempts
<1>1. ASSUME NEW j \in Jobs, Begin(j) PROVE Attempts'
  BY <1>1 DEF Begin
<1>2. CASE Expire \/ Cancel \/ \E t \in Threads : Migrate(t)
  BY <1>2 DEF Expire, Cancel, Migrate
<1>3. CASE MoveTo
  <2>1. moves <= retry /\ moves' \in {moves, moves + 1} /\ retry' = retry
    BY <1>3 DEF MoveTo
  <2>2. pc' \notin {"entry", "focus", "locate", "move", "sleep"}
    BY <1>3 DEF MoveTo, Fail, Return, Retried, Settle
  <2>. QED
    BY <1>0, <2>1, <2>2
<1>4. CASE Retry
  BY <1>0, <1>4 DEF Retry, Settle
<1>5. CASE Worker /\ ~MoveTo /\ ~Retry
  <2>1. moves' = moves /\ retry' = retry
    BY <1>5 DEF Worker, ExecuteCritical, Entry, Focus, Locate, DriftGuard, ClickAt, ForceENUSLayout,
       ClearInput, Send, RestoreLayout, Sleep, Page, Fallback, FocusElement
  <2>2. pc' \in {"entry", "focus", "locate", "move", "sleep"}
            => pc \in {"entry", "focus", "locate", "move", "sleep"}
    BY <1>5
    DEF Worker, ExecuteCritical, Entry, Focus, Locate, DriftGuard, ClickAt, ForceENUSLayout,
        ClearInput, Send, RestoreLayout, Sleep, Page, Fallback, FocusElement, Fail, Return, Retried,
        Settle, Typed, AfterClick
  <2>. QED
    BY <1>0, <2>1, <2>2
<1>6. CASE UNCHANGED vars
  BY <1>6 DEF vars
<1>. QED
  BY <1>1, <1>2, <1>3, <1>4, <1>5, <1>6 DEF Next

(* Before the first job nothing has been sent and nothing moved.           *)
LEMMA InitInvariant == Init => TypeOK /\ Progress /\ Attempts
<1> SUFFICES ASSUME Init PROVE TypeOK /\ Progress /\ Attempts
  OBVIOUS
<1>1. TypeOK
  <2>1. inputs \in Seq(Inputs) /\ moves = 0 /\ retry = 0 /\ 0 \in 0..DriftRetries
    BY RetryAssumption DEF Init
  <2>2. 0 \in 0..MovesBound
    BY RetryAssumption DEF MovesBound
  <2>. QED
    BY <2>1, <2>2 DEF Init, TypeOK, Pcs, NativePcs, Inputs
<1>2. Progress
  BY DEF Init, Progress
<1>3. Attempts
  BY DEF Init, Attempts
<1>. QED
  BY <1>1, <1>2, <1>3

(* The inductive invariant holds in every reachable state.                 *)
LEMMA Invariance == Spec => [](TypeOK /\ Progress /\ Attempts)
<1>1. TypeOK /\ Progress /\ Attempts /\ [Next]_vars => (TypeOK /\ Progress /\ Attempts)'
  BY TypeStep, ProgressStep, AttemptsStep
<1>. QED
  BY <1>1, InitInvariant, PTL DEF Spec

(* Every variable keeps its type and the worker its place in the code.     *)
THEOREM CriticalTypes == Spec => []TypeOK
BY Invariance, PTL

(* Whatever fails, drifts, is retried or cancelled, the browser gets the   *)
(* inputs of the action in their order, none of them twice.                *)
THEOREM InputsFollowPlanHolds == Spec => []InputsFollowPlan
<1>1. TypeOK /\ Progress => InputsFollowPlan
  <2> SUFFICES ASSUME TypeOK, Progress, job # NoJob PROVE IsPrefix(inputs, Plan(job))
    BY DEF InputsFollowPlan
  <2>0. job \in Jobs
    BY DEF TypeOK
  <2>1. CASE Kind[job] = "type"
    BY <2>0, <2>1, PlanBeginnings DEF Progress, TypingSent
  <2>2. CASE Kind[job] # "type"
    BY <2>0, <2>2, PlanBeginnings DEF Progress, CallSent
  <2>. QED
    BY <2>1, <2>2
<1>. QED
  BY <1>1, Invariance, PTL

(* A job is done only if its browser got every input of its action.        *)
THEOREM DoneMeansAllHolds == Spec => []DoneMeansAll
<1>1. TypeOK /\ Progress => DoneMeansAll
  BY DEF TypeOK, Progress, DoneMeansAll
<1>. QED
  BY <1>1, Invariance, PTL

(* At most one move per attempt, and at most 1 + driftRetries attempts.    *)
THEOREM AttemptsBoundedHolds == Spec => []AttemptsBounded
<1>1. TypeOK /\ Attempts => AttemptsBounded
  BY RetryAssumption DEF TypeOK, Attempts, AttemptsBounded, MovesBound
<1>. QED
  BY <1>1, Invariance, PTL

-----------------------------------------------------------------------------
(* The keyboard layout.                                                    *)

(* The worker is between ForceENUSLayout and RestoreLayout.                *)
Typing ==
    /\ pc \in {"clear", "send", "restore"}
    /\ Kind[job] = "type" /\ OnNative[job] /\ windows

(* What the code lacks: runtime.LockOSThread around the two.               *)
Pinned == [][Typing => thread' = thread]_vars

(* Only the thread on which the worker types may have en-US, the layout to *)
(* restore there is the user's, and the input of the browser's own has     *)
(* nothing to do with layouts.                                             *)
LayoutKept ==
    /\ \A t \in Threads : layout[t] = "user" \/ (Typing /\ t = thread)
    /\ Typing => prevLayout = "user"
    /\ pc \in {"page", "element"} => ~(OnNative[job] /\ windows)

(* Every step keeps this, if the worker is not moved while it types.       *)
LEMMA LayoutStep ==
    TypeOK /\ Progress /\ LayoutKept /\ [Next]_vars /\ (Typing => thread' = thread) => LayoutKept'
<1> SUFFICES ASSUME TypeOK, Progress, LayoutKept, [Next]_vars, Typing => thread' = thread
             PROVE  LayoutKept'
  OBVIOUS
<1>0. /\ thread \in Threads /\ layout \in [Threads -> {"user", "en-US"}]
      /\ pc \in NativePcs => OnNative[job] /\ windows
      /\ pc = "fallback" => ~windows
      /\ pc \in {"layout", "restore"} => Kind[job] = "type"
  BY JobAssumption DEF TypeOK, Progress
<1> USE DEF LayoutKept
<1>1. ASSUME NEW j \in Jobs, Begin(j) PROVE LayoutKept'
  <2>1. ~Typing /\ ~Typing' /\ UNCHANGED <<layout, windows>> /\ job' = j
    BY <1>1 DEF Begin, Typing
  <2>2. pc' = "page" => ~OnNative[j]
    BY <1>1 DEF Begin
  <2>3. pc' # "element"
    BY <1>1 DEF Begin
  <2>. QED
    BY <2>1, <2>2, <2>3
<1>2. CASE Expire \/ Cancel \/ \E t \in Threads : Migrate(t)
  <2>1. UNCHANGED <<layout, prevLayout, pc, job, windows>>
    BY <1>2 DEF Expire, Cancel, Migrate
  <2>2. Typing' <=> Typing
    BY <2>1 DEF Typing
  <2>. QED
    BY <2>1, <2>2
<1>3. CASE ForceENUSLayout
  <2>1. ~Typing /\ prevLayout' = layout[thread] /\ UNCHANGED thread
    BY <1>3 DEF ForceENUSLayout, Typing
  <2>2. \A t \in Threads \ {thread} : layout'[t] = layout[t]
    BY <1>0, <1>3 DEF ForceENUSLayout
  <2>3. Typing' /\ pc' \notin {"page", "element"}
    BY <1>0, <1>3 DEF ForceENUSLayout, Typing, NativePcs
  <2>. QED
    BY <1>0, <2>1, <2>2, <2>3
<1>4. CASE RestoreLayout
  <2>1. Typing
    BY <1>0, <1>4 DEF RestoreLayout, Typing, NativePcs
  <2>2. layout' = [layout EXCEPT ![thread] = "user"]
    BY <1>4, <2>1 DEF RestoreLayout
  <2>3. \A t \in Threads : layout'[t] = "user"
    BY <1>0, <2>1, <2>2
  <2>4. pc' \in {"idle", "drifted"} /\ ~Typing'
    BY <1>4 DEF RestoreLayout, Return, Settle, Typing
  <2>. QED
    BY <2>3, <2>4
<1>5. CASE ClearInput \/ Send
  <2>1. UNCHANGED <<windows, job, thread, layout, prevLayout>> /\ pc \in {"clear", "send"}
    BY <1>5 DEF ClearInput, Send, Typed, Return, Settle
  <2>2. pc' \in {"send", "restore", "idle", "drifted"}
    BY <1>5 DEF ClearInput, Send, Typed, Return, Settle
  <2>3. Typing => pc' \in {"send", "restore"}
    BY <1>5 DEF ClearInput, Send, Typed, Typing
  <2>4. Typing <=> Typing'
    BY <2>1, <2>2, <2>3 DEF Typing
  <2>. QED
    BY <2>1, <2>2, <2>4
<1>6. CASE \/ Entry \/ Focus \/ Locate \/ MoveTo \/ DriftGuard \/ ClickAt
           \/ Retry \/ Sleep \/ Page \/ Fallback \/ FocusElement
  <2>1. ~Typing /\ UNCHANGED <<thread, layout, prevLayout, job, windows>>
    BY <1>6 DEF Entry, Focus, Locate, MoveTo, DriftGuard, ClickAt, Retry, Sleep, Page, Fallback,
       FocusElement, Fail, Return, Settle, Typing
  <2>2. \A t \in Threads : layout'[t] = "user"
    BY <2>1
  <2>3. CASE Page \/ Fallback \/ FocusElement
    <3>1. pc \in {"page", "fallback", "element"}
      BY <2>3 DEF Page, Fallback, FocusElement
    <3>2. ~(OnNative[job] /\ windows)
      BY <1>0, <3>1
    <3>. QED
      BY <2>1, <2>2, <3>2 DEF Typing
  <2>4. CASE Focus
    <3>1. pc' \in {"send", "locate", "idle", "drifted"} /\ (pc' = "send" => Kind[job] = "navigate")
      BY <2>4 DEF Focus, Fail, Return, Settle
    <3>. QED
      BY <2>1, <2>2, <3>1 DEF Typing
  <2>5. CASE Entry \/ Locate \/ MoveTo \/ DriftGuard \/ ClickAt \/ Retry \/ Sleep
    <3>1. pc' \in {"focus", "move", "guard", "click", "layout", "entry", "sleep", "idle", "drifted"}
      BY <2>5 DEF Entry, Locate, MoveTo, DriftGuard, ClickAt, Retry, Sleep, Fail, Return, Settle
    <3>. QED
      BY <2>2, <3>1 DEF Typing
  <2>. QED
    BY <1>6, <2>3, <2>4, <2>5
<1>7. CASE UNCHANGED vars
  BY <1>7 DEF vars, Typing
<1>. QED
  BY <1>1, <1>2, <1>3, <1>4, <1>5, <1>6, <1>7 DEF Next, Worker, ExecuteCritical

(* Between two jobs every thread has the user's layout, if the goroutine   *)
(* stays on its thread while it types: the run layout_thread shows that    *)
(* the premise is needed, and the code does not see to it.                 *)
THEOREM LayoutRestoredHolds == Spec /\ Pinned => []LayoutRestored
<1>1. Init => LayoutKept
  BY DEF Init, LayoutKept
<1>2. LayoutKept => LayoutRestored
  BY DEF LayoutKept, LayoutRestored, Typing
<1>3. TypeOK /\ Progress /\ LayoutKept /\ [Next]_vars /\ [Typing => thread' = thread]_vars
         => LayoutKept'
  <2>1. TypeOK /\ Progress /\ LayoutKept /\ [Next]_vars /\ UNCHANGED vars => LayoutKept'
    BY LayoutStep DEF vars
  <2>. QED
    BY <2>1, LayoutStep
<1>. QED
  BY <1>1, <1>2, <1>3, Invariance, PTL DEF Spec, Pinned
=============================================================================
