------------------------------ MODULE Critical ------------------------------
(***************************************************************************)
(* How one job is run (dispatcher.go, runJob): on the native worker by     *)
(* executeCriticalWithRetry, which repeats executeCritical while the       *)
(* cursor drifts, or in the CDP pool by executeCDPOnly.  There are two     *)
(* builds of executeCritical, dispatcher_critical_windows.go and, falling  *)
(* back to the browser's own input, dispatcher_critical_other.go.  A step  *)
(* is a driver call with any outcome, together with the check before it.   *)
(*                                                                         *)
(* Selectors, coordinates and texts are left out: the drift guard may find *)
(* the cursor away or not, whatever the user's hand did.                   *)
(***************************************************************************)
EXTENDS Integers, Sequences, SequencesExt

CONSTANTS
    Jobs,           \* the jobs, run one after another, each any number of times
    NoJob,          \* not a job
    Kind,           \* [Jobs -> {"click", "type", "navigate", "scroll", "wait"}]
    ClearFirst,     \* [Jobs -> BOOLEAN]
    OnNative,       \* [Jobs -> BOOLEAN]: run by the native worker
    DriftRetries,   \* cfg.driftRetries
    Threads         \* the OS threads the goroutine may be scheduled on

ASSUME JobAssumption ==
    /\ NoJob \notin Jobs
    /\ Kind \in [Jobs -> {"click", "type", "navigate", "scroll", "wait"}]
    /\ ClearFirst \in [Jobs -> BOOLEAN]
    /\ OnNative \in [Jobs -> BOOLEAN]
    /\ \A j \in Jobs : OnNative[j] => Kind[j] \in {"click", "type", "navigate"}

ASSUME RetryAssumption == DriftRetries \in Nat

VARIABLES
    windows,    \* the build
    job,        \* the job being run, or the last one that was
    pc,         \* the control point of the worker
    retry,      \* the variable attempt of executeCriticalWithRetry
    expired,    \* the job's own timeout has passed
    fleetDone,  \* the fleet's context is cancelled
    inputs,     \* the inputs the run of the job has sent to its browser
    moves,      \* how often it has moved the cursor, counted up to MovesBound
    thread,     \* the OS thread the worker is on
    layout,     \* the keyboard layout of each thread
    prevLayout, \* what ForceENUSLayout returned
    result,     \* the outcome RestoreLayout, deferred, runs before
    outcome     \* the status of the job, once it is run

ctxVars == <<expired, fleetDone>>
layoutVars == <<thread, layout, prevLayout>>
vars == <<windows, job, pc, retry, ctxVars, inputs, moves, layoutVars, result, outcome>>

Outcomes == {"done", "failed", "cancelled"}
MovesBound == DriftRetries + 2
CtxOver == expired \/ fleetDone

Init ==
    /\ windows \in BOOLEAN
    /\ job = NoJob
    /\ pc = "idle"
    /\ retry = 0
    /\ expired = FALSE
    /\ fleetDone = FALSE
    /\ inputs = <<>>
    /\ moves = 0
    /\ thread \in Threads
    /\ layout = [t \in Threads |-> "user"]
    /\ prevLayout = "user"
    /\ result = "none"
    /\ outcome = "none"

At(p) == pc = p
Goto(p) == pc' = p /\ UNCHANGED <<windows, job, outcome>>

Settle(s) ==
    /\ outcome' = s
    /\ pc' = "idle"
    /\ UNCHANGED <<windows, job>>

RetryAnyError(s) == s \in {"drift", "failed"}
Retried(s) == s = "drift"

(* An attempt ends: a drift may be retried, anything else is the outcome.  *)
Return(s) == IF OnNative[job] /\ Retried(s) THEN Goto("drifted") ELSE Settle(s)

(* A driver call fails; with a context error the job counts as cancelled.  *)
Fail == Return("failed") \/ Return("cancelled")

(* The input counts when the call is made, whether or not it then fails.   *)
Sent(i) == inputs' = Append(inputs, i)

-----------------------------------------------------------------------------
(* runJob makes the job's context; it ends by its timeout or with Stop.    *)

Begin(j) ==
    /\ At("idle")
    /\ job' = j
    /\ outcome' = "none"
    /\ inputs' = <<>>
    /\ moves' = 0
    /\ pc' = IF ~OnNative[j] THEN "page" ELSE IF windows THEN "entry" ELSE "fallback"
    /\ retry' = 0
    /\ expired' = FALSE
    /\ UNCHANGED <<windows, fleetDone, layoutVars, result>>

Expire ==
    /\ ~At("idle")
    /\ expired' = TRUE
    /\ UNCHANGED <<windows, job, pc, retry, fleetDone, inputs, moves, layoutVars, result,
                   outcome>>

Cancel ==
    /\ fleetDone' = TRUE
    /\ UNCHANGED <<windows, job, pc, retry, expired, inputs, moves, layoutVars, result, outcome>>

(* The scheduler moves the goroutine, which has not called LockOSThread.   *)
Migrate(t) ==
    /\ thread' = t
    /\ UNCHANGED <<windows, job, pc, retry, ctxVars, inputs, moves, layout, prevLayout, result,
                   outcome>>

-----------------------------------------------------------------------------
(* executeCritical on Windows.                                             *)

EntryUnchecked ==
    /\ At("entry")
    /\ Goto("focus")
    /\ UNCHANGED <<retry, ctxVars, inputs, moves, layoutVars, result>>

Entry ==
    /\ At("entry")
    /\ IF CtxOver THEN Return("cancelled") ELSE Goto("focus")
    /\ UNCHANGED <<retry, ctxVars, inputs, moves, layoutVars, result>>

(* Focus, which takes the context; then Current, which may find no page.   *)
Focus ==
    /\ At("focus")
    /\ \/ Goto(IF Kind[job] = "navigate" THEN "send" ELSE "locate")
       \/ Fail
    /\ UNCHANGED <<retry, ctxVars, inputs, moves, layoutVars, result>>

Locate ==
    /\ At("locate")
    /\ IF CtxOver THEN Return("cancelled") ELSE Goto("move") \/ Fail
    /\ UNCHANGED <<retry, ctxVars, inputs, moves, layoutVars, result>>

MoveTo ==
    /\ At("move")
    /\ moves' = IF moves < MovesBound THEN moves + 1 ELSE moves
    /\ Goto("guard") \/ Fail
    /\ UNCHANGED <<retry, ctxVars, inputs, layoutVars, result>>

DriftGuard ==
    /\ At("guard")
    /\ Goto("click") \/ Return("drift")
    /\ UNCHANGED <<retry, ctxVars, inputs, moves, layoutVars, result>>

AfterClickDone(j) == "done"
AfterClick(j) == IF Kind[j] = "type" THEN "layout" ELSE "done"

ClickAt ==
    /\ At("click")
    /\ IF CtxOver
       THEN Return("cancelled") /\ UNCHANGED inputs
       ELSE /\ Sent("click")
            /\ \/ Fail
               \/ AfterClick(job) = "done" /\ Return("done")
               \/ AfterClick(job) = "layout" /\ Goto("layout")
    /\ UNCHANGED <<retry, ctxVars, moves, layoutVars, result>>

(* ForceENUSLayout acts on the calling thread; it may fail to load en-US.  *)
ForceENUSLayout ==
    /\ At("layout")
    /\ prevLayout' = layout[thread]
    /\ layout' = [layout EXCEPT ![thread] = "en-US"] \/ UNCHANGED layout
    /\ Goto(IF ClearFirst[job] THEN "clear" ELSE "send")
    /\ UNCHANGED <<retry, ctxVars, inputs, moves, thread, result>>

(* Typing done or failed, the deferred RestoreLayout is next on the native *)
(* path of Windows.                                                        *)
Typed(s) ==
    IF OnNative[job] /\ windows
    THEN result' = s /\ Goto("restore")
    ELSE Settle(s) /\ UNCHANGED result

ClearInput ==
    /\ At("clear")
    /\ Sent("clear")
    /\ \/ Goto("send") /\ UNCHANGED result
       \/ \E s \in {"failed", "cancelled"} : Typed(s)
    /\ UNCHANGED <<retry, ctxVars, moves, layoutVars>>

(* TypeHuman, and the other actions of a single driver call.               *)
Send ==
    /\ At("send")
    /\ Sent(Kind[job])
    /\ \E s \in Outcomes :
        IF Kind[job] = "type" THEN Typed(s) ELSE Return(s) /\ UNCHANGED result
    /\ UNCHANGED <<retry, ctxVars, moves, layoutVars>>

RestoreLayout ==
    /\ At("restore")
    /\ layout' = [layout EXCEPT ![thread] = prevLayout]
    /\ result' = "none"
    /\ Return(result)
    /\ UNCHANGED <<retry, ctxVars, inputs, moves, thread, prevLayout>>

-----------------------------------------------------------------------------
(* executeCriticalWithRetry: the test and the sleep of its loop.           *)

RetryOffByOne ==
    /\ At("drifted")
    /\ IF retry <= DriftRetries
       THEN retry' = retry + 1 /\ Goto("sleep")
       ELSE UNCHANGED retry /\ Settle("failed")
    /\ UNCHANGED <<ctxVars, inputs, moves, layoutVars, result>>

RetryUncounted ==
    /\ At("drifted")
    /\ retry < DriftRetries /\ Goto("sleep")
    /\ UNCHANGED <<retry, ctxVars, inputs, moves, layoutVars, result>>

Retry ==
    /\ At("drifted")
    /\ IF retry < DriftRetries
       THEN retry' = retry + 1 /\ Goto("sleep")
       ELSE UNCHANGED retry /\ Settle("failed")
    /\ UNCHANGED <<ctxVars, inputs, moves, layoutVars, result>>

(* The select picks either case when the context is over and the delay too.*)
Sleep ==
    /\ At("sleep")
    /\ Goto("entry") \/ (CtxOver /\ Settle("cancelled"))
    /\ UNCHANGED <<retry, ctxVars, inputs, moves, layoutVars, result>>

-----------------------------------------------------------------------------
(* executeCDPOnly, and executeCritical on other platforms.                 *)

Page ==
    /\ At("page")
    /\ \/ Settle("failed")
       \/ CtxOver /\ Settle("cancelled")
       \/ ~CtxOver /\ Goto(IF Kind[job] = "type" THEN "element" ELSE "send")
    /\ UNCHANGED <<retry, ctxVars, inputs, moves, layoutVars, result>>

(* The fallback of executeCritical looks for a page, not at the context.   *)
Fallback ==
    /\ At("fallback")
    /\ Settle("failed") \/ Goto(IF Kind[job] = "type" THEN "element" ELSE "send")
    /\ UNCHANGED <<retry, ctxVars, inputs, moves, layoutVars, result>>

FocusElement ==
    /\ At("element")
    /\ Sent("click")
    /\ \/ Goto(IF ClearFirst[job] THEN "clear" ELSE "send")
       \/ \E s \in {"failed", "cancelled"} : Settle(s)
    /\ UNCHANGED <<retry, ctxVars, moves, layoutVars, result>>

-----------------------------------------------------------------------------
ExecuteCritical ==
    \/ Entry \/ Focus \/ Locate \/ MoveTo \/ DriftGuard \/ ClickAt \/ ForceENUSLayout
    \/ ClearInput \/ Send \/ RestoreLayout

Worker == ExecuteCritical \/ Retry \/ Sleep \/ Page \/ Fallback \/ FocusElement

Next ==
    \/ \E j \in Jobs : Begin(j)
    \/ Worker
    \/ Expire \/ Cancel
    \/ \E t \in Threads : Migrate(t)

Spec == Init /\ [][Next]_vars

(* Driver calls return and the delay passes: the worker goes on.           *)
FairSpec == Spec /\ WF_vars(Worker)

-----------------------------------------------------------------------------
Pcs == {"idle", "entry", "focus", "locate", "move", "guard", "click", "layout", "clear", "send",
        "restore", "drifted", "sleep", "page", "fallback", "element"}
NativePcs == {"entry", "focus", "locate", "move", "guard", "click", "layout", "restore",
              "drifted", "sleep"}

(* Every variable has its type, the worker has a job unless it is idle,    *)
(* and only a job of the native worker is at the native steps.             *)
TypeOK ==
    /\ windows \in BOOLEAN
    /\ job \in Jobs \cup {NoJob}
    /\ pc \in Pcs
    /\ pc = "idle" <=> job = NoJob \/ outcome # "none"
    /\ pc \in NativePcs => OnNative[job] /\ windows
    /\ pc = "fallback" => OnNative[job] /\ ~windows
    /\ retry \in 0..DriftRetries
    /\ expired \in BOOLEAN
    /\ fleetDone \in BOOLEAN
    /\ inputs \in Seq({"click", "clear", "type", "navigate", "scroll", "wait"})
    /\ moves \in 0..MovesBound
    /\ thread \in Threads
    /\ layout \in [Threads -> {"user", "en-US"}]
    /\ prevLayout \in {"user", "en-US"}
    /\ result \in Outcomes \cup {"none"}
    /\ outcome \in Outcomes \cup {"none"}

(* The inputs an action stands for (action.go, TypeAction: "clicks the     *)
(* target first, then types"; ClearFirst "wipes any existing value").      *)
Plan(j) ==
    IF Kind[j] # "type" THEN <<Kind[j]>>
    ELSE IF ClearFirst[j] THEN <<"click", "clear", "type">> ELSE <<"click", "type">>

(* Whatever fails, drifts, is retried or is cancelled, the browser gets    *)
(* the inputs of the action in their order, and none of them twice.        *)
InputsFollowPlan == job # NoJob => IsPrefix(inputs, Plan(job))

(* A job is done only if its browser got every input of its action.        *)
DoneMeansAll == outcome = "done" => inputs = Plan(job)

(* The cursor is moved at most once per attempt and there are no more than *)
(* 1 + driftRetries attempts (dispatcher.go, executeCriticalWithRetry).    *)
AttemptsBounded == moves <= 1 + DriftRetries

(* A job whose context ends while it sleeps before a retry is cancelled    *)
(* and sends no input any more, even when the delay passes first.          *)
CancelledAsleep ==
    (pc = "sleep" /\ CtxOver) ~> (outcome = "cancelled" /\ inputs = <<>>)

(* A run ends, however often the user moves the cursor away.               *)
EveryRunEnds == pc # "idle" ~> pc = "idle"

(* Between two jobs every thread has the user's keyboard layout            *)
(* (docs/project-changelog.md: "force EN-US during typing, restore after").*)
LayoutRestored == pc = "idle" => \A t \in Threads : layout[t] = "user"
=============================================================================
