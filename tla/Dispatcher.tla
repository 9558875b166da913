----------------------------- MODULE Dispatcher -----------------------------
(***************************************************************************)
(* The dispatcher of a fleet (dispatcher.go) with the parts of Fleet that  *)
(* drive it (fleet.go): Submit puts jobs on a priority queue, one native   *)
(* worker pops them and runs them itself or forwards them over a buffered  *)
(* channel to a pool of CDP workers, Pause and Resume gate the popping,    *)
(* Stop drains the queue and closes the channel, and Wait waits on a       *)
(* WaitGroup of the jobs in flight.                                        *)
(*                                                                         *)
(* A step is what the code does under one lock, or one read, send, receive *)
(* or delivery outside of a lock, so that every interleaving of the        *)
(* goroutines at those points is a behaviour.  Driver calls are one        *)
(* "exec" phase with any outcome.                                          *)
(***************************************************************************)
EXTENDS Integers, Sequences, FiniteSets, Functions

CONSTANTS
    Jobs,           \* the jobs clients submit, each once
    NoJob,          \* not a job: a goroutine that holds none
    CDPWorkers,     \* the pool of CDP workers
    Native,         \* the native worker
    Stopper,        \* the goroutine in the body of requestStop
    Browsers,       \* browser ids
    JobBrowser,     \* [Jobs -> Browsers]
    Priority,       \* [Jobs -> Int]
    NeedsNative,    \* [Jobs -> BOOLEAN]: a click, type or navigate action
    Backend,        \* [Browsers -> {"native", "remote"}]: how the id is launched
    Reasons,        \* the pause reasons in use
    Takeover,       \* "user-takeover", the reason of the takeover watchdog
    ChanCap,        \* the buffer of the CDP channel (64 in the code)
    MaxRegs         \* bound: how often one id may be registered

Workers == CDPWorkers \cup {Native}
Actors  == Workers \cup {Stopper}

ASSUME ActorAssumption ==
    /\ Native \notin CDPWorkers
    /\ Stopper \notin CDPWorkers
    /\ Native # Stopper

ASSUME JobAssumption ==
    /\ IsFiniteSet(Jobs)
    /\ NoJob \notin Jobs
    /\ JobBrowser \in [Jobs -> Browsers]
    /\ Priority \in [Jobs -> Int]
    /\ NeedsNative \in [Jobs -> BOOLEAN]
    /\ Backend \in [Browsers -> {"native", "remote"}]

ASSUME BoundAssumption ==
    /\ ChanCap \in Nat \ {0}
    /\ MaxRegs \in Nat
    /\ Takeover \in Reasons

VARIABLES
    handles,        \* the registry: "none", or the backend of the handle
    regs,           \* how often each id was registered
    fleetStopped,   \* Fleet.stopped
    ctxDone,        \* the fleet's context is cancelled
    call,           \* how far the Submit of each job has got
    insertSeq,      \* Dispatcher.insertSeq
    seq,            \* queuedJob.insertSeq
    queue,          \* the jobs on the heap
    startPc,        \* how far Start has got; Dispatcher.started is startPc # "idle"
    stopped,        \* Dispatcher.stopped
    pauseReasons,   \* Dispatcher.pauseReasons
    inflight,       \* the counter of Dispatcher.inflight
    cdpField,       \* whether the field Dispatcher.cdpJobs is non-nil
    chanBuf,        \* the buffer of the CDP channel
    chanClosed,     \* the CDP channel is closed
    pc,             \* the control point of each goroutine
    job,            \* the job each goroutine holds
    status,         \* the status it is about to deliver
    driver,         \* the driver it has used for that job
    pending,        \* the jobs abortAll drained and has not delivered yet
    results,        \* what is in each job's result channel
    waiter,         \* a goroutine that calls Wait once
    waitFor,        \* the jobs accepted when it called
    panic           \* why the process has crashed, if it has

fleetVars == <<handles, regs, fleetStopped, ctxDone>>
submitVars == <<call, insertSeq, seq>>
gateVars == <<startPc, stopped, pauseReasons>>
jobVars == <<queue, pending, inflight, results>>
chanVars == <<cdpField, chanBuf, chanClosed>>
actorVars == <<pc, job, status, driver>>
waitVars == <<waiter, waitFor, panic>>
vars == <<fleetVars, submitVars, gateVars, jobVars, chanVars, actorVars, waitVars>>

sharedVars == <<fleetVars, submitVars, gateVars, jobVars, chanVars, waitVars>>

Outcomes == {"done", "failed", "cancelled"}
Statuses == Outcomes \cup {"rejected"}
Accepted == {j \in Jobs : call[j] = "queued"}
Paused == pauseReasons # {}
Running == panic = "none"
At(a, p) == Running /\ pc[a] = p
Goto(a, p) == pc' = [pc EXCEPT ![a] = p]

Init ==
    /\ handles = [b \in Browsers |-> "none"]
    /\ regs = [b \in Browsers |-> 0]
    /\ fleetStopped = FALSE
    /\ ctxDone = FALSE
    /\ call = [j \in Jobs |-> "idle"]
    /\ insertSeq = 0
    /\ seq = [j \in Jobs |-> 0]
    /\ queue = {}
    /\ startPc = "idle"
    /\ stopped = FALSE
    /\ pauseReasons = {}
    /\ inflight = 0
    /\ cdpField = FALSE
    /\ chanBuf = <<>>
    /\ chanClosed = FALSE
    /\ pc = [a \in Actors |-> "idle"]
    /\ job = [a \in Actors |-> NoJob]
    /\ status = [a \in Actors |-> "none"]
    /\ driver = [a \in Actors |-> "none"]
    /\ pending = {}
    /\ results = [j \in Jobs |-> "none"]
    /\ waiter = "idle"
    /\ waitFor = {}
    /\ panic = "none"

-----------------------------------------------------------------------------
(* The registry.  The takeover side of Register and Unregister is in the   *)
(* module Takeover.                                                        *)

Register(b) ==
    /\ Running
    /\ handles[b] = "none"
    /\ regs[b] < MaxRegs
    /\ handles' = [handles EXCEPT ![b] = Backend[b]]
    /\ regs' = [regs EXCEPT ![b] = @ + 1]
    /\ UNCHANGED <<fleetStopped, ctxDone, submitVars, gateVars, jobVars, chanVars, actorVars,
                   waitVars>>

Unregister(b) ==
    /\ Running
    /\ handles[b] # "none"
    /\ handles' = [handles EXCEPT ![b] = "none"]
    /\ UNCHANGED <<regs, fleetStopped, ctxDone, submitVars, gateVars, jobVars, chanVars, actorVars,
                   waitVars>>

-----------------------------------------------------------------------------
(* Submit: the checks under Fleet.mu, then enqueue under Dispatcher.mu.    *)

SubmitCheck(j) ==
    /\ Running
    /\ call[j] = "idle"
    /\ call' = [call EXCEPT ![j] =
            IF fleetStopped \/ handles[JobBrowser[j]] = "none" THEN "refused" ELSE "checked"]
    /\ UNCHANGED <<fleetVars, insertSeq, seq, gateVars, jobVars, chanVars, actorVars, waitVars>>

WakeNobody(p) == p

(* cond.Signal and cond.Broadcast: the only goroutine that ever waits on   *)
(* the condition variable is the native worker.                            *)
WakeNative(p) == IF p[Native] = "waiting" THEN [p EXCEPT ![Native] = "check"] ELSE p

AlwaysAccepts == TRUE

(* The test of enqueue, under the lock that abortAll drains the queue in.  *)
Accepts == ~stopped

Enqueue(j) ==
    /\ Running
    /\ call[j] = "checked"
    /\ Accepts
    /\ call' = [call EXCEPT ![j] = "queued"]
    /\ insertSeq' = insertSeq + 1
    /\ seq' = [seq EXCEPT ![j] = insertSeq + 1]
    /\ queue' = queue \cup {j}
    /\ inflight' = inflight + 1
    /\ pc' = WakeNative(pc)
    /\ UNCHANGED <<fleetVars, gateVars, pending, results, chanVars, job, status, driver, waitVars>>

EnqueueRejectedCounted(j) ==
    /\ Running
    /\ call[j] = "checked"
    /\ ~Accepts
    /\ call' = [call EXCEPT ![j] = "rejecting"]
    /\ inflight' = inflight + 1
    /\ UNCHANGED <<fleetVars, insertSeq, seq, gateVars, queue, pending, results, chanVars,
                   actorVars, waitVars>>

(* enqueue on a stopped dispatcher starts a goroutine that delivers        *)
(* StatusRejected: the job never enters the queue nor the WaitGroup.       *)
EnqueueRejected(j) ==
    /\ Running
    /\ call[j] = "checked"
    /\ ~Accepts
    /\ call' = [call EXCEPT ![j] = "rejecting"]
    /\ UNCHANGED <<fleetVars, insertSeq, seq, gateVars, jobVars, chanVars, actorVars, waitVars>>

DeliveredUnlessCancelled(j, s) ==
    IF results[j] = "none" /\ s # "cancelled" THEN [results EXCEPT ![j] = s] ELSE results

(* deliver: the result channel holds one value, a second one is dropped.   *)
Delivered(j, s) == IF results[j] = "none" THEN [results EXCEPT ![j] = s] ELSE results

DeliverRejected(j) ==
    /\ Running
    /\ call[j] = "rejecting"
    /\ call' = [call EXCEPT ![j] = "rejected"]
    /\ results' = Delivered(j, "rejected")
    /\ UNCHANGED <<fleetVars, insertSeq, seq, gateVars, queue, pending, inflight, chanVars,
                   actorVars, waitVars>>

-----------------------------------------------------------------------------
(* Start, Pause and Resume.                                                *)

StartMark ==
    /\ Running
    /\ startPc = "idle"
    /\ startPc' = "marked"
    /\ UNCHANGED <<fleetVars, submitVars, stopped, pauseReasons, jobVars, chanVars, actorVars,
                   waitVars>>

(* After it has released the lock, start makes the channel and launches    *)
(* the workers, even if the dispatcher was stopped meanwhile.              *)
StartSpawn ==
    /\ Running
    /\ startPc = "marked"
    /\ startPc' = "done"
    /\ cdpField' = TRUE
    /\ pc' = [a \in Actors |-> IF a = Native THEN "check"
                               ELSE IF a \in CDPWorkers THEN "starting" ELSE pc[a]]
    /\ UNCHANGED <<fleetVars, submitVars, stopped, pauseReasons, jobVars, chanBuf, chanClosed, job,
                   status, driver, waitVars>>

Pause(r) ==
    /\ Running
    /\ ~stopped
    /\ pauseReasons' = pauseReasons \cup {r}
    /\ UNCHANGED <<fleetVars, submitVars, startPc, stopped, jobVars, chanVars, actorVars,
                   waitVars>>

(* resume wakes the native worker only when the last reason goes.          *)
Resumed(r) ==
    IF stopped \/ r \notin pauseReasons
    THEN UNCHANGED <<pauseReasons, pc>>
    ELSE /\ pauseReasons' = pauseReasons \ {r}
         /\ pc' = IF pauseReasons = {r} THEN WakeNative(pc) ELSE pc

Resume(r) ==
    /\ Running
    /\ r \in pauseReasons
    /\ Resumed(r)
    /\ UNCHANGED <<fleetVars, submitVars, startPc, stopped, jobVars, chanVars, job, status, driver,
                   waitVars>>

-----------------------------------------------------------------------------
(* The native worker.                                                      *)

BeforeLIFO(j, k) ==
    \/ Priority[j] > Priority[k]
    \/ Priority[j] = Priority[k] /\ seq[j] > seq[k]

(* priorityQueue.Less: the higher priority, then the earlier insertSeq.    *)
Before(j, k) ==
    \/ Priority[j] > Priority[k]
    \/ Priority[j] = Priority[k] /\ seq[j] < seq[k]

NativeWait ==
    /\ At(Native, "check")
    /\ ~stopped
    /\ queue = {} \/ Paused
    /\ Goto(Native, "waiting")
    /\ UNCHANGED <<sharedVars, job, status, driver>>

NativeExit ==
    /\ At(Native, "check")
    /\ stopped
    /\ queue = {}
    /\ Goto(Native, "exited")
    /\ UNCHANGED <<sharedVars, job, status, driver>>

NativePop(j) ==
    /\ At(Native, "check")
    /\ stopped \/ ~Paused
    /\ j \in queue
    /\ \A k \in queue \ {j} : Before(j, k)
    /\ queue' = queue \ {j}
    /\ job' = [job EXCEPT ![Native] = j]
    /\ Goto(Native, "route")
    /\ UNCHANGED <<fleetVars, submitVars, gateVars, pending, inflight, results, chanVars, status,
                   driver, waitVars>>

OnNativeInverted(j) == NeedsNative[j] /\ handles[JobBrowser[j]] = "remote"

(* The first lookup of the handle decides the route: the native worker     *)
(* keeps the job, or sends it to the pool.                                 *)
OnNative(j) == NeedsNative[j] /\ handles[JobBrowser[j]] = "native"

NativeRoute ==
    /\ At(Native, "route")
    /\ Goto(Native, IF OnNative(job[Native]) THEN "run" ELSE "forward")
    /\ UNCHANGED <<sharedVars, job, status, driver>>

(* The select evaluates d.cdpJobs once, on entry: "sendNil" is a send on   *)
(* the nil channel.                                                        *)
NativeForward ==
    /\ At(Native, "forward")
    /\ Goto(Native, IF cdpField THEN "send" ELSE "sendNil")
    /\ UNCHANGED <<sharedVars, job, status, driver>>

NativeSend ==
    /\ At(Native, "send")
    /\ ~chanClosed
    /\ Len(chanBuf) < ChanCap
    /\ chanBuf' = Append(chanBuf, job[Native])
    /\ job' = [job EXCEPT ![Native] = NoJob]
    /\ Goto(Native, "check")
    /\ UNCHANGED <<fleetVars, submitVars, gateVars, jobVars, cdpField, chanClosed, status, driver,
                   waitVars>>

NativeSendClosed ==
    /\ At(Native, "send")
    /\ chanClosed
    /\ panic' = "sendOnClosedChannel"
    /\ UNCHANGED <<fleetVars, submitVars, gateVars, jobVars, chanVars, actorVars, waiter, waitFor>>

NativeSendCancelled ==
    /\ Running
    /\ pc[Native] \in {"send", "sendNil"}
    /\ ctxDone
    /\ status' = [status EXCEPT ![Native] = "cancelled"]
    /\ Goto(Native, "deliver")
    /\ UNCHANGED <<sharedVars, job, driver>>

-----------------------------------------------------------------------------
(* The CDP workers.                                                        *)

(* The range statement evaluates d.cdpJobs when the goroutine first runs;  *)
(* ranging over the nil channel blocks forever.                            *)
CDPBegin(w) ==
    /\ At(w, "starting")
    /\ pc' = [pc EXCEPT ![w] = IF cdpField THEN "recv" ELSE "stuck"]
    /\ UNCHANGED <<sharedVars, job, status, driver>>

CDPReceive(w) ==
    /\ At(w, "recv")
    /\ chanBuf # <<>>
    /\ job' = [job EXCEPT ![w] = Head(chanBuf)]
    /\ chanBuf' = Tail(chanBuf)
    /\ Goto(w, "run")
    /\ UNCHANGED <<fleetVars, submitVars, gateVars, jobVars, cdpField, chanClosed, status, driver,
                   waitVars>>

CDPExitAtClose(w) ==
    /\ At(w, "recv")
    /\ chanClosed
    /\ Goto(w, "exited")
    /\ UNCHANGED <<sharedVars, job, status, driver>>

(* A receive drains the buffer of a closed channel before the range ends.  *)
CDPExit(w) ==
    /\ At(w, "recv")
    /\ chanBuf = <<>>
    /\ chanClosed
    /\ Goto(w, "exited")
    /\ UNCHANGED <<sharedVars, job, status, driver>>

-----------------------------------------------------------------------------
(* runJob, by the native worker or a CDP worker.                           *)

(* The second lookup of the handle finds nothing; or the page is gone (on  *)
(* the CDP path) or the job's context is over before the driver is used.   *)
RunUntouched(w, s) ==
    /\ At(w, "run")
    /\ \/ s = "failed" /\ (w \in CDPWorkers \/ handles[JobBrowser[job[w]]] = "none")
       \/ s = "cancelled" /\ handles[JobBrowser[job[w]]] # "none"
    /\ status' = [status EXCEPT ![w] = s]
    /\ Goto(w, "deliver")
    /\ UNCHANGED <<sharedVars, job, driver>>

RunExec(w) ==
    /\ At(w, "run")
    /\ handles[JobBrowser[job[w]]] # "none"
    /\ w \in CDPWorkers => ~ctxDone
    /\ driver' = [driver EXCEPT ![w] = handles[JobBrowser[job[w]]]]
    /\ Goto(w, "exec")
    /\ UNCHANGED <<sharedVars, job, status>>

RunDone(w, s) ==
    /\ At(w, "exec")
    /\ status' = [status EXCEPT ![w] = s]
    /\ Goto(w, "deliver")
    /\ UNCHANGED <<sharedVars, job, driver>>

(* completeJob delivers the result and then calls inflight.Done.           *)
Deliver(w) ==
    /\ At(w, "deliver")
    /\ results' = Delivered(job[w], status[w])
    /\ Goto(w, "signoff")
    /\ UNCHANGED <<fleetVars, submitVars, gateVars, queue, pending, inflight, chanVars, job,
                   status, driver, waitVars>>

AfterJobReceive(a) == "recv"

(* Where a goroutine goes on when it is through with a job.                *)
AfterJob(a) == IF a = Native THEN "check" ELSE IF a = Stopper THEN "abort" ELSE "recv"

(* inflight.Done: reaching zero wakes a blocked Wait, going below panics.  *)
SignOff(a) ==
    /\ At(a, "signoff")
    /\ IF inflight = 0
       THEN /\ panic' = "negativeWaitGroup"
            /\ UNCHANGED <<inflight, waiter>>
       ELSE /\ inflight' = inflight - 1
            /\ waiter' = IF inflight = 1 /\ waiter = "blocked" THEN "woken" ELSE waiter
            /\ UNCHANGED panic
    /\ job' = [job EXCEPT ![a] = NoJob]
    /\ status' = [status EXCEPT ![a] = "none"]
    /\ driver' = [driver EXCEPT ![a] = "none"]
    /\ Goto(a, AfterJob(a))
    /\ UNCHANGED <<fleetVars, submitVars, gateVars, queue, pending, results, chanVars, waitFor>>

-----------------------------------------------------------------------------
(* requestStop, run once: mark the fleet stopped, tear the takeover        *)
(* watchdog down (which drops its pause reason), abortAll, cancel.         *)

StopMark ==
    /\ At(Stopper, "idle")
    /\ fleetStopped' = TRUE
    /\ Goto(Stopper, "marked")
    /\ UNCHANGED <<handles, regs, ctxDone, submitVars, gateVars, jobVars, chanVars, job, status,
                   driver, waitVars>>

StopReconcile ==
    /\ At(Stopper, "marked")
    /\ LET p == [pc EXCEPT ![Stopper] = "drain"]
       IN  pc' = IF pauseReasons = {Takeover} THEN WakeNative(p) ELSE p
    /\ pauseReasons' = pauseReasons \ {Takeover}
    /\ UNCHANGED <<fleetVars, submitVars, startPc, stopped, jobVars, chanVars, job, status, driver,
                   waitVars>>

NotDrained(q) == q

(* priorityQueue.drain hands out every job and leaves the queue empty.     *)
Drained(q) == {}

AbortDrain ==
    /\ At(Stopper, "drain")
    /\ stopped' = TRUE
    /\ pending' = queue
    /\ queue' = Drained(queue)
    /\ pc' = WakeNative([pc EXCEPT ![Stopper] = "abort"])
    /\ UNCHANGED <<fleetVars, submitVars, startPc, pauseReasons, inflight, results, chanVars, job,
                   status, driver, waitVars>>

AbortDeliver(j) ==
    /\ At(Stopper, "abort")
    /\ j \in pending
    /\ pending' = pending \ {j}
    /\ job' = [job EXCEPT ![Stopper] = j]
    /\ results' = Delivered(j, "cancelled")
    /\ Goto(Stopper, "signoff")
    /\ UNCHANGED <<fleetVars, submitVars, gateVars, queue, inflight, chanVars, status, driver,
                   waitVars>>

AbortClose ==
    /\ At(Stopper, "abort")
    /\ pending = {}
    /\ chanClosed' = cdpField
    /\ pc' = [pc EXCEPT ![Stopper] = IF cdpField THEN "clear" ELSE "cancel"]
    /\ UNCHANGED <<fleetVars, submitVars, gateVars, jobVars, cdpField, chanBuf, job, status,
                   driver, waitVars>>

AbortClear ==
    /\ At(Stopper, "clear")
    /\ cdpField' = FALSE
    /\ Goto(Stopper, "cancel")
    /\ UNCHANGED <<fleetVars, submitVars, gateVars, jobVars, chanBuf, chanClosed, job, status,
                   driver, waitVars>>

StopCancel ==
    /\ At(Stopper, "cancel")
    /\ ctxDone' = TRUE
    /\ Goto(Stopper, "exited")
    /\ UNCHANGED <<handles, regs, fleetStopped, submitVars, gateVars, jobVars, chanVars, job,
                   status, driver, waitVars>>

-----------------------------------------------------------------------------
(* Wait, called once.  sync.WaitGroup panics when a woken waiter finds the *)
(* counter raised again before it has returned.                            *)

WaitCall ==
    /\ Running
    /\ waiter = "idle"
    /\ waiter' = IF inflight = 0 THEN "returned" ELSE "blocked"
    /\ waitFor' = Accepted
    /\ UNCHANGED <<fleetVars, submitVars, gateVars, jobVars, chanVars, actorVars, panic>>

WaitReturn ==
    /\ Running
    /\ waiter = "woken"
    /\ IF inflight = 0
       THEN waiter' = "returned" /\ UNCHANGED panic
       ELSE panic' = "waitGroupReused" /\ UNCHANGED waiter
    /\ UNCHANGED <<fleetVars, submitVars, gateVars, jobVars, chanVars, actorVars, waitFor>>

-----------------------------------------------------------------------------
NativeStep ==
    \/ NativeWait \/ NativeExit \/ NativeRoute \/ NativeForward \/ NativeSend \/ NativeSendClosed
    \/ NativeSendCancelled
    \/ \E j \in Jobs : NativePop(j)

RunStep(w) ==
    \/ \E s \in {"failed", "cancelled"} : RunUntouched(w, s)
    \/ RunExec(w)
    \/ \E s \in Outcomes : RunDone(w, s)
    \/ Deliver(w)
    \/ SignOff(w)

CDPStep(w) == CDPBegin(w) \/ CDPReceive(w) \/ CDPExit(w)

StopBody ==
    \/ StopReconcile \/ AbortDrain \/ AbortClose \/ AbortClear \/ StopCancel
    \/ \E j \in Jobs : AbortDeliver(j)
    \/ SignOff(Stopper)

ClientStep ==
    \/ \E b \in Browsers : Register(b) \/ Unregister(b)
    \/ \E j \in Jobs : SubmitCheck(j)
    \/ StartMark
    \/ \E r \in Reasons : Pause(r) \/ Resume(r)
    \/ StopMark
    \/ WaitCall

SubmitBody(j) == Enqueue(j) \/ EnqueueRejected(j) \/ DeliverRejected(j)

Next ==
    \/ ClientStep
    \/ \E j \in Jobs : SubmitBody(j)
    \/ StartSpawn
    \/ NativeStep
    \/ \E w \in CDPWorkers : CDPStep(w)
    \/ \E w \in Workers : RunStep(w)
    \/ StopBody
    \/ WaitReturn

Spec == Init /\ [][Next]_vars

(* Fairness: a goroutine that can run does run.  Clients owe nothing.      *)
Fairness ==
    /\ \A j \in Jobs : WF_vars(SubmitBody(j))
    /\ WF_vars(StartSpawn)
    /\ WF_vars(NativeStep \/ RunStep(Native))
    /\ \A w \in CDPWorkers : WF_vars(CDPStep(w) \/ RunStep(w))
    /\ WF_vars(StopBody)
    /\ WF_vars(WaitReturn)

FairSpec == Spec /\ Fairness

-----------------------------------------------------------------------------
(* Safety.                                                                 *)

NativePcs == {"idle", "check", "waiting", "route", "forward", "send", "sendNil", "run", "exec",
              "deliver", "signoff", "exited"}
CDPPcs == {"idle", "starting", "recv", "run", "exec", "deliver", "signoff", "exited", "stuck"}
StopperPcs == {"idle", "marked", "drain", "abort", "signoff", "clear", "cancel", "exited"}
HoldingPcs == {"route", "forward", "send", "sendNil", "run", "exec", "deliver", "signoff"}

Typed ==
    /\ handles \in [Browsers -> {"none", "native", "remote"}]
    /\ regs \in [Browsers -> Nat]
    /\ fleetStopped \in BOOLEAN
    /\ ctxDone \in BOOLEAN
    /\ call \in [Jobs -> {"idle", "refused", "checked", "queued", "rejecting", "rejected"}]
    /\ insertSeq \in Nat
    /\ seq \in [Jobs -> Nat]
    /\ queue \subseteq Jobs
    /\ startPc \in {"idle", "marked", "done"}
    /\ stopped \in BOOLEAN
    /\ pauseReasons \subseteq Reasons
    /\ inflight \in Nat
    /\ cdpField \in BOOLEAN
    /\ chanBuf \in Seq(Jobs)
    /\ chanClosed \in BOOLEAN
    /\ pc \in [Actors -> NativePcs \cup CDPPcs \cup StopperPcs]
    /\ job \in [Actors -> Jobs \cup {NoJob}]
    /\ status \in [Actors -> Outcomes \cup {"none"}]
    /\ driver \in [Actors -> {"none", "native", "remote"}]
    /\ pending \subseteq Jobs
    /\ results \in [Jobs -> Statuses \cup {"none"}]
    /\ waiter \in {"idle", "blocked", "woken", "returned"}
    /\ waitFor \subseteq Jobs
    /\ panic \in {"none", "sendOnClosedChannel", "negativeWaitGroup", "waitGroupReused"}

(* Every goroutine is at a point of its own code, holds a job exactly when *)
(* that code does, and runs only once start has launched it.               *)
Placed(a) ==
    /\ a = Native => pc[a] \in NativePcs
    /\ a \in CDPWorkers => pc[a] \in CDPPcs
    /\ a = Stopper => pc[a] \in StopperPcs
    /\ job[a] # NoJob <=> pc[a] \in HoldingPcs
    /\ pc[a] = "deliver" => status[a] # "none"
    /\ a \in Workers /\ startPc # "done" => pc[a] = "idle"

(* Every variable has its type and every goroutine its place in the code.  *)
TypeOK == Typed /\ \A a \in Actors : Placed(a)

Buffered == Range(chanBuf)
Held == {job[a] : a \in Actors} \ {NoJob}
Outstanding == queue \cup pending \cup Buffered \cup Held

(* A job that has been accepted is in one place at a time: on the heap,    *)
(* among the drained jobs, once in the channel, or with one goroutine.     *)
(* Two holders would run it twice or settle it twice.                      *)
OneHolder ==
    /\ queue \cap (pending \cup Buffered \cup Held) = {}
    /\ pending \cap (Buffered \cup Held) = {}
    /\ Buffered \cap Held = {}
    /\ IsInjective(chanBuf)
    /\ \A a, b \in Actors : job[a] = job[b] /\ job[a] # NoJob => a = b

(* No accepted job gets lost between the heap, the channel and the         *)
(* goroutines: it is somewhere until its result is in its channel.         *)
NoJobLost ==
    /\ Outstanding \subseteq Accepted
    /\ \A j \in Accepted : j \in Outstanding \/ results[j] # "none"

(* The WaitGroup counts exactly the jobs not yet signed off, so Done never *)
(* takes it below zero and Wait returns neither early nor never.           *)
InflightExact == inflight = Cardinality(Outstanding) /\ panic # "negativeWaitGroup"

(* A result is delivered into an empty channel: completeJob and abortAll   *)
(* never settle the same job, whose second result deliver would drop.      *)
DeliverOnce ==
    \A j \in Outstanding :
        results[j] = "none" \/ \E a \in Actors : job[a] = j /\ pc[a] = "signoff"

(* When Wait returns, every job accepted before the call has its result.   *)
WaitSound == waiter = "returned" => \A j \in waitFor : results[j] # "none"

(* The native worker never sleeps on the condition variable while it has   *)
(* something to do: a job it may pop, or a stop it must see.               *)
NoLostWakeup ==
    pc[Native] = "waiting" => ~stopped /\ (queue = {} \/ Paused)

(* A job never leaves the heap before an earlier one of at least its       *)
(* priority that waits there, whatever is submitted, paused or resumed     *)
(* meanwhile (job.go, Job: ties break by insertion order).                 *)
NoOvertaking ==
    \A j \in queue, k \in Accepted \ queue :
        ~(seq[j] < seq[k] /\ Priority[j] >= Priority[k])

(* A Submit that passed its check before Stop but enqueues after abortAll  *)
(* leaves nothing on a heap that no goroutine will pop again.              *)
NothingQueuedAfterStop == stopped => queue = {}

(* One goroutine at a time drives the OS cursor and keyboard: an action    *)
(* that needs the native critical section on a native driver               *)
(* (docs/system-architecture.md, Single native worker).                    *)
DrivesOS(w) == pc[w] = "exec" /\ driver[w] = "native" /\ NeedsNative[job[w]]
NativeExclusive == \A v, w \in Workers : DrivesOS(v) /\ DrivesOS(w) => v = w

(* The process does not crash on a send on the closed channel.             *)
NeverSendsOnClosed == panic # "sendOnClosedChannel"

(* Wait does not crash the process because Submit adds a job just then.    *)
WaitNeverPanics == panic # "waitGroupReused"

-----------------------------------------------------------------------------
(* Liveness, under FairSpec.                                               *)

Resolved(j) == results[j] # "none"
Crashed == ~Running

(* Every CDP worker found the channel field already cleared: what is left  *)
(* in the channel has no reader.                                           *)
PoolStuck == \A w \in CDPWorkers : pc[w] = "stuck"

(* An accepted job gets its result, if the fleet is started and in the end *)
(* not paused, or stopped: through queue, channel, worker or abortAll.     *)
EveryJobResolves ==
    <>[](~Paused \/ stopped) =>
        \A j \in Jobs :
            (call[j] = "queued" /\ startPc # "idle") ~> (Resolved(j) \/ Crashed \/ PoolStuck)

(* Once Stop has run, every accepted job gets its result                   *)
(* (fleet.go, Submit: "receives exactly one JobResult").                   *)
StoppedJobsResolve ==
    \A j \in Jobs :
        (call[j] = "queued" /\ pc[Stopper] = "exited") ~> (Resolved(j) \/ Crashed)

(* A Wait under way returns once the fleet was stopped after its start.    *)
WaitReturns ==
    (waiter = "blocked" /\ pc[Stopper] = "exited" /\ startPc = "done")
        ~> (waiter = "returned" \/ Crashed \/ PoolStuck)

(* Stop ends the goroutines that Start launched (fleet.go, Stop: "tears    *)
(* down workers"), wherever it meets them, provided it found their channel *)
(* to close: a worker that finds the field cleared is the one left over.   *)
WorkersEnd ==
    (pc[Stopper] = "exited" /\ startPc = "done" /\ chanClosed)
        ~> (Crashed \/ \A w \in Workers : pc[w] \in {"exited", "stuck"})

-----------------------------------------------------------------------------
(* The dispatcher implements the contract of its jobs.                     *)

UsesDriver(a, j) == job[a] = j /\ pc[a] \in {"exec", "deliver"} /\ driver[a] # "none"

Phase(j) ==
    IF results[j] # "none" THEN results[j]
    ELSE IF \E a \in Actors : UsesDriver(a, j) THEN "running"
    ELSE CASE call[j] = "queued" -> "accepted"
           [] call[j] \in {"idle", "checked"} -> "new"
           [] OTHER -> call[j]

Contract == INSTANCE JobContract WITH
    phase <- [j \in Jobs |-> Phase(j)],
    waiting <- CASE waiter = "idle" -> "no" [] waiter = "returned" -> "returned" [] OTHER -> "yes",
    awaited <- waitFor

(* Every step of the dispatcher is a step of the contract or a stutter.    *)
ImplementsContract == Contract!Spec
=============================================================================
