# automationfleet in TLA+

A fleet runs browser jobs. Clients `Submit` jobs to a priority queue; one *native worker* pops
them and either runs them itself (a click, type or navigation on a browser that is driven through
the OS cursor and keyboard) or forwards them over a buffered channel to a pool of *CDP workers*.
`Pause` and `Resume` gate the popping, a mouse hook with a *takeover watchdog* pauses the fleet
while the user moves the mouse, global hotkeys pause, resume and stop it, `Stop` drains the queue,
and `Wait` waits for the jobs in flight.

The modules here model that code step by step. Line numbers below are of the files in the root of
the repository.

## Inventory

| Component | State | Operations | What is hard | What makes it correct |
|---|---|---|---|---|
| Dispatcher (`dispatcher.go`) | heap, `insertSeq`, `started`, `stopped`, `pauseReasons`, WaitGroup `inflight`, channel `cdpJobs` | `enqueue`, `start`, `pause`, `resume`, `abortAll`, `nativeWorker`, `cdpWorker`, `runJob`, `completeJob` | goroutines meeting in the heap, the channel, a condition variable and a WaitGroup; `cdpJobs` is read and written without a lock; the handle is looked up twice | each accepted job is in one place, runs at most once, gets one result; no lost wake-up; `Wait` neither early nor stuck |
| Fleet (`fleet.go`) | `handles`, `nativeCount`, `stopped`, `watchdog`, `hookUninstall`, `ctx`, `stopOnce`, `hotkeyDone` | `Register`, `Unregister`, `Submit`, `Start`, `Pause`, `Resume`, `Stop`, `Wait` | three locks taken one after another, so that calls overlap between them; `Stop` while the others run | racing calls converge; nothing is queued after `Stop` |
| Priority queue (`dispatcher_queue.go`) | `items`, `heapIdx` | `push`, `pop`, `drain` | ties in a heap | pops by priority, then insertion order |
| Job execution (`dispatcher_critical_windows.go`, `dispatcher_critical_other.go`, `executeCriticalWithRetry`, `executeCDPOnly`) | attempt counter, context, cursor, keyboard layout | focus, locate, move, drift guard, click, type, retry | failure or cancellation after any step; a retry of what was already done | inputs in order, none twice; `done` only when all were sent; attempts bounded |
| Takeover watchdog (`takeover_watchdog.go`) | `moves`, `stopCh`, timer, local `paused` | `notify`, `start`, `stop`, `run` | timer against moves against teardown | a pause it made is always dropped |
| Mouse hook (`internal/winapi/mouse_hook_windows.go`) | `hookInstalled`, `realMoveCallback` (one each per process), a thread with a message pump | install, uninstall, the hook procedure | install and uninstall wait for the thread; several fleets share the package | never two hooks, never fed to a dead watchdog, another fleet's callback left alone |
| Hotkey listener (`hotkey_windows.go`, `hotkey_other.go`) | registered ids, message queue, watcher goroutine, `hotkeyDone` | `runHotkeyMultiListener` | registration fails half-way; a callback stops the fleet while another `Stop` waits for the listener; `Start` called twice | hotkeys all or none; `Stop` leaves no listener and always returns |
| Hotkey parsing (`hotkey.go`) | | `ParseHotkey`, `String` | a partial result is returned beside an error | a text means its modifiers and last key |
| Options (`fleet.go`) | `config` | `With...` | applied in order over defaults | as far as hotkeys go |
| Drivers, adapters, examples | | | | not modelled, see below |

Interaction: `Register`/`Unregister`/`requestStop` change the registry under `Fleet.mu` and then
reconcile the watchdog under `takeoverMu`; the watchdog calls `Pause`/`Resume`; `requestStop`
goes on to `abortAll`, then cancels the context every job's context descends from.
`PROJECT.json` lists the hazards of the code, each at its line, with the properties that cover it.

## Modules

| Module | Models |
|---|---|
| `Dispatcher` | the dispatcher and the parts of the fleet that drive it |
| `JobContract` | what the fleet promises of a job; `Dispatcher` implements it |
| `DispatcherProofs` | theorems about `Dispatcher` |
| `ContractProofs` | that `Dispatcher` implements `JobContract`, for every instance |
| `Takeover` | registry, reconciliation, hook with its thread, and watchdog |
| `TakeoverProofs` | theorems about `Takeover` |
| `Hotkeys` | options, `Start`, `Pause`, `Resume` and `Stop` with the hotkey listener |
| `HotkeysProofs` | theorems about `Hotkeys` and `HotkeyText` |
| `HotkeyText` | hotkeys and their texts; `Hotkeys` uses it |
| `PriorityQueue` | the heap, one step per swap |
| `JobQueue` | the queue the dispatcher relies on; `PriorityQueue` implements it |
| `PriorityQueueProofs` | theorems about `PriorityQueue`, the refinement among them |
| `Critical` | how one job is run on either path, on Windows and elsewhere |
| `CriticalProofs` | theorems about `Critical` |
| `SequenceLemmas` | facts on sequences and greatest elements that several proofs use |
| `FoldTheorems` | what a loop over a sequence computes, for sequences of every length |
| `MCDispatcher`, `MCTakeover`, `MCPriorityQueue`, `MCCritical`, `MCHotkeys` | instances for TLC |

### Dispatcher

A step is what the code does under one lock, or one channel operation, WaitGroup operation or
unlocked read or write outside of a lock. The control point of the native worker, of each CDP
worker and of the goroutine in `requestStop` is `pc`, and `job` is the job it holds; `call` is how
far the `Submit` of a job has got (checked under `Fleet.mu`, then queued or rejected under
`Dispatcher.mu`).

- The condition variable is the native worker at `"waiting"`; `Signal` and `Broadcast` are
  `WakeNative`, since no other goroutine waits on it.
- The field `cdpJobs` is `cdpField` (nil or not), apart from the channel itself (`chanBuf`,
  `chanClosed`). The native worker reads the field at `NativeForward`, a CDP worker at `CDPBegin`;
  `AbortClose` and `AbortClear` are its two unlocked accesses in `abortAll`. That is how the data
  race shows its outcomes: a send on the closed channel, a worker that ranges over nil.
- Both look-ups of the handle are steps: `NativeRoute` routes by the first, `RunExec` takes the
  driver of the second.
- `inflight` is the WaitGroup: `SignOff` is `Done`, and `WaitCall`/`WaitReturn` have its two
  panics (negative counter, reuse while a woken waiter has not returned).
- The driver calls of a job are one phase, `"exec"`, with any outcome; `Critical` opens it.
- The queue is a set from which `NativePop` takes the job before all others; that the heap does
  that is shown in `PriorityQueue`.
- `StopReconcile` is the teardown of the watchdog as the dispatcher sees it: its pause reason goes.
  `Takeover` has the steps of it.
- What the code does under `Dispatcher.mu` is one step, since no code keeps that lock over a wait or a
  callback (`cond.Wait` gives it up). A circle of locks through it is therefore not something the
  model could show.

`panic` ends the process: no action is enabled any more.

### Takeover

Clients call `Register`, `Unregister` and `Stop`, each in two parts: the registry under `Fleet.mu`
in one step, then `reconcileTakeover` with a step for the lock, the decision, the start of the
watchdog, the installation (or failure) of the hook, the uninstallation, `close(stopCh)` and the
wait for the run loop. The run loop has a step per branch of its `select` and per call out of it,
so that moves, timer and teardown come between. `Stop` continues with `abortAll` (`Abort`), and a
second `Stop` waits in `stopOnce`.

The hook is modelled down to its package: `hookInstalled` is the flag that `InstallMouseHook` swaps,
`callback` the package variable, `pump` the goroutine locked to the thread that hooks and pumps
messages, `quitPosted` its `WM_QUIT`. Installing waits for the thread's word (`InstallReady`,
`InstallFails`), uninstalling for its end. The OS calls the hook only while the thread pumps, which
is the guard of `RealMove`. Another fleet of the same process installs and uninstalls as it likes
(`OtherInstalls`, `OtherUninstalls`), each as one step; an install that meets its hook is refused.
On other platforms (`windows` is FALSE) both succeed and do nothing. The timer has the semantics Go gives
it since 1.23 (`go.mod` asks for a newer version): `Stop` and `Reset` leave no stale tick behind, which
the draining at `takeover_watchdog.go:94` guarded against in earlier versions. A client pauses and
resumes for a reason of its own (`UI`): `TakeoverOwned` says that it does not touch the watchdog's.

### Hotkeys

A configuration is the fold of a list of options over the defaults. Each `Start` gets a number, which
names the channel it makes and the listener it spawns; `hotkeyDone` is the field, and `mine` the
channel that a listener's deferred close got when its goroutine first ran (`Begin`): that is where
a second `Start` does its harm. The listener registers one hotkey per step, fails and gives back
what it has, or runs the message loop; its thread's message queue holds hotkeys pressed and the
`WM_QUIT` of the watcher. A callback runs on the listener: it is the same `Pause`, `Resume` and
`requestStop` that clients call, with the listener as caller, and the loop takes no message until it
is through. `Notify` is the call of `OnPause` or `OnResume`, after the dispatcher's lock is released. `ReasonOf` is the
reason a client pauses with; in the instance one has its own and the other that of the watchdog, whose
calls of `Pause` and `Resume` are like any client's here.
Of `requestStop` only what meets the listener is here: `stopOnce`, `Dispatcher.stopped`, the
context.

### HotkeyText

A text is a sequence of tokens as `ParseHotkey` sees them after `Split`, `TrimSpace` and `ToLower`: a
modifier, a key, or a word that is neither (an empty one too). `MeansItsText` says what a text means
without the loop; `TextMeaning` in `Hotkeys` states it of the set `Texts`, which the instance makes
all texts of up to four tokens, and the theorem `EveryTextMeans` of every sequence of tokens.

### PriorityQueue

`Push`, `UpSwap`, `UpEnd` are `heap.Push`; `PopSwap`, `DownSwap`, `DownEnd` are `heap.Pop`. For the
dispatcher an operation is atomic, under its lock; the model stops between swaps only to show the
order swap by swap. The sifts are Go's library (`container/heap`), marked external. A pop takes
effect in `JobQueue` at its first swap. `pop` on an empty heap returns nil; its only caller never
does that (`nativeWorker` returns or waits first), so it is not an action.

### Critical

One worker runs one job after another, on the native path (`executeCritical` under
`executeCriticalWithRetry`) or the remote path (`executeCDPOnly`). A step is one driver call, with
the context check that precedes it, and may succeed or fail in any way. On other platforms the
native worker takes the path of `Fallback`, which looks for a page but not at the context and then
goes the way of the remote path. `inputs` records the
inputs sent to the browser, counted when the call is made. `Expire` (the job's timeout) and
`Cancel` (`Stop`) come at any point, and so does `Migrate`: the goroutine continues on another OS
thread, which matters because a keyboard layout belongs to a thread.

## Runs

Passing runs finish; a violation run checks one property that a document or comment of the
repository states and that the code breaks.

| Run | Instance | Shows |
|---|---|---|
| `dispatcher` | 2 native-class jobs on one native browser, 2 CDP workers, channel of 1, one registration, 2 pause reasons | types; `OneHolder`, `NoJobLost`, `InflightExact`, `DeliverOnce`, `WaitSound`, `NoLostWakeup`, `NothingQueuedAfterStop`, `NativeExclusive`, `NoOvertaking`; the refinement `ImplementsContract` |
| `dispatcher_live` | 2 jobs (one click, one scroll), 1 CDP worker, fair | `EveryJobResolves`, `WaitReturns`, `WorkersEnd` |
| `takeover` | 2 clients, 2 native and 1 remote browser, another fleet, both platforms, fair | safety and liveness of the watchdog and the hook |
| `hotkeys` | 2 clients, 5 option lists, the resume hotkey free or taken, 1 `Start`, 2 calls, 2 presses, texts of up to 4 tokens, both platforms, fair | `AllOrNothing`, `NotifiedExactly`, `StopJoinsListener`, `TextMeaning`, `StopGoesThrough` |
| `priority_queue` | 6 jobs pushed in any order, priorities 9, 5, 5, 1, 1, 1 | heap order, the places in `heapIdx` (`TypeOK`), the refinement `ImplementsQueue` |
| `critical` | click, native and remote type, navigate, scroll, 2 retries, 2 threads, fair | inputs, attempts, cancellation, termination |
| `send_on_closed` | as `dispatcher_live` | **violated**: `Stop` closes the channel under the native worker's send (`dispatcher.go:125`): panic |
| `nil_channel` | as `dispatcher_live`, fair | **violated**: `Stop` clears the field before a CDP worker reads it (`dispatcher.go:126`): a forwarded job never resolves |
| `reregister` | as `dispatcher`, 1 CDP worker, an id registered twice | **violated**: a CDP worker drives the OS cursor beside the native worker (`dispatcher.go:195`, `222`) |
| `wait_reuse` | as `dispatcher_live` | **violated**: `Submit` while a woken `Wait` has not returned: WaitGroup panic (`fleet.go:492`) |
| `start_twice` | as `hotkeys`, 2 `Start`, 1 call | **violated**: two listeners close one channel (`fleet.go:408`): panic |
| `layout_thread` | as `critical` | **violated**: the layout is restored on another thread than it was forced on (`dispatcher_critical_windows.go:76`) |

The six findings are quoted with their documents in `PROJECT.json`.

### Bounds, and why they are enough

- *Jobs*: two are one in a worker's hand and one queued, in the channel, drained or being
  submitted, so that every pair of places two jobs can collide in occurs. For the order of more
  jobs, of several priorities, there is the theorem `NoOvertakingHolds`.
- *Channel*: a buffer of 1 is full with one job, so that a blocked send occurs with two jobs; the
  code has 64.
- *CDP workers*: two can hold a job each; with one, "the only worker is stuck" occurs.
- *Registrations* (`MaxRegs`): 1 in the passing runs, so that an id goes away and does not come
  back; 2 in `reregister`, the smallest at which it comes back. `NativeExclusive` holds only under
  the first: that is the finding.
- *Pause reasons*: two (a client's and the takeover's, which `Stop` also drops) in `dispatcher` and
  `takeover`, so that one goes while the other stays; one, the takeover's, in `dispatcher_live`.
- *Heap*: six items make three levels, with one child and with two at the last inner node, and
  ties on both sides of a sift.
- *Critical*: jobs are independent and may be run any number of times; `DriftRetries` = 2 has a
  first, a middle and a last attempt. `MovesBound` caps a counter one above what is allowed.
- *Hotkeys*: one `Start` in the passing run, since a second one panics (`start_twice`). Two calls and
  two presses let a callback run while a client pauses or stops, and put a message before and
  after the one that stops. The option lists have the defaults, a stop hotkey, two hotkeys that are
  the same, the zero hotkey a client gets when it ignores a parse error, and none at all. Texts of
  four tokens hold two modifiers and two keys, or an unknown token at each place.

Deadlock is not checked: a fleet that nobody uses any more, or that has panicked, stops.

### Fairness

- Goroutines that can run do run (weak fairness per goroutine). Clients owe nothing: a fleet need
  not be started, resumed or stopped.
- Driver calls end. The code gives native calls no deadline of its own beyond what the kits do, so
  a hung driver would hang a job, and a `Wait` with it; that is the premise of every liveness
  property here.
- `Lock` is strongly fair: Go's mutex hands over to a waiter that starves. `TakeMove` and
  `TakeStop` are strongly fair: Go's `select` picks at random among ready cases, so one that is
  ready again and again is taken.
- The hook's thread and the hotkey listener's go on as long as they have a message, and take their
  messages in order. The user and another fleet owe nothing.
- `EveryJobResolves` assumes that the fleet is in the end not paused, or is stopped; it,
  `WaitReturns` and `WorkersEnd` except a crash and a pool whose workers all found the channel nil
  (`PoolStuck`), the two findings of `Stop`. `StoppedJobsResolve`, which does not except it, is
  the violated one.

## Proofs

`DispatcherProofs` proves for every set of jobs, workers, browsers, priorities, reasons, every
channel capacity and every number of registrations, from the assumptions `ActorAssumption`,
`JobAssumption` and `BoundAssumption` of `Dispatcher` (the goroutines are distinct, jobs are
finitely many and not `NoJob`, the constants have their types):

| Theorem | `Spec => []` |
|---|---|
| `TypeCorrect` | `TypeOK` |
| `OneHolderHolds` | `OneHolder` |
| `NoJobLostHolds` | `NoJobLost` |
| `InflightHolds` | `InflightExact` |
| `DeliverOnceHolds` | `DeliverOnce` |
| `NothingQueuedHolds` | `NothingQueuedAfterStop` |
| `NoLostWakeupHolds` | `NoLostWakeup` |
| `WaitSoundHolds` | `WaitSound` |
| `NoOvertakingHolds` | `NoOvertaking` |
| `NativeExclusiveHolds`, if `MaxRegs <= 1` | `NativeExclusive` |

The inductive invariant is `TypeOK /\ Ownership /\ InflightExact` with `Ownership == OneHolder /\
NoJobLost /\ Fresh`. None of its parts is inductive alone. A pop keeps `OneHolder` only if the
native worker's hand was empty, which `TypeOK` says of its control point. `SignOff` keeps
`NoJobLost` only because the job it drops has its result, which `Fresh` says: a job's result is
empty exactly until its holder is about to sign it off. And `SignOff` keeps the counter in step
only because the job was in flight and in one place.

`OwnershipStep` has a case per action and proves with it `Flow`: a step leaves the jobs in flight
as they are, adds one and raises the counter, or removes one and lowers it. `InflightStep` turns
that into the equation with the cardinality. `DeliverOnce` follows. `NothingQueued` and
`NoLostWakeup` are inductive with the types; `WaitSound` follows from `InflightExact` (a counter
at zero means nothing is outstanding, `ZeroMeansSettled`) and from results never being taken back.

`NoOvertaking` needs `Numbered`: an accepted job has a sequence number, none exceeds
`insertSeq`, and two accepted jobs never share one, so that a job pushed later is later, and the one
popped, being before all others on the heap, was overtaking none of them.

`NativeExclusive` needs `PoolOffNative`: a job in the channel or with a CDP worker that needs the OS
has a browser that is gone or remote. A job is forwarded only if that holds (`OffNative`), and it
stays so only if the id is not registered again (`OffNativeStays`), which is where `MaxRegs <= 1`
comes in: `Known` says that an id with a job accepted was registered. So the pool never drives the
OS and the native worker is alone. With `MaxRegs = 2` the run `reregister` refutes it.

### The contract of a job

`ContractProofs` proves `ContractHolds == Spec => ImplementsContract`, from the same assumptions:
`Contract` is `JobContract` with the phase of a job (`Phase`) computed from its call, its result and
whether a goroutine is at its driver calls. The parts of the proof:

- `ContractInv == Driven /\ Rejections /\ WaitStrict` is what the mapping needs beyond the invariant
  of `DispatcherProofs`: who has a driver is between its look-up and the end of its job, so that
  `Phase` leaves "running" in the one step that delivers; `"rejected"` is the result of the jobs that
  `enqueue` turned away and of no other.
- `UsersStep`: only the look-up of a handle and a delivery change who is at a driver. With
  `OneHolder` it follows that at most one job changes its phase.
- `SubmitMoves`, `RunMoves`, `AbortMoves`, `WaitMoves` map the actions that move a job (or `Wait`) to
  the action of the contract, and `OtherSteps` the rest to a stutter.
- `WaitMoves` is where safety is used: `Wait` may return in the contract only when every job it met is
  settled, which `InflightExact` and `ZeroMeansSettled` give at a counter of zero.

### The heap

`PriorityQueueProofs` proves for any set of jobs with any priorities, from
`PriorityAssumption`:

| Theorem | |
|---|---|
| `QueueTypes` | `Spec => []TypeOK`, with it that `heapIdx` is where each item is |
| `HeapOrderHolds` | `Spec => []HeapOrder` |
| `QueueRefinement` | `Spec => ImplementsQueue` |

`TypeOK` needs `Numbered` (sequence numbers are positive for what is on the heap, at most
`insertSeq`, and distinct), because `push` must not meet a job that is there already. `HeapOrder`
speaks of the heap between operations and is inductive only with what the sifts keep: while an item
goes up (`OrderedUp`) every item but the one at `cur` is in order with its parent, and the children of
`cur` are in order with their grandparent; while one goes down (`OrderedDown`), every item but the
children of `cur`, the one to be popped at the end left out. `UpSwapOrder` and
`DownSwapOrder` are one swap of each; that the swap is with the better child is used in the latter.
`RootIsFirst` is the reason for the order: in an ordered heap the root is before every other item, for
the least index of an item that the root is not before would have its parent as an even smaller one
(`LeastIndex`, so that no induction is needed). With it `QueueStep` maps the first swap of a pop, which
brings the root to the end, to the pop of the queue, and every other swap to a stutter.

`TakeoverProofs` proves every safety property of `Takeover` for any number of goroutines and browsers,
on either platform, from `ClientAssumption` (the lock is not a client, the two pause reasons differ)
and `BrowserAssumption` (finitely many browsers, each native or remote):

| Theorem | `Spec => []` |
|---|---|
| `TakeoverTypes` | `TypeOK` |
| `CountExactHolds` | `CountExact` |
| `ConvergedHolds` | `Converged` |
| `OneWatchdogHolds` | `OneWatchdog` |
| `HookFedHolds` | `HookFed` |
| `TakeoverOwnedHolds` | `TakeoverOwned` |
| `StoppedCleanHolds` | `StoppedClean` |
| `WillResumeHolds` | `WillResume` |

The inductive invariant is `TypeOK /\ Protocol`. `TypeOK` says that the clients in the locked part are
the holder of `takeoverMu`, so `Phase`, the control point of that holder, stands for all of them.
`PhaseInv` says for each phase what has been set up or torn down by then: run loop, hook thread,
flag, quit message. `FlagInv` says whose the process-wide flag and callback are; with it another
fleet's steps change nothing the watchdog relies on. `StopInv` follows the body of `requestStop` up
to `abortAll` and says that nothing is left by then; it needs `PhaseInv` where the stopper unlocks.
`PauseInv` ties the pause reason to the variable `paused` of the run loop; it needs `StopInv`,
because a resume of a stopped dispatcher would leave the reason. `ConvInv` says that someone is yet
to reconcile, or the holder is putting things right, or they are right. `CountExact` is inductive
with the types.

`CriticalProofs` proves the safety properties of `Critical` for any jobs, number of retries and OS
threads, from `JobAssumption` and `RetryAssumption`:

| Theorem | `Spec => []` |
|---|---|
| `CriticalTypes` | `TypeOK` |
| `InputsFollowPlanHolds` | `InputsFollowPlan` |
| `DoneMeansAllHolds` | `DoneMeansAll` |
| `AttemptsBoundedHolds` | `AttemptsBounded` |
| `LayoutRestoredHolds`, if `Pinned` | `LayoutRestored` |

`Progress` says what has been sent at each control point (`TypingSent`, `CallSent`): nothing before the
click, which is why a retry repeats no input, and the whole plan where the outcome is about to be
done. `Attempts` says that a cursor move belongs to an attempt begun.

`LayoutRestoredHolds` is `Spec /\ Pinned => []LayoutRestored`. `Pinned` says that the goroutine stays on
its OS thread from `ForceENUSLayout` to `RestoreLayout`, which `runtime.LockOSThread` would give and the
code does not call; `layout_thread` shows the layout left behind. The theorem says that this is all that
is missing: whatever fails, is cancelled or retried, the layout is restored (`LayoutKept`).

`HotkeysProofs` proves every safety property that `hotkeys` checks, for any clients, options, texts, hotkeys that
other programs hold and bounds, from `BoundAssumption`, `CallerAssumption`, `OptionAssumption`,
`TakenAssumption`, `TextAssumption` and the two of `HotkeyText`:

| Theorem | `Spec => []` |
|---|---|
| `AllOrNothingHolds` | `AllOrNothing` |
| `NotifiedExactlyHolds` | `NotifiedExactly` |
| `StopJoinsListenerHolds`, if `MaxStarts <= 1` | `StopJoinsListener` |
| `HotkeysTypes` | `TypeOK` |
| `TextMeaningHolds` | `TextMeaning` |

`Shape` is the part of the types that the arguments use and `HeldInv` says what a listener holds at
each control point and what will end its loop; each needs the other. `NotifiedExactly` is inductive
with `Shape`: `Moved` says how a caller's step changes how many are about to notify. `JoinInv`, for
one `Start`, says that the field `hotkeyDone` is the channel of the only listener there is, so the
`Stop` that reads it waits for the right one; `start_twice` shows what a second `Start` does.

The types of `Hotkeys` are `Shape` and three more groups, each kept by every step (`SettingsStep`,
`ChannelsStep`, `RunningStep`). Their hard part is the difference between the calls of `OnPause` and
`OnResume`, which the code does not bound by one: any number of goroutines may each have changed
the pause state and not yet called back, so it goes from minus to plus the number of callers
(`BalanceBound`, from `NotifiedExactly` and `Running`). The bound of -1 that a run with two calls
suggests does not hold with three.

### Loops

`ParseHotkey` and `New` loop over a list of any length, and the models have `FoldLeft` for the loop.
The library defines it by a recursive function over sets of indices, about which no theorem is
at hand. `FoldTheorems` proves the rule that the theorems on them cite, `FoldInduction`: if a formula holds before the loop and its body
keeps it from each element to the next, it holds of the result, for every sequence. It takes the
loop's body and its invariant as constants, and a module that needs it takes an instance. The
existence of the recursive function is shown first (`LoopExists`), and both it and the rule go by the
least index at which they would fail. With it are proved:

- `Configured`: options in any number and order leave a configuration of every kind of hotkey;
- `ParseIs`: the parser has an error exactly if a token is unknown or a key or modifier is missing,
  and else the modifiers seen and the last key, by the loop invariant `ReadSoFar`;
- `EveryTextMeans`: with `RenderIs` (what `String` writes contains the modifiers and the key of its
  hotkey and no others), every text means what it says and what `String` writes of it parses to the
  same hotkey.

### Only model-checked

Liveness under fairness is out of the prover's reach: `EveryJobResolves`, `WaitReturns`, `WorkersEnd`
of `Dispatcher`, `CallsReturn`, `MovePauses`, `AutoResumes` of `Takeover`, `CancelledAsleep`,
`EveryRunEnds` of `Critical` and `StopGoesThrough` of `Hotkeys`. Every invariant and both refinements that
the passing runs check are proved. Of the six properties that runs refute, two are proved under the
premise the code lacks: `NativeExclusive` (ids not registered twice) and `LayoutRestored` (`Pinned`).
The others are not: the premise that would save `WaitNeverPanics` or `NoDoubleClose` forbids the one
step that can break it, so that a theorem would say little, and `NeverSendsOnClosed` and
`StoppedJobsResolve` are races of `Stop` with the workers.

## Not modelled

- What the callbacks `OnPause`, `OnResume` and `OnStop` do, which is client code. A callback that calls
  `Stop` waits for the goroutine it runs on (the listener for the hotkeys, the run loop for the
  watchdog), and an `OnStop` that calls `Wait` waits for the `abortAll` that comes after it. In which
  order two callbacks in quick succession run is not stated by any property: they are called after
  the lock is released, and `NotifiedExactly` counts them only.
- `Snapshot` and `hasReason`: they only read.
- Selectors, coordinates, texts, results' ids and times, logging, and the validation of jobs,
  actions and handles before anything is shared.
- Options other than those of hotkeys (numbers that the modules have as CONSTANTS), drivers and
  adapters, and examples. `runHotkeyListener`, which nothing calls.
- Several `Wait` callers: the model has one, called once.
- `GetMessage` returning -1, its error: the code then ends the hook's pump
  (`internal/winapi/mouse_hook_windows.go:140`) or the listener's loop (`hotkey_windows.go:101`) as it does
  on `WM_QUIT`. In the models only `WM_QUIT` ends them (`PumpQuits`, `Quit`). With the arguments the code
  passes the error is not expected; if it came, the fleet would go on without takeover, or without
  hotkeys.
- A client that resumes with the watchdog's own reason, which is exported for readers of the status.
  `TakeoverOwned` says that nobody else drops it.
- A stale tick of a timer, see `Takeover` above.

## Documents that the code does not follow

Beside the six findings, met while modelling and not given a run:

- `docs/system-architecture.md:101` and `:381` have `Stop` wait for jobs in flight, and
  `docs/code-standards.md:193` has it wait on the WaitGroup until all workers have ended. It does
  neither: it waits for the hotkey listener only; `Wait` is the call that waits, for the jobs and not
  for the workers (`WorkersEnd` says when those end).
- `docs/system-architecture.md:103` has `Wait` block until `Stop` is called. It returns as soon as no
  job is in flight (`WaitSound`), whether or not the fleet is stopped.
- `docs/system-architecture.md:101`, `:378` and `:506` have the job in flight finish cleanly at `Stop`,
  with no interruption. `Stop` cancels the context of every job (`fleet.go:480` says so), and a job that
  looks at it between two inputs ends as cancelled with its action half done: `InputsFollowPlan`
  says that what was sent is a beginning of the action.
- `docs/system-architecture.md:506` and `:508` have the pending jobs dropped, without a result, when the
  queue is drained. `abortAll` delivers `StatusCancelled` to each, as line 101 of that file says
  and `NoJobLost` shows.
- `docs/system-architecture.md:507` and `docs/code-standards.md:192` have all workers end on `Stop`. A
  CDP worker that finds the field cleared ranges over nil and does not (`nil_channel`).
- `docs/system-architecture.md:265`, `docs/codebase-summary.md:187`, `docs/project-overview-pdr.md:54` and
  `docs/project-changelog.md:194` have `Pause` wait for the job in flight. It returns at once and only
  keeps the next job from being popped.
- `docs/system-architecture.md:407` has a listener goroutine per hotkey. There is one for all, which
  registers all or none (`AllOrNothing`).
- `docs/code-standards.md:63`, `docs/project-changelog.md:113` and `:191` and
  `docs/development-roadmap.md:33` have a drift retried once. It is retried `driftRetries` times, three by
  default (`docs/project-changelog.md:57`, `AttemptsBounded`).
- `docs/code-standards.md:188` calls `cdpJobs` unbuffered. It has room for 64 jobs (`dispatcher.go:69`).
- `fleet.go:490` says `Wait` "returns immediately if stopped". It waits for the counter to reach zero,
  also after `Stop` (`WaitCall` has no other condition; `WaitReturns` shows that it ends).
- `fleet.go:122` calls `WithStopHotkeyDisabled` a no-op. It takes back a `WithStopHotkey` before it.
- `README.md:72` says pause "blocks after the current job completes". Up to 64 jobs in the channel
  and one in each worker's hand start or go on.
- `docs/codebase-summary.md:31` says the hotkey stubs return immediately. They wait for the context,
  and `Stop` for them.
- A fleet whose hook was refused, because another fleet has it, tries again only at its next
  `Register`, `Unregister` or `Stop`.

## Plan

Written so far: every module of the table, with the proofs of all safety properties and of both
refinements. Next, in this order:

1. The safety half of `CancelledAsleep`, proved: a job whose context ends while it sleeps sends no
   input.
2. The safety part of liveness, proved: that in every reachable state in which a job is unresolved some
   goroutine other than a paused one can take a step for it.
3. Several callers of `Wait`, each with the jobs it met.
