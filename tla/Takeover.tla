------------------------------ MODULE Takeover ------------------------------
(***************************************************************************)
(* The mouse-takeover watchdog (takeover_watchdog.go) and its installation *)
(* from fleet.go: Register, Unregister and Stop each change the registry   *)
(* under Fleet.mu and then reconcile the watchdog and the mouse hook with  *)
(* it under takeoverMu; the run loop of the watchdog pauses the dispatcher *)
(* on a real mouse move and resumes it after an idle period.  The hook     *)
(* (internal/winapi/mouse_hook_windows.go) is the process's only one: its  *)
(* flag hookInstalled and its callback are package variables, which        *)
(* another fleet of the process may have taken; its thread installs it in  *)
(* the OS and pumps messages, as long as which the OS calls it.            *)
(*                                                                         *)
(* The idle timer is Go's since 1.23: Stop and Reset leave no stale tick   *)
(* in its channel.                                                         *)
(***************************************************************************)
EXTENDS Integers, FiniteSets

CONSTANTS
    Clients,    \* goroutines that call Register, Unregister and Stop
    Free,       \* not a client: takeoverMu is unlocked
    Browsers,   \* browser ids
    Kind,       \* [Browsers -> {"native", "remote"}]: the Native flag of the handle
    UI,         \* the pause reason of the clients
    Takeover    \* ReasonUserTakeover

ASSUME ClientAssumption == Free \notin Clients /\ UI # Takeover
ASSUME BrowserAssumption ==
    IsFiniteSet(Browsers) /\ Kind \in [Browsers -> {"native", "remote"}]

VARIABLES
    registered,     \* the ids in Fleet.handles
    nativeCount,    \* Fleet.nativeCount
    stopped,        \* Fleet.stopped
    dstopped,       \* Dispatcher.stopped
    pauseReasons,   \* Dispatcher.pauseReasons
    pc,             \* the control point of each client
    stopper,        \* the client in the body of requestStop, if any
    takeoverMu,     \* the holder of the lock
    installed,      \* Fleet.watchdog is non-nil
    failed,         \* the last installation of the hook failed
    windows,        \* the platform: elsewhere there is no hook
    hookInstalled,  \* the package's flag
    theirs,         \* another fleet has the hook
    callback,       \* realMoveCallback: "none", "ours" or "theirs"
    pump,           \* the control point of the hook's thread
    quitPosted,     \* its message queue holds WM_QUIT
    run,            \* the control point of the run loop
    token,          \* the watchdog's moves channel holds a token
    stopCh,         \* its stopCh is closed
    timer,          \* its idle timer
    paused          \* the local variable of the run loop

regVars == <<registered, nativeCount, stopped, dstopped>>
clientVars == <<pc, stopper, takeoverMu>>
watchVars == <<installed, failed>>
flagVars == <<windows, hookInstalled, theirs>>
pumpVars == <<callback, pump, quitPosted>>
hookVars == <<watchVars, flagVars, pumpVars>>
runVars == <<run, token, stopCh, timer, paused>>
vars == <<regVars, pauseReasons, clientVars, hookVars, runVars>>

Init ==
    /\ registered = {}
    /\ nativeCount = 0
    /\ stopped = FALSE
    /\ dstopped = FALSE
    /\ pauseReasons = {}
    /\ pc = [c \in Clients |-> "idle"]
    /\ stopper = Free
    /\ takeoverMu = Free
    /\ installed = FALSE
    /\ failed = FALSE
    /\ windows \in BOOLEAN
    /\ hookInstalled = FALSE
    /\ theirs = FALSE
    /\ callback = "none"
    /\ pump = "off"
    /\ quitPosted = FALSE
    /\ run = "off"
    /\ token = FALSE
    /\ stopCh = FALSE
    /\ timer = "stopped"
    /\ paused = FALSE

Goto(c, p) == pc' = [pc EXCEPT ![c] = p]

-----------------------------------------------------------------------------
(* The parts under Fleet.mu.                                               *)

Counts(b) == IF Kind[b] = "native" THEN 1 ELSE 0
CountsAny(b) == 1

Register(c, b) ==
    /\ pc[c] = "idle"
    /\ b \notin registered
    /\ registered' = registered \cup {b}
    /\ nativeCount' = nativeCount + Counts(b)
    /\ Goto(c, "reconcile")
    /\ UNCHANGED <<stopped, dstopped, pauseReasons, stopper, takeoverMu, hookVars, runVars>>

UncountedAny(b) == IF nativeCount > 0 THEN CountsAny(b) ELSE 0
Uncounted(b) == IF nativeCount > 0 THEN Counts(b) ELSE 0

Unregister(c, b) ==
    /\ pc[c] = "idle"
    /\ b \in registered
    /\ registered' = registered \ {b}
    /\ nativeCount' = nativeCount - Uncounted(b)
    /\ Goto(c, "reconcile")
    /\ UNCHANGED <<stopped, dstopped, pauseReasons, stopper, takeoverMu, hookVars, runVars>>

(* requestStop, under stopOnce: the first call runs the body ...           *)
Stop(c) ==
    /\ pc[c] = "idle"
    /\ ~stopped
    /\ stopped' = TRUE
    /\ stopper' = c
    /\ Goto(c, "reconcile")
    /\ UNCHANGED <<registered, nativeCount, dstopped, pauseReasons, takeoverMu, hookVars, runVars>>

(* ... and one that comes meanwhile returns when the body is through.      *)
StopAgain(c) ==
    /\ pc[c] = "idle"
    /\ stopper # Free
    /\ Goto(c, "once")
    /\ UNCHANGED <<regVars, pauseReasons, stopper, takeoverMu, hookVars, runVars>>

StopAwaited(c) ==
    /\ pc[c] = "once"
    /\ stopper = Free
    /\ Goto(c, "idle")
    /\ UNCHANGED <<regVars, pauseReasons, stopper, takeoverMu, hookVars, runVars>>

-----------------------------------------------------------------------------
(* reconcileTakeover.                                                      *)

LockTaken(c) ==
    /\ pc[c] = "reconcile"
    /\ takeoverMu' = c
    /\ Goto(c, "decide")
    /\ UNCHANGED <<regVars, pauseReasons, stopper, hookVars, runVars>>

Lock(c) ==
    /\ pc[c] = "reconcile"
    /\ takeoverMu = Free
    /\ takeoverMu' = c
    /\ Goto(c, "decide")
    /\ UNCHANGED <<regVars, pauseReasons, stopper, hookVars, runVars>>

WantIfNative == nativeCount > 0
Want == nativeCount > 0 /\ ~stopped

Decide(c) ==
    /\ pc[c] = "decide"
    /\ Goto(c, IF Want /\ ~installed THEN "start"
               ELSE IF ~Want /\ installed THEN "uninstall" ELSE "unlock")
    /\ UNCHANGED <<regVars, pauseReasons, stopper, takeoverMu, hookVars, runVars>>

(* Stop goes on to abortAll; Register and Unregister return.               *)
Unlock(c) ==
    /\ pc[c] = "unlock"
    /\ takeoverMu' = Free
    /\ Goto(c, IF stopper = c THEN "abort" ELSE "idle")
    /\ UNCHANGED <<regVars, pauseReasons, stopper, hookVars, runVars>>

Abort(c) ==
    /\ pc[c] = "abort"
    /\ dstopped' = TRUE
    /\ stopper' = Free
    /\ Goto(c, "idle")
    /\ UNCHANGED <<registered, nativeCount, stopped, pauseReasons, takeoverMu, hookVars, runVars>>

(* startTakeoverLocked: a fresh watchdog, then the hook that feeds it.     *)
StartWatchdog(c) ==
    /\ pc[c] = "start"
    /\ run' = "select"
    /\ token' = FALSE
    /\ stopCh' = FALSE
    /\ timer' = "stopped"
    /\ paused' = FALSE
    /\ Goto(c, "install")
    /\ UNCHANGED <<regVars, pauseReasons, stopper, takeoverMu, hookVars>>

(* InstallMouseHook: who swaps the flag starts the thread, and waits for   *)
(* its word; a thread that could not hook has ended when Install fails.    *)
InstallUnchecked(c) ==
    /\ pc[c] = "install"
    /\ windows
    /\ hookInstalled' = TRUE
    /\ pump' = "begin"
    /\ Goto(c, "ready")
    /\ UNCHANGED <<regVars, pauseReasons, stopper, takeoverMu, watchVars, windows, theirs, callback,
                   quitPosted, runVars>>
InstallHook(c) ==
    /\ pc[c] = "install"
    /\ windows
    /\ ~hookInstalled
    /\ hookInstalled' = TRUE
    /\ pump' = "begin"
    /\ Goto(c, "ready")
    /\ UNCHANGED <<regVars, pauseReasons, stopper, takeoverMu, watchVars, windows, theirs, callback,
                   quitPosted, runVars>>

InstallRefused(c) ==
    /\ pc[c] = "install"
    /\ windows
    /\ hookInstalled
    /\ failed' = TRUE
    /\ Goto(c, "close")
    /\ UNCHANGED <<regVars, pauseReasons, stopper, takeoverMu, installed, flagVars, pumpVars, runVars>>

InstallReady(c) ==
    /\ pc[c] = "ready"
    /\ pump = "loop"
    /\ installed' = TRUE
    /\ failed' = FALSE
    /\ Goto(c, "unlock")
    /\ UNCHANGED <<regVars, pauseReasons, stopper, takeoverMu, flagVars, pumpVars, runVars>>

InstallFails(c) ==
    /\ pc[c] = "ready"
    /\ pump = "off"
    /\ hookInstalled' = FALSE
    /\ failed' = TRUE
    /\ Goto(c, "close")
    /\ UNCHANGED <<regVars, pauseReasons, stopper, takeoverMu, installed, windows, theirs, pumpVars,
                   runVars>>

(* On other platforms installing and uninstalling succeed and do nothing.  *)
InstallStub(c) ==
    /\ pc[c] = "install"
    /\ ~windows
    /\ installed' = TRUE
    /\ failed' = FALSE
    /\ Goto(c, "unlock")
    /\ UNCHANGED <<regVars, pauseReasons, stopper, takeoverMu, flagVars, pumpVars, runVars>>

UninstallStub(c) ==
    /\ pc[c] = "uninstall"
    /\ ~windows
    /\ Goto(c, "close")
    /\ UNCHANGED <<regVars, pauseReasons, stopper, takeoverMu, hookVars, runVars>>

(* The hook's thread.  Its deferred calls unhook, then clear the callback, *)
(* then close the channel done.                                            *)
PumpBegin ==
    /\ pump = "begin"
    /\ callback' = "ours"
    /\ pump' = "hooking"
    /\ UNCHANGED <<regVars, pauseReasons, clientVars, watchVars, flagVars, quitPosted, runVars>>

PumpHooks ==
    /\ pump = "hooking"
    /\ pump' = "loop"
    /\ UNCHANGED <<regVars, pauseReasons, clientVars, watchVars, flagVars, callback, quitPosted, runVars>>

PumpFails ==
    /\ pump = "hooking"
    /\ pump' = "clear"
    /\ UNCHANGED <<regVars, pauseReasons, clientVars, watchVars, flagVars, callback, quitPosted, runVars>>

PumpQuits ==
    /\ pump = "loop"
    /\ quitPosted
    /\ quitPosted' = FALSE
    /\ pump' = "clear"
    /\ UNCHANGED <<regVars, pauseReasons, clientVars, watchVars, flagVars, callback, runVars>>

PumpEnds ==
    /\ pump = "clear"
    /\ callback' = "none"
    /\ pump' = "off"
    /\ UNCHANGED <<regVars, pauseReasons, clientVars, watchVars, flagVars, quitPosted, runVars>>

(* Another fleet of the process does the same with its own thread.         *)
OtherInstalls ==
    /\ windows
    /\ ~hookInstalled
    /\ hookInstalled' = TRUE
    /\ theirs' = TRUE
    /\ callback' = "theirs"
    /\ UNCHANGED <<regVars, pauseReasons, clientVars, watchVars, windows, pump, quitPosted, runVars>>

OtherUninstalls ==
    /\ theirs
    /\ hookInstalled' = FALSE
    /\ theirs' = FALSE
    /\ callback' = "none"
    /\ UNCHANGED <<regVars, pauseReasons, clientVars, watchVars, windows, pump, quitPosted, runVars>>

(* stopTakeoverLocked: uninstall posts WM_QUIT and returns when the hook's *)
(* thread is gone, then watchdog.stop closes stopCh and waits for the run  *)
(* loop to end.                                                            *)
PostQuit(c) ==
    /\ pc[c] = "uninstall"
    /\ windows
    /\ quitPosted' = TRUE
    /\ Goto(c, "uninstalling")
    /\ UNCHANGED <<regVars, pauseReasons, stopper, takeoverMu, watchVars, flagVars, callback, pump,
                   runVars>>

UninstallAtOnce(c) ==
    /\ pc[c] = "uninstalling"
    /\ hookInstalled' = FALSE
    /\ Goto(c, "close")
    /\ UNCHANGED <<regVars, pauseReasons, stopper, takeoverMu, watchVars, windows, theirs, pumpVars,
                   runVars>>
UninstallHook(c) ==
    /\ pc[c] = "uninstalling"
    /\ pump = "off"
    /\ hookInstalled' = FALSE
    /\ Goto(c, "close")
    /\ UNCHANGED <<regVars, pauseReasons, stopper, takeoverMu, watchVars, windows, theirs, pumpVars,
                   runVars>>

CloseNothing(c) ==
    /\ pc[c] = "close"
    /\ Goto(c, "join")
    /\ UNCHANGED <<regVars, pauseReasons, stopper, takeoverMu, hookVars, runVars>>

CloseStopCh(c) ==
    /\ pc[c] = "close"
    /\ stopCh' = TRUE
    /\ Goto(c, "join")
    /\ UNCHANGED <<regVars, pauseReasons, stopper, takeoverMu, hookVars, run, token, timer, paused>>

JoinNothing(c) ==
    /\ pc[c] = "join"
    /\ installed' = FALSE
    /\ Goto(c, "unlock")
    /\ UNCHANGED <<regVars, pauseReasons, stopper, takeoverMu, failed, flagVars, pumpVars, runVars>>

Join(c) ==
    /\ pc[c] = "join"
    /\ run = "off"
    /\ installed' = FALSE
    /\ Goto(c, "unlock")
    /\ UNCHANGED <<regVars, pauseReasons, stopper, takeoverMu, failed, flagVars, pumpVars, runVars>>

-----------------------------------------------------------------------------
(* The dispatcher's pause and resume.                                      *)

PauseWith(r) ==
    pauseReasons' = IF dstopped THEN pauseReasons ELSE pauseReasons \cup {r}

ResumeWith(r) ==
    pauseReasons' = IF dstopped THEN pauseReasons ELSE pauseReasons \ {r}

PauseUI ==
    /\ PauseWith(UI)
    /\ UNCHANGED <<regVars, clientVars, hookVars, runVars>>

ResumeUI ==
    /\ ResumeWith(UI)
    /\ UNCHANGED <<regVars, clientVars, hookVars, runVars>>

-----------------------------------------------------------------------------
(* The hook callback and the run loop.                                     *)

(* notify, from the OS, which calls the hook while its thread pumps        *)
(* messages: tokens coalesce, the callback never blocks.                   *)
RealMove ==
    /\ pump = "loop"
    /\ callback = "ours"
    /\ token' = TRUE
    /\ UNCHANGED <<regVars, pauseReasons, clientVars, hookVars, run, stopCh, timer, paused>>

TakeMove ==
    /\ run = "select"
    /\ token
    /\ token' = FALSE
    /\ run' = IF paused THEN "reset" ELSE "pause"
    /\ UNCHANGED <<regVars, pauseReasons, clientVars, hookVars, stopCh, timer, paused>>

PauseFleet ==
    /\ run = "pause"
    /\ PauseWith(Takeover)
    /\ paused' = TRUE
    /\ run' = "reset"
    /\ UNCHANGED <<regVars, clientVars, hookVars, token, stopCh, timer>>

ResetNothing ==
    /\ run = "reset"
    /\ run' = "select"
    /\ UNCHANGED <<regVars, pauseReasons, clientVars, hookVars, token, stopCh, timer, paused>>

ResetTimer ==
    /\ run = "reset"
    /\ timer' = "armed"
    /\ run' = "select"
    /\ UNCHANGED <<regVars, pauseReasons, clientVars, hookVars, token, stopCh, paused>>

TimerFires ==
    /\ timer = "armed"
    /\ timer' = "fired"
    /\ UNCHANGED <<regVars, pauseReasons, clientVars, hookVars, run, token, stopCh, paused>>

TakeTimer ==
    /\ run = "select"
    /\ timer = "fired"
    /\ timer' = "stopped"
    /\ run' = IF paused THEN "resume" ELSE "select"
    /\ UNCHANGED <<regVars, pauseReasons, clientVars, hookVars, token, stopCh, paused>>

ResumeForgets ==
    /\ run = "resume"
    /\ ResumeWith(Takeover)
    /\ run' = "select"
    /\ UNCHANGED <<regVars, clientVars, hookVars, token, stopCh, timer, paused>>

ResumeFleet ==
    /\ run = "resume"
    /\ ResumeWith(Takeover)
    /\ paused' = FALSE
    /\ run' = "select"
    /\ UNCHANGED <<regVars, clientVars, hookVars, token, stopCh, timer>>

LeaveAlways(p) == "off"
Leave(p) == IF p THEN "leave" ELSE "off"

TakeStop ==
    /\ run = "select"
    /\ stopCh
    /\ timer' = "stopped"
    /\ run' = Leave(paused)
    /\ UNCHANGED <<regVars, pauseReasons, clientVars, hookVars, token, stopCh, paused>>

LeaveResumed ==
    /\ run = "leave"
    /\ ResumeWith(Takeover)
    /\ run' = "off"
    /\ UNCHANGED <<regVars, clientVars, hookVars, token, stopCh, timer, paused>>

-----------------------------------------------------------------------------
Reconciling(c) ==
    \/ Lock(c) \/ Decide(c) \/ Unlock(c) \/ Abort(c) \/ StartWatchdog(c) \/ InstallHook(c)
    \/ InstallRefused(c) \/ InstallReady(c) \/ InstallFails(c) \/ PostQuit(c) \/ UninstallHook(c)
    \/ InstallStub(c) \/ UninstallStub(c) \/ CloseStopCh(c) \/ Join(c) \/ StopAwaited(c)

Pump == PumpBegin \/ PumpHooks \/ PumpFails \/ PumpQuits \/ PumpEnds

RunLoop ==
    \/ TakeMove \/ PauseFleet \/ ResetTimer \/ TakeTimer \/ ResumeFleet \/ TakeStop
    \/ LeaveResumed

Next ==
    \/ \E c \in Clients :
        \/ \E b \in Browsers : Register(c, b) \/ Unregister(c, b)
        \/ Stop(c) \/ StopAgain(c)
        \/ Reconciling(c)
    \/ PauseUI \/ ResumeUI
    \/ Pump
    \/ OtherInstalls \/ OtherUninstalls
    \/ RealMove
    \/ RunLoop
    \/ TimerFires

Spec == Init /\ [][Next]_vars

(* Goroutines that can run do, timers fire, and the goroutine at the head  *)
(* of a mutex gets it: Go's sync.Mutex hands over to a starving waiter.    *)
(* The select of the run loop is random, so a case ready again and again   *)
(* is taken.  Clients, the other fleet and the user's hand on the mouse owe *)
(* nothing.                                                                *)
Fairness ==
    /\ \A c \in Clients : WF_vars(Reconciling(c)) /\ SF_vars(Lock(c))
    /\ WF_vars(Pump)
    /\ WF_vars(RunLoop)
    /\ SF_vars(TakeStop) /\ SF_vars(TakeMove)
    /\ WF_vars(TimerFires)

FairSpec == Spec /\ Fairness

-----------------------------------------------------------------------------
(* Safety.                                                                 *)

Locked == {"decide", "start", "install", "ready", "uninstall", "uninstalling", "close", "join", "unlock"}
ClientPcs == Locked \cup {"idle", "reconcile", "abort", "once"}

(* Every variable has its type, and a client is in the locked part of      *)
(* reconcileTakeover exactly when it holds the lock.                       *)
TypeOK ==
    /\ registered \subseteq Browsers
    /\ nativeCount \in Nat
    /\ stopped \in BOOLEAN
    /\ dstopped \in BOOLEAN
    /\ pauseReasons \subseteq {UI, Takeover}
    /\ pc \in [Clients -> ClientPcs]
    /\ stopper \in Clients \cup {Free}
    /\ takeoverMu \in Clients \cup {Free}
    /\ \A c \in Clients : takeoverMu = c <=> pc[c] \in Locked
    /\ installed \in BOOLEAN
    /\ failed \in BOOLEAN
    /\ windows \in BOOLEAN
    /\ hookInstalled \in BOOLEAN
    /\ theirs \in BOOLEAN
    /\ callback \in {"none", "ours", "theirs"}
    /\ pump \in {"off", "begin", "hooking", "loop", "clear"}
    /\ quitPosted \in BOOLEAN
    /\ run \in {"off", "select", "pause", "reset", "resume", "leave"}
    /\ token \in BOOLEAN
    /\ stopCh \in BOOLEAN
    /\ timer \in {"stopped", "armed", "fired"}
    /\ paused \in BOOLEAN

(* The count that gates the hook is the number of native handles, however  *)
(* registrations of native and remote browsers mix (fleet.go, Unregister:  *)
(* "decrementing on a non-native handle would corrupt the hook gate").     *)
CountExact == nativeCount = Cardinality({b \in registered : Kind[b] = "native"})

(* Racing Register, Unregister and Stop calls converge: when none of them  *)
(* is under way, the watchdog is installed if and only if it should be,    *)
(* unless the hook could not be installed.                                 *)
Converged ==
    (\A c \in Clients : pc[c] = "idle") =>
        /\ installed => nativeCount > 0 /\ ~stopped
        /\ nativeCount > 0 /\ ~stopped => installed \/ failed
        /\ pump = (IF installed /\ windows THEN "loop" ELSE "off")

(* A run loop is started only when the one before it has ended, and the    *)
(* hook is installed only when the one before it is gone, so a move always *)
(* reaches the watchdog in charge.                                         *)
OneWatchdog ==
    \A c \in Clients :
        /\ pc[c] = "start" => run = "off" /\ pump = "off"
        /\ pc[c] = "install" => run # "off" /\ pump = "off"

(* While the OS calls the hook, its callback is the one of this fleet's    *)
(* watchdog, which listens; and the thread never clobbers the callback of  *)
(* another fleet, though the variable is one for the process (mouse_hook_  *)
(* windows.go:59: "a second concurrent install would silently clobber the  *)
(* first").                                                                *)
HookFed ==
    /\ pump = "loop" => callback = "ours" /\ run \notin {"off", "leave"} /\ ~stopCh
    /\ theirs => callback = "theirs" /\ pump = "off"

(* The user-takeover reason is active exactly as long as the run loop      *)
(* believes it is, so that no client who pauses and resumes for a reason   *)
(* of its own takes it away; once the loop has ended it is gone.           *)
TakeoverOwned ==
    /\ run # "off" => (Takeover \in pauseReasons <=> paused)
    /\ run = "off" => Takeover \notin pauseReasons

(* Stop reaches abortAll only when the watchdog is gone: a stopped         *)
(* dispatcher, whose resume does nothing, is not left paused by it.        *)
StoppedClean ==
    dstopped => Takeover \notin pauseReasons /\ pump = "off" /\ ~installed

(* While the fleet is auto-paused, something is about to resume it: the    *)
(* timer runs or has fired, or the loop is about to reset it or to resume. *)
WillResume ==
    paused /\ run = "select" => timer \in {"armed", "fired"}

-----------------------------------------------------------------------------
(* Liveness, under FairSpec.                                               *)

(* A call of Register, Unregister or Stop returns: tearing the watchdog    *)
(* down under takeoverMu never waits for a loop that waits for the caller. *)
CallsReturn == \A c \in Clients : pc[c] # "idle" ~> pc[c] = "idle"

(* A real move pauses the fleet, unless the watchdog is torn down.         *)
MovePauses == token /\ pump = "loop" ~> (Takeover \in pauseReasons \/ pump # "loop")

(* The fleet is not auto-paused for ever once the mouse is left alone.     *)
AutoResumes == <>[][~RealMove]_vars => (Takeover \in pauseReasons ~> Takeover \notin pauseReasons)
=============================================================================
