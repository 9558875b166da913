------------------------------ MODULE Hotkeys -------------------------------
(***************************************************************************)
(* The hotkey listener (hotkey_windows.go, hotkey_other.go) and the fleet  *)
(* around it (fleet.go): the options, Start, which spawns the listener,    *)
(* Pause, Resume and requestStop, which clients and the listener call, and *)
(* Stop, which waits for the listener to end.                              *)
(*                                                                         *)
(* Each call of Start makes a channel, hotkeyDone, and a listener; both    *)
(* are numbered by the call.  A listener has a queue of thread messages    *)
(* and a watcher goroutine that posts WM_QUIT when the context is done.    *)
(* Of requestStop only what meets the listener is here; the rest is in     *)
(* Dispatcher and Takeover.                                                *)
(***************************************************************************)
EXTENDS HotkeyText, FiniteSets

CONSTANTS
    Clients,        \* goroutines that call the fleet, the watchdog's being one
    ReasonOf,       \* the reason each of them pauses and resumes with
    Free, Over,     \* stopOnce before and after its one call
    OptionLists,    \* the lists of options New is called with
    TakenSets,      \* sets of hotkeys that other programs may hold
    Texts,          \* the texts a client may write a hotkey as
    MaxStarts,      \* bound: calls of Start
    MaxCalls,       \* bound: calls of Pause, Resume and Stop by clients
    MaxPresses      \* bound: presses of hotkeys

Kinds == {"pause", "resume", "stop"}
Listeners == 1..MaxStarts
Callers == Clients \cup Listeners

Reasons == {"hotkey", "ui", "user-takeover"}

ASSUME BoundAssumption == {MaxStarts, MaxCalls, MaxPresses} \subseteq Nat
ASSUME CallerAssumption ==
    /\ IsFiniteSet(Clients)
    /\ Clients \cap Listeners = {}
    /\ ReasonOf \in [Clients -> Reasons]
    /\ {Free, Over} \cap Callers = {}
    /\ Free # Over

VARIABLES
    windows,        \* the platform
    cfg,            \* for each kind, whether its hotkey is enabled, and which it is
    taken,          \* the hotkeys that other programs hold
    starts,         \* the number of Start calls
    hotkeyDone,     \* the field: the number of the channel, 0 for nil
    closed,         \* the channels that are closed
    panicked,       \* a channel was closed twice
    lpc,            \* the control point of each listener
    mine,           \* the channel its deferred close is for
    held,           \* the kinds it has registered with the OS
    msgs,           \* the message queue of its thread
    watcher,        \* its watcher goroutine
    presses,        \* the number of presses
    pc,             \* the control point of each caller of the fleet
    calls,          \* the number of calls by clients
    atStop,         \* the number of Start calls before the client's Stop
    joining,        \* the channel that a Stop waits for
    reasons,        \* Dispatcher.pauseReasons
    dstopped,       \* Dispatcher.stopped
    once,           \* stopOnce: Free, Over, or the caller in its body
    ctxDone,        \* the context of the fleet is cancelled
    balance         \* calls of OnPause less calls of OnResume

setupVars == <<windows, cfg, taken>>
chanVars == <<starts, hotkeyDone, closed, panicked>>
listenVars == <<lpc, mine, held, msgs, watcher>>
callVars == <<pc, calls, atStop, joining>>
fleetVars == <<reasons, dstopped, once, ctxDone, balance>>
vars == <<setupVars, chanVars, listenVars, presses, callVars, fleetVars>>

-----------------------------------------------------------------------------
(* Options: With...Hotkey sets a hotkey and enables it, and its Disabled   *)
(* counterpart leaves the hotkey alone.                                    *)

With(kind, h) == [kind |-> kind, on |-> TRUE, hotkey |-> h]
Disabled(kind) == [kind |-> kind, on |-> FALSE]
Options == {With(k, h) : k \in Kinds, h \in Hotkeys} \cup {Disabled(k) : k \in Kinds}

ASSUME OptionAssumption == OptionLists \subseteq Seq(Options)
ASSUME TakenAssumption == TakenSets \subseteq SUBSET Hotkeys
ASSUME TextAssumption == Texts \subseteq Seq(Tokens)

DefaultConfig ==
    [pause  |-> [on |-> TRUE, hotkey |-> DefaultPauseHotkey],
     resume |-> [on |-> TRUE, hotkey |-> DefaultResumeHotkey],
     stop   |-> [on |-> FALSE, hotkey |-> DefaultStopHotkey]]

Apply(config, opt) ==
    [config EXCEPT ![opt.kind] = [on |-> opt.on,
                                  hotkey |-> IF opt.on THEN opt.hotkey ELSE @.hotkey]]

Init ==
    /\ windows \in BOOLEAN
    /\ \E opts \in OptionLists : cfg = FoldLeft(Apply, DefaultConfig, opts)
    /\ taken \in IF windows THEN TakenSets ELSE {{}}
    /\ starts = 0
    /\ hotkeyDone = 0
    /\ closed = {}
    /\ panicked = FALSE
    /\ lpc = [l \in Listeners |-> "off"]
    /\ mine = [l \in Listeners |-> 0]
    /\ held = [l \in Listeners |-> {}]
    /\ msgs = [l \in Listeners |-> <<>>]
    /\ watcher = [l \in Listeners |-> "off"]
    /\ presses = 0
    /\ pc = [c \in Callers |-> "idle"]
    /\ calls = 0
    /\ atStop = [c \in Clients |-> 0]
    /\ joining = [c \in Clients |-> 0]
    /\ reasons = {}
    /\ dstopped = FALSE
    /\ once = Free
    /\ ctxDone = FALSE
    /\ balance = 0

Goto(c, p) == pc' = [pc EXCEPT ![c] = p]
LGoto(l, p) == lpc' = [lpc EXCEPT ![l] = p]

(* The bindings Start collects, with ids in the order of collection.       *)
Enabled == {k \in Kinds : cfg[k].on}
Id == [pause |-> 1, resume |-> 2, stop |-> 3]
First(S) == CHOOSE k \in S : \A j \in S : Id[k] <= Id[j]

(* Start: without a binding there is no listener and hotkeyDone stays nil. *)
Start(c) ==
    /\ pc[c] = "idle"
    /\ starts < MaxStarts
    /\ starts' = starts + 1
    /\ IF Enabled = {} THEN UNCHANGED <<hotkeyDone, lpc>>
       ELSE /\ hotkeyDone' = starts'
            /\ LGoto(starts', "spawned")
    /\ UNCHANGED <<setupVars, closed, panicked, mine, held, msgs, watcher, presses, callVars,
                   fleetVars>>

-----------------------------------------------------------------------------
(* The routines that clients and listeners call.  A listener returns to    *)
(* its message loop, a client's Stop goes on to wait.                      *)

Reason(c) == IF c \in Listeners THEN "hotkey" ELSE ReasonOf[c]
AfterStop(c) == IF c \in Listeners THEN "idle" ELSE "await"

Call(c, op) ==
    /\ pc[c] = "idle"
    /\ calls < MaxCalls
    /\ calls' = calls + 1
    /\ atStop' = [atStop EXCEPT ![c] = IF op = "stop" THEN starts ELSE @]
    /\ Goto(c, op)
    /\ UNCHANGED <<setupVars, chanVars, listenVars, presses, joining, fleetVars>>

(* Dispatcher.pause and resume, under its lock: only a transition is       *)
(* notified, after the lock is released.                                   *)
PauseAlways(c) ==
    /\ pc[c] = "pause"
    /\ IF dstopped THEN Goto(c, "idle") /\ UNCHANGED reasons
       ELSE /\ reasons' = reasons \cup {Reason(c)}
            /\ Goto(c, "onPause")
    /\ UNCHANGED <<setupVars, chanVars, listenVars, presses, calls, atStop, joining, dstopped, once,
                   ctxDone, balance>>
Pause(c) ==
    /\ pc[c] = "pause"
    /\ IF dstopped THEN Goto(c, "idle") /\ UNCHANGED reasons
       ELSE /\ reasons' = reasons \cup {Reason(c)}
            /\ Goto(c, IF reasons = {} THEN "onPause" ELSE "idle")
    /\ UNCHANGED <<setupVars, chanVars, listenVars, presses, calls, atStop, joining, dstopped, once,
                   ctxDone, balance>>

Resume(c) ==
    /\ pc[c] = "resume"
    /\ IF dstopped \/ Reason(c) \notin reasons THEN Goto(c, "idle") /\ UNCHANGED reasons
       ELSE /\ reasons' = reasons \ {Reason(c)}
            /\ Goto(c, IF reasons' = {} THEN "onResume" ELSE "idle")
    /\ UNCHANGED <<setupVars, chanVars, listenVars, presses, calls, atStop, joining, dstopped, once,
                   ctxDone, balance>>

Notify(c) ==
    /\ pc[c] \in {"onPause", "onResume"}
    /\ balance' = balance + (IF pc[c] = "onPause" THEN 1 ELSE -1)
    /\ Goto(c, "idle")
    /\ UNCHANGED <<setupVars, chanVars, listenVars, presses, calls, atStop, joining, reasons,
                   dstopped, once, ctxDone>>

(* requestStop: one caller runs the body, the others wait for its end.     *)
StopEnter(c) ==
    /\ pc[c] = "stop"
    /\ once = Free
    /\ once' = c
    /\ Goto(c, "abort")
    /\ UNCHANGED <<setupVars, chanVars, listenVars, presses, calls, atStop, joining, reasons,
                   dstopped, ctxDone, balance>>

StopSkip(c) ==
    /\ pc[c] = "stop"
    /\ once = Over
    /\ Goto(c, AfterStop(c))
    /\ UNCHANGED <<setupVars, chanVars, listenVars, presses, calls, atStop, joining, fleetVars>>

Abort(c) ==
    /\ pc[c] = "abort"
    /\ dstopped' = TRUE
    /\ Goto(c, "cancel")
    /\ UNCHANGED <<setupVars, chanVars, listenVars, presses, calls, atStop, joining, reasons, once,
                   ctxDone, balance>>

Cancel(c) ==
    /\ pc[c] = "cancel"
    /\ ctxDone' = TRUE
    /\ once' = Over
    /\ Goto(c, AfterStop(c))
    /\ UNCHANGED <<setupVars, chanVars, listenVars, presses, calls, atStop, joining, reasons,
                   dstopped, balance>>

(* The rest of Stop: it reads the field hotkeyDone, and waits.             *)
AwaitNothing(c) ==
    /\ pc[c] = "await"
    /\ Goto(c, "returned")
    /\ UNCHANGED <<setupVars, chanVars, listenVars, presses, calls, atStop, joining, fleetVars>>
Await(c) ==
    /\ pc[c] = "await"
    /\ joining' = [joining EXCEPT ![c] = hotkeyDone]
    /\ Goto(c, IF hotkeyDone = 0 THEN "returned" ELSE "join")
    /\ UNCHANGED <<setupVars, chanVars, listenVars, presses, calls, atStop, fleetVars>>

Join(c) ==
    /\ pc[c] = "join"
    /\ joining[c] \in closed
    /\ Goto(c, "returned")
    /\ UNCHANGED <<setupVars, chanVars, listenVars, presses, calls, atStop, joining, fleetVars>>

-----------------------------------------------------------------------------
(* The listener goroutine.                                                 *)

(* Its first step evaluates the operand of its deferred close: the field,  *)
(* as it is then.                                                          *)
Begin(l) ==
    /\ lpc[l] = "spawned"
    /\ mine' = [mine EXCEPT ![l] = hotkeyDone]
    /\ LGoto(l, IF windows THEN "register" ELSE "wait")
    /\ UNCHANGED <<setupVars, chanVars, held, msgs, watcher, presses, callVars, fleetVars>>

(* RegisterHotKey refuses a hotkey that is held already, by this program   *)
(* or another; what it does with a hotkey without a key is not documented. *)
InUse == taken \cup UNION {{cfg[k].hotkey : k \in held[l]} : l \in Listeners}

Register(l) ==
    /\ lpc[l] = "register"
    /\ Enabled # held[l]
    /\ LET k == First(Enabled \ held[l])
       IN  /\ cfg[k].hotkey \notin InUse
           /\ held' = [held EXCEPT ![l] = @ \cup {k}]
    /\ UNCHANGED <<setupVars, chanVars, lpc, mine, msgs, watcher, presses, callVars, fleetVars>>

(* On failure the hotkeys registered before it are given back.             *)
RegisterFailsKeeping(l) ==
    /\ lpc[l] = "register"
    /\ Enabled # held[l]
    /\ cfg[First(Enabled \ held[l])].hotkey \in InUse
    /\ LGoto(l, "close")
    /\ UNCHANGED <<setupVars, chanVars, mine, held, msgs, watcher, presses, callVars, fleetVars>>
RegisterFails(l) ==
    /\ lpc[l] = "register"
    /\ Enabled # held[l]
    /\ LET h == cfg[First(Enabled \ held[l])].hotkey
       IN  h \in InUse \/ h.key = NoKey
    /\ LGoto(l, "unregister")
    /\ UNCHANGED <<setupVars, chanVars, mine, held, msgs, watcher, presses, callVars, fleetVars>>

StartLoopUnwatched(l) ==
    /\ lpc[l] = "register"
    /\ Enabled = held[l]
    /\ LGoto(l, "loop")
    /\ UNCHANGED <<setupVars, chanVars, mine, held, msgs, watcher, presses, callVars, fleetVars>>
StartLoop(l) ==
    /\ lpc[l] = "register"
    /\ Enabled = held[l]
    /\ watcher' = [watcher EXCEPT ![l] = "select"]
    /\ LGoto(l, "loop")
    /\ UNCHANGED <<setupVars, chanVars, mine, held, msgs, presses, callVars, fleetVars>>

(* The user presses a hotkey: the thread that registered it gets the id.   *)
(* What comes after the message loop has ended is never read.              *)
Press(l) ==
    /\ presses < MaxPresses
    /\ lpc[l] \in {"register", "loop"}
    /\ \E k \in held[l] :
        /\ cfg[k].hotkey.key # NoKey
        /\ msgs' = [msgs EXCEPT ![l] = Append(@, k)]
    /\ presses' = presses + 1
    /\ UNCHANGED <<setupVars, chanVars, lpc, mine, held, watcher, callVars, fleetVars>>

(* The message loop runs the callback of a hotkey to its end ...           *)
Dispatch(l) ==
    /\ lpc[l] = "loop"
    /\ pc[l] = "idle"
    /\ msgs[l] # <<>>
    /\ Head(msgs[l]) # "quit"
    /\ msgs' = [msgs EXCEPT ![l] = Tail(@)]
    /\ Goto(l, Head(msgs[l]))
    /\ UNCHANGED <<setupVars, chanVars, lpc, mine, held, watcher, presses, calls, atStop, joining,
                   fleetVars>>

(* ... and ends at WM_QUIT.  The deferred calls close stopWatcher, then    *)
(* unregister the hotkeys in their order, then close hotkeyDone.           *)
Quit(l) ==
    /\ lpc[l] = "loop"
    /\ pc[l] = "idle"
    /\ msgs[l] # <<>>
    /\ Head(msgs[l]) = "quit"
    /\ msgs' = [msgs EXCEPT ![l] = <<>>]
    /\ LGoto(l, "unregister")
    /\ UNCHANGED <<setupVars, chanVars, mine, held, watcher, presses, callVars, fleetVars>>

Unregister(l) ==
    /\ lpc[l] = "unregister"
    /\ held[l] # {}
    /\ held' = [held EXCEPT ![l] = @ \ {First(@)}]
    /\ UNCHANGED <<setupVars, chanVars, lpc, mine, msgs, watcher, presses, callVars, fleetVars>>

Unregistered(l) ==
    /\ lpc[l] = "unregister"
    /\ held[l] = {}
    /\ LGoto(l, "close")
    /\ UNCHANGED <<setupVars, chanVars, mine, held, msgs, watcher, presses, callVars, fleetVars>>

(* On other platforms the listener only waits for the context.             *)
WaitCtx(l) ==
    /\ lpc[l] = "wait"
    /\ ctxDone
    /\ LGoto(l, "close")
    /\ UNCHANGED <<setupVars, chanVars, mine, held, msgs, watcher, presses, callVars, fleetVars>>

Close(l) ==
    /\ lpc[l] = "close"
    /\ closed' = closed \cup {mine[l]}
    /\ panicked' = (panicked \/ mine[l] \in closed)
    /\ LGoto(l, "ended")
    /\ UNCHANGED <<setupVars, starts, hotkeyDone, mine, held, msgs, watcher, presses, callVars,
                   fleetVars>>

(* The watcher: stopWatcher is closed once the loop has ended.             *)
PostNothing(l) ==
    /\ watcher[l] = "select"
    /\ ctxDone
    /\ watcher' = [watcher EXCEPT ![l] = "ended"]
    /\ UNCHANGED <<setupVars, chanVars, lpc, mine, held, msgs, presses, callVars, fleetVars>>
PostQuit(l) ==
    /\ watcher[l] = "select"
    /\ ctxDone
    /\ msgs' = [msgs EXCEPT ![l] = Append(@, "quit")]
    /\ watcher' = [watcher EXCEPT ![l] = "ended"]
    /\ UNCHANGED <<setupVars, chanVars, lpc, mine, held, presses, callVars, fleetVars>>

-----------------------------------------------------------------------------
Routine(c) ==
    \/ Pause(c) \/ Resume(c) \/ Notify(c)
    \/ StopEnter(c) \/ StopSkip(c) \/ Abort(c) \/ Cancel(c)

Listen(l) ==
    \/ Begin(l) \/ Register(l) \/ RegisterFails(l) \/ StartLoop(l) \/ Dispatch(l) \/ Quit(l)
    \/ Unregister(l) \/ Unregistered(l) \/ WaitCtx(l) \/ Close(l)

Next ==
    \/ \E c \in Clients :
        \/ Start(c)
        \/ \E op \in Kinds : Call(c, op)
        \/ Await(c) \/ Join(c)
    \/ \E c \in Callers : Routine(c)
    \/ \E l \in Listeners : Listen(l) \/ PostQuit(l) \/ Press(l)

Spec == Init /\ [][Next]_vars

(* Goroutines that can run do, and a thread takes the messages of its      *)
(* queue in order.  Clients and the user owe nothing.                      *)
Fairness ==
    /\ \A c \in Callers : WF_vars(Routine(c))
    /\ \A c \in Clients : WF_vars(Await(c) \/ Join(c))
    /\ \A l \in Listeners : WF_vars(Listen(l)) /\ WF_vars(PostQuit(l))

FairSpec == Spec /\ Fairness

-----------------------------------------------------------------------------
(* Safety.                                                                 *)

(* Every variable has its type, and a call under way, a channel and a      *)
(* watcher exist only for a listener that has come that far.               *)
TypeOK ==
    /\ windows \in BOOLEAN
    /\ cfg \in [Kinds -> [on : BOOLEAN, hotkey : Hotkeys]]
    /\ taken \subseteq Hotkeys
    /\ starts \in 0..MaxStarts
    /\ hotkeyDone \in 0..starts
    /\ closed \subseteq 1..starts
    /\ panicked \in BOOLEAN
    /\ lpc \in [Listeners -> {"off", "spawned", "register", "loop", "unregister", "wait", "close",
                              "ended"}]
    /\ mine \in [Listeners -> 0..starts]
    /\ held \in [Listeners -> SUBSET Kinds]
    /\ \A l \in Listeners : msgs[l] \in Seq(Kinds \cup {"quit"})
    /\ watcher \in [Listeners -> {"off", "select", "ended"}]
    /\ \A l \in Listeners :
        /\ lpc[l] # "off" => l <= starts
        /\ lpc[l] \notin {"off", "spawned"} => mine[l] # 0
        /\ pc[l] # "idle" => lpc[l] = "loop"
        /\ lpc[l] = "loop" => watcher[l] # "off"
    /\ presses \in 0..MaxPresses
    /\ pc \in [Callers -> Kinds \cup {"idle", "onPause", "onResume", "abort", "cancel", "await",
                                      "join", "returned"}]
    /\ calls \in 0..MaxCalls
    /\ atStop \in [Clients -> 0..starts]
    /\ joining \in [Clients -> 0..starts]
    /\ reasons \subseteq Reasons
    /\ dstopped \in BOOLEAN
    /\ once \in Callers \cup {Free, Over}
    /\ ctxDone \in BOOLEAN
    /\ balance \in -Cardinality(Callers)..Cardinality(Callers)

(* The hotkeys come and go together: while the message loop runs, all of   *)
(* the enabled ones are the listener's, no one else has one of them, and   *)
(* a watcher or a WM_QUIT is there to end the loop; a listener that has    *)
(* failed or ended has given back every one.                               *)
AllOrNothing ==
    \A l \in Listeners :
        /\ lpc[l] = "loop" =>
            /\ held[l] = Enabled
            /\ \A k \in held[l] :
                /\ cfg[k].hotkey \notin taken
                /\ \A j \in held[l] \ {k} : cfg[j].hotkey # cfg[k].hotkey
            /\ watcher[l] = "select" \/ "quit" \in ToSet(msgs[l])
        /\ lpc[l] \in {"close", "ended"} => held[l] = {}

(* OnPause and OnResume alternate in number: whoever pauses and resumes,   *)
(* by hotkey or by call, the callbacks made and owed tell whether the      *)
(* dispatcher is paused (fleet.go, Pause: "calling twice fires OnPause     *)
(* once"; Resume: "fires OnResume only when transitioning").               *)
NotifiedExactly ==
    balance + Cardinality({c \in Callers : pc[c] = "onPause"})
            - Cardinality({c \in Callers : pc[c] = "onResume"})
        = IF reasons = {} THEN 0 ELSE 1

(* A Stop that was called after Start returned leaves no listener and no   *)
(* hotkey behind when it returns, whatever the message loop was doing.     *)
StopJoinsListener ==
    \A c \in Clients :
        pc[c] = "returned" =>
            \A l \in 1..atStop[c] : lpc[l] \in {"off", "ended"} /\ held[l] = {}

(* Every text a client may configure a hotkey with means what it says: see *)
(* MeansItsText of HotkeyText, about ParseHotkey and String.  It does not  *)
(* depend on the state and is evaluated where the options are chosen.      *)
TextMeaning ==
    starts = 0 /\ calls = 0 => \A text \in Texts : MeansItsText(text)

(* Start is documented as idempotent (fleet.go:382, "calling twice is a    *)
(* no-op"): no number of calls makes two listeners close one channel.      *)
NoDoubleClose == ~panicked

-----------------------------------------------------------------------------
(* Liveness, under FairSpec.                                               *)

(* A client's Stop returns, also when the listener is in a callback, which *)
(* may itself be requestStop, and a stop hotkey that the message loop gets *)
(* cancels the context.                                                    *)
StopGoesThrough ==
    /\ \A c \in Clients : pc[c] = "stop" ~> pc[c] = "returned"
    /\ \A l \in Listeners : lpc[l] = "loop" /\ "stop" \in ToSet(msgs[l]) ~> ctxDone
=============================================================================
