--------------------------- MODULE TakeoverProofs ---------------------------
(***************************************************************************)
(* Theorems about the takeover watchdog and its hook, for any clients and  *)
(* browsers, on either platform.                                           *)
(***************************************************************************)
EXTENDS Takeover, FiniteSetTheorems, TLAPS

(* How far the holder of takeoverMu has got in reconcileTakeover.          *)
Phase == IF takeoverMu = Free THEN "free" ELSE pc[takeoverMu]
Settled == {"free", "decide", "unlock"}

Live == run \notin {"off", "leave"} /\ ~stopCh
Hooked == pump = IF windows THEN "loop" ELSE "off"

(* What the holder of the lock has set up or torn down so far.             *)
PhaseInv ==
    /\ Phase \in Settled => IF installed THEN Live /\ Hooked ELSE run = "off" /\ pump = "off"
    /\ Phase = "start" => ~installed /\ run = "off" /\ pump = "off"
    /\ Phase = "install" => ~installed /\ Live /\ pump = "off"
    /\ Phase = "ready" => ~installed /\ Live /\ windows /\ hookInstalled /\ ~theirs
    /\ Phase = "uninstall" => installed /\ Live /\ Hooked
    /\ Phase = "uninstalling" =>
        /\ installed /\ Live /\ windows /\ hookInstalled /\ ~theirs
        /\ pump \in {"loop", "clear", "off"}
    /\ Phase = "close" => Live /\ pump = "off"
    /\ Phase = "join" => stopCh /\ pump = "off"
    /\ quitPosted => Phase = "uninstalling" /\ pump = "loop"

(* Whose the process-wide hook and its callback are.                       *)
FlagInv ==
    /\ pump # "off" => hookInstalled /\ ~theirs /\ windows
    /\ pump \in {"hooking", "loop", "clear"} => callback = "ours"
    /\ theirs => hookInstalled /\ callback = "theirs"

(* How far requestStop has got, and what it leaves.                        *)
StopInv ==
    /\ dstopped => stopped
    /\ stopper # Free =>
        /\ stopped /\ ~dstopped
        /\ pc[stopper] \in {"reconcile", "decide", "uninstall", "uninstalling", "close", "join",
                            "unlock", "abort"}
        /\ pc[stopper] = "unlock" => ~installed
    /\ \A c \in Clients : pc[c] = "abort" => stopper = c
    /\ dstopped \/ (\E c \in Clients : pc[c] = "abort") =>
            ~installed /\ run = "off" /\ pump = "off" /\ Phase \in Settled

(* The pause reason of the watchdog is what its run loop believes.         *)
PauseInv ==
    /\ run = "off" => Takeover \notin pauseReasons
    /\ run # "off" => (Takeover \in pauseReasons <=> paused)
    /\ run = "pause" => ~paused
    /\ run \in {"resume", "leave"} => paused
    /\ WillResume

(* A call that is yet to reconcile will put things right, or the holder of *)
(* the lock is doing so, or they are right.                                *)
ConvInv ==
    \/ \E c \in Clients : pc[c] = "reconcile"
    \/ /\ Phase \in {"start", "install", "ready"} => Want
       /\ Phase \in {"uninstall", "uninstalling"} => ~Want
       /\ Phase \in {"close", "join"} => IF installed THEN ~Want ELSE failed
       /\ Phase \in {"free", "unlock"} => (installed => Want) /\ (Want => installed \/ failed)

USE DEF Goto, regVars, clientVars, watchVars, flagVars, pumpVars, hookVars, runVars

(* Every step keeps the types, and the lock with the client in its section.*)
LEMMA TypeStep == TypeOK /\ [Next]_vars => TypeOK'
<1> SUFFICES ASSUME TypeOK, [Next]_vars PROVE TypeOK'
  OBVIOUS
<1> USE ClientAssumption, BrowserAssumption DEF TypeOK, ClientPcs, Locked
<1>1. ASSUME NEW c \in Clients, NEW b \in Browsers, Register(c, b) PROVE TypeOK'
  BY <1>1 DEF Register, Counts
<1>2. ASSUME NEW c \in Clients, NEW b \in Browsers, Unregister(c, b) PROVE TypeOK'
  <2>1. nativeCount' \in Nat
    BY <1>2 DEF Unregister, Uncounted, Counts
  <2>. QED
    BY <1>2, <2>1 DEF Unregister
<1>3. ASSUME NEW c \in Clients, Stop(c) PROVE TypeOK'
  BY <1>3 DEF Stop
<1>4. ASSUME NEW c \in Clients, StopAgain(c) PROVE TypeOK'
  BY <1>4 DEF StopAgain
<1>5. ASSUME NEW c \in Clients, StopAwaited(c) PROVE TypeOK'
  BY <1>5 DEF StopAwaited
<1>6. ASSUME NEW c \in Clients, Abort(c) PROVE TypeOK'
  BY <1>6 DEF Abort
<1>7. ASSUME NEW c \in Clients, Lock(c) PROVE TypeOK'
  BY <1>7 DEF Lock
<1>8. ASSUME NEW c \in Clients, Decide(c) PROVE TypeOK'
  BY <1>8 DEF Decide, Want
<1>9. ASSUME NEW c \in Clients, StartWatchdog(c) PROVE TypeOK'
  <2>1. token' \in BOOLEAN /\ stopCh' \in BOOLEAN /\ paused' \in BOOLEAN
    BY <1>9, Zenon DEF StartWatchdog
  <2>. QED
    BY <1>9, <2>1 DEF StartWatchdog
<1>10. ASSUME NEW c \in Clients, InstallHook(c) PROVE TypeOK'
  BY <1>10 DEF InstallHook
<1>11. ASSUME NEW c \in Clients, InstallRefused(c) PROVE TypeOK'
  BY <1>11 DEF InstallRefused
<1>12. ASSUME NEW c \in Clients, InstallReady(c) PROVE TypeOK'
  <2>1. failed' \in BOOLEAN
    BY <1>12, Zenon DEF InstallReady
  <2>. QED
    BY <1>12, <2>1 DEF InstallReady
<1>13. ASSUME NEW c \in Clients, InstallFails(c) PROVE TypeOK'
  <2>1. hookInstalled' \in BOOLEAN
    BY <1>13, Zenon DEF InstallFails
  <2>. QED
    BY <1>13, <2>1 DEF InstallFails
<1>14. ASSUME NEW c \in Clients, PostQuit(c) PROVE TypeOK'
  BY <1>14 DEF PostQuit
<1>15. ASSUME NEW c \in Clients, UninstallHook(c) PROVE TypeOK'
  <2>1. hookInstalled' \in BOOLEAN
    BY <1>15, Zenon DEF UninstallHook
  <2>. QED
    BY <1>15, <2>1 DEF UninstallHook
<1>16. ASSUME NEW c \in Clients, InstallStub(c) PROVE TypeOK'
  <2>1. failed' \in BOOLEAN
    BY <1>16, Zenon DEF InstallStub
  <2>. QED
    BY <1>16, <2>1 DEF InstallStub
<1>17. ASSUME NEW c \in Clients, UninstallStub(c) PROVE TypeOK'
  BY <1>17 DEF UninstallStub
<1>18. ASSUME NEW c \in Clients, CloseStopCh(c) PROVE TypeOK'
  BY <1>18 DEF CloseStopCh
<1>19. ASSUME NEW c \in Clients, Join(c) PROVE TypeOK'
  <2>1. installed' \in BOOLEAN
    BY <1>19, Zenon DEF Join
  <2>. QED
    BY <1>19, <2>1 DEF Join
<1>20. ASSUME NEW c \in Clients, Unlock(c) PROVE TypeOK'
  BY <1>20 DEF Unlock
<1>21. CASE TakeMove
  <2>1. token' \in BOOLEAN
    BY <1>21, Zenon DEF TakeMove
  <2>. QED
    BY <1>21, <2>1 DEF TakeMove
<1>22. CASE PauseFleet
  BY <1>22 DEF PauseFleet, PauseWith
<1>23. CASE ResetTimer
  BY <1>23 DEF ResetTimer
<1>24. CASE TakeTimer
  BY <1>24 DEF TakeTimer
<1>25. CASE ResumeFleet
  <2>1. paused' \in BOOLEAN
    BY <1>25, Zenon DEF ResumeFleet
  <2>. QED
    BY <1>25, <2>1 DEF ResumeFleet, ResumeWith
<1>26. CASE TakeStop
  BY <1>26 DEF TakeStop, Leave
<1>27. CASE LeaveResumed
  BY <1>27 DEF LeaveResumed, ResumeWith
<1>28. CASE PumpBegin
  BY <1>28 DEF PumpBegin
<1>29. CASE PumpHooks
  BY <1>29 DEF PumpHooks
<1>30. CASE PumpFails
  BY <1>30 DEF PumpFails
<1>31. CASE PumpQuits
  <2>1. quitPosted' \in BOOLEAN
    BY <1>31, Zenon DEF PumpQuits
  <2>. QED
    BY <1>31, <2>1 DEF PumpQuits
<1>32. CASE PumpEnds
  BY <1>32 DEF PumpEnds
<1>33. CASE PauseUI
  BY <1>33 DEF PauseUI, PauseWith
<1>34. CASE ResumeUI
  BY <1>34 DEF ResumeUI, ResumeWith
<1>35. CASE OtherInstalls
  BY <1>35 DEF OtherInstalls
<1>36. CASE OtherUninstalls
  <2>1. hookInstalled' \in BOOLEAN /\ theirs' \in BOOLEAN
    BY <1>36, Zenon DEF OtherUninstalls
  <2>. QED
    BY <1>36, <2>1 DEF OtherUninstalls
<1>37. CASE RealMove
  BY <1>37 DEF RealMove
<1>38. CASE TimerFires
  BY <1>38 DEF TimerFires
<1>39. CASE UNCHANGED vars
  BY <1>39 DEF vars
<1>. QED
  BY <1>1, <1>2, <1>3, <1>4, <1>5, <1>6, <1>7, <1>8, <1>9, <1>10, <1>11, <1>12, <1>13, <1>14,
    <1>15, <1>16, <1>17, <1>18, <1>19, <1>20, <1>21, <1>22, <1>23, <1>24, <1>25, <1>26, <1>27,
    <1>28, <1>29, <1>30, <1>31, <1>32, <1>33, <1>34, <1>35, <1>36, <1>37, <1>38, <1>39
  DEF Next, Reconciling, Pump, RunLoop

(* Outside the locked section a client moves no phase.                     *)
LEMMA PhaseOutside ==
    ASSUME TypeOK, NEW c \in Clients, pc[c] \notin Locked, NEW p, Goto(c, p),
           takeoverMu' = takeoverMu
    PROVE  Phase' = Phase
BY ClientAssumption DEF TypeOK, Phase

(* Lock and Unlock are where a section begins and ends.                    *)
LEMMA PhaseLock ==
    ASSUME TypeOK, NEW c \in Clients
    PROVE  /\ Lock(c) => Phase = "free" /\ Phase' = "decide"
           /\ Unlock(c) => Phase = "unlock" /\ Phase' = "free"
BY ClientAssumption DEF TypeOK, Phase, Lock, Unlock, Locked

(* Where Phase ranges.                                                     *)
PhaseNames == Locked \cup {"free"}

(* A phase is free or a control point of the locked section.               *)
LEMMA PhaseType == ASSUME TypeOK PROVE Phase \in PhaseNames
BY DEF TypeOK, Phase, PhaseNames

(* The inductive invariant, with the types.                                *)
Protocol == PhaseInv /\ FlagInv /\ StopInv /\ PauseInv /\ ConvInv

(* Every step keeps the protocol of installing and tearing down.           *)
LEMMA ProtocolStep == TypeOK /\ TypeOK' /\ Protocol /\ [Next]_vars => Protocol'
<1> SUFFICES ASSUME TypeOK, TypeOK', Protocol, [Next]_vars PROVE Protocol'
  OBVIOUS
<1>1. ASSUME NEW c \in Clients, NEW b \in Browsers, Register(c, b) PROVE Protocol'
  <2>1. Phase' = Phase
    BY <1>1, PhaseOutside DEF Register, Locked
  <2>2. StopInv'
    BY <1>1, <2>1 DEF Protocol, Register, StopInv
  <2>3. ConvInv'
    BY <1>1 DEF Protocol, Register, ConvInv, TypeOK
  <2>4. PhaseInv' /\ FlagInv' /\ PauseInv'
    BY <1>1, <2>1 DEF Protocol, Register, PhaseInv, FlagInv, PauseInv, Live, Hooked, WillResume
  <2>. QED
    BY <2>2, <2>3, <2>4 DEF Protocol
<1>2. ASSUME NEW c \in Clients, NEW b \in Browsers, Unregister(c, b) PROVE Protocol'
  <2>1. Phase' = Phase
    BY <1>2, PhaseOutside DEF Unregister, Locked
  <2>2. StopInv'
    BY <1>2, <2>1 DEF Protocol, Unregister, StopInv
  <2>3. ConvInv'
    BY <1>2 DEF Protocol, Unregister, ConvInv, TypeOK
  <2>4. PhaseInv' /\ FlagInv' /\ PauseInv'
    BY <1>2, <2>1 DEF Protocol, Unregister, PhaseInv, FlagInv, PauseInv, Live, Hooked, WillResume
  <2>. QED
    BY <2>2, <2>3, <2>4 DEF Protocol
<1>3. ASSUME NEW c \in Clients, Stop(c) PROVE Protocol'
  <2>1. Phase' = Phase
    BY <1>3, PhaseOutside DEF Stop, Locked
  <2>2. StopInv'
    BY <1>3, ClientAssumption DEF Protocol, Stop, StopInv, TypeOK
  <2>3. ConvInv'
    BY <1>3 DEF Protocol, Stop, ConvInv, TypeOK
  <2>4. PhaseInv' /\ FlagInv' /\ PauseInv'
    BY <1>3, <2>1 DEF Protocol, Stop, PhaseInv, FlagInv, PauseInv, Live, Hooked, WillResume
  <2>. QED
    BY <2>2, <2>3, <2>4 DEF Protocol
<1>4. ASSUME NEW c \in Clients, StopAgain(c) PROVE Protocol'
  <2>1. Phase' = Phase
    BY <1>4, PhaseOutside DEF StopAgain, Locked
  <2>2. StopInv'
    BY <1>4, <2>1 DEF Protocol, StopAgain, StopInv
  <2>3. ConvInv'
    BY <1>4, <2>1 DEF Protocol, StopAgain, ConvInv, Want
  <2>4. PhaseInv' /\ FlagInv' /\ PauseInv'
    BY <1>4, <2>1 DEF Protocol, StopAgain, PhaseInv, FlagInv, PauseInv, Live, Hooked, WillResume
  <2>. QED
    BY <2>2, <2>3, <2>4 DEF Protocol
<1>5. ASSUME NEW c \in Clients, StopAwaited(c) PROVE Protocol'
  <2>1. Phase' = Phase
    BY <1>5, PhaseOutside DEF StopAwaited, Locked
  <2>2. StopInv'
    BY <1>5, <2>1 DEF Protocol, StopAwaited, StopInv
  <2>3. ConvInv'
    BY <1>5, <2>1 DEF Protocol, StopAwaited, ConvInv, Want
  <2>4. PhaseInv' /\ FlagInv' /\ PauseInv'
    BY <1>5, <2>1 DEF Protocol, StopAwaited, PhaseInv, FlagInv, PauseInv, Live, Hooked, WillResume
  <2>. QED
    BY <2>2, <2>3, <2>4 DEF Protocol
<1>6. ASSUME NEW c \in Clients, Abort(c) PROVE Protocol'
  <2>1. Phase' = Phase
    BY <1>6, PhaseOutside DEF Abort, Locked
  <2>2. StopInv'
    BY <1>6, <2>1, ClientAssumption DEF Protocol, Abort, StopInv, TypeOK
  <2>3. ConvInv'
    BY <1>6, <2>1 DEF Protocol, Abort, ConvInv, Want
  <2>4. PhaseInv' /\ FlagInv' /\ PauseInv'
    BY <1>6, <2>1 DEF Protocol, Abort, PhaseInv, FlagInv, PauseInv, Live, Hooked, WillResume
  <2>. QED
    BY <2>2, <2>3, <2>4 DEF Protocol
<1>7. ASSUME NEW c \in Clients, Decide(c) PROVE Protocol'
  <2>1. /\ takeoverMu = c /\ Phase = "decide"
        /\ Phase' = (IF Want /\ ~installed THEN "start"
                    ELSE IF ~Want /\ installed THEN "uninstall" ELSE "unlock")
    <3>1. /\ pc[c] = "decide" /\ takeoverMu' = takeoverMu
          /\ pc'[c] = (IF Want /\ ~installed THEN "start"
                      ELSE IF ~Want /\ installed THEN "uninstall" ELSE "unlock")
      BY <1>7 DEF Decide, TypeOK
    <3>. QED
      BY <3>1, ClientAssumption DEF TypeOK, Phase, Locked
  <2>2. PhaseInv'
    BY <1>7, <2>1 DEF Protocol, Decide, PhaseInv, Settled, Live, Hooked
  <2>3. StopInv'
    BY <1>7, <2>1, ClientAssumption DEF Protocol, Decide, StopInv, Settled, Want
  <2>4. ConvInv'
    BY <1>7, <2>1 DEF Protocol, Decide, ConvInv, Want
  <2>5. FlagInv' /\ PauseInv'
    BY <1>7 DEF Protocol, Decide, FlagInv, PauseInv, WillResume
  <2>. QED
    BY <2>2, <2>3, <2>4, <2>5 DEF Protocol
<1>8. ASSUME NEW c \in Clients, StartWatchdog(c) PROVE Protocol'
  <2>1. takeoverMu = c /\ Phase = "start" /\ Phase' = "install"
    <3>1. pc[c] = "start" /\ takeoverMu' = takeoverMu /\ pc'[c] = "install"
      BY <1>8 DEF StartWatchdog, TypeOK
    <3>. QED
      BY <3>1, ClientAssumption DEF TypeOK, Phase, Locked
  <2>2. PhaseInv'
    BY <1>8, <2>1 DEF Protocol, StartWatchdog, PhaseInv, Settled, Live
  <2>3. StopInv'
    BY <1>8, <2>1 DEF Protocol, StartWatchdog, StopInv, Settled
  <2>4. PauseInv'
    BY <1>8, <2>1 DEF Protocol, StartWatchdog, PauseInv, PhaseInv, WillResume
  <2>5. ConvInv'
    BY <1>8, <2>1 DEF Protocol, StartWatchdog, ConvInv, Want
  <2>6. FlagInv'
    BY <1>8 DEF Protocol, StartWatchdog, FlagInv
  <2>. QED
    BY <2>2, <2>3, <2>4, <2>5, <2>6 DEF Protocol
<1>9. ASSUME NEW c \in Clients, InstallHook(c) PROVE Protocol'
  <2>1. takeoverMu = c /\ Phase = "install" /\ Phase' = "ready"
    <3>1. pc[c] = "install" /\ takeoverMu' = takeoverMu /\ pc'[c] = "ready"
      BY <1>9 DEF InstallHook, TypeOK
    <3>. QED
      BY <3>1, ClientAssumption DEF TypeOK, Phase, Locked
  <2>2. PhaseInv'
    BY <1>9, <2>1 DEF Protocol, InstallHook, PhaseInv, FlagInv, Settled, Live
  <2>3. FlagInv'
    BY <1>9 DEF Protocol, InstallHook, FlagInv
  <2>4. StopInv'
    BY <1>9, <2>1 DEF Protocol, InstallHook, StopInv, Settled
  <2>5. ConvInv'
    BY <1>9, <2>1 DEF Protocol, InstallHook, ConvInv, Want
  <2>6. PauseInv'
    BY <1>9 DEF Protocol, InstallHook, PauseInv, WillResume
  <2>. QED
    BY <2>2, <2>3, <2>4, <2>5, <2>6 DEF Protocol
<1>10. ASSUME NEW c \in Clients, InstallRefused(c) PROVE Protocol'
  <2>1. takeoverMu = c /\ Phase = "install" /\ Phase' = "close"
    <3>1. pc[c] = "install" /\ takeoverMu' = takeoverMu /\ pc'[c] = "close"
      BY <1>10 DEF InstallRefused, TypeOK
    <3>. QED
      BY <3>1, ClientAssumption DEF TypeOK, Phase, Locked
  <2>2. PhaseInv'
    BY <1>10, <2>1 DEF Protocol, InstallRefused, PhaseInv, Settled, Live
  <2>3. StopInv'
    BY <1>10, <2>1 DEF Protocol, InstallRefused, StopInv, Settled
  <2>4. ConvInv'
    BY <1>10, <2>1 DEF Protocol, InstallRefused, ConvInv, PhaseInv
  <2>5. FlagInv' /\ PauseInv'
    BY <1>10 DEF Protocol, InstallRefused, FlagInv, PauseInv, WillResume
  <2>. QED
    BY <2>2, <2>3, <2>4, <2>5 DEF Protocol
<1>11. ASSUME NEW c \in Clients, InstallReady(c) PROVE Protocol'
  <2>1. takeoverMu = c /\ Phase = "ready" /\ Phase' = "unlock"
    <3>1. pc[c] = "ready" /\ takeoverMu' = takeoverMu /\ pc'[c] = "unlock"
      BY <1>11 DEF InstallReady, TypeOK
    <3>. QED
      BY <3>1, ClientAssumption DEF TypeOK, Phase, Locked
  <2>2. PhaseInv'
    BY <1>11, <2>1 DEF Protocol, InstallReady, PhaseInv, Live, Hooked
  <2>3. StopInv'
    BY <1>11, <2>1 DEF Protocol, InstallReady, StopInv, TypeOK
  <2>4. ConvInv'
    BY <1>11, <2>1 DEF Protocol, InstallReady, ConvInv, Want
  <2>5. FlagInv' /\ PauseInv'
    BY <1>11 DEF Protocol, InstallReady, FlagInv, PauseInv, WillResume
  <2>. QED
    BY <2>2, <2>3, <2>4, <2>5 DEF Protocol
<1>12. ASSUME NEW c \in Clients, InstallFails(c) PROVE Protocol'
  <2>1. takeoverMu = c /\ Phase = "ready" /\ Phase' = "close"
    <3>1. pc[c] = "ready" /\ takeoverMu' = takeoverMu /\ pc'[c] = "close"
      BY <1>12 DEF InstallFails, TypeOK
    <3>. QED
      BY <3>1, ClientAssumption DEF TypeOK, Phase, Locked
  <2>2. PhaseInv'
    BY <1>12, <2>1 DEF Protocol, InstallFails, PhaseInv, Settled, Live
  <2>3. FlagInv'
    BY <1>12, <2>1 DEF Protocol, InstallFails, PhaseInv, FlagInv
  <2>4. StopInv'
    BY <1>12, <2>1 DEF Protocol, InstallFails, StopInv, Settled
  <2>5. ConvInv'
    BY <1>12, <2>1 DEF Protocol, InstallFails, ConvInv, PhaseInv
  <2>6. PauseInv'
    BY <1>12 DEF Protocol, InstallFails, PauseInv, WillResume
  <2>. QED
    BY <2>2, <2>3, <2>4, <2>5, <2>6 DEF Protocol
<1>13. ASSUME NEW c \in Clients, PostQuit(c) PROVE Protocol'
  <2>1. takeoverMu = c /\ Phase = "uninstall" /\ Phase' = "uninstalling"
    <3>1. pc[c] = "uninstall" /\ takeoverMu' = takeoverMu /\ pc'[c] = "uninstalling"
      BY <1>13 DEF PostQuit, TypeOK
    <3>. QED
      BY <3>1, ClientAssumption DEF TypeOK, Phase, Locked
  <2>2. PhaseInv'
    BY <1>13, <2>1 DEF Protocol, PostQuit, PhaseInv, FlagInv, Live, Hooked
  <2>3. StopInv'
    BY <1>13, <2>1 DEF Protocol, PostQuit, PhaseInv, StopInv
  <2>4. ConvInv'
    BY <1>13, <2>1 DEF Protocol, PostQuit, ConvInv, Want
  <2>5. FlagInv' /\ PauseInv'
    BY <1>13 DEF Protocol, PostQuit, FlagInv, PauseInv, WillResume
  <2>. QED
    BY <2>2, <2>3, <2>4, <2>5 DEF Protocol
<1>14. ASSUME NEW c \in Clients, UninstallHook(c) PROVE Protocol'
  <2>1. takeoverMu = c /\ Phase = "uninstalling" /\ Phase' = "close"
    <3>1. pc[c] = "uninstalling" /\ takeoverMu' = takeoverMu /\ pc'[c] = "close"
      BY <1>14 DEF UninstallHook, TypeOK
    <3>. QED
      BY <3>1, ClientAssumption DEF TypeOK, Phase, Locked
  <2>2. PhaseInv'
    BY <1>14, <2>1 DEF Protocol, UninstallHook, PhaseInv, Settled, Live
  <2>3. FlagInv'
    BY <1>14, <2>1 DEF Protocol, UninstallHook, PhaseInv, FlagInv
  <2>4. StopInv'
    BY <1>14, <2>1 DEF Protocol, UninstallHook, PhaseInv, StopInv
  <2>5. ConvInv'
    BY <1>14, <2>1 DEF Protocol, UninstallHook, ConvInv, PhaseInv, Want
  <2>6. PauseInv'
    BY <1>14 DEF Protocol, UninstallHook, PauseInv, WillResume
  <2>. QED
    BY <2>2, <2>3, <2>4, <2>5, <2>6 DEF Protocol
<1>15. ASSUME NEW c \in Clients, InstallStub(c) PROVE Protocol'
  <2>1. takeoverMu = c /\ Phase = "install" /\ Phase' = "unlock"
    <3>1. pc[c] = "install" /\ takeoverMu' = takeoverMu /\ pc'[c] = "unlock"
      BY <1>15 DEF InstallStub, TypeOK
    <3>. QED
      BY <3>1, ClientAssumption DEF TypeOK, Phase, Locked
  <2>2. PhaseInv'
    BY <1>15, <2>1 DEF Protocol, InstallStub, PhaseInv, Live, Hooked
  <2>3. StopInv'
    BY <1>15, <2>1 DEF Protocol, InstallStub, StopInv, Settled, TypeOK
  <2>4. ConvInv'
    BY <1>15, <2>1 DEF Protocol, InstallStub, ConvInv, Want
  <2>5. FlagInv' /\ PauseInv'
    BY <1>15 DEF Protocol, InstallStub, FlagInv, PauseInv, WillResume
  <2>. QED
    BY <2>2, <2>3, <2>4, <2>5 DEF Protocol
<1>16. ASSUME NEW c \in Clients, UninstallStub(c) PROVE Protocol'
  <2>1. takeoverMu = c /\ Phase = "uninstall" /\ Phase' = "close"
    <3>1. pc[c] = "uninstall" /\ takeoverMu' = takeoverMu /\ pc'[c] = "close"
      BY <1>16 DEF UninstallStub, TypeOK
    <3>. QED
      BY <3>1, ClientAssumption DEF TypeOK, Phase, Locked
  <2>2. PhaseInv'
    BY <1>16, <2>1 DEF Protocol, UninstallStub, PhaseInv, FlagInv, Settled, Live
  <2>3. StopInv'
    BY <1>16, <2>1 DEF Protocol, UninstallStub, PhaseInv, StopInv
  <2>4. ConvInv'
    BY <1>16, <2>1 DEF Protocol, UninstallStub, ConvInv, PhaseInv, Want
  <2>5. FlagInv' /\ PauseInv'
    BY <1>16 DEF Protocol, UninstallStub, FlagInv, PauseInv, WillResume
  <2>. QED
    BY <2>2, <2>3, <2>4, <2>5 DEF Protocol
<1>17. ASSUME NEW c \in Clients, CloseStopCh(c) PROVE Protocol'
  <2>1. takeoverMu = c /\ Phase = "close" /\ Phase' = "join"
    <3>1. pc[c] = "close" /\ takeoverMu' = takeoverMu /\ pc'[c] = "join"
      BY <1>17 DEF CloseStopCh, TypeOK
    <3>. QED
      BY <3>1, ClientAssumption DEF TypeOK, Phase, Locked
  <2>2. PhaseInv'
    BY <1>17, <2>1 DEF Protocol, CloseStopCh, PhaseInv, Settled
  <2>3. StopInv'
    BY <1>17, <2>1 DEF Protocol, CloseStopCh, StopInv, Settled
  <2>4. ConvInv'
    BY <1>17, <2>1 DEF Protocol, CloseStopCh, ConvInv, Want
  <2>5. FlagInv' /\ PauseInv'
    BY <1>17 DEF Protocol, CloseStopCh, FlagInv, PauseInv, WillResume
  <2>. QED
    BY <2>2, <2>3, <2>4, <2>5 DEF Protocol
<1>18. ASSUME NEW c \in Clients, Join(c) PROVE Protocol'
  <2>1. takeoverMu = c /\ Phase = "join" /\ Phase' = "unlock"
    <3>1. pc[c] = "join" /\ takeoverMu' = takeoverMu /\ pc'[c] = "unlock"
      BY <1>18 DEF Join, TypeOK
    <3>. QED
      BY <3>1, ClientAssumption DEF TypeOK, Phase, Locked
  <2>2. PhaseInv'
    BY <1>18, <2>1 DEF Protocol, Join, PhaseInv
  <2>3. StopInv'
    BY <1>18, <2>1 DEF Protocol, Join, StopInv, Settled
  <2>4. ConvInv'
    BY <1>18, <2>1 DEF Protocol, Join, ConvInv, Want
  <2>5. FlagInv' /\ PauseInv'
    BY <1>18 DEF Protocol, Join, FlagInv, PauseInv, WillResume
  <2>. QED
    BY <2>2, <2>3, <2>4, <2>5 DEF Protocol
<1>19. ASSUME NEW c \in Clients, Lock(c) PROVE Protocol'
  <2>1. Phase = "free" /\ Phase' = "decide"
    BY <1>19, PhaseLock
  <2>2. PhaseInv'
    BY <1>19, <2>1 DEF Protocol, Lock, PhaseInv, Settled, Live, Hooked
  <2>3. StopInv'
    BY <1>19, <2>1 DEF Protocol, Lock, StopInv, Settled
  <2>4. ConvInv'
    BY <1>19, <2>1 DEF Protocol, Lock, ConvInv
  <2>5. FlagInv' /\ PauseInv'
    BY <1>19 DEF Protocol, Lock, FlagInv, PauseInv, WillResume
  <2>. QED
    BY <2>2, <2>3, <2>4, <2>5 DEF Protocol
<1>20. ASSUME NEW c \in Clients, Unlock(c) PROVE Protocol'
  <2>1. Phase = "unlock" /\ Phase' = "free"
    BY <1>20, PhaseLock
  <2>2. PhaseInv'
    BY <1>20, <2>1 DEF Protocol, Unlock, PhaseInv, Settled, Live, Hooked
  <2>3. StopInv'
    BY <1>20, <2>1 DEF Protocol, Unlock, PhaseInv, StopInv, Settled, TypeOK, Locked
  <2>4. ConvInv'
    BY <1>20, <2>1 DEF Protocol, Unlock, ConvInv, Want
  <2>5. FlagInv' /\ PauseInv'
    BY <1>20 DEF Protocol, Unlock, FlagInv, PauseInv, WillResume
  <2>. QED
    BY <2>2, <2>3, <2>4, <2>5 DEF Protocol
<1>21. CASE TakeMove
  <2>1. Phase' = Phase
    BY <1>21 DEF TakeMove, Phase
  <2>2. PhaseInv'
    BY <1>21, <2>1 DEF Protocol, TakeMove, PhaseInv, Live, Hooked
  <2>3. StopInv'
    BY <1>21 DEF Protocol, TakeMove, StopInv
  <2>4. PauseInv'
    BY <1>21 DEF Protocol, TakeMove, PauseInv, WillResume
  <2>5. FlagInv' /\ ConvInv'
    BY <1>21, <2>1 DEF Protocol, TakeMove, FlagInv, ConvInv, Want
  <2>. QED
    BY <2>2, <2>3, <2>4, <2>5 DEF Protocol
<1>22. CASE PauseFleet
  <2>1. Phase' = Phase
    BY <1>22 DEF PauseFleet, Phase
  <2>2. PhaseInv'
    BY <1>22, <2>1 DEF Protocol, PauseFleet, PhaseInv, Live, Hooked
  <2>3. StopInv'
    BY <1>22 DEF Protocol, PauseFleet, StopInv
  <2>4. PauseInv'
    BY <1>22 DEF Protocol, PauseFleet, PauseInv, StopInv, WillResume, PauseWith
  <2>5. FlagInv' /\ ConvInv'
    BY <1>22, <2>1 DEF Protocol, PauseFleet, FlagInv, ConvInv, Want
  <2>. QED
    BY <2>2, <2>3, <2>4, <2>5 DEF Protocol
<1>23. CASE ResetTimer
  <2>1. Phase' = Phase
    BY <1>23 DEF ResetTimer, Phase
  <2>2. PhaseInv'
    BY <1>23, <2>1 DEF Protocol, ResetTimer, PhaseInv, Live, Hooked
  <2>3. StopInv'
    BY <1>23 DEF Protocol, ResetTimer, StopInv
  <2>4. PauseInv'
    BY <1>23 DEF Protocol, ResetTimer, PauseInv, WillResume
  <2>5. FlagInv' /\ ConvInv'
    BY <1>23, <2>1 DEF Protocol, ResetTimer, FlagInv, ConvInv, Want
  <2>. QED
    BY <2>2, <2>3, <2>4, <2>5 DEF Protocol
<1>24. CASE TakeTimer
  <2>1. Phase' = Phase
    BY <1>24 DEF TakeTimer, Phase
  <2>2. PhaseInv'
    BY <1>24, <2>1 DEF Protocol, TakeTimer, PhaseInv, Live, Hooked
  <2>3. StopInv'
    BY <1>24 DEF Protocol, TakeTimer, StopInv
  <2>4. PauseInv'
    BY <1>24 DEF Protocol, TakeTimer, PauseInv, WillResume
  <2>5. FlagInv' /\ ConvInv'
    BY <1>24, <2>1 DEF Protocol, TakeTimer, FlagInv, ConvInv, Want
  <2>. QED
    BY <2>2, <2>3, <2>4, <2>5 DEF Protocol
<1>25. CASE ResumeFleet
  <2>1. Phase' = Phase
    BY <1>25 DEF ResumeFleet, Phase
  <2>2. PhaseInv'
    BY <1>25, <2>1 DEF Protocol, ResumeFleet, PhaseInv, Live, Hooked
  <2>3. StopInv'
    BY <1>25 DEF Protocol, ResumeFleet, StopInv
  <2>4. PauseInv'
    BY <1>25 DEF Protocol, ResumeFleet, PauseInv, StopInv, WillResume, ResumeWith
  <2>5. FlagInv' /\ ConvInv'
    BY <1>25, <2>1 DEF Protocol, ResumeFleet, FlagInv, ConvInv, Want
  <2>. QED
    BY <2>2, <2>3, <2>4, <2>5 DEF Protocol
<1>26. CASE TakeStop
  <2>1. Phase' = Phase
    BY <1>26 DEF TakeStop, Phase
  <2>2. PhaseInv'
    BY <1>26, <2>1 DEF Protocol, TakeStop, PhaseInv, Live
  <2>3. StopInv'
    BY <1>26 DEF Protocol, TakeStop, StopInv
  <2>4. PauseInv'
    BY <1>26 DEF Protocol, TakeStop, PauseInv, WillResume, Leave
  <2>5. FlagInv' /\ ConvInv'
    BY <1>26, <2>1 DEF Protocol, TakeStop, FlagInv, ConvInv, Want
  <2>. QED
    BY <2>2, <2>3, <2>4, <2>5 DEF Protocol
<1>27. CASE LeaveResumed
  <2>1. Phase' = Phase
    BY <1>27 DEF LeaveResumed, Phase
  <2>2. PhaseInv'
    BY <1>27, <2>1 DEF Protocol, LeaveResumed, PhaseInv, Live
  <2>3. StopInv'
    BY <1>27 DEF Protocol, LeaveResumed, StopInv
  <2>4. PauseInv'
    BY <1>27 DEF Protocol, LeaveResumed, PauseInv, StopInv, WillResume, ResumeWith
  <2>5. FlagInv' /\ ConvInv'
    BY <1>27, <2>1 DEF Protocol, LeaveResumed, FlagInv, ConvInv, Want
  <2>. QED
    BY <2>2, <2>3, <2>4, <2>5 DEF Protocol
<1>28. CASE PumpBegin
  <2>1. Phase' = Phase
    BY <1>28 DEF PumpBegin, Phase
  <2>2. PhaseInv'
    BY <1>28, <2>1 DEF Protocol, PumpBegin, PhaseInv, Live, Hooked
  <2>3. FlagInv'
    BY <1>28 DEF Protocol, PumpBegin, FlagInv
  <2>4. StopInv'
    BY <1>28 DEF Protocol, PumpBegin, StopInv
  <2>5. PauseInv' /\ ConvInv'
    BY <1>28, <2>1 DEF Protocol, PumpBegin, PauseInv, ConvInv, WillResume, Want
  <2>. QED
    BY <2>2, <2>3, <2>4, <2>5 DEF Protocol
<1>29. CASE PumpHooks
  <2>1. Phase' = Phase
    BY <1>29 DEF PumpHooks, Phase
  <2>2. PhaseInv'
    BY <1>29, <2>1 DEF Protocol, PumpHooks, PhaseInv, Live, Hooked
  <2>3. FlagInv'
    BY <1>29 DEF Protocol, PumpHooks, FlagInv
  <2>4. StopInv'
    BY <1>29 DEF Protocol, PumpHooks, StopInv
  <2>5. PauseInv' /\ ConvInv'
    BY <1>29, <2>1 DEF Protocol, PumpHooks, PauseInv, ConvInv, WillResume, Want
  <2>. QED
    BY <2>2, <2>3, <2>4, <2>5 DEF Protocol
<1>30. CASE PumpFails
  <2>1. Phase' = Phase
    BY <1>30 DEF PumpFails, Phase
  <2>2. PhaseInv'
    BY <1>30, <2>1 DEF Protocol, PumpFails, PhaseInv, Live, Hooked
  <2>3. FlagInv'
    BY <1>30 DEF Protocol, PumpFails, FlagInv
  <2>4. StopInv'
    BY <1>30 DEF Protocol, PumpFails, StopInv
  <2>5. PauseInv' /\ ConvInv'
    BY <1>30, <2>1 DEF Protocol, PumpFails, PauseInv, ConvInv, WillResume, Want
  <2>. QED
    BY <2>2, <2>3, <2>4, <2>5 DEF Protocol
<1>31. CASE PumpQuits
  <2>1. Phase' = Phase
    BY <1>31 DEF PumpQuits, Phase
  <2>2. PhaseInv'
    BY <1>31, <2>1 DEF Protocol, PumpQuits, PhaseInv, Settled, Live
  <2>3. FlagInv'
    BY <1>31 DEF Protocol, PumpQuits, FlagInv
  <2>4. StopInv'
    BY <1>31 DEF Protocol, PumpQuits, StopInv
  <2>5. PauseInv' /\ ConvInv'
    BY <1>31, <2>1 DEF Protocol, PumpQuits, PauseInv, ConvInv, WillResume, Want
  <2>. QED
    BY <2>2, <2>3, <2>4, <2>5 DEF Protocol
<1>32. CASE PumpEnds
  <2>1. Phase' = Phase
    BY <1>32 DEF PumpEnds, Phase
  <2>2. PhaseInv'
    BY <1>32, <2>1 DEF Protocol, PumpEnds, PhaseInv, Live, Hooked
  <2>3. FlagInv'
    BY <1>32 DEF Protocol, PumpEnds, FlagInv
  <2>4. StopInv'
    BY <1>32 DEF Protocol, PumpEnds, StopInv
  <2>5. PauseInv' /\ ConvInv'
    BY <1>32, <2>1 DEF Protocol, PumpEnds, PauseInv, ConvInv, WillResume, Want
  <2>. QED
    BY <2>2, <2>3, <2>4, <2>5 DEF Protocol
<1>33. CASE PauseUI
  <2>1. Phase' = Phase
    BY <1>33 DEF PauseUI, Phase
  <2>2. PauseInv'
    BY <1>33, ClientAssumption DEF Protocol, PauseUI, PauseInv, WillResume, PauseWith
  <2>3. PhaseInv' /\ FlagInv' /\ StopInv' /\ ConvInv'
    BY <1>33, <2>1 DEF Protocol, PauseUI, PhaseInv, FlagInv, StopInv, ConvInv, Live, Hooked, Want
  <2>. QED
    BY <2>2, <2>3 DEF Protocol
<1>34. CASE ResumeUI
  <2>1. Phase' = Phase
    BY <1>34 DEF ResumeUI, Phase
  <2>2. PauseInv'
    BY <1>34, ClientAssumption DEF Protocol, ResumeUI, PauseInv, WillResume, ResumeWith
  <2>3. PhaseInv' /\ FlagInv' /\ StopInv' /\ ConvInv'
    BY <1>34, <2>1 DEF Protocol, ResumeUI, PhaseInv, FlagInv, StopInv, ConvInv, Live, Hooked, Want
  <2>. QED
    BY <2>2, <2>3 DEF Protocol
<1>35. CASE OtherInstalls
  <2>1. Phase' = Phase
    BY <1>35 DEF OtherInstalls, Phase
  <2>2. PhaseInv'
    BY <1>35, <2>1 DEF Protocol, OtherInstalls, PhaseInv, Live, Hooked
  <2>3. FlagInv'
    BY <1>35 DEF Protocol, OtherInstalls, FlagInv
  <2>4. StopInv' /\ PauseInv' /\ ConvInv'
    BY <1>35, <2>1 DEF Protocol, OtherInstalls, StopInv, PauseInv, ConvInv, WillResume, Want
  <2>. QED
    BY <2>2, <2>3, <2>4 DEF Protocol
<1>36. CASE OtherUninstalls
  <2>1. Phase' = Phase
    BY <1>36 DEF OtherUninstalls, Phase
  <2>2. PhaseInv'
    BY <1>36, <2>1 DEF Protocol, OtherUninstalls, PhaseInv, Live, Hooked
  <2>3. FlagInv'
    BY <1>36 DEF Protocol, OtherUninstalls, FlagInv
  <2>4. StopInv' /\ PauseInv' /\ ConvInv'
    BY <1>36, <2>1 DEF Protocol, OtherUninstalls, StopInv, PauseInv, ConvInv, WillResume, Want
  <2>. QED
    BY <2>2, <2>3, <2>4 DEF Protocol
<1>37. CASE RealMove
  <2>1. Phase' = Phase
    BY <1>37 DEF RealMove, Phase
  <2>2. PhaseInv' /\ FlagInv' /\ StopInv' /\ PauseInv' /\ ConvInv'
    BY <1>37, <2>1
    DEF Protocol, RealMove, PhaseInv, FlagInv, StopInv, PauseInv, ConvInv, Live, Hooked,
        WillResume, Want
  <2>. QED
    BY <2>2 DEF Protocol
<1>38. CASE TimerFires
  <2>1. Phase' = Phase
    BY <1>38 DEF TimerFires, Phase
  <2>2. PauseInv'
    BY <1>38 DEF Protocol, TimerFires, PauseInv, WillResume
  <2>3. PhaseInv' /\ FlagInv' /\ StopInv' /\ ConvInv'
    BY <1>38, <2>1
    DEF Protocol, TimerFires, PhaseInv, FlagInv, StopInv, ConvInv, Live, Hooked, Want
  <2>. QED
    BY <2>2, <2>3 DEF Protocol
<1>39. CASE UNCHANGED vars
  BY <1>39
  DEF vars, Protocol, PhaseInv, FlagInv, StopInv, PauseInv, ConvInv, Phase, Live, Hooked,
      WillResume, Want
<1>. QED
  BY <1>1, <1>2, <1>3, <1>4, <1>5, <1>6, <1>7, <1>8, <1>9, <1>10, <1>11, <1>12, <1>13, <1>14,
    <1>15, <1>16, <1>17, <1>18, <1>19, <1>20, <1>21, <1>22, <1>23, <1>24, <1>25, <1>26, <1>27,
    <1>28, <1>29, <1>30, <1>31, <1>32, <1>33, <1>34, <1>35, <1>36, <1>37, <1>38, <1>39
  DEF Next, Reconciling, Pump, RunLoop

(* The invariant holds of the initial states.                              *)
LEMMA InitInvariant == Init => TypeOK /\ Protocol
<1> SUFFICES ASSUME Init PROVE TypeOK /\ Protocol
  OBVIOUS
<1> USE ClientAssumption, BrowserAssumption DEF Init
<1>1. TypeOK
  BY DEF TypeOK, ClientPcs, Locked
<1>2. Phase = "free"
  BY DEF Phase
<1>3. PhaseInv /\ FlagInv
  BY <1>2 DEF PhaseInv, FlagInv, Settled
<1>4. StopInv /\ PauseInv
  BY DEF StopInv, PauseInv, WillResume
<1>5. ConvInv
  BY <1>2 DEF ConvInv, Want
<1>. QED
  BY <1>1, <1>3, <1>4, <1>5 DEF Protocol

(* The invariant holds in every reachable state.                           *)
LEMMA Invariance == Spec => [](TypeOK /\ Protocol)
<1>1. TypeOK /\ Protocol /\ [Next]_vars => (TypeOK /\ Protocol)'
  BY TypeStep, ProtocolStep
<1>. QED
  BY <1>1, InitInvariant, PTL DEF Spec

(* The native handles of the fleet.                                        *)
Natives == {b \in registered : Kind[b] = "native"}

(* Registering and unregistering keep the count; nothing else touches it.  *)
LEMMA CountStep == TypeOK /\ CountExact /\ [Next]_vars => CountExact'
<1> SUFFICES ASSUME TypeOK, CountExact, [Next]_vars PROVE CountExact'
  OBVIOUS
<1>1. IsFiniteSet(Natives) /\ nativeCount = Cardinality(Natives) /\ nativeCount \in Nat
  BY BrowserAssumption, FS_Subset DEF TypeOK, CountExact, Natives
<1>2. ASSUME NEW c \in Clients, NEW b \in Browsers, Register(c, b) PROVE CountExact'
  <2>1. CASE Kind[b] = "native"
    <3>1. Natives' = Natives \cup {b} /\ b \notin Natives /\ nativeCount' = nativeCount + 1
      BY <1>2, <2>1 DEF Register, Counts, Natives
    <3>2. Cardinality(Natives \cup {b}) = nativeCount + 1
      BY <1>1, <3>1, FS_AddElement
    <3>. QED
      BY <3>1, <3>2 DEF CountExact, Natives
  <2>2. CASE Kind[b] # "native"
    <3>1. Natives' = Natives /\ nativeCount' = nativeCount
      BY <1>1, <1>2, <2>2 DEF Register, Counts, Natives
    <3>. QED
      BY <1>1, <3>1 DEF CountExact, Natives
  <2>. QED
    BY <2>1, <2>2
<1>3. ASSUME NEW c \in Clients, NEW b \in Browsers, Unregister(c, b) PROVE CountExact'
  <2>1. CASE Kind[b] = "native"
    <3>1. Natives' = Natives \ {b} /\ b \in Natives
      BY <1>3, <2>1 DEF Unregister, Natives
    <3>2. Cardinality(Natives \ {b}) = nativeCount - 1 /\ Cardinality(Natives \ {b}) \in Nat
      BY <1>1, <3>1, FS_RemoveElement, FS_CardinalityType
    <3>3. nativeCount' = nativeCount - 1
      BY <1>1, <1>3, <2>1, <3>2 DEF Unregister, Uncounted, Counts
    <3>. QED
      BY <3>1, <3>2, <3>3 DEF CountExact, Natives
  <2>2. CASE Kind[b] # "native"
    <3>1. Natives' = Natives /\ nativeCount' = nativeCount
      BY <1>1, <1>3, <2>2 DEF Unregister, Uncounted, Counts, Natives
    <3>. QED
      BY <1>1, <3>1 DEF CountExact, Natives
  <2>. QED
    BY <2>1, <2>2
<1>4. CASE UNCHANGED <<registered, nativeCount>>
  BY <1>4 DEF CountExact
<1>5. ASSUME NEW c \in Clients, Stop(c) \/ StopAgain(c) \/ Reconciling(c)
      PROVE  UNCHANGED <<registered, nativeCount>>
  BY <1>5 DEF Stop, StopAgain, Reconciling, Lock, Decide, Unlock, Abort, StartWatchdog,
     InstallHook, InstallRefused, InstallReady, InstallFails, PostQuit, UninstallHook,
     InstallStub, UninstallStub, CloseStopCh, Join, StopAwaited
<1>6. CASE RunLoop \/ TimerFires \/ RealMove \/ PauseUI \/ ResumeUI
  BY <1>4, <1>6 DEF RunLoop, TakeMove, PauseFleet, ResetTimer, TakeTimer, ResumeFleet, TakeStop,
     LeaveResumed, TimerFires, RealMove, PauseUI, ResumeUI
<1>7. CASE Pump \/ OtherInstalls \/ OtherUninstalls
  BY <1>4, <1>7 DEF Pump, PumpBegin, PumpHooks, PumpFails, PumpQuits, PumpEnds, OtherInstalls,
     OtherUninstalls
<1>8. CASE UNCHANGED vars
  BY <1>4, <1>8 DEF vars
<1>. QED
  BY <1>2, <1>3, <1>4, <1>5, <1>6, <1>7, <1>8 DEF Next

(* Every variable keeps its type, and takeoverMu excludes.                 *)
THEOREM TakeoverTypes == Spec => []TypeOK
BY Invariance, PTL

(* The gate of the hook counts the native handles, for any set of browsers *)
(* registered and unregistered in any order by any number of goroutines.   *)
THEOREM CountExactHolds == Spec => []CountExact
<1>1. Init => CountExact
  <2>1. ASSUME Init PROVE {b \in registered : Kind[b] = "native"} = {}
    BY <2>1 DEF Init
  <2>. QED
    BY <2>1, FS_EmptySet DEF Init, CountExact
<1>. QED
  BY <1>1, CountStep, Invariance, PTL DEF Spec

(* When no call is under way the watchdog and the hook are as the registry *)
(* wants them, or the hook could not be installed.                         *)
THEOREM ConvergedHolds == Spec => []Converged
<1>1. TypeOK /\ Protocol => Converged
  <2> SUFFICES ASSUME TypeOK, Protocol, \A c \in Clients : pc[c] = "idle"
               PROVE  /\ installed => Want
                      /\ Want => installed \/ failed
                      /\ pump = (IF installed /\ windows THEN "loop" ELSE "off")
    BY DEF Converged, Want
  <2>1. Phase = "free"
    BY DEF TypeOK, Phase, Locked
  <2>2. (installed => Want) /\ (Want => installed \/ failed)
    BY <2>1 DEF Protocol, ConvInv
  <2>3. pump = (IF installed /\ windows THEN "loop" ELSE "off")
    BY <2>1 DEF Protocol, PhaseInv, Settled, Hooked
  <2>. QED
    BY <2>2, <2>3
<1>. QED
  BY <1>1, Invariance, PTL

(* A run loop and a hook are started only when those before them are gone. *)
THEOREM OneWatchdogHolds == Spec => []OneWatchdog
<1>1. TypeOK /\ Protocol => OneWatchdog
  <2> SUFFICES ASSUME TypeOK, Protocol, NEW c \in Clients
               PROVE  /\ pc[c] = "start" => run = "off" /\ pump = "off"
                      /\ pc[c] = "install" => run # "off" /\ pump = "off"
    BY DEF OneWatchdog
  <2>1. pc[c] \in Locked => Phase = pc[c]
    BY ClientAssumption DEF TypeOK, Phase
  <2>. QED
    BY <2>1 DEF Locked, Protocol, PhaseInv, Live
<1>. QED
  BY <1>1, Invariance, PTL

(* A hook in the OS calls the callback of a watchdog that listens, and     *)
(* never that of another fleet.                                            *)
THEOREM HookFedHolds == Spec => []HookFed
<1>1. TypeOK /\ Protocol => HookFed
  <2> SUFFICES ASSUME TypeOK, Protocol PROVE HookFed
    OBVIOUS
  <2>1. pump = "loop" => Live
    BY PhaseType DEF Protocol, PhaseInv, Settled, PhaseNames, Locked
  <2>. QED
    BY <2>1 DEF Protocol, FlagInv, HookFed, Live
<1>. QED
  BY <1>1, Invariance, PTL

(* The fleet is auto-paused only while a run loop knows of it.             *)
THEOREM TakeoverOwnedHolds == Spec => []TakeoverOwned
<1>1. Protocol => TakeoverOwned
  BY DEF Protocol, PauseInv, TakeoverOwned
<1>. QED
  BY <1>1, Invariance, PTL

(* A stopped dispatcher is left with no watchdog and not paused by one.    *)
THEOREM StoppedCleanHolds == Spec => []StoppedClean
<1>1. Protocol => StoppedClean
  BY DEF Protocol, PauseInv, StopInv, StoppedClean
<1>. QED
  BY <1>1, Invariance, PTL

(* An auto-paused fleet has a timer that will resume it.                   *)
THEOREM WillResumeHolds == Spec => []WillResume
<1>1. Protocol => WillResume
  BY DEF Protocol, PauseInv
<1>. QED
  BY <1>1, Invariance, PTL
=============================================================================
