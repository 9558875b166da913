-------------------------- MODULE DispatcherProofs --------------------------
(***************************************************************************)
(* Theorems about the dispatcher, for any jobs, workers, browsers,         *)
(* priorities, pause reasons and channel capacity.                         *)
(***************************************************************************)
EXTENDS Dispatcher, SequenceLemmas

USE DEF fleetVars, submitVars, gateVars, jobVars, chanVars, actorVars, waitVars, sharedVars, At,
  Goto

(* Every step keeps the types and every goroutine in its own code.         *)
LEMMA TypeStep == TypeOK /\ [Next]_vars => TypeOK'
<1> SUFFICES ASSUME TypeOK, [Next]_vars PROVE TypeOK'
  OBVIOUS
<1> USE ActorAssumption, JobAssumption, BoundAssumption
    DEF TypeOK, Typed, Placed, Actors, Workers, NativePcs, CDPPcs, StopperPcs, HoldingPcs, Outcomes, Statuses
<1>1. ASSUME NEW b \in Browsers, Register(b) PROVE TypeOK'
  BY <1>1 DEF Register
<1>2. ASSUME NEW b \in Browsers, Unregister(b) PROVE TypeOK'
  BY <1>2 DEF Unregister
<1>3. ASSUME NEW j \in Jobs, SubmitCheck(j) PROVE TypeOK'
  BY <1>3 DEF SubmitCheck
<1>4. ASSUME NEW j \in Jobs, Enqueue(j) PROVE TypeOK'
  BY <1>4 DEF Enqueue, WakeNative, Accepts
<1>5. ASSUME NEW j \in Jobs, EnqueueRejected(j) PROVE TypeOK'
  BY <1>5 DEF EnqueueRejected, Accepts
<1>6. ASSUME NEW j \in Jobs, DeliverRejected(j) PROVE TypeOK'
  BY <1>6 DEF DeliverRejected, Delivered
<1>7. CASE StartMark
  BY <1>7 DEF StartMark
<1>8. CASE StartSpawn
  <2>1. Typed'
    BY <1>8 DEF StartSpawn
  <2>2. ASSUME NEW c \in Actors PROVE Placed(c)'
    BY <1>8 DEF StartSpawn
  <2>. QED
    BY <2>1, <2>2 DEF TypeOK
<1>9. ASSUME NEW r \in Reasons, Pause(r) PROVE TypeOK'
  BY <1>9 DEF Pause
<1>10. ASSUME NEW r \in Reasons, Resume(r) PROVE TypeOK'
  BY <1>10 DEF Resume, WakeNative, Resumed
<1>11. CASE NativeWait
  <2>1. Typed'
    BY <1>11 DEF NativeWait
  <2>2. ASSUME NEW c \in Actors PROVE Placed(c)'
    BY <1>11 DEF NativeWait
  <2>. QED
    BY <2>1, <2>2 DEF TypeOK
<1>12. CASE NativeExit
  <2>1. Typed'
    BY <1>12 DEF NativeExit
  <2>2. ASSUME NEW c \in Actors PROVE Placed(c)'
    BY <1>12 DEF NativeExit
  <2>. QED
    BY <2>1, <2>2 DEF TypeOK
<1>13. ASSUME NEW j \in Jobs, NativePop(j) PROVE TypeOK'
  BY <1>13 DEF NativePop
<1>14. CASE NativeRoute \/ NativeForward
  BY <1>14 DEF NativeRoute, NativeForward, OnNative
<1>15. CASE NativeSend
  BY <1>15 DEF NativeSend
<1>16. CASE NativeSendClosed
  BY <1>16 DEF NativeSendClosed
<1>17. CASE NativeSendCancelled
  BY <1>17 DEF NativeSendCancelled
<1>18. ASSUME NEW w \in CDPWorkers, CDPBegin(w) PROVE TypeOK'
  BY <1>18 DEF CDPBegin
<1>19. ASSUME NEW w \in CDPWorkers, CDPReceive(w) PROVE TypeOK'
  BY <1>19 DEF CDPReceive
<1>20. ASSUME NEW w \in CDPWorkers, CDPExit(w) PROVE TypeOK'
  BY <1>20 DEF CDPExit
<1>21. ASSUME NEW w \in Workers, NEW s \in Outcomes, RunUntouched(w, s) PROVE TypeOK'
  BY <1>21 DEF RunUntouched
<1>22. ASSUME NEW w \in Workers, RunExec(w) PROVE TypeOK'
  BY <1>22 DEF RunExec
<1>23. ASSUME NEW w \in Workers, NEW s \in Outcomes, RunDone(w, s) PROVE TypeOK'
  BY <1>23 DEF RunDone
<1>24. ASSUME NEW w \in Workers, Deliver(w) PROVE TypeOK'
  BY <1>24 DEF Deliver, Delivered
<1>25. ASSUME NEW a \in Actors, SignOff(a) PROVE TypeOK'
  BY <1>25 DEF SignOff, AfterJob
<1>26. CASE StopMark
  <2>1. Typed'
    BY <1>26 DEF StopMark
  <2>2. ASSUME NEW c \in Actors PROVE Placed(c)'
    BY <1>26 DEF StopMark
  <2>. QED
    BY <2>1, <2>2 DEF TypeOK
<1>27. CASE StopReconcile
  <2>1. Typed'
    <3>1. pc' \in [Actors -> NativePcs \cup CDPPcs \cup StopperPcs]
      BY <1>27 DEF StopReconcile, WakeNative
    <3>2. pauseReasons' \subseteq Reasons
      BY <1>27 DEF StopReconcile
    <3>3. UNCHANGED <<fleetVars, submitVars, startPc, stopped, jobVars, chanVars, job, status,
                      driver, waitVars>>
      BY <1>27 DEF StopReconcile
    <3>. QED
      BY <3>1, <3>2, <3>3
  <2>2. ASSUME NEW c \in Actors PROVE Placed(c)'
    BY <1>27 DEF StopReconcile, WakeNative
  <2>. QED
    BY <2>1, <2>2 DEF TypeOK
<1>28. CASE AbortDrain
  <2>1. Typed'
    <3>1. stopped' \in BOOLEAN
      BY <1>28, Zenon DEF AbortDrain
    <3>2. pc' \in [Actors -> NativePcs \cup CDPPcs \cup StopperPcs]
      BY <1>28 DEF AbortDrain, WakeNative
    <3>3. queue' \subseteq Jobs /\ pending' \subseteq Jobs
      BY <1>28 DEF AbortDrain, Drained
    <3>4. UNCHANGED <<fleetVars, submitVars, startPc, pauseReasons, inflight, results, chanVars, job,
                      status, driver, waitVars>>
      BY <1>28 DEF AbortDrain
    <3>. QED
      BY <3>1, <3>2, <3>3, <3>4
  <2>2. ASSUME NEW c \in Actors PROVE Placed(c)'
    BY <1>28 DEF AbortDrain, WakeNative, Drained
  <2>. QED
    BY <2>1, <2>2 DEF TypeOK
<1>29. ASSUME NEW j \in Jobs, AbortDeliver(j) PROVE TypeOK'
  BY <1>29 DEF AbortDeliver, Delivered
<1>30. CASE AbortClose
  <2>1. Typed'
    BY <1>30 DEF AbortClose
  <2>2. ASSUME NEW c \in Actors PROVE Placed(c)'
    BY <1>30 DEF AbortClose
  <2>. QED
    BY <2>1, <2>2 DEF TypeOK
<1>31. CASE AbortClear
  <2>1. Typed'
    <3>1. cdpField' \in BOOLEAN
      BY <1>31, Zenon DEF AbortClear
    <3>. QED
      BY <1>31, <3>1 DEF AbortClear
  <2>2. ASSUME NEW c \in Actors PROVE Placed(c)'
    BY <1>31 DEF AbortClear
  <2>. QED
    BY <2>1, <2>2 DEF TypeOK
<1>32. CASE StopCancel
  <2>1. Typed'
    <3>1. ctxDone' \in BOOLEAN
      BY <1>32, Zenon DEF StopCancel
    <3>. QED
      BY <1>32, <3>1 DEF StopCancel
  <2>2. ASSUME NEW c \in Actors PROVE Placed(c)'
    BY <1>32 DEF StopCancel
  <2>. QED
    BY <2>1, <2>2 DEF TypeOK
<1>33. CASE WaitCall
  BY <1>33 DEF WaitCall, Accepted
<1>34. CASE WaitReturn
  BY <1>34 DEF WaitReturn
<1>90. CASE UNCHANGED vars
  BY <1>90 DEF vars
<1> HIDE DEF TypeOK, Typed, Placed, NativePcs, CDPPcs, StopperPcs, HoldingPcs, Statuses
<1>. QED
  BY <1>1, <1>2, <1>3, <1>4, <1>5, <1>6, <1>7, <1>8, <1>9, <1>10, <1>11, <1>12, <1>13, <1>14,
    <1>15, <1>16, <1>17, <1>18, <1>19, <1>20, <1>21, <1>22, <1>23, <1>24, <1>25, <1>26, <1>27,
    <1>28, <1>29, <1>30, <1>31, <1>32, <1>33, <1>34, <1>90 DEF Next, ClientStep, SubmitBody,
    NativeStep, CDPStep, RunStep, StopBody


-----------------------------------------------------------------------------
(* The inductive invariant: besides what the runs check, the result of a   *)
(* job stays empty until its holder is about to sign it off.               *)
Fresh ==
    /\ \A j \in queue \cup pending \cup Buffered : results[j] = "none"
    /\ \A a \in Actors : job[a] # NoJob => (results[job[a]] # "none" <=> pc[a] = "signoff")
    /\ \A j \in Jobs : call[j] \notin {"queued", "rejected"} => results[j] = "none"
    /\ pending # {} => pc[Stopper] \in {"abort", "signoff"}

Ownership == OneHolder /\ NoJobLost /\ Fresh

(* How a step changes the jobs in flight, their counter and the process.   *)
Survives == panic' \in {panic, "sendOnClosedChannel", "waitGroupReused"}

Flow ==
    \/ Outstanding' = Outstanding /\ inflight' = inflight /\ Survives
    \/ \E j \in Jobs \ Outstanding :
        Outstanding' = Outstanding \cup {j} /\ inflight' = inflight + 1 /\ Survives
    \/ \E j \in Outstanding :
        /\ Outstanding' = Outstanding \ {j}
        /\ inflight # 0 => inflight' = inflight - 1 /\ panic' = panic

(* Steps that neither move a job nor deliver or sign off a result.         *)
LEMMA QuietStep ==
    ASSUME TypeOK, Ownership,
           UNCHANGED <<queue, pending, chanBuf, job, results, inflight>>,
           Accepted' = Accepted,
           \A j \in Jobs : call'[j] \notin {"queued", "rejected"} => call[j] \notin {"queued", "rejected"},
           \A a \in Actors : pc'[a] = "signoff" <=> pc[a] = "signoff",
           pc'[Stopper] = pc[Stopper] \/ pending = {},
           Survives
    PROVE  Ownership' /\ Flow
<1>1. Buffered' = Buffered /\ Held' = Held
  BY DEF Buffered, Held
<1>2. Outstanding' = Outstanding
  BY <1>1 DEF Outstanding
<1>3. OneHolder'
  BY <1>1 DEF OneHolder, Ownership
<1>4. NoJobLost'
  BY <1>2 DEF NoJobLost, Ownership
<1>5. Fresh'
  BY <1>1 DEF Fresh, Ownership
<1>. QED
  BY <1>2, <1>3, <1>4, <1>5 DEF Flow, Ownership

(* A submitted job enters the heap, and is nowhere else yet.               *)
LEMMA EnqueueStep ==
    ASSUME TypeOK, Ownership, NEW j \in Jobs, Enqueue(j)
    PROVE  Ownership' /\ Flow
<1>1. queue' = queue \cup {j} /\ inflight' = inflight + 1 /\ Survives
  BY DEF Enqueue, Survives
<1>2. Buffered' = Buffered /\ Held' = Held /\ pending' = pending
  BY DEF Enqueue, Buffered, Held
<1>3. Outstanding' = Outstanding \cup {j}
  BY <1>1, <1>2 DEF Outstanding
<1>4. Accepted' = Accepted \cup {j} /\ j \notin Accepted
  BY DEF Enqueue, Accepted, TypeOK, Typed
<1>5. j \notin Outstanding
  BY <1>4 DEF Ownership, NoJobLost
<1>6. results' = results /\ results[j] = "none"
  BY DEF Enqueue, Ownership, Fresh
<1>7. OneHolder'
  BY <1>1, <1>2, <1>5 DEF Enqueue, Ownership, OneHolder, Outstanding
<1>8. NoJobLost'
  BY <1>3, <1>4, <1>6 DEF Ownership, NoJobLost
<1>9. Fresh'
  <2>1. \A a \in Actors : pc'[a] = "signoff" <=> pc[a] = "signoff"
    BY DEF Enqueue, WakeNative, TypeOK, Typed
  <2>2. \A k \in Jobs : call'[k] \notin {"queued", "rejected"} => call[k] \notin {"queued", "rejected"}
    BY DEF Enqueue, TypeOK, Typed
  <2>3. pc'[Stopper] = pc[Stopper]
    BY ActorAssumption DEF Enqueue, WakeNative, TypeOK, Typed
  <2>. QED
    BY <1>1, <1>2, <1>6, <2>1, <2>2, <2>3 DEF Enqueue, Ownership, Fresh
<1>. QED
  BY <1>1, <1>3, <1>5, <1>7, <1>8, <1>9 DEF Ownership, Flow

(* Taking a job in hand, and putting it down.                              *)
LEMMA HeldTake ==
    ASSUME TypeOK, NEW a \in Actors, NEW j \in Jobs, job[a] = NoJob,
           job' = [job EXCEPT ![a] = j]
    PROVE  Held' = Held \cup {j}
<1>1. \A b \in Actors : job'[b] = IF b = a THEN j ELSE job[b]
  BY DEF TypeOK, Typed
<1>2. j # NoJob
  BY JobAssumption
<1>. QED
  BY <1>1, <1>2 DEF Held

(* A goroutine that puts its job down, the only one to hold it.            *)
LEMMA HeldDrop ==
    ASSUME TypeOK, OneHolder, NEW a \in Actors, job[a] # NoJob,
           job' = [job EXCEPT ![a] = NoJob]
    PROVE  Held' = Held \ {job[a]}
<1>1. \A b \in Actors : job'[b] = IF b = a THEN NoJob ELSE job[b]
  BY DEF TypeOK, Typed
<1>2. \A b \in Actors : b # a /\ job[b] # NoJob => job[b] # job[a]
  BY DEF OneHolder
<1>. QED
  BY <1>1, <1>2 DEF Held

(* A pop moves a job from the heap into the hand of the native worker.     *)
LEMMA NativePopStep ==
    ASSUME TypeOK, Ownership, NEW j \in Jobs, NativePop(j)
    PROVE  Ownership' /\ Flow
<1>1. /\ j \in queue
      /\ queue' = queue \ {j}
      /\ job[Native] = NoJob
      /\ job' = [job EXCEPT ![Native] = j]
      /\ Native \in Actors
      /\ pc[Native] # "signoff"
      /\ pc' = [pc EXCEPT ![Native] = "route"]
  BY DEF NativePop, TypeOK, Placed, HoldingPcs, Actors, Workers
<1>2. UNCHANGED <<pending, chanBuf, call, results, inflight>> /\ Survives /\ Buffered' = Buffered
      /\ Accepted' = Accepted
  BY DEF NativePop, Survives, Buffered, Accepted
<1>3. Held' = Held \cup {j}
  BY <1>1, HeldTake
<1>4. Outstanding' = Outstanding
  BY <1>1, <1>2, <1>3 DEF Outstanding
<1>5. \A b \in Actors : /\ job'[b] = IF b = Native THEN j ELSE job[b]
                        /\ pc'[b] = IF b = Native THEN "route" ELSE pc[b]
  BY <1>1 DEF TypeOK, Typed
<1>6. j \notin Held /\ j \notin pending /\ j \notin Buffered
  BY <1>1 DEF Ownership, OneHolder
<1>7. OneHolder'
  <2>1. ASSUME NEW a \in Actors, NEW b \in Actors, job'[a] = job'[b], job'[a] # NoJob
        PROVE  a = b
    BY <1>5, <1>6, <2>1 DEF Ownership, OneHolder, Held
  <2>. QED
    BY <1>1, <1>2, <1>3, <1>6, <2>1 DEF Ownership, OneHolder
<1>8. NoJobLost'
  BY <1>2, <1>4 DEF Ownership, NoJobLost
<1>9. Fresh'
  BY <1>1, <1>2, <1>5, ActorAssumption DEF Ownership, Fresh, Actors
<1>. QED
  BY <1>2, <1>4, <1>7, <1>8, <1>9 DEF Ownership, Flow

(* A send moves the job of the native worker to the end of the channel.    *)
LEMMA NativeSendStep ==
    ASSUME TypeOK, Ownership, NativeSend
    PROVE  Ownership' /\ Flow
<1> DEFINE j == job[Native]
<1>1. /\ j # NoJob
      /\ j \in Jobs
      /\ Native \in Actors
      /\ job' = [job EXCEPT ![Native] = NoJob]
      /\ chanBuf \in Seq(Jobs)
      /\ chanBuf' = Append(chanBuf, j)
      /\ pc[Native] # "signoff"
      /\ pc' = [pc EXCEPT ![Native] = "check"]
  BY DEF NativeSend, TypeOK, Typed, Placed, HoldingPcs, Actors, Workers
<1>2. UNCHANGED <<queue, pending, call, results, inflight>> /\ Survives /\ Accepted' = Accepted
  BY DEF NativeSend, Survives, Accepted
<1>3. Held' = Held \ {j}
  BY <1>1, HeldDrop DEF Ownership
<1>4. j \in Held
  BY <1>1 DEF Held
<1>5. Buffered' = Buffered \cup {j}
  BY <1>1, RangeAppend DEF Buffered
<1>6. j \notin queue /\ j \notin pending /\ j \notin Buffered
  BY <1>4 DEF Ownership, OneHolder
<1>7. Outstanding' = Outstanding
  BY <1>2, <1>3, <1>4, <1>5 DEF Outstanding
<1>8. \A b \in Actors : /\ job'[b] = IF b = Native THEN NoJob ELSE job[b]
                        /\ pc'[b] = IF b = Native THEN "check" ELSE pc[b]
  BY <1>1 DEF TypeOK, Typed
<1>9. OneHolder'
  <2>1. IsInjective(chanBuf')
    BY <1>1, <1>6, RangeAppend DEF Ownership, OneHolder, Buffered
  <2>2. ASSUME NEW a \in Actors, NEW b \in Actors, job'[a] = job'[b], job'[a] # NoJob
        PROVE  a = b
    BY <1>8, <2>2 DEF Ownership, OneHolder
  <2>. QED
    BY <1>2, <1>3, <1>5, <1>6, <2>1, <2>2 DEF Ownership, OneHolder
<1>10. NoJobLost'
  BY <1>2, <1>7 DEF Ownership, NoJobLost
<1>11. Fresh'
  <2>1. results[j] = "none"
    BY <1>1 DEF Ownership, Fresh
  <2>. QED
    BY <1>1, <1>2, <1>5, <1>8, <2>1, ActorAssumption DEF Ownership, Fresh, Actors
<1>. QED
  BY <1>2, <1>7, <1>9, <1>10, <1>11 DEF Ownership, Flow

(* A receive moves the first job of the channel to a CDP worker.           *)
LEMMA CDPReceiveStep ==
    ASSUME TypeOK, Ownership, NEW w \in CDPWorkers, CDPReceive(w)
    PROVE  Ownership' /\ Flow
<1> DEFINE j == Head(chanBuf)
<1>1. /\ w \in Actors
      /\ chanBuf \in Seq(Jobs)
      /\ chanBuf # <<>>
      /\ chanBuf' = Tail(chanBuf)
      /\ job[w] = NoJob
      /\ job' = [job EXCEPT ![w] = j]
      /\ pc[w] # "signoff"
      /\ pc' = [pc EXCEPT ![w] = "run"]
  BY DEF CDPReceive, TypeOK, Typed, Placed, HoldingPcs, Actors, Workers
<1>2. UNCHANGED <<queue, pending, call, results, inflight>> /\ Survives /\ Accepted' = Accepted
  BY DEF CDPReceive, Survives, Accepted
<1>3. j \in Jobs
  BY <1>1, HeadTailProperties
<1>4. Held' = Held \cup {j}
  BY <1>1, <1>3, HeldTake
<1>5. /\ Buffered = Buffered' \cup {j}
      /\ IsInjective(chanBuf')
      /\ j \notin Buffered'
  BY <1>1, RangeTail DEF Ownership, OneHolder, Buffered
<1>6. j \notin queue /\ j \notin pending /\ j \notin Held
  BY <1>5 DEF Ownership, OneHolder
<1>7. Outstanding' = Outstanding
  BY <1>2, <1>4, <1>5 DEF Outstanding
<1>8. \A b \in Actors : /\ job'[b] = IF b = w THEN j ELSE job[b]
                        /\ pc'[b] = IF b = w THEN "run" ELSE pc[b]
  BY <1>1 DEF TypeOK, Typed
<1>9. OneHolder'
  <2>1. ASSUME NEW a \in Actors, NEW b \in Actors, job'[a] = job'[b], job'[a] # NoJob
        PROVE  a = b
    BY <1>8, <1>6, <2>1 DEF Ownership, OneHolder, Held
  <2>. QED
    BY <1>2, <1>4, <1>5, <1>6, <2>1 DEF Ownership, OneHolder
<1>10. NoJobLost'
  BY <1>2, <1>7 DEF Ownership, NoJobLost
<1>11. Fresh'
  <2>1. results[j] = "none"
    BY <1>5 DEF Ownership, Fresh
  <2>. QED
    BY <1>1, <1>2, <1>5, <1>8, <2>1, ActorAssumption DEF Ownership, Fresh, Actors
<1>. QED
  BY <1>2, <1>7, <1>9, <1>10, <1>11 DEF Ownership, Flow

(* abortAll moves the whole heap to the drained jobs.                      *)
LEMMA AbortDrainStep ==
    ASSUME TypeOK, Ownership, AbortDrain
    PROVE  Ownership' /\ Flow
<1>1. pending = {} /\ pending' = queue /\ queue' = {}
  BY DEF AbortDrain, Drained, Ownership, Fresh
<1>2. UNCHANGED <<chanBuf, job, call, results, inflight>> /\ Survives
      /\ Accepted' = Accepted /\ Buffered' = Buffered /\ Held' = Held
  BY DEF AbortDrain, Survives, Accepted, Buffered, Held
<1>3. Outstanding' = Outstanding
  BY <1>1, <1>2 DEF Outstanding
<1>4. /\ \A a \in Actors : pc'[a] = "signoff" <=> pc[a] = "signoff"
      /\ pc'[Stopper] = "abort"
  BY ActorAssumption DEF AbortDrain, WakeNative, TypeOK, Typed, Actors
<1>5. OneHolder'
  BY <1>1, <1>2 DEF Ownership, OneHolder
<1>6. NoJobLost'
  BY <1>2, <1>3 DEF Ownership, NoJobLost
<1>7. Fresh'
  BY <1>1, <1>2, <1>4 DEF Ownership, Fresh
<1>. QED
  BY <1>2, <1>3, <1>5, <1>6, <1>7 DEF Ownership, Flow

(* abortAll takes a drained job in hand and delivers its only result.      *)
LEMMA AbortDeliverStep ==
    ASSUME TypeOK, Ownership, NEW j \in Jobs, AbortDeliver(j)
    PROVE  Ownership' /\ Flow
<1>1. /\ j \in pending
      /\ pending' = pending \ {j}
      /\ job[Stopper] = NoJob
      /\ job' = [job EXCEPT ![Stopper] = j]
      /\ Stopper \in Actors
      /\ pc' = [pc EXCEPT ![Stopper] = "signoff"]
      /\ results' = [results EXCEPT ![j] = "cancelled"]
  BY DEF AbortDeliver, Delivered, TypeOK, Placed, HoldingPcs, Actors, Ownership, Fresh
<1>2. UNCHANGED <<queue, chanBuf, call, inflight>> /\ Survives /\ Buffered' = Buffered /\ Accepted' = Accepted
  BY DEF AbortDeliver, Survives, Buffered, Accepted
<1>3. Held' = Held \cup {j}
  BY <1>1, HeldTake
<1>4. Outstanding' = Outstanding
  BY <1>1, <1>2, <1>3 DEF Outstanding
<1>5. /\ \A b \in Actors : /\ job'[b] = IF b = Stopper THEN j ELSE job[b]
                           /\ pc'[b] = IF b = Stopper THEN "signoff" ELSE pc[b]
      /\ \A k \in Jobs : results'[k] = IF k = j THEN "cancelled" ELSE results[k]
  BY <1>1 DEF TypeOK, Typed
<1>6. j \notin queue /\ j \notin Buffered /\ j \notin Held
  BY <1>1 DEF Ownership, OneHolder
<1>7. OneHolder'
  <2>1. ASSUME NEW a \in Actors, NEW b \in Actors, job'[a] = job'[b], job'[a] # NoJob
        PROVE  a = b
    BY <1>5, <1>6, <2>1 DEF Ownership, OneHolder, Held
  <2>. QED
    BY <1>1, <1>2, <1>3, <1>6, <2>1 DEF Ownership, OneHolder
<1>8. j \in Accepted
  BY <1>1 DEF Ownership, NoJobLost, Outstanding
<1>9. NoJobLost'
  BY <1>2, <1>4, <1>5 DEF Ownership, NoJobLost, Accepted
<1>10. Fresh'
  <2>1. \A k \in queue \cup pending' \cup Buffered : k # j /\ k \in Jobs
    BY <1>1, <1>6, <1>8 DEF Ownership, NoJobLost, Outstanding, Accepted
  <2>2. \A a \in Actors : job[a] # NoJob => job[a] # j /\ job[a] \in Jobs
    BY <1>6 DEF Held, TypeOK, Typed
  <2>3. \A a \in Actors : job'[a] # NoJob => (results'[job'[a]] # "none" <=> pc'[a] = "signoff")
    BY <1>5, <2>2 DEF Ownership, Fresh
  <2>4. \A k \in Jobs : call[k] \notin {"queued", "rejected"} => k # j
    BY <1>8 DEF Accepted
  <2>. QED
    BY <1>1, <1>2, <1>5, <2>1, <2>3, <2>4 DEF Ownership, Fresh
<1>. QED
  BY <1>2, <1>4, <1>7, <1>9, <1>10 DEF Ownership, Flow

(* A worker delivers the only result of the job it holds.                  *)
LEMMA DeliverStep ==
    ASSUME TypeOK, Ownership, NEW w \in Workers, Deliver(w)
    PROVE  Ownership' /\ Flow
<1> DEFINE j == job[w]
<1>1. /\ w \in Actors
      /\ j \in Jobs
      /\ j # NoJob
      /\ pc[w] = "deliver"
      /\ status[w] # "none"
      /\ pc' = [pc EXCEPT ![w] = "signoff"]
  BY DEF Deliver, TypeOK, Typed, Placed, HoldingPcs, Actors
<1>2. results' = [results EXCEPT ![j] = status[w]]
  BY <1>1 DEF Deliver, Delivered, Ownership, Fresh
<1>3. /\ UNCHANGED <<queue, pending, chanBuf, job, call, inflight>> /\ Survives
      /\ Buffered' = Buffered /\ Held' = Held /\ Accepted' = Accepted
  BY DEF Deliver, Survives, Buffered, Held, Accepted
<1>4. Outstanding' = Outstanding
  BY <1>3 DEF Outstanding
<1>5. /\ \A b \in Actors : pc'[b] = IF b = w THEN "signoff" ELSE pc[b]
      /\ \A k \in Jobs : results'[k] = IF k = j THEN status[w] ELSE results[k]
  BY <1>1, <1>2 DEF TypeOK, Typed
<1>6. OneHolder'
  BY <1>3 DEF Ownership, OneHolder
<1>7. NoJobLost'
  BY <1>1, <1>3, <1>4, <1>5 DEF Ownership, NoJobLost, Accepted
<1>8. Fresh'
  <2>1. j \in Held /\ j \in Accepted
    BY <1>1 DEF Held, Ownership, NoJobLost, Outstanding
  <2>2. \A k \in queue \cup pending \cup Buffered : k # j /\ k \in Jobs
    BY <2>1 DEF Ownership, OneHolder, NoJobLost, Outstanding, Accepted
  <2>3. \A a \in Actors : job[a] # NoJob => (a = w <=> job[a] = j) /\ job[a] \in Jobs
    BY <1>1 DEF Ownership, OneHolder, TypeOK, Typed
  <2>4. \A a \in Actors : job[a] # NoJob => (results'[job[a]] # "none" <=> pc'[a] = "signoff")
    BY <1>1, <1>5, <2>3 DEF Ownership, Fresh
  <2>5. \A k \in Jobs : call[k] \notin {"queued", "rejected"} => k # j
    BY <2>1 DEF Accepted
  <2>6. w # Stopper
    BY ActorAssumption DEF Workers
  <2>. QED
    BY <1>1, <1>3, <1>5, <2>2, <2>4, <2>5, <2>6 DEF Ownership, Fresh, Actors
<1>. QED
  BY <1>3, <1>4, <1>6, <1>7, <1>8 DEF Ownership, Flow

(* inflight.Done drops a job whose result has been delivered.              *)
LEMMA SignOffStep ==
    ASSUME TypeOK, Ownership, NEW a \in Actors, SignOff(a)
    PROVE  Ownership' /\ Flow
<1> DEFINE j == job[a]
<1>1. /\ j \in Jobs
      /\ j # NoJob
      /\ pc[a] = "signoff"
      /\ job' = [job EXCEPT ![a] = NoJob]
      /\ pc' = [pc EXCEPT ![a] = AfterJob(a)]
  BY DEF SignOff, TypeOK, Typed, Placed, HoldingPcs
<1>2. /\ UNCHANGED <<queue, pending, chanBuf, call, results>>
      /\ Buffered' = Buffered /\ Accepted' = Accepted
  BY DEF SignOff, Buffered, Accepted
<1>3. inflight # 0 => inflight' = inflight - 1 /\ panic' = panic
  BY DEF SignOff
<1>4. Held' = Held \ {j} /\ j \in Held
  BY <1>1, HeldDrop DEF Ownership, Held
<1>5. j \notin queue /\ j \notin pending /\ j \notin Buffered
  BY <1>4 DEF Ownership, OneHolder
<1>6. Outstanding' = Outstanding \ {j} /\ j \in Outstanding
  BY <1>2, <1>4, <1>5 DEF Outstanding
<1>7. \A b \in Actors : /\ job'[b] = IF b = a THEN NoJob ELSE job[b]
                        /\ pc'[b] = IF b = a THEN AfterJob(a) ELSE pc[b]
  BY <1>1 DEF TypeOK, Typed
<1>8. OneHolder'
  <2>1. ASSUME NEW b \in Actors, NEW c \in Actors, job'[b] = job'[c], job'[b] # NoJob
        PROVE  b = c
    BY <1>7, <2>1 DEF Ownership, OneHolder
  <2>. QED
    BY <1>2, <1>4, <2>1 DEF Ownership, OneHolder
<1>9. NoJobLost'
  <2>1. results[j] # "none"
    BY <1>1 DEF Ownership, Fresh
  <2>. QED
    BY <1>2, <1>6, <2>1 DEF Ownership, NoJobLost
<1>10. Fresh'
  <2>1. a = Stopper => AfterJob(a) = "abort"
    BY ActorAssumption DEF AfterJob
  <2>. QED
    BY <1>2, <1>7, <2>1 DEF Ownership, Fresh, Actors
<1>. QED
  BY <1>3, <1>6, <1>8, <1>9, <1>10 DEF Ownership, Flow

(* A rejected job gets its result without ever being accepted.             *)
LEMMA DeliverRejectedStep ==
    ASSUME TypeOK, Ownership, NEW j \in Jobs, DeliverRejected(j)
    PROVE  Ownership' /\ Flow
<1>1. /\ UNCHANGED <<queue, pending, chanBuf, job, inflight, pc>> /\ Survives
      /\ Buffered' = Buffered /\ Held' = Held
  BY DEF DeliverRejected, Survives, Buffered, Held
<1>2. Outstanding' = Outstanding
  BY <1>1 DEF Outstanding
<1>3. /\ call[j] = "rejecting"
      /\ \A k \in Jobs : call'[k] = IF k = j THEN "rejected" ELSE call[k]
      /\ \A k \in Jobs : k # j => results'[k] = results[k]
  BY DEF DeliverRejected, Delivered, TypeOK, Typed
<1>4. Accepted' = Accepted /\ j \notin Accepted
  BY <1>3 DEF Accepted
<1>5. j \notin Outstanding
  BY <1>4 DEF Ownership, NoJobLost
<1>6. OneHolder'
  BY <1>1 DEF Ownership, OneHolder
<1>7. NoJobLost'
  BY <1>2, <1>3, <1>4 DEF Ownership, NoJobLost, Accepted
<1>8. Fresh'
  <2>1. \A k \in queue \cup pending \cup Buffered : k # j /\ k \in Jobs
    BY <1>5 DEF Ownership, NoJobLost, Outstanding, Accepted
  <2>2. \A a \in Actors : job[a] # NoJob => job[a] # j /\ job[a] \in Jobs
    BY <1>5 DEF Outstanding, Held, TypeOK, Typed
  <2>. QED
    BY <1>1, <1>3, <2>1, <2>2 DEF Ownership, Fresh
<1>. QED
  BY <1>1, <1>2, <1>6, <1>7, <1>8 DEF Ownership, Flow

(* Every step keeps the invariant and moves at most one job in or out.     *)
LEMMA OwnershipStep == TypeOK /\ Ownership /\ [Next]_vars => Ownership' /\ Flow
<1> SUFFICES ASSUME TypeOK, Ownership, [Next]_vars PROVE Ownership' /\ Flow
  OBVIOUS
<1>1. ASSUME NEW b \in Browsers, Register(b) PROVE Ownership' /\ Flow
  <2>1. UNCHANGED <<queue, pending, chanBuf, job, results, inflight, call>> /\ Survives
    BY <1>1 DEF Register, Survives
  <2>2. /\ \A c \in Actors : pc'[c] = "signoff" <=> pc[c] = "signoff"
        /\ pc'[Stopper] = pc[Stopper] \/ pending = {}
    BY <1>1, ActorAssumption DEF Register, TypeOK, Typed, Placed, Actors, Workers
  <2>. QED
    BY <2>1, <2>2, QuietStep DEF Accepted
<1>2. ASSUME NEW b \in Browsers, Unregister(b) PROVE Ownership' /\ Flow
  <2>1. UNCHANGED <<queue, pending, chanBuf, job, results, inflight, call>> /\ Survives
    BY <1>2 DEF Unregister, Survives
  <2>2. /\ \A c \in Actors : pc'[c] = "signoff" <=> pc[c] = "signoff"
        /\ pc'[Stopper] = pc[Stopper] \/ pending = {}
    BY <1>2, ActorAssumption DEF Unregister, TypeOK, Typed, Placed, Actors, Workers
  <2>. QED
    BY <2>1, <2>2, QuietStep DEF Accepted
<1>3. ASSUME NEW j \in Jobs, SubmitCheck(j) PROVE Ownership' /\ Flow
  <2>1. UNCHANGED <<queue, pending, chanBuf, job, results, inflight, pc>> /\ Survives
    BY <1>3 DEF SubmitCheck, Survives
  <2>2. /\ Accepted' = Accepted
        /\ \A k \in Jobs : call'[k] \notin {"queued", "rejected"} => call[k] \notin {"queued", "rejected"}
    BY <1>3 DEF SubmitCheck, Accepted, TypeOK, Typed
  <2>. QED
    BY <2>1, <2>2, QuietStep
<1>4. ASSUME NEW j \in Jobs, Enqueue(j) PROVE Ownership' /\ Flow
  BY <1>4, EnqueueStep
<1>5. ASSUME NEW j \in Jobs, EnqueueRejected(j) PROVE Ownership' /\ Flow
  <2>1. UNCHANGED <<queue, pending, chanBuf, job, results, inflight, pc>> /\ Survives
    BY <1>5 DEF EnqueueRejected, Accepts, Survives
  <2>2. /\ Accepted' = Accepted
        /\ \A k \in Jobs : call'[k] \notin {"queued", "rejected"} => call[k] \notin {"queued", "rejected"}
    BY <1>5 DEF EnqueueRejected, Accepts, Accepted, TypeOK, Typed
  <2>. QED
    BY <2>1, <2>2, QuietStep
<1>6. ASSUME NEW j \in Jobs, DeliverRejected(j) PROVE Ownership' /\ Flow
  BY <1>6, DeliverRejectedStep
<1>7. ASSUME StartMark PROVE Ownership' /\ Flow
  <2>1. UNCHANGED <<queue, pending, chanBuf, job, results, inflight, call>> /\ Survives
    BY <1>7 DEF StartMark, Survives
  <2>2. /\ \A c \in Actors : pc'[c] = "signoff" <=> pc[c] = "signoff"
        /\ pc'[Stopper] = pc[Stopper] \/ pending = {}
    BY <1>7, ActorAssumption DEF StartMark, TypeOK, Typed, Placed, Actors, Workers
  <2>. QED
    BY <2>1, <2>2, QuietStep DEF Accepted
<1>8. ASSUME StartSpawn PROVE Ownership' /\ Flow
  <2>1. UNCHANGED <<queue, pending, chanBuf, job, results, inflight, call>> /\ Survives
    BY <1>8 DEF StartSpawn, Survives
  <2>2. /\ \A c \in Actors : pc'[c] = "signoff" <=> pc[c] = "signoff"
        /\ pc'[Stopper] = pc[Stopper] \/ pending = {}
    BY <1>8, ActorAssumption DEF StartSpawn, TypeOK, Typed, Placed, Actors, Workers
  <2>. QED
    BY <2>1, <2>2, QuietStep DEF Accepted
<1>9. ASSUME NEW r \in Reasons, Pause(r) PROVE Ownership' /\ Flow
  <2>1. UNCHANGED <<queue, pending, chanBuf, job, results, inflight, call>> /\ Survives
    BY <1>9 DEF Pause, Survives
  <2>2. /\ \A c \in Actors : pc'[c] = "signoff" <=> pc[c] = "signoff"
        /\ pc'[Stopper] = pc[Stopper] \/ pending = {}
    BY <1>9, ActorAssumption DEF Pause, TypeOK, Typed, Placed, Actors, Workers
  <2>. QED
    BY <2>1, <2>2, QuietStep DEF Accepted
<1>10. ASSUME NEW r \in Reasons, Resume(r) PROVE Ownership' /\ Flow
  <2>1. UNCHANGED <<queue, pending, chanBuf, job, results, inflight, call>> /\ Survives
    BY <1>10 DEF Resume, Resumed, WakeNative, Survives
  <2>2. /\ \A c \in Actors : pc'[c] = "signoff" <=> pc[c] = "signoff"
        /\ pc'[Stopper] = pc[Stopper] \/ pending = {}
    BY <1>10, ActorAssumption DEF Resume, Resumed, WakeNative, TypeOK, Typed, Placed, Actors,
      Workers
  <2>. QED
    BY <2>1, <2>2, QuietStep DEF Accepted
<1>11. ASSUME NativeWait PROVE Ownership' /\ Flow
  <2>1. UNCHANGED <<queue, pending, chanBuf, job, results, inflight, call>> /\ Survives
    BY <1>11 DEF NativeWait, Survives
  <2>2. /\ \A c \in Actors : pc'[c] = "signoff" <=> pc[c] = "signoff"
        /\ pc'[Stopper] = pc[Stopper] \/ pending = {}
    BY <1>11, ActorAssumption DEF NativeWait, TypeOK, Typed, Placed, Actors, Workers
  <2>. QED
    BY <2>1, <2>2, QuietStep DEF Accepted
<1>12. ASSUME NativeExit PROVE Ownership' /\ Flow
  <2>1. UNCHANGED <<queue, pending, chanBuf, job, results, inflight, call>> /\ Survives
    BY <1>12 DEF NativeExit, Survives
  <2>2. /\ \A c \in Actors : pc'[c] = "signoff" <=> pc[c] = "signoff"
        /\ pc'[Stopper] = pc[Stopper] \/ pending = {}
    BY <1>12, ActorAssumption DEF NativeExit, TypeOK, Typed, Placed, Actors, Workers
  <2>. QED
    BY <2>1, <2>2, QuietStep DEF Accepted
<1>13. ASSUME NEW j \in Jobs, NativePop(j) PROVE Ownership' /\ Flow
  BY <1>13, NativePopStep
<1>14. ASSUME NativeRoute \/ NativeForward PROVE Ownership' /\ Flow
  <2>1. UNCHANGED <<queue, pending, chanBuf, job, results, inflight, call>> /\ Survives
    BY <1>14 DEF NativeRoute, NativeForward, OnNative, Survives
  <2>2. /\ \A c \in Actors : pc'[c] = "signoff" <=> pc[c] = "signoff"
        /\ pc'[Stopper] = pc[Stopper] \/ pending = {}
    BY <1>14, ActorAssumption DEF NativeRoute, NativeForward, OnNative, TypeOK, Typed, Placed, Actors,
      Workers
  <2>. QED
    BY <2>1, <2>2, QuietStep DEF Accepted
<1>15. ASSUME NativeSend PROVE Ownership' /\ Flow
  BY <1>15, NativeSendStep
<1>16. ASSUME NativeSendClosed PROVE Ownership' /\ Flow
  <2>1. UNCHANGED <<queue, pending, chanBuf, job, results, inflight, call>> /\ Survives
    BY <1>16 DEF NativeSendClosed, Survives
  <2>2. /\ \A c \in Actors : pc'[c] = "signoff" <=> pc[c] = "signoff"
        /\ pc'[Stopper] = pc[Stopper] \/ pending = {}
    BY <1>16, ActorAssumption DEF NativeSendClosed, TypeOK, Typed, Placed, Actors, Workers
  <2>. QED
    BY <2>1, <2>2, QuietStep DEF Accepted
<1>17. ASSUME NativeSendCancelled PROVE Ownership' /\ Flow
  <2>1. UNCHANGED <<queue, pending, chanBuf, job, results, inflight, call>> /\ Survives
    BY <1>17 DEF NativeSendCancelled, Survives
  <2>2. /\ \A c \in Actors : pc'[c] = "signoff" <=> pc[c] = "signoff"
        /\ pc'[Stopper] = pc[Stopper] \/ pending = {}
    BY <1>17, ActorAssumption DEF NativeSendCancelled, TypeOK, Typed, Placed, Actors, Workers
  <2>. QED
    BY <2>1, <2>2, QuietStep DEF Accepted
<1>18. ASSUME NEW w \in CDPWorkers, CDPBegin(w) PROVE Ownership' /\ Flow
  <2>1. UNCHANGED <<queue, pending, chanBuf, job, results, inflight, call>> /\ Survives
    BY <1>18 DEF CDPBegin, Survives
  <2>2. /\ \A c \in Actors : pc'[c] = "signoff" <=> pc[c] = "signoff"
        /\ pc'[Stopper] = pc[Stopper] \/ pending = {}
    BY <1>18, ActorAssumption DEF CDPBegin, TypeOK, Typed, Placed, Actors, Workers
  <2>. QED
    BY <2>1, <2>2, QuietStep DEF Accepted
<1>19. ASSUME NEW w \in CDPWorkers, CDPReceive(w) PROVE Ownership' /\ Flow
  BY <1>19, CDPReceiveStep
<1>20. ASSUME NEW w \in CDPWorkers, CDPExit(w) PROVE Ownership' /\ Flow
  <2>1. UNCHANGED <<queue, pending, chanBuf, job, results, inflight, call>> /\ Survives
    BY <1>20 DEF CDPExit, Survives
  <2>2. /\ \A c \in Actors : pc'[c] = "signoff" <=> pc[c] = "signoff"
        /\ pc'[Stopper] = pc[Stopper] \/ pending = {}
    BY <1>20, ActorAssumption DEF CDPExit, TypeOK, Typed, Placed, Actors, Workers
  <2>. QED
    BY <2>1, <2>2, QuietStep DEF Accepted
<1>21. ASSUME NEW w \in Workers, NEW s \in Outcomes, RunUntouched(w, s) PROVE Ownership' /\ Flow
  <2>1. UNCHANGED <<queue, pending, chanBuf, job, results, inflight, call>> /\ Survives
    BY <1>21 DEF RunUntouched, Survives
  <2>2. /\ \A c \in Actors : pc'[c] = "signoff" <=> pc[c] = "signoff"
        /\ pc'[Stopper] = pc[Stopper] \/ pending = {}
    BY <1>21, ActorAssumption DEF RunUntouched, TypeOK, Typed, Placed, Actors, Workers
  <2>. QED
    BY <2>1, <2>2, QuietStep DEF Accepted
<1>22. ASSUME NEW w \in Workers, RunExec(w) PROVE Ownership' /\ Flow
  <2>1. UNCHANGED <<queue, pending, chanBuf, job, results, inflight, call>> /\ Survives
    BY <1>22 DEF RunExec, Survives
  <2>2. /\ \A c \in Actors : pc'[c] = "signoff" <=> pc[c] = "signoff"
        /\ pc'[Stopper] = pc[Stopper] \/ pending = {}
    BY <1>22, ActorAssumption DEF RunExec, TypeOK, Typed, Placed, Actors, Workers
  <2>. QED
    BY <2>1, <2>2, QuietStep DEF Accepted
<1>23. ASSUME NEW w \in Workers, NEW s \in Outcomes, RunDone(w, s) PROVE Ownership' /\ Flow
  <2>1. UNCHANGED <<queue, pending, chanBuf, job, results, inflight, call>> /\ Survives
    BY <1>23 DEF RunDone, Survives
  <2>2. /\ \A c \in Actors : pc'[c] = "signoff" <=> pc[c] = "signoff"
        /\ pc'[Stopper] = pc[Stopper] \/ pending = {}
    BY <1>23, ActorAssumption DEF RunDone, TypeOK, Typed, Placed, Actors, Workers
  <2>. QED
    BY <2>1, <2>2, QuietStep DEF Accepted
<1>24. ASSUME NEW w \in Workers, Deliver(w) PROVE Ownership' /\ Flow
  BY <1>24, DeliverStep
<1>25. ASSUME NEW a \in Actors, SignOff(a) PROVE Ownership' /\ Flow
  BY <1>25, SignOffStep
<1>26. ASSUME StopMark PROVE Ownership' /\ Flow
  <2>1. UNCHANGED <<queue, pending, chanBuf, job, results, inflight, call>> /\ Survives
    BY <1>26 DEF StopMark, Survives
  <2>2. /\ \A c \in Actors : pc'[c] = "signoff" <=> pc[c] = "signoff"
        /\ pc'[Stopper] = pc[Stopper] \/ pending = {}
    BY <1>26, ActorAssumption DEF StopMark, TypeOK, Typed, Placed, Actors, Workers, Ownership, Fresh
  <2>. QED
    BY <2>1, <2>2, QuietStep DEF Accepted
<1>27. ASSUME StopReconcile PROVE Ownership' /\ Flow
  <2>1. UNCHANGED <<queue, pending, chanBuf, job, results, inflight, call>> /\ Survives
    BY <1>27 DEF StopReconcile, WakeNative, Survives
  <2>2. /\ \A c \in Actors : pc'[c] = "signoff" <=> pc[c] = "signoff"
        /\ pc'[Stopper] = pc[Stopper] \/ pending = {}
    BY <1>27, ActorAssumption DEF StopReconcile, WakeNative, TypeOK, Typed, Placed, Actors,
      Workers, Ownership, Fresh
  <2>. QED
    BY <2>1, <2>2, QuietStep DEF Accepted
<1>28. ASSUME AbortDrain PROVE Ownership' /\ Flow
  BY <1>28, AbortDrainStep
<1>29. ASSUME NEW j \in Jobs, AbortDeliver(j) PROVE Ownership' /\ Flow
  BY <1>29, AbortDeliverStep
<1>30. ASSUME AbortClose PROVE Ownership' /\ Flow
  <2>1. UNCHANGED <<queue, pending, chanBuf, job, results, inflight, call>> /\ Survives
    BY <1>30 DEF AbortClose, Survives
  <2>2. /\ \A c \in Actors : pc'[c] = "signoff" <=> pc[c] = "signoff"
        /\ pc'[Stopper] = pc[Stopper] \/ pending = {}
    BY <1>30, ActorAssumption DEF AbortClose, TypeOK, Typed, Placed, Actors, Workers, Ownership,
      Fresh
  <2>. QED
    BY <2>1, <2>2, QuietStep DEF Accepted
<1>31. ASSUME AbortClear PROVE Ownership' /\ Flow
  <2>1. UNCHANGED <<queue, pending, chanBuf, job, results, inflight, call>> /\ Survives
    BY <1>31 DEF AbortClear, Survives
  <2>2. /\ \A c \in Actors : pc'[c] = "signoff" <=> pc[c] = "signoff"
        /\ pc'[Stopper] = pc[Stopper] \/ pending = {}
    BY <1>31, ActorAssumption DEF AbortClear, TypeOK, Typed, Placed, Actors, Workers, Ownership,
      Fresh
  <2>. QED
    BY <2>1, <2>2, QuietStep DEF Accepted
<1>32. ASSUME StopCancel PROVE Ownership' /\ Flow
  <2>1. UNCHANGED <<queue, pending, chanBuf, job, results, inflight, call>> /\ Survives
    BY <1>32 DEF StopCancel, Survives
  <2>2. /\ \A c \in Actors : pc'[c] = "signoff" <=> pc[c] = "signoff"
        /\ pc'[Stopper] = pc[Stopper] \/ pending = {}
    BY <1>32, ActorAssumption DEF StopCancel, TypeOK, Typed, Placed, Actors, Workers, Ownership,
      Fresh
  <2>. QED
    BY <2>1, <2>2, QuietStep DEF Accepted
<1>33. ASSUME WaitCall PROVE Ownership' /\ Flow
  <2>1. UNCHANGED <<queue, pending, chanBuf, job, results, inflight, call>> /\ Survives
    BY <1>33 DEF WaitCall, Survives
  <2>2. /\ \A c \in Actors : pc'[c] = "signoff" <=> pc[c] = "signoff"
        /\ pc'[Stopper] = pc[Stopper] \/ pending = {}
    BY <1>33, ActorAssumption DEF WaitCall, TypeOK, Typed, Placed, Actors, Workers
  <2>. QED
    BY <2>1, <2>2, QuietStep DEF Accepted
<1>34. ASSUME WaitReturn PROVE Ownership' /\ Flow
  <2>1. UNCHANGED <<queue, pending, chanBuf, job, results, inflight, call>> /\ Survives
    BY <1>34 DEF WaitReturn, Survives
  <2>2. /\ \A c \in Actors : pc'[c] = "signoff" <=> pc[c] = "signoff"
        /\ pc'[Stopper] = pc[Stopper] \/ pending = {}
    BY <1>34, ActorAssumption DEF WaitReturn, TypeOK, Typed, Placed, Actors, Workers
  <2>. QED
    BY <2>1, <2>2, QuietStep DEF Accepted
<1>90. ASSUME UNCHANGED vars PROVE Ownership' /\ Flow
  BY <1>90, QuietStep DEF vars, Accepted, Survives
<1>. QED
  BY <1>1, <1>2, <1>3, <1>4, <1>5, <1>6, <1>7, <1>8, <1>9, <1>10, <1>11, <1>12, <1>13,
     <1>14, <1>15, <1>16, <1>17, <1>18, <1>19, <1>20, <1>21, <1>22, <1>23, <1>24, <1>25,
     <1>26, <1>27, <1>28, <1>29, <1>30, <1>31, <1>32, <1>33, <1>34, <1>90 DEF Next,
     ClientStep, SubmitBody, NativeStep, CDPStep, RunStep, StopBody, Actors, Outcomes

-----------------------------------------------------------------------------
(* The invariant holds in the initial state: there are no jobs yet.        *)
LEMMA InitInvariant == Init => TypeOK /\ Ownership /\ InflightExact
<1> SUFFICES ASSUME Init PROVE TypeOK /\ Ownership /\ InflightExact
  OBVIOUS
<1>1. TypeOK
  <2>1. Typed
    BY EmptySeq DEF Init, Typed, NativePcs, CDPPcs, StopperPcs, Outcomes, Statuses
  <2>2. \A a \in Actors : Placed(a)
    BY DEF Init, Placed, Actors, Workers, NativePcs, CDPPcs, StopperPcs, HoldingPcs
  <2>. QED
    BY <2>1, <2>2 DEF TypeOK
<1>2. Buffered = {} /\ Held = {} /\ Outstanding = {} /\ Accepted = {}
  BY DEF Init, Buffered, Held, Outstanding, Accepted, Range
<1>3. IsInjective(chanBuf)
  BY DEF Init, IsInjective
<1>4. Ownership
  BY <1>2, <1>3 DEF Init, Ownership, OneHolder, NoJobLost, Fresh
<1>5. InflightExact
  BY <1>2, FS_EmptySet DEF Init, InflightExact
<1>. QED
  BY <1>1, <1>4, <1>5

(* The jobs in flight are finitely many, so that they can be counted.      *)
LEMMA OutstandingFinite ==
    ASSUME TypeOK, Ownership
    PROVE  IsFiniteSet(Outstanding) /\ Cardinality(Outstanding) \in Nat
<1>1. Outstanding \in SUBSET Jobs
  BY DEF Ownership, NoJobLost, Accepted
<1>. QED
  BY <1>1, JobAssumption, FS_Subset, FS_CardinalityType

(* The WaitGroup is raised and lowered with the jobs in flight; only       *)
(* SignOff could take it below zero, and it always finds its own job there.*)
LEMMA InflightStep ==
    ASSUME TypeOK, Ownership, InflightExact, [Next]_vars PROVE InflightExact'
<1>1. Flow
  BY OwnershipStep
<1>2. inflight = Cardinality(Outstanding) /\ panic # "negativeWaitGroup"
  BY DEF InflightExact
<1>3. inflight' = Cardinality(Outstanding')
  <2>1. CASE Outstanding' = Outstanding /\ inflight' = inflight /\ Survives
    BY <1>2, <2>1
  <2>2. ASSUME NEW j \in Jobs \ Outstanding,
               Outstanding' = Outstanding \cup {j}, inflight' = inflight + 1
        PROVE  inflight' = Cardinality(Outstanding')
    BY <1>2, <2>2, OutstandingFinite, FS_AddElement
  <2>3. ASSUME NEW j \in Outstanding, Outstanding' = Outstanding \ {j},
               inflight # 0 => inflight' = inflight - 1 /\ panic' = panic
        PROVE  inflight' = Cardinality(Outstanding')
    <3>1. Cardinality(Outstanding) # 0
      BY OutstandingFinite, FS_EmptySet
    <3>. QED
      BY <1>2, <2>3, <3>1, OutstandingFinite, FS_RemoveElement
  <2>. QED
    BY <1>1, <2>1, <2>2, <2>3 DEF Flow
<1>4. panic' # "negativeWaitGroup"
  <2>1. ASSUME NEW j \in Outstanding, inflight # 0 => panic' = panic
        PROVE  panic' # "negativeWaitGroup"
    BY <1>2, <2>1, OutstandingFinite, FS_EmptySet
  <2>. QED
    BY <1>1, <1>2, <2>1 DEF Flow, Survives
<1>. QED
  BY <1>3, <1>4 DEF InflightExact

-----------------------------------------------------------------------------
(* The state of the fleet is well typed, whatever clients and workers do.  *)
THEOREM TypeCorrect == Spec => []TypeOK
<1>1. Init => TypeOK
  BY InitInvariant
<1>. QED
  BY <1>1, TypeStep, PTL DEF Spec

(* The inductive invariant holds in every reachable state.                 *)
LEMMA Invariance == Spec => [](TypeOK /\ Ownership /\ InflightExact)
<1>1. TypeOK /\ Ownership /\ InflightExact /\ [Next]_vars
        => (TypeOK /\ Ownership /\ InflightExact)'
  BY TypeStep, OwnershipStep, InflightStep
<1>. QED
  BY <1>1, InitInvariant, PTL DEF Spec

(* An accepted job is in one place at a time, so no two goroutines ever    *)
(* run or settle the same job.                                             *)
THEOREM OneHolderHolds == Spec => []OneHolder
<1>1. Ownership => OneHolder
  BY DEF Ownership
<1>. QED
  BY <1>1, Invariance, PTL

(* An accepted job is somewhere until its result is delivered.             *)
THEOREM NoJobLostHolds == Spec => []NoJobLost
<1>1. Ownership => NoJobLost
  BY DEF Ownership
<1>. QED
  BY <1>1, Invariance, PTL

(* The WaitGroup counts the jobs in flight exactly and never goes negative.*)
THEOREM InflightHolds == Spec => []InflightExact
BY Invariance, PTL

(* No job is delivered a second result.                                    *)
THEOREM DeliverOnceHolds == Spec => []DeliverOnce
<1>1. Ownership => DeliverOnce
  BY DEF Ownership, Fresh, DeliverOnce, Outstanding, Held
<1>. QED
  BY <1>1, Invariance, PTL

-----------------------------------------------------------------------------
(* Nothing is on the heap of a stopped dispatcher: enqueue tests stopped   *)
(* under the lock under which abortAll sets it and drains the heap.        *)
THEOREM NothingQueuedHolds == Spec => []NothingQueuedAfterStop
<1>1. Init => NothingQueuedAfterStop
  BY DEF Init, NothingQueuedAfterStop
<1>2. NothingQueuedAfterStop /\ [Next]_vars => NothingQueuedAfterStop'
  <2> SUFFICES ASSUME NothingQueuedAfterStop, [Next]_vars PROVE NothingQueuedAfterStop'
    OBVIOUS
  <2> USE DEF NothingQueuedAfterStop
  <2>1. CASE ClientStep
    BY <2>1 DEF ClientStep, Register, Unregister, SubmitCheck, StartMark, Pause, Resume,
                StopMark, WaitCall
  <2>2. ASSUME NEW j \in Jobs, SubmitBody(j) PROVE NothingQueuedAfterStop'
    BY <2>2 DEF SubmitBody, Enqueue, Accepts, EnqueueRejected, DeliverRejected
  <2>3. CASE StartSpawn \/ WaitReturn
    BY <2>3 DEF StartSpawn, WaitReturn
  <2>4. CASE NativeStep
    BY <2>4 DEF NativeStep, NativeWait, NativeExit, NativePop, NativeRoute, NativeForward, NativeSend,
                NativeSendClosed, NativeSendCancelled
  <2>5. ASSUME NEW w \in CDPWorkers, CDPStep(w) PROVE NothingQueuedAfterStop'
    BY <2>5 DEF CDPStep, CDPBegin, CDPReceive, CDPExit
  <2>6. ASSUME NEW w \in Workers, RunStep(w) PROVE NothingQueuedAfterStop'
    BY <2>6 DEF RunStep, RunUntouched, RunExec, RunDone, Deliver, SignOff
  <2>7. CASE StopBody
    BY <2>7 DEF StopBody, StopReconcile, AbortDrain, Drained, AbortDeliver, AbortClose,
                AbortClear, StopCancel, SignOff
  <2>8. CASE UNCHANGED vars
    BY <2>8 DEF vars
  <2>. QED
    BY <2>1, <2>2, <2>3, <2>4, <2>5, <2>6, <2>7, <2>8 DEF Next
<1>. QED
  BY <1>1, <1>2, PTL DEF Spec

(* Sequence numbers of accepted jobs are distinct and not above the last   *)
(* one given out: what NoOvertaking needs to be inductive.                 *)
Numbered ==
    /\ \A j \in Accepted : seq[j] \in 1..insertSeq
    /\ \A j, k \in Accepted : seq[j] = seq[k] => j = k

(* Only Enqueue accepts a job and numbers it; only Enqueue, NativePop and  *)
(* AbortDrain change the queue.                                            *)
LEMMA QueueSteps ==
    ASSUME TypeOK, [Next]_vars
    PROVE  \/ \E j \in Jobs : Enqueue(j)
           \/ \E j \in Jobs : NativePop(j)
           \/ AbortDrain
           \/ queue' = queue /\ seq' = seq /\ insertSeq' = insertSeq /\ Accepted' = Accepted
<1> DEFINE Same == queue' = queue /\ seq' = seq /\ insertSeq' = insertSeq /\ Accepted' = Accepted
<1> USE DEF TypeOK, Typed, Accepted
<1>1. CASE ClientStep
  <2>1. ASSUME NEW j \in Jobs, SubmitCheck(j) PROVE Same
    BY <2>1 DEF SubmitCheck
  <2>. QED
    BY <1>1, <2>1 DEF ClientStep, Register, Unregister, StartMark, Pause, Resume, StopMark, WaitCall
<1>2. ASSUME NEW j \in Jobs, SubmitBody(j), ~ Enqueue(j) PROVE Same
  BY <1>2 DEF SubmitBody, EnqueueRejected, DeliverRejected
<1>3. CASE StartSpawn \/ WaitReturn
  BY <1>3 DEF StartSpawn, WaitReturn
<1>4. ASSUME NativeStep, ~ \E j \in Jobs : NativePop(j) PROVE Same
  BY <1>4 DEF NativeStep, NativeWait, NativeExit, NativeRoute, NativeForward, NativeSend, NativeSendClosed,
              NativeSendCancelled
<1>5. ASSUME NEW w \in CDPWorkers, CDPStep(w) PROVE Same
  BY <1>5 DEF CDPStep, CDPBegin, CDPReceive, CDPExit
<1>6. ASSUME NEW w \in Actors, SignOff(w) \/ RunStep(w) PROVE Same
  BY <1>6 DEF RunStep, RunUntouched, RunExec, RunDone, Deliver, SignOff
<1>7. ASSUME StopBody, ~ AbortDrain PROVE Same
  BY <1>6, <1>7 DEF StopBody, StopReconcile, AbortDeliver, AbortClose, AbortClear, StopCancel, Actors
<1>8. CASE UNCHANGED vars
  BY <1>8 DEF vars
<1>. QED
  BY <1>1, <1>2, <1>3, <1>4, <1>5, <1>6, <1>7, <1>8 DEF Next, Actors

(* No job leaves the heap before an earlier one of at least its priority.  *)
THEOREM NoOvertakingHolds == Spec => []NoOvertaking
<1>1. Init => Numbered /\ NoOvertaking
  BY DEF Init, Numbered, NoOvertaking, Accepted
<1>2. TypeOK /\ Numbered /\ NoOvertaking /\ [Next]_vars => Numbered' /\ NoOvertaking'
  <2> SUFFICES ASSUME TypeOK, Numbered, NoOvertaking, [Next]_vars PROVE Numbered' /\ NoOvertaking'
    OBVIOUS
  <2>0. /\ call \in [Jobs -> {"idle", "refused", "checked", "queued", "rejecting", "rejected"}]
        /\ seq \in [Jobs -> Nat] /\ insertSeq \in Nat /\ queue \subseteq Jobs
        /\ Priority \in [Jobs -> Int]
    BY JobAssumption DEF TypeOK, Typed
  <2>1. ASSUME NEW j \in Jobs, Enqueue(j) PROVE Numbered' /\ NoOvertaking'
    <3>1. /\ Accepted' = Accepted \cup {j} /\ j \notin Accepted
          /\ seq' = [seq EXCEPT ![j] = insertSeq + 1] /\ insertSeq' = insertSeq + 1
          /\ queue' = queue \cup {j}
      BY <2>0, <2>1 DEF Enqueue, Accepted
    <3>2. \A k \in Accepted : k \in Jobs /\ seq'[k] = seq[k] /\ seq[k] \in 1..insertSeq
      BY <2>0, <3>1 DEF Numbered, Accepted
    <3>3. seq'[j] = insertSeq + 1
      BY <2>0, <3>1
    <3>4. Numbered'
      BY <2>0, <3>1, <3>2, <3>3 DEF Numbered
    <3>5. ASSUME NEW i \in queue', NEW k \in Accepted' \ queue'
          PROVE  ~(seq'[i] < seq'[k] /\ Priority[i] >= Priority[k])
      <4>1. k \in Accepted \ queue
        BY <3>1
      <4>2. CASE i = j
        BY <2>0, <3>2, <3>3, <4>1, <4>2
      <4>3. CASE i # j
        BY <2>0, <3>1, <3>2, <4>1, <4>3 DEF NoOvertaking
      <4>. QED
        BY <4>2, <4>3
    <3>. QED
      BY <3>4, <3>5 DEF NoOvertaking
  <2>2. ASSUME NEW j \in Jobs, NativePop(j) PROVE Numbered' /\ NoOvertaking'
    <3>1. /\ Accepted' = Accepted /\ seq' = seq /\ insertSeq' = insertSeq
          /\ queue' = queue \ {j} /\ j \in queue
          /\ \A k \in queue \ {j} : Before(j, k)
      BY <2>2 DEF NativePop, Accepted
    <3>2. ASSUME NEW i \in queue', NEW k \in Accepted' \ queue'
          PROVE  ~(seq'[i] < seq'[k] /\ Priority[i] >= Priority[k])
      <4>1. CASE k = j
        BY <2>0, <3>1, <4>1 DEF Before
      <4>2. CASE k # j
        BY <3>1, <4>2 DEF NoOvertaking
      <4>. QED
        BY <4>1, <4>2
    <3>. QED
      BY <3>1, <3>2 DEF Numbered, NoOvertaking
  <2>3. CASE AbortDrain
    BY <2>3 DEF AbortDrain, Drained, Numbered, NoOvertaking, Accepted
  <2>4. CASE queue' = queue /\ seq' = seq /\ insertSeq' = insertSeq /\ Accepted' = Accepted
    BY <2>4 DEF Numbered, NoOvertaking
  <2>. QED
    BY <2>1, <2>2, <2>3, <2>4, QueueSteps
<1>. QED
  BY <1>1, <1>2, TypeCorrect, PTL DEF Spec

(* The native worker sleeps only when it has nothing to do: each step that *)
(* gives it something also wakes it.                                       *)
THEOREM NoLostWakeupHolds == Spec => []NoLostWakeup
<1>1. Init => NoLostWakeup
  BY DEF Init, NoLostWakeup, Actors, Workers
<1>2. TypeOK /\ NoLostWakeup /\ [Next]_vars => NoLostWakeup'
  <2> SUFFICES ASSUME TypeOK, NoLostWakeup, [Next]_vars PROVE NoLostWakeup'
    OBVIOUS
  <2>0. pc \in [Actors -> NativePcs \cup CDPPcs \cup StopperPcs] /\ Native \in Actors /\ Stopper \in Actors
    BY DEF TypeOK, Typed, Actors, Workers
  <2> USE <2>0, ActorAssumption DEF NoLostWakeup, Paused
  <2>1. CASE ClientStep
    <3>1. ASSUME NEW r \in Reasons, Resume(r) PROVE NoLostWakeup'
      BY <3>1 DEF Resume, Resumed, WakeNative
    <3>. QED
      BY <2>1, <3>1 DEF ClientStep, Register, Unregister, SubmitCheck, StartMark, Pause,
                StopMark, WaitCall
  <2>2. ASSUME NEW j \in Jobs, SubmitBody(j) PROVE NoLostWakeup'
    BY <2>2 DEF SubmitBody, Enqueue, Accepts, EnqueueRejected, DeliverRejected, WakeNative
  <2>3. CASE StartSpawn \/ WaitReturn
    BY <2>3 DEF StartSpawn, WaitReturn
  <2>4. CASE NativeStep
    BY <2>4 DEF NativeStep, NativeWait, NativeExit, NativePop, NativeRoute, NativeForward, NativeSend,
                NativeSendClosed, NativeSendCancelled
  <2>5. ASSUME NEW w \in CDPWorkers, CDPStep(w) PROVE NoLostWakeup'
    BY <2>5 DEF CDPStep, CDPBegin, CDPReceive, CDPExit
  <2>6. ASSUME NEW w \in Actors, SignOff(w) \/ RunStep(w) PROVE NoLostWakeup'
    BY <2>6 DEF RunStep, RunUntouched, RunExec, RunDone, Deliver, SignOff, AfterJob
  <2>7. CASE StopBody
    <3>1. CASE StopReconcile
      BY <3>1 DEF StopReconcile, WakeNative
    <3>2. CASE AbortDrain
      BY <3>2 DEF AbortDrain, WakeNative
    <3>. QED
      BY <2>6, <2>7, <3>1, <3>2 DEF StopBody, AbortDeliver, AbortClose, AbortClear, StopCancel
  <2>8. CASE UNCHANGED vars
    BY <2>8 DEF vars
  <2>. QED
    BY <2>1, <2>2, <2>3, <2>4, <2>5, <2>6, <2>7, <2>8 DEF Next, Actors
<1>. QED
  BY <1>1, <1>2, TypeCorrect, PTL DEF Spec

(* A result, once delivered, stays; the set Wait awaits is fixed by the    *)
(* call, and Wait returns only on a step that finds the counter at zero.   *)
WaitStrict == waitFor \subseteq Accepted /\ WaitSound

(* A result, once delivered, is never taken back.                          *)
LEMMA ResultsStay ==
    ASSUME TypeOK, [Next]_vars
    PROVE  /\ \A j \in Jobs : results[j] # "none" => results'[j] # "none"
           /\ Accepted \subseteq Accepted'
<1> USE DEF TypeOK, Typed, Accepted
<1>1. CASE ClientStep
  BY <1>1 DEF ClientStep, Register, Unregister, SubmitCheck, StartMark, Pause, Resume,
              StopMark, WaitCall
<1>2. ASSUME NEW j \in Jobs, SubmitBody(j)
      PROVE  /\ \A k \in Jobs : results[k] # "none" => results'[k] # "none"
             /\ Accepted \subseteq Accepted'
  BY <1>2 DEF SubmitBody, Enqueue, EnqueueRejected, DeliverRejected, Delivered
<1>3. CASE StartSpawn \/ WaitReturn
  BY <1>3 DEF StartSpawn, WaitReturn
<1>4. CASE NativeStep
  BY <1>4 DEF NativeStep, NativeWait, NativeExit, NativePop, NativeRoute, NativeForward, NativeSend,
              NativeSendClosed, NativeSendCancelled
<1>5. ASSUME NEW w \in CDPWorkers, CDPStep(w) PROVE results' = results /\ Accepted' = Accepted
  BY <1>5 DEF CDPStep, CDPBegin, CDPReceive, CDPExit
<1>6. ASSUME NEW w \in Actors, SignOff(w) \/ RunStep(w)
      PROVE  /\ \A k \in Jobs : results[k] # "none" => results'[k] # "none"
             /\ Accepted' = Accepted
  BY <1>6 DEF RunStep, RunUntouched, RunExec, RunDone, Deliver, Delivered, SignOff
<1>7. CASE StopBody
  BY <1>6, <1>7 DEF StopBody, StopReconcile, AbortDrain, AbortDeliver, Delivered, AbortClose,
              AbortClear, StopCancel, SignOff
<1>8. CASE UNCHANGED vars
  BY <1>8 DEF vars
<1>. QED
  BY <1>1, <1>2, <1>3, <1>4, <1>5, <1>6, <1>7, <1>8 DEF Next, Actors

(* The waiter and what it awaits change only in its own two steps and,     *)
(* from blocked to woken, in SignOff.                                      *)
LEMMA WaiterSteps ==
    ASSUME [Next]_vars
    PROVE  \/ WaitCall
           \/ WaitReturn
           \/ waitFor' = waitFor /\ (waiter' = waiter \/ waiter' = "woken")
<1>1. CASE ClientStep
  BY <1>1 DEF ClientStep, Register, Unregister, SubmitCheck, StartMark, Pause, Resume, StopMark
<1>2. ASSUME NEW j \in Jobs, SubmitBody(j) PROVE UNCHANGED <<waiter, waitFor>>
  BY <1>2 DEF SubmitBody, Enqueue, EnqueueRejected, DeliverRejected
<1>3. CASE StartSpawn
  BY <1>3 DEF StartSpawn
<1>4. CASE NativeStep
  BY <1>4 DEF NativeStep, NativeWait, NativeExit, NativePop, NativeRoute, NativeForward, NativeSend,
              NativeSendClosed, NativeSendCancelled
<1>5. ASSUME NEW w \in CDPWorkers, CDPStep(w) PROVE UNCHANGED <<waiter, waitFor>>
  BY <1>5 DEF CDPStep, CDPBegin, CDPReceive, CDPExit
<1>6. ASSUME NEW w, SignOff(w) \/ RunStep(w)
      PROVE  waitFor' = waitFor /\ (waiter' = waiter \/ waiter' = "woken")
  BY <1>6 DEF RunStep, RunUntouched, RunExec, RunDone, Deliver, SignOff
<1>7. CASE StopBody
  BY <1>6, <1>7 DEF StopBody, StopReconcile, AbortDrain, AbortDeliver, AbortClose,
              AbortClear, StopCancel
<1>8. CASE UNCHANGED vars
  BY <1>8 DEF vars
<1>. QED
  BY <1>1, <1>2, <1>3, <1>4, <1>5, <1>6, <1>7, <1>8 DEF Next

(* A counter at zero means that every accepted job has its result.         *)
LEMMA ZeroMeansSettled ==
    ASSUME TypeOK, Ownership, InflightExact, inflight = 0
    PROVE  \A j \in Accepted : results[j] # "none"
<1>1. Outstanding = {}
  BY OutstandingFinite, FS_EmptySet DEF InflightExact
<1>. QED
  BY <1>1 DEF Ownership, NoJobLost

(* What Wait awaits has been accepted, and has its result when it returns. *)
LEMMA WaitStrictStep ==
    ASSUME TypeOK, Ownership, InflightExact, WaitStrict, [Next]_vars
    PROVE  WaitStrict'
<1>1. CASE WaitCall
  BY <1>1, ZeroMeansSettled
     DEF WaitCall, WaitStrict, WaitSound, Accepted
<1>2. CASE WaitReturn
  BY <1>2, ZeroMeansSettled
     DEF WaitReturn, WaitStrict, WaitSound, Accepted
<1>3. CASE waitFor' = waitFor /\ (waiter' = waiter \/ waiter' = "woken")
  <2>1. waitFor \subseteq Jobs
    BY DEF TypeOK, Typed
  <2>. QED
    BY <1>3, <2>1, ResultsStay DEF WaitStrict, WaitSound
<1>. QED
  BY <1>1, <1>2, <1>3, WaiterSteps

(* Wait returns only when every job accepted before it has its result.     *)
THEOREM WaitSoundHolds == Spec => []WaitSound
<1>1. Init => WaitStrict
  BY DEF Init, WaitStrict, WaitSound
<1>2. TypeOK /\ Ownership /\ InflightExact /\ WaitStrict /\ [Next]_vars => WaitStrict'
  BY WaitStrictStep
<1>3. WaitStrict => WaitSound
  BY DEF WaitStrict
<1>. QED
  BY <1>1, <1>2, <1>3, Invariance, PTL DEF Spec

-----------------------------------------------------------------------------
(* Only a second registration of an id can bring a native handle behind    *)
(* the back of a job that was routed to the pool: while no id is used      *)
(* twice, OffNative, once true of an accepted job, stays true.             *)
Known ==
    /\ \A b \in Browsers : handles[b] # "none" => regs[b] # 0
    /\ \A j \in Jobs : call[j] \in {"checked", "queued"} => regs[JobBrowser[j]] # 0

OffNative(j) == NeedsNative[j] => handles[JobBrowser[j]] # "native"

(* The native worker has a job for the pool and has not sent it yet.       *)
Forwarding == {"forward", "send", "sendNil"}

PoolOffNative ==
    /\ \A j \in Buffered : OffNative(j)
    /\ \A w \in CDPWorkers : job[w] # NoJob => OffNative(job[w])
    /\ pc[Native] \in Forwarding => OffNative(job[Native])
    /\ \A w \in CDPWorkers : ~DrivesOS(w)

(* The registry changes in Register and Unregister only.                   *)
LEMMA RegistrySteps ==
    ASSUME [Next]_vars
    PROVE  \/ \E b \in Browsers : Register(b) \/ Unregister(b)
           \/ handles' = handles /\ regs' = regs
<1> DEFINE Same == handles' = handles /\ regs' = regs
<1>1. ASSUME ClientStep, ~ \E b \in Browsers : Register(b) \/ Unregister(b) PROVE Same
  BY <1>1 DEF ClientStep, SubmitCheck, StartMark, Pause, Resume, StopMark, WaitCall
<1>2. ASSUME NEW j \in Jobs, SubmitBody(j) PROVE Same
  BY <1>2 DEF SubmitBody, Enqueue, EnqueueRejected, DeliverRejected
<1>3. CASE StartSpawn \/ WaitReturn
  BY <1>3 DEF StartSpawn, WaitReturn
<1>4. CASE NativeStep
  BY <1>4 DEF NativeStep, NativeWait, NativeExit, NativePop, NativeRoute, NativeForward, NativeSend,
              NativeSendClosed, NativeSendCancelled
<1>5. ASSUME NEW w \in CDPWorkers, CDPStep(w) PROVE Same
  BY <1>5 DEF CDPStep, CDPBegin, CDPReceive, CDPExit
<1>6. ASSUME NEW w \in Actors, SignOff(w) \/ RunStep(w) PROVE Same
  BY <1>6 DEF RunStep, RunUntouched, RunExec, RunDone, Deliver, SignOff
<1>7. CASE StopBody
  BY <1>6, <1>7 DEF StopBody, StopReconcile, AbortDrain, AbortDeliver, AbortClose, AbortClear,
              StopCancel, Actors
<1>8. CASE UNCHANGED vars
  BY <1>8 DEF vars
<1>. QED
  BY <1>1, <1>2, <1>3, <1>4, <1>5, <1>6, <1>7, <1>8 DEF Next, Actors

(* A job passes the check of Submit only where its browser is registered.  *)
LEMMA KnownStep == TypeOK /\ Known /\ [Next]_vars => Known'
<1> SUFFICES ASSUME TypeOK, Known, [Next]_vars PROVE Known'
  OBVIOUS
<1>0. /\ handles \in [Browsers -> {"none", "native", "remote"}]
      /\ regs \in [Browsers -> Nat]
      /\ call \in [Jobs -> {"idle", "refused", "checked", "queued", "rejecting", "rejected"}]
      /\ JobBrowser \in [Jobs -> Browsers]
  BY JobAssumption DEF TypeOK, Typed
<1>1. \A b \in Browsers : /\ handles'[b] # "none" => regs'[b] # 0
                          /\ regs[b] # 0 => regs'[b] # 0
  <2>1. ASSUME NEW b \in Browsers, Register(b)
        PROVE  \A c \in Browsers : (handles'[c] # "none" => regs'[c] # 0) /\ (regs[c] # 0 => regs'[c] # 0)
    BY <1>0, <2>1 DEF Register, Known
  <2>2. ASSUME NEW b \in Browsers, Unregister(b)
        PROVE  \A c \in Browsers : (handles'[c] # "none" => regs'[c] # 0) /\ (regs[c] # 0 => regs'[c] # 0)
    BY <1>0, <2>2 DEF Unregister, Known
  <2>. QED
    BY <2>1, <2>2, RegistrySteps DEF Known
<1>2. \A j \in Jobs : call'[j] \in {"checked", "queued"}
                        => call[j] \in {"checked", "queued"} \/ handles[JobBrowser[j]] # "none"
  <2> DEFINE Goal == \A k \in Jobs : call'[k] \in {"checked", "queued"}
                        => call[k] \in {"checked", "queued"} \/ handles[JobBrowser[k]] # "none"
  <2>1. ASSUME NEW j \in Jobs, SubmitCheck(j) PROVE Goal
    BY <1>0, <2>1 DEF SubmitCheck
  <2>2. ASSUME NEW j \in Jobs, SubmitBody(j) PROVE Goal
    BY <1>0, <2>2 DEF SubmitBody, Enqueue, EnqueueRejected, DeliverRejected
  <2>3. CASE call' = call
    BY <2>3
  <2>4. ASSUME ClientStep, ~ \E j \in Jobs : SubmitCheck(j) PROVE call' = call
    BY <2>4 DEF ClientStep, Register, Unregister, StartMark, Pause, Resume, StopMark, WaitCall
  <2>5. CASE StartSpawn \/ WaitReturn \/ NativeStep
    BY <2>5 DEF StartSpawn, WaitReturn, NativeStep, NativeWait, NativeExit, NativePop, NativeRoute, NativeForward,
                NativeSend, NativeSendClosed, NativeSendCancelled
  <2>6. ASSUME NEW w \in Actors, SignOff(w) \/ RunStep(w) \/ CDPStep(w) PROVE call' = call
    BY <2>6 DEF RunStep, RunUntouched, RunExec, RunDone, Deliver, SignOff, CDPStep, CDPBegin,
                CDPReceive, CDPExit
  <2>7. CASE StopBody
    BY <2>6, <2>7 DEF StopBody, StopReconcile, AbortDrain, AbortDeliver, AbortClose, AbortClear,
                StopCancel, Actors
  <2>8. CASE UNCHANGED vars
    BY <2>8 DEF vars
  <2>. QED
    BY <2>1, <2>2, <2>3, <2>4, <2>5, <2>6, <2>7, <2>8 DEF Next, Actors, Workers
<1>. QED
  BY <1>0, <1>1, <1>2 DEF Known

(* While no id is registered twice, a job in flight stays off the native   *)
(* drivers when the registry changes.                                      *)
LEMMA OffNativeStays ==
    ASSUME MaxRegs <= 1, TypeOK, Ownership, Known, [Next]_vars,
           NEW j \in Outstanding, OffNative(j)
    PROVE  OffNative(j)'
<1>1. j \in Jobs /\ JobBrowser[j] \in Browsers /\ regs[JobBrowser[j]] # 0
  BY JobAssumption DEF Ownership, NoJobLost, Accepted, Known
<1>2. handles \in [Browsers -> {"none", "native", "remote"}] /\ regs \in [Browsers -> Nat] /\ MaxRegs \in Nat
  BY BoundAssumption DEF TypeOK, Typed
<1>3. ASSUME NEW b \in Browsers, Register(b) PROVE OffNative(j)'
  <2>1. b # JobBrowser[j]
    BY <1>1, <1>2, <1>3 DEF Register
  <2>. QED
    BY <1>1, <1>2, <1>3, <2>1 DEF Register, OffNative
<1>4. ASSUME NEW b \in Browsers, Unregister(b) PROVE OffNative(j)'
  BY <1>1, <1>2, <1>4 DEF Unregister, OffNative
<1>. QED
  BY <1>3, <1>4, RegistrySteps DEF OffNative

(* Steps that bring no job to the pool and start none there.               *)
PoolQuiet ==
    /\ chanBuf' = chanBuf
    /\ \A w \in CDPWorkers : job'[w] \in {job[w], NoJob}
    /\ pc'[Native] \in Forwarding
        => pc[Native] \in Forwarding /\ job'[Native] = job[Native]
    /\ \A w \in CDPWorkers :
        pc'[w] = "exec" => pc[w] = "exec" /\ job'[w] = job[w] /\ driver'[w] = driver[w]

(* Only the native worker's routing and sending and a CDP worker's receive *)
(* and look-up are not quiet.                                              *)
LEMMA PoolSteps ==
    ASSUME TypeOK, [Next]_vars
    PROVE  \/ NativeRoute
           \/ NativeSend
           \/ \E w \in CDPWorkers : CDPReceive(w) \/ RunExec(w)
           \/ PoolQuiet
<1>0. /\ pc \in [Actors -> NativePcs \cup CDPPcs \cup StopperPcs]
      /\ job \in [Actors -> Jobs \cup {NoJob}]
      /\ Native \in Actors /\ Stopper \in Actors /\ CDPWorkers \subseteq Actors
      /\ Native \notin CDPWorkers /\ Stopper \notin CDPWorkers /\ Native # Stopper
  BY ActorAssumption DEF TypeOK, Typed, Actors, Workers
<1> USE <1>0 DEF PoolQuiet, Forwarding
<1>1. CASE ClientStep
  <2>1. ASSUME NEW r \in Reasons, Resume(r) PROVE PoolQuiet
    BY <2>1 DEF Resume, Resumed, WakeNative
  <2>2. CASE StopMark
    BY <2>2 DEF StopMark
  <2>. QED
    BY <1>1, <2>1, <2>2 DEF ClientStep, Register, Unregister, SubmitCheck, StartMark, Pause, WaitCall
<1>2. ASSUME NEW j \in Jobs, SubmitBody(j) PROVE PoolQuiet
  BY <1>2 DEF SubmitBody, Enqueue, EnqueueRejected, DeliverRejected, WakeNative
<1>3. CASE StartSpawn \/ WaitReturn
  BY <1>3 DEF StartSpawn, WaitReturn
<1>4. ASSUME NativeStep, ~NativeRoute, ~NativeSend PROVE PoolQuiet
  BY <1>4 DEF NativeStep, NativeWait, NativeExit, NativePop, NativeForward, NativeSendClosed,
     NativeSendCancelled
<1>5. ASSUME NEW w \in CDPWorkers, CDPStep(w), ~CDPReceive(w) PROVE PoolQuiet
  BY <1>5 DEF CDPStep, CDPBegin, CDPExit
<1>6. ASSUME NEW a \in Actors, SignOff(a) PROVE PoolQuiet
  BY <1>6 DEF SignOff, AfterJob
<1>7. ASSUME NEW w \in Workers, RunStep(w), RunExec(w) => w \notin CDPWorkers PROVE PoolQuiet
  <2>1. w \in Actors
    BY DEF Actors
  <2>2. ASSUME NEW s \in Outcomes, RunUntouched(w, s) \/ RunDone(w, s) PROVE PoolQuiet
    BY <2>1, <2>2 DEF RunUntouched, RunDone
  <2>3. CASE RunExec(w)
    BY <1>7, <2>1, <2>3 DEF RunExec
  <2>4. CASE Deliver(w)
    BY <2>1, <2>4 DEF Deliver
  <2>. QED
    BY <1>6, <1>7, <2>1, <2>2, <2>3, <2>4 DEF RunStep, Outcomes
<1>8. CASE StopBody
  <2>1. CASE StopReconcile
    BY <2>1 DEF StopReconcile, WakeNative
  <2>2. CASE AbortDrain
    BY <2>2 DEF AbortDrain, WakeNative
  <2>3. ASSUME NEW j \in Jobs, AbortDeliver(j) PROVE PoolQuiet
    BY <2>3 DEF AbortDeliver
  <2>. QED
    BY <1>6, <1>8, <2>1, <2>2, <2>3 DEF StopBody, AbortClose, AbortClear, StopCancel
<1>9. CASE UNCHANGED vars
  BY <1>9 DEF vars
<1>. QED
  BY <1>1, <1>2, <1>3, <1>4, <1>5, <1>7, <1>8, <1>9 DEF Next, Workers

(* A job with a native action reaches the pool, and is run there, only     *)
(* while its browser has no native handle.                                 *)
LEMMA PoolStep ==
    ASSUME MaxRegs <= 1, TypeOK, Ownership, Known, PoolOffNative, [Next]_vars
    PROVE  PoolOffNative'
<1>0. /\ pc \in [Actors -> NativePcs \cup CDPPcs \cup StopperPcs]
      /\ job \in [Actors -> Jobs \cup {NoJob}]
      /\ driver \in [Actors -> {"none", "native", "remote"}]
      /\ chanBuf \in Seq(Jobs)
      /\ Native \in Actors /\ CDPWorkers \subseteq Actors /\ Native \notin CDPWorkers
      /\ \A a \in Actors : job[a] # NoJob <=> pc[a] \in HoldingPcs
  BY ActorAssumption DEF TypeOK, Typed, Placed, Actors, Workers
<1>1. ASSUME NEW j \in Outstanding, OffNative(j) PROVE OffNative(j)'
  BY <1>1, OffNativeStays
<1>2. /\ \A j \in Buffered : OffNative(j)'
      /\ \A w \in CDPWorkers : job[w] # NoJob => OffNative(job[w])
      /\ \A j \in Jobs : (\E w \in CDPWorkers : job[w] = j) /\ j # NoJob => OffNative(j)'
      /\ \A j \in Jobs : pc[Native] \in Forwarding /\ job[Native] = j /\ j # NoJob => OffNative(j)'
  BY <1>0, <1>1 DEF PoolOffNative, Outstanding, Held
<1>3. CASE NativeRoute
  <2>1. /\ chanBuf' = chanBuf /\ job' = job /\ driver' = driver /\ handles' = handles
        /\ pc[Native] = "route"
        /\ pc'[Native] \in Forwarding => ~OnNative(job[Native])
        /\ \A w \in CDPWorkers : pc'[w] = pc[w]
    BY <1>0, <1>3 DEF NativeRoute, Forwarding
  <2>2. pc'[Native] \in Forwarding => OffNative(job[Native])
    BY <2>1 DEF OnNative, OffNative
  <2>. QED
    BY <2>1, <2>2 DEF PoolOffNative, OffNative, Buffered, DrivesOS
<1>4. CASE NativeSend
  <2>1. /\ chanBuf' = Append(chanBuf, job[Native]) /\ driver' = driver /\ handles' = handles
        /\ pc[Native] = "send" /\ pc'[Native] = "check"
        /\ \A w \in CDPWorkers : pc'[w] = pc[w] /\ job'[w] = job[w]
    BY <1>0, <1>4 DEF NativeSend, Forwarding
  <2>2. job[Native] \in Jobs
    BY <1>0, <2>1 DEF HoldingPcs
  <2>3. Buffered' = Buffered \cup {job[Native]}
    BY <1>0, <2>1, <2>2, RangeAppend DEF Buffered
  <2>. QED
    BY <2>1, <2>3 DEF PoolOffNative, OffNative, DrivesOS, Forwarding
<1>5. ASSUME NEW w \in CDPWorkers, CDPReceive(w) PROVE PoolOffNative'
  <2>1. /\ chanBuf # <<>> /\ chanBuf' = Tail(chanBuf) /\ driver' = driver /\ handles' = handles
        /\ job'[w] = Head(chanBuf) /\ pc'[w] = "run"
        /\ \A a \in Actors \ {w} : pc'[a] = pc[a] /\ job'[a] = job[a]
    BY <1>0, <1>5 DEF CDPReceive
  <2>2. Buffered = Buffered' \cup {Head(chanBuf)}
    BY <1>0, <2>1, RangeTail DEF Buffered
  <2>. QED
    BY <1>0, <2>1, <2>2 DEF PoolOffNative, OffNative, DrivesOS
<1>6. ASSUME NEW w \in CDPWorkers, RunExec(w) PROVE PoolOffNative'
  <2>1. /\ chanBuf' = chanBuf /\ job' = job /\ handles' = handles
        /\ driver'[w] = handles[JobBrowser[job[w]]]
        /\ pc[w] = "run"
        /\ pc'[w] = "exec"
        /\ \A a \in Actors \ {w} : pc'[a] = pc[a] /\ driver'[a] = driver[a]
    BY <1>0, <1>6 DEF RunExec
  <2>2. OffNative(job[w])
    BY <1>0, <2>1 DEF PoolOffNative, HoldingPcs
  <2>. QED
    BY <1>0, <2>1, <2>2 DEF PoolOffNative, OffNative, Buffered, DrivesOS
<1>7. CASE PoolQuiet
  <2>1. ASSUME NEW j \in Buffered' PROVE OffNative(j)'
    BY <1>2, <1>7, <2>1 DEF PoolQuiet, Buffered
  <2>2. ASSUME NEW w \in CDPWorkers, job'[w] # NoJob PROVE job'[w] = job[w] /\ job[w] \in Jobs
    BY <1>0, <1>7, <2>2 DEF PoolQuiet
  <2>3. ASSUME NEW w \in CDPWorkers, job'[w] # NoJob PROVE (OffNative(job[w]))'
    BY <1>1, <1>2, <2>2, <2>3 DEF OffNative
  <2>4. ASSUME pc'[Native] \in Forwarding PROVE (OffNative(job[Native]))'
    <3>1. /\ pc[Native] \in Forwarding /\ job'[Native] = job[Native]
          /\ job[Native] \in Jobs /\ job[Native] # NoJob
      BY <1>0, <1>7, <2>4 DEF PoolQuiet, HoldingPcs, Forwarding
    <3>. QED
      BY <1>2, <3>1 DEF OffNative
  <2>5. \A w \in CDPWorkers : ~DrivesOS(w)'
    BY <1>7 DEF PoolQuiet, PoolOffNative, DrivesOS
  <2>. QED
    BY <2>1, <2>3, <2>4, <2>5 DEF PoolOffNative
<1>. QED
  BY <1>3, <1>4, <1>5, <1>6, <1>7, PoolSteps

(* As long as no browser id is registered twice, one goroutine at a time   *)
(* drives the OS cursor and keyboard.                                      *)
THEOREM NativeExclusiveHolds ==
    ASSUME MaxRegs <= 1
    PROVE  Spec => []NativeExclusive
<1>1. Init => Known /\ PoolOffNative
  BY ActorAssumption DEF Init, Known, PoolOffNative, OffNative, Buffered, Range, DrivesOS, Actors, Workers,
     Forwarding
<1>2. TypeOK /\ Ownership /\ Known /\ PoolOffNative /\ [Next]_vars => Known' /\ PoolOffNative'
  BY KnownStep, PoolStep
<1>3. PoolOffNative => NativeExclusive
  BY DEF PoolOffNative, NativeExclusive, Workers
<1>. QED
  BY <1>1, <1>2, <1>3, Invariance, PTL DEF Spec
=============================================================================
