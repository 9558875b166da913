--------------------------- MODULE ContractProofs ---------------------------
(***************************************************************************)
(* The dispatcher implements the contract of its jobs (JobContract), for   *)
(* any jobs, workers, browsers, priorities, pause reasons and channel      *)
(* capacity: every step is a step of the contract or a stutter.            *)
(***************************************************************************)
EXTENDS DispatcherProofs

USE DEF fleetVars, submitVars, gateVars, jobVars, chanVars, actorVars, waitVars, sharedVars, At,
  Goto

(* Who has a driver: a goroutine between its first use of one and the end  *)
(* of its job, and one that reports "done" in any case.                    *)
Driven ==
    \A a \in Actors :
        /\ driver[a] # "none" => pc[a] \in {"exec", "deliver", "signoff"}
        /\ pc[a] = "exec" => driver[a] # "none"
        /\ pc[a] = "deliver" /\ status[a] = "done" => driver[a] # "none"

(* "rejected" is the result of exactly the jobs that enqueue turned away.  *)
Rejections == \A j \in Jobs : results[j] = "rejected" <=> call[j] = "rejected"

ContractInv == Driven /\ Rejections /\ WaitStrict

(* Every step keeps Driven.                                                *)
LEMMA DrivenStep == TypeOK /\ Driven /\ [Next]_vars => Driven'
<1> SUFFICES ASSUME TypeOK, Driven, [Next]_vars PROVE Driven'
  OBVIOUS
<1>0. /\ pc \in [Actors -> NativePcs \cup CDPPcs \cup StopperPcs]
      /\ status \in [Actors -> Outcomes \cup {"none"}]
      /\ driver \in [Actors -> {"none", "native", "remote"}]
      /\ handles \in [Browsers -> {"none", "native", "remote"}]
      /\ Native \in Actors /\ Stopper \in Actors /\ CDPWorkers \subseteq Actors
      /\ Workers \subseteq Actors
      /\ Native \notin CDPWorkers /\ Stopper \notin CDPWorkers /\ Native # Stopper
  BY ActorAssumption DEF TypeOK, Typed, Actors, Workers
<1> USE <1>0 DEF Driven
<1>1. CASE ClientStep
  <2>1. ASSUME NEW r \in Reasons, Resume(r) PROVE Driven'
    BY <2>1 DEF Resume, Resumed, WakeNative
  <2>2. CASE StopMark
    BY <2>2 DEF StopMark
  <2>. QED
    BY <1>1, <2>1, <2>2 DEF ClientStep, Register, Unregister, SubmitCheck, StartMark, Pause, WaitCall
<1>2. ASSUME NEW j \in Jobs, SubmitBody(j) PROVE Driven'
  BY <1>2 DEF SubmitBody, Enqueue, EnqueueRejected, DeliverRejected, WakeNative
<1>3. CASE StartSpawn
  <2>1. \A w \in Workers : pc[w] = "idle" /\ driver[w] = "none"
    BY <1>3 DEF StartSpawn, TypeOK, Placed
  <2>. QED
    BY <1>3, <2>1 DEF StartSpawn, Workers
<1>4. CASE WaitReturn
  BY <1>4 DEF WaitReturn
<1>5. CASE NativeStep
  <2>1. ASSUME NEW j \in Jobs, NativePop(j) PROVE Driven'
    BY <2>1 DEF NativePop
  <2>2. CASE NativeWait \/ NativeExit \/ NativeRoute \/ NativeForward
    BY <2>2 DEF NativeWait, NativeExit, NativeRoute, NativeForward
  <2>3. CASE NativeSend \/ NativeSendClosed
    BY <2>3 DEF NativeSend, NativeSendClosed
  <2>4. CASE NativeSendCancelled
    BY <2>4 DEF NativeSendCancelled
  <2>. QED
    BY <1>5, <2>1, <2>2, <2>3, <2>4 DEF NativeStep
<1>6. ASSUME NEW w \in CDPWorkers, CDPStep(w) PROVE Driven'
  BY <1>6 DEF CDPStep, CDPBegin, CDPReceive, CDPExit
<1>7. ASSUME NEW a \in Actors, SignOff(a) PROVE Driven'
  BY <1>7 DEF SignOff, AfterJob
<1>8. ASSUME NEW w \in Workers, RunStep(w) PROVE Driven'
  <2>1. w \in Actors
    OBVIOUS
  <2>2. ASSUME NEW s \in {"failed", "cancelled"}, RunUntouched(w, s) PROVE Driven'
    BY <2>1, <2>2 DEF RunUntouched
  <2>3. CASE RunExec(w)
    <3>1. driver' = [driver EXCEPT ![w] = driver'[w]] /\ driver'[w] # "none"
      BY <2>1, <2>3 DEF RunExec
    <3>. QED
      BY <2>1, <2>3, <3>1 DEF RunExec
  <2>4. ASSUME NEW s \in Outcomes, RunDone(w, s) PROVE Driven'
    BY <2>1, <2>4 DEF RunDone
  <2>5. CASE Deliver(w)
    BY <2>1, <2>5 DEF Deliver
  <2>. QED
    BY <1>7, <1>8, <2>1, <2>2, <2>3, <2>4, <2>5 DEF RunStep
<1>9. CASE StopBody
  <2>1. CASE StopReconcile
    BY <2>1 DEF StopReconcile, WakeNative
  <2>2. CASE AbortDrain
    BY <2>2 DEF AbortDrain, WakeNative
  <2>3. ASSUME NEW j \in Jobs, AbortDeliver(j) PROVE Driven'
    BY <2>3 DEF AbortDeliver
  <2>4. CASE AbortClose \/ AbortClear \/ StopCancel
    BY <2>4 DEF AbortClose, AbortClear, StopCancel
  <2>. QED
    BY <1>7, <1>9, <2>1, <2>2, <2>3, <2>4 DEF StopBody
<1>10. CASE UNCHANGED vars
  BY <1>10 DEF vars
<1>. QED
  BY <1>1, <1>2, <1>3, <1>4, <1>5, <1>6, <1>8, <1>9, <1>10 DEF Next

(* Every step keeps Rejections: no other result is "rejected".             *)
LEMMA RejectionsStep ==
    ASSUME TypeOK, Ownership, Rejections, [Next]_vars
    PROVE  Rejections'
<1>0. /\ call \in [Jobs -> {"idle", "refused", "checked", "queued", "rejecting", "rejected"}]
      /\ results \in [Jobs -> Statuses \cup {"none"}]
  BY DEF TypeOK, Typed
<1> USE <1>0 DEF Rejections
<1>1. CASE ClientStep
  BY <1>1 DEF ClientStep, Register, Unregister, SubmitCheck, StartMark, Pause, Resume,
              StopMark, WaitCall
<1>2. ASSUME NEW j \in Jobs, SubmitBody(j) PROVE Rejections'
  <2>1. call[j] # "queued" /\ call[j] # "rejected" => results[j] = "none"
    BY DEF Ownership, Fresh
  <2>. QED
    BY <1>2, <2>1 DEF SubmitBody, Enqueue, EnqueueRejected, DeliverRejected, Delivered
<1>3. CASE StartSpawn \/ WaitReturn
  BY <1>3 DEF StartSpawn, WaitReturn
<1>4. CASE NativeStep
  BY <1>4 DEF NativeStep, NativeWait, NativeExit, NativePop, NativeRoute, NativeForward, NativeSend,
              NativeSendClosed, NativeSendCancelled
<1>5. ASSUME NEW w \in CDPWorkers, CDPStep(w) PROVE Rejections'
  BY <1>5 DEF CDPStep, CDPBegin, CDPReceive, CDPExit
<1>6. ASSUME NEW w, SignOff(w) PROVE Rejections'
  BY <1>6 DEF SignOff
<1>7. ASSUME NEW w \in Workers, RunStep(w) PROVE Rejections'
  <2>1. CASE Deliver(w)
    <3>1. /\ w \in Actors /\ status[w] \in Outcomes
          /\ job[w] \in Jobs
      BY <2>1, JobAssumption
         DEF Deliver, TypeOK, Typed, Placed, Actors, HoldingPcs
    <3>2. call[job[w]] = "queued"
      BY <3>1, JobAssumption DEF Ownership, NoJobLost, Outstanding, Held, Accepted
    <3>. QED
      BY <2>1, <3>1, <3>2 DEF Deliver, Delivered, Outcomes
  <2>. QED
    BY <1>6, <1>7, <2>1 DEF RunStep, RunUntouched, RunExec, RunDone
<1>8. CASE StopBody
  <2>1. ASSUME NEW j \in Jobs, AbortDeliver(j) PROVE Rejections'
    <3>1. call[j] = "queued"
      BY <2>1 DEF AbortDeliver, Ownership, NoJobLost, Outstanding, Accepted
    <3>. QED
      BY <2>1, <3>1 DEF AbortDeliver, Delivered
  <2>. QED
    BY <1>6, <1>8, <2>1 DEF StopBody, StopReconcile, AbortDrain, AbortClose, AbortClear, StopCancel
<1>9. CASE UNCHANGED vars
  BY <1>9 DEF vars
<1>. QED
  BY <1>1, <1>2, <1>3, <1>4, <1>5, <1>7, <1>8, <1>9 DEF Next

-----------------------------------------------------------------------------
(* Some goroutine is at the driver calls of the job.                       *)
Used(j) == \E a \in Actors : UsesDriver(a, j)

(* The phase of a job, case by case.                                       *)
LEMMA PhaseIs ==
    ASSUME NEW j \in Jobs
    PROVE  /\ results[j] # "none" => Phase(j) = results[j]
           /\ results[j] = "none" /\ Used(j) => Phase(j) = "running"
           /\ results[j] = "none" /\ ~Used(j) =>
                /\ call[j] = "queued" => Phase(j) = "accepted"
                /\ call[j] \in {"idle", "checked"} => Phase(j) = "new"
                /\ call[j] \in {"refused", "rejecting", "rejected"} => Phase(j) = call[j]
BY DEF Phase, Used

(* The same of the next state.                                             *)
LEMMA NextPhaseIs ==
    ASSUME NEW j \in Jobs
    PROVE  /\ results'[j] # "none" => Phase(j)' = results'[j]
           /\ results'[j] = "none" /\ Used(j)' => Phase(j)' = "running"
           /\ results'[j] = "none" /\ ~Used(j)' =>
                /\ call'[j] = "queued" => Phase(j)' = "accepted"
                /\ call'[j] \in {"idle", "checked"} => Phase(j)' = "new"
                /\ call'[j] \in {"refused", "rejecting", "rejected"} => Phase(j)' = call'[j]
BY DEF Phase, Used

(* A job that a step neither submits, settles nor runs stays in its phase. *)
LEMMA SamePhase ==
    ASSUME NEW j \in Jobs, results'[j] = results[j], call'[j] = call[j], Used(j)' <=> Used(j)
    PROVE  Phase(j)' = Phase(j)
BY DEF Phase, Used

(* Only the jobs that are held are used.                                   *)
LEMMA UsedIsHeld ==
    ASSUME TypeOK, Ownership, NEW j \in Jobs, Used(j)
    PROVE  j \in Held /\ call[j] = "queued" /\ results[j] = "none"
<1>1. PICK a \in Actors : job[a] = j /\ pc[a] \in {"exec", "deliver"}
  BY DEF Used, UsesDriver
<1>2. j \in Held /\ j # NoJob
  BY <1>1, JobAssumption DEF Held
<1>. QED
  BY <1>1, <1>2 DEF Ownership, NoJobLost, Outstanding, Accepted, Fresh

(* No step but RunExec and Deliver changes who uses a driver for which job.*)
LEMMA UsersStep ==
    ASSUME TypeOK, Driven, [Next]_vars
    PROVE  \/ \E w \in Workers : RunExec(w) \/ Deliver(w)
           \/ \A a \in Actors, k \in Jobs : UsesDriver(a, k)' <=> UsesDriver(a, k)
<1> DEFINE Same == \A a \in Actors, k \in Jobs : UsesDriver(a, k)' <=> UsesDriver(a, k)
<1>0. /\ pc \in [Actors -> NativePcs \cup CDPPcs \cup StopperPcs]
      /\ job \in [Actors -> Jobs \cup {NoJob}]
      /\ driver \in [Actors -> {"none", "native", "remote"}]
      /\ Native \in Actors /\ Stopper \in Actors /\ CDPWorkers \subseteq Actors
      /\ Workers \subseteq Actors
      /\ Native \notin CDPWorkers /\ Stopper \notin CDPWorkers /\ Native # Stopper
  BY ActorAssumption DEF TypeOK, Typed, Actors, Workers
<1>00. \A a \in Actors : driver[a] # "none" => pc[a] \in {"exec", "deliver", "signoff"}
  BY DEF Driven
<1> USE <1>0, <1>00 DEF UsesDriver
<1>1. CASE ClientStep
  <2>1. ASSUME NEW r \in Reasons, Resume(r) PROVE Same
    BY <2>1 DEF Resume, Resumed, WakeNative
  <2>2. CASE StopMark
    BY <2>2 DEF StopMark
  <2>. QED
    BY <1>1, <2>1, <2>2 DEF ClientStep, Register, Unregister, SubmitCheck, StartMark, Pause, WaitCall
<1>2. ASSUME NEW j \in Jobs, SubmitBody(j) PROVE Same
  BY <1>2 DEF SubmitBody, Enqueue, EnqueueRejected, DeliverRejected, WakeNative
<1>3. CASE StartSpawn
  <2>1. \A w \in Workers : pc[w] = "idle"
    BY <1>3 DEF StartSpawn, TypeOK, Placed
  <2>. QED
    BY <1>3, <2>1 DEF StartSpawn, Workers
<1>4. CASE WaitReturn
  BY <1>4 DEF WaitReturn
<1>5. CASE NativeStep
  <2>1. ASSUME NEW j \in Jobs, NativePop(j) PROVE Same
    BY <2>1 DEF NativePop
  <2>2. CASE NativeWait \/ NativeExit \/ NativeRoute \/ NativeForward
    BY <2>2 DEF NativeWait, NativeExit, NativeRoute, NativeForward
  <2>3. CASE NativeSend \/ NativeSendClosed
    BY <2>3 DEF NativeSend, NativeSendClosed
  <2>4. CASE NativeSendCancelled
    BY <2>4 DEF NativeSendCancelled
  <2>. QED
    BY <1>5, <2>1, <2>2, <2>3, <2>4 DEF NativeStep
<1>6. ASSUME NEW w \in CDPWorkers, CDPStep(w) PROVE Same
  BY <1>6 DEF CDPStep, CDPBegin, CDPReceive, CDPExit
<1>7. ASSUME NEW a \in Actors, SignOff(a) PROVE Same
  BY <1>7 DEF SignOff, AfterJob
<1>8. ASSUME NEW w \in Workers, RunStep(w), ~RunExec(w), ~Deliver(w) PROVE Same
  <2>1. w \in Actors
    OBVIOUS
  <2>2. ASSUME NEW s \in {"failed", "cancelled"}, RunUntouched(w, s) PROVE Same
    BY <2>1, <2>2 DEF RunUntouched
  <2>3. ASSUME NEW s \in Outcomes, RunDone(w, s) PROVE Same
    BY <2>1, <2>3 DEF RunDone
  <2>. QED
    BY <1>7, <1>8, <2>1, <2>2, <2>3 DEF RunStep
<1>9. CASE StopBody
  <2>1. CASE StopReconcile
    BY <2>1 DEF StopReconcile, WakeNative
  <2>2. CASE AbortDrain
    BY <2>2 DEF AbortDrain, WakeNative
  <2>3. ASSUME NEW j \in Jobs, AbortDeliver(j) PROVE Same
    BY <2>3 DEF AbortDeliver
  <2>4. CASE AbortClose \/ AbortClear \/ StopCancel
    BY <2>4 DEF AbortClose, AbortClear, StopCancel
  <2>. QED
    BY <1>7, <1>9, <2>1, <2>2, <2>3, <2>4 DEF StopBody
<1>10. CASE UNCHANGED vars
  BY <1>10 DEF vars
<1>. QED
  BY <1>1, <1>2, <1>3, <1>4, <1>5, <1>6, <1>8, <1>9, <1>10 DEF Next

(* A step of the contract that moves one job.                              *)
LEMMA MoveIs ==
    ASSUME NEW j \in Jobs, NEW from, NEW to,
           Phase(j) \in from, Phase(j)' = to,
           \A k \in Jobs \ {j} : Phase(k)' = Phase(k),
           UNCHANGED <<waiter, waitFor>>
    PROVE  Contract!Move(j, from, to)
BY DEF Contract!Move

(* Initially every job is new.                                             *)
LEMMA InitContract == Init => Contract!Init
<1> SUFFICES ASSUME Init PROVE Contract!Init
  OBVIOUS
<1>1. \A j \in Jobs : Phase(j) = "new"
  BY DEF Init, Phase, UsesDriver
<1>. QED
  BY <1>1 DEF Init, Contract!Init

(* A step that leaves every job in its phase is none of the contract, if   *)
(* at most it wakes the waiter.                                            *)
LEMMA QuietIs ==
    ASSUME \A k \in Jobs : Phase(k)' = Phase(k),
           waitFor' = waitFor,
           waiter' = waiter \/ (waiter = "blocked" /\ waiter' = "woken")
    PROVE  [Contract!Next]_(Contract!contractVars)
BY DEF Contract!contractVars

(* The jobs a call of Wait awaits in the contract: the accepted ones.      *)
LEMMA AwaitedAre ==
    ASSUME TypeOK, Ownership, Rejections, NEW j \in Jobs
    PROVE  j \in Accepted <=> Phase(j) \notin {"new", "refused", "rejecting", "rejected"}
<1>1. /\ call[j] \in {"idle", "refused", "checked", "queued", "rejecting", "rejected"}
      /\ results[j] \in Statuses \cup {"none"}
      /\ results[j] = "rejected" <=> call[j] = "rejected"
      /\ call[j] \notin {"queued", "rejected"} => results[j] = "none"
  BY DEF TypeOK, Typed, Rejections, Ownership, Fresh
<1>2. Used(j) => call[j] = "queued" /\ results[j] = "none"
  BY UsedIsHeld
<1>. QED
  BY <1>1, <1>2, PhaseIs DEF Accepted, Statuses, Outcomes

(* Submit: refused, accepted or rejected.                                  *)
LEMMA SubmitMoves ==
    ASSUME TypeOK, Ownership, NEW j \in Jobs,
           \A k \in Jobs : Used(k)' <=> Used(k),
           SubmitCheck(j) \/ SubmitBody(j)
    PROVE  [Contract!Next]_(Contract!contractVars)
<1>1. call[j] # "queued" => ~Used(j)
  BY UsedIsHeld
<1>2. call[j] \in {"idle", "checked", "rejecting"} => results[j] = "none" /\ ~Used(j)
  BY <1>1 DEF Ownership, Fresh
<1>3. \A k \in Jobs \ {j} : results'[k] = results[k] /\ call'[k] = call[k]
  BY DEF SubmitCheck, SubmitBody, Enqueue, EnqueueRejected, DeliverRejected, Delivered, TypeOK, Typed
<1>4. \A k \in Jobs \ {j} : Phase(k)' = Phase(k)
  BY <1>3, SamePhase
<1>5. UNCHANGED <<waiter, waitFor>>
  BY DEF SubmitCheck, SubmitBody, Enqueue, EnqueueRejected, DeliverRejected
<1>6. CASE SubmitCheck(j)
  <2>1. /\ call[j] = "idle" /\ call'[j] \in {"refused", "checked"}
        /\ results' = results
    BY <1>6 DEF SubmitCheck, TypeOK, Typed
  <2>2. Phase(j) = "new" /\ Phase(j)' \in {"new", "refused"}
    BY <1>2, <2>1, PhaseIs, NextPhaseIs
  <2>3. CASE Phase(j)' = "refused"
    BY <1>4, <1>5, <2>2, <2>3, MoveIs DEF Contract!Next, Contract!Refuse
  <2>4. CASE Phase(j)' = "new"
    <3>1. \A k \in Jobs : Phase(k)' = Phase(k)
      BY <1>4, <2>2, <2>4
    <3>. QED
      BY <1>5, <3>1, QuietIs
  <2>. QED
    BY <2>2, <2>3, <2>4
<1>7. CASE Enqueue(j)
  <2>1. call[j] = "checked" /\ call'[j] = "queued" /\ results' = results
    BY <1>7 DEF Enqueue, TypeOK, Typed
  <2>2. Phase(j) = "new" /\ Phase(j)' = "accepted"
    BY <1>2, <2>1, PhaseIs, NextPhaseIs
  <2>. QED
    BY <1>4, <1>5, <2>2, MoveIs DEF Contract!Next, Contract!Accept
<1>8. CASE EnqueueRejected(j)
  <2>1. call[j] = "checked" /\ call'[j] = "rejecting" /\ results' = results
    BY <1>8 DEF EnqueueRejected, TypeOK, Typed
  <2>2. Phase(j) = "new" /\ Phase(j)' = "rejecting"
    BY <1>2, <2>1, PhaseIs, NextPhaseIs
  <2>. QED
    BY <1>4, <1>5, <2>2, MoveIs DEF Contract!Next, Contract!Reject
<1>9. CASE DeliverRejected(j)
  <2>1. call[j] = "rejecting" /\ call'[j] = "rejected" /\ results'[j] = "rejected"
    BY <1>2, <1>9 DEF DeliverRejected, Delivered, TypeOK, Typed
  <2>2. Phase(j) = "rejecting" /\ Phase(j)' = "rejected"
    BY <1>2, <2>1, PhaseIs, NextPhaseIs
  <2>. QED
    BY <1>4, <1>5, <2>2, MoveIs DEF Contract!Next, Contract!ReportRejected
<1>. QED
  BY <1>6, <1>7, <1>8, <1>9 DEF SubmitBody

(* runJob: the driver is reached, and the result is delivered.             *)
LEMMA RunMoves ==
    ASSUME TypeOK, Ownership, Driven, NEW w \in Workers, RunExec(w) \/ Deliver(w)
    PROVE  Contract!Next
<1>0. w \in Actors /\ job[w] \in Jobs
  BY DEF RunExec, Deliver, TypeOK, Typed, Placed, Actors, HoldingPcs
<1> PICK j \in Jobs : j = job[w]
  BY <1>0
<1>1. /\ w \in Actors /\ job[w] = j /\ j # NoJob
      /\ pc[w] \in {"run", "deliver"}
      /\ pc[w] = "deliver" => status[w] \in Outcomes
  BY <1>0, JobAssumption DEF RunExec, Deliver, TypeOK, Typed, Placed, Actors, HoldingPcs
<1>2. call[j] = "queued" /\ results[j] = "none"
  <2>1. j \in Held
    BY <1>1 DEF Held
  <2>. QED
    BY <1>1, <2>1 DEF Ownership, NoJobLost, Outstanding, Accepted, Fresh
<1>3. \A a \in Actors : a # w => job[a] # j
  BY <1>1 DEF Ownership, OneHolder
<1>4. /\ call' = call /\ job' = job /\ UNCHANGED <<waiter, waitFor>>
      /\ \A a \in Actors \ {w} : pc'[a] = pc[a] /\ driver'[a] = driver[a]
      /\ \A k \in Jobs \ {j} : results'[k] = results[k]
  BY <1>1 DEF RunExec, Deliver, Delivered, TypeOK, Typed
<1>5. \A k \in Jobs \ {j} : Used(k)' <=> Used(k)
  BY <1>4 DEF Used, UsesDriver
<1>6. \A k \in Jobs \ {j} : Phase(k)' = Phase(k)
  BY <1>4, <1>5, SamePhase
<1>7. CASE RunExec(w)
  <2>1. /\ pc[w] = "run" /\ pc'[w] = "exec" /\ driver'[w] # "none" /\ results' = results
    BY <1>1, <1>7 DEF RunExec, TypeOK, Typed
  <2>2. ~Used(j) /\ Used(j)'
    BY <1>1, <1>3, <1>4, <2>1 DEF Used, UsesDriver
  <2>3. Phase(j) = "accepted" /\ Phase(j)' = "running"
    BY <1>1, <1>2, <2>1, <2>2, PhaseIs, NextPhaseIs
  <2>. QED
    BY <1>1, <1>4, <1>6, <2>3, MoveIs DEF Contract!Next, Contract!Run
<1>8. CASE Deliver(w)
  <2>1. pc[w] = "deliver" /\ results'[j] = status[w]
    BY <1>1, <1>2, <1>8 DEF Deliver, Delivered, TypeOK, Typed
  <2>2. Used(j) <=> driver[w] # "none"
    BY <1>1, <1>3, <2>1 DEF Used, UsesDriver
  <2>3. /\ Phase(j) \in {"accepted", "running"}
        /\ status[w] = "done" => Phase(j) = "running"
    BY <1>1, <1>2, <2>1, <2>2, PhaseIs DEF Driven
  <2>4. Phase(j)' = status[w] /\ status[w] \in {"done", "failed", "cancelled"}
    BY <1>1, <2>1, NextPhaseIs DEF Outcomes
  <2>5. CASE status[w] = "done"
    BY <1>1, <1>4, <1>6, <2>3, <2>4, <2>5, MoveIs DEF Contract!Next, Contract!Finish
  <2>6. CASE status[w] \in {"failed", "cancelled"}
    <3>1. Phase(j) \in Contract!Pending
      BY <2>3 DEF Contract!Pending
    <3>2. Contract!Abandon(j, status[w])
      BY <1>1, <1>4, <1>6, <2>4, <3>1, MoveIs DEF Contract!Abandon
    <3>. QED
      BY <1>1, <2>6, <3>2 DEF Contract!Next
  <2>. QED
    BY <2>4, <2>5, <2>6
<1>. QED
  BY <1>7, <1>8

(* abortAll: a drained job is given up.                                    *)
LEMMA AbortMoves ==
    ASSUME TypeOK, Ownership, NEW j \in Jobs, AbortDeliver(j),
           \A k \in Jobs : Used(k)' <=> Used(k)
    PROVE  Contract!Next
<1>1. call[j] = "queued" /\ results[j] = "none" /\ j \notin Held
  BY DEF AbortDeliver, Ownership, OneHolder, NoJobLost, Outstanding, Accepted, Fresh
<1>2. ~Used(j)
  BY <1>1, UsedIsHeld
<1>3. /\ call' = call /\ UNCHANGED <<waiter, waitFor>>
      /\ results'[j] = "cancelled"
      /\ \A k \in Jobs \ {j} : results'[k] = results[k]
  BY <1>1 DEF AbortDeliver, Delivered, TypeOK, Typed
<1>4. Phase(j) = "accepted" /\ Phase(j)' = "cancelled"
  BY <1>1, <1>2, <1>3, PhaseIs, NextPhaseIs
<1>5. \A k \in Jobs \ {j} : Phase(k)' = Phase(k)
  BY <1>3, SamePhase
<1>6. Contract!Abandon(j, "cancelled")
  BY <1>3, <1>4, <1>5, MoveIs DEF Contract!Abandon, Contract!Pending
<1>. QED
  BY <1>6 DEF Contract!Next

(* Wait: the call, the immediate return and the return.                    *)
LEMMA WaitMoves ==
    ASSUME TypeOK, Ownership, InflightExact, Rejections, WaitStrict,
           \A k \in Jobs : Phase(k)' = Phase(k),
           WaitCall \/ WaitReturn
    PROVE  [Contract!Next]_(Contract!contractVars)
<1>1. \A k \in Accepted : results[k] \in Outcomes \cup {"none"}
  BY DEF TypeOK, Typed, Rejections, Accepted, Statuses
<1>2. inflight = 0 => \A k \in Accepted : Phase(k) \in Outcomes
  <2> SUFFICES ASSUME inflight = 0, NEW k \in Accepted PROVE Phase(k) \in Outcomes
    OBVIOUS
  <2>1. k \in Jobs /\ results[k] # "none"
    BY ZeroMeansSettled DEF Accepted
  <2>. QED
    BY <1>1, <2>1, PhaseIs
<1>3. CASE WaitCall
  <2>1. waiter = "idle" /\ waiter' \in {"returned", "blocked"} /\ waitFor' = Accepted
    BY <1>3 DEF WaitCall
  <2>2. Accepted = {k \in Jobs : Phase(k) \notin {"new", "refused", "rejecting", "rejected"}}
    BY AwaitedAre DEF Accepted
  <2>3. CASE waiter' = "blocked"
    BY <2>1, <2>2, <2>3 DEF Contract!Next, Contract!WaitCall
  <2>4. CASE waiter' = "returned"
    <3>1. \A k \in Accepted : Phase(k) \in Outcomes
      BY <1>2, <1>3, <2>4 DEF WaitCall
    <3>2. \A k \in Jobs : Phase(k) \notin Contract!Pending
      BY <2>2, <3>1 DEF Outcomes, Contract!Pending
    <3>. QED
      BY <2>1, <2>2, <2>4, <3>2 DEF Contract!Next, Contract!WaitImmediate
  <2>. QED
    BY <2>1, <2>3, <2>4
<1>4. CASE WaitReturn
  <2>1. waiter = "woken" /\ waitFor' = waitFor
    BY <1>4 DEF WaitReturn
  <2>2. CASE inflight # 0
    <3>1. waiter' = waiter
      BY <1>4, <2>2 DEF WaitReturn
    <3>. QED
      BY <2>1, <3>1, QuietIs
  <2>3. CASE inflight = 0
    <3>1. waiter' = "returned"
      BY <1>4, <2>3 DEF WaitReturn
    <3>2. \A k \in waitFor : k \in Jobs /\ Phase(k) \in Contract!Results
      BY <1>2, <2>3 DEF WaitStrict, Accepted, Outcomes, Contract!Results
    <3>. QED
      BY <2>1, <3>1, <3>2 DEF Contract!Next, Contract!WaitReturn
  <2>. QED
    BY <2>2, <2>3
<1>. QED
  BY <1>3, <1>4

(* The steps that only move jobs between the heap, the channel and the     *)
(* goroutines change no result and no call, and at most wake the waiter.   *)
LEMMA OtherSteps ==
    ASSUME TypeOK, [Next]_vars
    PROVE  \/ \E j \in Jobs : SubmitCheck(j) \/ SubmitBody(j) \/ AbortDeliver(j)
           \/ \E w \in Workers : RunExec(w) \/ Deliver(w)
           \/ WaitCall \/ WaitReturn
           \/ /\ UNCHANGED <<results, call, waitFor>>
              /\ waiter' = waiter \/ (waiter = "blocked" /\ waiter' = "woken")
<1> DEFINE Quiet == /\ UNCHANGED <<results, call, waitFor>>
                    /\ waiter' = waiter \/ (waiter = "blocked" /\ waiter' = "woken")
<1>1. ASSUME ClientStep, \A j \in Jobs : ~SubmitCheck(j), ~WaitCall PROVE Quiet
  BY <1>1 DEF ClientStep, Register, Unregister, StartMark, Pause, Resume, StopMark
<1>2. CASE StartSpawn
  BY <1>2 DEF StartSpawn
<1>3. CASE NativeStep
  BY <1>3 DEF NativeStep, NativeWait, NativeExit, NativePop, NativeRoute, NativeForward, NativeSend,
              NativeSendClosed, NativeSendCancelled
<1>4. ASSUME NEW w \in CDPWorkers, CDPStep(w) PROVE Quiet
  BY <1>4 DEF CDPStep, CDPBegin, CDPReceive, CDPExit
<1>5. ASSUME NEW a, SignOff(a) PROVE Quiet
  BY <1>5 DEF SignOff
<1>6. ASSUME NEW w \in Workers, RunStep(w), ~RunExec(w), ~Deliver(w) PROVE Quiet
  BY <1>5, <1>6 DEF RunStep, RunUntouched, RunDone
<1>7. ASSUME StopBody, \A j \in Jobs : ~AbortDeliver(j) PROVE Quiet
  BY <1>5, <1>7 DEF StopBody, StopReconcile, AbortDrain, AbortClose, AbortClear, StopCancel
<1>8. CASE UNCHANGED vars
  BY <1>8 DEF vars
<1>. QED
  BY <1>1, <1>2, <1>3, <1>4, <1>6, <1>7, <1>8 DEF Next

(* Every step of the dispatcher is a step of the contract, or none.        *)
LEMMA ContractStep ==
    ASSUME TypeOK, Ownership, InflightExact, ContractInv, [Next]_vars
    PROVE  [Contract!Next]_(Contract!contractVars)
<1>1. Driven /\ Rejections /\ WaitStrict
  BY DEF ContractInv
<1>2. ASSUME NEW w \in Workers, RunExec(w) \/ Deliver(w) PROVE Contract!Next
  BY <1>1, <1>2, RunMoves
<1>3. ASSUME \A w \in Workers : ~RunExec(w) /\ ~Deliver(w)
      PROVE  \A k \in Jobs : Used(k)' <=> Used(k)
  <2>1. \A a \in Actors, k \in Jobs : UsesDriver(a, k)' <=> UsesDriver(a, k)
    BY <1>1, <1>3, UsersStep
  <2>. QED
    BY <2>1 DEF Used
<1>4. ASSUME NEW j \in Jobs, SubmitCheck(j) \/ SubmitBody(j)
      PROVE  [Contract!Next]_(Contract!contractVars)
  <2>1. CASE \A w \in Workers : ~RunExec(w) /\ ~Deliver(w)
    BY <1>3, <1>4, <2>1, SubmitMoves
  <2>. QED
    BY <1>2, <2>1
<1>5. ASSUME NEW j \in Jobs, AbortDeliver(j)
      PROVE  [Contract!Next]_(Contract!contractVars)
  <2>1. CASE \A w \in Workers : ~RunExec(w) /\ ~Deliver(w)
    BY <1>3, <1>5, <2>1, AbortMoves
  <2>. QED
    BY <1>2, <2>1
<1>6. ASSUME WaitCall \/ WaitReturn, \A w \in Workers : ~RunExec(w) /\ ~Deliver(w)
      PROVE  [Contract!Next]_(Contract!contractVars)
  <2>1. results' = results /\ call' = call
    BY <1>6 DEF WaitCall, WaitReturn
  <2>2. \A k \in Jobs : Phase(k)' = Phase(k)
    BY <1>3, <1>6, <2>1, SamePhase
  <2>. QED
    BY <1>1, <1>6, <2>2, WaitMoves
<1>7. ASSUME UNCHANGED <<results, call, waitFor>>,
             waiter' = waiter \/ (waiter = "blocked" /\ waiter' = "woken"),
             \A w \in Workers : ~RunExec(w) /\ ~Deliver(w)
      PROVE  [Contract!Next]_(Contract!contractVars)
  <2>1. \A k \in Jobs : Phase(k)' = Phase(k)
    BY <1>3, <1>7, SamePhase
  <2>. QED
    BY <1>7, <2>1, QuietIs
<1>. QED
  BY <1>2, <1>4, <1>5, <1>6, <1>7, OtherSteps

-----------------------------------------------------------------------------
(* The dispatcher keeps the contract of its jobs (fleet.go, Submit and     *)
(* Wait): a submitted job is refused, rejected or accepted, an accepted    *)
(* one is run at most once and resolved once, and Wait returns only when   *)
(* every job accepted before the call is resolved.                         *)
THEOREM ContractHolds == Spec => ImplementsContract
<1>1. Init => ContractInv
  BY DEF Init, ContractInv, Driven, Rejections, WaitStrict, WaitSound
<1>2. /\ TypeOK /\ Ownership /\ InflightExact /\ ContractInv /\ [Next]_vars
            => ContractInv'
  BY DrivenStep, RejectionsStep, WaitStrictStep DEF ContractInv
<1>3. Spec => [](TypeOK /\ Ownership /\ InflightExact /\ ContractInv)
  BY <1>1, <1>2, Invariance, PTL DEF Spec
<1>4. TypeOK /\ Ownership /\ InflightExact /\ ContractInv /\ [Next]_vars
        => [Contract!Next]_(Contract!contractVars)
  BY ContractStep
<1>. QED
  BY InitContract, <1>3, <1>4, PTL DEF Spec, ImplementsContract, Contract!Spec
=============================================================================
