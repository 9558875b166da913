---------------------------- MODULE JobContract ----------------------------
(***************************************************************************)
(* What the fleet promises of a job, whatever queues, workers and channels *)
(* carry it: Submit accepts, refuses or rejects it; an accepted job is run *)
(* at most once and gets exactly one result (fleet.go, Submit); a job is   *)
(* "done" only if it was run, and "rejected" only if it never was          *)
(* accepted (job.go, JobStatus); and Wait returns only when every job      *)
(* accepted before the call has its result.                                *)
(***************************************************************************)
CONSTANTS Jobs

VARIABLES
    phase,      \* where each job is
    waiting,    \* whether Wait was called, and has returned
    awaited     \* the jobs whose results that call awaits

contractVars == <<phase, waiting, awaited>>

Results == {"done", "failed", "cancelled", "rejected"}
Pending == {"accepted", "running"}
Phases == {"new", "refused", "rejecting"} \cup Pending \cup Results

Init ==
    /\ phase = [j \in Jobs |-> "new"]
    /\ waiting = "no"
    /\ awaited = {}

Move(j, from, to) ==
    /\ phase[j] \in from
    /\ phase' = [phase EXCEPT ![j] = to]
    /\ UNCHANGED <<waiting, awaited>>

Refuse(j) == Move(j, {"new"}, "refused")
Accept(j) == Move(j, {"new"}, "accepted")
Reject(j) == Move(j, {"new"}, "rejecting")
Run(j) == Move(j, {"accepted"}, "running")
Finish(j) == Move(j, {"running"}, "done")
Abandon(j, s) == Move(j, Pending, s)
ReportRejected(j) == Move(j, {"rejecting"}, "rejected")

WaitCall ==
    /\ waiting = "no"
    /\ awaited' = {j \in Jobs : phase[j] \notin {"new", "refused", "rejecting", "rejected"}}
    /\ waiting' = "yes"
    /\ UNCHANGED phase

(* A call that finds every job resolved may return at once.                *)
WaitImmediate ==
    /\ waiting = "no"
    /\ \A j \in Jobs : phase[j] \notin Pending
    /\ awaited' = {j \in Jobs : phase[j] \notin {"new", "refused", "rejecting", "rejected"}}
    /\ waiting' = "returned"
    /\ UNCHANGED phase

WaitReturn ==
    /\ waiting = "yes"
    /\ \A j \in awaited : phase[j] \in Results
    /\ waiting' = "returned"
    /\ UNCHANGED <<phase, awaited>>

Next ==
    \/ \E j \in Jobs :
        \/ Refuse(j) \/ Accept(j) \/ Reject(j) \/ Run(j) \/ Finish(j) \/ ReportRejected(j)
        \/ \E s \in {"failed", "cancelled"} : Abandon(j, s)
    \/ WaitCall \/ WaitImmediate \/ WaitReturn

Spec == Init /\ [][Next]_contractVars
=============================================================================
