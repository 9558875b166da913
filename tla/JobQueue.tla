------------------------------ MODULE JobQueue ------------------------------
(***************************************************************************)
(* What the dispatcher relies on of its queue: a pop returns the job of    *)
(* the highest priority, the earliest submitted among equals, a job is in  *)
(* the queue from its push to its pop, and a drain takes all of them.      *)
(***************************************************************************)
EXTENDS Integers

CONSTANTS Jobs, NoJob, Priority

VARIABLES
    queue,      \* the jobs in the queue
    insertSeq,  \* the sequence number given out last
    seq,        \* the one of each job, 0 before its push
    taken,      \* the job popped last
    drained     \* the jobs the drain took
queueVars == <<queue, insertSeq, seq, taken, drained>>

Init ==
    /\ queue = {}
    /\ insertSeq = 0
    /\ seq = [j \in Jobs |-> 0]
    /\ taken = NoJob
    /\ drained = {}

Sooner(j, k) ==
    Priority[j] > Priority[k] \/ (Priority[j] = Priority[k] /\ seq[j] < seq[k])

Push(j) ==
    /\ seq[j] = 0
    /\ insertSeq' = insertSeq + 1
    /\ seq' = [seq EXCEPT ![j] = insertSeq + 1]
    /\ queue' = queue \cup {j}
    /\ UNCHANGED <<taken, drained>>

Pop(j) ==
    /\ j \in queue
    /\ \A k \in queue \ {j} : Sooner(j, k)
    /\ queue' = queue \ {j}
    /\ taken' = j
    /\ UNCHANGED <<insertSeq, seq, drained>>

Drain ==
    /\ drained' = queue
    /\ queue' = {}
    /\ UNCHANGED <<insertSeq, seq, taken>>

Next ==
    \/ \E j \in Jobs : Push(j) \/ Pop(j)
    \/ Drain

Spec == Init /\ [][Next]_queueVars
=============================================================================
