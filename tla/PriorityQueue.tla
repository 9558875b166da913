--------------------------- MODULE PriorityQueue ---------------------------
(***************************************************************************)
(* The heap of the dispatcher (dispatcher_queue.go) under the container/   *)
(* heap of Go's library, as enqueue, nativeWorker and abortAll use it.  An *)
(* operation is atomic for them, under Dispatcher.mu; here it takes one    *)
(* step per swap, so that the order of the heap is shown swap by swap.     *)
(*                                                                         *)
(* items[i] is pq.items[i-1]: the parent of i is i \div 2.                 *)
(***************************************************************************)
EXTENDS Integers, Sequences, FiniteSets, Functions

CONSTANTS
    Jobs,       \* the jobs, each pushed at most once
    NoJob,      \* the nil job
    Priority    \* [Jobs -> Int]

ASSUME PriorityAssumption == NoJob \notin Jobs /\ Priority \in [Jobs -> Int]

VARIABLES
    items,      \* priorityQueue.items
    heapIdx,    \* queuedJob.heapIdx
    insertSeq,  \* Dispatcher.insertSeq
    seq,        \* queuedJob.insertSeq, 0 before the job is pushed
    op,         \* the operation under way: "none", "up" or "down"
    cur,        \* the index the sift is at
    taken,      \* the job returned by the last pop
    drained,    \* the jobs returned by drain
    closed      \* abortAll has drained the queue: enqueue pushes no more

vars == <<items, heapIdx, insertSeq, seq, op, cur, taken, drained, closed>>

Init ==
    /\ items = <<>>
    /\ heapIdx = [j \in Jobs |-> 0]
    /\ insertSeq = 0
    /\ seq = [j \in Jobs |-> 0]
    /\ op = "none"
    /\ cur = 1
    /\ taken = NoJob
    /\ drained = {}
    /\ closed = FALSE

BeforeLIFO(j, k) ==
    \/ Priority[j] > Priority[k]
    \/ Priority[j] = Priority[k] /\ seq[j] > seq[k]

BeforeOrTied(j, k) == Priority[j] >= Priority[k]

(* Less: the higher priority, then the earlier insertSeq.                  *)
Before(j, k) ==
    \/ Priority[j] > Priority[k]
    \/ Priority[j] = Priority[k] /\ seq[j] < seq[k]

Less(i, k) == Before(items[i], items[k])

SwapItemsOnly(i, k) ==
    /\ items' = [items EXCEPT ![i] = items[k], ![k] = items[i]]
    /\ UNCHANGED heapIdx

Swap(i, k) ==
    /\ items' = [items EXCEPT ![i] = items[k], ![k] = items[i]]
    /\ heapIdx' = [heapIdx EXCEPT ![items[k]] = i - 1, ![items[i]] = k - 1]

-----------------------------------------------------------------------------
(* push: Push appends, then heap.up swaps the new job with its parent      *)
(* until it is not before it.                                              *)

Push(j) ==
    /\ op = "none"
    /\ ~closed
    /\ seq[j] = 0
    /\ insertSeq' = insertSeq + 1
    /\ seq' = [seq EXCEPT ![j] = insertSeq + 1]
    /\ items' = Append(items, j)
    /\ heapIdx' = [heapIdx EXCEPT ![j] = Len(items)]
    /\ op' = "up"
    /\ cur' = Len(items) + 1
    /\ UNCHANGED <<taken, drained, closed>>

Parent(i) == i \div 2

UpSwap ==
    /\ op = "up"
    /\ cur > 1
    /\ Less(cur, Parent(cur))
    /\ Swap(cur, Parent(cur))
    /\ cur' = Parent(cur)
    /\ UNCHANGED <<insertSeq, seq, op, taken, drained, closed>>

UpEnd ==
    /\ op = "up"
    /\ cur > 1 => ~Less(cur, Parent(cur))
    /\ op' = "none"
    /\ UNCHANGED <<items, heapIdx, insertSeq, seq, cur, taken, drained, closed>>

-----------------------------------------------------------------------------
(* pop: heap.Pop swaps the root with the last item, heap.down sifts the    *)
(* new root down among the items before it, and Pop cuts the last one off. *)

PopSwap ==
    /\ op = "none"
    /\ items # <<>>
    /\ Swap(1, Len(items))
    /\ op' = "down"
    /\ cur' = 1
    /\ UNCHANGED <<insertSeq, seq, taken, drained, closed>>

(* The child the sift goes to: the second if it is there and before the    *)
(* first.                                                                  *)
BestChild(n) ==
    IF 2 * cur + 1 <= n /\ Less(2 * cur + 1, 2 * cur) THEN 2 * cur + 1 ELSE 2 * cur

Sinks(n) == 2 * cur <= n /\ Less(BestChild(n), cur)

DownSwap ==
    /\ op = "down"
    /\ Sinks(Len(items) - 1)
    /\ Swap(cur, BestChild(Len(items) - 1))
    /\ cur' = BestChild(Len(items) - 1)
    /\ UNCHANGED <<insertSeq, seq, op, taken, drained, closed>>

DownEnd ==
    /\ op = "down"
    /\ ~Sinks(Len(items) - 1)
    /\ taken' = items[Len(items)]
    /\ items' = SubSeq(items, 1, Len(items) - 1)
    /\ op' = "none"
    /\ UNCHANGED <<heapIdx, insertSeq, seq, cur, drained, closed>>

-----------------------------------------------------------------------------
Drain ==
    /\ op = "none"
    /\ ~closed
    /\ drained' = Range(items)
    /\ items' = <<>>
    /\ closed' = TRUE
    /\ UNCHANGED <<heapIdx, insertSeq, seq, op, cur, taken>>

Next ==
    \/ \E j \in Jobs : Push(j)
    \/ UpSwap \/ UpEnd
    \/ PopSwap \/ DownSwap \/ DownEnd
    \/ Drain

Spec == Init /\ [][Next]_vars

-----------------------------------------------------------------------------
(* Every variable has its type, a sift is at an item of the heap, one that *)
(* sinks always before the item that its pop will return, and every job on *)
(* the heap knows its place there (job.go, queuedJob.heapIdx).             *)
TypeOK ==
    /\ items \in Seq(Jobs)
    /\ heapIdx \in [Jobs -> Nat]
    /\ \A i \in 1..Len(items) : heapIdx[items[i]] = i - 1
    /\ insertSeq \in Nat
    /\ seq \in [Jobs -> Nat]
    /\ op \in {"none", "up", "down"}
    /\ cur \in Nat \ {0}
    /\ op # "none" => items # <<>>
    /\ op = "up" => cur <= Len(items)
    /\ op = "down" => cur < Len(items) \/ cur = 1
    /\ taken \in Jobs \cup {NoJob}
    /\ drained \subseteq Jobs
    /\ closed \in BOOLEAN

(* Between two operations no job is before the job at its parent.          *)
HeapOrder == op = "none" => \A i \in 2..Len(items) : ~Less(i, Parent(i))

Popping == IF op = "down" THEN {items[Len(items)]} ELSE {}

Queue == INSTANCE JobQueue WITH
    queue <- Range(items) \ Popping,
    taken <- IF op = "down" THEN items[Len(items)] ELSE taken

(* The heap is the queue the dispatcher relies on: whatever was pushed and *)
(* popped before, a pop returns the job that is before all others.         *)
ImplementsQueue == Queue!Spec
=============================================================================
