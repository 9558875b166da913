---------------------------- MODULE MCDispatcher ----------------------------
(* Instances of Dispatcher for TLC: two jobs of one priority on a browser  *)
(* that is launched with a native driver.                                  *)
EXTENDS Dispatcher, TLC

CONSTANTS j1, j2, w1, w2, b1

MCJobBrowser == [j \in Jobs |-> b1]
MCSamePriority == [j \in Jobs |-> 0]
MCNeedsNative == [j \in Jobs |-> TRUE]
MCMixedNeeds == [j \in Jobs |-> j # j2]
MCBackend == [b \in Browsers |-> "native"]
WorkerSymmetry == Permutations(CDPWorkers)
=============================================================================
