-------------------------- MODULE MCPriorityQueue --------------------------
(* An instance of PriorityQueue for TLC: six jobs in any order, of three   *)
(* priorities with ties.                                                   *)
EXTENDS PriorityQueue

CONSTANTS j1, j2, j3, j4, j5, j6

MCPriority == [j \in Jobs |->
    IF j = j1 THEN 9 ELSE IF j \in {j2, j3} THEN 5 ELSE 1]
=============================================================================
