----------------------------- MODULE MCCritical -----------------------------
(* Instances of Critical for TLC: a native click, a native and a remote    *)
(* type action, a native navigation and a remote scroll.                   *)
EXTENDS Critical

CONSTANTS click, nativeType, remoteType, go, scroll, t1, t2

MCKind == [j \in Jobs |->
    IF j \in {nativeType, remoteType} THEN "type"
    ELSE IF j = click THEN "click" ELSE IF j = go THEN "navigate" ELSE "scroll"]
MCClearFirst == [j \in Jobs |-> j # click]
MCOnNative == [j \in Jobs |-> j \in {click, nativeType, go}]
=============================================================================
