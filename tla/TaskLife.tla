------------------------------ MODULE TaskLife ------------------------------
(***************************************************************************)
(* What the PThread class promises its owner, with the pthread calls, the  *)
(* locks and the cancellation protocol left out.  An execution is the      *)
(* class's code (Run and the exit handler) at work on the object.  A new   *)
(* one begins only when none is under way; the memory is released only     *)
(* when none is under way, and none begins after that.                     *)
(***************************************************************************)
CONSTANT Executions

VARIABLES
    phase,      \* "idle" | "active" | "freed"
    begun       \* the executions that have begun, the finished ones included

TInit == phase = "idle" /\ begun = {}

Begin(e) ==
    /\ phase = "idle" /\ e \notin begun
    /\ phase' = "active"
    /\ begun' = begun \cup {e}

Finish ==
    /\ phase = "active"
    /\ phase' = "idle"
    /\ UNCHANGED begun

Release ==
    /\ phase = "idle"
    /\ phase' = "freed"
    /\ UNCHANGED begun

TNext == (\E e \in Executions : Begin(e)) \/ Finish \/ Release

TSpec == TInit /\ [][TNext]_<<phase, begun>>
=============================================================================
