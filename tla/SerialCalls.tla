---------------------------- MODULE SerialCalls -----------------------------
(***************************************************************************)
(* What callSerialized promises to the threads that call the runtime's     *)
(* API: a call is carried out at most once, never at the same time as      *)
(* another one, or it is refused and not carried out at all.               *)
(***************************************************************************)
CONSTANT Callers

VARIABLE phase             \* for every caller, what has become of its call

Init == phase = [c \in Callers |-> "asked"]

Begin(c) == /\ phase[c] = "asked"
            /\ \A d \in Callers : phase[d] # "running"
            /\ phase' = [phase EXCEPT ![c] = "running"]

Finish(c) == /\ phase[c] = "running"
             /\ phase' = [phase EXCEPT ![c] = "done"]

Refuse(c) == /\ phase[c] = "asked"
             /\ phase' = [phase EXCEPT ![c] = "refused"]

Next == \E c \in Callers : Begin(c) \/ Finish(c) \/ Refuse(c)
Spec == Init /\ [][Next]_phase
=============================================================================
