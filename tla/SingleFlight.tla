---------------------------- MODULE SingleFlight ----------------------------
(***************************************************************************)
(* What the control-plane lease promises: one authoritative operation at a *)
(* time, across engines and processes.                                     *)
(***************************************************************************)
CONSTANT Operations
VARIABLE active     \* operations that act as the authority

Init == active = {}

Begin(o) == active = {} /\ active' = {o}
End(o) == o \in active /\ active' = active \ {o}

Next == \E o \in Operations : Begin(o) \/ End(o)

Spec == Init /\ [][Next]_active
=============================================================================
