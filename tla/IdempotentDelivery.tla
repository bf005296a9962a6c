------------------------- MODULE IdempotentDelivery -------------------------
(***************************************************************************)
(* What the maintenance outbox and the Observatory promise together,       *)
(* without workers, leases, retries and requests: an event that was handed *)
(* in is stored at most once and fanned out at most once, counts as        *)
(* delivered only once it is stored and for good, and an event that was    *)
(* given up may be handed in again.                                        *)
(***************************************************************************)
CONSTANT Events
VARIABLES
    fate,       \* fate[e]: what the sender knows of e
    stored,     \* events the receiver has stored
    fanned      \* events the receiver has fanned out

vars == <<fate, stored, fanned>>

Init ==
    /\ fate = [e \in Events |-> "none"]
    /\ stored = {}
    /\ fanned = {}

Submit(e) ==
    /\ fate[e] \in {"none", "given_up"}
    /\ fate' = [fate EXCEPT ![e] = "open"]
    /\ UNCHANGED <<stored, fanned>>

Store(e) ==
    /\ fate[e] # "none" /\ e \notin stored
    /\ stored' = stored \cup {e}
    /\ UNCHANGED <<fate, fanned>>

FanOut(e) ==
    /\ e \in stored /\ e \notin fanned
    /\ fanned' = fanned \cup {e}
    /\ UNCHANGED <<fate, stored>>

Confirm(e) ==
    /\ fate[e] = "open" /\ e \in stored
    /\ fate' = [fate EXCEPT ![e] = "delivered"]
    /\ UNCHANGED <<stored, fanned>>

GiveUp(lost) ==
    /\ \A e \in lost : fate[e] = "open"
    /\ fate' = [e \in Events |-> IF e \in lost THEN "given_up" ELSE fate[e]]
    /\ UNCHANGED <<stored, fanned>>

Next ==
    \/ \E e \in Events : Submit(e) \/ Store(e) \/ FanOut(e) \/ Confirm(e)
    \/ \E lost \in (SUBSET Events) \ {{}} : GiveUp(lost)

Spec == Init /\ [][Next]_vars
=============================================================================
