-------------------------- MODULE MCLiveProjection --------------------------
(* Bounded instances of LiveProjection for TLC. *)
EXTENDS LiveProjection

ClientSlots == {"start", "recover"}
=============================================================================
