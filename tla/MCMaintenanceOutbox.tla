------------------------ MODULE MCMaintenanceOutbox ------------------------
(* Small instances of MaintenanceOutbox for TLC. *)
EXTENDS MaintenanceOutbox, TLC

\* Workers are interchangeable, and so are events: only ranks order them.
OutboxSymmetry == Permutations(Workers) \cup Permutations(Events)
=============================================================================
