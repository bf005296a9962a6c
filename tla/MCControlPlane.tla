--------------------------- MODULE MCControlPlane ---------------------------
(* Small instances of ControlPlane for TLC. *)
EXTENDS ControlPlane

CONSTANTS r3, c1, c2, p1, p2, p3, p4, i1, i2

\* Standard runs share an engine; the elite run is in another process.
MCRunHost == [r \in Runs |-> IF r = r3 THEN p2 ELSE p1]

\* Two clears with the same operation id and one with another, in different
\* processes.
MCClearHost == [c \in Clears |-> IF c = c1 THEN p2 ELSE IF c = c2 THEN p3 ELSE p4]
MCOperationId == [c \in Clears |-> IF c \in {c1, c2} THEN i1 ELSE i2]
=============================================================================
