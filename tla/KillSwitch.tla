----------------------------- MODULE KillSwitch -----------------------------
(***************************************************************************)
(* The runtime kill switch (core/runtime_control.py): its state is the     *)
(* last record of the scope "__runtime__" of governance_audit.  A control  *)
(* request reads the state, and appends if it is not the one asked for.    *)
(***************************************************************************)
EXTENDS AuditChain

CONSTANTS
    Activations, Deactivations      \* control requests, by kind

VARIABLES
    switchLog,      \* rows of the scope
    control         \* control[q]: how far request q got, and its link

switchVars == <<switchLog, control>>

Controls == Activations \cup Deactivations
Wanted(q) == IF q \in Activations THEN "on" ELSE "off"

SwitchInit ==
    /\ switchLog = {}
    /\ control = [q \in Controls |-> [pc |-> "idle", link |-> NoLink]]

\* get_kill_switch().enabled
SwitchOn == \E r \in switchLog : IsLast(switchLog, r) /\ r.event = "on"

\* activate_kill_switch(), deactivate_kill_switch(): the state that makes an
\* append necessary is read first.
ReadSwitch(q) ==
    /\ control[q].pc = "idle"
    /\ control' = [control EXCEPT ![q].pc =
                     IF SwitchOn <=> q \in Activations THEN "done" ELSE "select"]
    /\ UNCHANGED switchLog

\* _append(): the SELECT.
SelectSwitch(q) ==
    /\ control[q].pc = "select"
    /\ \E link \in Links(switchLog) :
        control' = [control EXCEPT ![q] = [pc |-> "insert", link |-> link]]
    /\ UNCHANGED switchLog

\* _append(): the INSERTs; an IntegrityError rolls them back and fails the
\* request.
InsertSwitch(q) ==
    /\ control[q].pc = "insert"
    /\ switchLog' = IF Fits(switchLog, control[q].link)
                    THEN switchLog \cup {Signed(control[q].link, Wanted(q))}
                    ELSE switchLog
    /\ control' = [control EXCEPT ![q] = [pc |-> "done", link |-> NoLink]]

ControlStep(q) == ReadSwitch(q) \/ SelectSwitch(q) \/ InsertSwitch(q)
=============================================================================
