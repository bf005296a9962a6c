----------------------------- MODULE MemoryClear -----------------------------
(***************************************************************************)
(* The audited clearing of the elite memory (core/memory_clear.py).  A     *)
(* request records itself, takes the control-plane lease, writes a         *)
(* verified backup named after its operation id, records that, clears the  *)
(* memory and records the outcome.  Requests of one process never overlap: *)
(* the handler blocks its event loop.  Nothing else writes memory.json.    *)
(***************************************************************************)
EXTENDS ControlPlaneLease, AuditChain

CONSTANTS
    Clears,         \* clear requests, each on a process of its own
    OperationId,    \* OperationId[c]: the operation_id of request c
    ClearHost       \* ClearHost[c]: the process that handles c

VARIABLES
    clear,          \* clear[c]: the step of c, and its link in the audit
    clearLog,       \* rows of memory_clear_audit
    memory,         \* contents of memory.json
    backup          \* backup[i]: contents of memory-backups/i.json

clearVars == <<clear, clearLog, memory, backup>>

OperationIds == {OperationId[c] : c \in Clears}

\* The steps of a request that append an audit record of that name;
\* "refused" appends "failed" without holding the lease.
Appends == {"requested", "backup_verified", "succeeded", "failed", "refused"}

ClearInit ==
    /\ clear = [c \in Clears |-> [pc |-> "idle", link |-> NoLink]]
    /\ clearLog = {}
    /\ memory = "data"
    /\ backup = [i \in OperationIds |-> "none"]

To(c, pc) == clear' = [clear EXCEPT ![c] = [pc |-> pc, link |-> NoLink]]

Event(c) == [id |-> OperationId[c],
             type |-> IF clear[c].pc = "refused" THEN "failed" ELSE clear[c].pc]

\* audit.verify(): an operation id that occurs is refused.
RequestClear(c) ==
    /\ clear[c].pc = "idle"
    /\ IF \E r \in clearLog : r.event.id = OperationId[c]
       THEN To(c, "done") ELSE To(c, "requested")
    /\ UNCHANGED <<lease, clearLog, memory, backup>>

\* MemoryClearAuditStore.append(): the SELECT.
SelectClear(c) ==
    /\ clear[c].pc \in Appends /\ clear[c].link = NoLink
    /\ \E link \in Links(clearLog) : clear' = [clear EXCEPT ![c].link = link]
    /\ UNCHANGED <<lease, clearLog, memory, backup>>

\* Mutation: replay is rejected by the check alone, without a unique index.
AnyRequest(c) == TRUE

\* ux_memory_clear_audit_requested
FirstRequest(c) ==
    clear[c].pc = "requested" => \A r \in clearLog : r.event # Event(c)

AfterAppend ==
    [requested |-> "acquire", backup_verified |-> "clear", succeeded |-> "release",
     failed |-> "release", refused |-> "done"]
AfterIntegrityError ==
    [requested |-> "done", backup_verified |-> "failed", succeeded |-> "failed",
     failed |-> "release", refused |-> "done"]

\* MemoryClearAuditStore.append(): the INSERT and what the caller does next.
InsertClear(c) ==
    /\ clear[c].pc \in Appends /\ clear[c].link # NoLink
    /\ IF Fits(clearLog, clear[c].link) /\ FirstRequest(c)
       THEN /\ clearLog' = clearLog \cup {Signed(clear[c].link, Event(c))}
            /\ To(c, AfterAppend[clear[c].pc])
       ELSE UNCHANGED clearLog /\ To(c, AfterIntegrityError[clear[c].pc])
    /\ UNCHANGED <<lease, memory, backup>>

AcquireClear(c) ==
    /\ clear[c].pc = "acquire"
    /\ \/ Acquire(c) /\ To(c, "backup")
       \/ AcquireFails /\ To(c, "refused")
    /\ UNCHANGED <<clearLog, memory, backup>>

\* _atomic_json_backup(): os.replace() installs a verified copy, or it raises.
BackUp(c) ==
    /\ clear[c].pc = "backup"
    /\ \/ /\ backup' = [backup EXCEPT ![OperationId[c]] = memory]
          /\ To(c, "backup_verified")
       \/ UNCHANGED backup /\ To(c, "failed")
    /\ UNCHANGED <<lease, clearLog, memory>>

\* memory.clear(), adaptive_mutator.reset(): a failed save is only logged and
\* leaves the file as it was or truncated; another exception may follow.
ClearMemory(c) ==
    /\ clear[c].pc = "clear"
    /\ memory' \in {memory, "empty"}
    /\ To(c, "succeeded") \/ To(c, "failed")
    /\ UNCHANGED <<lease, clearLog, backup>>

ReleaseClear(c) ==
    /\ clear[c].pc = "release"
    /\ Release(c)
    /\ To(c, "done")
    /\ UNCHANGED <<clearLog, memory, backup>>

ClearStep(c) ==
    \/ SelectClear(c) \/ InsertClear(c) \/ AcquireClear(c)
    \/ BackUp(c) \/ ClearMemory(c) \/ ReleaseClear(c)

\* c holds, or believes to hold, the lease.
ClearWorking(c) == clear[c].pc \in {"backup", "backup_verified", "clear",
                                    "succeeded", "failed", "release"}
=============================================================================
