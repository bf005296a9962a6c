---------------------------- MODULE ControlPlane ----------------------------
(***************************************************************************)
(* Evolution runs, memory clears and the kill switch over one lease, with  *)
(* processes that crash.  A process that crashes loses its runs and        *)
(* requests; the lease row they held stays.                                *)
(***************************************************************************)
EXTENDS EvolutionControl, MemoryClear

ASSUME ClearAssumption ==
    /\ ClearHost \in [Clears -> Processes]
    /\ Clears \cap Runs = {} /\ NoOwner \notin Clears

Operations == Runs \cup Clears
vars == <<lease, switchVars, runVars, clearVars>>

Init == LeaseInit /\ SwitchInit /\ RunInit /\ ClearInit

Working(o) == IF o \in Runs THEN RunWorking(o) ELSE ClearWorking(o)

HasCrashed(o) ==
    (IF o \in Runs THEN run[o].pc ELSE clear[o].pc) = "crashed"

Stopped(p) ==
    /\ run' = [r \in Runs |-> IF RunHost[r] = p /\ run[r] # Idle
                              THEN [run[r] EXCEPT !.pc = "crashed"] ELSE run[r]]
    /\ clear' = [c \in Clears |-> IF ClearHost[c] = p /\ clear[c].pc \notin {"idle", "done"}
                                  THEN [pc |-> "crashed", link |-> NoLink] ELSE clear[c]]

Crash(p) ==
    /\ Stopped(p) /\ <<run', clear'>> # <<run, clear>>
    /\ token' = [token EXCEPT ![p] = NoOwner]
    /\ UNCHANGED <<lease, switchVars, record, lapsed, recovery, clearLog, memory, backup>>

Tick ==
    /\ LeaseTick
    /\ lapsed' = IF lease.left = 1 THEN lapsed \cup ({lease.owner} \cap Runs) ELSE lapsed
    /\ UNCHANGED <<switchVars, run, token, record, recovery, clearVars>>

Next ==
    \/ \E q \in Controls : ControlStep(q) /\ UNCHANGED <<lease, runVars, clearVars>>
    \/ \E r \in Runs : (Request(r) \/ RunStep(r)) /\ UNCHANGED <<switchVars, clearVars>>
    \/ \E c \in Clears : (RequestClear(c) \/ ClearStep(c)) /\ UNCHANGED <<switchVars, runVars>>
    \/ Recover /\ UNCHANGED <<switchVars, clearVars>>
    \/ \E p \in Processes : Crash(p)
    \/ Tick

\* A run or request that has begun goes on; new ones need not come.
Fairness ==
    /\ \A q \in Controls : WF_vars(control[q].pc # "idle" /\ ControlStep(q)
                                   /\ UNCHANGED <<lease, runVars, clearVars>>)
    /\ \A r \in Runs : WF_vars(RunStep(r) /\ UNCHANGED <<switchVars, clearVars>>)
    /\ \A c \in Clears : WF_vars(ClearStep(c) /\ UNCHANGED <<switchVars, runVars>>)

Spec == Init /\ [][Next]_vars
FairSpec == Spec /\ Fairness

-----------------------------------------------------------------------------
(* Properties. *)

Link == [seq : Nat, prev : Seq({"on", "off"})]
ClearEvent == [id : OperationIds, type : {"requested", "backup_verified", "succeeded", "failed"}]

RunPlaces == {"idle", "queued", "admitted", "leased", "ready", "looping", "evaluating",
              "failing", "exiting", "releasing", "elite", "crashed"}
ClearPlaces == Appends \cup {"idle", "acquire", "backup", "clear", "release", "done", "crashed"}

RunTypeOK ==
    /\ run \in [Runs -> [pc : RunPlaces, gen : 0..Generations, evals : 0..Population]]
    /\ token \in [Processes -> Standard \cup {NoOwner}]
    /\ record \in [AsyncRuns -> {"none", "running", "completed", "failed", "abandoned"}]
    /\ lapsed \subseteq Runs
    /\ recovery \in [pc : {"idle", "checking"}, todo : SUBSET AsyncRuns,
                     marked : SUBSET AsyncRuns]

SwitchTypeOK ==
    control \in [Controls -> [pc : {"idle", "select", "insert", "done"}, link : Link]]

ClearTypeOK ==
    /\ clear \in [Clears -> [pc : ClearPlaces, link : [seq : Nat, prev : Seq(ClearEvent)]]]
    /\ memory \in {"data", "empty"}
    /\ backup \in [OperationIds -> {"none", "data", "empty"}]

\* Type invariant.
ControlTypeOK ==
    /\ lease \in [owner : Operations \cup {NoOwner}, left : 0..LeaseTime,
                  stuck : BOOLEAN]
    /\ RunTypeOK /\ SwitchTypeOK /\ ClearTypeOK

\* One authoritative operation at a time (EV-A08-003): whatever crashes and
\* however slow an evaluation is, an operation past acquire_control_plane_lease()
\* and before its release owns the lease row, so no other one is there too.
WorkersOwnTheLease == \A o \in Operations : Working(o) => lease.owner = o

\* The control plane implements the abstract single flight.
Flight == INSTANCE SingleFlight WITH active <- {o \in Operations : Working(o)}
ImplementsSingleFlight == Flight!Spec

\* The heartbeat of a run always finds the engine's token to be its own and the
\* lease its own, although another thread's run sets and clears the same
\* attribute: "control-plane lease ownership was lost" is never raised.
HeartbeatFindsOwnLease ==
    \A r \in Standard : run[r].pc = "evaluating" =>
        token[RunHost[r]] = r /\ lease.owner = r

\* recover_interrupted_runs() never abandons a run that is still at work unless
\* that run let its lease expire.
RecoverySparesLiveRuns ==
    \A r \in AsyncRuns : record[r] = "abandoned" /\ RunWorking(r) => r \in lapsed

\* The kill-switch log and the clear audit pass verify_chain() at every moment,
\* whatever requests append at the same time: a chain that does not verify would
\* stop evolution and every later clear.
AuditsVerify == Verifies(switchLog) /\ Verifies(clearLog)

\* A cleared memory can be restored: its contents are in memory.json or in the
\* backup of an operation whose audit has a backup_verified record, whatever
\* clears race for the lease, the audit or the same operation id.
ClearedDataIsRecoverable ==
    memory = "data" \/ \E r \in clearLog :
        r.event.type = "backup_verified" /\ backup[r.event.id] = "data"

\* A crash and a release that raises are the only ways to keep the lease: every
\* other operation gives it back, through every return, exception, cancellation
\* and refused request (the finally clauses of run_async, run_synchronous and
\* run_elite_evolution, and of memory_clear.py's clear_elite_memory).
LeaseIsReturned ==
    \A o \in Operations :
        lease.owner = o ~> lease.owner # o \/ HasCrashed(o) \/ lease.stuck

\* A switch that stays on stops evolution: the runs at work end, and no other
\* run starts.
KillSwitchStopsRuns ==
    <>[]SwitchOn => <>[](\A r \in Runs : ~RunWorking(r))
=============================================================================
