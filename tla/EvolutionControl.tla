-------------------------- MODULE EvolutionControl --------------------------
(***************************************************************************)
(* Evolution runs under the control-plane lease and the kill switch:       *)
(* engine/evolution.py (asynchronous runs on the event loop, synchronous   *)
(* runs on a worker thread), engine/elite_evolution.py, and the routes     *)
(* that start them.  A process has one EvolutionEngine, whose              *)
(* _active_lease_token its asynchronous and synchronous runs share.        *)
(* recover_interrupted_runs() may run at any time.                         *)
(*                                                                         *)
(* A run is a slot: a request starts it, and when it has ended the slot    *)
(* takes the next request.  Evaluation, genomes and artifacts are left     *)
(* out; an evaluation may raise or be cancelled.                           *)
(***************************************************************************)
EXTENDS ControlPlaneLease, KillSwitch

CONSTANTS
    AsyncRuns, SyncRuns, EliteRuns,     \* run slots, by kind
    Processes,                          \* server processes
    RunHost,                            \* RunHost[r]: the process of slot r
    Generations,                        \* generations of a run
    Population                          \* evaluations of a generation

Standard == AsyncRuns \cup SyncRuns
Runs == Standard \cup EliteRuns

ASSUME RunAssumption ==
    /\ RunHost \in [Runs -> Processes]
    /\ Generations \in Nat \ {0} /\ Population \in Nat \ {0}
    /\ AsyncRuns \cap SyncRuns = {} /\ Standard \cap EliteRuns = {}
    /\ NoOwner \notin Runs

VARIABLES
    run,        \* run[r]: where slot r is, its generation and its evaluations
    token,      \* token[p]: _active_lease_token of p's EvolutionEngine
    record,     \* record[r]: status of the EvolutionRun row of r's last run
    lapsed,     \* history: runs whose lease expired while they held it
    recovery    \* the rows recover_interrupted_runs() has yet to look at,
                \* and those it has set to abandoned and not yet committed

runVars == <<run, token, record, lapsed, recovery>>

Idle == [pc |-> "idle", gen |-> 0, evals |-> 0]
NoRecovery == [pc |-> "idle", todo |-> {}, marked |-> {}]

RunInit ==
    /\ run = [r \in Runs |-> Idle]
    /\ token = [p \in Processes |-> NoOwner]
    /\ record = [r \in AsyncRuns |-> "none"]
    /\ lapsed = {}
    /\ recovery = NoRecovery

Goto(r, pc) == run' = [run EXCEPT ![r].pc = pc]

-----------------------------------------------------------------------------
(* Starting and ending a run. *)

\* Mutation: the routes start a run whatever the switch says.
RequestUnguarded(r) ==
    /\ run[r] = Idle
    /\ r \notin recovery.todo \cup recovery.marked
    /\ Goto(r, "queued")
    /\ record' = [x \in AsyncRuns |-> IF x = r THEN "none" ELSE record[x]]
    /\ lapsed' = lapsed \ {r}
    /\ UNCHANGED <<lease, token, recovery>>

\* The routes: _kill_switch_guard(), then the run is handed to a background
\* task or a worker thread.  The slot is free when no recovery still has the
\* row of its last run.
Request(r) ==
    /\ run[r] = Idle
    /\ r \notin recovery.todo \cup recovery.marked
    /\ ~SwitchOn
    /\ Goto(r, "queued")
    /\ record' = [x \in AsyncRuns |-> IF x = r THEN "none" ELSE record[x]]
    /\ lapsed' = lapsed \ {r}
    /\ UNCHANGED <<lease, token, recovery>>

\* run_elite_evolution(): assert_evolution_enabled() once, before the lease.
AdmitElite(r) ==
    /\ r \in EliteRuns /\ run[r].pc = "queued"
    /\ Goto(r, IF SwitchOn THEN "idle" ELSE "admitted")
    /\ UNCHANGED <<lease, token, record, lapsed, recovery>>

\* run_async(), run_synchronous(), run_elite_evolution(): the lease, or the
\* run ends with an exception.
AcquireRun(r) ==
    /\ run[r].pc = IF r \in EliteRuns THEN "admitted" ELSE "queued"
    /\ \/ Acquire(r) /\ Goto(r, IF r \in EliteRuns THEN "elite" ELSE "leased")
       \/ AcquireFails /\ Goto(r, "idle")
    /\ UNCHANGED <<token, record, lapsed, recovery>>

SetToken(r) ==
    /\ run[r].pc = "leased"
    /\ token' = [token EXCEPT ![RunHost[r]] = r]
    /\ Goto(r, "ready")
    /\ UNCHANGED <<lease, record, lapsed, recovery>>

\* finally: self._active_lease_token = None
ClearToken(r) ==
    /\ run[r].pc = "exiting"
    /\ token' = [token EXCEPT ![RunHost[r]] = NoOwner]
    /\ Goto(r, "releasing")
    /\ UNCHANGED <<lease, record, lapsed, recovery>>

\* Mutation: the lease is released before the engine's token is cleared.
ReleaseFirst(r) ==
    /\ \/ run[r].pc = "exiting" /\ Release(r)
          /\ Goto(r, "released") /\ UNCHANGED token
       \/ run[r].pc = "released" /\ run' = [run EXCEPT ![r] = Idle]
          /\ token' = [token EXCEPT ![RunHost[r]] = NoOwner] /\ UNCHANGED lease
    /\ UNCHANGED <<record, lapsed, recovery>>

\* Mutation: the release is not in a finally clause.
LeaveUnreleased(r) ==
    /\ run[r].pc \in {"exiting", "releasing"}
    /\ run' = [run EXCEPT ![r] = Idle]
    /\ token' = [token EXCEPT ![RunHost[r]] = NoOwner]
    /\ UNCHANGED <<lease, record, lapsed, recovery>>

\* finally: the token is cleared, then the lease released; the run ends either
\* way, with the release's own exception when it raises.
LeaveRun(r) ==
    \/ ClearToken(r)
    \/ /\ run[r].pc = "releasing"
       /\ Release(r)
       /\ run' = [run EXCEPT ![r] = Idle]
       /\ UNCHANGED <<token, record, lapsed, recovery>>

-----------------------------------------------------------------------------
(* The work of a run. *)

\* An exception: asynchronous runs record the failure first.
Raise(r) == Goto(r, IF r \in AsyncRuns THEN "failing" ELSE "exiting")

\* The row of an asynchronous run; invalid sizes are refused before it.
StartRun(r) ==
    /\ run[r].pc = "ready"
    /\ \/ Goto(r, "exiting") /\ UNCHANGED record
       \/ Goto(r, "looping")
          /\ record' = [x \in AsyncRuns |-> IF x = r THEN "running" ELSE record[x]]
    /\ UNCHANGED <<lease, token, lapsed, recovery>>

\* The head of the generation loop; only asynchronous runs look at the switch.
NextGeneration(r) ==
    /\ run[r].pc = "looping" /\ run[r].gen < Generations
    /\ IF r \in AsyncRuns /\ SwitchOn
       THEN Raise(r)
       ELSE run' = [run EXCEPT ![r] = [pc |-> "evaluating", gen |-> @.gen + 1, evals |-> 0]]
    /\ UNCHANGED <<lease, token, record, lapsed, recovery>>

\* One evaluation and the heartbeat after it; after the last one the
\* generation is saved.
Evaluate(r) ==
    /\ run[r].pc = "evaluating"
    /\ \/ /\ Heartbeat(token[RunHost[r]])
          /\ run' = [run EXCEPT ![r].evals = @ + 1,
                       ![r].pc = IF run[r].evals + 1 = Population THEN "looping" ELSE @]
       \/ OwnershipLost(token[RunHost[r]]) /\ Raise(r)
    /\ UNCHANGED <<token, record, lapsed, recovery>>

\* The evaluation, the save of a generation or the build may raise; a
\* CancelledError passes the except clause, and the row stays "running".
Interrupt(r) ==
    /\ run[r].pc \in {"looping", "evaluating"}
    /\ Raise(r) \/ Goto(r, "exiting")
    /\ UNCHANGED <<lease, token, record, lapsed, recovery>>

\* The best genome is built and published, and the row is updated.
Finish(r) ==
    /\ run[r].pc = "looping" /\ run[r].gen = Generations
    /\ Goto(r, "exiting")
    /\ \E status \in {"completed", "failed"} :
        record' = [x \in AsyncRuns |-> IF x = r THEN status ELSE record[x]]
    /\ UNCHANGED <<lease, token, lapsed, recovery>>

\* except Exception: the failure is recorded unless the database refuses.
RecordFailure(r) ==
    /\ run[r].pc = "failing"
    /\ record' \in {record, [record EXCEPT ![r] = "failed"]}
    /\ Goto(r, "exiting")
    /\ UNCHANGED <<lease, token, lapsed, recovery>>

\* Mutation: one generation too many.
EliteOneMore(r) ==
    /\ run[r].pc = "elite"
    /\ \/ run[r].gen <= Generations /\ run' = [run EXCEPT ![r].gen = @ + 1]
       \/ Goto(r, "releasing")
    /\ UNCHANGED <<lease, token, record, lapsed, recovery>>

\* A generation of an elite run, which neither renews the lease nor looks at
\* the switch; after the last one, or an exception, it releases the lease.
EliteGeneration(r) ==
    /\ run[r].pc = "elite"
    /\ \/ run[r].gen < Generations /\ run' = [run EXCEPT ![r].gen = @ + 1]
       \/ Goto(r, "releasing")
    /\ UNCHANGED <<lease, token, record, lapsed, recovery>>

-----------------------------------------------------------------------------
(* recover_interrupted_runs() *)

\* The query.
RecoverScan ==
    /\ recovery.pc = "idle"
    /\ recovery' = [pc |-> "checking", marked |-> {},
                    todo |-> {r \in AsyncRuns : record[r] = "running"}]
    /\ UNCHANGED <<lease, run, token, record, lapsed>>

\* Mutation: recovery does not look at the lease.
RecoverCheckBlind ==
    /\ \E r \in recovery.todo :
        recovery' = [recovery EXCEPT !.todo = @ \ {r}, !.marked = @ \cup {r}]
    /\ UNCHANGED <<lease, run, token, record, lapsed>>

\* One row: skipped while any lease is live.
RecoverCheck ==
    /\ \E r \in recovery.todo :
        recovery' = [recovery EXCEPT !.todo = @ \ {r},
                                     !.marked = IF LeaseLive THEN @ ELSE @ \cup {r}]
    /\ UNCHANGED <<lease, run, token, record, lapsed>>

\* db.commit() writes the marked rows whatever became of them.
RecoverCommit ==
    /\ recovery.pc = "checking" /\ recovery.todo = {}
    /\ record' = [r \in AsyncRuns |->
                    IF r \in recovery.marked THEN "abandoned" ELSE record[r]]
    /\ recovery' = NoRecovery
    /\ UNCHANGED <<lease, run, token, lapsed>>

Recover == RecoverScan \/ RecoverCheck \/ RecoverCommit

RunStep(r) ==
    \/ AdmitElite(r) \/ AcquireRun(r) \/ SetToken(r) \/ StartRun(r)
    \/ NextGeneration(r) \/ Evaluate(r) \/ Interrupt(r) \/ Finish(r)
    \/ RecordFailure(r) \/ EliteGeneration(r) \/ LeaveRun(r)

\* r holds, or believes to hold, the lease.
RunWorking(r) == run[r].pc \in {"leased", "ready", "looping", "evaluating",
                                "failing", "exiting", "releasing", "elite"}
=============================================================================
