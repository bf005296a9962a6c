# A TLA+ model of the autonomous API generator's shared state

This directory holds TLA+ specifications of the parts of the autonomous API
generator that carry its distributed logic: how engine events are numbered,
stored, broadcast and replayed; how a client keeps a projection of them; how
maintenance events are delivered from a durable outbox to the Observatory; how
evolution runs, memory clears and the kill switch share the control plane; how
governance commands reach a candidate's audit log; and how artifacts are
published and the system is backed up and restored.  TLC checks small instances,
TLAPS proves the central invariants for all instances.
`PROJECT.json` is the machine-readable index: components, runs, the map from
definitions to source lines, hazards, findings and theorems.

## 1. Inventory

The repository holds many packages.  Most are sequential evaluators or document
transformations; the parts below keep state that several actors share, or that
must survive a failure.

| Component | State | Operations | Interacts with |
| --- | --- | --- | --- |
| Event dispatcher (`app/observation/gateway/dispatcher.py`) and sequence stores (`app/observation/sequences/`) | one counter and one envelope log per stream, an asyncio lock, subscribers | `emit`, `subscribe`; store: `allocate`, `current`, `persist`, `replay` | called by the evolution engine and by heartbeats; subscribers are called back after the lock is released |
| Observation API (`app/api/observation_routes.py`) | none of its own | `GET /snapshot`, `GET /state` (gap recovery), other reads | several reads of the store per request |
| WebSocket broadcast (`app/api/ws.py`, `app/main.py`) | connection table | connect, disconnect, broadcast | a dispatcher subscriber; sends to every client |
| Live projection (`observation-client/src`) | projected state, tracker, duplicate guard, health, recovery attempts, checkpoint store, socket | `start`, `stop`, `onEnvelope`, `recover`, `checkpoint`, `checkStaleness`, socket callbacks | HTTP requests to the API, envelopes from the socket |
| Maintenance outbox (`app/engine/governed_maintenance_outbox.py`, `maintenance_outbox_worker.py`) | SQLite rows: status, attempts, next attempt, lease | `enqueue`, `_claim`, `deliver_pending`, `_mark_failure`, `retry_dead_letter` | posts to the Observatory with an idempotency key |
| Observatory ingestion (`observatory/backend`) | event store with idempotency keys, bus | `ingest_event`, `observe_idempotent`, `append_idempotent`, `publish` | called by the worker |
| Control-plane lease, evolution runs (`app/storage/lease.py`, `app/engine/evolution.py`, `elite_evolution.py`) | one lease row, the engine's `_active_lease_token`, one `EvolutionRun` row per asynchronous run | acquire, heartbeat, release; the run loops; `recover_interrupted_runs` | kill switch; memory clears take the same lease |
| Runtime kill switch (`app/core/runtime_control.py`) | append-only audit scope `__runtime__` | activate, deactivate, `assert_evolution_enabled` | read by routes and runs |
| Memory clear (`app/core/memory_clear.py`) | `memory.json`, its backups, `memory_clear_audit` | record, lease, back up, record, clear, record, release | lease, audit |
| Governance (`app/governance`, `app/core/governance`) | audit log per candidate, registry of council, gates and policies and its log | `request_decision`, `record_gate_evaluation`, certification, council, gate and policy updates | invariants G-1 to G-7 on what was loaded |
| Backup, restore, checkpoint, publication (`app/storage/backup.py`, `checkpoint.py`, `app/engine/backends.py`) | database file and `.previous`, artifact tree, its `.previous` and its `.materialize-previous`, checkpoint directory | promote, build, back up, create a checkpoint, restore an image or a checkpoint | several renames and removals each, in the server and in an operator's command |
| Read model, middleware, experiment engine, user interfaces, remaining packages | sequential or stateless | | |

What is hard in them:

* **Concurrency on the server.**  `emit()` suspends between allocating a number
  and storing the envelope, the API handlers suspend between their reads.  With
  the in-memory store nothing suspends in these places, with the SQL store
  everything does.
* **Concurrency in the client.**  One thread, but every `await` is a point where
  socket, timer and request callbacks run; a mutex serializes envelope handling
  and nothing else.
* **Unreliable transport.**  Envelopes get lost (slow or closed sockets, failing
  subscribers), overtake each other (fan-out is outside the lock) and arrive
  late; requests fail.
* **Crash and recovery.**  A page reload keeps only the checkpoint; a worker may
  die in any line; the Observatory may die between commit and publication.
* **Leases.**  A worker that is slower than its lease keeps working; a lease of
  the control plane outlives the process that took it.
* **Check, then append.**  The audit stores SELECT the last record outside the
  write transaction; switch, clears and governance decide on what they read
  before it.
* **File systems.**  Publication and restore are several renames; a tree that is
  being removed is neither there nor gone; an open database follows its file to
  the new name.

What makes the modelled components correct:

* numbers and log order agree; nothing is announced before it is stored; the
  lock is always released;
* the projection is an ordered fold of stored events, on a snapshot or on nothing,
  skips none, never moves back, applies only its own stream, and says so when it cannot be trusted;
  `start()` and the mutex always get out of a failure;
* an outbox row is `delivered` only when the Observatory has the event, and for
  good; the event is published at most once and posted a bounded number of
  times; every event ends delivered or as a dead letter that an operator can
  requeue;
* one authoritative operation at a time, which owns the lease until it gives it
  back, fails to, or crashes; recovery leaves runs alone that renew their lease; a switch
  that stays on ends evolution;
* audit chains always verify; what was cleared is in a recorded backup; no
  lifecycle state or gate is skipped;
* a checkpoint verifies, the database that a restore replaces can be put back and
  is put back when the artifact half fails, and a publication keeps the artifact
  it replaces.  The artifact half of a restore keeps nothing of what it replaces,
  and a restore is one unit only as far as the runs below show.

`PROJECT.json` lists the hazards behind these, each at its line.

## 2. Modules

```
EventDispatcher  <-EXTENDS-  ObservationApi  <-EXTENDS-  LiveProjection  <-  MCLiveProjection
   ^                                                            ^
   |                                                            |
   +- EventDispatcherProofs  <---------------  LiveProjectionProofs

MaintenanceOutbox  <-EXTENDS-  MCMaintenanceOutbox
   |       ^
   |       +- MaintenanceOutboxProofs
   +- INSTANCE -> IdempotentDelivery

AuditChain <- KillSwitch  <-+
ControlPlaneLease  <--------+- EvolutionControl  <-+
AuditChain, ControlPlaneLease  <-  MemoryClear  <--+- ControlPlane  <-  MCControlPlane
                                                       |      ^
                                  SingleFlight <-INSTANCE     +- ControlPlaneProofs
AuditChain <- AuditChainProofs  <-  ControlPlaneProofs, GovernanceProofs

AuditChain <- Governance  <-  MCGovernance, GovernanceProofs
SystemCheckpoint  <-  MCSystemCheckpoint, SystemCheckpointProofs
```

Definitions marked `Mutation:` are plausible bugs that are not part of the
specification.  For each property of a passing run there is one; replacing the
mapped definition by it makes TLC report the property violated.  `PROJECT.json` pairs them.

### EventDispatcher

One stream of the dispatcher.  `counter` and `persisted` are the store, `lock`
the asyncio lock, `pc` and `env` the emitting coroutines, `net` the envelopes on
their way to the client.  `emit()` is three actions, one for each stretch
between suspensions: `Allocate` (lock, number, envelope), `Persist` (store,
unlock), `FanOut` (outside the lock).  `EmitFails` is an exception inside the
lock: it leaves a hole in the numbers.  `FanOut` may deliver nothing, because
`_deliver()` swallows a subscriber's exception.  `Leave` removes envelopes from
the transport.  A heartbeat is an emission whose kind the client treats
differently.  `Retained`, `Filter` and `ReplayAfter` are `replay()`: `Durable = FALSE` is the
bounded deque of `memory.py`, `TRUE` the table of `sql_binding.py`.

`persist()` of the SQL store is modelled as one step: it is one transaction.
The module describes one server process; the lock does not reach further.

### ObservationApi

`GET /snapshot` and `GET /state`, read by read: `ReadCurrent` is the call of
`store.current()` with the early returns for an unknown stream and for a gap
wider than the limit; `AnswerSnapshot` and `AnswerState` are the second read and
the reply; `RequestFails` is every other error and a lost request.  With the
in-memory store the two reads are not separated by an emission and never fall
inside one (`NoReadInside`, `NoEmissionInside`).

`Materialize` is `_materialize_state()`: there is no server-side reducer, and the
state it returns is a summary of the log that names a number and the event stored
under that number, if `replay()` still returns one.  Nothing of the earlier events
is in it.

`ReplayFitsWindow` is the relation between the real constants: the client asks
for at most 1000 events and the deque keeps 10,000.

### LiveProjection

The client, composed with the server above.  An action is the code between two
awaits.  The loops that apply a list of replayed envelopes run without a
suspension; the model applies one envelope per step and lets no other callback
run meanwhile (`Idle`).  The projected state is the sequence of envelopes folded
into it, so that "which events does the state contain" can be asked of it; a state
that was hydrated begins with the snapshot's summary (`Hydrated`), which stands for
the events up to its number without containing them.

| Code | Model |
| --- | --- |
| `GapDetector.evaluate`, tracker, guard | `Verdict`, `expected`, `seen` |
| `applyEnvelope` | `ApplyEnvelope` (heartbeat, throwing reducer, fold) |
| `start`, `tryResumeFromCheckpoint`, `catchUpFrom` | `Start`, `ResumeReply`, the loop `catchup` |
| `hydrateFromSnapshot` | `AdoptSnapshot` in `HydrateReply` and `ResyncReply` |
| `onEnvelope` | `OnOwnEnvelope`/`OnForeignEnvelope` (queue for the mutex), `HandleDuplicateOrApply`, `HandleGap` |
| `recover` | `HandleGap`, `PlanReply`, `ResyncReply`, the loop `recover`, `RecoveryFailed`, `RecoverySucceeded` |
| `applyEnvelopeDirect` | `LoopApply`, `LoopThrows`, `LoopDone` |
| `checkpoint` | `CheckpointBegin` (state read, hash awaited), `CheckpointSave` (number read, saved) |
| `onLifecycle`, `WebSocketEventStream` | `SocketOpen`, `SocketClose` |
| `checkStaleness` | `StalenessRecent`, `StalenessProbe`, `StalenessVerdict` |
| `stop`; reload of the page | `Stop`; `Reload` |

A restart waits until the previous session has nothing left in flight: no
handler holds or awaits the mutex and no checkpoint awaits its hash.  With
`OverlapRestart` it does not wait, as the code permits.

`Poison` are the event numbers on which the reducer throws.  `Start(FALSE)` is a
checkpoint that is too old or unreadable.  The guard's capacity is not modelled:
`GuardAgreesWithTracker` shows that the tracker rejects whatever the guard could
forget.

### MaintenanceOutbox

The outbox, its workers and the ingestion they talk to.  Every SQLite
transaction is one action: `Enqueue`, `Claim` (the sweep of rows at the limit
and the batch, one transaction), `RecordSuccess`, `RecordFailure`
(`_mark_failure`), `RetryDeadLetter`.  `Post` sends a request; `Ingest` and
`Publish` are the Observatory's transaction and its publication.  A worker that
times out or dies leaves its request to the Observatory as an orphan that may
still take effect; two orphans for one event at the same stage behave as one.
`ObservatoryCrash` loses all requests and keeps the store.

`IdempotentDelivery` is the abstract specification: events are handed in, stored
once, fanned out at most once, and end delivered or given up; there are no
workers, leases or requests in it.  `Fate` maps a row's status to what the sender
knows of the event, and an event is fanned out when it has been published.

Times are relative to now (`due`, `lease`), and `Tick` passes a unit.  Workers
are not timed against them: a batch of 20 requests with a timeout of 5 s may
take longer than the lease of 30 s.  What an event contains, its serialization
and the validation of the URL are left out: an event of the model is one that
`enqueue()` accepts.

### AuditChain

The append that the kill switch, the clear audit and the governance store share.
pysqlite opens a transaction at the first INSERT, so the SELECT of the last row
and the INSERT are two steps; `UNIQUE(scope, sequence)` (`Fits`) rejects the
loser of a race.  A record hash is written as the sequence of events it covers,
which is what an injective hash of event and predecessor identifies.  `Verifies`
is `verify_chain()`.

### ControlPlane: ControlPlaneLease, KillSwitch, EvolutionControl, MemoryClear

`ControlPlaneLease` is the row of `storage/lease.py`; each of its functions is a
BEGIN IMMEDIATE transaction and one step.  No caller passes
`allow_stale_takeover`, so an expired row still makes every acquisition fail.  A
transaction may also find the database locked and raise: an acquisition then ends
the operation, a heartbeat is an interruption, and a release leaves the row behind
(`stuck` remembers it) while its operation ends.

`EvolutionControl` has a slot per run.  The routes check the switch and hand the
run over (`Request`); `AcquireRun`, `SetToken`, `StartRun`, `NextGeneration`,
`Evaluate` with its heartbeat, `Finish`, `RecordFailure` and `LeaveRun` follow
`run_async` and `run_synchronous`, whose runs share the token of their process's
engine; `Interrupt` is an exception or a cancellation.  Elite runs
(`AdmitElite`, `EliteGeneration`) neither renew the lease nor look at the switch
again.  `RecoverScan`, `RecoverCheck` and `RecoverCommit` are the query, the
look at the lease per row and the commit of `recover_interrupted_runs()`.

`KillSwitch`: `ReadSwitch` decides whether an append is needed, `SelectSwitch`
and `InsertSwitch` append.

`MemoryClear` follows `core/memory_clear.py`: the replay check, the four audit
appends, the lease, the backup, the clearing and the release.  `AfterAppend` and
`AfterIntegrityError` are what the handler does next.  Requests of one process
do not overlap: the handler does not suspend.

`ControlPlane` composes them with `Crash` (a process loses its runs, requests
and token; the lease row stays) and `Tick`.  `SingleFlight` is the abstract
specification: operations begin when none is active.  `Flight` maps `active` to
the operations between acquisition and release.

### Governance

One candidate and the registry.  Within a process a handler does not suspend;
between processes every query and transaction is a step: `RequestDecision`
(council), `LoadGates`, `CheckDecision` (fold, G-1, G-2, G-5, G-7), `Select`,
`Insert`.  Gate evaluations and certifications are appended without a look at the
log; G-3 and G-6 are conditions on the command alone and hold for the commands
the constants list.  The state of the fold is that of the last advancing row.
`governance_events` is written in the transaction of the audit row and left out.

### SystemCheckpoint

File system changes of publication, backup, checkpoint and restore.  A rename is
a step; removing a tree passes through `Torn`.  Every step may raise, and server
and command may die between any two.  The server may run, stop or start at any
moment of any command: neither `cli.py` nor the documents ask for a stopped server.
A database is the set of its writes.  `open` is the server's pool of connections
to the file that a restore has renamed: it writes there, and to the file at the
path through new connections, which create one where there is none (`Write`).

| Code | Model |
| --- | --- |
| `restore_verified_artifact` | `Installs`, used by `Install` (promotions) and `RestoreArtifact` (checkpoints) |
| `promote_verified_artifact` | `Promote`, `DropPrevious`, `Retire`, `Install`, `Undo` |
| `materialize` | `Build`, `DropAside`, `MoveAside`, `Place` |
| `create_system_checkpoint`, `backup_sqlite_database`, `backup_verified_artifact` | `CreateCheckpoint`, `CopyDatabase`, `CopyArtifact`, `SwapCheckpoint` |
| `restore_sqlite_database` | `RestoreDatabase` of any image, `RetireDatabase`, `InstallDatabase`, `PutBack`, `ReturnDigest` |
| `restore_system_checkpoint` | `RestoreCheckpoint`, the steps above, `RestoreArtifact`, `RevertDatabase` |

A command that raised stays visible: `failed` when its own rollback ran or was not
needed, `unread` when the digest of the restored database could not be read, and
`stranded` when the rollback raised too.  `kept` remembers the database that the
last restore found and the artifact that the last publication has to keep,
`removed` that a restore has removed an artifact.  Builds and promotions hold the
control-plane lease and so come one after another; there is one operator command at
a time.  An image that is backed up on its own is the input of `RestoreDatabase`,
which takes any set of writes.

## 3. Runs

The passing runs check different questions, on instances where all the actions
that matter to the question happen.

| Run | Bounds | Checks | Shows |
| --- | --- | --- | --- |
| `projection_sync` | in-memory store, numbers 0..4, window 2, limit 2, 2 recovery attempts, reducer throws on 1 | `ClientTypeOK`, `NoSilentSkip`, `ExhaustionIsReported`, `NeverRewinds`, `MutexIsReleased` | with loss, reordering, reconnects, trimmed events, snapshots and failing requests no event is skipped, exhaustion is reported, and replays, resyncs and discontinuities inside `recover()` let go of the mutex |
| `projection_checkpoint` | SQL store, numbers 0..3, checkpoints, two restarts | `StateIsOrderedFold`, `GuardAgreesWithTracker`, `ConsistencySkipsOnlyHoles` | what feeds the state never duplicates or disorders it |
| `projection_progress` | SQL store, 2 emitting coroutines, numbers 0..1, 1 recovery attempt, shared socket, probes, checkpoints, one restart, reducer throws | `DispatcherTypeOK`, `SequenceOrderIsPersistOrder`, `AnnouncedIsPersisted`, `StartSettles`, `LockIsReleased` | emission order with concurrent and failing emissions beside a client; no reply or replay leaves `start()` hanging |
| `outbox_concurrent` | 2 events, 2 overlapping workers, 2 attempts, 1 requeue | `OutboxTypeOK`, `DeliveredIsStored`, `PublishedAtMostOnce`, `PostsAreBounded` | the safety of delivery does not depend on the lease being long enough |
| `outbox_single` | 2 events, 1 worker, batch of 1, two backoffs | `NoStrandedRow`, `DeadLetterAtLimit`, `AcknowledgedIsRecorded`, `EventuallySettled`, `ImplementsDelivery` | with one worker at a time, which may crash anywhere, the outbox loses nothing; refinement of `IdempotentDelivery` |
| `evolution_control` | an asynchronous and a synchronous run that share an engine, two activations and a deactivation, 2 generations of 1 evaluation, lease of 1 unit, fair | `WorkersOwnTheLease`, `HeartbeatFindsOwnLease`, `RecoverySparesLiveRuns`, `AuditsVerify`, `LeaseIsReturned`, `KillSwitchStopsRuns` | exclusive lease through expiry, crash, raising release and recovery; the shared token; the switch ends evolution |
| `memory_clear` | an elite run, three clears in three processes, two with one operation id | `ControlTypeOK`, `AuditsVerify`, `ClearedDataIsRecoverable`, `ImplementsSingleFlight` | nothing cleared without a recorded backup; refinement of `SingleFlight` |
| `governance` | 2 processes, 5 commands of every kind, 2 transitions, symmetry of processes | `GovernanceTypeOK`, `LogsVerify`, `AdvancesAreEarned` | chains verify; transitions and gates are not skipped by stale checks |
| `system_checkpoint` | 2 artifacts, 2 writes, symmetry of artifacts | `CheckpointTypeOK`, `CheckpointVerifies`, `RollbackCopySurvives`, `FailedRestoreIsUndone`, `PublicationKeepsReplaced` | beside a running server no crash or exception loses the replaced database, or the artifact a publication replaces |

Why the bounds are enough.  Five numbers with a window and a limit of two give a
gap that is replayed, a gap wider than the limit (snapshot), a trimmed log and a
number after the recovery.  Two recovery attempts give a first failure, an
exhaustion and the rejection that follows.  Two events and two workers give
batches of more than one row, an order to respect, and every pair of claims,
outcomes and orphans for the same row.  Two attempts distinguish a retry from
the last attempt.  Two restarts let a session that was resumed from a checkpoint
write one of its own and be resumed from that.  A lease of one unit expires in any
evaluation; two runs of one engine give every order of setting and clearing the
token; the third control request appends to a chain that two others raced for;
of three clears two can race for one operation id while the third holds the
lease.  Five commands suffice for an approval with a gate, a second approval and
the registry update that changes what the check has loaded.  Two artifacts and
four sets of two writes tell the replaced, the restored and the new contents
apart, and a write to either file of the database.  Two coroutines give a number
that is allocated while the other coroutine waits for the lock, fails or fans out;
the proofs cover any number of them.

The projection runs do not check for deadlock: they end when all numbers are
handed out and nothing is left to deliver.  The outbox's and the checkpoint's runs
do check it (a worker's `Claim` of nothing is always possible; a server can always
stop or start).  The control plane stops when
its processes have crashed with the lease, governance after its last command.

`ExhaustionIsReported` is checked without restarts and probes, which may
overwrite the health (see the hazards at `LiveProjection.ts:91` and `:407`).
`NoSilentSkip` passes without checkpoints; `torn_checkpoint.cfg` below shows how
one breaks it.  It counts an event as represented when it is at or below the number
of the snapshot the state began with, which is all that such a state can say of it.
`RollbackCopySurvives` speaks of the writes that the restore found and reaches to
the start of the next restore; `PublicationKeepsReplaced` of an artifact that was
published when a promotion or build began, until the next begins.  `ImplementsDelivery` does not
need a single worker; the run that checks it has one because the product with two
takes TLC too long, and the proof covers any number.

### Runs that show a disagreement

Each of these checks one statement of the repository and TLC finds a behaviour
of the code that contradicts it.  `PROJECT.json` quotes the lines.

* `outbox_stranded`: a worker that outlived its lease records its failure on the
  row another worker has claimed for the last attempt: `pending` at the limit,
  which nothing claims, dead-letters or requeues.
* `governance_race`: two processes approve the same transition; the second one
  was checked before the first was appended, and the log holds a decision from a
  state the candidate has left.  `AdvancesAreEarned` shows what is still true of
  such a log.
* `restore_unit`: the digest of the restored database is read after both renames
  and outside every rollback; when that read raises, the new database stays with
  the old artifact.  (A failed artifact half contradicts the docstring too: the
  artifact it found is removed and not put back.)  `FailedRestoreIsUndone` shows
  what is still true.

The same late failure can arrive while another worker is being acknowledged: the
acknowledgement then changes no row and is reported as delivered.
`AcknowledgedIsRecorded` says that this cannot happen with one worker at a time
(`outbox_single`); with two workers it is violated.

More configurations end in a violation and are kept to reproduce behaviours that
the documentation of the code excludes:

* `snapshot_race.cfg` (`SnapshotNamesLastEvent`): with the SQL store `current()` is
  the last *allocated* number.  A snapshot between `allocate` and `persist` claims
  a number whose event the log does not have and its summary does not name; the
  client then drops that event as stale.
* `torn_checkpoint.cfg` (`NoSilentSkip`): `checkpoint()` reads the state, awaits
  its hash, then reads the number.  An event applied in between is counted but
  missing, and a restart from the checkpoint skips it.
* `reducer_failure.cfg` (`ReducerFailureIsReported`): a reducer that throws
  inside a recovery marks the projection desynchronized, and the end of the
  recovery marks it healthy or degraded.
* `shared_socket.cfg` (`OnlyOwnStream`): envelopes of every run are broadcast to
  every socket and nothing compares the stream; a foreign event whose number fits
  is folded in.
* `overlapped_restart.cfg` (`StateIsOrderedFold`): `stop()` does not cancel a
  recovery in flight and `start()` does not take the mutex; the old reply moves
  the new session's tracker back and events are folded out of order.  A checkpoint
  of the old session that still awaits its hash has a like effect: it saves the
  old session's state under the new session's number.
* `materialize_atomic.cfg` (`MaterializeIsAtomic`): a build moves the published tree
  aside before it renames the new one into place ("one atomic replacement",
  `backends.py:608`); a crash in between leaves nothing published, and the next
  build removes the copy first (`backends.py:638`).

## 4. Fairness

* Dispatcher: a coroutine in the critical section is run to its end (the store
  answers or raises), and fan-out is awaited.  Nothing obliges the engine to
  emit.
* Client: requests end (`fetch` resolves or rejects), the continuation of a
  reply runs, synchronous loops end, and emissions that hold the lock end.
  Nothing is assumed of the network, of reconnects or of the user.
* Outbox: time passes, the scheduler keeps starting workers, and a worker that is
  not killed goes through its batch because every request has a timeout.
  Nothing is assumed of the Observatory or of operators, and crashes may happen
  at any time: `EventuallySettled` holds even if the Observatory never answers
  and workers always crash, because `_claim()` counts an attempt before
  anything is sent and sweeps rows whose lease expires at the limit.
* Control plane: a run, a control request and a clear that have begun go on;
  evaluations end or raise.  New ones need not come, recovery need not run, time
  need not pass, and crashes may happen at any time.

## 5. Proofs

`EventDispatcherProofs` holds for every set of coroutines, either store, every
window and every bound (`TasksAssumption`, `WindowAssumption`).  Sequence order
is not inductive by itself: appending keeps it only if the appended number is
above all stored ones.  `DispatcherInv` adds what `emit()`'s lock gives: a
coroutine is in the critical section exactly when it holds the lock, and then it
carries the last allocated number, which is above everything stored; a coroutine
that fans out has stored its envelope.  From it follow `DispatcherTypeCorrect`,
`PersistOrder` and `AnnouncedAfterPersist`.

The module also proves what `replay()` returns, for every log: filtering gives the
wanted entries of the log, all of them, in ascending order if the log is
(`FilterFacts`); a replay holds stored envelopes above `after` in order, and when
the window reaches back to `after` it begins with the least of them, so it is
empty only if nothing above `after` is stored (`RetainedFacts`, `ReplayFacts`).
`Filter` is a recursive function of the position; what it computes is proved by
taking the least position of a set where the claim fails (`LeastNat`,
`SetInduction`), which needs no operator as a parameter.

`LiveProjectionProofs` composes the above with the client.  For all constants
`TypeInv` is inductive (`ClientTypeCorrect`), and the server in the composition
takes only the dispatcher's steps (`ServesAsDispatcher`), so its invariant holds
there as well.  The other theorems name the conditions under which they hold; the
configurations and hazards cited below show what happens without them.

* `SyncInv`, for a client that is not restarted over its own callbacks and whose
  socket carries one stream (`Disciplined`; without it `overlapped_restart.cfg` and
  `shared_socket.cfg`): state, saved checkpoint, states being hashed, replies, the
  list being replayed and the queue all consist of stored envelopes; a state is an
  ordered fold below the number it goes with; the number a reply carries lies
  between what the client expects and the last allocated one; start, recovery and
  their loops exclude each other (`Phases`); the envelope a recovery is about is
  beyond the expected one.  Order alone is not inductive, because a state arrives
  through a reply or a checkpoint several steps after it was made.  From it follow
  `OrderedFold`, `GuardAgreement`, `JumpsOverHolesOnly` and `ExpectedNeverRewinds`,
  for either store, with checkpoints, probes, a throwing reducer and any number of
  restarts.
* `SkipInv`, in addition without checkpoints (without that, `torn_checkpoint.cfg`),
  for either store: a number that is allocated and not yet stored is not below the
  expected one unless the summary that the state begins with stands for it, and a
  snapshot reply carries a summary of the number it names.  A replay may be trimmed
  at its limit and not at its start, because `ReplayLimit` fits the window.  It
  gives `NothingSkipped`.
* `ExhaustionInv`, for one session without probes (`SingleSession`; restarts and
  probes overwrite health, see the hazards): no attempt is used before the
  projection is live.  It gives `ExhaustionReported`.

`MaintenanceOutboxProofs` holds for every finite set of events, any set of
workers and all limits (`EventsAssumption`, `OutboxAssumption`, and
`BackoffAssumption`: the delays are natural numbers, a fact about `2^n` that
would need induction).  `OutboxInv` joins
`StoredInv`, which carries "stored" from the transaction through the
acknowledgement to the row, and `OnePublisher`: the right to publish an event is
created once, with its row in the Observatory's store, and is from then on held
by exactly one request, lost, or used.  From it follow `OutboxTypeCorrect`,
`DeliveredAfterStored`, `AtMostOncePublication` and, as an action property,
`DeliveredStays`.

* `PostsInv` counts: the posts of an event and the workers that have claimed it
  and not yet posted it are covered by the attempts of its row, now and before
  each requeue.  It gives `BoundedPosts`.
* `KnownInv`: what a batch, a request or an orphan is about was enqueued.
  With `OutboxInv` it gives the refinement `DeliveryImplemented`; each transaction
  of the outbox maps to one step of `IdempotentDelivery` or to none.
* `HeldInv`: the row a worker holds is `delivering` with the attempt number it was
  given at the claim, so that this number decides as the row's own would.
  It is inductive only when there is one worker (`SoleWorker`; `outbox_stranded`
  is the counterexample with two), and gives `NothingStranded`, `GivenUpAtLimit` and `SuccessesRecorded`.

None of these proofs uses the lease: overlapping workers are harmless to all of
them but the last, which needs a single worker instead.

`AuditChainProofs` is about the append for every set of events: a link that some
earlier SELECT returned continues one of the rows for good (`LinksContinue`,
`ContinuesGrows`), and the INSERT of a record on such a link under
`UNIQUE(scope, sequence)` keeps the chain verifiable (`AppendVerifies`), however
many appends came between.

`ControlPlaneProofs` holds for any sets of runs, clears, control requests and
processes, any operation ids, any numbers of generations and evaluations and any
lease time (`RunAssumption`, `ClearAssumption`, `LeaseAssumption`).

* `TypeInv` adds to the types which kinds of run are in which place, and gives
  `ControlTypeCorrect`.
* `StepEffect` says what one step may do to the lease: nothing, an acquisition of
  the free lease by the operation that begins, or the release by its owner.
  `WorkersOwnTheLease` is inductive with it (`WorkersOwn`), and the refinement
  `SingleFlightImplemented` follows from it in both states of a step together
  with "the lease passes on only through a release" (`OwnerStep`).
* `TokenInv`: a run past `SetToken` and before `ClearToken` finds its own token.
  Another run of the engine writes the token only while it works itself, which
  `WorkersOwn` excludes; with it `HeartbeatKeepsLease` follows.
* `RecoveryInv`: a run at work under an expired lease has lapsed, so has one that
  a recovery has marked, and a queued run has neither a row nor a recovery that
  looks at one.  The last part is what keeps a mark from reaching the slot's next
  run.  It gives `RecoveryIsSafe`.
* `ChainInv`: every request about to insert holds a link that continues its log.
  It gives `AuditsAlwaysVerify` from `AuditChainProofs`.
* `BackupInv`: one request at a time is past the "requested" record of an
  operation id, no backup of an operation is overwritten after its
  `backup_verified` record, and a verified backup equals the memory until the
  memory is cleared.  The unique index on "requested" records and `WorkersOwn`
  are both needed.  It gives `ClearsAreRecoverable`.

`GovernanceProofs` holds for any processes, commands, registry and lifecycle
(`GovernanceAssumption`).  A check is not repeated at the append, so the
invariant is about what survives in between: `SelectInv` says that an event was
earned by rows that are still there, `InsertInv` that these rows come before the
link the SELECT returned.  Other appends only add rows, and the unique number
keeps the new row after the ones it rests on.  Hence `LogsAlwaysVerify` and
`AdvancesStayEarned`; that the state is still the current one, which
`governance_race` refutes, is exactly what does not survive.

`SerialLogIsValid` is the counterpart of that run: with one process
(`SoleProcess`) the log stays as it was checked until the row is inserted
(`SerialInv`), and every decision recorded starts from the current state.
`GovernanceTypeCorrect` needs the bound on sequence numbers, which counts
commands: `TypesInv` says that the appends so far and the processes at work
together do not exceed the commands accepted (`Covered`).

`SystemCheckpointProofs` holds for any artifacts and any number of writes
(`CheckpointAssumption`), with the server running, stopping and starting at any
moment.  `CheckpointInv` joins `PhaseInv` (which step works on what; old connections
lead to a file), `CopyInv` (what a checkpoint is made of), `RestoreInv` (from the
first rename to the end the file at `.previous` holds what the restore found, before
it the file at the path does) and `PublicationInv` (where the replaced artifact is
in each step of a promotion or a build).  Holding a set of writes is kept by every
write of the server, whichever file it goes to, and the artifact half of a restore
may run between any two steps of a publication; the frame lemmas
(`PublicationFrame`, `RestoreFrame`) keep these apart.  All five properties of
`system_checkpoint` follow.

Every invariant and every action property of a passing run is a theorem.  Only
model-checked: the liveness properties `LockIsReleased`, `MutexIsReleased`,
`StartSettles`, `EventuallySettled`, `LeaseIsReturned` and `KillSwitchStopsRuns`
(fairness is out of the proof system's reach), and the violations.

## 6. What is not modelled

* A restart of the server, and several server processes on one SQL store (the
  lock is per process).
* `stop()` during an unfinished `start()`.
* Authentication, the connection table, the other endpoints of the observation
  router, the Observatory's batch ingestion, queries and commands.
* The contents of events, snapshots and checkpoints, hashes and versions: a
  checkpoint that fails validation is `Start(FALSE)`.
* What an evolution run computes; artifacts are digests, and a build is the change
  of the published tree.  `storage/atomic.py` and signatures: sequential.
* The conditions G-3 and G-6, which look at a command and nothing else, and the
  table `governance_events`.
* Two operator commands at the same time, a recycled connection pool
  (`pool_recycle`), and SQLite's journal files: a restore beside a writing server
  may also leave a hot journal next to the restored file.
* The experiment engine, the evaluators, compilers, registries and user
  interfaces: sequential, statistical or presentational (`PROJECT.json` gives a
  reason for each).

Observations from reading the code that no property states:

* A gate that passed and later failed still satisfies G-2 (`invariants.py:61`),
  and a repeated decider counts twice for the quorum (`invariants.py:114`); the
  model does both.
* The `succeeded` record of a clear may lose the race for its number; the clear
  is then recorded as failed although the memory is empty (`memory_clear.py:231`).
* A deactivation decided on a stale switch is appended after a newer activation
  (`runtime_control.py:154`).
* Synchronous and elite runs do not look at the switch between generations
  (`evolution.py:153`): `KillSwitchStopsRuns` holds because they end.
* A cancelled run leaves its row `running` (`evolution.py:220`) until a recovery.
* `lease.py:5` speaks of recovery taking over a stale lease; no caller does, so a
  crash with the lease, or a release that finds the database locked, stops
  evolution and clears until an operator steps in.
* `main.py:87` hands the synchronous `db_engine` to the SQL store, which awaits an
  asynchronous one: in production every store operation raises
  (`docs/EV-A07-schema-observation-integrity.md:42`, EV-A07-001).  `Durable = TRUE`
  models the store as `sql_binding.py` is written, on an engine it can use.
* `evolution.py:137` takes the digest of a governed promotion from evidence in which
  `candidate_evaluator.py` puts none, so the promotion of a run is refused at its
  validation; `Promote` models the function with a digest that matches, as its
  tests call it.
* A restore that follows one that crashed between its renames overwrites
  `.previous`, the only copy, with the empty database a server has created
  (`backup.py:133`).
* A registry row is saved before its event (`subsystem.py:169`), and a decision
  loads council, gates and state in three queries (`subsystem.py:70`).
* A new checkpoint is renamed into place after the old one was removed
  (`checkpoint.py:112`), a promotion drops the older `.previous` first
  (`backends.py:593`).

The bridge that `main.py`
subscribes is a plain function, so `await sub(envelope)` raises after the
broadcast has been scheduled; `_deliver()` swallows it.  The `HeartbeatEmitter`
is not started by `main.py`; the model allows heartbeats because clients handle
them.

## 7. Plan

Done: the observation pipeline, the outbox with its refinement, the control plane
with its refinement, governance, checkpoints, and the proofs of their safety
properties.  Next:

1. A lock per server process in `EventDispatcher`, and a restart of the server;
   `stop()` during `start()`, and what restarts and probes do to health and
   attempts.
2. An abstract ordered fold that `LiveProjection` implements under the conditions
   of `SyncInv`; the read model's reducer as an operator.
3. Proofs for what item 1 adds, and how far `ExhaustionReported` reaches when
   restarts and probes are allowed.
