--------------------------- MODULE LiveProjection ---------------------------
(***************************************************************************)
(* The client's synchronization primitive                                  *)
(* (observation-client/src/sync/LiveProjection.ts) running against the     *)
(* observation API and the event stream.                                   *)
(*                                                                         *)
(* The client is single threaded: a callback runs to its next await.  An   *)
(* action is the code between two awaits, except for the loops that apply  *)
(* a list of replayed envelopes: they are one action per envelope, and no  *)
(* other callback runs while `loop` is not "none".  Envelopes wait for the *)
(* projection's mutex in `queue`.                                          *)
(*                                                                         *)
(* The projected state is the sequence of what it was made from: the       *)
(* summary it was hydrated with, if any, and then the envelopes the        *)
(* reducer has folded into it.                                             *)
(***************************************************************************)
EXTENDS ObservationApi

CONSTANTS
    MaxRecoveryAttempts,    \* options.maxRecoveryAttempts
    Poison,         \* numbers of the domain events on which the reducer throws
    Checkpointing,  \* config.checkpointStore is given
    MaxHashing,     \* bound: checkpoint() calls waiting for their hash
    Probing,        \* the staleness monitor and its probe are modelled
    SharedSocket,   \* envelopes of another run are broadcast to this socket
    MaxQueue,       \* bound: envelopes waiting for the mutex
    MaxRestarts,    \* bound: stop()/reload followed by start()
    OverlapRestart  \* start() may be called while old callbacks are pending

ASSUME ClientAssumption ==
    /\ Slots = {"start", "recover"}
    /\ MaxRecoveryAttempts \in Nat \ {0}
    /\ Poison \subseteq 0..MaxSequence
    /\ {Checkpointing, Probing, SharedSocket, OverlapRestart} \subseteq BOOLEAN
    /\ {MaxHashing, MaxQueue, MaxRestarts} \subseteq Nat

VARIABLES
    boot,       \* progress of start(): off, resuming, catchup, hydrating,
                \* live (subscribed) or dead (start() rejected)
    conn,       \* the WebSocket: "down", "connecting" or "open"
    queue,      \* envelopes in onEnvelope() that wait for the mutex
    mutex,      \* what the holder of the mutex awaits: "free", "plan",
                \* "resync"; "replay" while it applies replayed envelopes
    pending,    \* the envelope whose gap is being closed
    loop,       \* the synchronous loop that is running: none, recover, catchup
    work,       \* envelopes that loop has still to apply
    state,      \* what the projection is made of: a summary, folded envelopes
    expected,   \* tracker.expected
    seen,       \* duplicate guard
    threw,      \* lastError of the reducer: the number it threw on, -1 if none
    health,     \* projection health
    attempts,   \* recoveryAttempts
    hashing,    \* states captured by checkpoint() calls that await their hash
    saved,      \* content of the checkpoint store
    probe,      \* checkStaleness() awaits its liveness probe
    restarts    \* restarts so far

clientVars == <<boot, conn, queue, mutex, pending, loop, work, state, expected,
                seen, threw, health, attempts, hashing, saved, probe, restarts>>
syncVars == <<queue, mutex, pending, loop, work>>
foldVars == <<state, expected, seen, threw>>
checkpointVars == <<hashing, saved>>
vars == <<apiVars, clientVars>>

NoCheckpoint == [sequence |-> -1, state |-> <<>>, present |-> FALSE]
Healths == {"initializing", "healthy", "stale", "degraded", "unavailable",
            "desynchronized"}

\* An envelope of another stream that reaches this socket.
Foreign(n) == [sequence |-> n, kind |-> "foreign"]
AnyEnvelope == Envelope \cup {Foreign(n) : n \in 0..MaxSequence}

\* What a projected state is made of.
Entry == AnyEnvelope \cup Summary

Idle == loop = "none"

-----------------------------------------------------------------------------
(* GapDetector, SequenceTracker, DuplicateGuard. *)

Verdict(e) ==
    IF e \in seen THEN "duplicate"
    ELSE IF e.sequence = expected THEN "apply"
    ELSE IF e.sequence < expected THEN "duplicate"
    ELSE "gap"

\* touchLiveness()
Touched == IF health = "stale" THEN "healthy" ELSE health

\* applyEnvelope(): a heartbeat consumes its number only; a throwing reducer
\* marks the projection desynchronized and consumes nothing; otherwise the
\* event is folded in.
ApplyEnvelope(e) ==
    \/ /\ e.kind = "heartbeat"
       /\ expected' = expected + 1
       /\ seen' = seen \cup {e}
       /\ health' = Touched
       /\ UNCHANGED <<state, threw>>
    \/ /\ e.kind # "heartbeat"
       /\ e.sequence \in Poison
       /\ threw' = e.sequence
       /\ health' = "desynchronized"
       /\ UNCHANGED <<state, expected, seen>>
    \/ /\ e.kind # "heartbeat"
       /\ e.sequence \notin Poison
       /\ state' = Append(state, e)
       /\ expected' = expected + 1
       /\ seen' = seen \cup {e}
       /\ health' = Touched
       /\ UNCHANGED threw

\* hydrateFromSnapshot(), once the snapshot has arrived.
AdoptSnapshot(reply) ==
    /\ state' = reply.state
    /\ expected' = reply.sequence + 1
    /\ seen' = {}
    /\ UNCHANGED threw

-----------------------------------------------------------------------------
(* start(), stop(), and a reload of the page. *)

\* Mutation: the checkpoint's own number is asked for and expected again.
StartOffByOne(usable) ==
    /\ boot = "off"
    /\ Idle
    /\ mutex = "free" /\ queue = <<>>
    /\ \/ /\ usable /\ saved.present /\ saved.sequence >= 0
          /\ state' = saved.state
          /\ expected' = saved.sequence
          /\ seen' = {}
          /\ req' = [req EXCEPT !["start"] = StateRequest(saved.sequence - 1)]
          /\ boot' = "resuming"
          /\ UNCHANGED threw
       \/ /\ ~(usable /\ saved.present /\ saved.sequence >= 0)
          /\ req' = [req EXCEPT !["start"] = SnapshotRequest]
          /\ boot' = "hydrating"
          /\ UNCHANGED foldVars
    /\ health' = "initializing"
    /\ UNCHANGED <<dispatcherVars, conn, syncVars, attempts, checkpointVars,
                   probe, restarts>>

\* Mutation: the duplicate guard is not reset when a checkpoint is adopted.
StartKeepingGuard(usable) ==
    /\ boot = "off"
    /\ Idle
    /\ mutex = "free" /\ queue = <<>>
    /\ \/ /\ usable /\ saved.present
          /\ state' = saved.state
          /\ expected' = saved.sequence + 1
          /\ req' = [req EXCEPT !["start"] = StateRequest(saved.sequence)]
          /\ boot' = "resuming"
          /\ UNCHANGED <<seen, threw>>
       \/ /\ ~(usable /\ saved.present)
          /\ req' = [req EXCEPT !["start"] = SnapshotRequest]
          /\ boot' = "hydrating"
          /\ UNCHANGED foldVars
    /\ health' = "initializing"
    /\ UNCHANGED <<dispatcherVars, conn, syncVars, attempts, checkpointVars,
                   probe, restarts>>

\* start(): resume from the checkpoint when there is a usable one (`usable`
\* is FALSE for one that is too old or cannot be read), else hydrate.  Unless
\* restarts overlap, the caller has awaited stop() and with it the checkpoint.
Start(usable) ==
    /\ boot = "off"
    /\ Idle
    /\ OverlapRestart \/ (mutex = "free" /\ queue = <<>> /\ hashing = {})
    /\ \/ /\ usable /\ saved.present
          /\ state' = saved.state
          /\ expected' = saved.sequence + 1
          /\ seen' = {}
          /\ req' = [req EXCEPT !["start"] = StateRequest(saved.sequence)]
          /\ boot' = "resuming"
          /\ UNCHANGED <<saved, threw>>
       \/ /\ ~(usable /\ saved.present)
          /\ req' = [req EXCEPT !["start"] = SnapshotRequest]
          /\ boot' = "hydrating"
          /\ saved' \in {saved, NoCheckpoint}
          /\ UNCHANGED foldVars
    /\ health' = "initializing"
    /\ UNCHANGED <<dispatcherVars, conn, syncVars, attempts, hashing, probe, restarts>>

\* The end of start(): subscribe to the stream, connect, report healthy.
GoLive(h) ==
    /\ boot' = "live"
    /\ conn' = "connecting"
    /\ health' = IF h = "initializing" THEN "healthy" ELSE h

\* Mutation: a failed catch-up is retried instead of falling back.
ResumeReplyRetries ==
    /\ boot = "resuming"
    /\ Idle
    /\ req["start"].at = "reply"
    /\ \/ /\ req["start"].outcome = "ok"
          /\ boot' = "catchup"
          /\ loop' = "catchup"
          /\ work' = req["start"].events
          /\ req' = [req EXCEPT !["start"] = NoRequest]
       \/ /\ req["start"].outcome # "ok"
          /\ req' = [req EXCEPT !["start"] = StateRequest(saved.sequence)]
          /\ UNCHANGED <<boot, loop, work>>
    /\ UNCHANGED <<dispatcherVars, conn, queue, mutex, pending, foldVars, health,
                   attempts, checkpointVars, probe, restarts>>

\* catchUpFrom(): the replay for the checkpoint arrives, or it fails and
\* start() falls back to a snapshot.
ResumeReply ==
    /\ boot = "resuming"
    /\ Idle
    /\ req["start"].at = "reply"
    /\ \/ /\ req["start"].outcome = "ok"
          /\ boot' = "catchup"
          /\ loop' = "catchup"
          /\ work' = req["start"].events
          /\ req' = [req EXCEPT !["start"] = NoRequest]
       \/ /\ req["start"].outcome # "ok"
          /\ boot' = "hydrating"
          /\ req' = [req EXCEPT !["start"] = SnapshotRequest]
          /\ UNCHANGED <<loop, work>>
    /\ UNCHANGED <<dispatcherVars, conn, queue, mutex, pending, foldVars, health,
                   attempts, checkpointVars, probe, restarts>>

\* hydrateFromSnapshot() in start(): a failure rejects start().
HydrateReply ==
    /\ boot = "hydrating"
    /\ Idle
    /\ req["start"].at = "reply"
    /\ req' = [req EXCEPT !["start"] = NoRequest]
    /\ \/ /\ req["start"].outcome = "ok"
          /\ AdoptSnapshot(req["start"])
          /\ GoLive(Touched)
       \/ /\ req["start"].outcome # "ok"
          /\ boot' = "dead"
          /\ UNCHANGED <<foldVars, conn, health>>
    /\ UNCHANGED <<dispatcherVars, syncVars, attempts, checkpointVars, probe, restarts>>

\* stop(): unsubscribe, checkpoint, close the socket.  Callbacks that already
\* wait for the mutex or for a reply are not cancelled.
Stop ==
    /\ boot \in {"live", "dead"}
    /\ Idle
    /\ restarts < MaxRestarts
    /\ restarts' = restarts + 1
    /\ boot' = "off"
    /\ conn' = "down"
    /\ Leave(net)
    /\ hashing' = IF Checkpointing THEN hashing \cup {state} ELSE hashing
    /\ UNCHANGED <<req, syncVars, foldVars,
                   health, attempts, saved, probe>>

\* The page is reloaded or crashes: only the checkpoint store survives.
Reload ==
    /\ boot # "off"
    /\ Idle
    /\ restarts < MaxRestarts
    /\ restarts' = restarts + 1
    /\ boot' = "off" /\ conn' = "down" /\ Leave(net)
    /\ req' = [s \in Slots |-> NoRequest]
    /\ queue' = <<>> /\ mutex' = "free" /\ pending' = NoEnvelope
    /\ loop' = "none" /\ work' = <<>>
    /\ state' = <<>> /\ expected' = 0 /\ seen' = {} /\ threw' = -1
    /\ health' = "initializing" /\ attempts' = 0
    /\ hashing' = {} /\ probe' = FALSE
    /\ UNCHANGED saved

-----------------------------------------------------------------------------
(* onEnvelope() and recover(). *)

\* The socket hands over an envelope; the callback queues for the mutex.
OnEnvelope(e) ==
    /\ boot = "live" /\ conn = "open"
    /\ Idle
    /\ Len(queue) < MaxQueue
    /\ queue' = Append(queue, e)
    /\ UNCHANGED <<boot, conn, mutex, pending, loop, work, foldVars, health,
                   attempts, checkpointVars, probe, restarts, req>>

OnOwnEnvelope == \E e \in net : Leave({e}) /\ OnEnvelope(e)

\* The server broadcasts every stream to every socket, and nothing on the way
\* to the detector looks at the envelope's stream.
OnForeignEnvelope ==
    /\ SharedSocket
    /\ \E n \in 0..MaxSequence : OnEnvelope(Foreign(n))
    /\ UNCHANGED dispatcherVars

\* The holder of the mutex classifies the first waiting envelope.
HandleDuplicateOrApply ==
    /\ queue # <<>> /\ mutex = "free" /\ Idle
    /\ \/ /\ Verdict(Head(queue)) = "duplicate"
          /\ UNCHANGED <<foldVars, health>>
       \/ /\ Verdict(Head(queue)) = "apply"
          /\ ApplyEnvelope(Head(queue))
    /\ queue' = Tail(queue)
    /\ UNCHANGED <<apiVars, boot, conn, mutex, pending, loop, work, attempts,
                   checkpointVars, probe, restarts>>

\* Mutation: the attempt limit is off by one.
HandleGapOffByOne ==
    /\ queue # <<>> /\ mutex = "free" /\ Idle
    /\ Verdict(Head(queue)) = "gap"
    /\ attempts <= MaxRecoveryAttempts
    /\ queue' = Tail(queue)
    /\ attempts' = attempts + 1
    /\ mutex' = "plan"
    /\ pending' = Head(queue)
    /\ req' = [req EXCEPT !["recover"] = StateRequest(expected - 1)]
    /\ UNCHANGED <<dispatcherVars, boot, conn, loop, work, foldVars, health,
                   checkpointVars, probe, restarts>>

\* recover(), up to its first await: give up when the attempts are used up,
\* else ask for the events from the first missing one.
HandleGap ==
    /\ queue # <<>> /\ mutex = "free" /\ Idle
    /\ Verdict(Head(queue)) = "gap"
    /\ queue' = Tail(queue)
    /\ \/ /\ attempts >= MaxRecoveryAttempts
          /\ health' = "desynchronized"
          /\ UNCHANGED <<attempts, mutex, pending, req>>
       \/ /\ attempts < MaxRecoveryAttempts
          /\ attempts' = attempts + 1
          /\ mutex' = "plan"
          /\ pending' = Head(queue)
          /\ req' = [req EXCEPT !["recover"] = StateRequest(expected - 1)]
          /\ UNCHANGED health
    /\ UNCHANGED <<dispatcherVars, boot, conn, loop, work, foldVars,
                   checkpointVars, probe, restarts>>

\* Mutation: the mutex is released on success only.
RecoveryFailedKeepingMutex ==
    /\ health' = IF attempts >= MaxRecoveryAttempts THEN "desynchronized"
                 ELSE "degraded"
    /\ UNCHANGED <<attempts, mutex, pending>>

\* The catch block of recover(), and the release of the mutex.
RecoveryFailed ==
    /\ health' = IF attempts >= MaxRecoveryAttempts THEN "desynchronized"
                 ELSE "degraded"
    /\ mutex' = "free"
    /\ pending' = NoEnvelope
    /\ UNCHANGED attempts

\* The end of the try block of recover(), and the release of the mutex.
RecoverySucceeded ==
    /\ health' = "healthy"
    /\ attempts' = 0
    /\ mutex' = "free"
    /\ pending' = NoEnvelope

\* coordinator.plan() returns: adopt the consistency point and start applying
\* the replay and the pending envelope; or resync; or fail.
PlanReply ==
    /\ mutex = "plan" /\ Idle
    /\ req["recover"].at = "reply"
    /\ \/ /\ req["recover"].outcome = "ok"
          /\ expected' = req["recover"].sequence + 1
          /\ work' = Append(req["recover"].events, pending)
          /\ loop' = "recover"
          /\ mutex' = "replay"
          /\ req' = [req EXCEPT !["recover"] = NoRequest]
          /\ UNCHANGED <<state, seen, threw, health, attempts, pending>>
       \/ /\ req["recover"].outcome \in {"exhausted", "notFound"}
          /\ mutex' = "resync"
          /\ req' = [req EXCEPT !["recover"] = SnapshotRequest]
          /\ UNCHANGED <<foldVars, work, loop, health, attempts, pending>>
       \/ /\ req["recover"].outcome = "error"
          /\ req' = [req EXCEPT !["recover"] = NoRequest]
          /\ RecoveryFailed
          /\ UNCHANGED <<foldVars, work, loop>>
    /\ UNCHANGED <<dispatcherVars, boot, conn, queue, checkpointVars, probe, restarts>>

\* hydrateFromSnapshot() in recover(): the pending envelope is dropped.
ResyncReply ==
    /\ mutex = "resync" /\ Idle
    /\ req["recover"].at = "reply"
    /\ req' = [req EXCEPT !["recover"] = NoRequest]
    /\ \/ /\ req["recover"].outcome = "ok"
          /\ AdoptSnapshot(req["recover"])
          /\ RecoverySucceeded
       \/ /\ req["recover"].outcome # "ok"
          /\ RecoveryFailed
          /\ UNCHANGED foldVars
    /\ UNCHANGED <<dispatcherVars, boot, conn, queue, loop, work,
                   checkpointVars, probe, restarts>>

\* Mutation: a discontinuity in the replay is jumped over.
LoopApplyAnyway ==
    /\ loop # "none" /\ work # <<>>
    /\ \/ /\ Verdict(Head(work)) = "duplicate"
          /\ UNCHANGED <<foldVars, health>>
       \/ /\ Verdict(Head(work)) = "apply"
          /\ ApplyEnvelope(Head(work))
       \/ /\ Verdict(Head(work)) = "gap"
          /\ expected' = Head(work).sequence
          /\ UNCHANGED <<state, seen, threw, health>>
    /\ work' = IF Verdict(Head(work)) = "gap" THEN work ELSE Tail(work)
    /\ UNCHANGED <<apiVars, boot, conn, queue, mutex, pending, loop, attempts,
                   checkpointVars, probe, restarts>>

\* applyEnvelopeDirect() on the next envelope of a running loop, when it does
\* not throw.
LoopApply ==
    /\ loop # "none" /\ work # <<>>
    /\ \/ /\ Verdict(Head(work)) = "duplicate"
          /\ UNCHANGED <<foldVars, health>>
       \/ /\ Verdict(Head(work)) = "apply"
          /\ ApplyEnvelope(Head(work))
    /\ work' = Tail(work)
    /\ UNCHANGED <<apiVars, boot, conn, queue, mutex, pending, loop, attempts,
                   checkpointVars, probe, restarts>>

\* applyEnvelopeDirect() throws on a discontinuity: recover() fails, start()
\* falls back to a snapshot.
LoopThrows ==
    /\ loop # "none" /\ work # <<>>
    /\ Verdict(Head(work)) = "gap"
    /\ work' = <<>>
    /\ loop' = "none"
    /\ \/ /\ loop = "recover"
          /\ RecoveryFailed
          /\ UNCHANGED <<boot, req>>
       \/ /\ loop = "catchup"
          /\ boot' = "hydrating"
          /\ req' = [req EXCEPT !["start"] = SnapshotRequest]
          /\ UNCHANGED <<health, mutex, pending, attempts>>
    /\ UNCHANGED <<dispatcherVars, conn, queue, foldVars, checkpointVars, probe, restarts>>

\* The loop has applied everything.
LoopDone ==
    /\ loop # "none" /\ work = <<>>
    /\ loop' = "none"
    /\ \/ /\ loop = "recover"
          /\ RecoverySucceeded
          /\ UNCHANGED <<boot, conn>>
       \/ /\ loop = "catchup"
          /\ GoLive(health)
          /\ UNCHANGED <<mutex, pending, attempts>>
    /\ UNCHANGED <<apiVars, queue, work, foldVars, checkpointVars, probe, restarts>>

-----------------------------------------------------------------------------
(* checkpoint(): the state is read before the hash is awaited, the applied *)
(* sequence after it.  It runs from a timer, from applyEnvelope() and from *)
(* stop(), never under the mutex.                                          *)

CheckpointBegin ==
    /\ Checkpointing
    /\ boot = "live" \/ loop # "none" \/ mutex # "free" \/ queue # <<>>
    /\ Cardinality(hashing) < MaxHashing
    /\ hashing' = hashing \cup {state}
    /\ UNCHANGED <<apiVars, boot, conn, syncVars, foldVars, health, attempts,
                   saved, probe, restarts>>

CheckpointSave(s) ==
    /\ Idle
    /\ s \in hashing
    /\ saved' = [sequence |-> expected - 1, state |-> s, present |-> TRUE]
    /\ hashing' = hashing \ {s}
    /\ UNCHANGED <<apiVars, boot, conn, syncVars, foldVars, health, attempts,
                   probe, restarts>>

-----------------------------------------------------------------------------
(* WebSocketEventStream and onLifecycle(). *)

\* Mutation: every reconnect reports a healthy projection.
SocketOpenHealthy ==
    /\ conn = "connecting" /\ Idle
    /\ conn' = "open"
    /\ health' = "healthy"
    /\ UNCHANGED <<apiVars, boot, syncVars, foldVars, attempts, checkpointVars,
                   probe, restarts>>

\* 'open': a projection that was only cut off is healthy again.
SocketOpen ==
    /\ conn = "connecting" /\ Idle
    /\ conn' = "open"
    /\ health' = IF health \in {"unavailable", "degraded"} THEN "healthy" ELSE health
    /\ UNCHANGED <<apiVars, boot, syncVars, foldVars, attempts, checkpointVars,
                   probe, restarts>>

\* The socket closes; what was in transit is lost and a reconnect is scheduled.
SocketClose ==
    /\ conn \in {"connecting", "open"} /\ Idle
    /\ conn' = "connecting"
    /\ Leave(net)
    /\ health' = IF health = "desynchronized" THEN health ELSE "degraded"
    /\ UNCHANGED <<req, boot, syncVars,
                   foldVars, attempts, checkpointVars, probe, restarts>>

\* The fan-out reaches the socket only while the server holds it open.
FanOutStep ==
    /\ \E t \in Tasks, d \in {FALSE, conn = "open"} : FanOut(t, d)
    /\ UNCHANGED <<req, clientVars>>

-----------------------------------------------------------------------------
(* checkStaleness(); how long the stream has been quiet is left open. *)

StalenessRecent ==
    /\ Probing /\ boot = "live" /\ Idle
    /\ health = "stale"
    /\ health' = "healthy"
    /\ UNCHANGED <<apiVars, boot, conn, syncVars, foldVars, attempts,
                   checkpointVars, probe, restarts>>

StalenessProbe ==
    /\ Probing /\ boot = "live" /\ Idle
    /\ health \in {"healthy", "stale"}
    /\ probe' = TRUE
    /\ UNCHANGED <<apiVars, boot, conn, syncVars, foldVars, health, attempts,
                   checkpointVars, restarts>>

StalenessVerdict(alive) ==
    /\ probe /\ Idle
    /\ probe' = FALSE
    /\ health' = IF alive THEN health ELSE "stale"
    /\ UNCHANGED <<apiVars, boot, conn, syncVars, foldVars, attempts,
                   checkpointVars, restarts>>

-----------------------------------------------------------------------------
Init ==
    /\ DispatcherInit
    /\ req = [s \in Slots |-> NoRequest]
    /\ boot = "off" /\ conn = "down"
    /\ queue = <<>> /\ mutex = "free" /\ pending = NoEnvelope
    /\ loop = "none" /\ work = <<>>
    /\ state = <<>> /\ expected = 0 /\ seen = {} /\ threw = -1
    /\ health = "initializing" /\ attempts = 0
    /\ hashing = {} /\ saved = NoCheckpoint
    /\ probe = FALSE /\ restarts = 0

ServeStep == \E s \in Slots : Serve(s) /\ UNCHANGED clientVars
FailStep == \E s \in Slots : RequestFails(s) /\ UNCHANGED clientVars

Next ==
    \/ EmitStep /\ UNCHANGED clientVars
    \/ FanOutStep
    \/ ServeStep
    \/ FailStep
    \/ \E usable \in BOOLEAN : Start(usable)
    \/ ResumeReply
    \/ HydrateReply
    \/ Stop
    \/ Reload
    \/ OnOwnEnvelope
    \/ OnForeignEnvelope
    \/ HandleDuplicateOrApply
    \/ HandleGap
    \/ PlanReply
    \/ ResyncReply
    \/ LoopApply
    \/ LoopThrows
    \/ LoopDone
    \/ CheckpointBegin
    \/ \E s \in hashing : CheckpointSave(s)
    \/ SocketOpen
    \/ SocketClose
    \/ StalenessRecent
    \/ StalenessProbe
    \/ \E alive \in BOOLEAN : StalenessVerdict(alive)

\* Both event loops run what is ready: a server handler and an emission end, a
\* request gets a reply (or an error: fetch rejects), the client runs the
\* continuation of a reply and finishes its loops.  Nothing is assumed of the
\* network, of the engine's emissions or of the user.
Fairness ==
    /\ WF_vars(\E t \in Tasks :
                 (Persist(t) \/ EmitFails(t)) /\ UNCHANGED <<req, clientVars>>)
    /\ \A s \in Slots :
         WF_vars((Serve(s) \/ RequestFails(s)) /\ UNCHANGED clientVars)
    /\ WF_vars(ResumeReply \/ HydrateReply)
    /\ WF_vars(PlanReply \/ ResyncReply)
    /\ WF_vars(LoopApply \/ LoopThrows \/ LoopDone)

Spec == Init /\ [][Next]_vars /\ Fairness

-----------------------------------------------------------------------------
(* Properties *)

\* Type invariant of the client.
ClientTypeOK ==
    /\ boot \in {"off", "resuming", "catchup", "hydrating", "live", "dead"}
    /\ conn \in {"down", "connecting", "open"}
    /\ queue \in Seq(AnyEnvelope)
    /\ mutex \in {"free", "plan", "resync", "replay"}
    /\ pending \in AnyEnvelope \cup {NoEnvelope}
    /\ loop \in {"none", "recover", "catchup"}
    /\ work \in Seq(AnyEnvelope)
    /\ state \in Seq(Entry)
    /\ expected \in 0..(MaxSequence + 1)
    /\ seen \subseteq AnyEnvelope
    /\ threw \in -1..MaxSequence
    /\ health \in Healths
    /\ attempts \in 0..MaxRecoveryAttempts
    /\ hashing \subseteq Seq(Entry)
    /\ saved \in [sequence : -1..MaxSequence, state : Seq(Entry),
                   present : BOOLEAN]
    /\ probe \in BOOLEAN
    /\ restarts \in 0..MaxRestarts

StoredEnvelope(e) == \E i \in 1..Len(persisted) : persisted[i] = e

\* q was hydrated from a snapshot, whose summary it begins with.
Hydrated(q) == q # <<>> /\ q[1].kind = "summary"

\* The projection is an ordered fold of persisted events, on top of at most one
\* summary of the log before them: no event is applied twice, none out of order,
\* none that the summary already stands for, none that was never stored, and
\* none at or above the number expected next.  Live delivery, replay, the
\* pending envelope, snapshots and checkpoints written while envelopes are
\* applied all feed the same state (LiveProjection.ts: onEnvelope, recover,
\* checkpoint, tryResumeFromCheckpoint; the checkpoint reads the state before
\* the number, never the other way round).
StateIsOrderedFold ==
    /\ \A i, j \in 1..Len(state) : i < j => state[i].sequence < state[j].sequence
    /\ \A i \in 1..Len(state) :
         /\ state[i].sequence < expected
         /\ StoredEnvelope(state[i]) \/ (i = 1 /\ Hydrated(state))

\* Never silently advances past a gap: every stored domain event numbered
\* below the one expected next has been folded into the projection, unless the
\* snapshot it was hydrated from was taken at or beyond that number
\* (LiveProjection.ts, class comment; recover, hydrateFromSnapshot).
NoSilentSkip ==
    \A i \in 1..Len(persisted) :
        persisted[i].kind = "domain" /\ persisted[i].sequence < expected
            => \/ \E j \in 1..Len(state) : state[j] = persisted[i]
               \/ Hydrated(state) /\ persisted[i].sequence <= state[1].sequence

\* A snapshot stands for the log up to its number: the event stored under that
\* number is the one the summary names (observation_routes.py, snapshot: AM-4
\* "current materialized state + its sequence").
SnapshotNamesLastEvent ==
    Hydrated(state) =>
        \A i \in 1..Len(persisted) :
            persisted[i].sequence = state[1].sequence => state[1].last = persisted[i]

\* The duplicate guard never hides an envelope the tracker still wants: every
\* remembered id lies below the expected number, so the guard rejects nothing
\* the tracker would not reject, whatever the guard's capacity makes it forget
\* (GapDetector.evaluate, DuplicateGuard, hydrateFromSnapshot's reset).
GuardAgreesWithTracker == \A e \in seen : e.sequence < expected

\* The consistency point of a recovery answer jumps over holes only: no event
\* stored by then has a number between the request's `after` (the number before
\* the one the waiting client expects) and the point it is told to adopt
\* (observation_routes.py, recover_state; RecoveryCoordinator.plan).
ConsistencySkipsOnlyHoles ==
    mutex = "plan" /\ req["recover"].at = "reply" /\ req["recover"].outcome = "ok"
        => \A i \in 1..Len(persisted) :
              persisted[i].sequence >= expected
                  => persisted[i].sequence > req["recover"].sequence

\* A projection that has used up its recovery attempts says so: it is reported
\* desynchronized until something replaces its state, through disconnects and
\* reconnects (recover, onLifecycle).
ExhaustionIsReported ==
    attempts = MaxRecoveryAttempts /\ mutex = "free" => health = "desynchronized"

\* A projection whose reducer has thrown on the event it expects is reported
\* desynchronized (applyEnvelope's catch block).
ReducerFailureIsReported ==
    (Idle /\ mutex = "free" /\ boot = "live" /\ threw = expected)
        => health = "desynchronized"

\* While one start() is in effect the expected number never moves back
\* (SequenceTracker.setFromConsistencyPoint and its callers).
NeverRewinds ==
    [][boot' = boot \/ (boot # "off" /\ boot' # "off") => expected' >= expected]_vars

\* Only events of the projection's own stream are folded into it: sequence
\* numbers are compared within one stream (GapDetector.evaluate, onEnvelope).
OnlyOwnStream == \A i \in 1..Len(state) : state[i].kind # "foreign"

\* The mutex is always released again: no envelope handler keeps it forever,
\* through failed, exhausted and late replies, a resync that fails, and a replay
\* that a hole or a throwing reducer makes discontinuous (onEnvelope, recover).
MutexIsReleased == (mutex # "free") ~> (mutex = "free")

\* start() settles: it ends subscribed, rejected, or cut short by a reload,
\* through resume, catch-up, discontinuity and the snapshot fallback (start,
\* tryResumeFromCheckpoint, hydrateFromSnapshot).
StartSettles ==
    (boot \in {"resuming", "catchup", "hydrating"}) ~> (boot \in {"live", "dead", "off"})
=============================================================================
