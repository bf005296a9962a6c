------------------------ MODULE LiveProjectionProofs ------------------------
(***************************************************************************)
(* Proofs about LiveProjection, for every set of emitting tasks, every     *)
(* window, limit and bound.  The type invariant holds for all constants;   *)
(* the theorems about the projected state hold for a client that is not    *)
(* restarted over its own callbacks and whose socket carries its own       *)
(* stream only (Disciplined).                                              *)
(***************************************************************************)
EXTENDS LiveProjection, EventDispatcherProofs

-----------------------------------------------------------------------------
(* The inductive invariants. *)

\* What a request record holds in each of its phases (observation_routes.py,
\* httpClient.ts).
RequestOK(r) ==
    /\ r.at \in {"none", "sent", "read", "reply"}
    /\ r.at \in {"sent", "read"} =>
         r.kind \in {"snapshot", "state"} /\ r.after \in -1..MaxSequence
    /\ r.at = "read" => r.current \in 0..MaxSequence
    /\ r.at = "reply" => r.outcome \in {"ok", "notFound", "exhausted", "error"}
    /\ r.at = "reply" /\ r.outcome = "ok" =>
         /\ r.sequence \in -1..MaxSequence
         /\ r.state \in Seq(Entry)
         /\ r.events \in Seq(Envelope)

\* The type invariant with what it needs of the dispatcher, of the requests and
\* of the envelope a recovery is about.
TypeInv ==
    /\ DispatcherInv
    /\ DOMAIN req = Slots
    /\ \A s \in Slots : RequestOK(req[s])
    /\ ClientTypeOK
    /\ mutex # "free" => pending \in AnyEnvelope

\* The client's owner awaits stop() before start(), and the socket carries one
\* stream.
Disciplined == ~OverlapRestart /\ ~SharedSocket

\* Who waits for a reply in a slot.
Waiting(s) ==
    IF s = "start" THEN boot \in {"resuming", "hydrating"}
    ELSE mutex \in {"plan", "resync"}

\* start() and the envelope handlers exclude each other, and a request is open
\* only while somebody waits for it.
Phases ==
    /\ boot \in {"resuming", "catchup", "hydrating"} => mutex = "free" /\ queue = <<>>
    /\ loop = "catchup" <=> boot = "catchup"
    /\ loop = "recover" <=> mutex = "replay"
    /\ \A s \in Slots : req[s].at # "none" => Waiting(s)

\* e is in a log; all of q is; q is an ordered fold of it below `next`, on top of
\* a summary perhaps; every domain event of the log below `next` is in q or at
\* most as high as the summary that q begins with.
In(log, e) == \E i \in 1..Len(log) : log[i] = e

AllIn(log, q) == \A i \in 1..Len(q) : In(log, q[i])

Folds(log, q, next) ==
    /\ Ascending(q)
    /\ \A i \in 1..Len(q) :
         /\ q[i].sequence \in Int /\ q[i].sequence < next
         /\ In(log, q[i]) \/ (i = 1 /\ Hydrated(q))

Covers(q, e) == Hydrated(q) /\ e.sequence <= q[1].sequence

Holds(log, q, next) ==
    \A n \in 1..Len(log) :
        log[n].kind = "domain" /\ log[n].sequence < next
            => In(q, log[n]) \/ Covers(q, log[n])

\* No emission is between its allocation and its persist().
Quiet == \A t \in Tasks : pc[t] # "allocated"

\* What a request record knows of a log whose last allocated number is `last`
\* and of a client that expects `next`.
Knows(r, log, last, quiet, next) ==
    /\ r.at \in {"sent", "read"} /\ r.kind = "state" => r.after = next - 1
    /\ r.at = "read" =>
         /\ next - 1 <= r.current /\ r.current <= last
         /\ r.kind = "state" => r.current - r.after <= ReplayLimit
         /\ ~Durable => r.current = last /\ quiet
    /\ r.at = "reply" /\ r.outcome = "ok" =>
         /\ next - 1 <= r.sequence /\ r.sequence <= last
         /\ Folds(log, r.state, r.sequence + 1)
         /\ AllIn(log, r.events)

RequestsKnow ==
    \A s \in Slots : Knows(req[s], persisted, counter, Quiet, expected)

\* What reaches the client is stored, and so is what it keeps.
ClientHoldsStored ==
    /\ AllIn(persisted, queue) /\ AllIn(persisted, work)
    /\ Folds(persisted, state, expected)
    /\ Folds(persisted, saved.state, saved.sequence + 1)
    /\ \A q \in hashing : Folds(persisted, q, expected)

\* The client is not ahead of the sequence authority.
NotAhead == expected <= counter + 1 /\ saved.sequence <= counter

\* A recovery is about a stored envelope, which is beyond the expected one while
\* the plan is open.
PlanInv ==
    /\ mutex # "free" => In(persisted, pending)
    /\ mutex = "plan" => pending.sequence > expected
    /\ mutex = "plan" /\ req["recover"].at \in {"sent", "read"}
         => req["recover"].kind = "state"

SyncInv ==
    /\ TypeInv
    /\ Phases
    /\ NotAhead
    /\ ClientHoldsStored
    /\ RequestsKnow
    /\ PlanInv
    /\ GuardAgreesWithTracker
    /\ ConsistencySkipsOnlyHoles

\* The slots in which a snapshot is awaited.
AwaitsSnapshot(s) ==
    IF s = "start" THEN boot = "hydrating" ELSE mutex = "resync"

\* A summary at the head of q stands for the number n.
Reaches(q, n) == Hydrated(q) /\ n <= q[1].sequence

\* Without checkpoints: nothing stored, and nothing that is about to be stored, is
\* skipped.
SkipInv ==
    /\ saved.present = FALSE /\ hashing = {}
    /\ ~Quiet => expected <= counter \/ Reaches(state, counter)
    /\ Holds(persisted, state, expected)
    /\ \A s \in Slots :
         /\ AwaitsSnapshot(s) /\ req[s].at \in {"sent", "read"}
              => req[s].kind = "snapshot"
         /\ AwaitsSnapshot(s) /\ req[s].at = "reply" /\ req[s].outcome = "ok"
              => /\ Hydrated(req[s].state)
                 /\ req[s].state[1].sequence = req[s].sequence

\* One session, and no staleness monitor.
SingleSession == MaxRestarts = 0 /\ ~Probing

\* No attempt is used before the projection is live, and nothing but a recovery
\* runs its loop.
ExhaustionInv ==
    /\ ExhaustionIsReported
    /\ probe = FALSE
    /\ boot \in {"off", "resuming", "catchup", "hydrating"} =>
         attempts = 0 /\ queue = <<>> /\ mutex = "free"
    /\ loop = "recover" => mutex = "replay"
    /\ loop = "catchup" => boot = "catchup"

-----------------------------------------------------------------------------
(* Steps of the server. *)

\* Seen from the dispatcher, the client's steps are steps of the socket or none:
\* LiveProjection composes EventDispatcher without adding behaviour to it.
LEMMA StepOfDispatcher == [Next]_vars => [DispatcherNext]_dispatcherVars
<1> SUFFICES ASSUME [Next]_vars PROVE [DispatcherNext]_dispatcherVars
  OBVIOUS
<1>1. ASSUME NEW gone \in SUBSET net, Leave(gone)
      PROVE  [DispatcherNext]_dispatcherVars
  <2>1. CASE gone = {}
    BY <1>1, <2>1 DEF Leave, dispatcherVars
  <2>2. CASE gone # {}
    BY <1>1, <2>2 DEF DispatcherNext
  <2> QED BY <2>1, <2>2
<1>2. CASE EmitStep
  BY <1>2 DEF EmitStep, DispatcherNext
<1>3. CASE FanOutStep
  BY <1>3 DEF FanOutStep, DispatcherNext
<1>4. CASE Stop \/ Reload \/ OnOwnEnvelope \/ SocketClose
  BY <1>1, <1>4 DEF Stop, Reload, OnOwnEnvelope, SocketClose
<1>5. CASE UNCHANGED dispatcherVars
  BY <1>5
<1>6. CASE UNCHANGED apiVars
  BY <1>6 DEF apiVars, dispatcherVars
<1>7. CASE UNCHANGED vars
  BY <1>6, <1>7 DEF vars
<1> QED BY <1>2, <1>3, <1>4, <1>5, <1>6, <1>7
     DEF Next, ServeStep, FailStep, Serve, ReadCurrent, AnswerSnapshot,
         AnswerState, RequestFails, Start, ResumeReply, HydrateReply,
         OnForeignEnvelope, HandleDuplicateOrApply, HandleGap, PlanReply,
         ResyncReply, LoopApply, LoopThrows, LoopDone, CheckpointBegin,
         CheckpointSave, SocketOpen, StalenessRecent, StalenessProbe,
         StalenessVerdict

\* The four things that a step of a request can bring: the number read first, a
\* failure, a snapshot, a replay.
GotCurrent(s) ==
    /\ req[s].at = "sent" /\ req'[s].at = "read"
    /\ req'[s].kind = req[s].kind /\ req'[s].after = req[s].after
    /\ req'[s].current = counter /\ counter >= 0
    /\ req[s].kind = "state" => counter - req[s].after <= ReplayLimit
    /\ ~Durable => \A t \in Tasks : pc[t] # "allocated"

GotFailure(s) ==
    /\ req[s].at \in {"sent", "read"} /\ req'[s].at = "reply"
    /\ req'[s].outcome \in {"notFound", "exhausted", "error"}

GotSnapshot(s) ==
    /\ req[s].at = "read" /\ req[s].kind = "snapshot"
    /\ req'[s].at = "reply" /\ req'[s].outcome = "ok"
    /\ req'[s].sequence = req[s].current
    /\ req'[s].state = Materialize(req[s].current)
    /\ req'[s].events = <<>>

GotReplay(s, events) ==
    /\ req[s].at = "read" /\ req[s].kind = "state"
    /\ events = ReplayAfter(req[s].after, ReplayLimit)
    /\ req'[s].at = "reply" /\ req'[s].outcome = "ok"
    /\ req'[s].sequence = IF events = <<>> THEN req[s].current
                          ELSE events[1].sequence - 1
    /\ req'[s].state = Materialize(req'[s].sequence)
    /\ req'[s].events = events

\* A step of the request in slot s brings one of these and touches nothing else
\* (observation_routes.py, snapshot and recover_state; httpClient.ts, get).
LEMMA RequestStep ==
    ASSUME TypeInv, NEW s \in Slots, Serve(s) \/ RequestFails(s)
    PROVE  /\ UNCHANGED dispatcherVars
           /\ DOMAIN req' = Slots
           /\ \A r \in Slots : r # s => req'[r] = req[r]
           /\ \/ GotCurrent(s)
              \/ GotFailure(s)
              \/ GotSnapshot(s)
              \/ \E events : GotReplay(s, events)
<1>0. /\ DOMAIN req = Slots
      /\ counter \in Int
      /\ ReplayLimit \in Int
      /\ req[s].at = "sent" => req[s].after \in Int
  BY ReplayLimitAssumption DEF TypeInv, RequestOK, DispatcherInv, DispatcherTypeOK
<1>1. CASE ReadCurrent(s)
  <2>1. /\ UNCHANGED dispatcherVars
        /\ DOMAIN req' = Slots
        /\ \A r \in Slots : r # s => req'[r] = req[r]
    BY <1>0, <1>1 DEF ReadCurrent
  <2>2. req'[s] = IF Current < 0 THEN Failure("notFound")
                  ELSE IF req[s].kind = "state" /\ Current - req[s].after > ReplayLimit
                  THEN Failure("exhausted")
                  ELSE [at |-> "read", kind |-> req[s].kind,
                        after |-> req[s].after, current |-> Current]
    BY <1>0, <1>1 DEF ReadCurrent
  <2>3. GotCurrent(s) \/ GotFailure(s)
    BY <1>0, <1>1, <2>2 DEF ReadCurrent, NoEmissionInside, GotCurrent,
       GotFailure, Failure, Current
  <2> QED BY <2>1, <2>3
<1>2. CASE AnswerSnapshot(s)
  <2>1. /\ UNCHANGED dispatcherVars
        /\ DOMAIN req' = Slots
        /\ \A r \in Slots : r # s => req'[r] = req[r]
        /\ req'[s] = Success(req[s].current, Materialize(req[s].current), <<>>)
    BY <1>0, <1>2 DEF AnswerSnapshot
  <2>2. GotSnapshot(s)
    BY <1>2, <2>1 DEF AnswerSnapshot, GotSnapshot, Success
  <2> QED BY <2>1, <2>2
<1>3. CASE AnswerState(s)
  <2> DEFINE events == ReplayAfter(req[s].after, ReplayLimit)
             point == IF events = <<>> THEN req[s].current
                      ELSE events[1].sequence - 1
  <2>1. /\ UNCHANGED dispatcherVars
        /\ DOMAIN req' = Slots
        /\ \A r \in Slots : r # s => req'[r] = req[r]
        /\ req'[s] = Success(point, Materialize(point), events)
    BY <1>0, <1>3 DEF AnswerState
  <2>2. GotReplay(s, events)
    <3> HIDE DEF events
    <3>1. events = ReplayAfter(req[s].after, ReplayLimit)
      BY DEF events
    <3> QED BY <1>3, <2>1, <3>1 DEF AnswerState, GotReplay, Success
  <2> QED BY <2>1, <2>2
<1>4. CASE RequestFails(s)
  BY <1>0, <1>4 DEF RequestFails, GotFailure, Failure
<1> QED BY <1>1, <1>2, <1>3, <1>4 DEF Serve

\* The materialized state is one summary, of the number it was asked for
\* (observation_routes.py, _materialize_state).
LEMMA MaterializeFacts ==
    ASSUME DispatcherInv, NEW through \in -1..MaxSequence
    PROVE  /\ Materialize(through) \in Seq(Entry)
           /\ Hydrated(Materialize(through))
           /\ Materialize(through)[1].sequence = through
           /\ Folds(persisted, Materialize(through), through + 1)
<1> DEFINE tail == ReplayAfter(through - 1, 1)
           last == IF tail # <<>> /\ tail[1].sequence = through
                   THEN tail[1] ELSE NoEnvelope
           summary == [sequence |-> through, kind |-> "summary", last |-> last]
<1>1. MaxSequence \in Nat /\ through \in Int
  BY WindowAssumption
<1>2. tail \in Seq(Envelope)
  BY <1>1, ReplayFacts
<1>3. last \in Envelope \cup {NoEnvelope}
  <2> HIDE DEF tail
  <2>1. tail # <<>> => tail[1] \in Envelope
    BY <1>2
  <2> QED BY <2>1
<1>4. Materialize(through) = <<summary>>
  BY DEF Materialize
<1> HIDE DEF last
<1>5. summary \in Entry /\ summary.sequence = through /\ summary.kind = "summary"
  BY <1>3 DEF Entry, Summary
<1> HIDE DEF summary
<1>6. /\ <<summary>> \in Seq(Entry) /\ Len(<<summary>>) = 1
      /\ <<summary>>[1] = summary /\ <<summary>> # <<>>
  BY <1>5
<1>7. Hydrated(<<summary>>)
  BY <1>5, <1>6 DEF Hydrated
<1>8. Folds(persisted, <<summary>>, through + 1)
  <2>1. Ascending(<<summary>>)
    BY <1>6 DEF Ascending
  <2>2. \A i \in 1..Len(<<summary>>) : i = 1
    BY <1>6
  <2> QED BY <1>1, <1>5, <1>6, <1>7, <2>1, <2>2 DEF Folds
<1> QED BY <1>4, <1>5, <1>6, <1>7, <1>8

-----------------------------------------------------------------------------
(* The type invariant. *)

\* The assumptions on the constants, one by one.
LEMMA ConstantFacts ==
    /\ "start" \in Slots /\ "recover" \in Slots
    /\ Slots = {"start", "recover"}
    /\ MaxSequence \in Nat
    /\ MaxRecoveryAttempts \in Nat /\ MaxRecoveryAttempts > 0
    /\ MaxRestarts \in Nat
    /\ Checkpointing \in BOOLEAN /\ Probing \in BOOLEAN
    /\ \A n \in Poison : n \in 0..MaxSequence
<1>1. MaxRestarts \in {MaxHashing, MaxQueue, MaxRestarts}
  OBVIOUS
<1>2. Checkpointing \in {Checkpointing, Probing, SharedSocket, OverlapRestart}
      /\ Probing \in {Checkpointing, Probing, SharedSocket, OverlapRestart}
  OBVIOUS
<1>3. MaxRestarts \in Nat
  BY <1>1, ClientAssumption
<1>4. Checkpointing \in BOOLEAN /\ Probing \in BOOLEAN
  BY <1>2, ClientAssumption
<1> QED BY <1>3, <1>4, ClientAssumption, WindowAssumption

\* The requests the client sends are well formed (httpClient.ts, fetch, recover).
LEMMA NewRequests ==
    /\ RequestOK(NoRequest)
    /\ RequestOK(SnapshotRequest)
    /\ \A n \in -1..MaxSequence : RequestOK(StateRequest(n))
  BY WindowAssumption
     DEF RequestOK, NoRequest, SnapshotRequest, StateRequest

\* The server's answers are well formed.
LEMMA RequestStepType ==
    ASSUME TypeInv, NEW s \in Slots, Serve(s) \/ RequestFails(s)
    PROVE  RequestOK(req'[s])
<1>1. /\ DispatcherInv
      /\ RequestOK(req[s])
      /\ counter \in -1..MaxSequence
  BY DEF TypeInv, DispatcherInv, DispatcherTypeOK
<1>2. CASE GotCurrent(s)
  BY <1>1, <1>2 DEF GotCurrent, RequestOK
<1>3. CASE GotFailure(s)
  BY <1>3 DEF GotFailure, RequestOK
<1>4. CASE GotSnapshot(s)
  <2>1. req[s].current \in 0..MaxSequence /\ req[s].current \in Int
    BY <1>1, <1>4, WindowAssumption DEF GotSnapshot, RequestOK
  <2>2. Materialize(req[s].current) \in Seq(Entry)
    <3>1. req[s].current \in -1..MaxSequence
      BY <2>1
    <3> QED BY <1>1, <3>1, MaterializeFacts
  <2> QED BY <1>4, <2>1, <2>2, WindowAssumption DEF GotSnapshot, RequestOK
<1>5. ASSUME NEW events, GotReplay(s, events)
      PROVE  RequestOK(req'[s])
  <2>1. /\ req[s].current \in 0..MaxSequence
        /\ req[s].after \in Int
        /\ ReplayLimit \in Nat \ {0}
        /\ MaxSequence \in Nat
    BY <1>1, <1>5, WindowAssumption, ReplayLimitAssumption
       DEF GotReplay, RequestOK
  <2>2. events \in Seq(Envelope)
    BY <1>1, <1>5, <2>1, ReplayFacts DEF GotReplay
  <2>3. req'[s].sequence \in -1..MaxSequence
    <3>1. CASE events = <<>>
      BY <1>5, <2>1, <3>1 DEF GotReplay
    <3>2. CASE events # <<>>
      <4>1. events[1] \in Envelope
        BY <2>2, <3>2
      <4>2. events[1].sequence \in 0..MaxSequence
        BY <4>1 DEF Envelope
      <4> QED BY <1>5, <2>1, <3>2, <4>2 DEF GotReplay
    <3> QED BY <3>1, <3>2
  <2>4. req'[s].state \in Seq(Entry)
    <3>1. Materialize(req'[s].sequence) \in Seq(Entry)
      BY <1>1, <2>3, MaterializeFacts
    <3> QED BY <1>5, <3>1 DEF GotReplay
  <2> QED BY <1>5, <2>2, <2>3, <2>4 DEF GotReplay, RequestOK
<1> QED BY <1>2, <1>3, <1>4, <1>5, RequestStep

\* Numbers and kinds of the envelopes a client may meet.
LEMMA EnvelopeFacts ==
    /\ Envelope \subseteq AnyEnvelope /\ AnyEnvelope \subseteq Entry
    /\ \A e \in AnyEnvelope : e.sequence \in 0..MaxSequence
    /\ \A e \in Envelope : e.sequence \in 0..MaxSequence /\ e.kind \in Kinds
  BY DEF AnyEnvelope, Envelope, Foreign, Entry

\* Applying the expected envelope keeps the projection's types (LiveProjection.ts,
\* applyEnvelope).
LEMMA ApplyType ==
    ASSUME ClientTypeOK, NEW e \in AnyEnvelope, Verdict(e) = "apply",
           ApplyEnvelope(e)
    PROVE  /\ state' \in Seq(Entry)
           /\ expected' \in 0..(MaxSequence + 1)
           /\ seen' \subseteq AnyEnvelope
           /\ threw' \in -1..MaxSequence
           /\ health' \in Healths
<1>1. e.sequence \in 0..MaxSequence /\ e.sequence = expected
  BY EnvelopeFacts DEF Verdict
<1>e. e \in Entry
  BY EnvelopeFacts
<1>2. /\ state \in Seq(Entry) /\ Append(state, e) \in Seq(Entry)
      /\ seen \subseteq AnyEnvelope
      /\ threw \in -1..MaxSequence
      /\ health \in Healths /\ Touched \in Healths /\ "desynchronized" \in Healths
  BY <1>e DEF ClientTypeOK, Touched, Healths
<1>3. expected + 1 \in 0..(MaxSequence + 1) /\ expected \in 0..(MaxSequence + 1)
      /\ e.sequence \in -1..MaxSequence
  BY <1>1, WindowAssumption
<1> QED BY <1>1, <1>2, <1>3 DEF ApplyEnvelope

\* A client that has not been started, beside a server that has emitted nothing.
LEMMA TypeInit == Init => TypeInv
<1> SUFFICES ASSUME Init PROVE TypeInv
  OBVIOUS
<1>1. DispatcherInv
  BY InitEstablishesInv DEF Init
<1>2. DOMAIN req = Slots /\ \A s \in Slots : RequestOK(req[s])
  BY NewRequests DEF Init
<1>3. ClientTypeOK
  <2>1. saved \in [sequence : -1..MaxSequence, state : Seq(Entry),
                   present : BOOLEAN]
    BY ConstantFacts DEF Init, NoCheckpoint
  <2>2. /\ queue \in Seq(AnyEnvelope) /\ work \in Seq(AnyEnvelope)
        /\ state \in Seq(Entry)
    BY DEF Init
  <2>3. /\ expected \in 0..(MaxSequence + 1) /\ threw \in -1..MaxSequence
        /\ attempts \in 0..MaxRecoveryAttempts /\ restarts \in 0..MaxRestarts
    BY ConstantFacts DEF Init
  <2>4. seen \subseteq AnyEnvelope /\ hashing \subseteq Seq(Entry)
    BY DEF Init
  <2>5. health \in Healths
    BY DEF Init, Healths
  <2> QED BY <2>1, <2>2, <2>3, <2>4, <2>5 DEF Init, ClientTypeOK
<1> QED BY <1>1, <1>2, <1>3 DEF Init, TypeInv

\* What the steps of the client add to the dispatcher's invariant.
ClientTyped ==
    /\ DOMAIN req = Slots
    /\ \A s \in Slots : RequestOK(req[s])
    /\ ClientTypeOK
    /\ mutex # "free" => pending \in AnyEnvelope

\* Every step of the client, of the server and of the network keeps the types.
LEMMA TypeStep == TypeInv /\ [Next]_vars => TypeInv'
<1> SUFFICES ASSUME TypeInv, [Next]_vars PROVE TypeInv'
  OBVIOUS
<1> USE ConstantFacts
<1>d. DispatcherInv'
  BY StepOfDispatcher, NextPreservesInv DEF TypeInv
<1> SUFFICES ClientTyped'
  BY <1>d DEF TypeInv, ClientTyped
<1>t. ClientTyped
  BY DEF TypeInv, ClientTyped
<1>net. net \subseteq Envelope
  BY DEF TypeInv, DispatcherInv, DispatcherTypeOK
<1>1. CASE UNCHANGED <<req, clientVars>>
  BY <1>1, <1>t DEF ClientTyped, ClientTypeOK, clientVars
<1>2. ASSUME NEW s \in Slots, Serve(s) \/ RequestFails(s), UNCHANGED clientVars
      PROVE  ClientTyped'
  <2>1. ClientTypeOK' /\ (mutex' # "free" => pending' \in AnyEnvelope)
    BY <1>2, <1>t DEF ClientTyped, ClientTypeOK, clientVars
  <2>2. DOMAIN req' = Slots /\ \A r \in Slots : RequestOK(req'[r])
    BY <1>2, <1>t, RequestStep, RequestStepType DEF ClientTyped
  <2> QED BY <2>1, <2>2 DEF ClientTyped
<1>3. ASSUME NEW usable \in BOOLEAN, Start(usable)
      PROVE  ClientTyped'
  <2>1. DOMAIN req' = Slots /\ \A r \in Slots : RequestOK(req'[r])
    <3>1. saved.sequence \in -1..MaxSequence
      BY <1>t DEF ClientTyped, ClientTypeOK
    <3> QED BY <1>3, <1>t, <3>1, NewRequests DEF Start, ClientTyped
  <2>2. ClientTypeOK' /\ (mutex' # "free" => pending' \in AnyEnvelope)
    <3>1. /\ saved.sequence + 1 \in 0..(MaxSequence + 1)
          /\ saved.state \in Seq(Entry)
      <4>1. saved.sequence \in -1..MaxSequence /\ saved.state \in Seq(Entry)
        BY <1>t DEF ClientTyped, ClientTypeOK
      <4> QED BY <4>1
    <3>2. saved' \in [sequence : -1..MaxSequence, state : Seq(Entry),
                      present : BOOLEAN]
      <4>1. NoCheckpoint \in [sequence : -1..MaxSequence, state : Seq(Entry),
                              present : BOOLEAN]
        BY DEF NoCheckpoint
      <4> QED BY <1>3, <1>t, <4>1 DEF Start, ClientTyped, ClientTypeOK
    <3>3. UNCHANGED <<conn, queue, mutex, pending, loop, work, attempts, hashing,
                      probe, restarts>>
      BY <1>3 DEF Start, syncVars
    <3>4. /\ boot' \in {"off", "resuming", "catchup", "hydrating", "live", "dead"}
          /\ health' \in Healths
          /\ state' \in Seq(Entry)
          /\ expected' \in 0..(MaxSequence + 1)
          /\ seen' \subseteq AnyEnvelope
          /\ threw' \in -1..MaxSequence
      BY <1>3, <1>t, <3>1
         DEF Start, foldVars, Healths, ClientTyped, ClientTypeOK
    <3> QED BY <1>t, <3>2, <3>3, <3>4 DEF ClientTyped, ClientTypeOK
  <2> QED BY <2>1, <2>2 DEF ClientTyped
<1>4. CASE ResumeReply
  <2>1. DOMAIN req' = Slots /\ \A r \in Slots : RequestOK(req'[r])
    BY <1>4, <1>t, NewRequests DEF ResumeReply, ClientTyped
  <2>2. req["start"].outcome = "ok" => req["start"].events \in Seq(AnyEnvelope)
    BY <1>4, <1>t, EnvelopeFacts DEF ResumeReply, ClientTyped, RequestOK
  <2>3. UNCHANGED <<conn, queue, mutex, pending, state, expected, seen, threw,
                    health, attempts, hashing, saved, probe, restarts>>
    BY <1>4 DEF ResumeReply, foldVars, checkpointVars
  <2> QED BY <1>4, <1>t, <2>1, <2>2, <2>3
       DEF ResumeReply, ClientTyped, ClientTypeOK
<1>5. CASE HydrateReply
  <2>1. DOMAIN req' = Slots /\ \A r \in Slots : RequestOK(req'[r])
    BY <1>5, <1>t, NewRequests DEF HydrateReply, ClientTyped
  <2>2. req["start"].outcome = "ok" =>
          /\ req["start"].state \in Seq(Entry)
          /\ req["start"].sequence + 1 \in 0..(MaxSequence + 1)
    <3>1. RequestOK(req["start"]) /\ req["start"].at = "reply"
      BY <1>5, <1>t DEF HydrateReply, ClientTyped
    <3> QED BY <3>1, EnvelopeFacts DEF RequestOK
  <2>3. UNCHANGED <<queue, mutex, pending, loop, work, attempts, hashing, saved,
                    probe, restarts>>
    BY <1>5 DEF HydrateReply, syncVars, checkpointVars
  <2>4. health' \in Healths
    BY <1>5, <1>t DEF HydrateReply, GoLive, Touched, ClientTyped, ClientTypeOK,
       Healths
  <2> QED BY <1>5, <1>t, <2>1, <2>2, <2>3, <2>4
       DEF HydrateReply, AdoptSnapshot, GoLive, foldVars, ClientTyped, ClientTypeOK
<1>6. CASE Stop
  <2>1. UNCHANGED <<req, queue, mutex, pending, loop, work, state, expected, seen,
                    threw, health, attempts, saved, probe>>
    BY <1>6 DEF Stop, syncVars, foldVars
  <2>2. hashing' \subseteq Seq(Entry)
    BY <1>6, <1>t DEF Stop, ClientTyped, ClientTypeOK
  <2>3. boot' = "off" /\ conn' = "down" /\ restarts' \in 0..MaxRestarts
    BY <1>6, <1>t DEF Stop, ClientTyped, ClientTypeOK
  <2> QED BY <1>t, <2>1, <2>2, <2>3 DEF ClientTyped, ClientTypeOK
<1>7. CASE Reload
  <2>1. DOMAIN req' = Slots /\ \A r \in Slots : RequestOK(req'[r])
    BY <1>7, NewRequests DEF Reload
  <2>2. restarts' \in 0..MaxRestarts
    BY <1>7, <1>t DEF Reload, ClientTyped, ClientTypeOK
  <2>3. /\ queue' \in Seq(AnyEnvelope) /\ work' \in Seq(AnyEnvelope)
        /\ state' \in Seq(Entry)
    BY <1>7 DEF Reload
  <2>4. saved' \in [sequence : -1..MaxSequence, state : Seq(Entry),
                    present : BOOLEAN]
    BY <1>7, <1>t DEF Reload, ClientTyped, ClientTypeOK
  <2>5. /\ boot' = "off" /\ conn' = "down" /\ mutex' = "free" /\ loop' = "none"
        /\ pending' = NoEnvelope /\ expected' = 0 /\ seen' = {} /\ threw' = -1
        /\ health' = "initializing" /\ attempts' = 0 /\ hashing' = {}
        /\ probe' = FALSE
    BY <1>7 DEF Reload
  <2>6. /\ expected' \in 0..(MaxSequence + 1) /\ threw' \in -1..MaxSequence
        /\ attempts' \in 0..MaxRecoveryAttempts
    BY <2>5
  <2>7. seen' \subseteq AnyEnvelope /\ hashing' \subseteq Seq(Entry)
    BY <2>5
  <2>8. health' \in Healths
    BY <2>5 DEF Healths
  <2> QED BY <2>1, <2>2, <2>3, <2>4, <2>5, <2>6, <2>7, <2>8
       DEF ClientTyped, ClientTypeOK
<1>8. ASSUME NEW e \in AnyEnvelope, OnEnvelope(e)
      PROVE  ClientTyped'
  <2>1. queue' \in Seq(AnyEnvelope)
    BY <1>8, <1>t DEF OnEnvelope, ClientTyped, ClientTypeOK
  <2>2. UNCHANGED <<boot, conn, mutex, pending, loop, work, state, expected, seen,
                    threw, health, attempts, hashing, saved, probe, restarts, req>>
    BY <1>8 DEF OnEnvelope, foldVars, checkpointVars
  <2> QED BY <1>t, <2>1, <2>2 DEF ClientTyped, ClientTypeOK
<1>9. CASE HandleDuplicateOrApply
  <2>1. Head(queue) \in AnyEnvelope /\ queue' \in Seq(AnyEnvelope)
    BY <1>9, <1>t DEF HandleDuplicateOrApply, ClientTyped, ClientTypeOK
  <2>2. UNCHANGED <<boot, conn, mutex, pending, loop, work, attempts, hashing,
                    saved, probe, restarts, req>>
    BY <1>9 DEF HandleDuplicateOrApply, checkpointVars, apiVars
  <2>3. /\ state' \in Seq(Entry)
        /\ expected' \in 0..(MaxSequence + 1)
        /\ seen' \subseteq AnyEnvelope
        /\ threw' \in -1..MaxSequence
        /\ health' \in Healths
    <3>1. CASE UNCHANGED <<foldVars, health>>
      BY <1>t, <3>1 DEF foldVars, ClientTyped, ClientTypeOK
    <3>2. CASE Verdict(Head(queue)) = "apply" /\ ApplyEnvelope(Head(queue))
      BY <1>t, <2>1, <3>2, ApplyType DEF ClientTyped
    <3> QED BY <1>9, <3>1, <3>2 DEF HandleDuplicateOrApply
  <2> QED BY <1>t, <2>1, <2>2, <2>3 DEF ClientTyped, ClientTypeOK
<1>10. CASE HandleGap
  <2>1. Head(queue) \in AnyEnvelope /\ queue' \in Seq(AnyEnvelope)
    BY <1>10, <1>t DEF HandleGap, ClientTyped, ClientTypeOK
  <2>2. UNCHANGED <<boot, conn, loop, work, state, expected, seen, threw, hashing,
                    saved, probe, restarts>>
    BY <1>10 DEF HandleGap, foldVars, checkpointVars
  <2>3. DOMAIN req' = Slots /\ \A r \in Slots : RequestOK(req'[r])
    <3>1. expected - 1 \in -1..MaxSequence
      BY <1>t DEF ClientTyped, ClientTypeOK
    <3> QED BY <1>10, <1>t, <3>1, NewRequests DEF HandleGap, ClientTyped
  <2>4. /\ mutex' \in {"free", "plan", "resync", "replay"}
        /\ pending' \in AnyEnvelope \cup {NoEnvelope}
        /\ health' \in Healths
        /\ attempts' \in 0..MaxRecoveryAttempts
        /\ mutex' # "free" => pending' \in AnyEnvelope
    <3>1. attempts \in 0..MaxRecoveryAttempts /\ health \in Healths
      BY <1>t DEF ClientTyped, ClientTypeOK
    <3>2. CASE attempts >= MaxRecoveryAttempts /\ UNCHANGED <<attempts, mutex, pending>>
               /\ health' = "desynchronized"
      BY <1>t, <3>1, <3>2 DEF ClientTyped, ClientTypeOK, Healths
    <3>3. CASE /\ attempts < MaxRecoveryAttempts /\ attempts' = attempts + 1
               /\ mutex' = "plan" /\ pending' = Head(queue) /\ health' = health
      BY <2>1, <3>1, <3>3
    <3> QED BY <1>10, <3>2, <3>3 DEF HandleGap
  <2> QED BY <1>t, <2>1, <2>2, <2>3, <2>4 DEF ClientTyped, ClientTypeOK
<1>11. CASE PlanReply
  <2>1. DOMAIN req' = Slots /\ \A r \in Slots : RequestOK(req'[r])
    BY <1>11, <1>t, NewRequests DEF PlanReply, ClientTyped
  <2>2. req["recover"].outcome = "ok" =>
          /\ req["recover"].events \in Seq(AnyEnvelope)
          /\ req["recover"].sequence + 1 \in 0..(MaxSequence + 1)
    BY <1>11, <1>t, EnvelopeFacts DEF PlanReply, ClientTyped, RequestOK
  <2>3. req["recover"].outcome = "ok" =>
          Append(req["recover"].events, pending) \in Seq(AnyEnvelope)
    BY <1>11, <1>t, <2>2 DEF PlanReply, ClientTyped
  <2>4. UNCHANGED <<boot, conn, queue, state, seen, threw, hashing, saved, probe,
                    restarts>>
    BY <1>11 DEF PlanReply, foldVars, checkpointVars
  <2>5. /\ mutex' \in {"free", "plan", "resync", "replay"}
        /\ pending' \in AnyEnvelope \cup {NoEnvelope}
        /\ loop' \in {"none", "recover", "catchup"}
        /\ health' \in Healths
        /\ attempts' \in 0..MaxRecoveryAttempts
        /\ mutex' # "free" => pending' \in AnyEnvelope
    BY <1>11, <1>t DEF PlanReply, RecoveryFailed, ClientTyped, ClientTypeOK, Healths
  <2>6. work' \in Seq(AnyEnvelope) /\ expected' \in 0..(MaxSequence + 1)
    BY <1>11, <1>t, <2>2, <2>3 DEF PlanReply, foldVars, ClientTyped, ClientTypeOK
  <2> QED BY <1>t, <2>1, <2>4, <2>5, <2>6 DEF ClientTyped, ClientTypeOK
<1>12. CASE ResyncReply
  <2>1. DOMAIN req' = Slots /\ \A r \in Slots : RequestOK(req'[r])
    BY <1>12, <1>t, NewRequests DEF ResyncReply, ClientTyped
  <2>2. req["recover"].outcome = "ok" =>
          /\ req["recover"].state \in Seq(Entry)
          /\ req["recover"].sequence + 1 \in 0..(MaxSequence + 1)
    BY <1>12, <1>t, EnvelopeFacts DEF ResyncReply, ClientTyped, RequestOK
  <2>3. UNCHANGED <<boot, conn, queue, loop, work, hashing, saved, probe, restarts>>
    BY <1>12 DEF ResyncReply, checkpointVars
  <2>4. /\ mutex' = "free"
        /\ pending' \in AnyEnvelope \cup {NoEnvelope}
        /\ health' \in Healths
        /\ attempts' \in 0..MaxRecoveryAttempts
    BY <1>12, <1>t DEF ResyncReply, RecoverySucceeded, RecoveryFailed,
       ClientTyped, ClientTypeOK, Healths
  <2>5. /\ state' \in Seq(Entry)
        /\ expected' \in 0..(MaxSequence + 1)
        /\ seen' \subseteq AnyEnvelope
        /\ threw' \in -1..MaxSequence
    BY <1>12, <1>t, <2>2 DEF ResyncReply, AdoptSnapshot, foldVars, ClientTyped,
       ClientTypeOK
  <2> QED BY <1>t, <2>1, <2>3, <2>4, <2>5 DEF ClientTyped, ClientTypeOK
<1>13. CASE LoopApply
  <2>1. Head(work) \in AnyEnvelope /\ work' \in Seq(AnyEnvelope)
    BY <1>13, <1>t DEF LoopApply, ClientTyped, ClientTypeOK
  <2>2. UNCHANGED <<boot, conn, queue, mutex, pending, loop, attempts, hashing,
                    saved, probe, restarts, req>>
    BY <1>13 DEF LoopApply, checkpointVars, apiVars
  <2>3. /\ state' \in Seq(Entry)
        /\ expected' \in 0..(MaxSequence + 1)
        /\ seen' \subseteq AnyEnvelope
        /\ threw' \in -1..MaxSequence
        /\ health' \in Healths
    <3>1. CASE UNCHANGED <<foldVars, health>>
      BY <1>t, <3>1 DEF foldVars, ClientTyped, ClientTypeOK
    <3>2. CASE Verdict(Head(work)) = "apply" /\ ApplyEnvelope(Head(work))
      BY <1>t, <2>1, <3>2, ApplyType DEF ClientTyped
    <3> QED BY <1>13, <3>1, <3>2 DEF LoopApply
  <2> QED BY <1>t, <2>1, <2>2, <2>3 DEF ClientTyped, ClientTypeOK
<1>14. CASE LoopThrows
  <2>1. DOMAIN req' = Slots /\ \A r \in Slots : RequestOK(req'[r])
    BY <1>14, <1>t, NewRequests DEF LoopThrows, ClientTyped
  <2>2. UNCHANGED <<conn, queue, state, expected, seen, threw, hashing, saved,
                    probe, restarts>>
    BY <1>14 DEF LoopThrows, foldVars, checkpointVars
  <2> QED BY <1>14, <1>t, <2>1, <2>2
       DEF LoopThrows, RecoveryFailed, ClientTyped, ClientTypeOK, Healths
<1>15. CASE LoopDone
  <2>1. UNCHANGED <<queue, work, state, expected, seen, threw, hashing, saved,
                    probe, restarts, req>>
    BY <1>15 DEF LoopDone, foldVars, checkpointVars, apiVars
  <2> QED BY <1>15, <1>t, <2>1
       DEF LoopDone, RecoverySucceeded, GoLive, ClientTyped, ClientTypeOK, Healths
<1>16. CASE CheckpointBegin
  <2>1. UNCHANGED <<boot, conn, queue, mutex, pending, loop, work, state, expected,
                    seen, threw, health, attempts, saved, probe, restarts, req>>
    BY <1>16 DEF CheckpointBegin, syncVars, foldVars, apiVars
  <2>2. hashing' \subseteq Seq(Entry)
    BY <1>16, <1>t DEF CheckpointBegin, ClientTyped, ClientTypeOK
  <2> QED BY <1>t, <2>1, <2>2 DEF ClientTyped, ClientTypeOK
<1>17. ASSUME NEW q \in hashing, CheckpointSave(q)
       PROVE  ClientTyped'
  <2>1. UNCHANGED <<boot, conn, queue, mutex, pending, loop, work, state, expected,
                    seen, threw, health, attempts, probe, restarts, req>>
    BY <1>17 DEF CheckpointSave, syncVars, foldVars, apiVars
  <2>2. hashing' \subseteq Seq(Entry)
    BY <1>17, <1>t DEF CheckpointSave, ClientTyped, ClientTypeOK
  <2>3. saved' \in [sequence : -1..MaxSequence, state : Seq(Entry),
                    present : BOOLEAN]
    BY <1>17, <1>t DEF CheckpointSave, ClientTyped, ClientTypeOK
  <2> QED BY <1>t, <2>1, <2>2, <2>3 DEF ClientTyped, ClientTypeOK
<1>18. CASE SocketOpen \/ SocketClose \/ StalenessRecent \/ StalenessProbe
            \/ \E alive \in BOOLEAN : StalenessVerdict(alive)
  <2>1. UNCHANGED <<boot, queue, mutex, pending, loop, work, state, expected, seen,
                    threw, attempts, hashing, saved, restarts, req>>
    BY <1>18 DEF SocketOpen, SocketClose, StalenessRecent, StalenessProbe,
       StalenessVerdict, syncVars, foldVars, checkpointVars, apiVars
  <2>2. /\ conn' \in {"down", "connecting", "open"}
        /\ health' \in Healths
        /\ probe' \in BOOLEAN
    BY <1>18, <1>t DEF SocketOpen, SocketClose, StalenessRecent, StalenessProbe,
       StalenessVerdict, Healths, ClientTyped, ClientTypeOK
  <2> QED BY <1>t, <2>1, <2>2 DEF ClientTyped, ClientTypeOK
<1> QED
  <2>1. CASE UNCHANGED vars
    BY <1>1, <2>1 DEF vars, apiVars
  <2>2. CASE EmitStep /\ UNCHANGED clientVars
    BY <1>1, <2>2 DEF EmitStep
  <2>3. CASE FanOutStep
    BY <1>1, <2>3 DEF FanOutStep
  <2>4. CASE ServeStep \/ FailStep
    BY <1>2, <2>4 DEF ServeStep, FailStep
  <2>5. CASE OnOwnEnvelope
    BY <1>8, <1>net, <2>5, EnvelopeFacts DEF OnOwnEnvelope
  <2>6. CASE OnForeignEnvelope
    BY <1>8, <2>6 DEF OnForeignEnvelope, AnyEnvelope
  <2> QED BY <1>3, <1>4, <1>5, <1>6, <1>7, <1>9, <1>10, <1>11, <1>12, <1>13,
             <1>14, <1>15, <1>16, <1>17, <1>18, <2>1, <2>2, <2>3, <2>4, <2>5,
             <2>6 DEF Next

\* The client, its open requests and the dispatcher keep their types whatever the
\* network and the owner of the projection do (LiveProjection.ts,
\* observation_routes.py, dispatcher.py).
THEOREM ClientInvariantTypes == Spec => []TypeInv
  BY TypeInit, TypeStep, PTL DEF Spec

\* The client's variables keep their types, whatever the server, the network and
\* the owner of the projection do, foreign envelopes and overlapping restarts
\* included: the expected number stays in the stream's range and the recovery
\* attempts stay within their limit (LiveProjection.ts, recover).
THEOREM ClientTypeCorrect == Spec => []ClientTypeOK
<1>1. TypeInv => ClientTypeOK
  BY DEF TypeInv
<1> QED BY <1>1, ClientInvariantTypes, PTL

\* The composition of server, network and client does to the dispatcher only what
\* EventDispatcher allows: the client and its socket take envelopes off the
\* transport and never touch the log, the authority or the lock (dispatcher.py,
\* emit).  EventDispatcher's fairness is not part of it.
THEOREM ServesAsDispatcher ==
    Spec => DispatcherInit /\ [][DispatcherNext]_dispatcherVars
<1>1. Init => DispatcherInit
  BY DEF Init
<1> QED BY <1>1, StepOfDispatcher, PTL DEF Spec

-----------------------------------------------------------------------------
(* Logs that grow. *)

\* What is in a log of envelopes is an envelope.
LEMMA InTypes ==
    ASSUME NEW log \in Seq(Envelope), NEW e, In(log, e)
    PROVE  e \in Envelope /\ e.sequence \in Int
<1>1. e \in Envelope
  BY DEF In
<1> QED BY <1>1, EnvelopeFacts, ConstantFacts

\* A fold of a log is a fold of any extension of it, below any larger number.
LEMMA FoldsGrow ==
    ASSUME NEW log \in Seq(Envelope), NEW longer, \A e : In(log, e) => In(longer, e),
           NEW q, NEW n \in Int, NEW m \in Int, n <= m, Folds(log, q, n)
    PROVE  Folds(longer, q, m)
<1>1. ASSUME NEW i \in 1..Len(q)
      PROVE  /\ q[i].sequence \in Int /\ q[i].sequence < m
             /\ In(longer, q[i]) \/ (i = 1 /\ Hydrated(q))
  <2>1. /\ q[i].sequence \in Int /\ q[i].sequence < n
        /\ In(log, q[i]) \/ (i = 1 /\ Hydrated(q))
    BY DEF Folds
  <2> QED BY <2>1
<1> QED BY <1>1 DEF Folds

\* A hydrated projection stays one, from the same summary, when envelopes are
\* folded in.
LEMMA AppendHydrated ==
    ASSUME NEW S, NEW q \in Seq(S), NEW e \in S, Hydrated(q)
    PROVE  Hydrated(Append(q, e)) /\ Append(q, e)[1] = q[1]
<1>1. /\ Len(q) \in Nat /\ q # <<>>
      /\ Len(Append(q, e)) = Len(q) + 1
      /\ \A i \in 1..Len(q) : Append(q, e)[i] = q[i]
  BY AppendFacts DEF Hydrated
<1>2. 1 \in 1..Len(q)
  BY <1>1
<1>3. Append(q, e) # <<>>
  BY <1>1
<1> QED BY <1>1, <1>2, <1>3 DEF Hydrated

\* Appending the envelope that carries the next number extends a fold.
LEMMA FoldsAppend ==
    ASSUME NEW log \in Seq(Envelope), NEW S, NEW q \in Seq(S), NEW e \in S,
           In(log, e), Folds(log, q, e.sequence)
    PROVE  Folds(log, Append(q, e), e.sequence + 1)
<1>1. /\ Len(q) \in Nat
      /\ Len(Append(q, e)) = Len(q) + 1
      /\ \A i \in 1..Len(q) : Append(q, e)[i] = q[i]
      /\ Append(q, e)[Len(q) + 1] = e
  BY AppendFacts
<1>2. \A i \in 1..Len(q) :
        /\ q[i].sequence \in Int /\ q[i].sequence < e.sequence
        /\ In(log, q[i]) \/ (i = 1 /\ Hydrated(q))
  BY DEF Folds
<1>3. e.sequence \in Int
  BY InTypes
<1>4. ASSUME NEW i \in 1..Len(Append(q, e))
      PROVE  /\ Append(q, e)[i].sequence \in Int
             /\ Append(q, e)[i].sequence < e.sequence + 1
             /\ In(log, Append(q, e)[i]) \/ (i = 1 /\ Hydrated(Append(q, e)))
  <2>1. CASE i \in 1..Len(q)
    <3>1. Hydrated(q) => Hydrated(Append(q, e))
      BY AppendHydrated
    <3> QED BY <1>1, <1>2, <1>3, <2>1, <3>1
  <2>2. CASE i = Len(q) + 1
    BY <1>1, <1>3, <2>2
  <2> QED BY <1>1, <2>1, <2>2
<1>5. ASSUME NEW i \in 1..Len(Append(q, e)), NEW j \in 1..Len(Append(q, e)), i < j
      PROVE  Append(q, e)[i].sequence < Append(q, e)[j].sequence
  <2>1. i \in 1..Len(q) /\ Append(q, e)[i] = q[i]
    BY <1>1, <1>5
  <2>2. CASE j \in 1..Len(q)
    BY <1>1, <1>5, <2>1, <2>2 DEF Folds, Ascending
  <2>3. CASE j = Len(q) + 1
    BY <1>1, <1>2, <2>1, <2>3
  <2> QED BY <1>1, <2>2, <2>3
<1> QED BY <1>4, <1>5 DEF Folds, Ascending

\* The empty projection folds any log.
LEMMA FoldsEmpty == \A log, n : Folds(log, <<>>, n)
  BY DEF Folds, Ascending

\* Queues of stored envelopes.
LEMMA AllInFacts ==
    ASSUME NEW log, NEW S, NEW q \in Seq(S), AllIn(log, q)
    PROVE  /\ q # <<>> => In(log, Head(q)) /\ AllIn(log, Tail(q))
           /\ \A e \in S : In(log, e) => AllIn(log, Append(q, e))
<1>1. ASSUME q # <<>> PROVE In(log, Head(q)) /\ AllIn(log, Tail(q))
  <2>1. 1 \in 1..Len(q) /\ Head(q) = q[1]
    BY <1>1
  <2>2. \A i \in 1..Len(Tail(q)) : i + 1 \in 1..Len(q) /\ Tail(q)[i] = q[i + 1]
    BY <1>1
  <2> QED BY <2>1, <2>2 DEF AllIn
<1>2. ASSUME NEW e \in S, In(log, e) PROVE AllIn(log, Append(q, e))
  <2>1. /\ Len(q) \in Nat
        /\ Len(Append(q, e)) = Len(q) + 1
        /\ \A i \in 1..Len(q) : Append(q, e)[i] = q[i]
        /\ Append(q, e)[Len(q) + 1] = e
    BY AppendFacts
  <2>2. ASSUME NEW i \in 1..Len(Append(q, e)) PROVE In(log, Append(q, e)[i])
    <3>1. CASE i \in 1..Len(q)
      BY <2>1, <3>1 DEF AllIn
    <3>2. CASE i = Len(q) + 1
      BY <1>2, <2>1, <3>2
    <3> QED BY <2>1, <3>1, <3>2
  <2> QED BY <2>2 DEF AllIn
<1> QED BY <1>1, <1>2

\* What is in a log stays in it as it grows.
LEMMA AllInGrows ==
    ASSUME NEW log, NEW longer, \A e : In(log, e) => In(longer, e),
           NEW q, AllIn(log, q)
    PROVE  AllIn(longer, q)
  BY DEF AllIn

\* What a step does to the log: nothing is lost, the authority never goes back,
\* and what is new carries the number allocated last and follows all the rest
\* (dispatcher.py, emit).
LEMMA LogGrows ==
    ASSUME DispatcherInv, [DispatcherNext]_dispatcherVars
    PROVE  /\ persisted \in Seq(Envelope) /\ persisted' \in Seq(Envelope)
           /\ counter \in Int /\ counter' \in Int /\ counter <= counter'
           /\ \A e : In(persisted, e) => In(persisted', e)
           /\ \A e : In(persisted, e) => e.sequence <= counter
           /\ \A e : In(persisted', e) =>
                \/ In(persisted, e)
                \/ /\ ~Quiet /\ counter' = counter /\ e.sequence = counter
                   /\ \A f : In(persisted, f) => f.sequence < counter
<1>1. /\ persisted \in Seq(Envelope)
      /\ counter \in Int
      /\ \A e : In(persisted, e) => e.sequence <= counter
  BY DEF DispatcherInv, DispatcherTypeOK, In
<1>2. DispatcherInv'
  BY NextPreservesInv
<1>3. persisted' \in Seq(Envelope) /\ counter' \in Int
  BY <1>2 DEF DispatcherInv, DispatcherTypeOK
<1>4. CASE persisted' = persisted /\ (counter' = counter \/ counter' = counter + 1)
  BY <1>1, <1>3, <1>4
<1>5. ASSUME NEW t \in Tasks, Persist(t)
      PROVE  /\ counter' = counter
             /\ \A e : In(persisted, e) => In(persisted', e)
             /\ \A e : In(persisted', e) =>
                  \/ In(persisted, e)
                  \/ /\ ~Quiet /\ e.sequence = counter
                     /\ \A f : In(persisted, f) => f.sequence < counter
  <2>1. /\ pc[t] = "allocated"
        /\ env[t] \in Envelope /\ env[t].sequence = counter
        /\ \A f : In(persisted, f) => f.sequence < counter
    BY <1>5 DEF Persist, DispatcherInv, InCriticalSection, In
  <2>2. /\ Len(persisted) \in Nat
        /\ Len(persisted') = Len(persisted) + 1
        /\ \A i \in 1..Len(persisted) : persisted'[i] = persisted[i]
        /\ persisted'[Len(persisted) + 1] = env[t]
    BY <1>1, <1>5, <2>1, AppendFacts DEF Persist
  <2>3. \A e : In(persisted, e) => In(persisted', e)
    BY <2>2 DEF In
  <2>4. ASSUME NEW e, In(persisted', e) PROVE In(persisted, e) \/ e = env[t]
    <3>1. PICK i \in 1..Len(persisted') : persisted'[i] = e
      BY <2>4 DEF In
    <3>2. i \in 1..Len(persisted) \/ i = Len(persisted) + 1
      BY <2>2, <3>1
    <3> QED BY <2>2, <3>1, <3>2 DEF In
  <2>5. ~Quiet
    BY <2>1 DEF Quiet
  <2> QED BY <1>5, <2>1, <2>3, <2>4, <2>5 DEF Persist
<1>6. \/ persisted' = persisted /\ (counter' = counter \/ counter' = counter + 1)
      \/ \E t \in Tasks : Persist(t)
  BY DEF DispatcherNext, dispatcherVars, Allocate, EmitFails, FanOut, Leave
<1> QED BY <1>1, <1>3, <1>4, <1>5, <1>6

-----------------------------------------------------------------------------
(* What a step does to the projected state.  Everything else about the      *)
(* client follows from these six cases.                                     *)

Calm == \A s \in Slots : ~Waiting(s)

Keeps == UNCHANGED <<state, expected, seen>>

Applies(e) ==
    /\ In(persisted, e) /\ e.sequence = expected
    /\ Calm
    /\ expected' = expected + 1
    /\ seen' = seen \cup {e}
    /\ \/ e.kind = "heartbeat" /\ state' = state
       \/ e.kind # "heartbeat" /\ state' = Append(state, e)
    /\ UNCHANGED <<persisted, counter, pc, req, hashing, saved, boot, mutex, pending>>

Adopts(s) ==
    /\ Waiting(s) /\ req[s].at = "reply" /\ req[s].outcome = "ok"
    /\ AwaitsSnapshot(s)
    /\ state' = req[s].state
    /\ expected' = req[s].sequence + 1
    /\ seen' = {}
    /\ req' = [req EXCEPT ![s] = NoRequest]
    /\ mutex' = "free"
    /\ UNCHANGED <<persisted, counter, pc, hashing, saved>>

Plans ==
    /\ mutex = "plan" /\ mutex' = "replay"
    /\ req["recover"].at = "reply" /\ req["recover"].outcome = "ok"
    /\ expected' = req["recover"].sequence + 1
    /\ req' = [req EXCEPT !["recover"] = NoRequest]
    /\ UNCHANGED <<persisted, counter, pc, state, seen, hashing, saved, boot, pending>>

Resumes ==
    /\ boot = "off" /\ boot' = "resuming" /\ mutex = "free" /\ hashing = {}
    /\ saved.present
    /\ state' = saved.state
    /\ expected' = saved.sequence + 1
    /\ seen' = {}
    /\ req' = [req EXCEPT !["start"] = StateRequest(saved.sequence)]
    /\ UNCHANGED <<persisted, counter, pc, hashing, saved, mutex, pending>>

Reloads ==
    /\ state' = <<>> /\ expected' = 0 /\ seen' = {} /\ hashing' = {}
    /\ boot # "off" /\ boot' = "off" /\ mutex' = "free"
    /\ req' = [s \in Slots |-> NoRequest]
    /\ UNCHANGED <<persisted, counter, pc, saved>>

\* An envelope that carries the expected number is applied, or the reducer throws
\* and nothing of the fold changes (applyEnvelope).
LEMMA ApplyEffect ==
    ASSUME NEW e, Verdict(e) = "apply", ApplyEnvelope(e), In(persisted, e), Calm,
           UNCHANGED <<persisted, counter, pc, req, hashing, saved, boot, mutex,
                       pending>>
    PROVE  Keeps \/ Applies(e)
  BY DEF Verdict, ApplyEnvelope, Keeps, Applies

\* Every step of a disciplined client is one of the six.
LEMMA FoldStep ==
    ASSUME Disciplined, SyncInv, [Next]_vars
    PROVE  \/ Keeps
           \/ \E e : Applies(e)
           \/ \E s \in Slots : Adopts(s)
           \/ Plans
           \/ Resumes
           \/ Reloads
<1> USE ConstantFacts
<1>q. queue \in Seq(AnyEnvelope) /\ work \in Seq(AnyEnvelope)
  BY DEF SyncInv, TypeInv, ClientTypeOK
<1>1. CASE HandleDuplicateOrApply
  <2>1. queue # <<>> /\ mutex = "free" /\ In(persisted, Head(queue))
    BY <1>1, <1>q, AllInFacts DEF HandleDuplicateOrApply, SyncInv, ClientHoldsStored
  <2>2. Calm
    BY <2>1 DEF SyncInv, Phases, Calm, Waiting
  <2>3. UNCHANGED <<persisted, counter, pc, req, hashing, saved, boot, mutex,
                    pending>>
    BY <1>1 DEF HandleDuplicateOrApply, apiVars, checkpointVars
  <2> QED BY <1>1, <2>1, <2>2, <2>3, ApplyEffect
       DEF HandleDuplicateOrApply, foldVars, Keeps
<1>2. CASE LoopApply
  <2>1. loop # "none" /\ work # <<>> /\ In(persisted, Head(work))
    BY <1>2, <1>q, AllInFacts DEF LoopApply, SyncInv, ClientHoldsStored
  <2>2. Calm
    BY <2>1 DEF SyncInv, TypeInv, ClientTypeOK, Phases, Calm, Waiting
  <2>3. UNCHANGED <<persisted, counter, pc, req, hashing, saved, boot, mutex,
                    pending>>
    BY <1>2 DEF LoopApply, apiVars, checkpointVars
  <2> QED BY <1>2, <2>1, <2>2, <2>3, ApplyEffect DEF LoopApply, foldVars, Keeps
<1>3. ASSUME NEW usable \in BOOLEAN, Start(usable)
      PROVE  Keeps \/ Resumes
  BY <1>3 DEF Start, Disciplined, foldVars, dispatcherVars, syncVars, Keeps, Resumes
<1>4. CASE HydrateReply
  <2>1. mutex = "free"
    BY <1>4 DEF HydrateReply, SyncInv, Phases
  <2> QED BY <1>4, <2>1 DEF HydrateReply, AdoptSnapshot, foldVars, dispatcherVars,
         syncVars, checkpointVars, Keeps, Adopts, Waiting, AwaitsSnapshot
<1>5. CASE ResyncReply
  BY <1>5 DEF ResyncReply, AdoptSnapshot, RecoverySucceeded, foldVars,
     dispatcherVars, checkpointVars, Keeps, Adopts, Waiting, AwaitsSnapshot
<1>6. CASE PlanReply
  BY <1>6 DEF PlanReply, foldVars, dispatcherVars, checkpointVars, Keeps, Plans
<1>7. CASE Reload
  BY <1>7 DEF Reload, Leave, Reloads
<1>8. CASE EmitStep /\ UNCHANGED clientVars
  BY <1>8 DEF clientVars, Keeps
<1>9. CASE FanOutStep \/ ServeStep \/ FailStep \/ ResumeReply \/ Stop
           \/ OnOwnEnvelope \/ OnForeignEnvelope \/ HandleGap \/ LoopThrows
           \/ LoopDone
  BY <1>9 DEF FanOutStep, ServeStep, FailStep, ResumeReply, Stop, OnOwnEnvelope,
     OnForeignEnvelope, OnEnvelope, HandleGap, LoopThrows, LoopDone, clientVars,
     foldVars, Keeps
<1>10. CASE CheckpointBegin \/ (\E q \in hashing : CheckpointSave(q))
  BY <1>10 DEF CheckpointBegin, CheckpointSave, foldVars, Keeps
<1>11. CASE SocketOpen \/ SocketClose \/ StalenessRecent \/ StalenessProbe
            \/ \E alive \in BOOLEAN : StalenessVerdict(alive)
  BY <1>11 DEF SocketOpen, SocketClose, StalenessRecent, StalenessProbe,
     StalenessVerdict, foldVars, Keeps
<1>12. CASE UNCHANGED vars
  BY <1>12 DEF vars, clientVars, Keeps
<1> QED BY <1>1, <1>2, <1>3, <1>4, <1>5, <1>6, <1>7, <1>8, <1>9, <1>10, <1>11,
           <1>12 DEF Next

-----------------------------------------------------------------------------
(* The invariant of a disciplined client, part by part. *)

\* Before anything has happened nothing is stored and nothing is projected.
LEMMA SyncInit == Init => SyncInv
<1> SUFFICES ASSUME Init PROVE SyncInv
  OBVIOUS
<1> USE ConstantFacts
<1>1. TypeInv
  BY TypeInit
<1>2. Phases
  BY DEF Init, NoRequest, Phases
<1>3. NotAhead
  BY DEF Init, DispatcherInit, NoCheckpoint, NotAhead
<1>4. ClientHoldsStored
  BY FoldsEmpty DEF Init, NoCheckpoint, ClientHoldsStored, AllIn
<1>5. RequestsKnow
  BY DEF Init, NoRequest, RequestsKnow, Knows
<1>6. PlanInv /\ ConsistencySkipsOnlyHoles
  BY DEF Init, PlanInv, ConsistencySkipsOnlyHoles
<1>7. GuardAgreesWithTracker
  BY DEF Init, GuardAgreesWithTracker
<1> QED BY <1>1, <1>2, <1>3, <1>4, <1>5, <1>6, <1>7 DEF SyncInv

\* start() and the envelope handlers keep excluding each other.
LEMMA PhasesStep ==
    ASSUME Disciplined, SyncInv, [Next]_vars
    PROVE  Phases'
<1> USE ConstantFacts
<1>t. /\ Phases /\ DOMAIN req = Slots
      /\ boot \in {"off", "resuming", "catchup", "hydrating", "live", "dead"}
      /\ mutex \in {"free", "plan", "resync", "replay"}
      /\ loop \in {"none", "recover", "catchup"}
  BY DEF SyncInv, TypeInv, ClientTypeOK
<1>1. CASE UNCHANGED <<boot, mutex, queue, loop, req>>
  BY <1>1, <1>t DEF Phases, Waiting
<1>2. ASSUME NEW s \in Slots, Serve(s) \/ RequestFails(s), UNCHANGED clientVars
      PROVE  Phases'
  <2>1. UNCHANGED <<boot, mutex, queue, loop>>
    BY <1>2 DEF clientVars
  <2>2. /\ \A r \in Slots : r # s => req'[r] = req[r]
        /\ req[s].at # "none"
    BY <1>2, RequestStep DEF SyncInv, GotCurrent, GotFailure, GotSnapshot, GotReplay
  <2> QED BY <1>t, <2>1, <2>2 DEF Phases, Waiting
<1>3. ASSUME NEW usable \in BOOLEAN, Start(usable)
      PROVE  Phases'
  <2>1. /\ boot = "off" /\ boot' \in {"resuming", "hydrating"}
        /\ mutex = "free" /\ mutex' = mutex /\ queue = <<>> /\ queue' = queue
        /\ loop = "none" /\ loop' = loop
        /\ \A r \in Slots : r # "start" => req'[r] = req[r]
    BY <1>3, <1>t DEF Start, Disciplined, Idle, syncVars
  <2> QED BY <1>t, <2>1 DEF Phases, Waiting
<1>4. CASE ResumeReply
  <2>1. UNCHANGED <<mutex, queue>>
    BY <1>4 DEF ResumeReply
  <2> QED BY <1>4, <1>t, <2>1 DEF ResumeReply, Idle, Phases, Waiting, NoRequest
<1>5. CASE HydrateReply
  <2>1. UNCHANGED <<mutex, queue, loop>>
    BY <1>5 DEF HydrateReply, syncVars
  <2> QED BY <1>5, <1>t, <2>1 DEF HydrateReply, GoLive, Idle, Phases, Waiting,
         NoRequest
<1>6. CASE Stop
  <2>1. UNCHANGED <<mutex, queue, loop, req>>
    BY <1>6 DEF Stop, syncVars
  <2> QED BY <1>6, <1>t, <2>1 DEF Stop, Idle, Phases, Waiting
<1>7. CASE Reload
  BY <1>7, <1>t DEF Reload, Phases, Waiting, NoRequest
<1>8. ASSUME NEW e, OnEnvelope(e)
      PROVE  Phases'
  <2>1. UNCHANGED <<boot, mutex, loop, req>> /\ boot = "live"
    BY <1>8 DEF OnEnvelope
  <2> QED BY <1>t, <2>1 DEF Phases, Waiting
<1>9. CASE HandleDuplicateOrApply
  <2>1. UNCHANGED <<boot, mutex, loop, req>> /\ queue # <<>>
    BY <1>9 DEF HandleDuplicateOrApply, apiVars
  <2> QED BY <1>t, <2>1 DEF Phases, Waiting
<1>10. CASE HandleGap
  <2>1. /\ UNCHANGED <<boot, loop>> /\ queue # <<>> /\ mutex = "free" /\ loop = "none"
        /\ \/ UNCHANGED <<mutex, req>>
           \/ /\ mutex' = "plan"
              /\ \A r \in Slots : r # "recover" => req'[r] = req[r]
    BY <1>10, <1>t DEF HandleGap, Idle
  <2> QED BY <1>t, <2>1 DEF Phases, Waiting
<1>11. CASE PlanReply
  <2>1. UNCHANGED <<boot, queue>> /\ mutex = "plan" /\ loop = "none"
    BY <1>11 DEF PlanReply, Idle
  <2>2. /\ \A r \in Slots : r # "recover" => req'[r] = req[r]
        /\ \/ mutex' = "replay" /\ loop' = "recover" /\ req'["recover"].at = "none"
           \/ mutex' = "resync" /\ loop' = loop
           \/ mutex' = "free" /\ loop' = loop /\ req'["recover"].at = "none"
    BY <1>11, <1>t DEF PlanReply, RecoveryFailed, NoRequest
  <2> QED BY <1>t, <2>1, <2>2 DEF Phases, Waiting
<1>12. CASE ResyncReply
  <2>1. UNCHANGED <<boot, queue, loop>> /\ mutex = "resync" /\ mutex' = "free"
    BY <1>12 DEF ResyncReply, RecoverySucceeded, RecoveryFailed
  <2>2. /\ \A r \in Slots : r # "recover" => req'[r] = req[r]
        /\ req'["recover"].at = "none"
    BY <1>12, <1>t DEF ResyncReply, NoRequest
  <2> QED BY <1>t, <2>1, <2>2 DEF Phases, Waiting
<1>13. CASE LoopThrows
  <2>1. UNCHANGED queue /\ loop' = "none"
    BY <1>13 DEF LoopThrows
  <2>2. \/ /\ loop = "recover" /\ mutex' = "free"
           /\ UNCHANGED <<boot, req>>
        \/ /\ loop = "catchup" /\ boot' = "hydrating" /\ UNCHANGED mutex
           /\ \A r \in Slots : r # "start" => req'[r] = req[r]
    BY <1>13, <1>t DEF LoopThrows, RecoveryFailed
  <2> QED BY <1>t, <2>1, <2>2 DEF Phases, Waiting
<1>14. CASE LoopDone
  <2>1. UNCHANGED <<queue, req>> /\ loop' = "none"
    BY <1>14 DEF LoopDone, apiVars
  <2>2. \/ /\ loop = "recover" /\ mutex' = "free" /\ UNCHANGED boot
        \/ /\ loop = "catchup" /\ boot' = "live" /\ UNCHANGED mutex
    BY <1>14 DEF LoopDone, RecoverySucceeded, GoLive
  <2> QED BY <1>t, <2>1, <2>2 DEF Phases, Waiting
<1> QED
  <2>1. CASE \/ UNCHANGED vars \/ (EmitStep /\ UNCHANGED clientVars)
             \/ FanOutStep \/ LoopApply
    BY <1>1, <2>1 DEF vars, apiVars, clientVars, EmitStep, FanOutStep, LoopApply
  <2>2. CASE \/ CheckpointBegin \/ (\E q \in hashing : CheckpointSave(q))
             \/ SocketOpen \/ SocketClose \/ StalenessRecent \/ StalenessProbe
             \/ \E alive \in BOOLEAN : StalenessVerdict(alive)
    BY <1>1, <2>2 DEF CheckpointBegin, CheckpointSave, SocketOpen, SocketClose,
       StalenessRecent, StalenessProbe, StalenessVerdict, apiVars, syncVars
  <2>3. CASE ServeStep \/ FailStep
    BY <1>2, <2>3 DEF ServeStep, FailStep
  <2>4. CASE OnOwnEnvelope \/ OnForeignEnvelope
    BY <1>8, <2>4 DEF OnOwnEnvelope, OnForeignEnvelope
  <2> QED BY <1>3, <1>4, <1>5, <1>6, <1>7, <1>9, <1>10, <1>11, <1>12, <1>13,
             <1>14, <2>1, <2>2, <2>3, <2>4 DEF Next

\* Where the client's buffers come from: an announced envelope joins the queue,
\* a reply fills the loop's work, the projected state is captured for a
\* checkpoint and written with the number applied last.
LEMMA BufferStep ==
    ASSUME Disciplined, [Next]_vars
    PROVE  /\ \/ queue' = queue
              \/ queue # <<>> /\ queue' = Tail(queue)
              \/ queue' = <<>>
              \/ \E e \in net : queue' = Append(queue, e)
           /\ \/ work' = work
              \/ work # <<>> /\ work' = Tail(work)
              \/ work' = <<>>
              \/ /\ req["start"].at = "reply" /\ req["start"].outcome = "ok"
                 /\ work' = req["start"].events
              \/ /\ req["recover"].at = "reply" /\ req["recover"].outcome = "ok"
                 /\ mutex = "plan"
                 /\ work' = Append(req["recover"].events, pending)
           /\ \A q \in hashing' : q \in hashing \/ (q = state /\ Keeps)
           /\ \/ saved' = saved
              \/ saved' = NoCheckpoint
              \/ \E q \in hashing :
                   saved' = [sequence |-> expected - 1, state |-> q, present |-> TRUE]
<1> USE ConstantFacts
<1>1. CASE UNCHANGED <<queue, work, hashing, saved>>
  BY <1>1
<1>2. ASSUME NEW usable \in BOOLEAN, Start(usable)
      PROVE  UNCHANGED <<queue, work, hashing>> /\ saved' \in {saved, NoCheckpoint}
  BY <1>2 DEF Start, syncVars
<1>3. CASE ResumeReply
  BY <1>3 DEF ResumeReply, checkpointVars
<1>4. CASE HydrateReply \/ ResyncReply
  BY <1>1, <1>4 DEF HydrateReply, ResyncReply, syncVars, checkpointVars
<1>5. CASE Stop
  <2>1. UNCHANGED <<queue, work, saved, state, expected, seen>>
    BY <1>5 DEF Stop, syncVars, foldVars
  <2> QED BY <1>5, <2>1 DEF Stop, Keeps
<1>6. CASE Reload
  BY <1>6 DEF Reload
<1>7. CASE OnOwnEnvelope
  BY <1>7 DEF OnOwnEnvelope, OnEnvelope, checkpointVars
<1>8. CASE HandleDuplicateOrApply \/ HandleGap
  BY <1>8 DEF HandleDuplicateOrApply, HandleGap, checkpointVars
<1>9. CASE PlanReply
  BY <1>9 DEF PlanReply, checkpointVars
<1>10. CASE LoopApply \/ LoopThrows \/ LoopDone
  BY <1>10 DEF LoopApply, LoopThrows, LoopDone, checkpointVars
<1>11. CASE CheckpointBegin
  <2>1. UNCHANGED <<queue, work, saved, state, expected, seen>>
    BY <1>11 DEF CheckpointBegin, syncVars, foldVars
  <2> QED BY <1>11, <2>1 DEF CheckpointBegin, Keeps
<1>12. ASSUME NEW q \in hashing, CheckpointSave(q)
       PROVE  /\ UNCHANGED <<queue, work>>
              /\ hashing' \subseteq hashing
              /\ saved' = [sequence |-> expected - 1, state |-> q, present |-> TRUE]
  BY <1>12 DEF CheckpointSave, syncVars
<1> QED
  <2>1. CASE \/ UNCHANGED vars \/ (EmitStep /\ UNCHANGED clientVars)
             \/ FanOutStep \/ ServeStep \/ FailStep
    BY <1>1, <2>1 DEF vars, clientVars, FanOutStep, ServeStep, FailStep
  <2>2. CASE \/ SocketOpen \/ SocketClose \/ StalenessRecent \/ StalenessProbe
             \/ \E alive \in BOOLEAN : StalenessVerdict(alive)
    BY <1>1, <2>2 DEF SocketOpen, SocketClose, StalenessRecent, StalenessProbe,
       StalenessVerdict, syncVars, checkpointVars
  <2>3. ~OnForeignEnvelope
    BY DEF Disciplined, OnForeignEnvelope
  <2>4. CASE \E q \in hashing : CheckpointSave(q)
    BY <1>12, <2>4
  <2>5. CASE \E usable \in BOOLEAN : Start(usable)
    BY <1>2, <2>5
  <2> QED BY <1>3, <1>4, <1>5, <1>6, <1>7, <1>8, <1>9, <1>10, <1>11,
             <2>1, <2>2, <2>3, <2>4, <2>5 DEF Next

\* The numbers of a disciplined client, and what a successful reply tells it.
LEMMA Numbers ==
    ASSUME SyncInv
    PROVE  /\ expected \in Int /\ expected >= 0 /\ expected <= counter + 1
           /\ counter \in Int /\ counter >= -1
           /\ saved.sequence \in Int /\ saved.sequence >= -1 /\ saved.sequence <= counter
           /\ \A s \in Slots : req[s].at = "reply" /\ req[s].outcome = "ok" =>
                /\ req[s].sequence \in Int
                /\ expected <= req[s].sequence + 1 /\ req[s].sequence <= counter
                /\ Folds(persisted, req[s].state, req[s].sequence + 1)
                /\ req[s].events \in Seq(Envelope) /\ AllIn(persisted, req[s].events)
<1> USE ConstantFacts
<1>1. /\ expected \in Int /\ expected >= 0 /\ expected <= counter + 1
      /\ counter \in Int /\ counter >= -1
  BY DEF SyncInv, TypeInv, ClientTypeOK, DispatcherInv, DispatcherTypeOK, NotAhead
<1>2. saved.sequence \in Int /\ saved.sequence >= -1 /\ saved.sequence <= counter
  <2>1. saved \in [sequence : -1..MaxSequence, state : Seq(Entry),
                   present : BOOLEAN]
    BY DEF SyncInv, TypeInv, ClientTypeOK
  <2>2. saved.sequence \in -1..MaxSequence
    BY <2>1
  <2> QED BY <2>2 DEF SyncInv, NotAhead
<1>3. ASSUME NEW s \in Slots, req[s].at = "reply", req[s].outcome = "ok"
      PROVE  /\ req[s].sequence \in Int
             /\ expected <= req[s].sequence + 1 /\ req[s].sequence <= counter
             /\ Folds(persisted, req[s].state, req[s].sequence + 1)
             /\ req[s].events \in Seq(Envelope) /\ AllIn(persisted, req[s].events)
  <2>1. req[s].sequence \in -1..MaxSequence /\ req[s].events \in Seq(Envelope)
    BY <1>3 DEF SyncInv, TypeInv, RequestOK
  <2>2. /\ expected - 1 <= req[s].sequence /\ req[s].sequence <= counter
        /\ Folds(persisted, req[s].state, req[s].sequence + 1)
        /\ AllIn(persisted, req[s].events)
    BY <1>3 DEF SyncInv, RequestsKnow, Knows
  <2> QED BY <1>1, <2>1, <2>2
<1> QED BY <1>1, <1>2, <1>3

\* The expected number moves back only when a checkpoint or nothing at all
\* replaces the state (SequenceTracker.setFromConsistencyPoint and its callers).
LEMMA ExpectedStep ==
    ASSUME Disciplined, SyncInv, [Next]_vars
    PROVE  expected <= expected' \/ Resumes \/ Reloads
<1>1. CASE Keeps
  BY <1>1, Numbers DEF Keeps
<1>2. ASSUME NEW e, Applies(e) PROVE expected <= expected'
  BY <1>2, Numbers DEF Applies
<1>3. ASSUME NEW s \in Slots, Adopts(s) PROVE expected <= expected'
  BY <1>3, Numbers DEF Adopts
<1>4. CASE Plans
  BY <1>4, Numbers, ConstantFacts DEF Plans
<1> QED BY <1>1, <1>2, <1>3, <1>4, FoldStep

\* The client stays behind the sequence authority.
LEMMA NotAheadStep ==
    ASSUME Disciplined, SyncInv, [Next]_vars
    PROVE  NotAhead'
<1>1. counter' \in Int /\ counter <= counter'
  BY LogGrows, StepOfDispatcher DEF SyncInv, TypeInv
<1>2. expected' <= counter' + 1
  <2>1. CASE Keeps
    BY <1>1, <2>1, Numbers DEF Keeps
  <2>2. ASSUME NEW e, Applies(e) PROVE expected' <= counter' + 1
    <3>1. e.sequence <= counter
      BY <2>2, LogGrows, StepOfDispatcher DEF SyncInv, TypeInv, Applies
    <3> QED BY <1>1, <2>2, <3>1, Numbers DEF Applies
  <2>3. ASSUME NEW s \in Slots, Adopts(s) PROVE expected' <= counter' + 1
    BY <1>1, <2>3, Numbers DEF Adopts
  <2>4. CASE Plans
    BY <1>1, <2>4, Numbers, ConstantFacts DEF Plans
  <2>5. CASE Resumes
    BY <1>1, <2>5, Numbers DEF Resumes
  <2>6. CASE Reloads
    BY <1>1, <2>6, Numbers DEF Reloads
  <2> QED BY <2>1, <2>2, <2>3, <2>4, <2>5, <2>6, FoldStep
<1>3. saved'.sequence <= counter'
  <2>1. \/ saved' = saved
        \/ saved' = NoCheckpoint
        \/ \E q \in hashing :
             saved' = [sequence |-> expected - 1, state |-> q, present |-> TRUE]
    BY BufferStep
  <2>2. saved'.sequence \in {saved.sequence, -1, expected - 1}
    BY <2>1 DEF NoCheckpoint
  <2> QED BY <1>1, <2>2, Numbers
<1> QED BY <1>2, <1>3 DEF NotAhead

\* The duplicate guard remembers numbers below the expected one only.
LEMMA GuardStep ==
    ASSUME Disciplined, SyncInv, [Next]_vars
    PROVE  GuardAgreesWithTracker'
<1> USE ConstantFacts
<1>0. \A e \in seen : e.sequence < expected /\ e.sequence \in Int
  BY EnvelopeFacts DEF SyncInv, TypeInv, ClientTypeOK, GuardAgreesWithTracker
<1>1. CASE Keeps
  BY <1>0, <1>1 DEF Keeps, GuardAgreesWithTracker
<1>2. ASSUME NEW e, Applies(e) PROVE GuardAgreesWithTracker'
  <2>1. /\ seen' = seen \cup {e} /\ e.sequence = expected
        /\ expected' = expected + 1
    BY <1>2 DEF Applies
  <2>2. ASSUME NEW f \in seen' PROVE f.sequence < expected'
    BY <1>0, <2>1, <2>2, Numbers
  <2> QED BY <2>2 DEF GuardAgreesWithTracker
<1>3. ASSUME NEW s \in Slots, Adopts(s) PROVE GuardAgreesWithTracker'
  BY <1>3 DEF Adopts, GuardAgreesWithTracker
<1>4. CASE Plans
  <2>1. seen' = seen /\ expected <= expected' /\ expected' \in Int
    BY <1>4, Numbers DEF Plans
  <2> QED BY <1>0, <2>1, Numbers DEF GuardAgreesWithTracker
<1>5. CASE Resumes
  BY <1>5 DEF Resumes, GuardAgreesWithTracker
<1>6. CASE Reloads
  BY <1>6 DEF Reloads, GuardAgreesWithTracker
<1> QED BY <1>1, <1>2, <1>3, <1>4, <1>5, <1>6, FoldStep

\* Everything the client keeps stays stored, and its folds stay folds.
LEMMA HoldsStoredStep ==
    ASSUME Disciplined, SyncInv, [Next]_vars
    PROVE  ClientHoldsStored'
<1> USE ConstantFacts
<1>l. /\ persisted \in Seq(Envelope)
      /\ \A e : In(persisted, e) => In(persisted', e)
  BY LogGrows, StepOfDispatcher DEF SyncInv, TypeInv
<1>t. /\ queue \in Seq(AnyEnvelope) /\ work \in Seq(AnyEnvelope)
      /\ state \in Seq(Entry) /\ expected' \in Int
  BY TypeStep DEF SyncInv, TypeInv, ClientTypeOK
<1>s. /\ AllIn(persisted, queue) /\ AllIn(persisted, work)
      /\ Folds(persisted, state, expected)
      /\ Folds(persisted, saved.state, saved.sequence + 1)
      /\ \A q \in hashing : Folds(persisted, q, expected)
  BY DEF SyncInv, ClientHoldsStored
<1>1. AllIn(persisted', queue')
  <2>1. \A e \in net : In(persisted, e) /\ e \in AnyEnvelope
    BY EnvelopeFacts DEF SyncInv, TypeInv, DispatcherInv, DispatcherTypeOK,
       AnnouncedIsPersisted, In
  <2>2. AllIn(persisted, <<>>)
    BY DEF AllIn
  <2>3. AllIn(persisted, queue')
    BY <1>t, <1>s, <2>1, <2>2, AllInFacts, BufferStep
  <2> QED BY <1>l, <2>3, AllInGrows
<1>2. AllIn(persisted', work')
  <2>1. AllIn(persisted, <<>>)
    BY DEF AllIn
  <2>2. ASSUME mutex = "plan", req["recover"].at = "reply",
               req["recover"].outcome = "ok"
        PROVE  AllIn(persisted, Append(req["recover"].events, pending))
    <3>1. /\ req["recover"].events \in Seq(Envelope)
          /\ AllIn(persisted, req["recover"].events)
      BY <2>2, Numbers
    <3>2. In(persisted, pending)
      BY <2>2 DEF SyncInv, PlanInv
    <3>3. pending \in Envelope
      BY <1>l, <3>2, InTypes
    <3> QED BY <3>1, <3>2, <3>3, AllInFacts
  <2>3. req["start"].at = "reply" /\ req["start"].outcome = "ok"
          => AllIn(persisted, req["start"].events)
    BY Numbers
  <2>4. AllIn(persisted, work')
    <3>1. work # <<>> => AllIn(persisted, Tail(work))
      BY <1>t, <1>s, AllInFacts
    <3> QED BY <1>s, <2>1, <2>2, <2>3, <3>1, BufferStep
  <2> QED BY <1>l, <2>4, AllInGrows
<1>3. Folds(persisted', state', expected')
  <2>1. CASE Keeps
    <3>1. state' = state /\ expected' = expected
      BY <2>1 DEF Keeps
    <3> QED BY <1>l, <1>s, <3>1, FoldsGrow, Numbers
  <2>2. ASSUME NEW e, Applies(e) PROVE Folds(persisted', state', expected')
    <3>1. /\ In(persisted, e) /\ e.sequence = expected
          /\ expected' = expected + 1 /\ persisted' = persisted
          /\ state' = state \/ state' = Append(state, e)
      BY <2>2 DEF Applies
    <3>2. e \in Entry
      BY <1>l, <3>1, InTypes, EnvelopeFacts
    <3>3. Folds(persisted, Append(state, e), expected + 1)
      BY <1>l, <1>t, <1>s, <3>1, <3>2, FoldsAppend
    <3>4. Folds(persisted, state, expected + 1)
      BY <1>l, <1>s, FoldsGrow, Numbers
    <3> QED BY <3>1, <3>3, <3>4
  <2>3. ASSUME NEW s \in Slots, Adopts(s) PROVE Folds(persisted', state', expected')
    BY <2>3, Numbers DEF Adopts
  <2>4. CASE Plans
    <3>1. /\ state' = state /\ persisted' = persisted /\ expected <= expected'
      BY <2>4, Numbers DEF Plans
    <3> QED BY <1>l, <1>t, <1>s, <3>1, FoldsGrow, Numbers
  <2>5. CASE Resumes
    BY <1>s, <2>5 DEF Resumes
  <2>6. CASE Reloads
    BY <2>6, FoldsEmpty DEF Reloads
  <2> QED BY <2>1, <2>2, <2>3, <2>4, <2>5, <2>6, FoldStep
<1>4. Folds(persisted', saved'.state, saved'.sequence + 1)
  <2>1. CASE saved' = saved
    BY <1>l, <1>s, <2>1, FoldsGrow, Numbers
  <2>2. CASE saved' = NoCheckpoint
    BY <2>2, FoldsEmpty DEF NoCheckpoint
  <2>3. ASSUME NEW q \in hashing,
               saved' = [sequence |-> expected - 1, state |-> q, present |-> TRUE]
        PROVE  Folds(persisted', saved'.state, saved'.sequence + 1)
    <3>1. saved'.state = q /\ saved'.sequence + 1 = expected
      BY <2>3, Numbers
    <3> QED BY <1>l, <1>s, <3>1, FoldsGrow, Numbers
  <2> QED BY <2>1, <2>2, <2>3, BufferStep
<1>5. ASSUME NEW q \in hashing' PROVE Folds(persisted', q, expected')
  <2>1. CASE q \in hashing
    <3>1. expected <= expected'
      <4>1. ~Resumes
        BY <2>1 DEF Resumes
      <4>2. ~Reloads
        BY <1>5 DEF Reloads
      <4> QED BY <4>1, <4>2, ExpectedStep
    <3> QED BY <1>l, <1>t, <1>s, <2>1, <3>1, FoldsGrow, Numbers
  <2>2. CASE q = state /\ Keeps
    <3>1. expected' = expected
      BY <2>2 DEF Keeps
    <3> QED BY <1>l, <1>s, <2>2, <3>1, FoldsGrow, Numbers
  <2> QED BY <2>1, <2>2, BufferStep
<1> QED BY <1>1, <1>2, <1>3, <1>4, <1>5 DEF ClientHoldsStored

\* A step allocates a number, in which case no handler of the in-memory store is
\* between its two reads and nothing else happens, or it allocates none.
LEMMA EmissionStep ==
    ASSUME TypeInv, [Next]_vars
    PROVE  \/ counter' = counter /\ (Quiet => Quiet')
           \/ /\ NoReadInside /\ counter' = counter + 1
              /\ UNCHANGED <<persisted, req, clientVars>>
<1>p. DOMAIN pc = Tasks
  BY DEF TypeInv, DispatcherInv, DispatcherTypeOK
<1>1. ASSUME NEW t \in Tasks, Persist(t) \/ EmitFails(t) \/ \E d : FanOut(t, d)
      PROVE  counter' = counter /\ (Quiet => Quiet')
  <2>1. counter' = counter /\ \A u \in Tasks : pc'[u] = pc[u] \/ pc'[u] # "allocated"
    BY <1>1, <1>p DEF Persist, EmitFails, FanOut
  <2> QED BY <2>1 DEF Quiet
<1>2. CASE UNCHANGED <<counter, pc>>
  BY <1>2 DEF Quiet
<1>3. CASE EmitStep /\ UNCHANGED clientVars
  BY <1>1, <1>3 DEF EmitStep, Allocate
<1>4. CASE FanOutStep
  BY <1>1, <1>4 DEF FanOutStep
<1>5. CASE UNCHANGED vars
  BY <1>2, <1>5 DEF vars, apiVars
<1>6. CASE \/ ServeStep \/ FailStep \/ \E usable \in BOOLEAN : Start(usable)
           \/ ResumeReply \/ HydrateReply \/ OnForeignEnvelope \/ HandleGap
           \/ PlanReply \/ ResyncReply \/ LoopThrows
  BY <1>2, <1>6 DEF ServeStep, FailStep, Serve, ReadCurrent, AnswerSnapshot,
     AnswerState, RequestFails, Start, ResumeReply, HydrateReply,
     OnForeignEnvelope, HandleGap, PlanReply, ResyncReply, LoopThrows,
     dispatcherVars
<1>7. CASE Stop \/ Reload \/ OnOwnEnvelope \/ SocketClose
  BY <1>2, <1>7 DEF Stop, Reload, OnOwnEnvelope, SocketClose, Leave
<1>8. CASE \/ HandleDuplicateOrApply \/ LoopApply \/ LoopDone \/ CheckpointBegin
           \/ (\E s \in hashing : CheckpointSave(s))
           \/ SocketOpen \/ StalenessRecent \/ StalenessProbe
           \/ \E alive \in BOOLEAN : StalenessVerdict(alive)
  BY <1>2, <1>8 DEF HandleDuplicateOrApply, LoopApply, LoopDone, CheckpointBegin,
     CheckpointSave, SocketOpen, StalenessRecent, StalenessProbe,
     StalenessVerdict, apiVars
<1> QED BY <1>3, <1>4, <1>5, <1>6, <1>7, <1>8 DEF Next

\* What a step does to the requests: the server or the network moves one of them
\* on and the client does nothing, or the client keeps, ends and sends requests.
LEMMA RequestsChange ==
    ASSUME TypeInv, [Next]_vars
    PROVE  \/ \E s \in Slots : (Serve(s) \/ RequestFails(s)) /\ UNCHANGED clientVars
           \/ \A s \in Slots :
                \/ req'[s] = req[s]
                \/ req'[s] = NoRequest
                \/ req'[s] = SnapshotRequest
                \/ req'[s] = StateRequest(expected' - 1)
<1> USE ConstantFacts
<1>d. DOMAIN req = Slots
  BY DEF TypeInv
<1>1. CASE UNCHANGED req
  BY <1>1
<1>2. CASE ServeStep \/ FailStep
  BY <1>2 DEF ServeStep, FailStep
<1>3. ASSUME NEW usable \in BOOLEAN, Start(usable)
      PROVE  \A s \in Slots :
                \/ req'[s] = req[s]
                \/ req'[s] = SnapshotRequest
                \/ req'[s] = StateRequest(expected' - 1)
  <2>1. CASE /\ expected' = saved.sequence + 1
             /\ req' = [req EXCEPT !["start"] = StateRequest(saved.sequence)]
    <3>1. saved \in [sequence : -1..MaxSequence, state : Seq(Entry),
                     present : BOOLEAN]
      BY DEF TypeInv, ClientTypeOK
    <3>2. saved.sequence = expected' - 1
      BY <2>1, <3>1
    <3> QED BY <1>d, <2>1, <3>2
  <2>2. CASE req' = [req EXCEPT !["start"] = SnapshotRequest]
    BY <1>d, <2>2
  <2> QED BY <1>3, <2>1, <2>2 DEF Start
<1>4. CASE \/ ResumeReply \/ HydrateReply \/ Reload \/ PlanReply \/ ResyncReply
           \/ LoopThrows
  BY <1>d, <1>4 DEF ResumeReply, HydrateReply, Reload, PlanReply, ResyncReply,
     LoopThrows
<1>5. CASE HandleGap
  BY <1>d, <1>5 DEF HandleGap, foldVars
<1>6. CASE \/ UNCHANGED vars \/ (EmitStep /\ UNCHANGED clientVars) \/ FanOutStep
           \/ Stop \/ OnOwnEnvelope \/ OnForeignEnvelope \/ SocketClose
  BY <1>1, <1>6 DEF vars, apiVars, EmitStep, FanOutStep, Stop, OnOwnEnvelope,
     OnForeignEnvelope, OnEnvelope, SocketClose
<1>7. CASE \/ HandleDuplicateOrApply \/ LoopApply \/ LoopDone \/ CheckpointBegin
           \/ (\E s \in hashing : CheckpointSave(s))
           \/ SocketOpen \/ StalenessRecent \/ StalenessProbe
           \/ \E alive \in BOOLEAN : StalenessVerdict(alive)
  BY <1>1, <1>7 DEF HandleDuplicateOrApply, LoopApply, LoopDone, CheckpointBegin,
     CheckpointSave, SocketOpen, StalenessRecent, StalenessProbe,
     StalenessVerdict, apiVars
<1> QED BY <1>2, <1>3, <1>4, <1>5, <1>6, <1>7 DEF Next

\* The expected number stands still while a request is open.
LEMMA ExpectedFrozen ==
    ASSUME Disciplined, SyncInv, [Next]_vars, NEW s \in Slots,
           req[s].at # "none", req'[s].at # "none"
    PROVE  expected' = expected
<1> USE ConstantFacts
<1>1. Waiting(s)
  BY DEF SyncInv, Phases
<1>2. ASSUME NEW e, Applies(e) PROVE FALSE
  BY <1>1, <1>2 DEF Applies, Calm
<1>3. ASSUME NEW r \in Slots, Adopts(r) PROVE FALSE
  <2>1. r # s
    BY <1>3 DEF Adopts, NoRequest, SyncInv, TypeInv
  <2>2. Waiting(r)
    BY <1>3 DEF Adopts
  <2> QED BY <1>1, <2>1, <2>2 DEF Waiting, SyncInv, Phases
<1>4. CASE Plans
  <2>1. s # "recover"
    BY <1>4 DEF Plans, NoRequest, SyncInv, TypeInv
  <2> QED BY <1>1, <1>4, <2>1 DEF Plans, Waiting, SyncInv, Phases
<1>5. CASE Resumes
  BY <1>1, <1>5 DEF Resumes, Waiting
<1>6. CASE Reloads
  BY <1>6 DEF Reloads, NoRequest
<1> QED BY <1>2, <1>3, <1>4, <1>5, <1>6, FoldStep DEF Keeps

\* What the server puts into a reply is stored, is consistent up to the number
\* it names, and does not take the client back (observation_routes.py).
LEMMA ServedKnows ==
    ASSUME SyncInv, NEW s \in Slots, Serve(s) \/ RequestFails(s)
    PROVE  Knows(req'[s], persisted, counter, Quiet, expected)
<1> USE ConstantFacts, ReplayLimitAssumption
<1>1. /\ DispatcherInv /\ RequestOK(req[s])
      /\ Knows(req[s], persisted, counter, Quiet, expected)
      /\ persisted \in Seq(Envelope)
  BY DEF SyncInv, TypeInv, RequestsKnow, DispatcherInv, DispatcherTypeOK
<1>2. CASE GotCurrent(s)
  BY <1>1, <1>2, Numbers DEF GotCurrent, Knows, Quiet
<1>3. CASE GotFailure(s)
  BY <1>3 DEF GotFailure, Knows
<1>4. CASE GotSnapshot(s)
  <2>1. /\ req[s].current \in -1..MaxSequence /\ req[s].current \in Int
        /\ expected - 1 <= req[s].current /\ req[s].current <= counter
    BY <1>1, <1>4 DEF GotSnapshot, RequestOK, Knows
  <2>2. Folds(persisted, Materialize(req[s].current), req[s].current + 1)
    BY <1>1, <2>1, MaterializeFacts
  <2>3. AllIn(persisted, <<>>)
    BY DEF AllIn
  <2> QED BY <1>4, <2>1, <2>2, <2>3 DEF GotSnapshot, Knows
<1>5. ASSUME NEW events, GotReplay(s, events)
      PROVE  Knows(req'[s], persisted, counter, Quiet, expected)
  <2>1. /\ req[s].current \in Int /\ req[s].after \in Int
        /\ req[s].after = expected - 1
        /\ expected - 1 <= req[s].current /\ req[s].current <= counter
    BY <1>1, <1>5 DEF GotReplay, RequestOK, Knows
  <2>2. /\ events \in Seq(Envelope)
        /\ \A i \in 1..Len(events) :
             events[i].sequence > req[s].after /\ In(persisted, events[i])
    <3> DEFINE replay == ReplayAfter(req[s].after, ReplayLimit)
    <3>1. events = replay
      BY <1>5 DEF GotReplay
    <3>2. /\ replay \in Seq(Envelope)
          /\ \A i \in 1..Len(replay) :
               /\ replay[i].sequence > req[s].after
               /\ \E n \in 1..Len(persisted) : persisted[n] = replay[i]
      BY <1>1, <2>1, ReplayFacts
    <3> HIDE DEF replay
    <3> QED BY <3>1, <3>2 DEF In
  <2>3. /\ req'[s].sequence \in Int
        /\ expected - 1 <= req'[s].sequence /\ req'[s].sequence <= counter
    <3>1. CASE events = <<>>
      BY <1>5, <2>1, <3>1 DEF GotReplay
    <3>2. CASE events # <<>>
      <4>1. 1 \in 1..Len(events)
        BY <2>2, <3>2
      <4>2. In(persisted, events[1]) /\ events[1].sequence > req[s].after
        BY <2>2, <4>1
      <4>3. events[1].sequence \in Int /\ events[1].sequence <= counter
        BY <1>1, <4>2, InTypes DEF DispatcherInv, In
      <4> QED BY <1>5, <2>1, <3>2, <4>2, <4>3, Numbers DEF GotReplay
    <3> QED BY <3>1, <3>2
  <2>4. Folds(persisted, req'[s].state, req'[s].sequence + 1)
    <3>1. req'[s].sequence \in -1..MaxSequence
      BY <1>5, RequestStepType DEF SyncInv, RequestOK, GotReplay
    <3> QED BY <1>1, <1>5, <3>1, MaterializeFacts DEF GotReplay
  <2>5. AllIn(persisted, req'[s].events)
    BY <1>5, <2>2 DEF GotReplay, AllIn
  <2> QED BY <1>5, <2>3, <2>4, <2>5 DEF GotReplay, Knows
<1> QED BY <1>2, <1>3, <1>4, <1>5, RequestStep DEF SyncInv

\* What a request knows stays true while emissions go on.
LEMMA KnowsGrows ==
    ASSUME SyncInv, [Next]_vars, NEW s \in Slots, req'[s] = req[s]
    PROVE  Knows(req'[s], persisted', counter', Quiet', expected)
<1> USE ConstantFacts
<1>0. req'[s] = req[s]
  OBVIOUS
<1>1. /\ persisted \in Seq(Envelope)
      /\ counter \in Int /\ counter' \in Int /\ counter <= counter'
      /\ \A e : In(persisted, e) => In(persisted', e)
  BY LogGrows, StepOfDispatcher DEF SyncInv, TypeInv
<1>2. Knows(req[s], persisted, counter, Quiet, expected) /\ RequestOK(req[s])
  BY DEF SyncInv, TypeInv, RequestsKnow
<1>3. CASE req[s].at = "none"
  BY <1>0, <1>3 DEF Knows
<1>4. CASE req[s].at = "sent"
  BY <1>0, <1>2, <1>4 DEF Knows
<1>5. CASE req[s].at = "read"
  <2>1. /\ req[s].current \in Int /\ req[s].current <= counter'
        /\ expected - 1 <= req[s].current
        /\ req[s].kind = "state" => req[s].after = expected - 1
        /\ req[s].kind = "state" => req[s].current - req[s].after <= ReplayLimit
    BY <1>1, <1>2, <1>5 DEF Knows, RequestOK
  <2>2. ~Durable => req[s].current = counter' /\ Quiet'
    <3>1. ~Durable => ~NoReadInside
      BY <1>5 DEF NoReadInside
    <3> QED BY <1>2, <1>5, <3>1, EmissionStep DEF Knows, SyncInv
  <2> HIDE DEF Quiet
  <2> QED BY <1>0, <1>5, <2>1, <2>2 DEF Knows
<1>6. CASE req[s].at = "reply"
  <2>1. CASE req[s].outcome # "ok"
    BY <1>0, <1>6, <2>1 DEF Knows
  <2>2. CASE req[s].outcome = "ok"
    <3>1. /\ req[s].sequence \in Int
          /\ expected - 1 <= req[s].sequence /\ req[s].sequence <= counter
          /\ Folds(persisted, req[s].state, req[s].sequence + 1)
          /\ AllIn(persisted, req[s].events)
      BY <1>2, <1>6, <2>2 DEF Knows, RequestOK
    <3>2. Folds(persisted', req[s].state, req[s].sequence + 1)
      BY <1>1, <3>1, FoldsGrow
    <3>3. AllIn(persisted', req[s].events)
      BY <1>1, <3>1, AllInGrows
    <3> QED BY <1>0, <1>1, <1>6, <3>1, <3>2, <3>3 DEF Knows
  <2> QED BY <2>1, <2>2
<1> QED BY <1>2, <1>3, <1>4, <1>5, <1>6 DEF RequestOK

\* What the requests know stays true, whoever moves.
LEMMA RequestsKnowStep ==
    ASSUME Disciplined, SyncInv, [Next]_vars
    PROVE  RequestsKnow'
<1> USE ConstantFacts
<1>t. TypeInv /\ expected' \in Int
  <2>1. TypeInv /\ TypeInv'
    BY TypeStep DEF SyncInv
  <2>2. expected' \in 0..(MaxSequence + 1)
    BY <2>1 DEF TypeInv, ClientTypeOK
  <2> QED BY <2>1, <2>2
<1>1. ASSUME NEW s \in Slots, req'[s] = req[s]
      PROVE  Knows(req'[s], persisted', counter', Quiet', expected')
  <2>1. CASE req[s].at = "none"
    BY <1>1, <2>1 DEF Knows
  <2>2. CASE req[s].at # "none"
    <3>1. expected' = expected
      BY <1>1, <2>2, ExpectedFrozen
    <3> QED BY <1>1, <3>1, KnowsGrows
  <2> QED BY <2>1, <2>2
<1>2. ASSUME NEW r \in Slots, Serve(r) \/ RequestFails(r), UNCHANGED clientVars,
             NEW s \in Slots
      PROVE  Knows(req'[s], persisted', counter', Quiet', expected')
  <2>1. CASE s # r
    BY <1>1, <1>2, <1>t, <2>1, RequestStep
  <2>2. CASE s = r
    <3>1. UNCHANGED <<persisted, counter, pc, expected>>
      BY <1>2, <1>t, RequestStep DEF dispatcherVars, clientVars
    <3>2. Quiet' = Quiet
      BY <3>1 DEF Quiet
    <3>3. Knows(req'[s], persisted, counter, Quiet, expected)
      BY <1>2, <2>2, ServedKnows
    <3> QED BY <3>1, <3>2, <3>3
  <2> QED BY <2>1, <2>2
<1>3. ASSUME NEW s \in Slots,
             req'[s] = NoRequest \/ req'[s] = SnapshotRequest
               \/ req'[s] = StateRequest(expected' - 1)
      PROVE  Knows(req'[s], persisted', counter', Quiet', expected')
  BY <1>3 DEF NoRequest, SnapshotRequest, StateRequest, Knows
<1>4. \A s \in Slots : Knows(req'[s], persisted', counter', Quiet', expected')
  <2>1. CASE \E r \in Slots : (Serve(r) \/ RequestFails(r)) /\ UNCHANGED clientVars
    BY <1>2, <2>1
  <2>2. CASE \A s \in Slots :
               \/ req'[s] = req[s]
               \/ req'[s] = NoRequest
               \/ req'[s] = SnapshotRequest
               \/ req'[s] = StateRequest(expected' - 1)
    BY <1>1, <1>3, <2>2
  <2> QED BY <1>t, <2>1, <2>2, RequestsChange
<1> QED BY <1>4 DEF RequestsKnow

\* How a recovery moves: it ends, it goes on (and then the server may answer), it
\* gets its plan, or it begins for the first envelope of the queue.
LEMMA RecoveryStep ==
    ASSUME Disciplined, TypeInv, [Next]_vars
    PROVE  \/ mutex' = "free"
           \/ /\ mutex # "free" /\ mutex' = mutex /\ pending' = pending
              /\ \/ req'["recover"] = req["recover"]
                 \/ /\ Serve("recover") \/ RequestFails("recover")
                    /\ UNCHANGED clientVars
           \/ mutex = "plan" /\ mutex' \in {"replay", "resync"} /\ pending' = pending
           \/ /\ mutex = "free" /\ mutex' = "plan"
              /\ queue # <<>> /\ pending' = Head(queue)
              /\ Verdict(Head(queue)) = "gap"
              /\ expected' = expected
              /\ req'["recover"] = StateRequest(expected - 1)
<1> USE ConstantFacts
<1>d. DOMAIN req = Slots
  BY DEF TypeInv
<1>1. CASE UNCHANGED <<mutex, pending>> /\ req'["recover"] = req["recover"]
  BY <1>1
<1>2. CASE ServeStep \/ FailStep
  <2>1. PICK s \in Slots : (Serve(s) \/ RequestFails(s)) /\ UNCHANGED clientVars
    BY <1>2 DEF ServeStep, FailStep
  <2>2. UNCHANGED <<mutex, pending>>
    BY <2>1 DEF clientVars
  <2>3. s # "recover" => req'["recover"] = req["recover"]
    BY <2>1, RequestStep
  <2> QED BY <2>1, <2>2, <2>3
<1>3. CASE \E usable \in BOOLEAN : Start(usable)
  <2>1. UNCHANGED <<mutex, pending>>
    BY <1>3 DEF Start, syncVars
  <2>2. req'["recover"] = req["recover"]
    BY <1>3, <1>d DEF Start
  <2> QED BY <1>1, <2>1, <2>2
<1>4. CASE ResumeReply \/ HydrateReply
  <2>1. UNCHANGED <<mutex, pending>>
    BY <1>4 DEF ResumeReply, HydrateReply, syncVars
  <2>2. req'["recover"] = req["recover"]
    BY <1>4, <1>d DEF ResumeReply, HydrateReply
  <2> QED BY <1>1, <2>1, <2>2
<1>5. CASE Stop \/ OnOwnEnvelope \/ OnForeignEnvelope \/ SocketClose
  BY <1>1, <1>5 DEF Stop, OnOwnEnvelope, OnForeignEnvelope, OnEnvelope, SocketClose,
     syncVars
<1>6. CASE Reload
  BY <1>6 DEF Reload
<1>7. CASE HandleGap
  BY <1>d, <1>7 DEF HandleGap, foldVars
<1>8. CASE PlanReply
  BY <1>8 DEF PlanReply, RecoveryFailed
<1>9. CASE ResyncReply
  BY <1>9 DEF ResyncReply, RecoverySucceeded, RecoveryFailed
<1>10. CASE LoopThrows
  BY <1>d, <1>1, <1>10 DEF LoopThrows, RecoveryFailed
<1>11. CASE LoopDone
  BY <1>1, <1>11 DEF LoopDone, RecoverySucceeded, apiVars
<1>12. CASE \/ HandleDuplicateOrApply \/ LoopApply
            \/ SocketOpen \/ StalenessRecent \/ StalenessProbe
            \/ \E alive \in BOOLEAN : StalenessVerdict(alive)
  BY <1>1, <1>12 DEF HandleDuplicateOrApply, LoopApply, SocketOpen,
     StalenessRecent, StalenessProbe, StalenessVerdict, apiVars, syncVars
<1>13. CASE CheckpointBegin \/ (\E s \in hashing : CheckpointSave(s))
  BY <1>1, <1>13 DEF CheckpointBegin, CheckpointSave, apiVars, syncVars
<1>14. CASE UNCHANGED vars \/ (EmitStep /\ UNCHANGED clientVars) \/ FanOutStep
  BY <1>1, <1>14 DEF vars, apiVars, clientVars, EmitStep, FanOutStep
<1> QED BY <1>2, <1>3, <1>4, <1>5, <1>6, <1>7, <1>8, <1>9, <1>10, <1>11, <1>12,
           <1>13, <1>14 DEF Next

\* A recovery keeps being about a stored envelope beyond the expected one.
LEMMA PlanStep ==
    ASSUME Disciplined, SyncInv, [Next]_vars
    PROVE  PlanInv'
<1> USE ConstantFacts
<1>l. /\ persisted \in Seq(Envelope)
      /\ \A e : In(persisted, e) => In(persisted', e)
  BY LogGrows, StepOfDispatcher DEF SyncInv, TypeInv
<1>1. CASE mutex' = "free"
  BY <1>1 DEF PlanInv
<1>2. CASE mutex = "plan" /\ mutex' \in {"replay", "resync"} /\ pending' = pending
  BY <1>2, <1>l DEF SyncInv, PlanInv
<1>3. CASE /\ mutex = "free" /\ mutex' = "plan"
           /\ queue # <<>> /\ pending' = Head(queue)
           /\ Verdict(Head(queue)) = "gap"
           /\ expected' = expected
           /\ req'["recover"] = StateRequest(expected - 1)
  <2>1. In(persisted, Head(queue))
    BY <1>3, AllInFacts DEF SyncInv, TypeInv, ClientTypeOK, ClientHoldsStored
  <2>2. Head(queue).sequence \in Int
    BY <1>l, <2>1, InTypes
  <2>3. Head(queue).sequence > expected
    BY <1>3, <2>2, Numbers DEF Verdict
  <2> QED BY <1>3, <1>l, <2>1, <2>3 DEF PlanInv, StateRequest
<1>4. CASE /\ mutex # "free" /\ mutex' = mutex /\ pending' = pending
           /\ \/ req'["recover"] = req["recover"]
              \/ /\ Serve("recover") \/ RequestFails("recover")
                 /\ UNCHANGED clientVars
  <2>1. In(persisted', pending')
    BY <1>4, <1>l DEF SyncInv, PlanInv
  <2>2. ASSUME mutex' = "plan" PROVE pending'.sequence > expected'
    <3>1. mutex = "plan" /\ pending.sequence > expected
      BY <1>4, <2>2 DEF SyncInv, PlanInv
    <3>2. Waiting("recover")
      BY <3>1 DEF Waiting
    <3>3. \A e : ~Applies(e)
      BY <3>2 DEF Applies, Calm
    <3>4. Keeps
      BY <2>2, <3>1, <3>3, FoldStep DEF Adopts, Plans, Resumes, Reloads
    <3> QED BY <1>4, <3>1, <3>4 DEF Keeps
  <2>3. ASSUME mutex' = "plan", req'["recover"].at \in {"sent", "read"}
        PROVE  req'["recover"].kind = "state"
    <3>1. CASE req'["recover"] = req["recover"]
      BY <1>4, <2>3, <3>1 DEF SyncInv, PlanInv
    <3>2. CASE Serve("recover") \/ RequestFails("recover")
      <4>1. GotCurrent("recover")
        BY <2>3, <3>2, RequestStep DEF SyncInv, GotFailure, GotSnapshot, GotReplay
      <4> QED BY <1>4, <2>3, <4>1 DEF GotCurrent, SyncInv, PlanInv
    <3> QED BY <1>4, <3>1, <3>2
  <2> QED BY <2>1, <2>2, <2>3 DEF PlanInv
<1> QED BY <1>1, <1>2, <1>3, <1>4, RecoveryStep DEF SyncInv

\* The consistency point of an answer keeps jumping over holes only: it is below
\* everything stored at or above the expected number, and below everything that
\* is stored after it.
LEMMA HolesStep ==
    ASSUME Disciplined, SyncInv, [Next]_vars
    PROVE  ConsistencySkipsOnlyHoles'
<1> USE ConstantFacts
<1> SUFFICES ASSUME mutex' = "plan", req'["recover"].at = "reply",
                    req'["recover"].outcome = "ok",
                    NEW i \in 1..Len(persisted'), persisted'[i].sequence >= expected'
             PROVE  persisted'[i].sequence > req'["recover"].sequence
  BY DEF ConsistencySkipsOnlyHoles
<1> DEFINE e == persisted'[i]
<1>e. In(persisted', e) /\ e.sequence >= expected'
  BY DEF In
<1> HIDE DEF e
<1> SUFFICES e.sequence > req'["recover"].sequence
  BY DEF e
<1>l. /\ persisted \in Seq(Envelope) /\ persisted' \in Seq(Envelope)
      /\ \/ In(persisted, e)
         \/ /\ ~Quiet /\ counter' = counter /\ e.sequence = counter
            /\ \A f : In(persisted, f) => f.sequence < counter
  BY <1>e, LogGrows, StepOfDispatcher DEF SyncInv, TypeInv
<1>1. /\ mutex = "plan"
      /\ \/ req'["recover"] = req["recover"]
         \/ /\ Serve("recover") \/ RequestFails("recover")
            /\ UNCHANGED clientVars
  BY RecoveryStep DEF SyncInv, StateRequest
<1>2. /\ In(persisted, pending) /\ pending.sequence > expected
      /\ pending.sequence \in Int /\ e.sequence \in Int /\ expected \in Int
      /\ counter \in Int
  BY <1>1, <1>e, <1>l, InTypes, Numbers DEF SyncInv, PlanInv
<1>3. CASE req'["recover"] = req["recover"]
  <2>1. /\ expected' = expected
        /\ req["recover"].at = "reply" /\ req["recover"].outcome = "ok"
        /\ req["recover"].sequence \in Int
    BY <1>3, ExpectedFrozen, Numbers
  <2>2. \A f : In(persisted, f) /\ f.sequence >= expected
           => f.sequence > req["recover"].sequence
    BY <1>1, <2>1 DEF SyncInv, ConsistencySkipsOnlyHoles, In
  <2>3. CASE In(persisted, e)
    BY <1>3, <1>e, <2>1, <2>2, <2>3
  <2>4. CASE e.sequence = counter /\ \A f : In(persisted, f) => f.sequence < counter
    <3>1. pending.sequence > req["recover"].sequence /\ pending.sequence < counter
      BY <1>2, <2>2, <2>4
    <3> QED BY <1>2, <1>3, <2>1, <2>4, <3>1
  <2> QED BY <1>l, <2>3, <2>4
<1>4. CASE (Serve("recover") \/ RequestFails("recover")) /\ UNCHANGED clientVars
  <2>1. persisted' = persisted /\ expected' = expected
    BY <1>4, RequestStep DEF SyncInv, dispatcherVars, clientVars
  <2>2. PICK events : GotReplay("recover", events)
    BY <1>1, <1>4, RequestStep DEF SyncInv, PlanInv, GotCurrent, GotFailure, GotSnapshot
  <2> DEFINE after == req["recover"].after
             replay == ReplayAfter(after, ReplayLimit)
  <2>3. /\ after = expected - 1
        /\ req["recover"].current \in Int
        /\ req["recover"].current - after <= ReplayLimit
        /\ ~Durable => req["recover"].current = counter
    BY <2>2 DEF GotReplay, SyncInv, TypeInv, RequestOK, RequestsKnow, Knows
  <2>4. /\ events = replay
        /\ req'["recover"].sequence = IF events = <<>> THEN req["recover"].current
                                      ELSE events[1].sequence - 1
    BY <2>2 DEF GotReplay
  <2> HIDE DEF after
  <2>5. after \in Int /\ ReplayLimit \in Nat \ {0}
    BY <1>2, <2>3, ReplayLimitAssumption
  <2>6. Durable \/ counter - after <= ReplayWindow
    BY <1>2, <2>3, <2>5, ReplayFitsWindow, WindowAssumption
  <2>7. /\ replay \in Seq(Envelope)
        /\ \A n \in 1..Len(persisted) : persisted[n].sequence > after =>
             replay # <<>> /\ replay[1].sequence <= persisted[n].sequence
    <3>1. DispatcherInv
      BY DEF SyncInv, TypeInv
    <3> QED BY <2>5, <2>6, <3>1, ReplayFacts
  <2> HIDE DEF replay
  <2>8. In(persisted, e) /\ e.sequence > after
    BY <1>e, <1>2, <2>1, <2>3
  <2>9. replay # <<>> /\ replay[1].sequence <= e.sequence
    BY <2>7, <2>8 DEF In
  <2>10. replay[1].sequence \in Int
    <3>1. replay[1] \in Envelope
      BY <2>7, <2>9
    <3> QED BY <3>1, EnvelopeFacts
  <2> QED BY <1>2, <2>4, <2>9, <2>10
<1> QED BY <1>1, <1>3, <1>4

\* Every step of a disciplined client keeps the whole invariant.
LEMMA SyncStep == Disciplined /\ SyncInv /\ [Next]_vars => SyncInv'
<1> SUFFICES ASSUME Disciplined, SyncInv, [Next]_vars PROVE SyncInv'
  OBVIOUS
<1>1. TypeInv'
  BY TypeStep DEF SyncInv
<1> QED BY <1>1, PhasesStep, NotAheadStep, HoldsStoredStep, RequestsKnowStep,
     PlanStep, GuardStep, HolesStep DEF SyncInv

\* The invariant of a disciplined client: what is queued, replayed, projected,
\* captured and saved is stored, in order and below the expected number, and an
\* open request agrees with the number its client still waits for
\* (LiveProjection.ts with observation_routes.py and dispatcher.py).
THEOREM SyncInvariant == ASSUME Disciplined PROVE Spec => []SyncInv
<1>1. SyncInv /\ [Next]_vars => SyncInv'
  BY SyncStep
<1> QED BY <1>1, SyncInit, PTL DEF Spec

\* The projection of a disciplined client is an ordered fold of stored events
\* below the expected number, through live delivery, replays, snapshots,
\* restarts and torn checkpoints, with either store (LiveProjection.ts,
\* onEnvelope, recover, checkpoint, tryResumeFromCheckpoint).
THEOREM OrderedFold == ASSUME Disciplined PROVE Spec => []StateIsOrderedFold
<1>1. SyncInv => StateIsOrderedFold
  BY DEF SyncInv, ClientHoldsStored, Folds, Ascending, In, StateIsOrderedFold,
     StoredEnvelope
<1> QED BY <1>1, SyncInvariant, PTL

\* The duplicate guard never rejects what the tracker still wants, however large
\* it is and whatever it has forgotten (GapDetector.evaluate, DuplicateGuard).
THEOREM GuardAgreement == ASSUME Disciplined PROVE Spec => []GuardAgreesWithTracker
<1>1. SyncInv => GuardAgreesWithTracker
  BY DEF SyncInv
<1> QED BY <1>1, SyncInvariant, PTL

\* A recovery answer never tells the waiting client to jump over a stored event,
\* although the server reads its counter and its log at two moments and the
\* in-memory log is trimmed (observation_routes.py, recover_state).
THEOREM JumpsOverHolesOnly ==
    ASSUME Disciplined PROVE Spec => []ConsistencySkipsOnlyHoles
<1>1. SyncInv => ConsistencySkipsOnlyHoles
  BY DEF SyncInv
<1> QED BY <1>1, SyncInvariant, PTL

\* While one start() is in effect no reply, late or not, takes the expected
\* number back (SequenceTracker.setFromConsistencyPoint and its callers).
THEOREM ExpectedNeverRewinds == ASSUME Disciplined PROVE Spec => NeverRewinds
<1>1. SyncInv /\ [Next]_vars =>
        [boot' = boot \/ (boot # "off" /\ boot' # "off") => expected' >= expected]_vars
  <2> SUFFICES ASSUME SyncInv, [Next]_vars,
                      boot' = boot \/ (boot # "off" /\ boot' # "off")
               PROVE  expected' >= expected
    OBVIOUS
  <2>1. ~Resumes /\ ~Reloads
    BY DEF Resumes, Reloads
  <2>2. expected <= expected'
    BY <2>1, ExpectedStep
  <2> QED BY <2>2
<1> QED BY <1>1, SyncInvariant, PTL DEF Spec, NeverRewinds

-----------------------------------------------------------------------------
(* Used-up recovery attempts are reported. *)

\* In one session every step keeps a used-up projection reported.
LEMMA ExhaustionStep ==
    ASSUME SingleSession, TypeInv, ExhaustionInv, [Next]_vars
    PROVE  ExhaustionInv'
<1> USE ConstantFacts DEF ExhaustionInv, ExhaustionIsReported
<1>t. /\ attempts \in 0..MaxRecoveryAttempts
      /\ restarts = 0 /\ ~(restarts < MaxRestarts)
      /\ loop \in {"none", "recover", "catchup"}
  BY DEF TypeInv, ClientTypeOK, SingleSession
<1>1. CASE UNCHANGED <<boot, queue, mutex, loop, health, attempts, probe>>
  BY <1>1
<1>2. ASSUME NEW usable \in BOOLEAN, Start(usable)
      PROVE  ExhaustionInv'
  <2>1. UNCHANGED <<queue, mutex, loop, attempts, probe>> /\ loop = "none"
    BY <1>2 DEF Start, syncVars, Idle
  <2>2. boot = "off" /\ attempts = 0
    BY <1>2 DEF Start
  <2> QED BY <1>2, <2>1, <2>2 DEF Start
<1>3. CASE ResumeReply
  <2>1. UNCHANGED <<queue, mutex, health, attempts, probe>> /\ loop = "none"
    BY <1>3 DEF ResumeReply, Idle
  <2>2. boot = "resuming" /\ boot' \in {"catchup", "hydrating"}
        /\ (loop' = "none" \/ (loop' = "catchup" /\ boot' = "catchup"))
    BY <1>3, <2>1 DEF ResumeReply
  <2> QED BY <2>1, <2>2
<1>4. CASE HydrateReply
  <2>1. UNCHANGED <<queue, mutex, loop, attempts, probe>> /\ loop = "none"
    BY <1>4 DEF HydrateReply, syncVars, Idle
  <2>2. boot = "hydrating" /\ boot' \in {"live", "dead"}
    BY <1>4 DEF HydrateReply, GoLive
  <2> QED BY <1>t, <2>1, <2>2
<1>5. CASE Stop \/ Reload
  BY <1>5, <1>t DEF Stop, Reload
<1>6. ASSUME NEW e, OnEnvelope(e)
      PROVE  ExhaustionInv'
  BY <1>6 DEF OnEnvelope
<1>7. ASSUME NEW e, ApplyEnvelope(e) \/ UNCHANGED <<foldVars, health>>
      PROVE  health = "desynchronized" => health' = "desynchronized"
  BY <1>7 DEF ApplyEnvelope, Touched
<1>8. CASE HandleDuplicateOrApply
  <2>1. UNCHANGED <<boot, mutex, loop, attempts, probe>> /\ queue # <<>>
    BY <1>8 DEF HandleDuplicateOrApply
  <2>2. health = "desynchronized" => health' = "desynchronized"
    BY <1>7, <1>8 DEF HandleDuplicateOrApply
  <2> QED BY <2>1, <2>2
<1>9. CASE HandleGap
  <2>1. /\ UNCHANGED <<boot, loop, probe>> /\ queue # <<>> /\ mutex = "free"
        /\ loop = "none"
    BY <1>9 DEF HandleGap, Idle
  <2> QED BY <1>9, <2>1 DEF HandleGap
<1>10. CASE PlanReply
  <2>1. /\ UNCHANGED <<boot, queue, probe, attempts>> /\ mutex = "plan"
        /\ loop = "none"
    BY <1>10 DEF PlanReply, RecoveryFailed, Idle
  <2>2. \/ mutex' = "replay" /\ loop' = "recover"
        \/ mutex' = "resync" /\ loop' = loop
        \/ RecoveryFailed /\ loop' = loop
    BY <1>10 DEF PlanReply
  <2> QED BY <1>t, <2>1, <2>2 DEF RecoveryFailed
<1>11. CASE ResyncReply
  <2>1. UNCHANGED <<boot, queue, probe, loop>> /\ mutex = "resync" /\ loop = "none"
    BY <1>11 DEF ResyncReply, Idle
  <2>2. RecoverySucceeded \/ RecoveryFailed
    BY <1>11 DEF ResyncReply
  <2> QED BY <1>t, <2>1, <2>2 DEF RecoverySucceeded, RecoveryFailed
<1>12. CASE LoopApply
  <2>1. UNCHANGED <<boot, queue, mutex, loop, attempts, probe>>
    BY <1>12 DEF LoopApply
  <2>2. health = "desynchronized" => health' = "desynchronized"
    BY <1>7, <1>12 DEF LoopApply
  <2> QED BY <2>1, <2>2
<1>13. CASE LoopThrows
  <2>1. UNCHANGED <<queue, probe>> /\ loop' = "none"
    BY <1>13 DEF LoopThrows
  <2>2. CASE loop = "recover" /\ RecoveryFailed /\ UNCHANGED boot
    BY <1>t, <2>1, <2>2 DEF RecoveryFailed
  <2>3. CASE /\ loop = "catchup" /\ boot' = "hydrating"
             /\ UNCHANGED <<health, mutex, pending, attempts>>
    BY <2>1, <2>3
  <2> QED BY <1>13, <2>2, <2>3 DEF LoopThrows
<1>14. CASE LoopDone
  <2>1. UNCHANGED <<queue, probe>> /\ loop' = "none"
    BY <1>14 DEF LoopDone
  <2>2. CASE loop = "recover" /\ RecoverySucceeded /\ UNCHANGED boot
    BY <1>t, <2>1, <2>2 DEF RecoverySucceeded
  <2>3. CASE loop = "catchup" /\ GoLive(health) /\ UNCHANGED <<mutex, attempts>>
    BY <2>1, <2>3 DEF GoLive
  <2> QED BY <1>14, <2>2, <2>3 DEF LoopDone
<1>15. CASE SocketOpen \/ SocketClose
  <2>1. UNCHANGED <<boot, queue, mutex, loop, attempts, probe>>
    BY <1>15 DEF SocketOpen, SocketClose, syncVars
  <2>2. health = "desynchronized" => health' = "desynchronized"
    BY <1>15 DEF SocketOpen, SocketClose
  <2> QED BY <2>1, <2>2
<1> QED
  <2>1. CASE \/ UNCHANGED vars \/ (EmitStep /\ UNCHANGED clientVars)
             \/ FanOutStep \/ ServeStep \/ FailStep
    BY <1>1, <2>1 DEF vars, clientVars, FanOutStep, ServeStep, FailStep
  <2>2. CASE CheckpointBegin \/ (\E q \in hashing : CheckpointSave(q))
    BY <1>1, <2>2 DEF CheckpointBegin, CheckpointSave, syncVars
  <2>3. CASE \/ StalenessRecent \/ StalenessProbe
             \/ \E alive \in BOOLEAN : StalenessVerdict(alive)
    BY <2>3 DEF StalenessRecent, StalenessProbe, StalenessVerdict, SingleSession
  <2>4. CASE OnOwnEnvelope \/ OnForeignEnvelope
    BY <1>6, <2>4 DEF OnOwnEnvelope, OnForeignEnvelope
  <2>5. CASE \E usable \in BOOLEAN : Start(usable)
    BY <1>2, <2>5
  <2> QED BY <1>3, <1>4, <1>5, <1>8, <1>9, <1>10, <1>11, <1>12, <1>13, <1>14,
             <1>15, <2>1, <2>2, <2>3, <2>4, <2>5 DEF Next

\* In one session a projection that has used up its recovery attempts stays
\* reported as desynchronized, whatever the socket does, with foreign envelopes
\* and throwing reducers too (LiveProjection.ts, recover, onLifecycle).
THEOREM ExhaustionReported == ASSUME SingleSession PROVE Spec => []ExhaustionIsReported
<1>1. Init => ExhaustionInv
  BY ConstantFacts DEF Init, ExhaustionInv, ExhaustionIsReported
<1>2. TypeInv /\ ExhaustionInv /\ [Next]_vars => ExhaustionInv'
  BY ExhaustionStep
<1>3. ExhaustionInv => ExhaustionIsReported
  BY DEF ExhaustionInv
<1> QED BY <1>1, <1>2, <1>3, ClientInvariantTypes, PTL DEF Spec

-----------------------------------------------------------------------------
(* Nothing is skipped silently with the in-memory store. *)

\* A slot awaits a snapshot because it just asked for one, or it did before and
\* its request is untouched or moved on by the server.
LEMMA SnapshotStep ==
    ASSUME TypeInv, [Next]_vars, NEW s \in Slots, AwaitsSnapshot(s)'
    PROVE  \/ req'[s] = SnapshotRequest
           \/ /\ AwaitsSnapshot(s)
              /\ \/ req'[s] = req[s]
                 \/ (Serve(s) \/ RequestFails(s)) /\ UNCHANGED clientVars
<1> USE ConstantFacts
<1>d. DOMAIN req = Slots
  BY DEF TypeInv
<1>0. (s = "start" /\ boot' = "hydrating") \/ (s = "recover" /\ mutex' = "resync")
  BY DEF AwaitsSnapshot
<1>1. CASE UNCHANGED <<boot, mutex, req>>
  BY <1>0, <1>1 DEF AwaitsSnapshot
<1>2. CASE ServeStep \/ FailStep
  <2>1. PICK r \in Slots : (Serve(r) \/ RequestFails(r)) /\ UNCHANGED clientVars
    BY <1>2 DEF ServeStep, FailStep
  <2>2. UNCHANGED <<boot, mutex>>
    BY <2>1 DEF clientVars
  <2>3. r # s => req'[s] = req[s]
    BY <2>1, RequestStep
  <2> QED BY <1>0, <2>1, <2>2, <2>3 DEF AwaitsSnapshot
<1>3. ASSUME NEW usable \in BOOLEAN, Start(usable)
      PROVE  req'[s] = SnapshotRequest \/ (AwaitsSnapshot(s) /\ req'[s] = req[s])
  BY <1>0, <1>3, <1>d DEF Start, syncVars, AwaitsSnapshot
<1>4. CASE ResumeReply
  BY <1>0, <1>4, <1>d DEF ResumeReply, AwaitsSnapshot
<1>5. CASE HydrateReply
  <2>1. UNCHANGED mutex /\ boot' \in {"live", "dead"}
    BY <1>5 DEF HydrateReply, GoLive, syncVars
  <2> QED BY <1>0, <1>5, <1>d, <2>1 DEF HydrateReply, AwaitsSnapshot
<1>6. CASE Reload
  BY <1>0, <1>6 DEF Reload
<1>7. CASE Stop \/ OnOwnEnvelope \/ OnForeignEnvelope \/ SocketClose
  BY <1>0, <1>7 DEF Stop, OnOwnEnvelope, OnForeignEnvelope, OnEnvelope, SocketClose,
     syncVars, AwaitsSnapshot
<1>8. CASE HandleGap
  BY <1>0, <1>8, <1>d DEF HandleGap, AwaitsSnapshot
<1>9. CASE PlanReply
  BY <1>0, <1>9, <1>d DEF PlanReply, RecoveryFailed, AwaitsSnapshot
<1>10. CASE ResyncReply
  <2>1. UNCHANGED boot /\ mutex' = "free"
    BY <1>10 DEF ResyncReply, RecoverySucceeded, RecoveryFailed
  <2> QED BY <1>0, <1>10, <1>d, <2>1 DEF ResyncReply, AwaitsSnapshot
<1>11. CASE LoopThrows
  BY <1>0, <1>11, <1>d DEF LoopThrows, RecoveryFailed, AwaitsSnapshot
<1>12. CASE LoopDone
  BY <1>0, <1>12 DEF LoopDone, RecoverySucceeded, GoLive, apiVars, AwaitsSnapshot
<1>13. CASE \/ HandleDuplicateOrApply \/ LoopApply
            \/ SocketOpen \/ StalenessRecent \/ StalenessProbe
            \/ \E alive \in BOOLEAN : StalenessVerdict(alive)
  BY <1>1, <1>13 DEF HandleDuplicateOrApply, LoopApply, SocketOpen,
     StalenessRecent, StalenessProbe, StalenessVerdict, apiVars, syncVars
<1>14. CASE CheckpointBegin \/ (\E q \in hashing : CheckpointSave(q))
  BY <1>1, <1>14 DEF CheckpointBegin, CheckpointSave, apiVars, syncVars
<1>15. CASE UNCHANGED vars \/ (EmitStep /\ UNCHANGED clientVars) \/ FanOutStep
  BY <1>1, <1>15 DEF vars, apiVars, clientVars, EmitStep, FanOutStep
<1> QED BY <1>2, <1>3, <1>4, <1>5, <1>6, <1>7, <1>8, <1>9, <1>10, <1>11, <1>12,
           <1>13, <1>14, <1>15 DEF Next

\* Without a checkpoint store nothing is captured and nothing is saved.
LEMMA NoCheckpoints ==
    ASSUME Disciplined, ~Checkpointing, [Next]_vars,
           hashing = {}, saved.present = FALSE
    PROVE  hashing' = {} /\ saved'.present = FALSE
<1>1. hashing' = {}
  <2>1. CASE UNCHANGED hashing
    BY <2>1
  <2>2. CASE \E usable \in BOOLEAN : Start(usable)
    BY <2>2 DEF Start
  <2>3. CASE \/ ResumeReply \/ HydrateReply \/ OnOwnEnvelope \/ OnForeignEnvelope
             \/ HandleDuplicateOrApply \/ HandleGap \/ PlanReply \/ ResyncReply
             \/ LoopApply \/ LoopThrows \/ LoopDone \/ SocketOpen \/ SocketClose
             \/ StalenessRecent \/ StalenessProbe
             \/ \E alive \in BOOLEAN : StalenessVerdict(alive)
    BY <2>3 DEF ResumeReply, HydrateReply, OnOwnEnvelope, OnForeignEnvelope,
       OnEnvelope, HandleDuplicateOrApply, HandleGap, PlanReply, ResyncReply,
       LoopApply, LoopThrows, LoopDone, SocketOpen, SocketClose,
       StalenessRecent, StalenessProbe, StalenessVerdict, checkpointVars
  <2>4. CASE Stop \/ Reload \/ CheckpointBegin
    BY <2>4 DEF Stop, Reload, CheckpointBegin
  <2>5. CASE \/ UNCHANGED vars \/ (EmitStep /\ UNCHANGED clientVars)
             \/ FanOutStep \/ ServeStep \/ FailStep
    BY <2>5 DEF vars, clientVars, FanOutStep, ServeStep, FailStep
  <2> QED BY <2>2, <2>3, <2>4, <2>5 DEF Next
<1>2. saved'.present = FALSE
  BY BufferStep DEF NoCheckpoint
<1> QED BY <1>1, <1>2

\* While a number is allocated and its envelope is not yet stored, everything
\* stored is below it, and one number belongs to one stored envelope
\* (dispatcher.py, emit).
LEMMA EmissionFacts ==
    ASSUME DispatcherInv
    PROVE  /\ ~Quiet => counter >= 0 /\ \A e : In(persisted, e) => e.sequence < counter
           /\ \A e, f : In(persisted, e) /\ In(persisted, f)
                /\ e.sequence = f.sequence => e = f
<1> USE ConstantFacts
<1>1. ASSUME ~Quiet
      PROVE  counter >= 0 /\ \A e : In(persisted, e) => e.sequence < counter
  <2>1. PICK t \in Tasks : pc[t] = "allocated"
    BY <1>1 DEF Quiet
  <2>2. /\ env[t] \in Envelope /\ env[t].sequence = counter
        /\ \A i \in 1..Len(persisted) : persisted[i].sequence < counter
    BY <2>1 DEF DispatcherInv, InCriticalSection
  <2> QED BY <2>2, EnvelopeFacts DEF In
<1>2. ASSUME NEW e, NEW f, In(persisted, e), In(persisted, f),
             e.sequence = f.sequence
      PROVE  e = f
  <2>1. PICK i \in 1..Len(persisted) : persisted[i] = e
    BY <1>2 DEF In
  <2>2. PICK j \in 1..Len(persisted) : persisted[j] = f
    BY <1>2 DEF In
  <2>3. e.sequence \in Int /\ i \in Int /\ j \in Int
    <3>1. persisted \in Seq(Envelope)
      BY DEF DispatcherInv, DispatcherTypeOK
    <3> QED BY <1>2, <3>1, InTypes
  <2>4. ~(i < j) /\ ~(j < i)
    BY <1>2, <2>1, <2>2, <2>3 DEF DispatcherInv, SequenceOrderIsPersistOrder
  <2> QED BY <2>1, <2>2, <2>3, <2>4
<1> QED BY <1>1, <1>2

\* A state that holds everything below a number holds everything below it when
\* the log has grown, if an emission in progress is not behind that number or its
\* number is one the state's summary stands for.
LEMMA HoldsGrows ==
    ASSUME SyncInv, [Next]_vars, NEW q, NEW next \in Int,
           Holds(persisted, q, next), ~Quiet => next <= counter \/ Reaches(q, counter)
    PROVE  Holds(persisted', q, next)
<1>1. /\ counter \in Int
      /\ \A e : In(persisted', e) =>
           In(persisted, e) \/ (~Quiet /\ e.sequence = counter)
  BY LogGrows, StepOfDispatcher DEF SyncInv, TypeInv
<1>2. ASSUME NEW n \in 1..Len(persisted'), persisted'[n].kind = "domain",
             persisted'[n].sequence < next
      PROVE  In(q, persisted'[n]) \/ Covers(q, persisted'[n])
  <2>1. In(persisted', persisted'[n])
    BY DEF In
  <2>2. CASE In(persisted, persisted'[n])
    BY <1>2, <2>2 DEF Holds, In
  <2>3. CASE ~Quiet /\ persisted'[n].sequence = counter
    BY <1>1, <1>2, <2>3 DEF Covers, Reaches
  <2> QED BY <1>1, <2>1, <2>2, <2>3
<1> QED BY <1>2 DEF Holds

\* An emission in progress carries a number the client is not past, or one that
\* its summary stands for.
LEMMA BehindStep ==
    ASSUME Disciplined, SyncInv, SkipInv, [Next]_vars
    PROVE  ~Quiet' => expected' <= counter' \/ Reaches(state', counter')
<1> USE ConstantFacts
<1>i. DispatcherInv /\ TypeInv /\ state \in Seq(Entry)
  BY DEF SyncInv, TypeInv, ClientTypeOK
<1>1. CASE counter' = counter + 1 /\ UNCHANGED <<persisted, req, clientVars>>
  <2>1. expected' = expected
    BY <1>1 DEF clientVars
  <2> QED BY <1>1, <2>1, Numbers
<1>2. ASSUME counter' = counter, Quiet => Quiet', ~Quiet'
      PROVE  expected' <= counter' \/ Reaches(state', counter')
  <2>1. /\ ~Quiet /\ counter >= 0
        /\ expected <= counter \/ Reaches(state, counter)
        /\ \A e : In(persisted, e) => e.sequence < counter
    BY <1>2, <1>i, EmissionFacts DEF SkipInv
  <2>2. CASE Keeps
    BY <1>2, <2>1, <2>2 DEF Keeps
  <2>3. ASSUME NEW e, Applies(e)
        PROVE  expected' <= counter' \/ Reaches(state', counter')
    <3>1. e.sequence < counter /\ e.sequence = expected /\ expected' = expected + 1
      BY <2>1, <2>3 DEF Applies
    <3> QED BY <1>2, <3>1, Numbers
  <2>4. ASSUME NEW s \in Slots, Adopts(s)
        PROVE  expected' <= counter' \/ Reaches(state', counter')
    <3>1. /\ Hydrated(state') /\ state'[1].sequence = req[s].sequence
          /\ expected' = req[s].sequence + 1
          /\ req[s].sequence \in Int /\ counter \in Int
      BY <2>4, Numbers DEF Adopts, SkipInv
    <3> QED BY <1>2, <3>1 DEF Reaches
  <2>5. CASE Plans
    <3>1. /\ mutex = "plan" /\ req["recover"].at = "reply"
          /\ req["recover"].outcome = "ok"
          /\ expected' = req["recover"].sequence + 1
      BY <2>5 DEF Plans
    <3>2. In(persisted, pending) /\ pending.sequence > expected
      BY <3>1 DEF SyncInv, PlanInv
    <3>3. /\ pending.sequence < counter
          /\ pending.sequence \in Int
          /\ expected \in Int /\ counter \in Int /\ req["recover"].sequence \in Int
      BY <1>i, <2>1, <3>1, <3>2, InTypes, Numbers DEF DispatcherInv, DispatcherTypeOK
    <3>4. pending.sequence > req["recover"].sequence
      BY <3>1, <3>2, <3>3 DEF SyncInv, ConsistencySkipsOnlyHoles, In
    <3> QED BY <1>2, <3>1, <3>3, <3>4
  <2>6. ~Resumes
    BY DEF Resumes, SkipInv
  <2>7. CASE Reloads
    BY <1>2, <2>1, <2>7 DEF Reloads
  <2> QED BY <2>2, <2>3, <2>4, <2>5, <2>6, <2>7, FoldStep
<1> QED BY <1>1, <1>2, <1>i, EmissionStep

\* An awaited snapshot is a snapshot: a summary of the log up to its number.
LEMMA SnapshotsHoldStep ==
    ASSUME Disciplined, SyncInv, SkipInv, [Next]_vars,
           NEW s \in Slots, AwaitsSnapshot(s)'
    PROVE  /\ req'[s].at \in {"sent", "read"} => req'[s].kind = "snapshot"
           /\ req'[s].at = "reply" /\ req'[s].outcome = "ok" =>
                /\ Hydrated(req'[s].state)
                /\ req'[s].state[1].sequence = req'[s].sequence
<1>i. DispatcherInv /\ TypeInv
  BY DEF SyncInv, TypeInv
<1>1. CASE req'[s] = SnapshotRequest
  BY <1>1 DEF SnapshotRequest
<1>2. CASE AwaitsSnapshot(s) /\ req'[s] = req[s]
  BY <1>2 DEF SkipInv
<1>3. CASE /\ AwaitsSnapshot(s)
           /\ Serve(s) \/ RequestFails(s)
           /\ UNCHANGED clientVars
  <2>1. req[s].at \in {"sent", "read"} => req[s].kind = "snapshot"
    BY <1>3 DEF SkipInv
  <2>2. CASE GotCurrent(s) \/ GotFailure(s)
    BY <2>1, <2>2 DEF GotCurrent, GotFailure
  <2>3. CASE GotSnapshot(s)
    <3>1. req[s].current \in -1..MaxSequence
      <4>1. RequestOK(req[s]) /\ req[s].at = "read"
        BY <1>i, <2>3 DEF GotSnapshot, TypeInv
      <4>2. req[s].current \in 0..MaxSequence
        BY <4>1 DEF RequestOK
      <4> QED BY <4>2, ConstantFacts
    <3>2. /\ Hydrated(Materialize(req[s].current))
          /\ Materialize(req[s].current)[1].sequence = req[s].current
      BY <1>i, <3>1, MaterializeFacts
    <3> QED BY <2>3, <3>2 DEF GotSnapshot
  <2>4. ASSUME NEW events, GotReplay(s, events) PROVE FALSE
    BY <2>1, <2>4 DEF GotReplay
  <2> QED BY <1>3, <1>i, <2>2, <2>3, <2>4, RequestStep
<1> QED BY <1>1, <1>2, <1>3, <1>i, SnapshotStep

\* Every stored domain event below the expected number stays in the projection,
\* or below its summary.
LEMMA HoldsStep ==
    ASSUME Disciplined, SyncInv, SkipInv, [Next]_vars
    PROVE  Holds(persisted', state', expected')
<1> USE ConstantFacts
<1>i. /\ DispatcherInv /\ persisted \in Seq(Envelope)
      /\ state \in Seq(Entry)
      /\ Holds(persisted, state, expected)
  BY DEF SyncInv, TypeInv, ClientTypeOK, DispatcherInv, DispatcherTypeOK, SkipInv
<1>1. CASE Keeps
  BY <1>1, <1>i, HoldsGrows, Numbers DEF Keeps, SkipInv
<1>2. ASSUME NEW e, Applies(e) PROVE Holds(persisted', state', expected')
  <2>1. /\ In(persisted, e) /\ e.sequence = expected
        /\ expected' = expected + 1 /\ persisted' = persisted
        /\ \/ e.kind = "heartbeat" /\ state' = state
           \/ e.kind # "heartbeat" /\ state' = Append(state, e)
    BY <1>2 DEF Applies
  <2>2. e \in Entry
    BY <1>i, <2>1, InTypes, EnvelopeFacts
  <2>3. \A f : In(state, f) \/ Covers(state, f) => In(state', f) \/ Covers(state', f)
    <3>1. /\ Len(state) \in Nat
          /\ Len(Append(state, e)) = Len(state) + 1
          /\ \A i \in 1..Len(state) : Append(state, e)[i] = state[i]
      BY <1>i, <2>2, AppendFacts
    <3>2. \A f : In(state, f) => In(state', f)
      BY <2>1, <3>1 DEF In
    <3>3. ASSUME NEW f, Covers(state, f) PROVE Covers(state', f)
      <4>1. Hydrated(state) /\ f.sequence <= state[1].sequence
        BY <3>3 DEF Covers
      <4>2. Hydrated(Append(state, e)) /\ Append(state, e)[1] = state[1]
        BY <1>i, <2>2, <4>1, AppendHydrated
      <4> QED BY <2>1, <4>1, <4>2 DEF Covers
    <3> QED BY <3>2, <3>3
  <2>4. e.kind = "domain" => In(state', e)
    <3>1. /\ Len(state) \in Nat
          /\ Len(Append(state, e)) = Len(state) + 1
          /\ Append(state, e)[Len(state) + 1] = e
      BY <1>i, <2>2, AppendFacts
    <3> QED BY <2>1, <3>1 DEF In
  <2>5. ASSUME NEW n \in 1..Len(persisted), persisted[n].kind = "domain",
               persisted[n].sequence < expected + 1
        PROVE  In(state', persisted[n]) \/ Covers(state', persisted[n])
    <3>1. In(persisted, persisted[n]) /\ persisted[n].sequence \in Int
      BY <1>i, InTypes DEF In
    <3>2. CASE persisted[n].sequence < expected
      BY <1>i, <2>3, <2>5, <3>2 DEF Holds
    <3>3. CASE persisted[n].sequence = expected
      <4>1. persisted[n] = e
        BY <1>i, <2>1, <3>1, <3>3, EmissionFacts
      <4> QED BY <2>4, <2>5, <4>1
    <3> QED BY <2>5, <3>1, <3>2, <3>3, Numbers
  <2> QED BY <2>1, <2>5 DEF Holds
<1>3. ASSUME NEW s \in Slots, Adopts(s) PROVE Holds(persisted', state', expected')
  <2>1. /\ Hydrated(state') /\ state'[1].sequence = req[s].sequence
        /\ expected' = req[s].sequence + 1 /\ persisted' = persisted
        /\ req[s].sequence \in Int
    BY <1>3, Numbers DEF Adopts, SkipInv
  <2>2. ASSUME NEW n \in 1..Len(persisted), persisted[n].sequence < expected'
        PROVE  Covers(state', persisted[n])
    <3>1. persisted[n].sequence \in Int
      BY <1>i, InTypes DEF In
    <3> QED BY <2>1, <2>2, <3>1 DEF Covers
  <2> QED BY <2>1, <2>2 DEF Holds
<1>4. CASE Plans
  <2>1. /\ mutex = "plan" /\ req["recover"].at = "reply"
        /\ req["recover"].outcome = "ok"
        /\ expected' = req["recover"].sequence + 1
        /\ state' = state /\ persisted' = persisted
    BY <1>4 DEF Plans
  <2>2. ASSUME NEW n \in 1..Len(persisted), persisted[n].kind = "domain",
               persisted[n].sequence < expected'
        PROVE  In(state, persisted[n]) \/ Covers(state, persisted[n])
    <3>1. persisted[n].sequence \in Int /\ req["recover"].sequence \in Int
      BY <1>i, <2>1, InTypes, Numbers DEF In
    <3>2. persisted[n].sequence < expected
      BY <2>1, <2>2, <3>1, Numbers DEF SyncInv, ConsistencySkipsOnlyHoles
    <3> QED BY <1>i, <2>2, <3>2 DEF Holds
  <2> QED BY <2>1, <2>2 DEF Holds
<1>5. ~Resumes
  BY DEF Resumes, SkipInv
<1>6. CASE Reloads
  <2>1. \A n \in 1..Len(persisted) : ~(persisted[n].sequence < 0)
    BY <1>i, EnvelopeFacts
  <2>2. persisted' = persisted /\ expected' = 0
    BY <1>6 DEF Reloads
  <2> QED BY <2>1, <2>2 DEF Holds
<1> QED BY <1>1, <1>2, <1>3, <1>4, <1>5, <1>6, FoldStep

\* Every step of a disciplined client without checkpoints keeps it complete.
LEMMA SkipStep ==
    ASSUME Disciplined, ~Checkpointing, SyncInv, SkipInv, [Next]_vars
    PROVE  SkipInv'
<1>1. saved'.present = FALSE /\ hashing' = {}
  BY NoCheckpoints DEF SkipInv
<1>2. ASSUME NEW s \in Slots
      PROVE  /\ AwaitsSnapshot(s)' /\ req'[s].at \in {"sent", "read"}
                  => req'[s].kind = "snapshot"
             /\ AwaitsSnapshot(s)' /\ req'[s].at = "reply" /\ req'[s].outcome = "ok"
                  => /\ Hydrated(req'[s].state)
                     /\ req'[s].state[1].sequence = req'[s].sequence
  BY SnapshotsHoldStep
<1>3. ~Quiet' => expected' <= counter' \/ Reaches(state', counter')
  BY BehindStep
<1>4. Holds(persisted', state', expected')
  BY HoldsStep
<1> QED BY <1>1, <1>2, <1>3, <1>4 DEF SkipInv

\* Without checkpoints a disciplined client of either store never advances past a
\* stored domain event it has not folded in, except by adopting a snapshot taken
\* at or beyond that event's number: whatever is lost, reordered, answered late or
\* trimmed, live delivery and recovery skip nothing (LiveProjection.ts, class
\* comment; recover, hydrateFromSnapshot; observation_routes.py).
THEOREM NothingSkipped ==
    ASSUME Disciplined, ~Checkpointing PROVE Spec => []NoSilentSkip
<1>1. Init => SkipInv
  BY ConstantFacts DEF Init, DispatcherInit, NoCheckpoint, NoRequest, Quiet, Holds,
     SkipInv
<1>2. SyncInv /\ SkipInv /\ [Next]_vars => SkipInv'
  BY SkipStep
<1>3. SkipInv => NoSilentSkip
  BY DEF SkipInv, Holds, Covers, In, NoSilentSkip
<1> QED BY <1>1, <1>2, <1>3, SyncInvariant, PTL DEF Spec
=============================================================================
