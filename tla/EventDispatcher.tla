-------------------------- MODULE EventDispatcher --------------------------
(***************************************************************************)
(* The sequence authority of one observation stream and the dispatcher     *)
(* that turns engine events into persisted, numbered envelopes             *)
(* (app/observation/gateway/dispatcher.py, app/observation/sequences/).    *)
(*                                                                         *)
(* emit() allocates a number and persists the envelope under one asyncio   *)
(* lock, then fans the envelope out to the subscribers after the lock has  *)
(* been released.  Two stores implement the same port:                     *)
(*   - memory.py keeps a counter and a bounded deque in the process; its   *)
(*     methods never suspend, so a coroutine runs through several of them  *)
(*     without another coroutine in between;                               *)
(*   - sql_binding.py keeps both in Postgres; every method is a round      *)
(*     trip, other coroutines run in between, and rows are never trimmed.  *)
(***************************************************************************)
EXTENDS Integers, Sequences, FiniteSets

CONSTANTS
    Tasks,          \* coroutines that call emit() on this stream
    NoTask,         \* the dispatcher lock is free
    Durable,        \* TRUE: the SQL store; FALSE: the in-memory store
    ReplayWindow,   \* maxlen of the in-memory deque
    MaxSequence     \* bound: highest sequence number a behaviour allocates

ASSUME TasksAssumption == NoTask \notin Tasks
ASSUME WindowAssumption == /\ Durable \in BOOLEAN
                           /\ ReplayWindow \in Nat \ {0}
                           /\ MaxSequence \in Nat

VARIABLES
    counter,    \* highest sequence allocated, -1 when none
    persisted,  \* every envelope persisted so far, in the order of persist()
    lock,       \* the task inside `async with self._lock`
    pc,         \* pc[t]: "idle", "allocated" (in the lock) or "fanout"
    env,        \* env[t]: the envelope t is emitting
    net         \* envelopes on their way to the client's WebSocket

dispatcherVars == <<counter, persisted, lock, pc, env, net>>

Kinds == {"domain", "heartbeat"}
Envelope == [sequence : 0..MaxSequence, kind : Kinds]
NoEnvelope == [sequence |-> -1, kind |-> "none"]

-----------------------------------------------------------------------------
(* The SequenceStore port. *)

\* What replay() can still see: the deque drops its oldest entries, the table
\* does not.
Retained ==
    IF Durable \/ Len(persisted) <= ReplayWindow
    THEN persisted
    ELSE SubSeq(persisted, Len(persisted) - ReplayWindow + 1, Len(persisted))

\* The entries of a log that are wanted, in the order of the log: the list
\* comprehensions of the stores and of the routes.
Filter(log, wanted) ==
    LET kept[i \in 0..Len(log)] ==
          IF i = 0 THEN <<>>
          ELSE IF log[i] \in wanted THEN Append(kept[i - 1], log[i])
          ELSE kept[i - 1]
    IN  kept[Len(log)]

\* Mutation: replay includes `after` itself.
ReplayFrom(after, limit) ==
    LET above == Filter(Retained, {e \in Envelope : e.sequence >= after})
    IN  SubSeq(above, 1, IF Len(above) <= limit THEN Len(above) ELSE limit)

\* Envelopes above `after`, in log order (memory) or ORDER BY sequence (SQL);
\* the two agree because of SequenceOrderIsPersistOrder below.
ReplayAfter(after, limit) ==
    LET above == Filter(Retained, {e \in Envelope : e.sequence > after})
    IN  SubSeq(above, 1, IF Len(above) <= limit THEN Len(above) ELSE limit)

\* current(): the last number handed out, whether or not its envelope has
\* been persisted.
Current == counter

-----------------------------------------------------------------------------
DispatcherInit ==
    /\ counter = -1
    /\ persisted = <<>>
    /\ lock = NoTask
    /\ pc = [t \in Tasks |-> "idle"]
    /\ env = [t \in Tasks |-> NoEnvelope]
    /\ net = {}

\* Mutation: emit() without its lock.
AllocateUnlocked(t, kind) ==
    /\ pc[t] = "idle"
    /\ counter < MaxSequence
    /\ lock' = t
    /\ counter' = counter + 1
    /\ env' = [env EXCEPT ![t] = [sequence |-> counter + 1, kind |-> kind]]
    /\ pc' = [pc EXCEPT ![t] = "allocated"]
    /\ UNCHANGED <<persisted, net>>

\* Mutation: the number is read before the counter is incremented.
AllocateBeforeIncrement(t, kind) ==
    /\ pc[t] = "idle"
    /\ lock = NoTask
    /\ counter < MaxSequence
    /\ lock' = t
    /\ counter' = counter + 1
    /\ env' = [env EXCEPT ![t] = [sequence |-> counter, kind |-> kind]]
    /\ pc' = [pc EXCEPT ![t] = "allocated"]
    /\ UNCHANGED <<persisted, net>>

\* emit(), first part: take the lock, allocate the next number and build the
\* envelope around it.
Allocate(t, kind) ==
    /\ pc[t] = "idle"
    /\ lock = NoTask
    /\ counter < MaxSequence
    /\ lock' = t
    /\ counter' = counter + 1
    /\ env' = [env EXCEPT ![t] = [sequence |-> counter + 1, kind |-> kind]]
    /\ pc' = [pc EXCEPT ![t] = "allocated"]
    /\ UNCHANGED <<persisted, net>>

\* emit(), second part: persist the envelope and leave the lock.
Persist(t) ==
    /\ pc[t] = "allocated"
    /\ persisted' = Append(persisted, env[t])
    /\ lock' = NoTask
    /\ pc' = [pc EXCEPT ![t] = "fanout"]
    /\ UNCHANGED <<counter, env, net>>

\* Mutation: the lock is acquired and released by hand, and an exception skips
\* the release.
EmitFailsHoldingLock(t) ==
    /\ pc[t] = "allocated"
    /\ pc' = [pc EXCEPT ![t] = "idle"]
    /\ env' = [env EXCEPT ![t] = NoEnvelope]
    /\ UNCHANGED <<counter, persisted, lock, net>>

\* make_envelope() or persist() raises: the exception leaves the lock (the
\* caller, _emit_update, logs it and goes on) and the allocated number stays a
\* permanent hole.
EmitFails(t) ==
    /\ pc[t] = "allocated"
    /\ lock' = NoTask
    /\ pc' = [pc EXCEPT ![t] = "idle"]
    /\ env' = [env EXCEPT ![t] = NoEnvelope]
    /\ UNCHANGED <<counter, persisted, net>>

\* Mutation: the fan-out does not wait for persist().
FanOutBeforePersist(t, delivered) ==
    /\ pc[t] \in {"allocated", "fanout"}
    /\ net' = IF delivered THEN net \cup {env[t]} ELSE net
    /\ pc' = [pc EXCEPT ![t] = IF @ = "fanout" THEN "idle" ELSE @]
    /\ env' = [env EXCEPT ![t] = IF pc[t] = "fanout" THEN NoEnvelope ELSE @]
    /\ UNCHANGED <<counter, persisted, lock>>

\* emit(), third part, outside the lock: hand the envelope to the WebSocket
\* bridge.  _deliver() isolates a failing subscriber, so the envelope may
\* simply not be sent.
FanOut(t, delivered) ==
    /\ pc[t] = "fanout"
    /\ net' = IF delivered THEN net \cup {env[t]} ELSE net
    /\ pc' = [pc EXCEPT ![t] = "idle"]
    /\ env' = [env EXCEPT ![t] = NoEnvelope]
    /\ UNCHANGED <<counter, persisted, lock>>

\* Envelopes leave the transport: one is delivered or dropped, or the socket
\* closes and all of them are lost.  The order of arrival is free.
Leave(gone) ==
    /\ net' = net \ gone
    /\ UNCHANGED <<counter, persisted, lock, pc, env>>

\* All numbers have been handed out and every emission has ended.
EmissionOver ==
    /\ counter = MaxSequence
    /\ \A t \in Tasks : pc[t] = "idle"
    /\ net = {}

DispatcherNext ==
    \/ \E t \in Tasks, k \in Kinds : Allocate(t, k)
    \/ \E t \in Tasks : Persist(t)
    \/ \E t \in Tasks : EmitFails(t)
    \/ \E t \in Tasks, d \in BOOLEAN : FanOut(t, d)
    \/ \E gone \in (SUBSET net) \ {{}} : Leave(gone)
    \/ EmissionOver /\ UNCHANGED dispatcherVars

\* A coroutine that holds the lock is run to the end of its critical section
\* by the event loop (the store answers or raises), and fan-out is awaited.
DispatcherFairness ==
    /\ \A t \in Tasks : WF_dispatcherVars(Persist(t) \/ EmitFails(t))
    /\ \A t \in Tasks : WF_dispatcherVars(\E d \in BOOLEAN : FanOut(t, d))

DispatcherSpec ==
    DispatcherInit /\ [][DispatcherNext]_dispatcherVars /\ DispatcherFairness

-----------------------------------------------------------------------------
(* Properties *)

\* Type invariant of the dispatcher.
DispatcherTypeOK ==
    /\ counter \in -1..MaxSequence
    /\ persisted \in Seq(Envelope)
    /\ lock \in Tasks \cup {NoTask}
    /\ pc \in [Tasks -> {"idle", "allocated", "fanout"}]
    /\ env \in [Tasks -> Envelope \cup {NoEnvelope}]
    /\ net \subseteq Envelope

\* Sequence order is persist order: whatever the interleaving of emitting
\* coroutines, failed emissions included, envelopes enter the log with
\* strictly growing numbers.  The in-memory replay() filters the deque without
\* sorting it, so the ascending replay clients rely on rests on this
\* (dispatcher.py, emit; memory.py, replay).
SequenceOrderIsPersistOrder ==
    \A i, j \in 1..Len(persisted) :
        i < j => persisted[i].sequence < persisted[j].sequence

\* An envelope is announced to the client only after a replay could return it
\* (until the deque trims it): a client told of number n that asks for the
\* events after n - 1 never gets an answer from before n was stored (emit:
\* persist precedes the fan-out).
AnnouncedIsPersisted ==
    \A e \in net : \E i \in 1..Len(persisted) : persisted[i] = e

\* The inductive strengthening.  A task is in the critical section exactly when
\* it holds the lock, and then it carries the number last allocated, which is
\* above everything persisted; what is announced has been persisted.
InCriticalSection(t) ==
    /\ pc[t] = "allocated" <=> lock = t
    /\ pc[t] = "allocated" =>
        /\ env[t] \in Envelope
        /\ env[t].sequence = counter
        /\ \A i \in 1..Len(persisted) : persisted[i].sequence < counter
    /\ pc[t] = "fanout" => \E i \in 1..Len(persisted) : persisted[i] = env[t]

\* What the mutual exclusion of emit() keeps true in every state: the conjuncts
\* of InCriticalSection for each coroutine, no persisted number above the
\* counter, and the two properties above (dispatcher.py, emit).
DispatcherInv ==
    /\ DispatcherTypeOK
    /\ \A t \in Tasks : InCriticalSection(t)
    /\ \A i \in 1..Len(persisted) : persisted[i].sequence <= counter
    /\ SequenceOrderIsPersistOrder
    /\ AnnouncedIsPersisted

\* Every emission that took a number leaves the lock again, whichever way it
\* ends: no task blocks the stream forever (emit, `async with self._lock`).
LockIsReleased == \A t \in Tasks : (lock = t) ~> (lock # t)
=============================================================================
