------------------------- MODULE MaintenanceOutbox -------------------------
(***************************************************************************)
(* Durable delivery of governed-maintenance events from the SQLite outbox  *)
(* (app/engine/governed_maintenance_outbox.py, maintenance_outbox_worker.py*)
(* and governed_maintenance_observatory.py) to the Observatory's           *)
(* idempotent ingestion (observatory/backend: routes.py, gateway.py,       *)
(* store.py).                                                              *)
(*                                                                         *)
(* A worker is a one-shot job started by an external scheduler: it claims  *)
(* a batch under an expiring lease, posts the events one by one and        *)
(* records each outcome.  Every SQLite transaction is one action.  A       *)
(* worker is never timed: it may be slower than its lease, so a second     *)
(* worker may claim what the first still holds.  Times are kept relative   *)
(* to now, and Tick lets a unit of time pass.                              *)
(***************************************************************************)
EXTENDS Integers, FiniteSets

CONSTANTS
    Events,         \* verified maintenance events, by digest
    NoEvent,        \* no event
    Workers,        \* worker processes that may run at the same time
    MaxAttempts,    \* max_attempts
    Lease,          \* lease_seconds
    BaseBackoff,    \* base_backoff_seconds
    MaxBackoff,     \* max_backoff_seconds
    BatchLimit,     \* limit of deliver_pending()
    MaxRequeues     \* bound: retry_dead_letter() calls per event

ASSUME EventsAssumption == IsFiniteSet(Events) /\ NoEvent \notin Events
ASSUME OutboxAssumption ==
    /\ {MaxAttempts, Lease, BaseBackoff, MaxBackoff, BatchLimit} \subseteq Nat \ {0}
    /\ MaxBackoff >= BaseBackoff
    /\ MaxRequeues \in Nat
\* The delays are natural numbers.
ASSUME BackoffAssumption ==
    \A n \in 1..MaxAttempts : BaseBackoff * 2 ^ (n - 1) \in Nat

VARIABLES
    row,        \* row[e]: the outbox row of e
    created,    \* created[e]: rank of the row by (created_at, event_digest)
    batch,      \* batch[w]: jobs claimed by w and not yet posted
    call,       \* call[w]: the job w is posting, and how far the request got
    orphans,    \* requests the Observatory still handles for nobody
    stored,     \* events in the Observatory's store, with their key
    published,  \* published[e]: how often e was fanned out on the bus
    posts,      \* posts[e]: requests sent for e
    requeues    \* requeues[e]: retry_dead_letter() calls that took effect

outboxVars == <<row, created>>
observatoryVars == <<orphans, stored, published>>
vars == <<row, created, batch, call, orphans, stored, published, posts, requeues>>

Statuses == {"absent", "pending", "delivering", "delivered", "dead_letter"}
Row == [status : Statuses, attempts : 0..MaxAttempts,
        due : 0..MaxBackoff,    \* time until next_attempt_at
        lease : 0..Lease]       \* time until lease_until
Job == [event : Events, attempts : 1..MaxAttempts]
\* "stored": committed by this request, which has still to publish it.
Stages == {"none", "sent", "stored", "acked", "lost"}
NoCall == [stage |-> "none", event |-> NoEvent, attempts |-> 0]

Init ==
    /\ row = [e \in Events |-> [status |-> "absent", attempts |-> 0,
                                due |-> 0, lease |-> 0]]
    /\ created = [e \in Events |-> 0]
    /\ batch = [w \in Workers |-> {}]
    /\ call = [w \in Workers |-> NoCall]
    /\ orphans = {}
    /\ stored = {}
    /\ published = [e \in Events |-> 0]
    /\ posts = [e \in Events |-> 0]
    /\ requeues = [e \in Events |-> 0]

-----------------------------------------------------------------------------
(* The outbox. *)

\* enqueue(); for a digest that has a row it changes nothing.
Enqueue(e) ==
    /\ row[e].status = "absent"
    /\ row' = [row EXCEPT ![e].status = "pending"]
    /\ created' = [created EXCEPT ![e] =
                    1 + Cardinality({f \in Events : row[f].status # "absent"})]
    /\ UNCHANGED <<batch, call, observatoryVars, posts, requeues>>

LeaseExpired(e) == row[e].status = "delivering" /\ row[e].lease = 0

\* Mutation: no sweep for rows whose lease expires at the attempt limit.
NoneAtLimit == {}

\* Mutation: an expired lease makes a dead letter whatever the attempts.
EveryExpired == {e \in Events : LeaseExpired(e)}

\* Rows the first UPDATE of _claim() moves to dead_letter.
AtLimit == {e \in Events : LeaseExpired(e) /\ row[e].attempts >= MaxAttempts}

\* Mutation: an expired lease is claimed again whatever the attempts.
DueIgnoringLimit == {e \in Events :
    \/ row[e].attempts < MaxAttempts /\ row[e].status = "pending" /\ row[e].due = 0
    \/ LeaseExpired(e)}

\* Rows the SELECT of _claim() may take.
Due == {e \in Events :
          /\ row[e].attempts < MaxAttempts
          /\ \/ row[e].status = "pending" /\ row[e].due = 0
             \/ LeaseExpired(e)}

\* ORDER BY created_at, event_digest LIMIT BatchLimit
Oldest(due) ==
    {e \in due : Cardinality({f \in due : created[f] < created[e]}) < BatchLimit}

\* Mutation: the attempt is counted only when its outcome is recorded.
ClaimUncounted(w) ==
    /\ batch[w] = {} /\ call[w] = NoCall
    /\ LET claimed == Oldest(Due) IN
        /\ row' = [e \in Events |->
             IF e \in AtLimit
             THEN [row[e] EXCEPT !.status = "dead_letter", !.lease = 0]
             ELSE IF e \in claimed
             THEN [row[e] EXCEPT !.status = "delivering", !.lease = Lease]
             ELSE row[e]]
        /\ batch' = [batch EXCEPT ![w] =
             {[event |-> e, attempts |-> row[e].attempts + 1] : e \in claimed}]
    /\ UNCHANGED <<created, call, observatoryVars, posts, requeues>>

\* _claim(), one transaction: the sweep, then the batch with its leases.
Claim(w) ==
    /\ batch[w] = {} /\ call[w] = NoCall
    /\ LET claimed == Oldest(Due) IN
        /\ row' = [e \in Events |->
             IF e \in AtLimit
             THEN [row[e] EXCEPT !.status = "dead_letter", !.lease = 0]
             ELSE IF e \in claimed
             THEN [row[e] EXCEPT !.status = "delivering",
                                 !.attempts = row[e].attempts + 1,
                                 !.lease = Lease]
             ELSE row[e]]
        /\ batch' = [batch EXCEPT ![w] =
             {[event |-> e, attempts |-> row[e].attempts + 1] : e \in claimed}]
    /\ UNCHANGED <<created, call, observatoryVars, posts, requeues>>

\* The delay after the n-th attempt.
Backoff(n) == LET delay == BaseBackoff * 2 ^ (n - 1)
              IN  IF delay <= MaxBackoff THEN delay ELSE MaxBackoff

\* Mutation: the limit is off by one.
MarkFailureOffByOne(e, n) ==
    IF row[e].status # "delivering" THEN row
    ELSE [row EXCEPT ![e] =
            [@ EXCEPT !.status = IF n > MaxAttempts THEN "dead_letter" ELSE "pending",
                      !.due = IF n > MaxAttempts THEN 0 ELSE Backoff(n),
                      !.lease = 0]]

\* _mark_failure(): decided by the attempt number n the worker was given when
\* it claimed the row, applied to the row as it is now.
MarkFailure(e, n) ==
    IF row[e].status # "delivering" THEN row
    ELSE [row EXCEPT ![e] =
            [@ EXCEPT !.status = IF n >= MaxAttempts THEN "dead_letter" ELSE "pending",
                      !.due = IF n >= MaxAttempts THEN 0 ELSE Backoff(n),
                      !.lease = 0]]

\* Mutation: an operator may requeue a row whatever its status.
RetryAnyStatus(e) ==
    /\ row[e].status # "absent"
    /\ requeues[e] < MaxRequeues
    /\ requeues' = [requeues EXCEPT ![e] = @ + 1]
    /\ row' = [row EXCEPT ![e] = [status |-> "pending", attempts |-> 0,
                                  due |-> 0, lease |-> 0]]
    /\ UNCHANGED <<created, batch, call, observatoryVars, posts>>

\* retry_dead_letter()
RetryDeadLetter(e) ==
    /\ row[e].status = "dead_letter"
    /\ requeues[e] < MaxRequeues
    /\ requeues' = [requeues EXCEPT ![e] = @ + 1]
    /\ row' = [row EXCEPT ![e] = [status |-> "pending", attempts |-> 0,
                                  due |-> 0, lease |-> 0]]
    /\ UNCHANGED <<created, batch, call, observatoryVars, posts>>

-----------------------------------------------------------------------------
(* deliver_pending(), after the claim. *)

\* The worker posts the oldest job of its batch.
Post(w) ==
    /\ call[w] = NoCall
    /\ \E j \in batch[w] :
        /\ \A k \in batch[w] : created[j.event] <= created[k.event]
        /\ batch' = [batch EXCEPT ![w] = @ \ {j}]
        /\ call' = [call EXCEPT ![w] = [stage |-> "sent", event |-> j.event,
                                        attempts |-> j.attempts]]
        /\ posts' = [posts EXCEPT ![j.event] = @ + 1]
    /\ UNCHANGED <<outboxVars, observatoryVars, requeues>>

\* Mutation: any answer counts as an acknowledgement.
RecordSuccessAnyAnswer(w) ==
    /\ call[w].stage \in {"acked", "lost"}
    /\ row' = IF row[call[w].event].status = "delivering"
              THEN [row EXCEPT ![call[w].event] =
                      [@ EXCEPT !.status = "delivered", !.lease = 0]]
              ELSE row
    /\ call' = [call EXCEPT ![w] = NoCall]
    /\ UNCHANGED <<created, batch, observatoryVars, posts, requeues>>

\* The acknowledgement arrives and is recorded, if the row is still
\* 'delivering'.
RecordSuccess(w) ==
    /\ call[w].stage = "acked"
    /\ row' = IF row[call[w].event].status = "delivering"
              THEN [row EXCEPT ![call[w].event] =
                      [@ EXCEPT !.status = "delivered", !.lease = 0]]
              ELSE row
    /\ call' = [call EXCEPT ![w] = NoCall]
    /\ UNCHANGED <<created, batch, observatoryVars, posts, requeues>>

\* What the Observatory goes on doing for a request nobody waits for.  Two
\* requests for one event at the same stage count once: the second finds what
\* the first has stored.
Abandon(c) ==
    IF c.stage \in {"sent", "stored"}
    THEN orphans \cup {[stage |-> c.stage, event |-> c.event]}
    ELSE orphans

\* The request times out, is refused, or its answer is lost or malformed; the
\* failure is recorded.  A request that was sent may or may not arrive.
RecordFailure(w) ==
    /\ call[w] # NoCall
    /\ row' = MarkFailure(call[w].event, call[w].attempts)
    /\ \/ orphans' = Abandon(call[w])
       \/ call[w].stage = "sent" /\ UNCHANGED orphans
    /\ call' = [call EXCEPT ![w] = NoCall]
    /\ UNCHANGED <<created, batch, stored, published, posts, requeues>>

\* The worker process dies, or a SQLite error ends deliver_pending().
WorkerCrash(w) ==
    /\ batch[w] # {} \/ call[w] # NoCall
    /\ batch' = [batch EXCEPT ![w] = {}]
    /\ call' = [call EXCEPT ![w] = NoCall]
    /\ orphans' = Abandon(call[w])
    /\ UNCHANGED <<outboxVars, stored, published, posts, requeues>>

-----------------------------------------------------------------------------
(* The Observatory: ingest_event(), observe_idempotent(). *)

\* append_idempotent(): the event and its key in one transaction.
Ingest(w) ==
    /\ call[w].stage = "sent"
    /\ stored' = stored \cup {call[w].event}
    /\ call' = [call EXCEPT ![w].stage =
                  IF call[w].event \in stored THEN "acked" ELSE "stored"]
    /\ UNCHANGED <<outboxVars, batch, orphans, published, posts, requeues>>

\* bus.publish(), then the acknowledgement.
Publish(w) ==
    /\ call[w].stage = "stored"
    /\ published' = [published EXCEPT ![call[w].event] = @ + 1]
    /\ call' = [call EXCEPT ![w].stage = "acked"]
    /\ UNCHANGED <<outboxVars, batch, orphans, stored, posts, requeues>>

\* Mutation: `inserted` is ignored, a replayed request is published again.
IngestOrphanAgain(e) ==
    /\ [stage |-> "sent", event |-> e] \in orphans
    /\ stored' = stored \cup {e}
    /\ orphans' = (orphans \ {[stage |-> "sent", event |-> e]})
                    \cup {[stage |-> "stored", event |-> e]}
    /\ UNCHANGED <<outboxVars, batch, call, published, posts, requeues>>

\* The same two steps for a request nobody waits for.
IngestOrphan(e) ==
    /\ [stage |-> "sent", event |-> e] \in orphans
    /\ stored' = stored \cup {e}
    /\ orphans' = (orphans \ {[stage |-> "sent", event |-> e]}) \cup
                  (IF e \in stored THEN {} ELSE {[stage |-> "stored", event |-> e]})
    /\ UNCHANGED <<outboxVars, batch, call, published, posts, requeues>>

PublishOrphan(e) ==
    /\ [stage |-> "stored", event |-> e] \in orphans
    /\ published' = [published EXCEPT ![e] = @ + 1]
    /\ orphans' = orphans \ {[stage |-> "stored", event |-> e]}
    /\ UNCHANGED <<outboxVars, batch, call, stored, posts, requeues>>

\* The Observatory restarts: its database survives, the requests do not.
ObservatoryCrash ==
    /\ orphans # {} \/ \E w \in Workers : call[w].stage \in {"sent", "stored"}
    /\ orphans' = {}
    /\ call' = [w \in Workers |->
                  IF call[w].stage \in {"sent", "stored"}
                  THEN [call[w] EXCEPT !.stage = "lost"] ELSE call[w]]
    /\ UNCHANGED <<outboxVars, batch, stored, published, posts, requeues>>

Tick ==
    /\ \E e \in Events : row[e].due > 0 \/ row[e].lease > 0
    /\ row' = [e \in Events |->
                 [row[e] EXCEPT !.due = IF @ > 0 THEN @ - 1 ELSE 0,
                                !.lease = IF @ > 0 THEN @ - 1 ELSE 0]]
    /\ UNCHANGED <<created, batch, call, observatoryVars, posts, requeues>>

-----------------------------------------------------------------------------
WorkerStep(w) ==
    \/ Claim(w)
    \/ Post(w)
    \/ RecordSuccess(w)
    \/ RecordFailure(w)
    \/ WorkerCrash(w)
    \/ Ingest(w)
    \/ Publish(w)

EventStep(e) ==
    \/ Enqueue(e)
    \/ RetryDeadLetter(e)
    \/ IngestOrphan(e)
    \/ PublishOrphan(e)

Next ==
    \/ \E w \in Workers : WorkerStep(w)
    \/ \E e \in Events : EventStep(e)
    \/ ObservatoryCrash
    \/ Tick

\* Time passes; the scheduler keeps starting workers; a worker that is not
\* killed goes through its batch, for every request ends by the HTTP timeout.
\* Nothing is assumed of the Observatory, of crashes or of operators.
Fairness ==
    /\ WF_vars(Tick)
    /\ \A w \in Workers :
        /\ WF_vars(Claim(w))
        /\ WF_vars(Post(w))
        /\ WF_vars(RecordSuccess(w) \/ RecordFailure(w))

Spec == Init /\ [][Next]_vars /\ Fairness

-----------------------------------------------------------------------------
(* Properties *)

\* Type invariant of the outbox, its workers and the Observatory's side.
OutboxTypeOK ==
    /\ row \in [Events -> Row]
    /\ created \in [Events -> Nat]
    /\ batch \in [Workers -> SUBSET Job]
    /\ call \in [Workers -> {NoCall} \cup
                   [stage : Stages \ {"none"}, event : Events, attempts : 1..MaxAttempts]]
    /\ orphans \subseteq [stage : {"sent", "stored"}, event : Events]
    /\ stored \subseteq Events
    /\ published \in [Events -> Nat]
    /\ posts \in [Events -> Nat]
    /\ requeues \in [Events -> 0..MaxRequeues]

\* A row is marked delivered only for an event the Observatory has durably
\* stored, through timeouts, crashes on both sides and overlapping workers
\* (deliver_pending; deliver_maintenance_event: an HTTP success alone is not
\* enough; observe_idempotent).
DeliveredIsStored ==
    \A e \in Events : row[e].status = "delivered" => e \in stored

\* However often an event is posted, the Observatory fans it out at most once
\* (observe_idempotent, append_idempotent's `inserted`).
PublishedAtMostOnce == \A e \in Events : published[e] <= 1

\* Request of worker w, or of nobody, that has stored e and will publish it.
Publishing(e, w) == call[w].stage = "stored" /\ call[w].event = e
OrphanPublishing(e) == [stage |-> "stored", event |-> e] \in orphans

\* Inductive strengthening of DeliveredIsStored: an acknowledgement exists only
\* for a stored event, and so does a request that is past the transaction.
StoredInv ==
    /\ DeliveredIsStored
    /\ \A w \in Workers :
         call[w].stage \in {"stored", "acked"} => call[w].event \in stored
    /\ \A e \in Events : OrphanPublishing(e) => e \in stored

\* Inductive strengthening of PublishedAtMostOnce: the right to publish e is
\* created once, with its row in the store, and is held by one request or has
\* been used.
OnePublisher ==
    \A e \in Events :
        /\ published[e] <= 1
        /\ published[e] = 1 => e \in stored
        /\ OrphanPublishing(e) => /\ e \in stored
                                  /\ published[e] = 0
                                  /\ \A w \in Workers : ~Publishing(e, w)
        /\ \A w \in Workers : Publishing(e, w) =>
             /\ e \in stored
             /\ published[e] = 0
             /\ \A v \in Workers : Publishing(e, v) => v = w

\* The inductive invariant of the outbox and the Observatory's ingestion.
OutboxInv == OutboxTypeOK /\ StoredInv /\ OnePublisher

\* A delivered row never leaves that status: neither a late failure of another
\* worker nor a claim nor an operator takes it back (the status conditions of
\* _mark_failure, _claim and retry_dead_letter).
DeliveredIsFinal ==
    [][\A e \in Events :
         row[e].status = "delivered" => row'[e].status = "delivered"]_vars

\* The refinement mapping: what a row says of the event it carries.
Fate(e) ==
    CASE row[e].status = "absent" -> "none"
      [] row[e].status \in {"pending", "delivering"} -> "open"
      [] row[e].status = "dead_letter" -> "given_up"
      [] OTHER -> "delivered"
Delivery == INSTANCE IdempotentDelivery
              WITH fate <- [e \in Events |-> Fate(e)],
                   fanned <- {e \in Events : published[e] > 0}

\* The outbox and the Observatory implement idempotent delivery: timeouts, lost
\* answers, crashes on both sides, expired leases and overlapping workers add
\* nothing to what IdempotentDelivery allows (deliver_pending, _claim,
\* retry_dead_letter; observe_idempotent).
ImplementsDelivery == Delivery!Spec

\* An event is posted at most max_attempts times for each time it was
\* enqueued or requeued, whatever crashes and overlaps (_claim counts the
\* attempt before anything is sent).
PostsAreBounded ==
    \A e \in Events : posts[e] <= MaxAttempts * (1 + requeues[e])

\* A row that waits for a retry can still be claimed: it has attempts left.  A
\* pending row at the limit is neither claimed by _claim() nor a dead letter
\* an operator could requeue.
NoStrandedRow ==
    \A e \in Events : row[e].status = "pending" => row[e].attempts < MaxAttempts

\* An event becomes a dead letter only when its attempts are used up
\* (_mark_failure, _claim).
DeadLetterAtLimit ==
    \A e \in Events : row[e].status = "dead_letter" => row[e].attempts = MaxAttempts

\* Each success is persisted: a worker that reports an event as delivered
\* leaves its row delivered (deliver_pending).
AcknowledgedIsRecorded ==
    [][\A w \in Workers : RecordSuccess(w) =>
         row'[call[w].event].status = "delivered"]_vars

\* Every event in the outbox is eventually delivered or becomes a dead letter,
\* although workers and the Observatory may crash at any time (_claim's lease
\* and sweep, _mark_failure).
EventuallySettled ==
    \A e \in Events : (row[e].status \in {"pending", "delivering"}) ~>
                      (row[e].status \in {"delivered", "dead_letter"})
=============================================================================
