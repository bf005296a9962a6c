---------------------- MODULE MaintenanceOutboxProofs ----------------------
(***************************************************************************)
(* Proofs about MaintenanceOutbox, for every set of events, any number of  *)
(* workers, every attempt limit, lease and backoff.                        *)
(***************************************************************************)
EXTENDS MaintenanceOutbox, FiniteSetTheorems, TLAPS

\* The delay after an attempt is within the configured maximum
\* (_mark_failure's min()).
LEMMA BackoffInRange ==
    ASSUME NEW n \in 1..MaxAttempts
    PROVE  Backoff(n) \in 0..MaxBackoff
<1>1. BaseBackoff * 2 ^ (n - 1) \in Nat
  BY BackoffAssumption
<1> DEFINE delay == BaseBackoff * 2 ^ (n - 1)
<1>2. delay \in Nat
  BY <1>1
<1> HIDE DEF delay
<1>3. (IF delay <= MaxBackoff THEN delay ELSE MaxBackoff) \in 0..MaxBackoff
  BY <1>2, OutboxAssumption
<1> QED BY <1>3 DEF Backoff, delay

\* Any change of a row's fields within their ranges gives a row.
LEMMA RowUpdate ==
    ASSUME NEW r \in Row, NEW st \in Statuses, NEW n \in 0..MaxAttempts,
           NEW d \in 0..MaxBackoff, NEW l \in 0..Lease
    PROVE  /\ [r EXCEPT !.status = st, !.lease = l] \in Row
           /\ [r EXCEPT !.status = st, !.attempts = n, !.lease = l] \in Row
           /\ [r EXCEPT !.status = st, !.due = d, !.lease = l] \in Row
           /\ [r EXCEPT !.due = d, !.lease = l] \in Row
  BY DEF Row

\* A row after _mark_failure() is a row.
LEMMA MarkFailureType ==
    ASSUME row \in [Events -> Row], NEW e \in Events, NEW n \in 1..MaxAttempts
    PROVE  MarkFailure(e, n) \in [Events -> Row]
<1> DEFINE b == IF n >= MaxAttempts THEN 0 ELSE Backoff(n)
<1>1. b \in 0..MaxBackoff
  BY BackoffInRange, OutboxAssumption
<1> DEFINE st == IF n >= MaxAttempts THEN "dead_letter" ELSE "pending"
<1>2. st \in Statuses
  BY DEF Statuses
<1> HIDE DEF b, st
<1>3. [row[e] EXCEPT !.status = st, !.due = b, !.lease = 0] \in Row
  <2>1. row[e] \in Row /\ 0 \in 0..Lease /\ 0 \in 0..MaxAttempts
    BY OutboxAssumption
  <2> QED BY <1>1, <1>2, <2>1, RowUpdate
<1>4. [row EXCEPT ![e] = [@ EXCEPT !.status = st, !.due = b, !.lease = 0]]
        \in [Events -> Row]
  BY <1>3
<1> QED BY <1>4 DEF MarkFailure, b, st

\* An abandoned request is one the Observatory may still handle.
LEMMA AbandonType ==
    ASSUME OutboxTypeOK, NEW w \in Workers
    PROVE  Abandon(call[w]) \subseteq [stage : {"sent", "stored"}, event : Events]
  BY DEF OutboxTypeOK, Abandon, NoCall, Stages

\* The empty outbox satisfies the invariant.
LEMMA InitEstablishesInv == Init => OutboxInv
<1> SUFFICES ASSUME Init PROVE OutboxInv
  OBVIOUS
<1> USE EventsAssumption, OutboxAssumption
<1>1. OutboxTypeOK
  BY DEF Init, OutboxTypeOK, Row, Statuses
<1>2. StoredInv
  BY DEF Init, StoredInv, DeliveredIsStored, OrphanPublishing, NoCall
<1>3. OnePublisher
  BY DEF Init, OnePublisher, OrphanPublishing, Publishing, NoCall
<1> QED BY <1>1, <1>2, <1>3 DEF OutboxInv

\* Every step keeps the types: counters in their bounds, a job's attempt
\* number within the limit, no call without an event.
LEMMA NextPreservesType ==
    OutboxTypeOK /\ [Next]_vars => OutboxTypeOK'
<1> SUFFICES ASSUME OutboxTypeOK, [Next]_vars PROVE OutboxTypeOK'
  OBVIOUS
<1> USE EventsAssumption, OutboxAssumption
<1> DEFINE Call == [stage : Stages \ {"none"}, event : Events,
                    attempts : 1..MaxAttempts]
<1>c. ASSUME NEW w \in Workers, call[w] # NoCall PROVE call[w] \in Call
  BY <1>c DEF OutboxTypeOK
<1>s. ASSUME NEW w \in Workers, call[w].stage # "none" PROVE call[w] \in Call
  BY <1>s DEF OutboxTypeOK, NoCall
<1>1. ASSUME NEW w \in Workers, Claim(w) PROVE OutboxTypeOK'
  <2> DEFINE claimed == Oldest(Due)
  <2>1. \A e \in claimed : e \in Events /\ row[e].attempts + 1 \in 1..MaxAttempts
    BY DEF Oldest, Due, OutboxTypeOK, Row
  <2>2. row' \in [Events -> Row]
    <3> SUFFICES ASSUME NEW e \in Events PROVE row'[e] \in Row
      BY <1>1 DEF Claim
    <3>1. CASE e \in AtLimit
      <4>1. row[e] \in Row /\ 0 \in 0..Lease /\ 0 \in 0..MaxBackoff
        BY DEF OutboxTypeOK
      <4>2. row'[e] = [row[e] EXCEPT !.status = "dead_letter", !.lease = 0]
        BY <1>1, <3>1 DEF Claim
      <4>3. "dead_letter" \in Statuses /\ 0 \in 0..MaxAttempts
        BY DEF Statuses
      <4>4. [row[e] EXCEPT !.status = "dead_letter", !.lease = 0] \in Row
        BY <4>1, <4>3, RowUpdate
      <4> QED BY <4>2, <4>4
    <3>2. CASE e \notin AtLimit /\ e \in claimed
      <4>1. row[e] \in Row
        BY DEF OutboxTypeOK
      <4>2. row'[e] = [row[e] EXCEPT !.status = "delivering",
                         !.attempts = row[e].attempts + 1, !.lease = Lease]
        BY <1>1, <3>2 DEF Claim
      <4>3. row[e].attempts + 1 \in 0..MaxAttempts /\ Lease \in 0..Lease
        BY <2>1, <3>2
      <4> QED BY <4>1, <4>2, <4>3 DEF Row, Statuses
    <3>3. CASE e \notin AtLimit /\ e \notin claimed
      BY <1>1, <3>3 DEF Claim, OutboxTypeOK
    <3> QED BY <3>1, <3>2, <3>3
  <2>3. batch' \in [Workers -> SUBSET Job]
    <3>1. {[event |-> e, attempts |-> row[e].attempts + 1] : e \in claimed}
            \subseteq Job
      BY <2>1 DEF Job
    <3> QED BY <1>1, <3>1 DEF Claim, OutboxTypeOK
  <2> QED BY <1>1, <2>2, <2>3 DEF Claim, OutboxTypeOK, observatoryVars
<1>2. ASSUME NEW w \in Workers, Post(w) PROVE OutboxTypeOK'
  <2>1. PICK j \in batch[w] :
          /\ batch' = [batch EXCEPT ![w] = @ \ {j}]
          /\ call' = [call EXCEPT ![w] = [stage |-> "sent", event |-> j.event,
                                          attempts |-> j.attempts]]
          /\ posts' = [posts EXCEPT ![j.event] = @ + 1]
    BY <1>2 DEF Post
  <2>2. j \in Job
    BY DEF OutboxTypeOK
  <2>3. [stage |-> "sent", event |-> j.event, attempts |-> j.attempts] \in Call
    BY <2>2 DEF Job, Stages
  <2>4. call' \in [Workers -> {NoCall} \cup Call]
    BY <2>1, <2>3 DEF OutboxTypeOK
  <2>5. posts' \in [Events -> Nat]
    BY <2>1, <2>2 DEF OutboxTypeOK, Job
  <2>6. batch' \in [Workers -> SUBSET Job]
    BY <2>1 DEF OutboxTypeOK
  <2> QED BY <1>2, <2>4, <2>5, <2>6
       DEF Post, OutboxTypeOK, outboxVars, observatoryVars
<1>3. ASSUME NEW w \in Workers, RecordSuccess(w) PROVE OutboxTypeOK'
  <2>1. call[w] \in Call
    BY <1>3, <1>s DEF RecordSuccess
  <2>2. row' \in [Events -> Row]
    <3>1. row[call[w].event] \in Row /\ 0 \in 0..Lease /\ 0 \in 0..MaxBackoff
      BY <2>1 DEF OutboxTypeOK
    <3>2. "delivered" \in Statuses /\ 0 \in 0..MaxAttempts
      BY DEF Statuses
    <3>3. [row[call[w].event] EXCEPT !.status = "delivered", !.lease = 0] \in Row
      BY <3>1, <3>2, RowUpdate
    <3> QED BY <1>3, <2>1, <3>3 DEF RecordSuccess, OutboxTypeOK
  <2>3. call' \in [Workers -> {NoCall} \cup Call]
    BY <1>3 DEF RecordSuccess, OutboxTypeOK
  <2> QED BY <1>3, <2>2, <2>3 DEF RecordSuccess, OutboxTypeOK, observatoryVars
<1>4. ASSUME NEW w \in Workers, RecordFailure(w) PROVE OutboxTypeOK'
  <2>1. call[w] \in Call
    BY <1>4, <1>c DEF RecordFailure
  <2>2. row' \in [Events -> Row]
    BY <1>4, <2>1, MarkFailureType DEF RecordFailure, OutboxTypeOK
  <2>3. call' \in [Workers -> {NoCall} \cup Call]
    BY <1>4 DEF RecordFailure, OutboxTypeOK
  <2>4. orphans' \subseteq [stage : {"sent", "stored"}, event : Events]
    BY <1>4, AbandonType DEF RecordFailure, OutboxTypeOK
  <2> QED BY <1>4, <2>2, <2>3, <2>4 DEF RecordFailure, OutboxTypeOK
<1>5. ASSUME NEW w \in Workers, WorkerCrash(w) PROVE OutboxTypeOK'
  <2>1. orphans' \subseteq [stage : {"sent", "stored"}, event : Events]
    BY <1>5, AbandonType DEF WorkerCrash
  <2>2. /\ call' \in [Workers -> {NoCall} \cup Call]
        /\ batch' \in [Workers -> SUBSET Job]
    BY <1>5 DEF WorkerCrash, OutboxTypeOK
  <2> QED BY <1>5, <2>1, <2>2 DEF WorkerCrash, OutboxTypeOK, outboxVars
<1>6. ASSUME NEW w \in Workers, Ingest(w) PROVE OutboxTypeOK'
  <2>1. call[w] \in Call
    BY <1>6, <1>s DEF Ingest
  <2>2. call' \in [Workers -> {NoCall} \cup Call]
    BY <1>6, <2>1 DEF Ingest, OutboxTypeOK, Stages
  <2> QED BY <1>6, <2>1, <2>2 DEF Ingest, OutboxTypeOK, outboxVars
<1>7. ASSUME NEW w \in Workers, Publish(w) PROVE OutboxTypeOK'
  <2>1. call[w] \in Call
    BY <1>7, <1>s DEF Publish
  <2>2. call' \in [Workers -> {NoCall} \cup Call]
    BY <1>7, <2>1 DEF Publish, OutboxTypeOK, Stages
  <2>3. published' \in [Events -> Nat]
    BY <1>7, <2>1 DEF Publish, OutboxTypeOK
  <2> QED BY <1>7, <2>2, <2>3 DEF Publish, OutboxTypeOK, outboxVars
<1>8. ASSUME NEW e \in Events, Enqueue(e) PROVE OutboxTypeOK'
  <2>1. Cardinality({f \in Events : row[f].status # "absent"}) \in Nat
    BY FS_Subset, FS_CardinalityType
  <2>2. created' \in [Events -> Nat]
    BY <1>8, <2>1 DEF Enqueue, OutboxTypeOK
  <2>3. row' \in [Events -> Row]
    BY <1>8 DEF Enqueue, OutboxTypeOK, Row, Statuses
  <2> QED BY <1>8, <2>2, <2>3 DEF Enqueue, OutboxTypeOK, observatoryVars
<1>9. ASSUME NEW e \in Events, RetryDeadLetter(e) PROVE OutboxTypeOK'
  <2>1. row' \in [Events -> Row]
    BY <1>9 DEF RetryDeadLetter, OutboxTypeOK, Row, Statuses
  <2>2. requeues' \in [Events -> 0..MaxRequeues]
    BY <1>9 DEF RetryDeadLetter, OutboxTypeOK
  <2> QED BY <1>9, <2>1, <2>2 DEF RetryDeadLetter, OutboxTypeOK, observatoryVars
<1>10. ASSUME NEW e \in Events, IngestOrphan(e) PROVE OutboxTypeOK'
  BY <1>10 DEF IngestOrphan, OutboxTypeOK, outboxVars
<1>11. ASSUME NEW e \in Events, PublishOrphan(e) PROVE OutboxTypeOK'
  <2>1. published' \in [Events -> Nat]
    BY <1>11 DEF PublishOrphan, OutboxTypeOK
  <2> QED BY <1>11, <2>1 DEF PublishOrphan, OutboxTypeOK, outboxVars
<1>12. CASE ObservatoryCrash
  <2>1. call' \in [Workers -> {NoCall} \cup Call]
    <3> SUFFICES ASSUME NEW w \in Workers PROVE call'[w] \in {NoCall} \cup Call
      BY <1>12 DEF ObservatoryCrash
    <3>1. CASE call[w].stage \in {"sent", "stored"}
      <4>1. call[w] \in Call
        BY <1>s, <3>1
      <4> QED BY <1>12, <3>1, <4>1 DEF ObservatoryCrash, Stages
    <3>2. CASE call[w].stage \notin {"sent", "stored"}
      BY <1>12, <3>2 DEF ObservatoryCrash, OutboxTypeOK
    <3> QED BY <3>1, <3>2
  <2> QED BY <1>12, <2>1 DEF ObservatoryCrash, OutboxTypeOK, outboxVars
<1>13. CASE Tick
  <2>1. row' \in [Events -> Row]
    <3> SUFFICES ASSUME NEW e \in Events PROVE row'[e] \in Row
      BY <1>13 DEF Tick
    <3> DEFINE d == IF row[e].due > 0 THEN row[e].due - 1 ELSE 0
               l == IF row[e].lease > 0 THEN row[e].lease - 1 ELSE 0
    <3>1. row[e] \in Row
      BY DEF OutboxTypeOK
    <3>2. d \in 0..MaxBackoff /\ l \in 0..Lease
      BY <3>1 DEF Row
    <3>3. row'[e] = [row[e] EXCEPT !.due = d, !.lease = l]
      BY <1>13 DEF Tick
    <3>4. row[e].status \in Statuses /\ 0 \in 0..MaxAttempts
      BY <3>1 DEF Row
    <3> HIDE DEF d, l
    <3>5. [row[e] EXCEPT !.due = d, !.lease = l] \in Row
      BY <3>1, <3>2, <3>4, RowUpdate
    <3> QED BY <3>3, <3>5
  <2> QED BY <1>13, <2>1 DEF Tick, OutboxTypeOK, observatoryVars
<1>14. CASE UNCHANGED vars
  BY <1>14 DEF vars, OutboxTypeOK
<1> QED BY <1>1, <1>2, <1>3, <1>4, <1>5, <1>6, <1>7, <1>8, <1>9, <1>10, <1>11,
       <1>12, <1>13, <1>14 DEF Next, WorkerStep, EventStep

\* What a step does to the acknowledgements and the requests past their
\* transaction, action by action.
LEMMA NextPreservesStored ==
    OutboxInv /\ [Next]_vars => StoredInv'
<1> SUFFICES ASSUME OutboxInv, [Next]_vars PROVE StoredInv'
  OBVIOUS
<1> USE EventsAssumption DEF DeliveredIsStored, OrphanPublishing
<1>t. OutboxTypeOK /\ StoredInv
  BY DEF OutboxInv
<1>n. NoCall.stage = "none"
  BY DEF NoCall
<1>r. \A e \in Events : row[e] \in Row
  BY <1>t DEF OutboxTypeOK
<1>1. ASSUME NEW w \in Workers, Claim(w) PROVE StoredInv'
  <2>1. ASSUME NEW e \in Events, row'[e].status = "delivered" PROVE e \in stored
    <3>1. \/ row'[e] = [row[e] EXCEPT !.status = "dead_letter", !.lease = 0]
          \/ row'[e] = [row[e] EXCEPT !.status = "delivering",
                          !.attempts = row[e].attempts + 1, !.lease = Lease]
          \/ row'[e] = row[e]
      BY <1>1 DEF Claim
    <3>2. row'[e] = row[e]
      BY <1>r, <2>1, <3>1 DEF Row
    <3> QED BY <1>t, <2>1, <3>2 DEF StoredInv
  <2> QED BY <1>1, <1>t, <2>1 DEF Claim, StoredInv, observatoryVars
<1>2. ASSUME NEW w \in Workers, Post(w) PROVE StoredInv'
  <2>1. \A v \in Workers : call'[v].stage \in {"stored", "acked"} => call'[v] = call[v]
    BY <1>2, <1>t DEF Post, OutboxTypeOK
  <2> QED BY <1>2, <1>t, <2>1 DEF Post, StoredInv, outboxVars, observatoryVars
<1>3. ASSUME NEW w \in Workers, RecordSuccess(w) PROVE StoredInv'
  <2>1. ASSUME NEW e \in Events, row'[e].status = "delivered" PROVE e \in stored
    <3>1. CASE e = call[w].event
      BY <1>3, <1>t, <3>1 DEF RecordSuccess, StoredInv
    <3>2. CASE e # call[w].event
      <4>1. row'[e] = row[e]
        BY <1>3, <1>t, <3>2 DEF RecordSuccess, OutboxTypeOK
      <4> QED BY <1>t, <2>1, <4>1 DEF StoredInv
    <3> QED BY <3>1, <3>2
  <2>2. \A v \in Workers : call'[v].stage \in {"stored", "acked"} => call'[v] = call[v]
    BY <1>3, <1>t, <1>n DEF RecordSuccess, OutboxTypeOK
  <2> QED BY <1>3, <1>t, <2>1, <2>2 DEF RecordSuccess, StoredInv, observatoryVars
<1>4. ASSUME NEW w \in Workers, RecordFailure(w) PROVE StoredInv'
  <2>1. ASSUME NEW e \in Events, row'[e].status = "delivered" PROVE e \in stored
    <3>1. row'[e] = row[e] \/ row'[e].status \in {"pending", "dead_letter"}
      BY <1>4, <1>t, <1>r DEF RecordFailure, MarkFailure, OutboxTypeOK, Row
    <3> QED BY <1>t, <2>1, <3>1 DEF StoredInv
  <2>2. \A v \in Workers : call'[v].stage \in {"stored", "acked"} => call'[v] = call[v]
    BY <1>4, <1>t, <1>n DEF RecordFailure, OutboxTypeOK
  <2>3. ASSUME NEW e \in Events, [stage |-> "stored", event |-> e] \in orphans'
        PROVE  e \in stored
    BY <1>4, <1>t, <2>3 DEF RecordFailure, Abandon, StoredInv
  <2> QED BY <1>4, <1>t, <2>1, <2>2, <2>3 DEF RecordFailure, StoredInv
<1>5. ASSUME NEW w \in Workers, WorkerCrash(w) PROVE StoredInv'
  <2>1. \A v \in Workers : call'[v].stage \in {"stored", "acked"} => call'[v] = call[v]
    BY <1>5, <1>t, <1>n DEF WorkerCrash, OutboxTypeOK
  <2>2. ASSUME NEW e \in Events, [stage |-> "stored", event |-> e] \in orphans'
        PROVE  e \in stored
    BY <1>5, <1>t, <2>2 DEF WorkerCrash, Abandon, StoredInv
  <2> QED BY <1>5, <1>t, <2>1, <2>2 DEF WorkerCrash, StoredInv, outboxVars
<1>6. ASSUME NEW w \in Workers, Ingest(w) PROVE StoredInv'
  <2>1. ASSUME NEW v \in Workers, call'[v].stage \in {"stored", "acked"}
        PROVE  call'[v].event \in stored'
    <3>1. CASE v = w
      <4>1. call'[v].event = call[w].event
        BY <1>6, <1>t, <3>1 DEF Ingest, OutboxTypeOK
      <4> QED BY <1>6, <4>1 DEF Ingest
    <3>2. CASE v # w
      <4>1. call'[v] = call[v]
        BY <1>6, <1>t, <3>2 DEF Ingest, OutboxTypeOK
      <4> QED BY <1>6, <1>t, <2>1, <4>1 DEF Ingest, StoredInv
    <3> QED BY <3>1, <3>2
  <2> QED BY <1>6, <1>t, <2>1 DEF Ingest, StoredInv, outboxVars
<1>7. ASSUME NEW w \in Workers, Publish(w) PROVE StoredInv'
  <2>1. ASSUME NEW v \in Workers, call'[v].stage \in {"stored", "acked"}
        PROVE  call[v].stage \in {"stored", "acked"} /\ call'[v].event = call[v].event
    BY <1>7, <1>t, <2>1 DEF Publish, OutboxTypeOK
  <2> QED BY <1>7, <1>t, <2>1 DEF Publish, StoredInv, outboxVars
<1>8. ASSUME NEW e \in Events, Enqueue(e) PROVE StoredInv'
  <2>1. \A f \in Events : row'[f].status = "delivered" => row'[f] = row[f]
    BY <1>8, <1>t, <1>r DEF Enqueue, OutboxTypeOK, Row
  <2> QED BY <1>8, <1>t, <2>1 DEF Enqueue, StoredInv, observatoryVars
<1>9. ASSUME NEW e \in Events, RetryDeadLetter(e) PROVE StoredInv'
  <2>1. \A f \in Events : row'[f].status = "delivered" => row'[f] = row[f]
    BY <1>9, <1>t DEF RetryDeadLetter, OutboxTypeOK
  <2> QED BY <1>9, <1>t, <2>1 DEF RetryDeadLetter, StoredInv, observatoryVars
<1>10. ASSUME NEW e \in Events, IngestOrphan(e) PROVE StoredInv'
  BY <1>10, <1>t DEF IngestOrphan, StoredInv, outboxVars
<1>11. ASSUME NEW e \in Events, PublishOrphan(e) PROVE StoredInv'
  BY <1>11, <1>t DEF PublishOrphan, StoredInv, outboxVars
<1>12. CASE ObservatoryCrash
  <2>1. \A v \in Workers : call'[v].stage \in {"stored", "acked"} => call'[v] = call[v]
    <3> SUFFICES ASSUME NEW v \in Workers, call[v].stage \in {"sent", "stored"}
                 PROVE  call'[v].stage = "lost"
      BY <1>12 DEF ObservatoryCrash
    <3>1. call[v] \in [stage : Stages \ {"none"}, event : Events,
                       attempts : 1..MaxAttempts]
      BY <1>t, <1>n DEF OutboxTypeOK
    <3> QED BY <1>12, <3>1 DEF ObservatoryCrash
  <2> QED BY <1>12, <1>t, <2>1 DEF ObservatoryCrash, StoredInv, outboxVars
<1>13. CASE Tick
  <2>1. \A e \in Events : row'[e].status = row[e].status
    BY <1>13, <1>r DEF Tick, Row
  <2> QED BY <1>13, <1>t, <2>1 DEF Tick, StoredInv, observatoryVars
<1>14. CASE UNCHANGED vars
  BY <1>14, <1>t DEF vars, StoredInv
<1> QED BY <1>1, <1>2, <1>3, <1>4, <1>5, <1>6, <1>7, <1>8, <1>9, <1>10, <1>11,
       <1>12, <1>13, <1>14 DEF Next, WorkerStep, EventStep

\* A step that publishes and stores nothing, and after which every pending
\* publication was pending before, keeps publishers unique.
LEMMA FewerPublishers ==
    ASSUME OnePublisher,
           UNCHANGED <<stored, published>>,
           \A e \in Events : OrphanPublishing(e)' => OrphanPublishing(e),
           \A e \in Events, w \in Workers : Publishing(e, w)' => Publishing(e, w)
    PROVE  OnePublisher'
  BY DEF OnePublisher

\* A worker's pending publication passes to the orphan of its request.
LEMMA AbandonedPublisher ==
    ASSUME OutboxTypeOK, OnePublisher, NEW w \in Workers,
           UNCHANGED <<stored, published>>,
           call' = [call EXCEPT ![w] = NoCall],
           orphans' = Abandon(call[w])
    PROVE  OnePublisher'
<1>1. ASSUME NEW e \in Events, NEW v \in Workers, Publishing(e, v)'
      PROVE  v # w /\ Publishing(e, v)
  BY <1>1 DEF OutboxTypeOK, Publishing, NoCall
<1>2. ASSUME NEW e \in Events, OrphanPublishing(e)'
      PROVE  OrphanPublishing(e) \/ Publishing(e, w)
  BY <1>2 DEF Abandon, OrphanPublishing, Publishing
<1> QED BY <1>1, <1>2 DEF OnePublisher

\* The transaction of append_idempotent() creates the right to publish once,
\* and every other step uses it, hands it on or loses it.
LEMMA NextPreservesPublisher ==
    OutboxInv /\ [Next]_vars => OnePublisher'
<1> SUFFICES ASSUME OutboxInv, [Next]_vars PROVE OnePublisher'
  OBVIOUS
<1>t. OutboxTypeOK /\ StoredInv /\ OnePublisher
  BY DEF OutboxInv
<1>n. NoCall.stage = "none"
  BY DEF NoCall
<1>1. ASSUME NEW w \in Workers, Claim(w) PROVE OnePublisher'
  BY <1>1, <1>t, FewerPublishers
     DEF Claim, observatoryVars, OrphanPublishing, Publishing
<1>2. ASSUME NEW w \in Workers, Post(w) PROVE OnePublisher'
  <2>1. \A e \in Events, v \in Workers : Publishing(e, v)' => Publishing(e, v)
    BY <1>2, <1>t DEF Post, OutboxTypeOK, Publishing
  <2> QED BY <1>2, <1>t, <2>1, FewerPublishers
       DEF Post, observatoryVars, OrphanPublishing
<1>3. ASSUME NEW w \in Workers, RecordSuccess(w) PROVE OnePublisher'
  <2>1. \A e \in Events, v \in Workers : Publishing(e, v)' => Publishing(e, v)
    BY <1>3, <1>t, <1>n DEF RecordSuccess, OutboxTypeOK, Publishing
  <2> QED BY <1>3, <1>t, <2>1, FewerPublishers
       DEF RecordSuccess, observatoryVars, OrphanPublishing
<1>4. ASSUME NEW w \in Workers, RecordFailure(w) PROVE OnePublisher'
  <2>1. CASE orphans' = Abandon(call[w])
    BY <1>4, <1>t, <2>1, AbandonedPublisher DEF RecordFailure
  <2>2. CASE UNCHANGED orphans
    <3>1. \A e \in Events, v \in Workers : Publishing(e, v)' => Publishing(e, v)
      BY <1>4, <1>t, <1>n DEF RecordFailure, OutboxTypeOK, Publishing
    <3> QED BY <1>4, <1>t, <2>2, <3>1, FewerPublishers
         DEF RecordFailure, OrphanPublishing
  <2> QED BY <1>4, <2>1, <2>2 DEF RecordFailure
<1>5. ASSUME NEW w \in Workers, WorkerCrash(w) PROVE OnePublisher'
  BY <1>5, <1>t, AbandonedPublisher DEF WorkerCrash
<1>6. ASSUME NEW w \in Workers, Ingest(w) PROVE OnePublisher'
  <2>1. call[w].event \in Events
    BY <1>6, <1>t, <1>n DEF Ingest, OutboxTypeOK
  <2>2. \A e \in Events : OrphanPublishing(e)' <=> OrphanPublishing(e)
    BY <1>6 DEF Ingest, OrphanPublishing
  <2>3. ASSUME NEW e \in Events, NEW v \in Workers, Publishing(e, v)'
        PROVE  \/ v # w /\ Publishing(e, v)
               \/ v = w /\ e = call[w].event /\ e \notin stored
    BY <1>6, <1>t, <2>3 DEF Ingest, OutboxTypeOK, Publishing
  <2>4. \A e \in Events : e \notin stored =>
          /\ published[e] = 0
          /\ ~OrphanPublishing(e)
          /\ \A v \in Workers : ~Publishing(e, v)
    <3>1. \A e \in Events : published[e] \in Nat
      BY <1>t DEF OutboxTypeOK
    <3> QED BY <1>t, <3>1 DEF OnePublisher
  <2> QED BY <1>6, <1>t, <2>1, <2>2, <2>3, <2>4 DEF Ingest, OnePublisher
<1>7. ASSUME NEW w \in Workers, Publish(w) PROVE OnePublisher'
  <2> DEFINE p == call[w].event
  <2>1. p \in Events /\ Publishing(p, w)
    BY <1>7, <1>t, <1>n DEF Publish, OutboxTypeOK, Publishing
  <2>2. \A e \in Events : published'[e] = IF e = p THEN published[e] + 1 ELSE published[e]
    BY <1>7, <1>t DEF Publish, OutboxTypeOK
  <2>3. \A e \in Events, v \in Workers :
          Publishing(e, v)' => v # w /\ Publishing(e, v)
    BY <1>7, <1>t DEF Publish, OutboxTypeOK, Publishing
  <2>4. \A e \in Events : OrphanPublishing(e)' <=> OrphanPublishing(e)
    BY <1>7 DEF Publish, OrphanPublishing
  <2>5. published[p] = 0 /\ p \in stored /\ ~OrphanPublishing(p)
        /\ \A v \in Workers : Publishing(p, v) => v = w
    BY <1>t, <2>1 DEF OnePublisher
  <2>6. stored' = stored
    BY <1>7 DEF Publish
  <2> HIDE DEF p
  <2> QED BY <1>t, <2>2, <2>3, <2>4, <2>5, <2>6 DEF OnePublisher
<1>8. ASSUME NEW e \in Events, Enqueue(e) PROVE OnePublisher'
  BY <1>8, <1>t, FewerPublishers
     DEF Enqueue, observatoryVars, OrphanPublishing, Publishing
<1>9. ASSUME NEW e \in Events, RetryDeadLetter(e) PROVE OnePublisher'
  BY <1>9, <1>t, FewerPublishers
     DEF RetryDeadLetter, observatoryVars, OrphanPublishing, Publishing
<1>10. ASSUME NEW e \in Events, IngestOrphan(e) PROVE OnePublisher'
  <2>1. \A f \in Events, v \in Workers : Publishing(f, v)' <=> Publishing(f, v)
    BY <1>10 DEF IngestOrphan, Publishing
  <2>2. ASSUME NEW f \in Events, OrphanPublishing(f)'
        PROVE  OrphanPublishing(f) \/ (f = e /\ e \notin stored)
    BY <1>10, <2>2 DEF IngestOrphan, OrphanPublishing
  <2>3. e \notin stored =>
          /\ published[e] = 0
          /\ \A v \in Workers : ~Publishing(e, v)
    <3>1. published[e] \in Nat
      BY <1>t DEF OutboxTypeOK
    <3> QED BY <1>t, <3>1 DEF OnePublisher
  <2> QED BY <1>10, <1>t, <2>1, <2>2, <2>3 DEF IngestOrphan, OnePublisher
<1>11. ASSUME NEW e \in Events, PublishOrphan(e) PROVE OnePublisher'
  <2>1. \A f \in Events : published'[f] = IF f = e THEN published[f] + 1 ELSE published[f]
    BY <1>11, <1>t DEF PublishOrphan, OutboxTypeOK
  <2>2. \A f \in Events : OrphanPublishing(f)' => OrphanPublishing(f) /\ f # e
    BY <1>11 DEF PublishOrphan, OrphanPublishing
  <2>3. \A f \in Events, v \in Workers : Publishing(f, v)' <=> Publishing(f, v)
    BY <1>11 DEF PublishOrphan, Publishing
  <2>4. published[e] = 0 /\ e \in stored /\ \A v \in Workers : ~Publishing(e, v)
    BY <1>11, <1>t DEF PublishOrphan, OnePublisher, OrphanPublishing
  <2>5. stored' = stored
    BY <1>11 DEF PublishOrphan
  <2> QED BY <1>t, <2>1, <2>2, <2>3, <2>4, <2>5 DEF OnePublisher
<1>12. CASE ObservatoryCrash
  <2>1. ASSUME NEW v \in Workers, call'[v].stage = "stored" PROVE FALSE
    <3>1. CASE call[v].stage \in {"sent", "stored"}
      <4>1. call[v] \in [stage : Stages \ {"none"}, event : Events,
                         attempts : 1..MaxAttempts]
        BY <1>t, <1>n, <3>1 DEF OutboxTypeOK
      <4>2. call'[v].stage = "lost"
        BY <1>12, <3>1, <4>1 DEF ObservatoryCrash
      <4> QED BY <2>1, <4>2
    <3>2. CASE call[v].stage \notin {"sent", "stored"}
      BY <1>12, <2>1, <3>2 DEF ObservatoryCrash
    <3> QED BY <3>1, <3>2
  <2> QED BY <1>12, <1>t, <2>1, FewerPublishers
       DEF ObservatoryCrash, OrphanPublishing, Publishing
<1>13. CASE Tick
  BY <1>13, <1>t, FewerPublishers
     DEF Tick, observatoryVars, OrphanPublishing, Publishing
<1>14. CASE UNCHANGED vars
  BY <1>14, <1>t, FewerPublishers DEF vars, OrphanPublishing, Publishing
<1> QED BY <1>1, <1>2, <1>3, <1>4, <1>5, <1>6, <1>7, <1>8, <1>9, <1>10, <1>11,
       <1>12, <1>13, <1>14 DEF Next, WorkerStep, EventStep

\* The inductive invariant of the outbox holds in every reachable state.
THEOREM OutboxInvariant == Spec => []OutboxInv
<1>1. OutboxInv /\ [Next]_vars => OutboxInv'
  BY NextPreservesType, NextPreservesStored, NextPreservesPublisher DEF OutboxInv
<1> QED BY <1>1, InitEstablishesInv, PTL DEF Spec

\* The type invariant, for every set of events and workers and every limit.
THEOREM OutboxTypeCorrect == Spec => []OutboxTypeOK
<1>1. OutboxInv => OutboxTypeOK
  BY DEF OutboxInv
<1> QED BY <1>1, OutboxInvariant, PTL

\* No row is marked delivered before the Observatory has durably stored its
\* event, with any number of overlapping workers and any crashes
\* (deliver_pending, observe_idempotent).
THEOREM DeliveredAfterStored == Spec => []DeliveredIsStored
<1>1. OutboxInv => DeliveredIsStored
  BY DEF OutboxInv, StoredInv
<1> QED BY <1>1, OutboxInvariant, PTL

\* The Observatory fans an event out at most once, however often and by
\* however many workers it is posted (observe_idempotent, append_idempotent).
THEOREM AtMostOncePublication == Spec => []PublishedAtMostOnce
<1>1. OutboxInv => PublishedAtMostOnce
  BY DEF OutboxInv, OnePublisher, PublishedAtMostOnce
<1> QED BY <1>1, OutboxInvariant, PTL

\* No claim, late failure, requeue or passing of time takes a row out of
\* 'delivered' (the status conditions of the outbox's UPDATEs).
THEOREM DeliveredStays == Spec => DeliveredIsFinal
<1>1. ASSUME OutboxTypeOK, [Next]_vars, NEW e \in Events,
             row[e].status = "delivered"
      PROVE  row'[e].status = "delivered"
  <2>r. row[e] \in Row
    BY <1>1 DEF OutboxTypeOK
  <2>1. ASSUME NEW w \in Workers, WorkerStep(w) PROVE row'[e] = row[e]
    <3>1. CASE Claim(w)
      <4>1. e \notin AtLimit /\ e \notin Oldest(Due)
        BY <1>1 DEF AtLimit, Oldest, Due, LeaseExpired
      <4> QED BY <3>1, <4>1 DEF Claim
    <3>2. CASE RecordSuccess(w)
      BY <1>1, <3>2 DEF RecordSuccess, OutboxTypeOK
    <3>3. CASE RecordFailure(w)
      BY <1>1, <3>3 DEF RecordFailure, MarkFailure, OutboxTypeOK
    <3>4. CASE Post(w) \/ WorkerCrash(w) \/ Ingest(w) \/ Publish(w)
      BY <3>4 DEF Post, WorkerCrash, Ingest, Publish, outboxVars
    <3> QED BY <2>1, <3>1, <3>2, <3>3, <3>4 DEF WorkerStep
  <2>2. ASSUME NEW f \in Events, EventStep(f) PROVE row'[e] = row[e]
    BY <1>1, <2>2 DEF EventStep, Enqueue, RetryDeadLetter, IngestOrphan,
       PublishOrphan, outboxVars, OutboxTypeOK
  <2>3. CASE ObservatoryCrash \/ UNCHANGED vars
    BY <1>1, <2>3 DEF ObservatoryCrash, vars, outboxVars
  <2>4. CASE Tick
    <3>1. row'[e].status = row[e].status
      BY <2>4, <2>r DEF Tick, Row
    <3> QED BY <1>1, <3>1
  <2> QED BY <1>1, <2>1, <2>2, <2>3, <2>4 DEF Next
<1>2. OutboxTypeOK /\ [Next]_vars =>
        [\A e \in Events :
           row[e].status = "delivered" => row'[e].status = "delivered"]_vars
  BY <1>1
<1> QED BY <1>2, OutboxTypeCorrect, PTL DEF Spec, DeliveredIsFinal

-----------------------------------------------------------------------------
(* Counting the requests. *)

\* A batch holds one job per event.
OneJobPerEvent ==
    \A w \in Workers : \A j, k \in batch[w] : j.event = k.event => j = k

\* The workers that have claimed e and not yet posted it.
Claimants(e) == {w \in Workers : \E j \in batch[w] : j.event = e}

\* Every claim counts an attempt, and a claim that has not been posted is still
\* in a batch: the requests sent and the requests to be sent are covered by the
\* attempts of the row and of its earlier lives.
PostsInv ==
    /\ OneJobPerEvent
    /\ \A e \in Events :
         /\ IsFiniteSet(Claimants(e))
         /\ posts[e] + Cardinality(Claimants(e))
              <= MaxAttempts * requeues[e] + row[e].attempts

\* What the steps that change a row do to it.
Swept(e) ==
    /\ row[e].status = "delivering" /\ row[e].attempts >= MaxAttempts
    /\ row'[e].status = "dead_letter" /\ row'[e].attempts = row[e].attempts

Claimed(e) ==
    /\ row[e].status \in {"pending", "delivering"} /\ row[e].attempts < MaxAttempts
    /\ row'[e].status = "delivering" /\ row'[e].attempts = row[e].attempts + 1

Recorded(w, e) ==
    /\ call[w] # NoCall /\ call[w].event = e /\ row[e].status = "delivering"
    /\ \/ row'[e].status = "delivered"
       \/ call[w].attempts >= MaxAttempts /\ row'[e].status = "dead_letter"
       \/ call[w].attempts < MaxAttempts /\ row'[e].status = "pending"
    /\ row'[e].attempts = row[e].attempts
    /\ UNCHANGED <<batch, requeues>>
    /\ call' = [call EXCEPT ![w] = NoCall]

Requeued(e) ==
    /\ row[e].status = "dead_letter" /\ row'[e].status = "pending"
    /\ row'[e].attempts = 0
    /\ requeues'[e] = requeues[e] + 1
    /\ UNCHANGED <<batch, call, posts>>

Entered(e) ==
    /\ row[e].status = "absent" /\ row'[e].status = "pending"
    /\ row'[e].attempts = row[e].attempts
    /\ UNCHANGED <<batch, call, posts, requeues>>

Stands(e) ==
    /\ row'[e].status = row[e].status /\ row'[e].attempts = row[e].attempts
    /\ requeues'[e] = requeues[e]

\* A claim sweeps the rows at the limit, claims the oldest rows that are due and
\* puts one job for each of them into an empty batch (_claim).
LEMMA ClaimStep ==
    ASSUME OutboxTypeOK, NEW w \in Workers, Claim(w)
    PROVE  /\ batch[w] = {} /\ call[w] = NoCall
           /\ batch' = [batch EXCEPT ![w] =
                {[event |-> e, attempts |-> row[e].attempts + 1] : e \in Oldest(Due)}]
           /\ UNCHANGED <<call, posts, requeues>>
           /\ Oldest(Due) \subseteq Events
           /\ \A e \in Events :
                \/ e \notin Oldest(Due) /\ Stands(e)
                \/ e \notin Oldest(Due) /\ Swept(e)
                \/ e \in Oldest(Due) /\ Claimed(e)
<1> USE OutboxAssumption
<1>1. ASSUME NEW e \in Events
      PROVE  \/ e \notin Oldest(Due) /\ Stands(e)
             \/ e \notin Oldest(Due) /\ Swept(e)
             \/ e \in Oldest(Due) /\ Claimed(e)
  <2>r. row[e] \in Row
    BY DEF OutboxTypeOK
  <2>1. CASE e \in AtLimit
    <3>1. row'[e] = [row[e] EXCEPT !.status = "dead_letter", !.lease = 0]
      BY <2>1 DEF Claim
    <3>2. /\ row[e].status = "delivering" /\ row[e].attempts >= MaxAttempts
          /\ e \notin Oldest(Due)
      BY <2>r, <2>1 DEF AtLimit, LeaseExpired, Oldest, Due, Row
    <3> QED BY <2>r, <3>1, <3>2 DEF Swept, Row
  <2>2. CASE e \notin AtLimit /\ e \in Oldest(Due)
    <3>1. row'[e] = [row[e] EXCEPT !.status = "delivering",
                       !.attempts = row[e].attempts + 1, !.lease = Lease]
      BY <2>2 DEF Claim
    <3> QED BY <2>r, <2>2, <3>1 DEF Oldest, Due, LeaseExpired, Claimed, Row
  <2>3. CASE e \notin AtLimit /\ e \notin Oldest(Due)
    BY <2>3 DEF Claim, Stands
  <2> QED BY <2>1, <2>2, <2>3
<1> QED BY <1>1 DEF Claim, Oldest, Due

\* A request takes one job out of a batch; a crash empties one.
JobPosted(w, j) ==
    /\ j \in batch[w] /\ call[w] = NoCall
    /\ batch' = [batch EXCEPT ![w] = @ \ {j}]
    /\ call' = [call EXCEPT ![w] = [stage |-> "sent", event |-> j.event,
                                    attempts |-> j.attempts]]
    /\ posts' = [posts EXCEPT ![j.event] = @ + 1]
    /\ UNCHANGED <<row, requeues>>

BatchLost(w) ==
    /\ batch' = [batch EXCEPT ![w] = {}]
    /\ call' = [call EXCEPT ![w] = NoCall]
    /\ UNCHANGED <<posts, row, requeues>>

\* No call begins: it ends, or keeps its job.
CallsGoOn ==
    \A w \in Workers :
        \/ call'[w] = NoCall
        \/ /\ call[w] # NoCall
           /\ call'[w].event = call[w].event /\ call'[w].attempts = call[w].attempts

\* Every other step leaves the batches alone and changes a row in one of these
\* ways.
LEMMA OtherStep ==
    ASSUME OutboxTypeOK, [Next]_vars
    PROVE  \/ \E w \in Workers : Claim(w)
           \/ \E w \in Workers, j \in Job : JobPosted(w, j)
           \/ \E w \in Workers : BatchLost(w)
           \/ /\ UNCHANGED <<batch, posts>>
              /\ CallsGoOn
              /\ \A e \in Events :
                   \/ Stands(e)
                   \/ \E w \in Workers : Recorded(w, e)
                   \/ Requeued(e)
                   \/ Entered(e)
<1> USE OutboxAssumption
<1>r. /\ \A e \in Events : row[e] \in Row
      /\ DOMAIN row = Events /\ DOMAIN call = Workers
      /\ requeues \in [Events -> 0..MaxRequeues]
  BY DEF OutboxTypeOK
<1>c. ASSUME NEW w \in Workers, call[w] # NoCall
      PROVE  call[w] \in [stage : Stages \ {"none"}, event : Events,
                          attempts : 1..MaxAttempts]
  BY <1>c DEF OutboxTypeOK
<1>n. ASSUME UNCHANGED call PROVE CallsGoOn
  BY <1>n DEF CallsGoOn
<1>e. ASSUME NEW w \in Workers, call' = [call EXCEPT ![w] = NoCall] PROVE CallsGoOn
  BY <1>e, <1>r DEF CallsGoOn
<1>p. ASSUME NEW w \in Workers, Post(w)
      PROVE  \E j \in Job : JobPosted(w, j)
  <2>1. PICK j \in batch[w] :
          /\ batch' = [batch EXCEPT ![w] = @ \ {j}]
          /\ call' = [call EXCEPT ![w] = [stage |-> "sent", event |-> j.event,
                                          attempts |-> j.attempts]]
          /\ posts' = [posts EXCEPT ![j.event] = @ + 1]
    BY <1>p DEF Post
  <2>2. j \in Job
    BY DEF OutboxTypeOK
  <2>3. JobPosted(w, j)
    BY <1>p, <2>1 DEF Post, JobPosted, outboxVars
  <2> QED BY <2>2, <2>3
<1>l. ASSUME NEW w \in Workers, WorkerCrash(w)
      PROVE  BatchLost(w)
  BY <1>l DEF WorkerCrash, BatchLost, outboxVars
<1>i. ASSUME NEW w \in Workers, Ingest(w) \/ Publish(w)
      PROVE  UNCHANGED <<batch, posts>> /\ CallsGoOn /\ \A e \in Events : Stands(e)
  <2>1. /\ UNCHANGED <<batch, posts>> /\ \A e \in Events : Stands(e)
        /\ call[w] # NoCall
        /\ \E st \in {"stored", "acked"} : call' = [call EXCEPT ![w].stage = st]
    BY <1>i DEF Ingest, Publish, outboxVars, Stands, NoCall
  <2>2. call'[w].event = call[w].event /\ call'[w].attempts = call[w].attempts
    BY <1>c, <1>r, <2>1
  <2> QED BY <1>r, <2>1, <2>2 DEF CallsGoOn
<1>2. ASSUME NEW e \in Events, NEW w \in Workers, RecordSuccess(w)
      PROVE  Stands(e) \/ Recorded(w, e)
  <2>1. CASE row'[e] = row[e]
    BY <1>2, <2>1 DEF RecordSuccess, Stands
  <2>2. CASE row'[e] # row[e]
    <3>1. /\ call[w].event = e /\ row[e].status = "delivering"
          /\ row'[e] = [row[e] EXCEPT !.status = "delivered", !.lease = 0]
      BY <1>2, <1>r, <2>2 DEF RecordSuccess
    <3>2. row'[e].status = "delivered" /\ row'[e].attempts = row[e].attempts
      BY <1>r, <3>1 DEF Row
    <3>3. call[w] # NoCall
      BY <1>2 DEF RecordSuccess, NoCall
    <3> QED BY <1>2, <3>1, <3>2, <3>3 DEF RecordSuccess, Recorded
  <2> QED BY <2>1, <2>2
<1>3. ASSUME NEW e \in Events, NEW w \in Workers, RecordFailure(w)
      PROVE  Stands(e) \/ Recorded(w, e)
  <2>1. CASE row'[e] = row[e]
    BY <1>3, <2>1 DEF RecordFailure, Stands
  <2>2. CASE row'[e] # row[e]
    <3> DEFINE n == call[w].attempts
    <3>1. /\ call[w].event = e /\ row[e].status = "delivering"
          /\ row'[e] = [row[e] EXCEPT
               !.status = IF n >= MaxAttempts THEN "dead_letter" ELSE "pending",
               !.due = IF n >= MaxAttempts THEN 0 ELSE Backoff(n),
               !.lease = 0]
      BY <1>3, <1>r, <2>2 DEF RecordFailure, MarkFailure
    <3>2. /\ row'[e].status = IF n >= MaxAttempts THEN "dead_letter" ELSE "pending"
          /\ row'[e].attempts = row[e].attempts
      BY <1>r, <3>1 DEF Row
    <3>3. n \in 1..MaxAttempts
      BY <1>3 DEF RecordFailure, OutboxTypeOK
    <3>4. call' = [call EXCEPT ![w] = NoCall] /\ UNCHANGED <<batch, requeues>>
          /\ call[w] # NoCall
      BY <1>3 DEF RecordFailure
    <3> QED BY <3>1, <3>2, <3>3, <3>4 DEF Recorded
  <2> QED BY <2>1, <2>2
<1>5. ASSUME NEW e \in Events, NEW f \in Events, Enqueue(f)
      PROVE  Stands(e) \/ Entered(e)
  <2>1. CASE e = f
    BY <1>5, <1>r, <2>1 DEF Enqueue, Entered, Row
  <2>2. CASE e # f
    BY <1>5, <1>r, <2>2 DEF Enqueue, Stands
  <2> QED BY <2>1, <2>2
<1>6. ASSUME NEW e \in Events, NEW f \in Events, RetryDeadLetter(f)
      PROVE  Stands(e) \/ Requeued(e)
  <2>1. CASE e = f
    BY <1>6, <1>r, <2>1 DEF RetryDeadLetter, Requeued
  <2>2. CASE e # f
    BY <1>6, <1>r, <2>2 DEF RetryDeadLetter, Stands
  <2> QED BY <2>1, <2>2
<1>7. ASSUME NEW f \in Events, IngestOrphan(f) \/ PublishOrphan(f)
      PROVE  UNCHANGED <<batch, call, posts>> /\ \A e \in Events : Stands(e)
  BY <1>7 DEF IngestOrphan, PublishOrphan, outboxVars, Stands
<1>8. CASE ObservatoryCrash
  <2>1. UNCHANGED <<batch, posts>> /\ \A e \in Events : Stands(e)
    BY <1>8 DEF ObservatoryCrash, outboxVars, Stands
  <2>2. ASSUME NEW w \in Workers, call'[w] # NoCall
        PROVE  /\ call[w] # NoCall
               /\ call'[w].event = call[w].event /\ call'[w].attempts = call[w].attempts
    <3>1. CASE call[w].stage \in {"sent", "stored"}
      <4>1. call[w] # NoCall
        BY <3>1 DEF NoCall
      <4>2. call'[w] = [call[w] EXCEPT !.stage = "lost"]
        BY <1>8, <3>1 DEF ObservatoryCrash
      <4> QED BY <1>c, <4>1, <4>2
    <3>2. CASE call[w].stage \notin {"sent", "stored"}
      BY <1>8, <2>2, <3>2 DEF ObservatoryCrash
    <3> QED BY <3>1, <3>2
  <2>3. CallsGoOn
    BY <2>2 DEF CallsGoOn
  <2> QED BY <2>1, <2>3
<1>9. CASE Tick
  <2>1. \A e \in Events :
          row'[e].status = row[e].status /\ row'[e].attempts = row[e].attempts
    BY <1>9, <1>r DEF Tick, Row
  <2> QED BY <1>9, <1>n, <2>1 DEF Tick, Stands
<1>10. CASE UNCHANGED vars
  BY <1>10, <1>n DEF vars, Stands
<1>11. CASE \E w \in Workers : RecordSuccess(w) \/ RecordFailure(w)
  <2>1. PICK w \in Workers : RecordSuccess(w) \/ RecordFailure(w)
    BY <1>11
  <2>2. UNCHANGED <<batch, posts>> /\ CallsGoOn
    BY <1>e, <2>1 DEF RecordSuccess, RecordFailure
  <2> QED BY <1>2, <1>3, <2>1, <2>2
<1>12. CASE \E f \in Events : Enqueue(f) \/ RetryDeadLetter(f)
  <2>1. PICK f \in Events : Enqueue(f) \/ RetryDeadLetter(f)
    BY <1>12
  <2>2. UNCHANGED <<batch, posts>> /\ CallsGoOn
    BY <1>n, <2>1 DEF Enqueue, RetryDeadLetter
  <2> QED BY <1>5, <1>6, <2>1, <2>2
<1> QED BY <1>p, <1>l, <1>i, <1>n, <1>7, <1>8, <1>9, <1>10, <1>11, <1>12
     DEF Next, WorkerStep, EventStep

\* A batch never gets a second job for an event.
LEMMA OneJobStep ==
    ASSUME OutboxTypeOK, OneJobPerEvent, [Next]_vars
    PROVE  OneJobPerEvent'
<1> SUFFICES ASSUME NEW v \in Workers, NEW j \in batch'[v], NEW k \in batch'[v],
                    j.event = k.event
             PROVE  j = k
  BY DEF OneJobPerEvent
<1>b. DOMAIN batch = Workers
  BY DEF OutboxTypeOK
<1>1. ASSUME NEW w \in Workers, Claim(w) PROVE j = k
  <2>1. batch' = [batch EXCEPT ![w] =
           {[event |-> e, attempts |-> row[e].attempts + 1] : e \in Oldest(Due)}]
    BY <1>1, ClaimStep
  <2>2. CASE v = w
    BY <1>b, <2>1, <2>2
  <2>3. CASE v # w
    BY <1>b, <2>1, <2>3 DEF OneJobPerEvent
  <2> QED BY <2>2, <2>3
<1>2. CASE batch'[v] \subseteq batch[v]
  BY <1>2 DEF OneJobPerEvent
<1>3. ASSUME NEW w \in Workers, NEW i \in Job, JobPosted(w, i) PROVE j = k
  BY <1>b, <1>2, <1>3 DEF JobPosted
<1>4. ASSUME NEW w \in Workers, BatchLost(w) PROVE j = k
  BY <1>b, <1>2, <1>4 DEF BatchLost
<1> QED BY <1>1, <1>2, <1>3, <1>4, OtherStep

\* Products of natural numbers, for the provers.
LEMMA Products ==
    ASSUME NEW a \in Nat, NEW b \in Nat
    PROVE  /\ a * b \in Nat
           /\ a * (b + 1) = a * b + a
           /\ a * (1 + b) = a * b + a
  OBVIOUS

\* Every step keeps the account of the requests.
LEMMA PostsStep ==
    ASSUME OutboxTypeOK, PostsInv, [Next]_vars
    PROVE  PostsInv'
<1> USE OutboxAssumption
<1>o. OneJobPerEvent'
  BY OneJobStep DEF PostsInv
<1> SUFFICES ASSUME NEW e \in Events
             PROVE  /\ IsFiniteSet(Claimants(e)')
                    /\ posts'[e] + Cardinality(Claimants(e)')
                         <= MaxAttempts * requeues'[e] + row'[e].attempts
  BY <1>o DEF PostsInv
<1> DEFINE C == Claimants(e)
           D == Claimants(e)'
<1>t. /\ posts[e] \in Nat /\ requeues[e] \in Nat /\ MaxAttempts \in Nat
      /\ row[e].attempts \in Nat /\ row[e].attempts <= MaxAttempts
      /\ DOMAIN batch = Workers /\ DOMAIN posts = Events
  BY DEF OutboxTypeOK, Row
<1>p. /\ MaxAttempts * requeues[e] \in Nat
      /\ MaxAttempts * (requeues[e] + 1) = MaxAttempts * requeues[e] + MaxAttempts
  BY <1>t, Products
<1>h. /\ IsFiniteSet(C) /\ Cardinality(C) \in Nat
      /\ posts[e] + Cardinality(C) <= MaxAttempts * requeues[e] + row[e].attempts
  BY FS_CardinalityType DEF PostsInv
<1> DEFINE K == MaxAttempts * requeues[e]
           c == Cardinality(C)
<1>k. /\ K \in Nat /\ c \in Nat
      /\ MaxAttempts * (requeues[e] + 1) = K + MaxAttempts
      /\ posts[e] + c <= K + row[e].attempts
  BY <1>p, <1>h
<1>0. ASSUME D \in SUBSET C, posts'[e] = posts[e], requeues'[e] = requeues[e],
             row'[e].attempts = row[e].attempts
      PROVE  /\ IsFiniteSet(D)
             /\ posts'[e] + Cardinality(D)
                  <= MaxAttempts * requeues'[e] + row'[e].attempts
  <2>1. IsFiniteSet(D) /\ Cardinality(D) <= c /\ Cardinality(D) \in Nat
    BY <1>0, <1>h, FS_Subset, FS_CardinalityType
  <2>2. MaxAttempts * requeues'[e] = K
    BY <1>0
  <2> HIDE DEF K, c, C, D
  <2> QED BY <1>0, <1>t, <1>k, <2>1, <2>2
<1>1. ASSUME NEW w \in Workers, Claim(w)
      PROVE  /\ IsFiniteSet(D)
             /\ posts'[e] + Cardinality(D)
                  <= MaxAttempts * requeues'[e] + row'[e].attempts
  <2>1. /\ batch[w] = {} /\ UNCHANGED <<posts, requeues>>
        /\ batch' = [batch EXCEPT ![w] =
             {[event |-> f, attempts |-> row[f].attempts + 1] : f \in Oldest(Due)}]
        /\ \/ e \notin Oldest(Due) /\ row'[e].attempts = row[e].attempts
           \/ e \in Oldest(Due) /\ row'[e].attempts = row[e].attempts + 1
    BY <1>1, ClaimStep DEF Stands, Swept, Claimed
  <2>2. CASE e \notin Oldest(Due)
    <3>1. D \in SUBSET C
      BY <1>t, <2>1, <2>2 DEF Claimants
    <3> QED BY <1>0, <2>1, <2>2, <3>1
  <2>3. CASE e \in Oldest(Due)
    <3>1. w \notin C
      BY <2>1 DEF Claimants
    <3>2. D = C \cup {w}
      <4>1. ASSUME NEW v \in Workers, v # w
            PROVE  v \in D <=> v \in C
        BY <1>t, <2>1, <4>1 DEF Claimants
      <4>2. w \in D
        <5> DEFINE job == [event |-> e, attempts |-> row[e].attempts + 1]
        <5>1. job \in batch'[w] /\ job.event = e
          BY <1>t, <2>1, <2>3
        <5>2. \E j \in batch'[w] : j.event = e
          BY <5>1
        <5> QED BY <5>2 DEF Claimants
      <4>3. D \subseteq Workers /\ C \subseteq Workers
        BY DEF Claimants
      <4> HIDE DEF C, D
      <4> QED BY <4>1, <4>2, <4>3
    <3>3. IsFiniteSet(D) /\ Cardinality(D) = c + 1
      <4> HIDE DEF D, C
      <4> QED BY <1>h, <3>1, <3>2, FS_AddElement DEF c
    <3>4. MaxAttempts * requeues'[e] = K /\ posts'[e] = posts[e]
      BY <2>1
    <3>5. row'[e].attempts = row[e].attempts + 1
      BY <2>1, <2>3
    <3> HIDE DEF K, c, C, D
    <3> QED BY <1>t, <1>k, <3>3, <3>4, <3>5
  <2> QED BY <2>2, <2>3
<1>2. ASSUME NEW w \in Workers, NEW j \in Job, JobPosted(w, j)
      PROVE  /\ IsFiniteSet(D)
             /\ posts'[e] + Cardinality(D)
                  <= MaxAttempts * requeues'[e] + row'[e].attempts
  <2>1. /\ j \in batch[w] /\ batch' = [batch EXCEPT ![w] = @ \ {j}]
        /\ posts' = [posts EXCEPT ![j.event] = @ + 1]
        /\ UNCHANGED <<row, requeues>>
    BY <1>2 DEF JobPosted
  <2>2. D \in SUBSET C
    BY <1>t, <2>1 DEF Claimants
  <2>3. CASE e # j.event
    <3>1. posts'[e] = posts[e]
      BY <1>t, <2>1, <2>3
    <3> QED BY <1>0, <2>1, <2>2, <3>1
  <2>4. CASE e = j.event
    <3>1. w \in C
      BY <2>1, <2>4 DEF Claimants
    <3>2. w \notin D
      <4>1. \A k \in batch[w] : k.event = j.event => k = j
        BY <2>1 DEF PostsInv, OneJobPerEvent
      <4> QED BY <1>t, <2>1, <2>4, <4>1 DEF Claimants
    <3>3. D \in SUBSET (C \ {w})
      <4> HIDE DEF C, D
      <4> QED BY <2>2, <3>2
    <3>4. IsFiniteSet(C \ {w}) /\ Cardinality(C \ {w}) = c - 1
      <4> HIDE DEF D, C
      <4> QED BY <1>h, <3>1, FS_RemoveElement DEF c
    <3>5. IsFiniteSet(D) /\ Cardinality(D) <= c - 1 /\ Cardinality(D) \in Nat
      <4> HIDE DEF D, C
      <4>1. IsFiniteSet(D) /\ Cardinality(D) <= Cardinality(C \ {w})
        BY <3>3, <3>4, FS_Subset
      <4> QED BY <3>4, <4>1, FS_CardinalityType
    <3>6. posts'[e] = posts[e] + 1 /\ MaxAttempts * requeues'[e] = K
          /\ row'[e].attempts = row[e].attempts
      BY <1>t, <2>1, <2>4
    <3> HIDE DEF K, c, C, D
    <3> QED BY <1>t, <1>k, <3>5, <3>6
  <2> QED BY <2>3, <2>4
<1>3. ASSUME NEW w \in Workers, BatchLost(w)
      PROVE  /\ IsFiniteSet(D)
             /\ posts'[e] + Cardinality(D)
                  <= MaxAttempts * requeues'[e] + row'[e].attempts
  <2>1. D \in SUBSET C
    BY <1>3, <1>t DEF BatchLost, Claimants
  <2> QED BY <1>0, <1>3, <2>1 DEF BatchLost
<1>4. ASSUME UNCHANGED <<batch, posts>>
      PROVE  D \in SUBSET C /\ D = C /\ posts'[e] = posts[e]
  BY <1>4 DEF Claimants
<1>5. ASSUME UNCHANGED <<batch, posts>>,
             Stands(e) \/ (\E w \in Workers : Recorded(w, e)) \/ Entered(e)
      PROVE  /\ IsFiniteSet(D)
             /\ posts'[e] + Cardinality(D)
                  <= MaxAttempts * requeues'[e] + row'[e].attempts
  <2>1. requeues'[e] = requeues[e] /\ row'[e].attempts = row[e].attempts
    BY <1>5 DEF Stands, Recorded, Entered
  <2> QED BY <1>0, <1>4, <1>5, <2>1
<1>6. ASSUME UNCHANGED <<batch, posts>>, Requeued(e)
      PROVE  /\ IsFiniteSet(D)
             /\ posts'[e] + Cardinality(D)
                  <= MaxAttempts * requeues'[e] + row'[e].attempts
  <2>1. IsFiniteSet(D) /\ Cardinality(D) = c /\ posts'[e] = posts[e]
    BY <1>4, <1>6, <1>h
  <2>2. row'[e].attempts = 0 /\ MaxAttempts * requeues'[e] = K + MaxAttempts
    BY <1>6, <1>k DEF Requeued
  <2> HIDE DEF K, c, C, D
  <2> QED BY <1>t, <1>k, <2>1, <2>2
<1> HIDE DEF C, D
<1>7. /\ IsFiniteSet(D)
      /\ posts'[e] + Cardinality(D) <= MaxAttempts * requeues'[e] + row'[e].attempts
  BY <1>1, <1>2, <1>3, <1>5, <1>6, OtherStep
<1> QED BY <1>7 DEF D

\* An event is posted at most max_attempts times for each time it was enqueued
\* or requeued, with any number of overlapping and crashing workers: a claim
\* pays for its request before it is sent (_claim).
THEOREM BoundedPosts == Spec => []PostsAreBounded
<1> USE OutboxAssumption
<1>1. Init => PostsInv
  <2> SUFFICES ASSUME Init PROVE PostsInv
    OBVIOUS
  <2>1. OneJobPerEvent
    BY DEF Init, OneJobPerEvent
  <2>2. ASSUME NEW e \in Events PROVE Claimants(e) = {}
    BY DEF Init, Claimants
  <2>3. ASSUME NEW e \in Events
        PROVE  0 <= MaxAttempts * requeues[e] + row[e].attempts /\ posts[e] = 0
    BY DEF Init
  <2> QED BY <2>1, <2>2, <2>3, FS_EmptySet DEF PostsInv
<1>2. OutboxTypeOK /\ PostsInv /\ [Next]_vars => PostsInv'
  BY PostsStep
<1>3. OutboxTypeOK /\ PostsInv => PostsAreBounded
  <2> SUFFICES ASSUME OutboxTypeOK, PostsInv, NEW e \in Events
               PROVE  posts[e] <= MaxAttempts * (1 + requeues[e])
    BY DEF PostsAreBounded
  <2>1. /\ posts[e] \in Nat /\ requeues[e] \in Nat /\ MaxAttempts \in Nat
        /\ row[e].attempts \in Nat /\ row[e].attempts <= MaxAttempts
    BY DEF OutboxTypeOK, Row
  <2>2. /\ MaxAttempts * requeues[e] \in Nat
        /\ MaxAttempts * (1 + requeues[e]) = MaxAttempts * requeues[e] + MaxAttempts
    BY <2>1, Products
  <2>3. /\ Cardinality(Claimants(e)) \in Nat
        /\ posts[e] + Cardinality(Claimants(e))
             <= MaxAttempts * requeues[e] + row[e].attempts
    BY FS_CardinalityType DEF PostsInv
  <2> QED BY <2>1, <2>2, <2>3
<1> QED BY <1>1, <1>2, <1>3, OutboxTypeCorrect, PTL DEF Spec

-----------------------------------------------------------------------------
(* One worker at a time. *)

\* The deployment in which worker jobs never overlap, which is what the
\* outbox_single run checks: overlapping workers can strand a row, as the
\* outbox_stranded run shows.
SoleWorker == \A v, w \in Workers : v = w

\* The row still is as the claim of job j left it.
Agrees(j) ==
    /\ row[j.event].status = "delivering"
    /\ row[j.event].attempts = j.attempts

\* Inductive strengthening of NoStrandedRow and DeadLetterAtLimit: what a worker
\* remembers of the rows it holds is true of them, so that the attempt number
\* _mark_failure() is given decides as the row's own would.
HeldInv ==
    /\ \A e \in Events : row[e].status = "absent" => row[e].attempts = 0
    /\ NoStrandedRow
    /\ DeadLetterAtLimit
    /\ OneJobPerEvent
    /\ \A w \in Workers :
         /\ \A j \in batch[w] : Agrees(j)
         /\ call[w] # NoCall => Agrees(call[w])
         /\ call[w] # NoCall => \A j \in batch[w] : j.event # call[w].event

\* Nothing is held of an empty outbox.
LEMMA HeldInit == Init => HeldInv
  BY OutboxAssumption
  DEF Init, HeldInv, NoStrandedRow, DeadLetterAtLimit, OneJobPerEvent

\* A step of a sole worker, or of anyone else, leaves what the worker remembers
\* true.
LEMMA HeldStep ==
    ASSUME SoleWorker, OutboxTypeOK, HeldInv, [Next]_vars
    PROVE  HeldInv'
<1> USE OutboxAssumption
<1>o. OneJobPerEvent'
  BY OneJobStep DEF HeldInv
<1>t. /\ \A e \in Events : row[e].attempts \in Nat /\ row[e].attempts <= MaxAttempts
      /\ DOMAIN batch = Workers /\ DOMAIN call = Workers
      /\ \A w \in Workers : \A j \in batch[w] : j.event \in Events
      /\ \A w \in Workers : call[w] # NoCall =>
           call[w].event \in Events /\ call[w].attempts \in Nat
  BY DEF OutboxTypeOK, Row, Job
<1>s. \A v, w \in Workers : v = w
  BY DEF SoleWorker
<1> DEFINE RowOK(e) ==
             /\ row'[e].status = "absent" => row'[e].attempts = 0
             /\ row'[e].status = "pending" => row'[e].attempts < MaxAttempts
             /\ row'[e].status = "dead_letter" => row'[e].attempts = MaxAttempts
           HoldsOK(w) ==
             /\ \A j \in batch'[w] : Agrees(j)'
             /\ call'[w] # NoCall => Agrees(call[w])'
             /\ call'[w] # NoCall => \A j \in batch'[w] : j.event # call'[w].event
<1>g. ASSUME \A e \in Events : RowOK(e), \A w \in Workers : HoldsOK(w)
      PROVE  HeldInv'
  BY <1>o, <1>g DEF HeldInv, NoStrandedRow, DeadLetterAtLimit
<1>0. ASSUME NEW e \in Events, Stands(e) PROVE RowOK(e)
  BY <1>0 DEF HeldInv, NoStrandedRow, DeadLetterAtLimit, Stands
<1>1. ASSUME NEW w \in Workers, Claim(w) PROVE HeldInv'
  <2>1. ASSUME NEW e \in Events PROVE RowOK(e)
    <3>1. CASE Swept(e)
      BY <1>t, <3>1 DEF Swept
    <3>2. CASE Claimed(e)
      BY <3>2 DEF Claimed
    <3> QED BY <1>0, <1>1, <3>1, <3>2, ClaimStep
  <2>2. ASSUME NEW v \in Workers PROVE HoldsOK(v)
    <3>1. v = w /\ call'[v] = NoCall
      BY <1>1, <1>s, ClaimStep
    <3>2. ASSUME NEW j \in batch'[v] PROVE Agrees(j)'
      <4>1. PICK e \in Oldest(Due) :
              j = [event |-> e, attempts |-> row[e].attempts + 1]
        BY <1>1, <1>t, <3>1, <3>2, ClaimStep
      <4>2. e \in Events /\ Claimed(e)
        BY <1>1, ClaimStep
      <4> QED BY <4>1, <4>2 DEF Agrees, Claimed
    <3> QED BY <3>1, <3>2
  <2> QED BY <1>g, <2>1, <2>2
<1>2. ASSUME NEW w \in Workers, NEW i \in Job, JobPosted(w, i) PROVE HeldInv'
  <2>1. ASSUME NEW e \in Events PROVE RowOK(e)
    BY <1>0, <1>2 DEF JobPosted, Stands
  <2>2. ASSUME NEW v \in Workers PROVE HoldsOK(v)
    <3>1. /\ v = w /\ i \in batch[v] /\ batch'[v] = batch[v] \ {i} /\ row' = row
          /\ call'[v] = [stage |-> "sent", event |-> i.event, attempts |-> i.attempts]
      BY <1>2, <1>s, <1>t DEF JobPosted
    <3>2. \A j \in batch[v] : Agrees(j) /\ (j.event = i.event => j = i)
      BY <3>1 DEF HeldInv, OneJobPerEvent
    <3> QED BY <3>1, <3>2 DEF Agrees
  <2> QED BY <1>g, <2>1, <2>2
<1>3. ASSUME NEW w \in Workers, BatchLost(w) PROVE HeldInv'
  <2>1. ASSUME NEW e \in Events PROVE RowOK(e)
    BY <1>0, <1>3 DEF BatchLost, Stands
  <2>2. ASSUME NEW v \in Workers PROVE HoldsOK(v)
    BY <1>3, <1>s, <1>t DEF BatchLost
  <2> QED BY <1>g, <2>1, <2>2
<1>4. ASSUME UNCHANGED batch, CallsGoOn,
             \A e \in Events : \/ Stands(e)
                               \/ \E w \in Workers : Recorded(w, e)
                               \/ Requeued(e)
                               \/ Entered(e)
      PROVE  HeldInv'
  <2>1. ASSUME NEW e \in Events PROVE RowOK(e)
    <3>1. ASSUME NEW w \in Workers, Recorded(w, e) PROVE RowOK(e)
      <4>1. row[e].attempts = call[w].attempts
        BY <3>1 DEF Recorded, HeldInv, Agrees
      <4> QED BY <1>t, <3>1, <4>1 DEF Recorded
    <3>2. CASE Requeued(e)
      BY <3>2 DEF Requeued
    <3>3. CASE Entered(e)
      BY <3>3 DEF Entered, HeldInv
    <3> QED BY <1>0, <1>4, <3>1, <3>2, <3>3
  <2>2. ASSUME NEW v \in Workers PROVE HoldsOK(v)
    <3>1. ASSUME NEW e \in Events, row[e].status = "delivering"
          PROVE  \/ row'[e].status = "delivering" /\ row'[e].attempts = row[e].attempts
                 \/ call[v] # NoCall /\ call[v].event = e /\ call'[v] = NoCall
      <4>1. ASSUME NEW w \in Workers, Recorded(w, e)
            PROVE  call[v] # NoCall /\ call[v].event = e /\ call'[v] = NoCall
        BY <1>s, <1>t, <4>1 DEF Recorded
      <4> QED BY <1>4, <3>1, <4>1 DEF Stands, Requeued, Entered
    <3>2. ASSUME NEW j \in batch'[v] PROVE Agrees(j)'
      <4>1. j \in batch[v] /\ j.event \in Events /\ Agrees(j)
        BY <1>4, <1>t DEF HeldInv
      <4>2. call[v] # NoCall => j.event # call[v].event
        BY <4>1 DEF HeldInv
      <4> QED BY <3>1, <4>1, <4>2 DEF Agrees
    <3>3. ASSUME call'[v] # NoCall
          PROVE  /\ Agrees(call[v])'
                 /\ \A j \in batch'[v] : j.event # call'[v].event
      <4>1. /\ call[v] # NoCall /\ call'[v].event = call[v].event
            /\ call'[v].attempts = call[v].attempts /\ batch'[v] = batch[v]
        BY <1>4, <3>3 DEF CallsGoOn
      <4>2. /\ Agrees(call[v]) /\ call[v].event \in Events
            /\ \A j \in batch[v] : j.event # call[v].event
        BY <1>t, <4>1 DEF HeldInv
      <4> QED BY <3>1, <3>3, <4>1, <4>2 DEF Agrees
    <3> QED BY <3>2, <3>3
  <2> QED BY <1>g, <2>1, <2>2
<1> HIDE DEF RowOK, HoldsOK
<1> QED BY <1>1, <1>2, <1>3, <1>4, OtherStep

\* With one worker at a time, what the worker remembers of its rows stays true.
THEOREM HeldRowsAgree ==
    ASSUME SoleWorker PROVE Spec => []HeldInv
<1>1. OutboxTypeOK /\ HeldInv /\ [Next]_vars => HeldInv'
  BY HeldStep
<1> QED BY <1>1, HeldInit, OutboxTypeCorrect, PTL DEF Spec

\* With one worker at a time a row that waits for a retry has attempts left:
\* no timeout, crash or requeueing leaves it where nobody claims it
\* (_mark_failure, _claim).
THEOREM NothingStranded ==
    ASSUME SoleWorker PROVE Spec => []NoStrandedRow
<1>1. HeldInv => NoStrandedRow
  BY DEF HeldInv
<1> QED BY <1>1, HeldRowsAgree, PTL

\* With one worker at a time an event is given up only after max_attempts
\* attempts (_mark_failure, _claim's sweep).
THEOREM GivenUpAtLimit ==
    ASSUME SoleWorker PROVE Spec => []DeadLetterAtLimit
<1>1. HeldInv => DeadLetterAtLimit
  BY DEF HeldInv
<1> QED BY <1>1, HeldRowsAgree, PTL

\* With one worker at a time every acknowledgement the worker records finds its
\* row delivering and leaves it delivered (deliver_pending's conditional UPDATE).
THEOREM SuccessesRecorded ==
    ASSUME SoleWorker PROVE Spec => AcknowledgedIsRecorded
<1>1. ASSUME OutboxTypeOK, HeldInv, NEW w \in Workers, RecordSuccess(w)
      PROVE  row'[call[w].event].status = "delivered"
  <2>1. call[w] # NoCall
    BY <1>1 DEF RecordSuccess, NoCall
  <2>2. call[w].event \in Events /\ row[call[w].event].status = "delivering"
    BY <1>1, <2>1 DEF HeldInv, Agrees, OutboxTypeOK
  <2>3. row[call[w].event] \in Row /\ DOMAIN row = Events
    BY <1>1, <2>2 DEF OutboxTypeOK
  <2> QED BY <1>1, <2>2, <2>3 DEF RecordSuccess, Row
<1>2. OutboxTypeOK /\ HeldInv /\ [Next]_vars =>
        [\A w \in Workers : RecordSuccess(w) =>
           row'[call[w].event].status = "delivered"]_vars
  BY <1>1
<1> QED BY <1>2, HeldRowsAgree, OutboxTypeCorrect, PTL DEF Spec, AcknowledgedIsRecorded

-----------------------------------------------------------------------------
(* Idempotent delivery. *)

\* Only events that were enqueued are claimed, posted or handled.
KnownInv ==
    /\ \A w \in Workers : \A j \in batch[w] : row[j.event].status # "absent"
    /\ \A w \in Workers : call[w] # NoCall => row[call[w].event].status # "absent"
    /\ \A o \in orphans : row[o.event].status # "absent"

\* A row is never removed.
LEMMA RowsStay ==
    ASSUME OutboxTypeOK, [Next]_vars, NEW e \in Events, row[e].status # "absent"
    PROVE  row'[e].status # "absent"
<1>1. ASSUME NEW w \in Workers, Claim(w) PROVE row'[e].status # "absent"
  BY <1>1, ClaimStep DEF Stands, Swept, Claimed
<1>2. ASSUME NEW w \in Workers, NEW j \in Job, JobPosted(w, j)
      PROVE  row'[e].status # "absent"
  BY <1>2 DEF JobPosted
<1>3. ASSUME NEW w \in Workers, BatchLost(w) PROVE row'[e].status # "absent"
  BY <1>3 DEF BatchLost
<1> QED BY <1>1, <1>2, <1>3, OtherStep DEF Stands, Recorded, Requeued, Entered

\* A request that nobody waits for was somebody's, or was already there.
LEMMA OrphansStep ==
    ASSUME OutboxTypeOK, [Next]_vars, NEW o \in orphans'
    PROVE  \/ \E p \in orphans : p.event = o.event
           \/ \E w \in Workers : call[w] # NoCall /\ call[w].event = o.event
<1>a. ASSUME NEW w \in Workers, orphans' = Abandon(call[w])
      PROVE  \/ \E p \in orphans : p.event = o.event
             \/ \E v \in Workers : call[v] # NoCall /\ call[v].event = o.event
  <2>1. CASE o \in orphans
    BY <2>1
  <2>2. CASE o \notin orphans
    <3>1. /\ call[w].stage \in {"sent", "stored"}
          /\ o = [stage |-> call[w].stage, event |-> call[w].event]
      BY <1>a, <2>2 DEF Abandon
    <3>2. call[w] # NoCall /\ o.event = call[w].event
      BY <3>1 DEF NoCall
    <3> QED BY <3>2
  <2> QED BY <2>1, <2>2
<1>1. CASE UNCHANGED orphans
  BY <1>1
<1>2. ASSUME NEW w \in Workers, RecordFailure(w)
      PROVE  UNCHANGED orphans \/ orphans' = Abandon(call[w])
  BY <1>2 DEF RecordFailure
<1>3. ASSUME NEW w \in Workers, WorkerCrash(w) PROVE orphans' = Abandon(call[w])
  BY <1>3 DEF WorkerCrash
<1>4. ASSUME NEW e \in Events, IngestOrphan(e)
      PROVE  \E p \in orphans : p.event = o.event
  BY <1>4 DEF IngestOrphan
<1>5. ASSUME NEW e \in Events, PublishOrphan(e)
      PROVE  \E p \in orphans : p.event = o.event
  BY <1>5 DEF PublishOrphan
<1>6. CASE ObservatoryCrash
  BY <1>6 DEF ObservatoryCrash
<1>7. ASSUME \/ \E w \in Workers : \/ Claim(w) \/ Post(w) \/ RecordSuccess(w)
                                   \/ Ingest(w) \/ Publish(w)
             \/ \E e \in Events : Enqueue(e) \/ RetryDeadLetter(e)
             \/ Tick
             \/ UNCHANGED vars
      PROVE  UNCHANGED orphans
  BY <1>7 DEF Claim, Post, RecordSuccess, Ingest, Publish, Enqueue,
     RetryDeadLetter, Tick, vars, observatoryVars
<1> QED BY <1>a, <1>1, <1>2, <1>3, <1>4, <1>5, <1>6, <1>7
     DEF Next, WorkerStep, EventStep

\* Every step keeps to events that were enqueued.
LEMMA KnownStep ==
    ASSUME OutboxTypeOK, KnownInv, [Next]_vars
    PROVE  KnownInv'
<1>t. /\ \A w \in Workers : \A j \in batch[w] : j.event \in Events
      /\ \A w \in Workers : call[w] # NoCall => call[w].event \in Events
      /\ \A o \in orphans : o.event \in Events
      /\ DOMAIN batch = Workers /\ DOMAIN call = Workers
  BY DEF OutboxTypeOK, Job
<1>o. \A o \in orphans' : row'[o.event].status # "absent"
  <2> SUFFICES ASSUME NEW o \in orphans' PROVE row'[o.event].status # "absent"
    OBVIOUS
  <2>1. o.event \in Events /\ row[o.event].status # "absent"
    BY <1>t, OrphansStep DEF KnownInv
  <2> QED BY <2>1, RowsStay
<1>s. /\ \A w \in Workers : \A j \in batch[w] : row'[j.event].status # "absent"
      /\ \A w \in Workers : call[w] # NoCall => row'[call[w].event].status # "absent"
  BY <1>t, RowsStay DEF KnownInv
<1> SUFFICES ASSUME NEW v \in Workers
             PROVE  /\ \A j \in batch'[v] : row'[j.event].status # "absent"
                    /\ call'[v] # NoCall => row'[call'[v].event].status # "absent"
  BY <1>o DEF KnownInv
<1>1. ASSUME NEW w \in Workers, Claim(w)
      PROVE  /\ \A j \in batch'[v] : row'[j.event].status # "absent"
             /\ call'[v] # NoCall => row'[call'[v].event].status # "absent"
  <2>1. call' = call
    BY <1>1, ClaimStep
  <2>2. ASSUME NEW j \in batch'[v], j \notin batch[v]
        PROVE  row'[j.event].status # "absent"
    <3>1. PICK e \in Oldest(Due) :
            j = [event |-> e, attempts |-> row[e].attempts + 1]
      BY <1>1, <1>t, <2>2, ClaimStep
    <3>2. e \in Events /\ Claimed(e) /\ j.event = e
      BY <1>1, <3>1, ClaimStep
    <3> QED BY <3>2 DEF Claimed
  <2> QED BY <1>s, <2>1, <2>2
<1>2. ASSUME NEW w \in Workers, NEW i \in Job, JobPosted(w, i)
      PROVE  /\ \A j \in batch'[v] : row'[j.event].status # "absent"
             /\ call'[v] # NoCall => row'[call'[v].event].status # "absent"
  BY <1>2, <1>s, <1>t DEF JobPosted
<1>3. ASSUME NEW w \in Workers, BatchLost(w)
      PROVE  /\ \A j \in batch'[v] : row'[j.event].status # "absent"
             /\ call'[v] # NoCall => row'[call'[v].event].status # "absent"
  BY <1>3, <1>s, <1>t DEF BatchLost
<1>4. ASSUME UNCHANGED batch, CallsGoOn
      PROVE  /\ \A j \in batch'[v] : row'[j.event].status # "absent"
             /\ call'[v] # NoCall => row'[call'[v].event].status # "absent"
  BY <1>4, <1>s DEF CallsGoOn
<1> QED BY <1>1, <1>2, <1>3, <1>4, OtherStep

\* The refinement mapping of a row.
LEMMA Fates ==
    ASSUME OutboxTypeOK, NEW e \in Events
    PROVE  /\ Fate(e) = "none" <=> row[e].status = "absent"
           /\ Fate(e) = "open" <=> row[e].status \in {"pending", "delivering"}
           /\ Fate(e) = "given_up" <=> row[e].status = "dead_letter"
           /\ Fate(e) = "delivered" <=> row[e].status = "delivered"
           /\ Fate(e) \in {"none", "open", "given_up", "delivered"}
<1>1. row[e].status \in Statuses
  BY DEF OutboxTypeOK, Row
<1> QED BY <1>1 DEF Statuses, Fate

\* Every step of the outbox and of the Observatory is a step of idempotent
\* delivery, or none.
LEMMA DeliveryStep ==
    ASSUME OutboxInv, KnownInv, [Next]_vars
    PROVE  [Delivery!Next]_(Delivery!vars)
<1> USE OutboxAssumption, EventsAssumption
<1> DEFINE fate == [e \in Events |-> Fate(e)]
           fanned == {e \in Events : published[e] > 0}
           Goal == \/ Delivery!Next
                   \/ fate' = fate /\ stored' = stored /\ fanned' = fanned
<1> SUFFICES Goal
  BY DEF Delivery!vars
<1>i. OutboxTypeOK /\ StoredInv /\ OnePublisher
  BY DEF OutboxInv
<1>i2. OutboxTypeOK'
  BY <1>i, NextPreservesType
<1>f. \A e \in Events :
        /\ Fate(e) = "none" <=> row[e].status = "absent"
        /\ Fate(e) = "open" <=> row[e].status \in {"pending", "delivering"}
        /\ Fate(e) = "given_up" <=> row[e].status = "dead_letter"
        /\ Fate(e) = "delivered" <=> row[e].status = "delivered"
  BY <1>i, Fates
<1>f2. \A e \in Events :
        /\ Fate(e)' = "none" <=> row'[e].status = "absent"
        /\ Fate(e)' = "open" <=> row'[e].status \in {"pending", "delivering"}
        /\ Fate(e)' = "given_up" <=> row'[e].status = "dead_letter"
        /\ Fate(e)' = "delivered" <=> row'[e].status = "delivered"
  <2> SUFFICES ASSUME NEW e \in Events
               PROVE  /\ Fate(e)' = "none" <=> row'[e].status = "absent"
                      /\ Fate(e)' = "open" <=> row'[e].status \in {"pending", "delivering"}
                      /\ Fate(e)' = "given_up" <=> row'[e].status = "dead_letter"
                      /\ Fate(e)' = "delivered" <=> row'[e].status = "delivered"
    OBVIOUS
  <2>1. row'[e].status \in Statuses
    BY <1>i2 DEF OutboxTypeOK, Row
  <2> QED BY <2>1 DEF Statuses, Fate
<1>e. \A e \in Events : row'[e].status = row[e].status => Fate(e)' = Fate(e)
  BY DEF Fate
<1>g. \A e \in Events : Fate(e) \in {"none", "open", "given_up", "delivered"}
  BY <1>i, Fates
<1>t. /\ row \in [Events -> Row] /\ stored \subseteq Events
      /\ published \in [Events -> Nat]
      /\ \A w \in Workers : call[w].stage # "none" => call[w].event \in Events
      /\ \A w \in Workers : call[w].stage # "none" => call[w] # NoCall
  BY <1>i DEF OutboxTypeOK, NoCall
<1>u. ASSUME \A e \in Events : row'[e].status = row[e].status
      PROVE  fate' = fate
  BY <1>e, <1>u
\* What the steps of the abstract specification take.
<1>Submit. ASSUME NEW e \in Events, row[e].status \in {"absent", "dead_letter"},
                  row'[e].status = "pending",
                  \A f \in Events \ {e} : row'[f].status = row[f].status,
                  UNCHANGED <<stored, published>>
           PROVE  Goal
  <2>1. fate[e] \in {"none", "given_up"} /\ fate' = [fate EXCEPT ![e] = "open"]
    BY <1>Submit, <1>f, <1>f2, <1>e
  <2>2. Delivery!Submit(e)
    BY <1>Submit, <2>1 DEF Delivery!Submit
  <2> QED BY <2>2 DEF Delivery!Next
<1>Store. ASSUME NEW e \in Events, row[e].status # "absent", UNCHANGED <<row, published>>,
                 stored' = stored \cup {e}
          PROVE  Goal
  <2>1. fate' = fate /\ fanned' = fanned
    BY <1>Store, <1>u
  <2>2. CASE e \in stored
    BY <1>Store, <2>1, <2>2
  <2>3. CASE e \notin stored
    <3>1. fate[e] # "none"
      BY <1>Store, <1>f
    <3>2. Delivery!Store(e)
      BY <1>Store, <2>1, <2>3, <3>1 DEF Delivery!Store
    <3> QED BY <3>2 DEF Delivery!Next
  <2> QED BY <2>2, <2>3
<1>FanOut. ASSUME NEW e \in Events, e \in stored, published[e] = 0,
                  published' = [published EXCEPT ![e] = @ + 1],
                  UNCHANGED <<row, stored>>
           PROVE  Goal
  <2>1. fate' = fate
    BY <1>FanOut, <1>u
  <2>2. e \notin fanned /\ fanned' = fanned \cup {e}
    BY <1>FanOut, <1>t
  <2>3. Delivery!FanOut(e)
    BY <1>FanOut, <2>1, <2>2 DEF Delivery!FanOut
  <2> QED BY <2>3 DEF Delivery!Next
<1>GiveUp. ASSUME NEW lost \in SUBSET Events,
                  \A e \in lost : /\ row[e].status = "delivering"
                                  /\ row'[e].status = "dead_letter",
                  \A e \in Events \ lost : Fate(e)' = Fate(e),
                  UNCHANGED <<stored, published>>
           PROVE  Goal
  <2>1. fanned' = fanned
    BY <1>GiveUp
  <2>2. CASE lost = {}
    BY <1>GiveUp, <2>1, <2>2
  <2>3. CASE lost # {}
    <3>1. \A e \in lost : fate[e] = "open"
      BY <1>GiveUp, <1>f
    <3>2. fate' = [e \in Events |-> IF e \in lost THEN "given_up" ELSE fate[e]]
      BY <1>GiveUp, <1>f2
    <3>3. Delivery!GiveUp(lost)
      BY <1>GiveUp, <2>1, <3>1, <3>2 DEF Delivery!GiveUp
    <3>4. lost \in (SUBSET Events) \ {{}}
      BY <2>3
    <3> QED BY <3>3, <3>4 DEF Delivery!Next
  <2> QED BY <2>2, <2>3
<1>c. ASSUME UNCHANGED <<stored, published>>,
             \A e \in Events : row'[e].status = row[e].status
      PROVE  Goal
  BY <1>c, <1>u
<1> HIDE DEF Goal, fate, fanned
\* The steps of the outbox.
<1>1. ASSUME NEW w \in Workers, Claim(w) PROVE Goal
  <2> DEFINE lost == {e \in Events : Swept(e)}
  <2>1. ASSUME NEW e \in Events, e \notin lost PROVE Fate(e)' = Fate(e)
    <3>1. Stands(e) \/ Claimed(e)
      BY <1>1, <1>i, <2>1, ClaimStep
    <3> QED BY <3>1, <1>e, <1>f, <1>f2 DEF Stands, Claimed
  <2>2. \A e \in lost : row[e].status = "delivering" /\ row'[e].status = "dead_letter"
    BY DEF Swept
  <2>3. UNCHANGED <<stored, published>>
    BY <1>1 DEF Claim, observatoryVars
  <2> QED BY <1>GiveUp, <2>1, <2>2, <2>3
<1>2. ASSUME NEW w \in Workers, Post(w) \/ WorkerCrash(w) PROVE Goal
  BY <1>2, <1>c DEF Post, WorkerCrash, outboxVars, observatoryVars
<1>3. ASSUME NEW w \in Workers, RecordSuccess(w) PROVE Goal
  <2> DEFINE e == call[w].event
  <2>1. e \in Events /\ e \in stored
    BY <1>3, <1>i, <1>t DEF RecordSuccess, StoredInv
  <2>2. UNCHANGED <<stored, published>>
    BY <1>3 DEF RecordSuccess, observatoryVars
  <2>3. CASE row[e].status = "delivering"
    <3>1. row' = [row EXCEPT ![e] = [@ EXCEPT !.status = "delivered", !.lease = 0]]
      BY <1>3, <2>3 DEF RecordSuccess
    <3>2. /\ row'[e].status = "delivered"
          /\ \A f \in Events \ {e} : row'[f] = row[f]
      BY <1>t, <2>1, <3>1 DEF Row
    <3>3. fate[e] = "open" /\ fate' = [fate EXCEPT ![e] = "delivered"]
      BY <1>e, <1>f, <1>f2, <2>1, <2>3, <3>2 DEF fate
    <3>4. fanned' = fanned
      BY <2>2 DEF fanned
    <3>5. Delivery!Confirm(e)
      BY <2>1, <2>2, <3>3, <3>4 DEF Delivery!Confirm, fate, fanned
    <3> QED BY <2>1, <3>5 DEF Goal, Delivery!Next
  <2>4. CASE row[e].status # "delivering"
    <3>1. row' = row
      BY <1>3, <2>4 DEF RecordSuccess
    <3> QED BY <1>c, <2>2, <3>1
  <2> QED BY <2>3, <2>4
<1>4. ASSUME NEW w \in Workers, RecordFailure(w) PROVE Goal
  <2> DEFINE e == call[w].event
             n == call[w].attempts
  <2>1. e \in Events /\ row' = MarkFailure(e, n) /\ UNCHANGED <<stored, published>>
    BY <1>4, <1>i DEF RecordFailure, OutboxTypeOK
  <2>2. CASE row[e].status # "delivering"
    <3>1. row' = row
      BY <2>1, <2>2 DEF MarkFailure
    <3> QED BY <1>c, <2>1, <3>1
  <2>3. CASE row[e].status = "delivering"
    <3>1. /\ row'[e].status = IF n >= MaxAttempts THEN "dead_letter" ELSE "pending"
          /\ \A f \in Events \ {e} : row'[f] = row[f]
      BY <1>t, <2>1, <2>3 DEF MarkFailure, Row
    <3>2. \A f \in Events \ {e} : Fate(f)' = Fate(f)
      BY <1>e, <3>1
    <3>3. CASE n >= MaxAttempts
      <4> DEFINE lost == {e}
      <4>1. lost \in SUBSET Events /\ \A f \in Events \ lost : Fate(f)' = Fate(f)
        BY <2>1, <3>2
      <4>2. \A f \in lost : row[f].status = "delivering" /\ row'[f].status = "dead_letter"
        BY <2>3, <3>1, <3>3
      <4> HIDE DEF lost
      <4> QED BY <1>GiveUp, <2>1, <4>1, <4>2
    <3>4. CASE ~(n >= MaxAttempts)
      <4> DEFINE lost == {}
      <4>1. \A f \in Events : f = e => Fate(f)' = Fate(f)
        BY <1>f, <1>f2, <2>1, <2>3, <3>1, <3>4
      <4>2. lost \in SUBSET Events /\ \A f \in Events \ lost : Fate(f)' = Fate(f)
        BY <3>2, <4>1
      <4>3. \A f \in lost : row[f].status = "delivering" /\ row'[f].status = "dead_letter"
        OBVIOUS
      <4> HIDE DEF lost
      <4> QED BY <1>GiveUp, <2>1, <4>2, <4>3
    <3> QED BY <3>3, <3>4
  <2> QED BY <2>2, <2>3
<1>5. ASSUME NEW w \in Workers, Ingest(w) PROVE Goal
  <2>1. call[w].event \in Events /\ row[call[w].event].status # "absent"
    BY <1>5, <1>t DEF Ingest, KnownInv
  <2> QED BY <1>5, <1>Store, <2>1 DEF Ingest, outboxVars
<1>6. ASSUME NEW w \in Workers, Publish(w) PROVE Goal
  <2>1. /\ call[w].event \in Events /\ call[w].event \in stored
        /\ published[call[w].event] = 0
    BY <1>6, <1>i, <1>t DEF Publish, OnePublisher, Publishing
  <2> QED BY <1>6, <1>FanOut, <2>1 DEF Publish, outboxVars
<1>7. ASSUME NEW e \in Events, Enqueue(e) \/ RetryDeadLetter(e) PROVE Goal
  <2>1. /\ row[e].status \in {"absent", "dead_letter"} /\ row'[e].status = "pending"
        /\ \A f \in Events \ {e} : row'[f] = row[f]
    BY <1>7, <1>t DEF Enqueue, RetryDeadLetter, Row
  <2> QED BY <1>7, <1>Submit, <2>1 DEF Enqueue, RetryDeadLetter, observatoryVars
<1>8. ASSUME NEW e \in Events, IngestOrphan(e) PROVE Goal
  <2>1. row[e].status # "absent"
    <3>1. PICK o \in orphans : o = [stage |-> "sent", event |-> e]
      BY <1>8 DEF IngestOrphan
    <3> QED BY <3>1 DEF KnownInv
  <2> QED BY <1>8, <1>Store, <2>1 DEF IngestOrphan, outboxVars
<1>9. ASSUME NEW e \in Events, PublishOrphan(e) PROVE Goal
  <2>1. e \in stored /\ published[e] = 0
    BY <1>9, <1>i DEF PublishOrphan, OnePublisher, OrphanPublishing
  <2> QED BY <1>9, <1>FanOut, <2>1 DEF PublishOrphan, outboxVars
<1>10. CASE ObservatoryCrash \/ UNCHANGED vars
  BY <1>10, <1>c DEF ObservatoryCrash, outboxVars, vars
<1>11. CASE Tick
  <2>1. \A e \in Events : row'[e].status = row[e].status
    BY <1>11, <1>t DEF Tick, Row
  <2> QED BY <1>11, <1>c, <2>1 DEF Tick, observatoryVars
<1> QED BY <1>1, <1>2, <1>3, <1>4, <1>5, <1>6, <1>7, <1>8, <1>9, <1>10, <1>11
     DEF Next, WorkerStep, EventStep

\* The outbox and the Observatory implement idempotent delivery, with any number
\* of overlapping workers and crashes on both sides (deliver_pending, _claim,
\* _mark_failure, retry_dead_letter; observe_idempotent).
THEOREM DeliveryImplemented == Spec => ImplementsDelivery
<1>1. Init => Delivery!Init
  <2> SUFFICES ASSUME Init PROVE Delivery!Init
    OBVIOUS
  <2>1. [e \in Events |-> Fate(e)] = [e \in Events |-> "none"]
    BY DEF Init, Fate
  <2>2. stored = {} /\ {e \in Events : published[e] > 0} = {}
    BY DEF Init
  <2> QED BY <2>1, <2>2 DEF Delivery!Init
<1>2. Init => KnownInv
  BY DEF Init, KnownInv
<1>3. OutboxInv /\ KnownInv /\ [Next]_vars => KnownInv'
  BY KnownStep DEF OutboxInv
<1>4. OutboxInv /\ KnownInv /\ [Next]_vars => [Delivery!Next]_(Delivery!vars)
  BY DeliveryStep
<1> QED BY <1>1, <1>2, <1>3, <1>4, OutboxInvariant, PTL
     DEF Spec, ImplementsDelivery, Delivery!Spec
=============================================================================
