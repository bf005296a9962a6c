-------------------------- MODULE GovernanceProofs --------------------------
(* Proofs about Governance. *)
EXTENDS Governance, AuditChainProofs, FiniteSetTheorems

\* The events of the candidate's log.
DecisionEvents ==
    [type : {"decision"}, from : Ranks, to : Ranks, verdict : {"approve", "reject", "defer"},
     authorizes : BOOLEAN, required : SUBSET Gates]
Events == DecisionEvents \cup GateEvaluations \cup Certifications

Before(rows, seq) == {q \in rows : q.seq < seq}

LogsInv ==
    /\ log \in SUBSET RowSet(Events) /\ registryLog \in SUBSET RowSet(RegistryCommands)
    /\ LogsVerify /\ AdvancesAreEarned

\* What a worker that is about to append has: an event that was earned when it was
\* checked, and a link that continues the log and comes after all it rests on.
SelectInv(w) == task[w].pc \in {"select", "insert"} =>
    \/ task[w].scope = "registry" /\ task[w].event \in RegistryCommands
    \/ /\ task[w].scope = "candidate" /\ task[w].event \in Events
       /\ Earned(task[w].event, log)
InsertInv(w) == task[w].pc = "insert" =>
    \/ /\ task[w].scope = "registry" /\ task[w].link \in LinkSet(RegistryCommands)
       /\ Continues(registryLog, task[w].link)
    \/ /\ task[w].scope = "candidate" /\ task[w].link \in LinkSet(Events)
       /\ Continues(log, task[w].link)
       /\ Earned(task[w].event, Before(log, task[w].link.seq))
DecideInv(w) ==
    /\ task[w].pc \in {"gates", "state"} => task[w].event \in Decisions
    /\ task[w].pc = "state" => DOMAIN task[w].guards = Gates

TaskInv == \A w \in Workers : SelectInv(w) /\ InsertInv(w) /\ DecideInv(w)

GovernanceInv == LogsInv /\ TaskInv /\ DOMAIN task = Workers /\ DOMAIN guards = Gates

\* What an event rests on is not lost when the log grows.
LEMMA EarnedGrows ==
    ASSUME NEW event, NEW rows, NEW more, rows \subseteq more, Earned(event, rows)
    PROVE  Earned(event, more)
<1>1. Satisfied(rows) \subseteq Satisfied(more)
  BY DEF Satisfied
<1> QED BY <1>1 DEF Earned

\* Every row precedes the link that a SELECT returns.
LEMMA LinkIsAfter ==
    ASSUME NEW E, NEW rows \in SUBSET RowSet(E), NEW link \in Links(rows)
    PROVE  Before(rows, link.seq) = rows
<1>1. CASE rows = {}
  BY <1>1 DEF Before
<1>2. CASE rows # {}
  <2>1. PICK r \in rows : IsLast(rows, r) /\ link = [seq |-> r.seq + 1, prev |-> r.hash]
    BY <1>2 DEF Links
  <2>2. link.seq = r.seq + 1
    BY <2>1
  <2>3. ASSUME NEW q \in rows PROVE q.seq < link.seq
    BY <2>1, <2>2 DEF IsLast, RowSet
  <2> QED BY <2>3 DEF Before
<1> QED BY <1>1, <1>2

\* A worker's part stays true when another one moves and the logs grow.
LEMMA TaskGrows ==
    ASSUME NEW w \in Workers, SelectInv(w), InsertInv(w), DecideInv(w),
           task'[w] = task[w], log \subseteq log', registryLog \subseteq registryLog'
    PROVE  SelectInv(w)' /\ InsertInv(w)' /\ DecideInv(w)'
<1>1. DecideInv(w)'
  BY DEF DecideInv
<1>2. SelectInv(w)'
  BY EarnedGrows DEF SelectInv
<1>3. InsertInv(w)'
  <2>1. Before(log, task[w].link.seq) \subseteq Before(log', task[w].link.seq)
    BY DEF Before
  <2>2. CASE task[w].pc = "insert" /\ task[w].scope = "registry"
    BY <2>2, ContinuesGrows DEF InsertInv
  <2>3. CASE task[w].pc = "insert" /\ task[w].scope = "candidate"
    <3>1. Continues(log', task[w].link) /\ task[w].link \in LinkSet(Events)
      BY <2>3, ContinuesGrows DEF InsertInv
    <3>2. Earned(task[w].event, Before(log', task[w].link.seq))
      BY <2>1, <2>3, EarnedGrows DEF InsertInv
    <3> QED BY <2>3, <3>1, <3>2 DEF InsertInv
  <2> QED BY <2>2, <2>3 DEF InsertInv
<1> QED BY <1>1, <1>2, <1>3

\* Steps that append nothing: worker w gets a new task that satisfies its part.
LEMMA QuietStep ==
    ASSUME GovernanceInv, NEW w \in Workers, NEW t, task' = [task EXCEPT ![w] = t],
           UNCHANGED <<log, registryLog>>, DOMAIN guards' = Gates,
           SelectInv(w)' /\ InsertInv(w)' /\ DecideInv(w)'
    PROVE  GovernanceInv'
<1>1. LogsInv'
  BY DEF GovernanceInv, LogsInv, LogsVerify, AdvancesAreEarned
<1>2. ASSUME NEW x \in Workers PROVE SelectInv(x)' /\ InsertInv(x)' /\ DecideInv(x)'
  <2>1. CASE x = w
    BY <2>1
  <2>2. CASE x # w
    BY <2>2, TaskGrows DEF GovernanceInv, TaskInv
  <2> QED BY <2>1, <2>2
<1> QED BY <1>1, <1>2 DEF GovernanceInv, TaskInv

\* A worker without a task has nothing to show.
LEMMA IdleHolds ==
    ASSUME NEW w \in Workers, task'[w] = NoTask
    PROVE  SelectInv(w)' /\ InsertInv(w)' /\ DecideInv(w)'
BY DEF SelectInv, InsertInv, DecideInv, NoTask

\* request_decision() up to its append.
LEMMA DecideStep ==
    ASSUME GovernanceInv, NEW w \in Workers,
           (\E d \in Decisions : RequestDecision(w, d)) \/ LoadGates(w) \/ CheckDecision(w)
    PROVE  GovernanceInv'
<1>0. DOMAIN task = Workers /\ DOMAIN guards = Gates /\ DecideInv(w)
  BY DEF GovernanceInv, TaskInv
<1>1. ASSUME NEW d \in Decisions, RequestDecision(w, d) PROVE GovernanceInv'
  <2>1. /\ task' = [task EXCEPT ![w] = [pc |-> "gates", event |-> d, council |-> council]]
        /\ UNCHANGED <<log, registryLog, guards>>
    BY <1>1 DEF RequestDecision, Receive
  <2>2. task'[w] = [pc |-> "gates", event |-> d, council |-> council]
    BY <1>0, <2>1
  <2>3. SelectInv(w)' /\ InsertInv(w)' /\ DecideInv(w)'
    BY <2>2 DEF SelectInv, InsertInv, DecideInv
  <2> QED BY <1>0, <2>1, <2>3, QuietStep
<1>2. CASE LoadGates(w)
  <2>1. /\ task' = [task EXCEPT ![w] = [pc |-> "state", event |-> task[w].event,
                                        council |-> task[w].council, guards |-> guards]]
        /\ UNCHANGED <<log, registryLog, guards>> /\ task[w].pc = "gates"
    BY <1>2 DEF LoadGates
  <2>2. task'[w] = [pc |-> "state", event |-> task[w].event,
                    council |-> task[w].council, guards |-> guards]
    BY <1>0, <2>1
  <2>3. SelectInv(w)' /\ InsertInv(w)' /\ DecideInv(w)'
    BY <1>0, <2>1, <2>2 DEF SelectInv, InsertInv, DecideInv
  <2> QED BY <1>0, <2>1, <2>3, QuietStep
<1>3. CASE CheckDecision(w)
  <2> DEFINE d == task[w].event
             e == [type |-> "decision", from |-> d.from, to |-> d.to,
                   verdict |-> d.verdict, authorizes |-> d.authorizes,
                   required |-> Guarding(d, task[w].guards)]
             next == [pc |-> "select", scope |-> "candidate", event |-> e]
  <2>1. UNCHANGED <<log, registryLog, guards>> /\ task[w].pc = "state"
    BY <1>3 DEF CheckDecision
  <2>2. d \in Decisions /\ DOMAIN task[w].guards = Gates
    BY <1>0, <2>1 DEF DecideInv
  <2>3. /\ d.type = "decision" /\ d.from \in Ranks /\ d.to \in Ranks
        /\ d.verdict \in {"approve", "reject", "defer"} /\ d.authorizes \in BOOLEAN
    BY <2>2, GovernanceAssumption
  <2>4. Guarding(d, task[w].guards) \in SUBSET Gates
    BY <2>2 DEF Guarding
  <2>5. e \in Events
    BY <2>3, <2>4 DEF Events, DecisionEvents
  <2>6. CASE task' = [task EXCEPT ![w] = NoTask]
    <3>1. task'[w] = NoTask
      BY <1>0, <2>6
    <3> QED BY <1>0, <2>1, <2>6, <3>1, IdleHolds, QuietStep
  <2>7. CASE G1(d, log) /\ G2(d, task[w].guards, log) /\ task' = [task EXCEPT ![w] = next]
    <3>1. Advances(e) <=> Advances(d)
      BY <2>3 DEF Advances
    <3>2. Advances(d) => d.to = d.from + 1 /\ CurrentState(log, d.from)
      BY <2>7 DEF G1, Advances
    <3>3. Advances(d) => Guarding(d, task[w].guards) \subseteq Satisfied(log)
      BY <2>7 DEF G2
    <3>4. CurrentState(log, d.from) =>
            d.from = 0 \/ \E q \in log : Advances(q.event) /\ q.event.to = d.from
      BY DEF CurrentState, IsLast
    <3>5. e.to = d.to /\ e.from = d.from /\ e.required = Guarding(d, task[w].guards)
      OBVIOUS
    <3> HIDE DEF e
    <3>6. Earned(e, log)
      BY <3>1, <3>2, <3>3, <3>4, <3>5 DEF Earned
    <3>7. task'[w] = next
      BY <1>0, <2>7
    <3>8. SelectInv(w)' /\ InsertInv(w)' /\ DecideInv(w)'
      BY <2>1, <2>5, <3>6, <3>7 DEF SelectInv, InsertInv, DecideInv
    <3> QED BY <1>0, <2>1, <2>7, <3>8, QuietStep
  <2> QED BY <1>3, <2>6, <2>7 DEF CheckDecision
<1> QED BY <1>1, <1>2, <1>3

\* Commands that append without a look at the log, and crashes.
LEMMA CommandStep ==
    ASSUME GovernanceInv, NEW w \in Workers,
           \/ \E e \in GateEvaluations \cup Certifications : RecordEvent(w, e)
           \/ \E c \in RegistryCommands : UpdateRegistry(w, c)
           \/ Crash(w)
    PROVE  GovernanceInv'
<1>0. DOMAIN task = Workers /\ DOMAIN guards = Gates
  BY DEF GovernanceInv
<1>1. ASSUME NEW e \in GateEvaluations \cup Certifications, RecordEvent(w, e) PROVE GovernanceInv'
  <2>1. /\ task' = [task EXCEPT ![w] = [pc |-> "select", scope |-> "candidate", event |-> e]]
        /\ UNCHANGED <<log, registryLog, guards>>
    BY <1>1 DEF RecordEvent, Receive
  <2>2. task'[w] = [pc |-> "select", scope |-> "candidate", event |-> e]
    BY <1>0, <2>1
  <2>3. e \in Events /\ Earned(e, log)
    BY GovernanceAssumption DEF Events, Earned, Advances
  <2>4. SelectInv(w)' /\ InsertInv(w)' /\ DecideInv(w)'
    BY <2>1, <2>2, <2>3 DEF SelectInv, InsertInv, DecideInv
  <2> QED BY <1>0, <2>1, <2>4, QuietStep
<1>2. ASSUME NEW c \in RegistryCommands, UpdateRegistry(w, c) PROVE GovernanceInv'
  <2>1. /\ task' = [task EXCEPT ![w] = [pc |-> "select", scope |-> "registry", event |-> c]]
        /\ UNCHANGED <<log, registryLog>>
    BY <1>2 DEF UpdateRegistry, Receive
  <2>2. task'[w] = [pc |-> "select", scope |-> "registry", event |-> c]
    BY <1>0, <2>1
  <2>3. DOMAIN guards' = Gates
    BY <1>0, <1>2 DEF UpdateRegistry, SaveGate
  <2>4. SelectInv(w)' /\ InsertInv(w)' /\ DecideInv(w)'
    BY <2>2 DEF SelectInv, InsertInv, DecideInv
  <2> QED BY <2>1, <2>3, <2>4, QuietStep
<1>3. CASE Crash(w)
  <2>1. task' = [task EXCEPT ![w] = NoTask] /\ UNCHANGED <<log, registryLog, guards>>
    BY <1>3 DEF Crash
  <2>2. task'[w] = NoTask
    BY <1>0, <2>1
  <2> QED BY <1>0, <2>1, <2>2, IdleHolds, QuietStep
<1> QED BY <1>1, <1>2, <1>3

\* The SELECT of an append.
LEMMA SelectStep ==
    ASSUME GovernanceInv, NEW w \in Workers, Select(w)
    PROVE  GovernanceInv'
<1>0. /\ DOMAIN task = Workers /\ DOMAIN guards = Gates /\ SelectInv(w)
      /\ log \in SUBSET RowSet(Events) /\ registryLog \in SUBSET RowSet(RegistryCommands)
  BY DEF GovernanceInv, TaskInv, LogsInv
<1>1. task[w].pc = "select" /\ UNCHANGED <<log, registryLog, guards>>
  BY DEF Select
<1>2. PICK link \in Links(IF task[w].scope = "registry" THEN registryLog ELSE log) :
        task' = [task EXCEPT ![w] = [pc |-> "insert", scope |-> task[w].scope,
                                     event |-> task[w].event, link |-> link]]
  BY DEF Select
<1>3. task'[w] = [pc |-> "insert", scope |-> task[w].scope, event |-> task[w].event, link |-> link]
  BY <1>0, <1>2
<1>4. SelectInv(w)' /\ DecideInv(w)'
  BY <1>0, <1>1, <1>3 DEF SelectInv, DecideInv
<1>5. InsertInv(w)'
  <2>1. CASE task[w].scope = "registry"
    <3>1. link \in LinkSet(RegistryCommands) /\ Continues(registryLog, link)
      BY <1>0, <1>2, <2>1, LinksContinue
    <3> QED BY <1>1, <1>3, <2>1, <3>1 DEF InsertInv
  <2>2. CASE task[w].scope # "registry"
    <3>1. task[w].scope = "candidate" /\ Earned(task[w].event, log)
      BY <1>0, <1>1, <2>2 DEF SelectInv
    <3>2. link \in Links(log)
      BY <1>2, <2>2
    <3>3. link \in LinkSet(Events) /\ Continues(log, link) /\ Before(log, link.seq) = log
      BY <1>0, <3>2, LinksContinue, LinkIsAfter
    <3> QED BY <1>1, <1>3, <3>1, <3>3 DEF InsertInv
  <2> QED BY <2>1, <2>2
<1> QED BY <1>0, <1>1, <1>2, <1>4, <1>5, QuietStep

\* The INSERT of an earned event keeps every advance earned.
LEMMA InsertEarned ==
    ASSUME GovernanceInv, NEW link \in LinkSet(Events), NEW event \in Events,
           Earned(event, Before(log, link.seq)), log' = log \cup {Signed(link, event)}
    PROVE  AdvancesAreEarned'
<1> SUFFICES ASSUME NEW r \in log' PROVE Earned(r.event, Before(log', r.seq))
  BY DEF AdvancesAreEarned, Before
<1>1. Before(log, r.seq) \subseteq Before(log', r.seq)
  BY DEF Before
<1>2. CASE r \in log
  <2>1. Earned(r.event, Before(log, r.seq))
    BY <1>2 DEF GovernanceInv, LogsInv, AdvancesAreEarned, Before
  <2> QED BY <1>1, <2>1, EarnedGrows
<1>3. CASE r = Signed(link, event)
  <2>1. r.event = event /\ r.seq = link.seq
    BY <1>3, SignedIsRow
  <2> QED BY <1>1, <2>1, EarnedGrows
<1> QED BY <1>2, <1>3

\* The INSERT of an append.
LEMMA InsertStep ==
    ASSUME GovernanceInv, NEW w \in Workers, Insert(w)
    PROVE  GovernanceInv'
<1>0. /\ DOMAIN task = Workers /\ DOMAIN guards = Gates /\ SelectInv(w) /\ InsertInv(w)
      /\ log \in SUBSET RowSet(Events) /\ registryLog \in SUBSET RowSet(RegistryCommands)
      /\ Verifies(log) /\ Verifies(registryLog)
  BY DEF GovernanceInv, TaskInv, LogsInv, LogsVerify
<1>1. task[w].pc = "insert" /\ task' = [task EXCEPT ![w] = NoTask] /\ guards' = guards
  BY DEF Insert
<1>2. LogsInv' /\ log \subseteq log' /\ registryLog \subseteq registryLog'
  <2>1. CASE UNCHANGED <<log, registryLog>>
    BY <2>1 DEF GovernanceInv, LogsInv, LogsVerify, AdvancesAreEarned
  <2>2. CASE /\ task[w].scope = "registry" /\ Fits(registryLog, task[w].link)
             /\ registryLog' = registryLog \cup {Signed(task[w].link, task[w].event)}
             /\ log' = log
    <3>1. /\ task[w].event \in RegistryCommands /\ task[w].link \in LinkSet(RegistryCommands)
          /\ Continues(registryLog, task[w].link)
      BY <1>0, <1>1, <2>2 DEF SelectInv, InsertInv
    <3>2. Verifies(registryLog') /\ registryLog' \in SUBSET RowSet(RegistryCommands)
      BY <1>0, <2>2, <3>1, AppendVerifies
    <3> QED BY <1>0, <2>2, <3>2 DEF GovernanceInv, LogsInv, LogsVerify, AdvancesAreEarned
  <2>3. CASE /\ task[w].scope # "registry" /\ Fits(log, task[w].link)
             /\ log' = log \cup {Signed(task[w].link, task[w].event)}
             /\ registryLog' = registryLog
    <3>1. /\ task[w].event \in Events /\ task[w].link \in LinkSet(Events)
          /\ Continues(log, task[w].link)
          /\ Earned(task[w].event, Before(log, task[w].link.seq))
      BY <1>0, <1>1, <2>3 DEF SelectInv, InsertInv
    <3>2. Verifies(log') /\ log' \in SUBSET RowSet(Events)
      BY <1>0, <2>3, <3>1, AppendVerifies
    <3>3. AdvancesAreEarned'
      BY <2>3, <3>1, InsertEarned
    <3> QED BY <1>0, <2>3, <3>2, <3>3 DEF LogsInv, LogsVerify
  <2> QED BY <2>1, <2>2, <2>3 DEF Insert
<1>3. ASSUME NEW x \in Workers PROVE SelectInv(x)' /\ InsertInv(x)' /\ DecideInv(x)'
  <2>1. CASE x = w
    BY <1>0, <1>1, <2>1, IdleHolds
  <2>2. CASE x # w
    <3>1. task'[x] = task[x]
      BY <1>0, <1>1, <2>2
    <3> QED BY <1>2, <3>1, TaskGrows DEF GovernanceInv, TaskInv
  <2> QED BY <2>1, <2>2
<1> QED BY <1>0, <1>1, <1>2, <1>3 DEF GovernanceInv, TaskInv

\* Empty logs and idle processes satisfy the invariant.
LEMMA GovernanceInit == Init => GovernanceInv
<1> SUFFICES ASSUME Init PROVE GovernanceInv
  OBVIOUS
<1>1. LogsInv
  BY DEF Init, LogsInv, LogsVerify, Verifies, AdvancesAreEarned
<1>2. TaskInv
  BY DEF Init, NoTask, TaskInv, SelectInv, InsertInv, DecideInv
<1> QED BY <1>1, <1>2 DEF Init, GovernanceInv, Gates

\* Every step of a process keeps the logs and what the processes hold.
LEMMA GovernanceStep == GovernanceInv /\ [Next]_vars => GovernanceInv'
<1> SUFFICES ASSUME GovernanceInv, [Next]_vars PROVE GovernanceInv'
  OBVIOUS
<1>1. CASE UNCHANGED vars
  <2>1. UNCHANGED <<log, registryLog, task, guards>>
    BY <1>1 DEF vars
  <2>2. LogsInv'
    BY <2>1 DEF GovernanceInv, LogsInv, LogsVerify, AdvancesAreEarned
  <2>3. TaskInv'
    BY <2>1, TaskGrows DEF GovernanceInv, TaskInv
  <2> QED BY <2>1, <2>2, <2>3 DEF GovernanceInv
<1> QED BY <1>1, DecideStep, CommandStep, SelectStep, InsertStep DEF Next

\* The inductive invariant of the governance log, for any number of processes,
\* commands and lifecycle states.
THEOREM GovernanceInvariant == Spec => []GovernanceInv
BY GovernanceInit, GovernanceStep, PTL DEF Spec

\* Both audit chains pass verify_chain() whatever processes append or crash.
THEOREM LogsAlwaysVerify == Spec => []LogsVerify
<1>1. GovernanceInv => LogsVerify
  BY DEF GovernanceInv, LogsInv
<1> QED BY <1>1, GovernanceInvariant, PTL

\* No lifecycle state is skipped and no gate passed over, although decisions are
\* checked against a log that may have grown before they are appended.
THEOREM AdvancesStayEarned == Spec => []AdvancesAreEarned
<1>1. GovernanceInv => AdvancesAreEarned
  BY DEF GovernanceInv, LogsInv
<1> QED BY <1>1, GovernanceInvariant, PTL

-----------------------------------------------------------------------------
(* Types, and the bound of the sequence numbers. *)

\* The processes that handle a command.
Busy == {w \in Workers : task[w] # NoTask}

\* Every request makes at most one append, so n appends and the commands that
\* are being handled are covered by the requests; a number is never more than
\* one ahead of the appends.
Covered(n) ==
    /\ \A r \in log \cup registryLog : r.seq \in 1..n
    /\ \A w \in Workers : task[w].pc = "insert" => task[w].link.seq \in 1..(n + 1)
    /\ n + Cardinality(Busy) <= requests

\* Inductive strengthening of GovernanceTypeOK.
TypesInv ==
    /\ guards \in [Gates -> SUBSET Ranks]
    /\ requests \in 0..MaxRequests
    /\ \A w \in Workers : task[w].pc \in {"idle", "gates", "state", "select", "insert"}
    /\ IsFiniteSet(Busy)
    /\ \E n \in Nat : Covered(n)

\* What a step does to the process that takes it: a request arrives, its
\* handling goes on, or it ends.
Arrives(w, t) ==
    /\ task[w] = NoTask /\ t.pc \in {"gates", "select"}
    /\ requests < MaxRequests /\ requests' = requests + 1
    /\ UNCHANGED <<log, registryLog>>
GoesOn(w, t) ==
    /\ task[w] # NoTask
    /\ \/ t.pc \in {"state", "select"}
       \/ t.pc = "insert" /\ t.link \in Links(log) \cup Links(registryLog)
    /\ UNCHANGED <<log, registryLog, requests>>
Ends(w, t) ==
    /\ task[w] # NoTask /\ t = NoTask
    /\ \A r \in log' \cup registryLog' :
         \/ r \in log \cup registryLog
         \/ task[w].pc = "insert" /\ r.seq = task[w].link.seq
    /\ UNCHANGED requests

\* Every step is one of the three, and leaves guards of the right type.
LEMMA HandlerStep ==
    ASSUME guards \in [Gates -> SUBSET Ranks], NEW w \in Workers,
           \/ \E d \in Decisions : RequestDecision(w, d)
           \/ LoadGates(w) \/ CheckDecision(w)
           \/ \E e \in GateEvaluations \cup Certifications : RecordEvent(w, e)
           \/ \E c \in RegistryCommands : UpdateRegistry(w, c)
           \/ Select(w) \/ Insert(w) \/ Crash(w)
    PROVE  /\ guards' \in [Gates -> SUBSET Ranks]
           /\ \E t : /\ task' = [task EXCEPT ![w] = t]
                     /\ Arrives(w, t) \/ GoesOn(w, t) \/ Ends(w, t)
<1> DEFINE Goal == /\ guards' \in [Gates -> SUBSET Ranks]
                   /\ \E t : /\ task' = [task EXCEPT ![w] = t]
                             /\ Arrives(w, t) \/ GoesOn(w, t) \/ Ends(w, t)
<1>g. ASSUME guards' \in [Gates -> SUBSET Ranks], NEW t, task' = [task EXCEPT ![w] = t],
             Arrives(w, t) \/ GoesOn(w, t) \/ Ends(w, t)
      PROVE  Goal
  BY <1>g
<1>n. NoTask.pc = "idle"
  BY DEF NoTask
<1>1. ASSUME NEW d \in Decisions, RequestDecision(w, d) PROVE Goal
  <2> DEFINE t == [pc |-> "gates", event |-> d, council |-> council]
  <2>1. task' = [task EXCEPT ![w] = t] /\ guards' = guards
    BY <1>1 DEF RequestDecision, Receive
  <2>2. Arrives(w, t)
    BY <1>1 DEF RequestDecision, Receive, Arrives
  <2> QED BY <1>g, <2>1, <2>2
<1>2. CASE LoadGates(w)
  <2> DEFINE t == [pc |-> "state", event |-> task[w].event,
                   council |-> task[w].council, guards |-> guards]
  <2>1. task' = [task EXCEPT ![w] = t] /\ guards' = guards
    BY <1>2 DEF LoadGates
  <2>2. GoesOn(w, t)
    BY <1>2, <1>n DEF LoadGates, GoesOn
  <2> QED BY <1>g, <2>1, <2>2
<1>3. CASE CheckDecision(w)
  <2> DEFINE d == task[w].event
             t == [pc |-> "select", scope |-> "candidate",
                   event |-> [type |-> "decision", from |-> d.from, to |-> d.to,
                              verdict |-> d.verdict, authorizes |-> d.authorizes,
                              required |-> Guarding(d, task[w].guards)]]
  <2>1. /\ task[w].pc = "state" /\ UNCHANGED <<guards, log, registryLog, requests>>
        /\ task' = [task EXCEPT ![w] = t] \/ task' = [task EXCEPT ![w] = NoTask]
    BY <1>3 DEF CheckDecision
  <2>2. GoesOn(w, t) /\ Ends(w, NoTask)
    BY <2>1, <1>n DEF GoesOn, Ends
  <2> HIDE DEF t
  <2> QED BY <1>g, <2>1, <2>2
<1>4. ASSUME NEW e \in GateEvaluations \cup Certifications, RecordEvent(w, e) PROVE Goal
  <2> DEFINE t == [pc |-> "select", scope |-> "candidate", event |-> e]
  <2>1. task' = [task EXCEPT ![w] = t] /\ guards' = guards
    BY <1>4 DEF RecordEvent, Receive
  <2>2. Arrives(w, t)
    BY <1>4 DEF RecordEvent, Receive, Arrives
  <2> QED BY <1>g, <2>1, <2>2
<1>5. ASSUME NEW c \in RegistryCommands, UpdateRegistry(w, c) PROVE Goal
  <2> DEFINE t == [pc |-> "select", scope |-> "registry", event |-> c]
  <2>1. task' = [task EXCEPT ![w] = t]
    BY <1>5 DEF UpdateRegistry, Receive
  <2>2. Arrives(w, t)
    BY <1>5 DEF UpdateRegistry, Receive, Arrives
  <2>3. guards' \in [Gates -> SUBSET Ranks]
    BY <1>5, GovernanceAssumption DEF UpdateRegistry, SaveGate
  <2> QED BY <1>g, <2>1, <2>2, <2>3
<1>6. CASE Select(w)
  <2>1. PICK link \in Links(IF task[w].scope = "registry" THEN registryLog ELSE log) :
          task' = [task EXCEPT ![w] = [pc |-> "insert", scope |-> task[w].scope,
                                       event |-> task[w].event, link |-> link]]
    BY <1>6 DEF Select
  <2> DEFINE t == [pc |-> "insert", scope |-> task[w].scope,
                   event |-> task[w].event, link |-> link]
  <2>2. link \in Links(log) \cup Links(registryLog)
    BY <2>1
  <2>3. GoesOn(w, t)
    BY <1>6, <1>n, <2>2 DEF Select, GoesOn
  <2>4. guards' = guards
    BY <1>6 DEF Select
  <2> QED BY <1>g, <2>1, <2>3, <2>4
<1>7. CASE Insert(w)
  <2>1. /\ task[w].pc = "insert" /\ task' = [task EXCEPT ![w] = NoTask]
        /\ UNCHANGED <<guards, requests>>
    BY <1>7 DEF Insert
  <2> DEFINE row == Signed(task[w].link, task[w].event)
  <2>2. row.seq = task[w].link.seq
    BY DEF Signed
  <2>3. \A r \in log' \cup registryLog' : r \in log \cup registryLog \/ r = row
    <3> HIDE DEF row
    <3>1. /\ log' = log \/ log' = log \cup {row}
          /\ registryLog' = registryLog \/ registryLog' = registryLog \cup {row}
      BY <1>7 DEF Insert, row
    <3> QED BY <3>1
  <2>4. Ends(w, NoTask)
    BY <1>n, <2>1, <2>2, <2>3 DEF Ends
  <2> QED BY <1>g, <2>1, <2>4
<1>8. CASE Crash(w)
  <2>1. task' = [task EXCEPT ![w] = NoTask] /\ Ends(w, NoTask) /\ guards' = guards
    BY <1>8 DEF Crash, Ends
  <2> QED BY <1>g, <2>1
<1> QED BY <1>1, <1>2, <1>3, <1>4, <1>5, <1>6, <1>7, <1>8

\* The number a SELECT returns is at most one ahead of the appends.
LEMMA LinkBound ==
    ASSUME NEW rows, NEW n \in Nat, \A r \in rows : r.seq \in 1..n,
           NEW link \in Links(rows)
    PROVE  link.seq \in 1..(n + 1)
  BY DEF Links, IsLast

\* Every step keeps the types and the account of the appends.
LEMMA TypesStep ==
    ASSUME TypesInv, DOMAIN task = Workers, [Next]_vars
    PROVE  TypesInv'
<1>1. CASE UNCHANGED vars
  BY <1>1 DEF vars, TypesInv, Covered, Busy
<1>2. CASE Next
  <2>1. PICK w \in Workers :
          \/ \E d \in Decisions : RequestDecision(w, d)
          \/ LoadGates(w) \/ CheckDecision(w)
          \/ \E e \in GateEvaluations \cup Certifications : RecordEvent(w, e)
          \/ \E c \in RegistryCommands : UpdateRegistry(w, c)
          \/ Select(w) \/ Insert(w) \/ Crash(w)
    BY <1>2 DEF Next
  <2>2. guards' \in [Gates -> SUBSET Ranks]
    BY <2>1, HandlerStep DEF TypesInv
  <2>3. PICK t : /\ task' = [task EXCEPT ![w] = t]
                 /\ Arrives(w, t) \/ GoesOn(w, t) \/ Ends(w, t)
    BY <2>1, HandlerStep DEF TypesInv
  <2>4. PICK n \in Nat : Covered(n)
    BY DEF TypesInv
  <2>5. task'[w] = t /\ \A v \in Workers : v # w => task'[v] = task[v]
    BY <2>3
  <2>6. /\ IsFiniteSet(Busy) /\ Cardinality(Busy) \in Nat /\ requests \in Nat
        /\ requests <= MaxRequests /\ MaxRequests \in Nat
        /\ n + Cardinality(Busy) <= requests
    BY <2>4, FS_CardinalityType, GovernanceAssumption DEF TypesInv, Covered
  <2>7. NoTask.pc = "idle"
    BY DEF NoTask
  <2>8. /\ \A r \in log \cup registryLog : r.seq \in 1..n
        /\ \A v \in Workers : task[v].pc = "insert" => task[v].link.seq \in 1..(n + 1)
    BY <2>4 DEF Covered
  <2>9. \A v \in Workers : task[v].pc \in {"idle", "gates", "state", "select", "insert"}
    BY DEF TypesInv
  <2> DEFINE c == Cardinality(Busy)
  <2>10. CASE Arrives(w, t)
    <3>1. w \notin Busy /\ Busy' = Busy \cup {w}
      BY <2>5, <2>7, <2>10 DEF Arrives, Busy
    <3>2. IsFiniteSet(Busy') /\ Cardinality(Busy') = c + 1
      BY <2>6, <3>1, FS_AddElement
    <3>3. requests' = requests + 1 /\ requests < MaxRequests
      BY <2>10 DEF Arrives
    <3>4. requests' \in 0..MaxRequests /\ n + Cardinality(Busy') <= requests'
      BY <2>6, <3>2, <3>3
    <3>5. \A v \in Workers : /\ task'[v].pc \in {"idle", "gates", "state", "select", "insert"}
                             /\ task'[v].pc = "insert" => task'[v] = task[v]
      BY <2>5, <2>9, <2>10 DEF Arrives
    <3>6. Covered(n)'
      BY <2>8, <2>10, <3>4, <3>5 DEF Covered, Arrives
    <3> QED BY <2>2, <3>2, <3>4, <3>5, <3>6 DEF TypesInv
  <2>11. CASE GoesOn(w, t)
    <3>1. Busy' = Busy
      BY <2>5, <2>7, <2>11 DEF GoesOn, Busy
    <3>2. \A v \in Workers : task'[v].pc \in {"idle", "gates", "state", "select", "insert"}
      BY <2>5, <2>9, <2>11 DEF GoesOn
    <3>3. t.pc = "insert" => t.link.seq \in 1..(n + 1)
      <4>1. \A link \in Links(log) \cup Links(registryLog) : link.seq \in 1..(n + 1)
        BY <2>8, LinkBound
      <4> QED BY <2>11, <4>1 DEF GoesOn
    <3>4. \A v \in Workers : task'[v].pc = "insert" => task'[v].link.seq \in 1..(n + 1)
      BY <2>5, <2>8, <3>3
    <3>5. requests' = requests /\ log' = log /\ registryLog' = registryLog
      BY <2>11 DEF GoesOn
    <3>6. Covered(n)'
      BY <2>6, <2>8, <3>1, <3>4, <3>5 DEF Covered
    <3> QED BY <2>2, <2>6, <3>1, <3>2, <3>5, <3>6 DEF TypesInv
  <2>12. CASE Ends(w, t)
    <3>1. w \in Busy /\ Busy' = Busy \ {w}
      BY <2>5, <2>12 DEF Ends, Busy
    <3>2. IsFiniteSet(Busy') /\ Cardinality(Busy') = c - 1
      BY <2>6, <3>1, FS_RemoveElement
    <3>3. \A v \in Workers : /\ task'[v].pc \in {"idle", "gates", "state", "select", "insert"}
                             /\ task'[v].pc = "insert" => task'[v] = task[v]
      BY <2>5, <2>7, <2>9, <2>12 DEF Ends
    <3>4. \A r \in log' \cup registryLog' : r.seq \in 1..(n + 1)
      <4>1. \A r \in log \cup registryLog : r.seq \in 1..(n + 1)
        BY <2>8
      <4> QED BY <2>8, <2>12, <4>1 DEF Ends
    <3>5. \A v \in Workers : task'[v].pc = "insert" => task'[v].link.seq \in 1..((n + 1) + 1)
      BY <2>8, <3>3
    <3>6. requests' = requests /\ (n + 1) + Cardinality(Busy') <= requests'
      BY <2>6, <2>12, <3>2 DEF Ends
    <3>7. Covered(n + 1)'
      BY <3>4, <3>5, <3>6 DEF Covered
    <3>8. \E m \in Nat : Covered(m)'
      BY <3>7
    <3> QED BY <2>2, <2>6, <3>2, <3>3, <3>6, <3>8 DEF TypesInv
  <2> QED BY <2>3, <2>10, <2>11, <2>12
<1> QED BY <1>1, <1>2

\* Type correctness, with the bound of the audit sequence numbers: a process
\* that appends takes a number no greater than the requests received, however
\* many lose the race for one (SqliteGovernanceEventStore.append).
THEOREM GovernanceTypeCorrect == Spec => []GovernanceTypeOK
<1>1. Init => TypesInv
  <2> SUFFICES ASSUME Init PROVE TypesInv
    OBVIOUS
  <2>1. Busy = {}
    BY DEF Init, Busy
  <2>2. IsFiniteSet(Busy) /\ Cardinality(Busy) = 0
    BY <2>1, FS_EmptySet
  <2>3. Covered(0)
    BY <2>2 DEF Init, Covered, NoTask
  <2>4. \E n \in Nat : Covered(n)
    BY <2>3
  <2> QED BY <2>2, <2>4, GovernanceAssumption DEF Init, TypesInv, NoTask
<1>2. TypesInv /\ GovernanceInv /\ [Next]_vars => TypesInv'
  BY TypesStep DEF GovernanceInv
<1>3. TypesInv => GovernanceTypeOK
  <2> SUFFICES ASSUME TypesInv PROVE GovernanceTypeOK
    OBVIOUS
  <2>1. PICK n \in Nat : Covered(n)
    BY DEF TypesInv
  <2>2. n <= MaxRequests
    BY <2>1, FS_CardinalityType, GovernanceAssumption DEF TypesInv, Covered
  <2>3. \A r \in log \cup registryLog : r.seq \in 1..MaxRequests
    BY <2>1, <2>2, GovernanceAssumption DEF Covered
  <2> QED BY <2>3 DEF TypesInv, GovernanceTypeOK
<1> QED BY <1>1, <1>2, <1>3, GovernanceInvariant, PTL DEF Spec

-----------------------------------------------------------------------------
(* One server process. *)

\* The deployment in which commands do not interleave: with two processes the
\* governance_race run breaks what is proved here.
SoleProcess == \A v, w \in Workers : v = w

\* The decision starts from the state the rows leave the candidate in.
Valid(event, rows) ==
    event.type = "decision" /\ event.authorizes => CurrentState(rows, event.from)

\* Inductive strengthening of LogHoldsValidFacts: until the row is inserted the
\* log stays as the invariants were checked on it, and as the SELECT saw it.
SerialInv ==
    /\ LogHoldsValidFacts
    /\ \A w \in Workers :
         /\ task[w].pc \in {"select", "insert"} /\ task[w].scope = "candidate"
              => Valid(task[w].event, log)
         /\ task[w].pc = "insert" /\ task[w].scope = "candidate"
              => \A q \in log : q.seq < task[w].link.seq

\* The INSERT of a valid decision at the end of the log keeps every fact valid.
LEMMA InsertValid ==
    ASSUME GovernanceInv, LogHoldsValidFacts, NEW link \in LinkSet(Events),
           NEW event \in Events, \A q \in log : q.seq < link.seq, Valid(event, log),
           log' = log \cup {Signed(link, event)}
    PROVE  LogHoldsValidFacts'
<1> DEFINE new == Signed(link, event)
<1>1. new.seq = link.seq /\ new.event = event /\ link.seq \in Nat
  BY SignedIsRow DEF LinkSet
<1>2. \A q \in log : q.seq \in Nat
  BY DEF GovernanceInv, LogsInv, RowSet
<1> HIDE DEF new
<1> SUFFICES ASSUME NEW r \in log', r.event.type = "decision", r.event.authorizes
             PROVE  CurrentState({q \in log' : q.seq < r.seq}, r.event.from)
  BY DEF LogHoldsValidFacts
<1>3. log' = log \cup {new}
  BY DEF new
<1>4. CASE r \in log
  <2>1. {q \in log' : q.seq < r.seq} = {q \in log : q.seq < r.seq}
    BY <1>1, <1>2, <1>3, <1>4
  <2> QED BY <1>4, <2>1 DEF LogHoldsValidFacts
<1>5. CASE r = new
  <2>1. {q \in log' : q.seq < r.seq} = log
    BY <1>1, <1>2, <1>3, <1>5
  <2> QED BY <1>1, <1>5, <2>1 DEF Valid
<1> QED BY <1>3, <1>4, <1>5

\* Every step of a sole process keeps the log valid.
LEMMA SerialStep ==
    ASSUME SoleProcess, GovernanceInv, SerialInv, [Next]_vars
    PROVE  SerialInv'
<1>0. /\ DOMAIN task = Workers
      /\ \A w \in Workers : SelectInv(w) /\ InsertInv(w) /\ DecideInv(w)
      /\ log \in SUBSET RowSet(Events)
  BY DEF GovernanceInv, TaskInv, LogsInv
<1>q. ASSUME NEW w \in Workers, log' = log,
             \/ task'[w].pc \notin {"select", "insert"}
             \/ task'[w].scope = "registry"
             \/ task'[w].pc = "select" /\ Valid(task'[w].event, log)
             \/ /\ task'[w].pc = "insert" /\ Valid(task'[w].event, log)
                /\ \A q \in log : q.seq < task'[w].link.seq
      PROVE  SerialInv'
  <2>1. LogHoldsValidFacts'
    BY <1>q DEF SerialInv, LogHoldsValidFacts
  <2>2. \A v \in Workers : v = w
    BY DEF SoleProcess
  <2> QED BY <1>q, <2>1, <2>2 DEF SerialInv
<1>1. ASSUME NEW w \in Workers, NEW d \in Decisions, RequestDecision(w, d) PROVE SerialInv'
  <2>1. task'[w].pc = "gates" /\ log' = log
    BY <1>0, <1>1 DEF RequestDecision, Receive
  <2> QED BY <1>q, <2>1
<1>2. ASSUME NEW w \in Workers, LoadGates(w) PROVE SerialInv'
  <2>1. task'[w].pc = "state" /\ log' = log
    BY <1>0, <1>2 DEF LoadGates
  <2> QED BY <1>q, <2>1
<1>3. ASSUME NEW w \in Workers, CheckDecision(w) PROVE SerialInv'
  <2> DEFINE d == task[w].event
             e == [type |-> "decision", from |-> d.from, to |-> d.to,
                   verdict |-> d.verdict, authorizes |-> d.authorizes,
                   required |-> Guarding(d, task[w].guards)]
  <2>1. /\ log' = log
        /\ \/ task'[w] = NoTask
           \/ /\ G1(d, log)
              /\ task'[w] = [pc |-> "select", scope |-> "candidate", event |-> e]
    BY <1>0, <1>3 DEF CheckDecision
  <2>2. G1(d, log) => Valid(e, log)
    BY DEF G1, Valid
  <2> HIDE DEF e
  <2>3. NoTask.pc = "idle"
    BY DEF NoTask
  <2>4. \/ task'[w].pc \notin {"select", "insert"}
        \/ task'[w].pc = "select" /\ Valid(task'[w].event, log)
    BY <2>1, <2>2, <2>3
  <2> QED BY <1>q, <2>1, <2>4
<1>4. ASSUME NEW w \in Workers, NEW e \in GateEvaluations \cup Certifications,
             RecordEvent(w, e)
      PROVE  SerialInv'
  <2>1. task'[w].pc = "select" /\ task'[w].event = e /\ log' = log
    BY <1>0, <1>4 DEF RecordEvent, Receive
  <2>2. Valid(e, log)
    BY GovernanceAssumption DEF Valid
  <2> QED BY <1>q, <2>1, <2>2
<1>5. ASSUME NEW w \in Workers, NEW c \in RegistryCommands, UpdateRegistry(w, c)
      PROVE  SerialInv'
  <2>1. task'[w].scope = "registry" /\ log' = log
    BY <1>0, <1>5 DEF UpdateRegistry, Receive
  <2> QED BY <1>q, <2>1
<1>6. ASSUME NEW w \in Workers, Select(w) PROVE SerialInv'
  <2>1. PICK link \in Links(IF task[w].scope = "registry" THEN registryLog ELSE log) :
          task' = [task EXCEPT ![w] = [pc |-> "insert", scope |-> task[w].scope,
                                       event |-> task[w].event, link |-> link]]
    BY <1>6 DEF Select
  <2>2. /\ task'[w].pc = "insert" /\ task'[w].scope = task[w].scope
        /\ task'[w].event = task[w].event /\ task'[w].link = link
        /\ task[w].pc = "select" /\ log' = log
    BY <1>0, <1>6, <2>1 DEF Select
  <2>3. CASE task[w].scope = "registry"
    BY <1>q, <2>2, <2>3
  <2>4. CASE task[w].scope # "registry"
    <3>1. task[w].scope = "candidate"
      BY <1>0, <2>2, <2>4 DEF SelectInv
    <3>2. Before(log, link.seq) = log
      <4>1. link \in Links(log)
        BY <2>4
      <4> QED BY <1>0, <4>1, LinkIsAfter
    <3>3. \A q \in log : q.seq < link.seq
      BY <3>2 DEF Before
    <3>4. Valid(task[w].event, log)
      BY <2>2, <3>1 DEF SerialInv
    <3> QED BY <1>q, <2>2, <3>3, <3>4
  <2> QED BY <2>3, <2>4
<1>7. ASSUME NEW w \in Workers, Insert(w) PROVE SerialInv'
  <2>1. task[w].pc = "insert" /\ task'[w] = NoTask
    BY <1>0, <1>7 DEF Insert
  <2>2. task'[w].pc \notin {"select", "insert"}
    BY <2>1 DEF NoTask
  <2>3. CASE log' = log
    BY <1>q, <2>2, <2>3
  <2>4. CASE log' # log
    <3>1. /\ task[w].scope # "registry"
          /\ log' = log \cup {Signed(task[w].link, task[w].event)}
      BY <1>7, <2>4 DEF Insert
    <3>2. /\ task[w].scope = "candidate" /\ task[w].event \in Events
          /\ task[w].link \in LinkSet(Events)
      BY <1>0, <2>1, <3>1 DEF SelectInv, InsertInv
    <3>3. Valid(task[w].event, log) /\ \A q \in log : q.seq < task[w].link.seq
      BY <2>1, <3>2 DEF SerialInv
    <3>4. LogHoldsValidFacts'
      BY <3>1, <3>2, <3>3, InsertValid DEF SerialInv
    <3>5. \A v \in Workers : v = w
      BY DEF SoleProcess
    <3> QED BY <2>2, <3>4, <3>5 DEF SerialInv
  <2> QED BY <2>3, <2>4
<1>8. ASSUME NEW w \in Workers, Crash(w) PROVE SerialInv'
  <2>1. task'[w] = NoTask /\ log' = log
    BY <1>0, <1>8 DEF Crash
  <2>2. task'[w].pc \notin {"select", "insert"}
    BY <2>1 DEF NoTask
  <2> QED BY <1>q, <2>1, <2>2
<1>9. CASE UNCHANGED vars
  BY <1>9 DEF vars, SerialInv, LogHoldsValidFacts
<1> QED BY <1>1, <1>2, <1>3, <1>4, <1>5, <1>6, <1>7, <1>8, <1>9 DEF Next

\* With one server process the log holds only facts that satisfied the
\* invariants where they stand, as subsystem.py says of it: the check and the
\* append of a command are not separated by another command.  Crashes between
\* them are included.
THEOREM SerialLogIsValid ==
    ASSUME SoleProcess PROVE Spec => []LogHoldsValidFacts
<1>1. Init => SerialInv
  BY DEF Init, SerialInv, LogHoldsValidFacts, NoTask
<1>2. GovernanceInv /\ SerialInv /\ [Next]_vars => SerialInv'
  BY SerialStep
<1>3. SerialInv => LogHoldsValidFacts
  BY DEF SerialInv
<1> QED BY <1>1, <1>2, <1>3, GovernanceInvariant, PTL DEF Spec
=============================================================================
