----------------------------- MODULE Governance -----------------------------
(***************************************************************************)
(* The governance subsystem (governance/subsystem.py with its aggregate,   *)
(* invariants G-1 to G-7 and SQLite stores): commands about one candidate  *)
(* and its lifecycle, and the registry of council, gates and policies.     *)
(*                                                                         *)
(* Server processes share one database.  Within a process a handler runs   *)
(* without suspension; between processes, every query and transaction of   *)
(* a handler is a step.  A handler checks the invariants on what it has    *)
(* loaded, then appends to the candidate's audit chain.  The second table, *)
(* governance_events, is written in the same transaction and left out.     *)
(*                                                                         *)
(* A lifecycle state is its rank, "proposed" being 0, and a transition of  *)
(* the lifecycle is named by the rank it starts from.                      *)
(***************************************************************************)
EXTENDS AuditChain

CONSTANTS
    Workers,            \* server processes
    MaxState,           \* the rank of the last lifecycle state
    Decisions,          \* the decisions that may be requested
    GateEvaluations,    \* the gate evaluations that may be recorded
    Certifications,     \* the certification grants and revocations, as events
    RegistryCommands,   \* the updates of the registry that may be requested
    InitialCouncil, InitialGuards,      \* the registry at the start
    Executive,          \* EXECUTIVE_ID
    Weight,             \* Weight[m]: votingWeight; Weight[Executive]
    Quorum,             \* quorum_threshold
    MaxRequests         \* bound: commands handled

Ranks == 0..MaxState
Gates == DOMAIN InitialGuards

ASSUME GovernanceAssumption ==
    /\ MaxState \in Nat /\ Quorum \in Nat /\ MaxRequests \in Nat
    /\ \A d \in Decisions :
        /\ d.type = "decision" /\ d.from \in Ranks /\ d.to \in Ranks
        /\ d.verdict \in {"approve", "reject", "defer"} /\ d.authorizes \in BOOLEAN
    /\ \A e \in GateEvaluations : e.type = "gate"
    /\ \A e \in Certifications : e.type \in {"granted", "revoked"}
    /\ InitialGuards \in [Gates -> SUBSET Ranks]
    /\ \A c \in RegistryCommands : c.type = "register" => c.guards \subseteq Ranks

VARIABLES
    council,        \* members of the stored council
    guards,         \* guards[g]: transitions gate g guards; {} when unregistered
    policies,       \* registered policies
    log,            \* audit rows of the candidate
    registryLog,    \* audit rows of "_registry"
    task,           \* task[w]: the command w handles and what it has read
    requests        \* commands received

vars == <<council, guards, policies, log, registryLog, task, requests>>

NoTask == [pc |-> "idle"]

Init ==
    /\ council = InitialCouncil
    /\ guards = InitialGuards
    /\ policies = {}
    /\ log = {} /\ registryLog = {}
    /\ task = [w \in Workers |-> NoTask]
    /\ requests = 0

-----------------------------------------------------------------------------
(* CandidateGovernanceState.fold() and the invariants. *)

Advances(event) ==
    event.type = "decision" /\ event.verdict = "approve" /\ event.authorizes

\* current_state of the fold: the target of the last row that advances it.
CurrentState(rows, s) ==
    LET advances == {r \in rows : Advances(r.event)} IN
    \/ advances = {} /\ s = 0
    \/ \E r \in advances : IsLast(advances, r) /\ s = r.event.to

\* Gates with an outcome "passed" or "waived" in the fold.
Satisfied(rows) ==
    {r.event.gate : r \in {q \in rows :
        q.event.type = "gate" /\ q.event.status \in {"passed", "waived"}}}

\* Mutation: G-1 without the comparison with the current state.
G1AnyState(d, rows) == d.authorizes => d.to = d.from + 1

\* G-1: the next step of the lifecycle, from the current state.
G1(d, rows) ==
    d.authorizes => d.to = d.from + 1 /\ CurrentState(rows, d.from)

\* The gates that guard the transition of d.
Guarding(d, g) == {x \in DOMAIN g : d.from \in g[x]}

\* Mutation: an evaluated gate counts as satisfied, whatever its outcome.
G2AnyOutcome(d, g, rows) ==
    Advances(d) => Guarding(d, g) \subseteq
        {r.event.gate : r \in {q \in rows : q.event.type = "gate"}}

\* G-2: they are passed or waived.
G2(d, g, rows) == Advances(d) => Guarding(d, g) \subseteq Satisfied(rows)

\* G-5: deciders are on the council, or the executive.
G5(d, members) == \A i \in 1..Len(d.by) : d.by[i] \in members \cup {Executive}

\* G-7: the weights of the listed deciders; a repeated decider counts again.
G7(d, members) ==
    LET weight(m) == IF m \in members \cup {Executive} THEN Weight[m] ELSE 0
        sum[i \in 0..Len(d.by)] == IF i = 0 THEN 0 ELSE sum[i - 1] + weight(d.by[i])
    IN  d.verdict = "approve" => sum[Len(d.by)] >= Quorum

-----------------------------------------------------------------------------
(* The handlers. *)

Receive(w, next) ==
    /\ task[w] = NoTask /\ requests < MaxRequests
    /\ requests' = requests + 1
    /\ task' = [task EXCEPT ![w] = next]

\* request_decision(): load_council().
RequestDecision(w, d) ==
    /\ Receive(w, [pc |-> "gates", event |-> d, council |-> council])
    /\ UNCHANGED <<council, guards, policies, log, registryLog>>

\* request_decision(): load_gates().
LoadGates(w) ==
    /\ task[w].pc = "gates"
    /\ task' = [task EXCEPT ![w] = [pc |-> "state", event |-> @.event,
                                    council |-> @.council, guards |-> guards]]
    /\ UNCHANGED <<council, guards, policies, log, registryLog, requests>>

\* request_decision(): the candidate is folded and the invariants are checked.
\* The decision remembers, for the properties, the gates it was checked for.
CheckDecision(w) ==
    /\ task[w].pc = "state"
    /\ LET d == task[w].event IN
        IF /\ G1(d, log) /\ G2(d, task[w].guards, log)
           /\ G5(d, task[w].council) /\ G7(d, task[w].council)
        THEN task' = [task EXCEPT ![w] =
               [pc |-> "select", scope |-> "candidate",
                event |-> [type |-> "decision", from |-> d.from, to |-> d.to,
                           verdict |-> d.verdict, authorizes |-> d.authorizes,
                           required |-> Guarding(d, task[w].guards)]]]
        ELSE task' = [task EXCEPT ![w] = NoTask]
    /\ UNCHANGED <<council, guards, policies, log, registryLog, requests>>

\* record_gate_evaluation() under G-3, grant_certification() under G-6,
\* revoke_certification(): the event is appended without a look at the log.
RecordEvent(w, e) ==
    /\ Receive(w, [pc |-> "select", scope |-> "candidate", event |-> e])
    /\ UNCHANGED <<council, guards, policies, log, registryLog>>

\* save_council(), save_gate(), save_policy()
SaveCouncil(c) == council' = IF c.type = "council" THEN c.members ELSE council
SaveGate(c) == guards' = IF c.type = "register" THEN [guards EXCEPT ![c.gate] = c.guards] ELSE guards
SavePolicy(c) == policies' = IF c.type = "policy" THEN policies \cup {c.policy} ELSE policies

\* update_council(), register_gate(), register_policy(): the stored row, ...
UpdateRegistry(w, c) ==
    /\ Receive(w, [pc |-> "select", scope |-> "registry", event |-> c])
    /\ SaveCouncil(c) /\ SaveGate(c) /\ SavePolicy(c)
    /\ UNCHANGED <<log, registryLog>>

\* ... and then, as for the candidate's events, SqliteGovernanceEventStore.append():
\* the SELECT, ...
Select(w) ==
    /\ task[w].pc = "select"
    /\ \E link \in Links(IF task[w].scope = "registry" THEN registryLog ELSE log) :
        task' = [task EXCEPT ![w] = [pc |-> "insert", scope |-> @.scope,
                                     event |-> @.event, link |-> link]]
    /\ UNCHANGED <<council, guards, policies, log, registryLog, requests>>

\* ... and the INSERTs, rolled back by an IntegrityError.
Insert(w) ==
    /\ task[w].pc = "insert"
    /\ LET row == Signed(task[w].link, task[w].event) IN
        IF task[w].scope = "registry"
        THEN /\ registryLog' = IF Fits(registryLog, task[w].link)
                               THEN registryLog \cup {row} ELSE registryLog
             /\ UNCHANGED log
        ELSE /\ log' = IF Fits(log, task[w].link) THEN log \cup {row} ELSE log
             /\ UNCHANGED registryLog
    /\ task' = [task EXCEPT ![w] = NoTask]
    /\ UNCHANGED <<council, guards, policies, requests>>

\* The process dies and is started again.
Crash(w) ==
    /\ task[w] # NoTask
    /\ task' = [task EXCEPT ![w] = NoTask]
    /\ UNCHANGED <<council, guards, policies, log, registryLog, requests>>

Next == \E w \in Workers :
    \/ \E d \in Decisions : RequestDecision(w, d)
    \/ LoadGates(w) \/ CheckDecision(w)
    \/ \E e \in GateEvaluations \cup Certifications : RecordEvent(w, e)
    \/ \E c \in RegistryCommands : UpdateRegistry(w, c)
    \/ Select(w) \/ Insert(w) \/ Crash(w)

Spec == Init /\ [][Next]_vars

-----------------------------------------------------------------------------
(* Properties. *)

\* Both audit chains pass verify_chain() whatever processes append at the same
\* time, crash or lose the race for a number: otherwise load() would refuse
\* the candidate for good.
LogsVerify == Verifies(log) /\ Verifies(registryLog)

\* What an event must rest on, given the rows before it.
Earned(event, before) ==
    Advances(event) =>
        /\ event.to = event.from + 1
        /\ \/ event.from = 0
           \/ \E q \in before : Advances(q.event) /\ q.event.to = event.from
        /\ event.required \subseteq Satisfied(before)

\* No lifecycle state is skipped and no gate passed over, even when decisions
\* are checked against a log that has grown before they are appended: every
\* row that advances the candidate is preceded by one that reached the state
\* it starts from, and by a passed or waived outcome of every gate that
\* guarded the transition when it was checked (G-1, G-2).
AdvancesAreEarned ==
    \A r \in log : Earned(r.event, {q \in log : q.seq < r.seq})

\* "the event log only ever contains invariant-satisfying facts": a row that
\* authorizes a transition starts from the state the candidate is in there.
LogHoldsValidFacts ==
    \A r \in log : r.event.type = "decision" /\ r.event.authorizes =>
        CurrentState({q \in log : q.seq < r.seq}, r.event.from)

\* Type invariant.
GovernanceTypeOK ==
    /\ guards \in [Gates -> SUBSET Ranks]
    /\ requests \in 0..MaxRequests
    /\ \A w \in Workers : task[w].pc \in {"idle", "gates", "state", "select", "insert"}
    /\ \A r \in log \cup registryLog : r.seq \in 1..MaxRequests
=============================================================================
