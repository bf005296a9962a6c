------------------------- MODULE ControlPlaneProofs -------------------------
(* Proofs about ControlPlane. *)
EXTENDS ControlPlane, AuditChainProofs

-----------------------------------------------------------------------------
(* Types. *)

Switches == {"on", "off"}

\* Which slots are where: a standard run is at work between its lease and its
\* release, and an evaluation is not past the last one of its generation.
PlacesInv == \A r \in Runs :
    /\ run[r].pc = "evaluating" => run[r].evals < Population
    /\ run[r].pc \in {"leased", "ready", "looping", "evaluating", "failing", "exiting"} =>
        r \in Standard

TypeInv ==
    /\ ControlTypeOK /\ PlacesInv
    /\ switchLog \in SUBSET RowSet(Switches)
    /\ clearLog \in SUBSET RowSet(ClearEvent)

\* The links of the two audit tables, in the words of AuditChain.
LEMMA LinkTypes == Link = LinkSet(Switches) /\ [seq : Nat, prev : Seq(ClearEvent)] = LinkSet(ClearEvent)
BY DEF Link, LinkSet, Switches

\* NoLink is a link of every type.
LEMMA NoLinkTyped == ASSUME NEW E PROVE NoLink \in LinkSet(E)
<1>1. Genesis \in Seq(E)
  BY DEF Genesis
<1> QED BY <1>1 DEF NoLink, LinkSet

\* An empty control plane is well typed.
LEMMA InitTypes == Init => TypeInv
<1> SUFFICES ASSUME Init PROVE TypeInv
  OBVIOUS
<1> USE DEF Init, LeaseInit, SwitchInit, RunInit, ClearInit
<1>1. lease \in [owner : Operations \cup {NoOwner}, left : 0..LeaseTime, stuck : BOOLEAN]
  BY LeaseAssumption DEF Free
<1>2. RunTypeOK /\ PlacesInv
  BY RunAssumption DEF RunTypeOK, PlacesInv, Idle, NoRecovery, RunPlaces
<1>3. SwitchTypeOK
  BY LinkTypes, NoLinkTyped DEF SwitchTypeOK
<1>4. ClearTypeOK
  BY LinkTypes, NoLinkTyped DEF ClearTypeOK, ClearPlaces
<1> QED BY <1>1, <1>2, <1>3, <1>4 DEF TypeInv, ControlTypeOK

\* The steps of the kill switch.
LEMMA ControlTypes ==
    ASSUME TypeInv, NEW q \in Controls, ControlStep(q), UNCHANGED <<lease, runVars, clearVars>>
    PROVE  TypeInv'
<1> USE DEF TypeInv, ControlTypeOK
<1>1. lease' = lease /\ RunTypeOK' /\ PlacesInv' /\ ClearTypeOK' /\ clearLog' = clearLog
  BY DEF runVars, clearVars, RunTypeOK, PlacesInv, ClearTypeOK
<1>2. SwitchTypeOK' /\ switchLog' \in SUBSET RowSet(Switches)
  <2>1. CASE ReadSwitch(q)
    BY <2>1 DEF ReadSwitch, SwitchTypeOK
  <2>2. CASE SelectSwitch(q)
    <3>1. PICK link \in Links(switchLog) :
            control' = [control EXCEPT ![q] = [pc |-> "insert", link |-> link]]
      BY <2>2 DEF SelectSwitch
    <3>2. link \in Link
      BY LinksContinue, LinkTypes
    <3> QED BY <2>2, <3>1, <3>2 DEF SelectSwitch, SwitchTypeOK
  <2>3. CASE InsertSwitch(q)
    <3>1. control[q].link \in LinkSet(Switches) /\ Wanted(q) \in Switches
      BY LinkTypes DEF SwitchTypeOK, Wanted, Switches
    <3>2. Signed(control[q].link, Wanted(q)) \in RowSet(Switches)
      BY <3>1, SignedIsRow
    <3>3. NoLink \in Link
      BY LinkTypes, NoLinkTyped
    <3>4. SwitchTypeOK'
      BY <2>3, <3>3 DEF InsertSwitch, SwitchTypeOK
    <3> QED BY <2>3, <3>2, <3>4 DEF InsertSwitch
  <2> QED BY <2>1, <2>2, <2>3 DEF ControlStep
<1> QED BY <1>1, <1>2

\* The steps of a run change the variables of runs and the lease only.
LEMMA RunTypes ==
    ASSUME TypeInv, NEW r \in Runs, Request(r) \/ RunStep(r), UNCHANGED <<switchVars, clearVars>>
    PROVE  TypeInv'
<1> USE DEF TypeInv, ControlTypeOK
<1>1. SwitchTypeOK' /\ ClearTypeOK' /\ switchLog' = switchLog /\ clearLog' = clearLog
  BY DEF switchVars, clearVars, SwitchTypeOK, ClearTypeOK
<1>lease. lease' \in [owner : Operations \cup {NoOwner}, left : 0..LeaseTime, stuck : BOOLEAN]
  <2>1. lease \in [owner : Operations \cup {NoOwner}, left : 0..LeaseTime, stuck : BOOLEAN]
    OBVIOUS
  <2>2. r \in Operations
    BY DEF Operations
  <2> HIDE DEF TypeInv, ControlTypeOK
  <2>3. CASE Acquire(r)
    BY <2>2, <2>3, LeaseAssumption DEF Acquire, Held
  <2>4. CASE Heartbeat(token[RunHost[r]])
    BY <2>1, <2>4, LeaseAssumption DEF Heartbeat
  <2>5. CASE Release(r)
    <3>1. ([lease EXCEPT !.stuck = @ \/ lease.owner = r]).stuck \in BOOLEAN
      BY <2>1, Zenon
    <3>2. CASE lease' = IF lease.owner = r THEN Free ELSE lease
      BY <2>1, <3>2, LeaseAssumption DEF Free
    <3>3. CASE lease' = [lease EXCEPT !.stuck = @ \/ lease.owner = r]
      BY <2>1, <3>1, <3>3
    <3> QED BY <2>5, <3>2, <3>3 DEF Release
  <2>6. \/ lease' = lease
        \/ Acquire(r) \/ Heartbeat(token[RunHost[r]]) \/ Release(r)
    BY DEF Request, RunStep, AdmitElite, AcquireRun, AcquireFails, SetToken, StartRun, NextGeneration,
           Evaluate, OwnershipLost, Interrupt, Finish, RecordFailure, EliteGeneration, LeaveRun,
           ClearToken
  <2> QED BY <2>1, <2>3, <2>4, <2>5, <2>6
<1> SUFFICES RunTypeOK' /\ PlacesInv'
  BY <1>1, <1>lease
<1>type. RunTypeOK /\ PlacesInv
  OBVIOUS
<1> HIDE DEF TypeInv, ControlTypeOK
<1> USE <1>type, RunAssumption DEF Goto, RunPlaces
<1>2. CASE Request(r)
  BY <1>2 DEF Request, RunTypeOK, PlacesInv, Idle
<1>3. CASE AdmitElite(r)
  BY <1>3 DEF AdmitElite, RunTypeOK, PlacesInv
<1>4. CASE AcquireRun(r)
  <2>1. PICK pc \in {"elite", "leased", "idle"} :
          run' = [run EXCEPT ![r].pc = pc] /\ (pc = "leased" => r \in Standard)
    BY <1>4 DEF AcquireRun, Runs, Standard
  <2>2. UNCHANGED <<token, record, lapsed, recovery>>
    BY <1>4 DEF AcquireRun
  <2> QED BY <2>1, <2>2 DEF RunTypeOK, PlacesInv
<1>5. CASE SetToken(r)
  BY <1>5 DEF SetToken, RunTypeOK, PlacesInv
<1>6. CASE StartRun(r)
  <2>1. UNCHANGED <<token, lapsed, recovery>>
    BY <1>6 DEF StartRun
  <2>2. PICK pc \in {"exiting", "looping"} : run' = [run EXCEPT ![r].pc = pc]
    BY <1>6 DEF StartRun
  <2>3. record' \in [AsyncRuns -> {"none", "running", "completed", "failed", "abandoned"}]
    BY <1>6 DEF StartRun, RunTypeOK
  <2>4. r \in Standard
    BY <1>6 DEF StartRun, PlacesInv
  <2>5. RunTypeOK'
    BY <2>1, <2>2, <2>3 DEF RunTypeOK
  <2> QED BY <2>1, <2>2, <2>4, <2>5 DEF PlacesInv, RunTypeOK
<1>7. CASE NextGeneration(r)
  BY <1>7 DEF NextGeneration, Raise, RunTypeOK, PlacesInv, Standard
<1>8. CASE Evaluate(r)
  <2>1. UNCHANGED <<token, record, lapsed, recovery>> /\ run[r].pc = "evaluating"
    BY <1>8 DEF Evaluate
  <2>2. CASE run' = [run EXCEPT ![r].evals = @ + 1,
                       ![r].pc = IF run[r].evals + 1 = Population THEN "looping" ELSE @]
    <3>1. run[r].evals + 1 \in 0..Population /\ r \in Standard
      BY <2>1 DEF RunTypeOK, PlacesInv
    <3>2. /\ run' \in [Runs -> [pc : RunPlaces, gen : 0..Generations, evals : 0..Population]]
          /\ \A x \in Runs \ {r} : run'[x] = run[x]
      <4>1. run'[r] = [pc |-> IF run[r].evals + 1 = Population THEN "looping" ELSE run[r].pc,
                       gen |-> run[r].gen, evals |-> run[r].evals + 1]
        BY <2>2 DEF RunTypeOK
      <4>2. run'[r] \in [pc : RunPlaces, gen : 0..Generations, evals : 0..Population]
        BY <3>1, <4>1 DEF RunTypeOK
      <4>3. /\ run' = [x \in Runs |-> IF x = r THEN run'[r] ELSE run[x]]
            /\ \A x \in Runs \ {r} : run'[x] = run[x]
        BY <2>2 DEF RunTypeOK
      <4> QED BY <4>2, <4>3 DEF RunTypeOK
    <3>3. \/ run'[r].pc = "looping"
          \/ run'[r].pc = "evaluating" /\ run'[r].evals = run[r].evals + 1 /\ run[r].evals + 1 # Population
      BY <2>1, <2>2 DEF RunTypeOK
    <3>4. RunTypeOK'
      BY <2>1, <3>2 DEF RunTypeOK
    <3> QED BY <3>1, <3>2, <3>3, <3>4 DEF PlacesInv
  <2>3. CASE Raise(r)
    BY <2>1, <2>3 DEF Raise, RunTypeOK, PlacesInv
  <2> QED BY <1>8, <2>2, <2>3 DEF Evaluate
<1>9. CASE Interrupt(r)
  BY <1>9 DEF Interrupt, Raise, RunTypeOK, PlacesInv
<1>10. CASE Finish(r)
  BY <1>10 DEF Finish, RunTypeOK, PlacesInv
<1>11. CASE RecordFailure(r)
  BY <1>11 DEF RecordFailure, RunTypeOK, PlacesInv
<1>12. CASE EliteGeneration(r)
  <2>1. UNCHANGED <<token, record, lapsed, recovery>>
    BY <1>12 DEF EliteGeneration
  <2>2. CASE run[r].gen < Generations /\ run' = [run EXCEPT ![r].gen = @ + 1]
    <3>1. run[r].gen + 1 \in 0..Generations
      BY <2>2 DEF RunTypeOK
    <3> QED BY <2>1, <2>2, <3>1 DEF RunTypeOK, PlacesInv
  <2>3. CASE run' = [run EXCEPT ![r].pc = "releasing"]
    BY <2>1, <2>3 DEF RunTypeOK, PlacesInv
  <2> QED BY <1>12, <2>2, <2>3 DEF EliteGeneration
<1>13. CASE LeaveRun(r)
  BY <1>13 DEF LeaveRun, ClearToken, Idle, RunTypeOK, PlacesInv
<1> QED BY <1>2, <1>3, <1>4, <1>5, <1>6, <1>7, <1>8, <1>9, <1>10, <1>11, <1>12, <1>13
        DEF RunStep

\* The steps of a memory clear.
LEMMA ClearTypes ==
    ASSUME TypeInv, NEW c \in Clears, RequestClear(c) \/ ClearStep(c), UNCHANGED <<switchVars, runVars>>
    PROVE  TypeInv'
<1> USE DEF TypeInv, ControlTypeOK
<1>1. SwitchTypeOK' /\ switchLog' = switchLog /\ RunTypeOK' /\ PlacesInv'
  BY DEF switchVars, runVars, SwitchTypeOK, RunTypeOK, PlacesInv
<1>lease. lease' \in [owner : Operations \cup {NoOwner}, left : 0..LeaseTime, stuck : BOOLEAN]
  <2>1. lease \in [owner : Operations \cup {NoOwner}, left : 0..LeaseTime, stuck : BOOLEAN]
    OBVIOUS
  <2>2. c \in Operations
    BY DEF Operations
  <2> HIDE DEF TypeInv, ControlTypeOK
  <2>3. CASE Acquire(c)
    BY <2>2, <2>3, LeaseAssumption DEF Acquire, Held
  <2>4. CASE Release(c)
    <3>1. ([lease EXCEPT !.stuck = @ \/ lease.owner = c]).stuck \in BOOLEAN
      BY <2>1, Zenon
    <3>2. CASE lease' = IF lease.owner = c THEN Free ELSE lease
      BY <2>1, <3>2, LeaseAssumption DEF Free
    <3>3. CASE lease' = [lease EXCEPT !.stuck = @ \/ lease.owner = c]
      BY <2>1, <3>1, <3>3
    <3> QED BY <2>4, <3>2, <3>3 DEF Release
  <2>5. lease' = lease \/ Acquire(c) \/ Release(c)
    BY DEF RequestClear, ClearStep, SelectClear, InsertClear, AcquireClear, AcquireFails, BackUp,
           ClearMemory, ReleaseClear
  <2> QED BY <2>1, <2>3, <2>4, <2>5
<1> SUFFICES ClearTypeOK' /\ clearLog' \in SUBSET RowSet(ClearEvent)
  BY <1>1, <1>lease
<1>2. NoLink \in [seq : Nat, prev : Seq(ClearEvent)]
  BY LinkTypes, NoLinkTyped
<1>3. ASSUME NEW pc \in ClearPlaces, To(c, pc)
      PROVE  clear' \in [Clears -> [pc : ClearPlaces, link : [seq : Nat, prev : Seq(ClearEvent)]]]
  BY <1>2, <1>3 DEF To, ClearTypeOK
<1>4. OperationId[c] \in OperationIds
  BY DEF OperationIds
<1> USE DEF ClearTypeOK
<1>5. CASE RequestClear(c)
  BY <1>3, <1>5 DEF RequestClear, ClearPlaces, Appends
<1>6. CASE SelectClear(c)
  <2>1. PICK link \in Links(clearLog) : clear' = [clear EXCEPT ![c].link = link]
    BY <1>6 DEF SelectClear
  <2>2. link \in [seq : Nat, prev : Seq(ClearEvent)]
    BY LinksContinue, LinkTypes
  <2>3. UNCHANGED <<lease, clearLog, memory, backup>>
    BY <1>6 DEF SelectClear
  <2>4. clear' \in [Clears -> [pc : ClearPlaces, link : [seq : Nat, prev : Seq(ClearEvent)]]]
    <3> HIDE DEF TypeInv, ControlTypeOK
    <3>1. clear \in [Clears -> [pc : ClearPlaces, link : [seq : Nat, prev : Seq(ClearEvent)]]]
      BY DEF TypeInv, ControlTypeOK
    <3> QED BY <2>1, <2>2, <3>1
  <2> QED BY <2>3, <2>4
<1>7. CASE InsertClear(c)
  <2>1. clear[c].pc \in Appends /\ clear[c].link \in LinkSet(ClearEvent)
    BY <1>7, LinkTypes DEF InsertClear
  <2>2. Event(c) \in ClearEvent
    BY <2>1, <1>4 DEF Event, ClearEvent, Appends
  <2>3. Signed(clear[c].link, Event(c)) \in RowSet(ClearEvent)
    BY <2>1, <2>2, SignedIsRow
  <2>4. AfterAppend[clear[c].pc] \in ClearPlaces /\ AfterIntegrityError[clear[c].pc] \in ClearPlaces
    BY <2>1 DEF AfterAppend, AfterIntegrityError, ClearPlaces, Appends
  <2>5. UNCHANGED <<lease, memory, backup>>
    BY <1>7 DEF InsertClear
  <2>6. clearLog' \in SUBSET RowSet(ClearEvent)
    BY <1>7, <2>3 DEF InsertClear
  <2>7. To(c, AfterAppend[clear[c].pc]) \/ To(c, AfterIntegrityError[clear[c].pc])
    BY <1>7 DEF InsertClear
  <2>8. clear' \in [Clears -> [pc : ClearPlaces, link : [seq : Nat, prev : Seq(ClearEvent)]]]
    BY <1>3, <2>4, <2>7
  <2> QED BY <2>5, <2>6, <2>8
<1>8. CASE AcquireClear(c)
  BY <1>3, <1>8 DEF AcquireClear, ClearPlaces, Appends
<1>9. CASE BackUp(c)
  BY <1>3, <1>4, <1>9 DEF BackUp, ClearPlaces, Appends
<1>10. CASE ClearMemory(c)
  BY <1>3, <1>10 DEF ClearMemory, ClearPlaces, Appends
<1>11. CASE ReleaseClear(c)
  BY <1>3, <1>11 DEF ReleaseClear, ClearPlaces
<1> QED BY <1>5, <1>6, <1>7, <1>8, <1>9, <1>10, <1>11 DEF ClearStep

\* Recovery, crashes and time.
LEMMA OtherTypes ==
    ASSUME TypeInv,
           \/ Recover /\ UNCHANGED <<switchVars, clearVars>>
           \/ \E p \in Processes : Crash(p)
           \/ Tick
           \/ UNCHANGED vars
    PROVE  TypeInv'
<1> USE DEF TypeInv, ControlTypeOK
<1>1. CASE Recover /\ UNCHANGED <<switchVars, clearVars>>
  <2>1. SwitchTypeOK' /\ ClearTypeOK' /\ switchLog' = switchLog /\ clearLog' = clearLog
    BY <1>1 DEF switchVars, clearVars, SwitchTypeOK, ClearTypeOK
  <2>2. RunTypeOK' /\ PlacesInv' /\ lease' = lease
    <3>1. CASE RecoverScan
      BY <3>1 DEF RecoverScan, RunTypeOK, PlacesInv
    <3>2. CASE RecoverCheck
      <4>1. PICK r \in recovery.todo :
              \/ recovery' = [recovery EXCEPT !.todo = @ \ {r}, !.marked = @]
              \/ recovery' = [recovery EXCEPT !.todo = @ \ {r}, !.marked = @ \cup {r}]
        BY <3>2, ZenonT(30) DEF RecoverCheck
      <4>2. r \in AsyncRuns
        BY DEF RunTypeOK
      <4>3. UNCHANGED <<lease, run, token, record, lapsed>>
        BY <3>2 DEF RecoverCheck
      <4>4. recovery' \in [pc : {"idle", "checking"}, todo : SUBSET AsyncRuns,
                           marked : SUBSET AsyncRuns]
        <5>1. recovery \in [pc : {"idle", "checking"}, todo : SUBSET AsyncRuns,
                            marked : SUBSET AsyncRuns]
          BY DEF RunTypeOK
        <5>2. recovery.todo \ {r} \in SUBSET AsyncRuns /\ recovery.marked \cup {r} \in SUBSET AsyncRuns
          BY <5>1, <4>2
        <5> HIDE DEF TypeInv, ControlTypeOK
        <5> QED BY <4>1, <5>1, <5>2
      <4> QED BY <4>3, <4>4 DEF RunTypeOK, PlacesInv
    <3>3. CASE RecoverCommit
      BY <3>3 DEF RecoverCommit, NoRecovery, RunTypeOK, PlacesInv
    <3> QED BY <1>1, <3>1, <3>2, <3>3 DEF Recover
  <2> QED BY <2>1, <2>2
<1>2. ASSUME NEW p \in Processes, Crash(p) PROVE TypeInv'
  <2>1. /\ lease' = lease /\ switchLog' = switchLog /\ clearLog' = clearLog
        /\ control' = control /\ record' = record /\ lapsed' = lapsed
        /\ recovery' = recovery /\ memory' = memory /\ backup' = backup
        /\ token' = [token EXCEPT ![p] = NoOwner]
    BY <1>2 DEF Crash, switchVars
  <2>2. run' = [r \in Runs |-> IF RunHost[r] = p /\ run[r] # Idle
                               THEN [run[r] EXCEPT !.pc = "crashed"] ELSE run[r]]
    BY <1>2 DEF Crash, Stopped
  <2>3. run' \in [Runs -> [pc : RunPlaces, gen : 0..Generations, evals : 0..Population]]
    BY <2>2 DEF RunTypeOK, RunPlaces
  <2>4. PlacesInv'
    BY <2>2 DEF RunTypeOK, PlacesInv
  <2>5. NoLink \in [seq : Nat, prev : Seq(ClearEvent)]
    BY LinkTypes, NoLinkTyped
  <2>6. clear' \in [Clears -> [pc : ClearPlaces, link : [seq : Nat, prev : Seq(ClearEvent)]]]
    BY <1>2, <2>5 DEF Crash, Stopped, ClearTypeOK, ClearPlaces
  <2> QED BY <2>1, <2>3, <2>4, <2>6 DEF RunTypeOK, SwitchTypeOK, ClearTypeOK
<1>3. CASE Tick
  <2>1. /\ UNCHANGED <<switchLog, clearLog, control, run, token, record, recovery, clear, memory, backup>>
        /\ lapsed' \subseteq Runs
    BY <1>3 DEF Tick, switchVars, clearVars, RunTypeOK
  <2>2. lease' \in [owner : Operations \cup {NoOwner}, left : 0..LeaseTime, stuck : BOOLEAN]
    BY <1>3, LeaseAssumption DEF Tick, LeaseTick, LeaseLive
  <2> QED BY <2>1, <2>2 DEF RunTypeOK, SwitchTypeOK, ClearTypeOK, PlacesInv
<1>4. CASE UNCHANGED vars
  BY <1>4 DEF vars, switchVars, runVars, clearVars, RunTypeOK, SwitchTypeOK, ClearTypeOK, PlacesInv
<1> QED BY <1>1, <1>2, <1>3, <1>4

\* Every step of a run, a control request, a clear or a crash keeps the types.
LEMMA TypeStep == TypeInv /\ [Next]_vars => TypeInv'
BY ControlTypes, RunTypes, ClearTypes, OtherTypes DEF Next

\* Every variable keeps its type, whatever the interleaving of runs, requests,
\* recoveries and crashes.
THEOREM ControlTypeCorrect == Spec => []ControlTypeOK
<1>1. Spec => []TypeInv
  BY InitTypes, TypeStep, PTL DEF Spec
<1>2. TypeInv => ControlTypeOK
  BY DEF TypeInv
<1> QED BY <1>1, <1>2, PTL

-----------------------------------------------------------------------------
(* The lease and the operations at work. *)

\* What a step of operation a does to the lease: nothing, and a does not begin;
\* or a acquires it free; or a gives it back and is no longer at work.
LeaseEffect(a) ==
    \/ lease'.owner = lease.owner /\ (Working(a)' => Working(a))
    \/ lease.owner = NoOwner /\ lease'.owner = a
    \/ lease.owner = a /\ lease'.owner = NoOwner /\ ~Working(a)'

OthersStay(a) == \A o \in Operations \ {a} : Working(o)' <=> Working(o)

\* A step of a run.
LEMMA RunEffect ==
    ASSUME TypeInv, NEW r \in Runs, Request(r) \/ RunStep(r), UNCHANGED <<switchVars, clearVars>>
    PROVE  LeaseEffect(r) /\ OthersStay(r)
<1> DEFINE Places == {"leased", "ready", "looping", "evaluating", "failing", "exiting",
                      "releasing", "elite"}
<1>1. run \in [Runs -> [pc : RunPlaces, gen : 0..Generations, evals : 0..Population]]
  BY DEF TypeInv, ControlTypeOK, RunTypeOK
<1>2. clear' = clear
  BY DEF clearVars
<1>3. lease \in [owner : Operations \cup {NoOwner}, left : 0..LeaseTime, stuck : BOOLEAN]
  BY DEF TypeInv, ControlTypeOK
<1> SUFFICES /\ \A x \in Runs \ {r} : run'[x].pc = run[x].pc
             /\ \/ lease'.owner = lease.owner /\ (run'[r].pc \in Places => run[r].pc \in Places)
                \/ lease.owner = NoOwner /\ lease'.owner = r
                \/ lease.owner = r /\ lease'.owner = NoOwner /\ run'[r].pc \notin Places
  BY <1>2 DEF LeaseEffect, OthersStay, Working, RunWorking, ClearWorking, Operations
<1> USE <1>1, <1>3 DEF Goto, Raise
<1>4. CASE Request(r)
  BY <1>4 DEF Request
<1>5. CASE AdmitElite(r)
  BY <1>5 DEF AdmitElite
<1>6. CASE AcquireRun(r)
  BY <1>6 DEF AcquireRun, Acquire, Held, AcquireFails
<1>7. CASE SetToken(r) \/ StartRun(r)
  BY <1>7 DEF SetToken, StartRun
<1>8. CASE NextGeneration(r)
  BY <1>8 DEF NextGeneration
<1>9. CASE Evaluate(r)
  BY <1>9 DEF Evaluate, Heartbeat, OwnershipLost
<1>10. CASE Interrupt(r) \/ Finish(r) \/ RecordFailure(r)
  BY <1>10 DEF Interrupt, Finish, RecordFailure
<1>11. CASE EliteGeneration(r)
  BY <1>11 DEF EliteGeneration
<1>12. CASE LeaveRun(r)
  BY <1>12 DEF LeaveRun, ClearToken, Release, Free, Idle
<1> QED BY <1>4, <1>5, <1>6, <1>7, <1>8, <1>9, <1>10, <1>11, <1>12 DEF RunStep

\* A step of a clear.
LEMMA ClearEffect ==
    ASSUME TypeInv, NEW c \in Clears, RequestClear(c) \/ ClearStep(c), UNCHANGED <<switchVars, runVars>>
    PROVE  LeaseEffect(c) /\ OthersStay(c)
<1> DEFINE Places == {"backup", "backup_verified", "clear", "succeeded", "failed", "release"}
<1>1. clear \in [Clears -> [pc : ClearPlaces, link : [seq : Nat, prev : Seq(ClearEvent)]]]
  BY DEF TypeInv, ControlTypeOK, ClearTypeOK
<1>2. run' = run
  BY DEF runVars
<1>3. lease \in [owner : Operations \cup {NoOwner}, left : 0..LeaseTime, stuck : BOOLEAN]
  BY DEF TypeInv, ControlTypeOK
<1>4. c \notin Runs
  BY ClearAssumption
<1> SUFFICES /\ \A x \in Clears \ {c} : clear'[x].pc = clear[x].pc
             /\ \/ lease'.owner = lease.owner /\ (clear'[c].pc \in Places => clear[c].pc \in Places)
                \/ lease.owner = NoOwner /\ lease'.owner = c
                \/ lease.owner = c /\ lease'.owner = NoOwner /\ clear'[c].pc \notin Places
  BY <1>2, <1>4 DEF LeaseEffect, OthersStay, Working, RunWorking, ClearWorking, Operations
<1> USE <1>1, <1>3 DEF To
<1>5. CASE RequestClear(c)
  BY <1>5 DEF RequestClear
<1>6. CASE SelectClear(c)
  <2>1. PICK link : clear' = [clear EXCEPT ![c].link = link]
    BY <1>6 DEF SelectClear
  <2>2. lease' = lease
    BY <1>6 DEF SelectClear
  <2> QED BY <2>1, <2>2
<1>7. CASE InsertClear(c)
  <2>1. clear[c].pc \in Appends /\ lease' = lease
    BY <1>7 DEF InsertClear
  <2>2. To(c, AfterAppend[clear[c].pc]) \/ To(c, AfterIntegrityError[clear[c].pc])
    BY <1>7 DEF InsertClear
  <2> QED BY <2>1, <2>2 DEF AfterAppend, AfterIntegrityError, Appends
<1>8. CASE AcquireClear(c)
  BY <1>8 DEF AcquireClear, Acquire, Held, AcquireFails
<1>9. CASE BackUp(c) \/ ClearMemory(c)
  BY <1>9 DEF BackUp, ClearMemory
<1>10. CASE ReleaseClear(c)
  BY <1>10 DEF ReleaseClear, Release, Free
<1> QED BY <1>5, <1>6, <1>7, <1>8, <1>9, <1>10 DEF ClearStep

\* Every step is a step of one operation, or leaves the owner of the lease and
\* lets no operation begin.
LEMMA StepEffect ==
    ASSUME TypeInv, [Next]_vars
    PROVE  \/ \E a \in Operations : LeaseEffect(a) /\ OthersStay(a)
           \/ lease'.owner = lease.owner /\ \A o \in Operations : Working(o)' => Working(o)
<1> USE DEF Operations
<1>1. ASSUME UNCHANGED <<lease, run, clear>>
      PROVE  lease'.owner = lease.owner /\ \A o \in Operations : Working(o)' => Working(o)
  BY <1>1 DEF Working, RunWorking, ClearWorking
<1>2. ASSUME NEW r \in Runs, Request(r) \/ RunStep(r), UNCHANGED <<switchVars, clearVars>>
      PROVE  \E a \in Operations : LeaseEffect(a) /\ OthersStay(a)
  BY <1>2, RunEffect
<1>3. ASSUME NEW c \in Clears, RequestClear(c) \/ ClearStep(c), UNCHANGED <<switchVars, runVars>>
      PROVE  \E a \in Operations : LeaseEffect(a) /\ OthersStay(a)
  BY <1>3, ClearEffect
<1>4. ASSUME NEW q \in Controls, ControlStep(q), UNCHANGED <<lease, runVars, clearVars>>
      PROVE  UNCHANGED <<lease, run, clear>>
  BY <1>4 DEF runVars, clearVars
<1>5. ASSUME Recover, UNCHANGED <<switchVars, clearVars>>
      PROVE  UNCHANGED <<lease, run, clear>>
  BY <1>5 DEF Recover, RecoverScan, RecoverCheck, RecoverCommit, clearVars
<1>6. ASSUME NEW p \in Processes, Crash(p)
      PROVE  lease'.owner = lease.owner /\ \A o \in Operations : Working(o)' => Working(o)
  <2>1. lease' = lease
    BY <1>6 DEF Crash
  <2>2. ASSUME NEW r \in Runs PROVE RunWorking(r)' => RunWorking(r)
    <3>1. run'[r] = IF RunHost[r] = p /\ run[r] # Idle
                    THEN [run[r] EXCEPT !.pc = "crashed"] ELSE run[r]
      BY <1>6 DEF Crash, Stopped
    <3>2. run[r] \in [pc : RunPlaces, gen : 0..Generations, evals : 0..Population]
      BY DEF TypeInv, ControlTypeOK, RunTypeOK
    <3> QED BY <3>1, <3>2 DEF RunWorking
  <2>3. ASSUME NEW c \in Clears PROVE ClearWorking(c)' => ClearWorking(c)
    BY <1>6 DEF Crash, Stopped, ClearWorking
  <2> QED BY <2>1, <2>2, <2>3 DEF Working
<1>7. CASE Tick
  <2>1. lease'.owner = lease.owner
    BY <1>7 DEF Tick, LeaseTick, TypeInv, ControlTypeOK
  <2>2. UNCHANGED <<run, clear>>
    BY <1>7 DEF Tick, clearVars
  <2> QED BY <2>1, <2>2 DEF Working, RunWorking, ClearWorking
<1>8. CASE UNCHANGED vars
  BY <1>1, <1>8 DEF vars, runVars, clearVars
<1> QED BY <1>1, <1>2, <1>3, <1>4, <1>5, <1>6, <1>7, <1>8 DEF Next

\* The released lease belongs to no operation.
LEMMA NoOwnerIsNoOperation == NoOwner \notin Operations
BY RunAssumption, ClearAssumption DEF Operations

\* A step that moves the lease finds nobody else at work.
LEMMA WorkersStep == TypeInv /\ WorkersOwnTheLease /\ [Next]_vars => WorkersOwnTheLease'
<1> SUFFICES ASSUME TypeInv, WorkersOwnTheLease, [Next]_vars,
                    NEW o \in Operations, Working(o)'
             PROVE  lease'.owner = o
  BY DEF WorkersOwnTheLease
<1>1. Working(o) => lease.owner = o
  BY DEF WorkersOwnTheLease
<1>2. ASSUME NEW a \in Operations, LeaseEffect(a), OthersStay(a) PROVE lease'.owner = o
  <2>1. CASE a = o
    BY <1>1, <1>2, <2>1 DEF LeaseEffect
  <2>2. CASE a # o
    <3>1. Working(o)
      BY <1>2, <2>2 DEF OthersStay
    <3> QED BY <1>1, <1>2, <2>2, <3>1, NoOwnerIsNoOperation DEF LeaseEffect
  <2> QED BY <2>1, <2>2
<1> QED BY <1>1, <1>2, StepEffect

\* Nobody is at work at the start.
LEMMA WorkersInit == Init => WorkersOwnTheLease
BY DEF Init, RunInit, ClearInit, WorkersOwnTheLease, Working, RunWorking, ClearWorking,
       Idle, Operations

\* An operation past acquire_control_plane_lease() and before its release owns
\* the lease row, for any number of runs, clears, processes and crashes.
THEOREM WorkersOwn == Spec => []WorkersOwnTheLease
<1>1. Spec => []TypeInv
  BY InitTypes, TypeStep, PTL DEF Spec
<1> QED BY <1>1, WorkersInit, WorkersStep, PTL DEF Spec

\* The lease passes from one operation to another only through a release.
LEMMA OwnerStep ==
    TypeInv /\ [Next]_vars /\ lease.owner # NoOwner => lease'.owner \in {lease.owner, NoOwner}
BY StepEffect DEF LeaseEffect

\* Evolution runs and clears implement the abstract single flight: the set of
\* operations at work changes only by one operation that begins when there is
\* none, or by the end of the one there is.
THEOREM SingleFlightImplemented == Spec => ImplementsSingleFlight
<1> DEFINE active == {o \in Operations : Working(o)}
<1>1. Spec => []TypeInv
  BY InitTypes, TypeStep, PTL DEF Spec
<1>2. Init => Flight!Init
  <2> SUFFICES ASSUME Init PROVE active = {}
    BY DEF Flight!Init
  <2>1. ASSUME NEW o \in Operations PROVE ~Working(o)
    BY DEF Init, RunInit, ClearInit, Working, RunWorking, ClearWorking, Idle, Operations
  <2> QED BY <2>1
<1>3. TypeInv /\ WorkersOwnTheLease /\ WorkersOwnTheLease' /\ [Next]_vars => [Flight!Next]_active
  <2> SUFFICES ASSUME TypeInv, WorkersOwnTheLease, WorkersOwnTheLease', [Next]_vars,
                      active' # active
               PROVE  Flight!Next
    OBVIOUS
  <2>1. \A o \in active : o = lease.owner
    BY DEF WorkersOwnTheLease
  <2>2. \A o \in active' : o = lease'.owner
    BY DEF WorkersOwnTheLease
  <2>3. \A o \in active \cup active' : o \in Operations
    OBVIOUS
  <2>4. CASE active = {}
    <3>1. PICK o \in Operations : active' = {o}
      BY <2>2, <2>3, <2>4
    <3> QED BY <2>4, <3>1 DEF Flight!Next, Flight!Begin
  <2>5. CASE active # {}
    <3>1. PICK o \in Operations : active = {o} /\ lease.owner = o
      BY <2>1, <2>3, <2>5
    <3>2. lease'.owner \in {o, NoOwner}
      BY <3>1, OwnerStep, NoOwnerIsNoOperation
    <3>3. active' = {}
      BY <2>2, <2>3, <3>1, <3>2, NoOwnerIsNoOperation
    <3> QED BY <3>1, <3>3 DEF Flight!Next, Flight!End
  <2> QED BY <2>4, <2>5
<1> QED BY <1>1, <1>2, <1>3, WorkersOwn, PTL DEF Spec, ImplementsSingleFlight, Flight!Spec

-----------------------------------------------------------------------------
(* The engine's token and the recovery of interrupted runs. *)

\* Where a standard run relies on its engine's _active_lease_token.
Holding == {"ready", "looping", "evaluating", "failing", "exiting"}
TokenInv == \A r \in Standard : run[r].pc \in Holding => token[RunHost[r]] = r

\* A run at work under an expired lease has lapsed; so has one that a recovery
\* has marked.  A queued run has no row yet, and no recovery has it.
LapseInv == \A r \in Runs : RunWorking(r) /\ lease.left = 0 => r \in lapsed
MarkedInv == \A r \in AsyncRuns : r \in recovery.marked /\ RunWorking(r) => r \in lapsed
QueuedInv == \A r \in AsyncRuns : run[r].pc = "queued" =>
    record[r] = "none" /\ r \notin recovery.todo \cup recovery.marked

RecoveryInv == LapseInv /\ MarkedInv /\ QueuedInv /\ RecoverySparesLiveRuns

\* What a step of a run may do to the run's own variables and to others'.
LEMMA RunFrame ==
    ASSUME TypeInv, NEW r \in Runs, Request(r) \/ RunStep(r)
    PROVE  /\ \A x \in Runs \ {r} : run'[x].pc = run[x].pc /\ (x \in lapsed => x \in lapsed')
           /\ \A x \in AsyncRuns \ {r} : record'[x] = record[x]
           /\ recovery' = recovery
           /\ lease' = lease \/ lease'.left > 0 \/ (lease.owner = r /\ ~RunWorking(r)')
           /\ RunWorking(r)' =>
                /\ lapsed' = lapsed
                /\ r \in AsyncRuns /\ record'[r] = "abandoned" => record[r] = "abandoned"
                /\ \/ RunWorking(r)
                   \/ lease'.left > 0 /\ (r \in AsyncRuns => run[r].pc = "queued")
           /\ r \in AsyncRuns /\ run'[r].pc = "queued" =>
                record'[r] = "none" /\ r \notin recovery.todo \cup recovery.marked
           /\ \A p \in Processes : p # RunHost[r] \/ ~RunWorking(r) => token'[p] = token[p]
           /\ run'[r].pc \in Holding =>
                \/ token'[RunHost[r]] = r
                \/ run[r].pc \in Holding /\ token'[RunHost[r]] = token[RunHost[r]]
<1>1. run \in [Runs -> [pc : RunPlaces, gen : 0..Generations, evals : 0..Population]]
  BY DEF TypeInv, ControlTypeOK, RunTypeOK
<1>2. /\ lease \in [owner : Operations \cup {NoOwner}, left : 0..LeaseTime, stuck : BOOLEAN]
      /\ token \in [Processes -> Standard \cup {NoOwner}]
      /\ record \in [AsyncRuns -> {"none", "running", "completed", "failed", "abandoned"}]
      /\ AsyncRuns \subseteq Runs
  BY DEF TypeInv, ControlTypeOK, RunTypeOK, Runs, Standard
<1>3. RunHost[r] \in Processes /\ LeaseTime > 0 /\ (r \in AsyncRuns => r \notin EliteRuns)
  BY RunAssumption, LeaseAssumption DEF Standard
<1> USE <1>1, <1>2, <1>3 DEF Goto, Raise, RunWorking, Holding
<1>4. CASE Request(r)
  <2>1. run'[r].pc = "queued" /\ \A x \in Runs \ {r} : run'[x].pc = run[x].pc
    BY <1>4 DEF Request
  <2>2. /\ UNCHANGED <<lease, token, recovery>> /\ lapsed' = lapsed \ {r}
        /\ record' = [x \in AsyncRuns |-> IF x = r THEN "none" ELSE record[x]]
        /\ r \notin recovery.todo \cup recovery.marked
    BY <1>4 DEF Request
  <2> QED BY <2>1, <2>2
<1>5. CASE AdmitElite(r)
  <2>1. /\ run'[r].pc \in {"idle", "admitted"}
        /\ \A x \in Runs \ {r} : run'[x].pc = run[x].pc
    BY <1>5 DEF AdmitElite
  <2>2. UNCHANGED <<lease, token, record, lapsed, recovery>>
    BY <1>5 DEF AdmitElite
  <2> QED BY <2>1, <2>2
<1>6. CASE AcquireRun(r)
  <2>1. /\ \/ lease'.owner = r /\ lease'.left = LeaseTime /\ run'[r].pc \in {"elite", "leased"}
           \/ lease' = lease /\ run'[r].pc = "idle"
        /\ \A x \in Runs \ {r} : run'[x].pc = run[x].pc
        /\ r \in AsyncRuns => run[r].pc = "queued"
    BY <1>6 DEF AcquireRun, Acquire, Held, AcquireFails
  <2>2. UNCHANGED <<token, record, lapsed, recovery>>
    BY <1>6 DEF AcquireRun
  <2> QED BY <2>1, <2>2
<1>7. CASE SetToken(r)
  <2>1. /\ run[r].pc = "leased" /\ run'[r].pc = "ready"
        /\ \A x \in Runs \ {r} : run'[x].pc = run[x].pc
    BY <1>7 DEF SetToken
  <2>2. /\ UNCHANGED <<lease, record, lapsed, recovery>>
        /\ token' = [token EXCEPT ![RunHost[r]] = r]
    BY <1>7 DEF SetToken
  <2> QED BY <2>1, <2>2
<1>8. CASE StartRun(r)
  BY <1>8 DEF StartRun
<1>9. CASE NextGeneration(r)
  BY <1>9 DEF NextGeneration
<1>10. CASE Evaluate(r)
  BY <1>10 DEF Evaluate, Heartbeat, OwnershipLost
<1>11. CASE Interrupt(r)
  BY <1>11 DEF Interrupt
<1>12. CASE Finish(r)
  BY <1>12 DEF Finish
<1>13. CASE RecordFailure(r)
  BY <1>13 DEF RecordFailure
<1>14. CASE EliteGeneration(r)
  BY <1>14 DEF EliteGeneration
<1>15. CASE LeaveRun(r)
  BY <1>15 DEF LeaveRun, ClearToken, Release, Free, Idle
<1> QED BY <1>4, <1>5, <1>6, <1>7, <1>8, <1>9, <1>10, <1>11, <1>12, <1>13, <1>14, <1>15
        DEF RunStep

\* A crash only takes runs of its process out of their places, and clears its
\* engine's token.
LEMMA CrashFrame ==
    ASSUME TypeInv, NEW p \in Processes, Crash(p)
    PROVE  /\ UNCHANGED <<lease, record, lapsed, recovery>>
           /\ \A r \in Runs : \/ run'[r].pc = run[r].pc /\ (RunHost[r] = p => run[r].pc = "idle")
                              \/ run'[r].pc = "crashed"
           /\ \A x \in Processes : x # p => token'[x] = token[x]
<1>1. /\ UNCHANGED <<lease, record, lapsed, recovery>>
      /\ token' = [token EXCEPT ![p] = NoOwner]
  BY DEF Crash
<1>2. token \in [Processes -> Standard \cup {NoOwner}]
  BY DEF TypeInv, ControlTypeOK, RunTypeOK
<1>3. \A x \in Processes : x # p => token'[x] = token[x]
  BY <1>1, <1>2
<1>4. ASSUME NEW r \in Runs
      PROVE  \/ run'[r].pc = run[r].pc /\ (RunHost[r] = p => run[r].pc = "idle")
             \/ run'[r].pc = "crashed"
  <2>1. run'[r] = IF RunHost[r] = p /\ run[r] # Idle
                  THEN [run[r] EXCEPT !.pc = "crashed"] ELSE run[r]
    BY DEF Crash, Stopped
  <2>2. run[r] \in [pc : RunPlaces, gen : 0..Generations, evals : 0..Population]
    BY DEF TypeInv, ControlTypeOK, RunTypeOK
  <2> QED BY <2>1, <2>2 DEF Idle
<1> QED BY <1>1, <1>3, <1>4

\* A step of a clear changes no run, and renews no lease of a run.
LEMMA ClearFrame ==
    ASSUME TypeInv, NEW c \in Clears, RequestClear(c) \/ ClearStep(c), UNCHANGED <<switchVars, runVars>>
    PROVE  /\ UNCHANGED <<run, token, record, lapsed, recovery>>
           /\ lease' = lease \/ lease'.left > 0 \/ lease.owner = c
<1>1. UNCHANGED <<run, token, record, lapsed, recovery>>
  BY DEF runVars
<1>2. lease' = lease \/ lease'.left > 0 \/ lease.owner = c
  <2>1. lease' = lease \/ Acquire(c) \/ Release(c)
    BY DEF ClearStep, RequestClear, SelectClear, InsertClear, AcquireClear, AcquireFails, BackUp,
           ClearMemory, ReleaseClear
  <2>2. CASE Acquire(c)
    BY <2>2, LeaseAssumption DEF Acquire, Held
  <2>3. CASE Release(c)
    <3>1. lease \in [owner : Operations \cup {NoOwner}, left : 0..LeaseTime, stuck : BOOLEAN]
      BY DEF TypeInv, ControlTypeOK
    <3>2. lease.owner # c => [lease EXCEPT !.stuck = @ \/ lease.owner = c] = lease
      BY <3>1
    <3> QED BY <2>3, <3>2 DEF Release
  <2> QED BY <2>1, <2>2, <2>3
<1> QED BY <1>1, <1>2

\* A run at work keeps its engine's lease token.
LEMMA TokenStep ==
    TypeInv /\ WorkersOwnTheLease /\ TokenInv /\ [Next]_vars => TokenInv'
<1> SUFFICES ASSUME TypeInv, WorkersOwnTheLease, TokenInv, [Next]_vars,
                    NEW r \in Standard, run'[r].pc \in Holding
             PROVE  token'[RunHost[r]] = r
  BY DEF TokenInv
<1>1. r \in Runs /\ RunHost[r] \in Processes
  BY RunAssumption DEF Runs
<1>2. run[r].pc \in Holding => token[RunHost[r]] = r
  BY DEF TokenInv
<1>3. ASSUME UNCHANGED <<run, token>> PROVE token'[RunHost[r]] = r
  BY <1>2, <1>3
<1>4. ASSUME NEW x \in Runs, Request(x) \/ RunStep(x), UNCHANGED <<switchVars, clearVars>>
      PROVE  token'[RunHost[r]] = r
  <2>1. CASE x = r
    BY <1>1, <1>2, <1>4, <2>1, RunFrame
  <2>2. CASE x # r
    <3>1. run[r].pc \in Holding
      BY <1>1, <1>4, <2>2, RunFrame
    <3>2. RunWorking(r)
      BY <3>1 DEF Holding, RunWorking
    <3>3. ~RunWorking(x)
      BY <1>1, <2>2, <3>2 DEF WorkersOwnTheLease, Working, Operations
    <3>4. token'[RunHost[r]] = token[RunHost[r]]
      BY <1>1, <1>4, <3>3, RunFrame
    <3> QED BY <1>2, <3>1, <3>4
  <2> QED BY <2>1, <2>2
<1>5. ASSUME NEW p \in Processes, Crash(p) PROVE token'[RunHost[r]] = r
  <2>1. run'[r].pc # "crashed" /\ run'[r].pc # "idle"
    BY DEF Holding
  <2>2. run'[r].pc = run[r].pc /\ RunHost[r] # p
    BY <1>1, <1>5, <2>1, CrashFrame
  <2> QED BY <1>1, <1>2, <1>5, <2>2, CrashFrame
<1>6. CASE Tick
  BY <1>3, <1>6 DEF Tick
<1>7. ASSUME NEW c \in Clears, RequestClear(c) \/ ClearStep(c), UNCHANGED <<switchVars, runVars>>
      PROVE  UNCHANGED <<run, token>>
  BY <1>7 DEF runVars
<1>8. ASSUME NEW q \in Controls, ControlStep(q), UNCHANGED <<lease, runVars, clearVars>>
      PROVE  UNCHANGED <<run, token>>
  BY <1>8 DEF runVars
<1>9. ASSUME Recover PROVE UNCHANGED <<run, token>>
  BY <1>9 DEF Recover, RecoverScan, RecoverCheck, RecoverCommit
<1>10. CASE UNCHANGED vars
  BY <1>3, <1>10 DEF vars, runVars
<1> QED BY <1>3, <1>4, <1>5, <1>6, <1>7, <1>8, <1>9, <1>10 DEF Next

\* "control-plane lease ownership was lost" is never raised: at every heartbeat
\* the engine's token is the run's own, although the runs of an engine share it.
THEOREM HeartbeatKeepsLease == Spec => []HeartbeatFindsOwnLease
<1>1. Spec => []TypeInv
  BY InitTypes, TypeStep, PTL DEF Spec
<1>2. Init => TokenInv
  BY DEF Init, RunInit, TokenInv, Idle, Holding, Runs
<1>3. TokenInv /\ WorkersOwnTheLease => HeartbeatFindsOwnLease
  BY DEF TokenInv, Holding, WorkersOwnTheLease, HeartbeatFindsOwnLease, Working, RunWorking,
         Operations, Runs
<1> QED BY <1>1, <1>2, <1>3, WorkersOwn, TokenStep, PTL DEF Spec

\* Steps that leave the runs' places and rows and the recovery alone, and do not
\* let the lease of a run expire.
LEMMA RecoveryKept ==
    ASSUME TypeInv, RecoveryInv, UNCHANGED <<record, recovery>>,
           \A r \in Runs : /\ run'[r].pc \in {run[r].pc, "crashed"}
                           /\ r \in lapsed => r \in lapsed'
                           /\ RunWorking(r)' /\ lease'.left = 0 => lease.left = 0 \/ r \in lapsed'
    PROVE  RecoveryInv'
<1>0. AsyncRuns \subseteq Runs
  BY DEF Runs, Standard
<1>1. ASSUME NEW r \in Runs, RunWorking(r)' PROVE RunWorking(r)
  BY <1>1 DEF RunWorking
<1>2. LapseInv'
  BY <1>1 DEF RecoveryInv, LapseInv
<1>3. MarkedInv'
  BY <1>0, <1>1 DEF RecoveryInv, MarkedInv
<1>4. QueuedInv'
  BY <1>0 DEF RecoveryInv, QueuedInv
<1>5. RecoverySparesLiveRuns'
  BY <1>0, <1>1 DEF RecoveryInv, RecoverySparesLiveRuns
<1> QED BY <1>2, <1>3, <1>4, <1>5 DEF RecoveryInv

\* Steps of a run.
LEMMA RecoveryRunStep ==
    ASSUME TypeInv, WorkersOwnTheLease, RecoveryInv,
           NEW r \in Runs, Request(r) \/ RunStep(r)
    PROVE  RecoveryInv'
<1>0. AsyncRuns \subseteq Runs
  BY DEF Runs, Standard
<1>1. \A x \in Runs \ {r} : (RunWorking(x)' <=> RunWorking(x)) /\ (x \in lapsed => x \in lapsed')
  BY RunFrame DEF RunWorking
<1>2. ASSUME NEW x \in Runs, RunWorking(x)', lease'.left = 0 PROVE x \in lapsed'
  <2>1. CASE x = r
    <3>1. lease' = lease /\ RunWorking(r) /\ lapsed' = lapsed
      BY <1>2, <2>1, RunFrame
    <3> QED BY <1>2, <2>1, <3>1 DEF RecoveryInv, LapseInv
  <2>2. CASE x # r
    <3>1. RunWorking(x)
      BY <1>1, <1>2, <2>2
    <3>2. lease.owner = x
      BY <3>1 DEF WorkersOwnTheLease, Working, Operations
    <3>3. lease' = lease
      BY <1>2, <2>2, <3>2, RunFrame
    <3> QED BY <1>1, <1>2, <2>2, <3>1, <3>3 DEF RecoveryInv, LapseInv
  <2> QED BY <2>1, <2>2
<1>3. ASSUME NEW x \in AsyncRuns, RunWorking(x)', x \in recovery'.marked PROVE x \in lapsed'
  <2>1. recovery' = recovery
    BY RunFrame
  <2>2. CASE x = r
    <3>1. RunWorking(r) /\ lapsed' = lapsed
      BY <1>3, <2>1, <2>2, RunFrame DEF RecoveryInv, QueuedInv
    <3> QED BY <1>3, <2>1, <2>2, <3>1 DEF RecoveryInv, MarkedInv
  <2>3. CASE x # r
    BY <1>0, <1>1, <1>3, <2>1, <2>3 DEF RecoveryInv, MarkedInv
  <2> QED BY <2>2, <2>3
<1>4. ASSUME NEW x \in AsyncRuns, RunWorking(x)', record'[x] = "abandoned" PROVE x \in lapsed'
  <2>1. CASE x = r
    <3>1. lapsed' = lapsed /\ record[r] = "abandoned"
      BY <1>4, <2>1, RunFrame
    <3>2. RunWorking(r)
      BY <1>4, <2>1, <3>1, RunFrame DEF RecoveryInv, QueuedInv
    <3> QED BY <1>4, <2>1, <3>1, <3>2 DEF RecoveryInv, RecoverySparesLiveRuns
  <2>2. CASE x # r
    <3>1. record[x] = "abandoned"
      BY <1>4, <2>2, RunFrame
    <3> QED BY <1>0, <1>1, <1>4, <2>2, <3>1 DEF RecoveryInv, RecoverySparesLiveRuns
  <2> QED BY <2>1, <2>2
<1>5. ASSUME NEW x \in AsyncRuns, run'[x].pc = "queued"
      PROVE  record'[x] = "none" /\ x \notin recovery'.todo \cup recovery'.marked
  <2>1. recovery' = recovery
    BY RunFrame
  <2>2. CASE x = r
    BY <1>5, <2>1, <2>2, RunFrame
  <2>3. CASE x # r
    <3>1. run[x].pc = "queued" /\ record'[x] = record[x]
      BY <1>0, <1>5, <2>3, RunFrame
    <3> QED BY <2>1, <3>1 DEF RecoveryInv, QueuedInv
  <2> QED BY <2>2, <2>3
<1> QED BY <1>2, <1>3, <1>4, <1>5
        DEF RecoveryInv, LapseInv, MarkedInv, QueuedInv, RecoverySparesLiveRuns

\* recover_interrupted_runs()
LEMMA RecoveryRecoverStep ==
    ASSUME TypeInv, RecoveryInv, Recover
    PROVE  RecoveryInv'
<1>0. AsyncRuns \subseteq Runs
  BY DEF Runs, Standard
<1>1. UNCHANGED <<lease, run, lapsed>>
  BY DEF Recover, RecoverScan, RecoverCheck, RecoverCommit
<1>2. LapseInv' /\ \A r \in Runs : RunWorking(r)' <=> RunWorking(r)
  BY <1>1 DEF RecoveryInv, LapseInv, RunWorking
<1>3. CASE RecoverScan
  <2>1. /\ record' = record /\ recovery'.marked = {}
        /\ recovery'.todo = {r \in AsyncRuns : record[r] = "running"}
    BY <1>3 DEF RecoverScan
  <2>2. MarkedInv' /\ RecoverySparesLiveRuns'
    BY <1>0, <1>1, <1>2, <2>1 DEF RecoveryInv, MarkedInv, RecoverySparesLiveRuns
  <2>3. QueuedInv'
    BY <1>1, <2>1 DEF RecoveryInv, QueuedInv
  <2> QED BY <1>2, <2>2, <2>3 DEF RecoveryInv
<1>4. CASE RecoverCheck
  <2>1. PICK r \in recovery.todo :
          recovery' = [recovery EXCEPT !.todo = @ \ {r},
                                       !.marked = IF LeaseLive THEN @ ELSE @ \cup {r}]
    BY <1>4 DEF RecoverCheck
  <2>2. recovery \in [pc : {"idle", "checking"}, todo : SUBSET AsyncRuns, marked : SUBSET AsyncRuns]
    BY DEF TypeInv, ControlTypeOK, RunTypeOK
  <2>3. recovery'.todo = recovery.todo \ {r}
    BY <2>1, <2>2, Zenon
  <2>4. recovery'.marked = IF LeaseLive THEN recovery.marked ELSE recovery.marked \cup {r}
    BY <2>1, <2>2, Zenon
  <2>5. record' = record
    BY <1>4 DEF RecoverCheck
  <2>6. ~LeaseLive => lease.left = 0
    BY DEF LeaseLive, TypeInv, ControlTypeOK
  <2>7. MarkedInv'
    <3> SUFFICES ASSUME NEW x \in AsyncRuns, x \in recovery'.marked, RunWorking(x)'
                 PROVE  x \in lapsed'
      BY DEF MarkedInv
    <3>1. RunWorking(x)
      BY <1>0, <1>2
    <3>2. CASE x \in recovery.marked
      BY <1>1, <3>1, <3>2 DEF RecoveryInv, MarkedInv
    <3>3. CASE x \notin recovery.marked
      <4>1. lease.left = 0
        BY <2>4, <2>6, <3>3
      <4> QED BY <1>0, <1>1, <3>1, <4>1 DEF RecoveryInv, LapseInv
    <3> QED BY <3>2, <3>3
  <2>8. QueuedInv'
    <3>1. recovery'.todo \cup recovery'.marked \subseteq recovery.todo \cup recovery.marked
      BY <2>3, <2>4
    <3> QED BY <1>1, <2>5, <3>1 DEF RecoveryInv, QueuedInv
  <2>9. RecoverySparesLiveRuns'
    BY <1>0, <1>1, <1>2, <2>5 DEF RecoveryInv, RecoverySparesLiveRuns
  <2> QED BY <1>2, <2>7, <2>8, <2>9 DEF RecoveryInv
<1>5. CASE RecoverCommit
  <2>1. /\ \A r \in AsyncRuns : record'[r] = IF r \in recovery.marked THEN "abandoned" ELSE record[r]
        /\ recovery'.marked = {} /\ recovery'.todo = {}
    BY <1>5 DEF RecoverCommit, NoRecovery
  <2>2. MarkedInv' /\ RecoverySparesLiveRuns'
    BY <1>0, <1>1, <1>2, <2>1 DEF RecoveryInv, MarkedInv, RecoverySparesLiveRuns
  <2>3. QueuedInv'
    BY <1>1, <2>1 DEF RecoveryInv, QueuedInv
  <2> QED BY <1>2, <2>2, <2>3 DEF RecoveryInv
<1> QED BY <1>3, <1>4, <1>5 DEF Recover

\* The recovery takes only runs whose lease has lapsed.
LEMMA RecoveryStep ==
    TypeInv /\ WorkersOwnTheLease /\ RecoveryInv /\ [Next]_vars => RecoveryInv'
<1> SUFFICES ASSUME TypeInv, WorkersOwnTheLease, RecoveryInv, [Next]_vars PROVE RecoveryInv'
  OBVIOUS
<1>1. ASSUME NEW c \in Clears, RequestClear(c) \/ ClearStep(c), UNCHANGED <<switchVars, runVars>>
      PROVE  RecoveryInv'
  <2>1. /\ UNCHANGED <<run, record, lapsed, recovery>>
        /\ lease' = lease \/ lease'.left > 0 \/ lease.owner = c
    BY <1>1, ClearFrame
  <2>2. ASSUME NEW r \in Runs, RunWorking(r)', lease'.left = 0 PROVE lease.left = 0
    <3>1. RunWorking(r)
      BY <2>1, <2>2 DEF RunWorking
    <3>2. lease.owner = r
      BY <3>1 DEF WorkersOwnTheLease, Working, Operations
    <3>3. lease.owner # c
      BY <3>2, ClearAssumption
    <3> QED BY <2>1, <2>2, <3>3
  <2> QED BY <2>1, <2>2, RecoveryKept
<1>2. ASSUME NEW p \in Processes, Crash(p) PROVE RecoveryInv'
  BY <1>2, CrashFrame, RecoveryKept
<1>3. CASE Tick
  <2>1. UNCHANGED <<run, record, recovery>>
    BY <1>3 DEF Tick
  <2>2. ASSUME NEW r \in Runs, RunWorking(r)', lease'.left = 0 PROVE r \in lapsed'
    <3>1. RunWorking(r)
      BY <2>1, <2>2 DEF RunWorking
    <3>2. lease.owner = r
      BY <3>1 DEF WorkersOwnTheLease, Working, Operations
    <3>3. lease.left = 1
      BY <1>3, <2>2 DEF Tick, LeaseTick, LeaseLive, TypeInv, ControlTypeOK
    <3> QED BY <1>3, <3>2, <3>3 DEF Tick
  <2>3. \A r \in Runs : r \in lapsed => r \in lapsed'
    BY <1>3 DEF Tick
  <2> QED BY <2>1, <2>2, <2>3, RecoveryKept
<1>4. ASSUME UNCHANGED <<lease, run, record, lapsed, recovery>> PROVE RecoveryInv'
  BY <1>4, RecoveryKept
<1>5. ASSUME NEW q \in Controls, ControlStep(q), UNCHANGED <<lease, runVars, clearVars>>
      PROVE  RecoveryInv'
  BY <1>4, <1>5 DEF runVars
<1>6. CASE UNCHANGED vars
  BY <1>4, <1>6 DEF vars, runVars
<1> QED BY <1>1, <1>2, <1>3, <1>5, <1>6, RecoveryRunStep, RecoveryRecoverStep DEF Next

\* recover_interrupted_runs() never abandons a run that is still at work unless
\* that run let its lease expire, whatever runs start and end between its query,
\* its checks and its commit.
THEOREM RecoveryIsSafe == Spec => []RecoverySparesLiveRuns
<1>1. Spec => []TypeInv
  BY InitTypes, TypeStep, PTL DEF Spec
<1>2. Init => RecoveryInv
  BY DEF Init, RunInit, Idle, NoRecovery, RecoveryInv, LapseInv, MarkedInv, QueuedInv,
         RecoverySparesLiveRuns, RunWorking, Runs, Standard
<1>3. RecoveryInv => RecoverySparesLiveRuns
  BY DEF RecoveryInv
<1> QED BY <1>1, <1>2, <1>3, WorkersOwn, RecoveryStep, PTL DEF Spec

-----------------------------------------------------------------------------
(* The audit chains. *)

\* A request that is about to insert holds a link that continues the rows.
SwitchLinksInv == \A q \in Controls :
    control[q].pc = "insert" => Continues(switchLog, control[q].link)
ClearLinksInv == \A c \in Clears :
    clear[c].link # NoLink => Continues(clearLog, clear[c].link)

ChainInv == AuditsVerify /\ SwitchLinksInv /\ ClearLinksInv

\* A control request keeps both audit chains.
LEMMA SwitchChainStep ==
    ASSUME TypeInv, ChainInv, NEW q \in Controls, ControlStep(q), UNCHANGED clearVars
    PROVE  ChainInv'
<1> USE DEF ChainInv
<1>1. ClearLinksInv' /\ Verifies(clearLog')
  BY DEF clearVars, ClearLinksInv, AuditsVerify
<1>2. control \in [Controls -> [pc : {"idle", "select", "insert", "done"}, link : LinkSet(Switches)]]
  BY LinkTypes DEF TypeInv, ControlTypeOK, SwitchTypeOK
<1>3. switchLog \in SUBSET RowSet(Switches) /\ Verifies(switchLog)
  BY DEF TypeInv, AuditsVerify
<1>4. Verifies(switchLog') /\ SwitchLinksInv'
  <2>1. CASE ReadSwitch(q)
    <3>1. switchLog' = switchLog /\ \A x \in Controls : control'[x].pc = "insert" =>
            control[x].pc = "insert" /\ control'[x].link = control[x].link
      BY <1>2, <2>1 DEF ReadSwitch
    <3> QED BY <1>3, <3>1 DEF SwitchLinksInv
  <2>2. CASE SelectSwitch(q)
    <3>1. PICK link \in Links(switchLog) :
            control' = [control EXCEPT ![q] = [pc |-> "insert", link |-> link]]
      BY <2>2 DEF SelectSwitch
    <3>2. Continues(switchLog, link)
      BY <1>3, LinksContinue
    <3>3. switchLog' = switchLog
      BY <2>2 DEF SelectSwitch
    <3>4. ASSUME NEW x \in Controls, control'[x].pc = "insert"
          PROVE  Continues(switchLog, control'[x].link)
      <4>1. CASE x = q
        BY <1>2, <3>1, <3>2, <4>1
      <4>2. CASE x # q
        BY <1>2, <3>1, <3>4, <4>2 DEF SwitchLinksInv
      <4> QED BY <4>1, <4>2
    <3> QED BY <1>3, <3>3, <3>4 DEF SwitchLinksInv
  <2>3. CASE InsertSwitch(q)
    <3>1. control[q].link \in LinkSet(Switches) /\ Continues(switchLog, control[q].link)
      BY <1>2, <2>3 DEF InsertSwitch, SwitchLinksInv
    <3>2. Wanted(q) \in Switches
      BY DEF Wanted, Switches
    <3>3. Verifies(switchLog') /\ switchLog \subseteq switchLog'
      BY <1>3, <2>3, <3>1, <3>2, AppendVerifies DEF InsertSwitch
    <3>4. \A x \in Controls : control'[x].pc = "insert" =>
            control[x].pc = "insert" /\ control'[x].link = control[x].link
      BY <1>2, <2>3 DEF InsertSwitch
    <3>5. ASSUME NEW x \in Controls, control'[x].pc = "insert"
          PROVE  Continues(switchLog', control'[x].link)
      BY <3>3, <3>4, <3>5, ContinuesGrows DEF SwitchLinksInv
    <3> QED BY <3>3, <3>5 DEF SwitchLinksInv
  <2> QED BY <2>1, <2>2, <2>3 DEF ControlStep
<1> QED BY <1>1, <1>4 DEF AuditsVerify

\* What the steps of a clear do to its slot and to the audit: SELECT, INSERT, or
\* a move that forgets the link.
LEMMA ClearSlot ==
    ASSUME TypeInv, NEW c \in Clears, RequestClear(c) \/ ClearStep(c)
    PROVE  /\ \A x \in Clears \ {c} : clear'[x] = clear[x]
           /\ \/ clearLog' = clearLog /\ clear'[c].link \in Links(clearLog) \cup {NoLink}
              \/ /\ InsertClear(c) /\ Fits(clearLog, clear[c].link)
                 /\ clearLog' = clearLog \cup {Signed(clear[c].link, Event(c))}
                 /\ clear'[c].link = NoLink
<1>1. clear \in [Clears -> [pc : ClearPlaces, link : [seq : Nat, prev : Seq(ClearEvent)]]]
  BY DEF TypeInv, ControlTypeOK, ClearTypeOK
<1>2. ASSUME NEW pc, To(c, pc)
      PROVE  (\A x \in Clears \ {c} : clear'[x] = clear[x]) /\ clear'[c].link = NoLink
  BY <1>1, <1>2 DEF To
<1>3. CASE RequestClear(c)
  BY <1>2, <1>3 DEF RequestClear
<1>4. CASE SelectClear(c)
  <2>1. PICK link \in Links(clearLog) : clear' = [clear EXCEPT ![c].link = link]
    BY <1>4 DEF SelectClear
  <2>2. (\A x \in Clears \ {c} : clear'[x] = clear[x]) /\ clear'[c].link = link
    BY <1>1, <2>1
  <2> QED BY <1>4, <2>2 DEF SelectClear
<1>5. CASE InsertClear(c)
  <2>1. CASE Fits(clearLog, clear[c].link) /\ FirstRequest(c)
    <3>1. /\ clearLog' = clearLog \cup {Signed(clear[c].link, Event(c))}
          /\ To(c, AfterAppend[clear[c].pc])
      BY <1>5, <2>1 DEF InsertClear
    <3> QED BY <1>2, <1>5, <2>1, <3>1
  <2>2. CASE ~(Fits(clearLog, clear[c].link) /\ FirstRequest(c))
    <3>1. clearLog' = clearLog /\ To(c, AfterIntegrityError[clear[c].pc])
      BY <1>5, <2>2 DEF InsertClear
    <3> QED BY <1>2, <3>1
  <2> QED BY <2>1, <2>2
<1>6. CASE AcquireClear(c)
  BY <1>2, <1>6 DEF AcquireClear
<1>7. CASE BackUp(c) \/ ClearMemory(c) \/ ReleaseClear(c)
  BY <1>2, <1>7 DEF BackUp, ClearMemory, ReleaseClear
<1> QED BY <1>3, <1>4, <1>5, <1>6, <1>7 DEF ClearStep

\* A step appends an event of the audit's type.
LEMMA EventTyped ==
    ASSUME NEW c \in Clears, clear[c].pc \in Appends
    PROVE  /\ Event(c) \in ClearEvent /\ Event(c).id = OperationId[c]
           /\ Event(c).type = IF clear[c].pc = "refused" THEN "failed" ELSE clear[c].pc
BY DEF Event, ClearEvent, Appends, OperationIds

\* A memory clear keeps both audit chains.
LEMMA ClearChainStep ==
    ASSUME TypeInv, ChainInv, NEW c \in Clears, RequestClear(c) \/ ClearStep(c), UNCHANGED switchVars
    PROVE  ChainInv'
<1> USE DEF ChainInv
<1>1. SwitchLinksInv' /\ Verifies(switchLog')
  BY DEF switchVars, SwitchLinksInv, AuditsVerify
<1>2. clear \in [Clears -> [pc : ClearPlaces, link : LinkSet(ClearEvent)]]
  BY LinkTypes DEF TypeInv, ControlTypeOK, ClearTypeOK
<1>3. clearLog \in SUBSET RowSet(ClearEvent) /\ Verifies(clearLog)
  BY DEF TypeInv, AuditsVerify
<1>4. Verifies(clearLog') /\ ClearLinksInv'
  <2>1. CASE clearLog' = clearLog /\ clear'[c].link \in Links(clearLog) \cup {NoLink}
    <3>1. ASSUME NEW x \in Clears, clear'[x].link # NoLink
          PROVE  Continues(clearLog, clear'[x].link)
      <4>1. CASE x = c
        BY <1>3, <2>1, <3>1, <4>1, LinksContinue
      <4>2. CASE x # c
        BY <3>1, <4>2, ClearSlot DEF ClearLinksInv
      <4> QED BY <4>1, <4>2
    <3> QED BY <1>3, <2>1, <3>1 DEF ClearLinksInv
  <2>2. CASE /\ InsertClear(c) /\ Fits(clearLog, clear[c].link)
             /\ clearLog' = clearLog \cup {Signed(clear[c].link, Event(c))}
             /\ clear'[c].link = NoLink
    <3>1. clear[c].link \in LinkSet(ClearEvent) /\ Continues(clearLog, clear[c].link)
      BY <1>2, <2>2 DEF InsertClear, ClearLinksInv
    <3>2. Event(c) \in ClearEvent
      BY <2>2, EventTyped DEF InsertClear
    <3>3. Verifies(clearLog') /\ clearLog \subseteq clearLog'
      BY <1>3, <2>2, <3>1, <3>2, AppendVerifies
    <3>4. ASSUME NEW x \in Clears, clear'[x].link # NoLink
          PROVE  Continues(clearLog', clear'[x].link)
      <4>1. clear'[x] = clear[x]
        BY <2>2, <3>4, ClearSlot
      <4>2. Continues(clearLog, clear[x].link)
        BY <3>4, <4>1 DEF ClearLinksInv
      <4> QED BY <3>3, <4>1, <4>2, ContinuesGrows
    <3> QED BY <3>3, <3>4 DEF ClearLinksInv
  <2> QED BY <2>1, <2>2, ClearSlot
<1> QED BY <1>1, <1>4 DEF AuditsVerify

\* Every step keeps both audit chains and the links that workers hold.
LEMMA ChainStep == TypeInv /\ ChainInv /\ [Next]_vars => ChainInv'
<1> SUFFICES ASSUME TypeInv, ChainInv, [Next]_vars PROVE ChainInv'
  OBVIOUS
<1>1. ASSUME UNCHANGED <<switchLog, control, clearLog, clear>> PROVE ChainInv'
  BY <1>1 DEF ChainInv, AuditsVerify, SwitchLinksInv, ClearLinksInv
<1>2. ASSUME NEW q \in Controls, ControlStep(q), UNCHANGED <<lease, runVars, clearVars>>
      PROVE  ChainInv'
  BY <1>2, SwitchChainStep
<1>3. ASSUME NEW c \in Clears, RequestClear(c) \/ ClearStep(c), UNCHANGED <<switchVars, runVars>>
      PROVE  ChainInv'
  BY <1>3, ClearChainStep
<1>4. ASSUME UNCHANGED <<switchVars, clearVars>> PROVE ChainInv'
  BY <1>1, <1>4 DEF switchVars, clearVars
<1>5. ASSUME NEW p \in Processes, Crash(p) PROVE ChainInv'
  <2>1. UNCHANGED <<switchLog, control, clearLog>>
    BY <1>5 DEF Crash, switchVars
  <2>2. \A c \in Clears : clear'[c].link \in {clear[c].link, NoLink}
    BY <1>5 DEF Crash, Stopped
  <2> QED BY <2>1, <2>2 DEF ChainInv, AuditsVerify, SwitchLinksInv, ClearLinksInv
<1>6. CASE Tick
  BY <1>4, <1>6 DEF Tick
<1>7. CASE UNCHANGED vars
  BY <1>4, <1>7 DEF vars
<1> QED BY <1>2, <1>3, <1>4, <1>5, <1>6, <1>7 DEF Next

\* The kill-switch log and the clear audit pass verify_chain() at every moment,
\* whatever requests append at the same time.
THEOREM AuditsAlwaysVerify == Spec => []AuditsVerify
<1>1. Spec => []TypeInv
  BY InitTypes, TypeStep, PTL DEF Spec
<1>2. Init => ChainInv
  BY DEF Init, SwitchInit, ClearInit, ChainInv, AuditsVerify, Verifies, SwitchLinksInv, ClearLinksInv
<1>3. ChainInv => AuditsVerify
  BY DEF ChainInv
<1> QED BY <1>1, <1>2, <1>3, ChainStep, PTL DEF Spec

-----------------------------------------------------------------------------
(* The memory and its backups. *)

\* Where a request is once its "requested" record is in the audit, and where it
\* has not yet recorded its backup.
Recorded == {"acquire", "refused", "backup", "backup_verified", "clear", "succeeded",
             "failed", "release"}
BeforeVerified == {"acquire", "backup", "backup_verified"}

HasRow(type, id) == \E r \in clearLog : r.event.type = type /\ r.event.id = id

\* One request at a time is past the record of an operation id, and every record
\* of an operation follows its "requested" record.
UniqueInv ==
    \A c, d \in Clears :
        clear[c].pc \in Recorded /\ clear[d].pc \in Recorded /\ OperationId[c] = OperationId[d] => c = d
RecordedInv == \A c \in Clears : clear[c].pc \in Recorded => HasRow("requested", OperationId[c])
FirstInv == \A r \in clearLog : HasRow("requested", r.event.id)

\* The backup of a request is not yet verified before its record, is a copy of
\* the memory when it is, and its record is there when the memory is cleared.
UnverifiedInv == \A c \in Clears :
    clear[c].pc \in BeforeVerified => ~HasRow("backup_verified", OperationId[c])
CopyInv == \A c \in Clears :
    clear[c].pc \in {"backup_verified", "clear"} => backup[OperationId[c]] = memory
VerifiedInv == \A c \in Clears :
    clear[c].pc = "clear" => HasRow("backup_verified", OperationId[c])

BackupInv == /\ UniqueInv /\ RecordedInv /\ FirstInv /\ UnverifiedInv /\ CopyInv /\ VerifiedInv
             /\ ClearedDataIsRecoverable

\* Steps that write neither the audit nor a file.
LEMMA BackupQuiet ==
    ASSUME BackupInv, UNCHANGED <<clearLog, memory, backup>>,
           \A c \in Clears :
              /\ clear'[c].pc \in Recorded => clear[c].pc \in Recorded
              /\ clear'[c].pc \in BeforeVerified => clear[c].pc \in BeforeVerified
              /\ clear'[c].pc \in {"backup_verified", "clear"} => clear[c].pc = clear'[c].pc
    PROVE  BackupInv'
<1> USE DEF BackupInv
<1>1. \A type, id : HasRow(type, id)' <=> HasRow(type, id)
  BY DEF HasRow
<1>2. UniqueInv'
  BY DEF UniqueInv
<1>3. RecordedInv' /\ FirstInv'
  BY <1>1 DEF RecordedInv, FirstInv
<1>4. UnverifiedInv' /\ VerifiedInv'
  BY <1>1 DEF UnverifiedInv, VerifiedInv
<1>5. CopyInv'
  BY DEF CopyInv
<1>6. ClearedDataIsRecoverable'
  BY DEF ClearedDataIsRecoverable
<1> QED BY <1>2, <1>3, <1>4, <1>5, <1>6

\* The INSERT of a record.
LEMMA BackupAppend ==
    ASSUME TypeInv, BackupInv, NEW c \in Clears, clear[c].pc \in Appends, FirstRequest(c),
           clearLog' = clearLog \cup {Signed(clear[c].link, Event(c))},
           To(c, AfterAppend[clear[c].pc]), UNCHANGED <<memory, backup>>
    PROVE  BackupInv'
<1> USE DEF BackupInv
<1> DEFINE pc == clear[c].pc
           i == OperationId[c]
           type == IF pc = "refused" THEN "failed" ELSE pc
<1>1. /\ clear \in [Clears -> [pc : ClearPlaces, link : [seq : Nat, prev : Seq(ClearEvent)]]]
      /\ clearLog \in SUBSET RowSet(ClearEvent)
  BY DEF TypeInv, ControlTypeOK, ClearTypeOK
<1>2. /\ \A x \in Clears \ {c} : clear'[x].pc = clear[x].pc
      /\ clear'[c].pc = AfterAppend[pc]
  BY <1>1 DEF To
<1>3. Event(c) \in ClearEvent /\ Event(c).id = i /\ Event(c).type = type
  BY EventTyped
<1>4. Signed(clear[c].link, Event(c)).event = Event(c)
  BY DEF Signed
<1>5. \A t, id : HasRow(t, id)' <=> HasRow(t, id) \/ (t = type /\ id = i)
  BY <1>3, <1>4 DEF HasRow
<1>6. pc = "requested" => ~HasRow("requested", i)
  <2> SUFFICES ASSUME pc = "requested", NEW r \in clearLog,
                      r.event.type = "requested", r.event.id = i
               PROVE  FALSE
    BY DEF HasRow
  <2>1. r.event \in [id : OperationIds, type : {"requested", "backup_verified", "succeeded", "failed"}]
    BY <1>1 DEF RowSet, ClearEvent
  <2>2. Event(c) = [id |-> i, type |-> "requested"]
    BY DEF Event
  <2>3. r.event = Event(c)
    BY <2>1, <2>2
  <2> QED BY <2>3 DEF FirstRequest
<1>7. /\ pc # "requested" /\ pc # "refused" => pc \in Recorded
      /\ pc = "refused" => pc \in Recorded /\ clear'[c].pc = "done"
      /\ pc = "requested" => clear'[c].pc = "acquire"
      /\ clear'[c].pc = "clear" <=> pc = "backup_verified"
      /\ clear'[c].pc \in BeforeVerified => pc = "requested"
      /\ clear'[c].pc # "backup_verified"
  BY <1>2 DEF Appends, AfterAppend, Recorded, BeforeVerified
<1> HIDE DEF pc, i, type
<1>8. ASSUME NEW d \in Clears, d # c, clear[d].pc \in Recorded, OperationId[d] = i,
             clear'[c].pc \in Recorded
      PROVE  FALSE
  <2>1. HasRow("requested", i)
    BY <1>8 DEF RecordedInv
  <2>2. pc \in Recorded
    BY <1>6, <1>7, <2>1
  <2> QED BY <1>8, <2>2 DEF UniqueInv, pc, i
<1>9. UniqueInv'
  <2> SUFFICES ASSUME NEW d \in Clears, NEW e \in Clears,
                      clear'[d].pc \in Recorded, clear'[e].pc \in Recorded,
                      OperationId[d] = OperationId[e], d # e
               PROVE  FALSE
    BY DEF UniqueInv
  <2>1. CASE d = c
    BY <1>2, <1>8, <2>1 DEF i
  <2>2. CASE e = c
    BY <1>2, <1>8, <2>2 DEF i
  <2>3. CASE d # c /\ e # c
    BY <1>2, <2>3 DEF UniqueInv
  <2> QED BY <2>1, <2>2, <2>3
<1>10. HasRow("requested", i)'
  <2>1. CASE pc = "requested"
    BY <1>5, <2>1 DEF type
  <2>2. CASE pc # "requested"
    BY <1>5, <1>7, <2>2 DEF RecordedInv, pc, i
  <2> QED BY <2>1, <2>2
<1>11. RecordedInv'
  <2> SUFFICES ASSUME NEW d \in Clears, clear'[d].pc \in Recorded
               PROVE  HasRow("requested", OperationId[d])'
    BY DEF RecordedInv
  <2>1. CASE d = c
    BY <1>10, <2>1 DEF i
  <2>2. CASE d # c
    BY <1>2, <1>5, <2>2 DEF RecordedInv
  <2> QED BY <2>1, <2>2
<1>12. FirstInv'
  <2> SUFFICES ASSUME NEW r \in clearLog' PROVE HasRow("requested", r.event.id)'
    BY DEF FirstInv
  <2>1. CASE r \in clearLog
    BY <1>5, <2>1 DEF FirstInv
  <2>2. CASE r = Signed(clear[c].link, Event(c))
    BY <1>3, <1>4, <1>10, <2>2
  <2> QED BY <2>1, <2>2
<1>13. UnverifiedInv'
  <2> SUFFICES ASSUME NEW d \in Clears, clear'[d].pc \in BeforeVerified,
                      HasRow("backup_verified", OperationId[d])'
               PROVE  FALSE
    BY DEF UnverifiedInv
  <2>1. CASE d = c
    <3>1. pc = "requested" /\ OperationId[d] = i
      BY <1>7, <2>1 DEF i
    <3>2. HasRow("backup_verified", i)
      BY <1>5, <3>1 DEF type
    <3>3. HasRow("requested", i)
      BY <3>2 DEF HasRow, FirstInv
    <3> QED BY <1>6, <3>1, <3>3
  <2>2. CASE d # c
    <3>1. clear[d].pc \in BeforeVerified /\ clear[d].pc \in Recorded
      BY <1>2, <2>2 DEF BeforeVerified, Recorded
    <3>2. type = "backup_verified" /\ OperationId[d] = i
      BY <1>5, <3>1 DEF UnverifiedInv
    <3>3. pc \in Recorded
      BY <3>2 DEF type, Recorded
    <3> QED BY <2>2, <3>1, <3>2, <3>3 DEF UniqueInv, pc, i
  <2> QED BY <2>1, <2>2
<1>14. CopyInv'
  <2> SUFFICES ASSUME NEW d \in Clears, clear'[d].pc \in {"backup_verified", "clear"}
               PROVE  backup[OperationId[d]] = memory
    BY DEF CopyInv
  <2>1. CASE d = c
    BY <1>7, <2>1 DEF CopyInv, pc
  <2>2. CASE d # c
    BY <1>2, <2>2 DEF CopyInv
  <2> QED BY <2>1, <2>2
<1>15. VerifiedInv'
  <2> SUFFICES ASSUME NEW d \in Clears, clear'[d].pc = "clear"
               PROVE  HasRow("backup_verified", OperationId[d])'
    BY DEF VerifiedInv
  <2>1. CASE d = c
    BY <1>5, <1>7, <2>1 DEF type, i
  <2>2. CASE d # c
    BY <1>2, <1>5, <2>2 DEF VerifiedInv
  <2> QED BY <2>1, <2>2
<1>16. ClearedDataIsRecoverable'
  BY DEF ClearedDataIsRecoverable
<1> QED BY <1>9, <1>11, <1>12, <1>13, <1>14, <1>15, <1>16

\* The backup and the clearing, by the one request at work.
LEMMA BackupFiles ==
    ASSUME TypeInv, WorkersOwnTheLease, BackupInv, NEW c \in Clears,
           \/ /\ clear[c].pc = "backup" /\ To(c, "backup_verified")
              /\ backup' = [backup EXCEPT ![OperationId[c]] = memory]
              /\ UNCHANGED <<clearLog, memory>>
           \/ ClearMemory(c)
    PROVE  BackupInv'
<1> USE DEF BackupInv
<1>1. clear \in [Clears -> [pc : ClearPlaces, link : [seq : Nat, prev : Seq(ClearEvent)]]]
  BY DEF TypeInv, ControlTypeOK, ClearTypeOK
<1>2. /\ \A x \in Clears \ {c} : clear'[x].pc = clear[x].pc
      /\ \/ clear[c].pc = "backup" /\ clear'[c].pc = "backup_verified"
         \/ clear[c].pc = "clear" /\ clear'[c].pc \in {"succeeded", "failed"}
      /\ clearLog' = clearLog
  BY <1>1 DEF To, ClearMemory
<1>3. \A type, id : HasRow(type, id)' <=> HasRow(type, id)
  BY <1>2 DEF HasRow
<1>4. ClearWorking(c)
  BY <1>2 DEF ClearWorking
<1>5. ASSUME NEW d \in Clears, d # c PROVE clear'[d].pc \notin {"backup_verified", "clear"}
  <2>1. lease.owner = c
    BY <1>4, ClearAssumption DEF WorkersOwnTheLease, Working, Operations
  <2>2. ~ClearWorking(d)
    BY <1>5, <2>1, ClearAssumption DEF WorkersOwnTheLease, Working, Operations
  <2> QED BY <1>2, <1>5, <2>2 DEF ClearWorking
<1>6. \A d \in Clears : /\ clear'[d].pc \in Recorded => clear[d].pc \in Recorded
                        /\ clear'[d].pc \in BeforeVerified => clear[d].pc \in BeforeVerified
  BY <1>2 DEF Recorded, BeforeVerified
<1>7. UniqueInv'
  BY <1>6 DEF UniqueInv
<1>8. RecordedInv' /\ FirstInv' /\ UnverifiedInv'
  BY <1>2, <1>3, <1>6 DEF RecordedInv, FirstInv, UnverifiedInv
<1>9. VerifiedInv'
  <2>1. \A d \in Clears : clear'[d].pc # "clear"
    BY <1>2, <1>5
  <2> QED BY <2>1 DEF VerifiedInv
<1>10. OperationId[c] \in OperationIds /\ backup \in [OperationIds -> {"none", "data", "empty"}]
  BY DEF OperationIds, TypeInv, ControlTypeOK, ClearTypeOK
<1>11. CASE /\ clear[c].pc = "backup" /\ To(c, "backup_verified")
            /\ backup' = [backup EXCEPT ![OperationId[c]] = memory]
            /\ UNCHANGED <<clearLog, memory>>
  <2>1. CopyInv'
    <3> SUFFICES ASSUME NEW d \in Clears, clear'[d].pc \in {"backup_verified", "clear"}
                 PROVE  backup'[OperationId[d]] = memory'
      BY DEF CopyInv
    <3>1. d = c
      BY <1>5
    <3> QED BY <1>10, <1>11, <3>1
  <2>2. ClearedDataIsRecoverable'
    <3>1. CASE memory = "data"
      BY <1>11, <3>1 DEF ClearedDataIsRecoverable
    <3>2. CASE memory # "data"
      <4>1. PICK r \in clearLog : r.event.type = "backup_verified" /\ backup[r.event.id] = "data"
        BY <3>2 DEF ClearedDataIsRecoverable
      <4>2. ~HasRow("backup_verified", OperationId[c])
        BY <1>11 DEF UnverifiedInv, BeforeVerified
      <4>3. r.event.id # OperationId[c] /\ r.event.id \in OperationIds
        BY <4>1, <4>2 DEF HasRow, TypeInv, RowSet, ClearEvent
      <4>4. backup'[r.event.id] = "data"
        BY <1>10, <1>11, <4>1, <4>3
      <4> QED BY <1>11, <4>1, <4>4 DEF ClearedDataIsRecoverable
    <3> QED BY <3>1, <3>2
  <2> QED BY <1>7, <1>8, <1>9, <2>1, <2>2
<1>12. CASE ClearMemory(c)
  <2>1. clear[c].pc = "clear" /\ backup' = backup
    BY <1>12 DEF ClearMemory
  <2>2. CopyInv'
    <3>1. \A d \in Clears : clear'[d].pc \notin {"backup_verified", "clear"}
      BY <1>2, <1>5, <2>1
    <3> QED BY <3>1 DEF CopyInv
  <2>3. ClearedDataIsRecoverable'
    <3>1. CASE memory = "data"
      <4>1. PICK r \in clearLog : r.event.type = "backup_verified" /\ r.event.id = OperationId[c]
        BY <2>1 DEF VerifiedInv, HasRow
      <4>2. backup'[r.event.id] = "data"
        BY <2>1, <3>1, <4>1 DEF CopyInv
      <4> QED BY <1>2, <4>1, <4>2 DEF ClearedDataIsRecoverable
    <3>2. CASE memory # "data"
      BY <1>2, <2>1, <3>2 DEF ClearedDataIsRecoverable
    <3> QED BY <3>1, <3>2
  <2> QED BY <1>7, <1>8, <1>9, <2>2, <2>3
<1> QED BY <1>11, <1>12

\* Every step keeps what was cleared in a backup.
LEMMA BackupStep ==
    TypeInv /\ WorkersOwnTheLease /\ BackupInv /\ [Next]_vars => BackupInv'
<1> SUFFICES ASSUME TypeInv, WorkersOwnTheLease, BackupInv, [Next]_vars PROVE BackupInv'
  OBVIOUS
<1>1. clear \in [Clears -> [pc : ClearPlaces, link : [seq : Nat, prev : Seq(ClearEvent)]]]
  BY DEF TypeInv, ControlTypeOK, ClearTypeOK
<1>2. ASSUME UNCHANGED clearVars PROVE BackupInv'
  BY <1>2, BackupQuiet DEF clearVars
<1>3. ASSUME NEW c \in Clears, NEW pc, To(c, pc), UNCHANGED <<clearLog, memory, backup>>,
             pc \in Recorded => clear[c].pc \in Recorded,
             pc \in BeforeVerified => clear[c].pc \in BeforeVerified,
             pc \notin {"backup_verified", "clear"}
      PROVE  BackupInv'
  <2>1. /\ \A x \in Clears \ {c} : clear'[x].pc = clear[x].pc
        /\ clear'[c].pc = pc
    BY <1>1, <1>3 DEF To
  <2> QED BY <1>3, <2>1, BackupQuiet
<1>4. ASSUME NEW c \in Clears, RequestClear(c) \/ ClearStep(c) PROVE BackupInv'
  <2> USE DEF Recorded, BeforeVerified
  <2>1. CASE RequestClear(c)
    BY <1>3, <2>1 DEF RequestClear
  <2>2. CASE SelectClear(c)
    <3>1. PICK link : clear' = [clear EXCEPT ![c].link = link]
      BY <2>2 DEF SelectClear
    <3>2. \A x \in Clears : clear'[x].pc = clear[x].pc
      BY <1>1, <3>1
    <3>3. UNCHANGED <<clearLog, memory, backup>>
      BY <2>2 DEF SelectClear
    <3> QED BY <3>2, <3>3, BackupQuiet
  <2>3. CASE InsertClear(c)
    <3>1. clear[c].pc \in Appends /\ UNCHANGED <<memory, backup>>
      BY <2>3 DEF InsertClear
    <3>2. CASE Fits(clearLog, clear[c].link) /\ FirstRequest(c)
      BY <2>3, <3>1, <3>2, BackupAppend DEF InsertClear
    <3>3. CASE ~(Fits(clearLog, clear[c].link) /\ FirstRequest(c))
      <4>1. clearLog' = clearLog /\ To(c, AfterIntegrityError[clear[c].pc])
        BY <2>3, <3>3 DEF InsertClear
      <4>2. /\ AfterIntegrityError[clear[c].pc] \in {"done", "failed", "release"}
            /\ AfterIntegrityError[clear[c].pc] # "done" => clear[c].pc \in Recorded
        BY <3>1 DEF AfterIntegrityError, Appends
      <4> QED BY <1>3, <3>1, <4>1, <4>2
    <3> QED BY <3>2, <3>3
  <2>4. CASE AcquireClear(c)
    BY <1>3, <2>4 DEF AcquireClear
  <2>5. CASE BackUp(c)
    <3>1. clear[c].pc = "backup" /\ UNCHANGED <<clearLog, memory>>
      BY <2>5 DEF BackUp
    <3>2. CASE backup' = [backup EXCEPT ![OperationId[c]] = memory] /\ To(c, "backup_verified")
      BY <3>1, <3>2, BackupFiles
    <3>3. CASE UNCHANGED backup /\ To(c, "failed")
      BY <1>3, <3>1, <3>3
    <3> QED BY <2>5, <3>2, <3>3 DEF BackUp
  <2>6. CASE ClearMemory(c)
    BY <2>6, BackupFiles
  <2>7. CASE ReleaseClear(c)
    BY <1>3, <2>7 DEF ReleaseClear
  <2> QED BY <1>4, <2>1, <2>2, <2>3, <2>4, <2>5, <2>6, <2>7 DEF ClearStep
<1>5. ASSUME NEW p \in Processes, Crash(p) PROVE BackupInv'
  <2>1. UNCHANGED <<clearLog, memory, backup>>
    BY <1>5 DEF Crash
  <2>2. \A c \in Clears : clear'[c].pc \in {clear[c].pc, "crashed"}
    BY <1>5 DEF Crash, Stopped
  <2> QED BY <2>1, <2>2, BackupQuiet DEF Recorded, BeforeVerified
<1>6. CASE Tick
  BY <1>2, <1>6 DEF Tick
<1>7. CASE UNCHANGED vars
  BY <1>2, <1>7 DEF vars
<1>8. ASSUME NEW q \in Controls, ControlStep(q), UNCHANGED <<lease, runVars, clearVars>>
      PROVE  BackupInv'
  BY <1>2, <1>8
<1>9. ASSUME UNCHANGED <<switchVars, clearVars>> PROVE BackupInv'
  BY <1>2, <1>9
<1> QED BY <1>4, <1>5, <1>6, <1>7, <1>8, <1>9 DEF Next

\* Whatever clears race for the lease, the audit or the same operation id, and
\* wherever they crash, the memory's contents are in memory.json or in the
\* backup of an operation whose audit says so.
THEOREM ClearsAreRecoverable == Spec => []ClearedDataIsRecoverable
<1>1. Spec => []TypeInv
  BY InitTypes, TypeStep, PTL DEF Spec
<1>2. Init => BackupInv
  BY DEF Init, ClearInit, BackupInv, UniqueInv, RecordedInv, FirstInv, UnverifiedInv, CopyInv,
         VerifiedInv, ClearedDataIsRecoverable, Recorded, BeforeVerified, HasRow
<1>3. BackupInv => ClearedDataIsRecoverable
  BY DEF BackupInv
<1> QED BY <1>1, <1>2, <1>3, WorkersOwn, BackupStep, PTL DEF Spec
=============================================================================
