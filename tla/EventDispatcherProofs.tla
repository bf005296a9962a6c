----------------------- MODULE EventDispatcherProofs -----------------------
(***************************************************************************)
(* Proofs about EventDispatcher, for every set of emitting tasks, either   *)
(* store, every window and every bound.                                    *)
(***************************************************************************)
EXTENDS EventDispatcher, WellFoundedInduction, TLAPS

\* Appending an envelope adds it at the end and keeps the others in place.
LEMMA AppendFacts ==
    ASSUME NEW S, NEW s \in Seq(S), NEW e \in S
    PROVE  /\ Append(s, e) \in Seq(S)
           /\ Len(Append(s, e)) = Len(s) + 1
           /\ \A i \in 1..Len(s) : Append(s, e)[i] = s[i]
           /\ Append(s, e)[Len(s) + 1] = e
  OBVIOUS

\* The initial state satisfies the inductive invariant (dispatcher.py,
\* EventDispatcher.__init__; an empty store).
LEMMA InitEstablishesInv == DispatcherInit => DispatcherInv
  BY TasksAssumption, WindowAssumption
     DEF DispatcherInit, DispatcherInv, DispatcherTypeOK, InCriticalSection,
         SequenceOrderIsPersistOrder, AnnouncedIsPersisted, Envelope

\* Every number in the log is an integer in the bounds.
LEMMA LoggedNumbers ==
    ASSUME NEW s \in Seq(Envelope), NEW i \in 1..Len(s)
    PROVE  s[i].sequence \in Int
<1>1. s[i] \in Envelope
  OBVIOUS
<1>2. s[i].sequence \in 0..MaxSequence
  BY <1>1 DEF Envelope
<1> QED BY <1>2, WindowAssumption

\* Every step of emit() and of the socket preserves the inductive invariant.
LEMMA NextPreservesInv ==
    DispatcherInv /\ [DispatcherNext]_dispatcherVars => DispatcherInv'
<1> SUFFICES ASSUME DispatcherInv, [DispatcherNext]_dispatcherVars
             PROVE  DispatcherInv'
  OBVIOUS
<1> USE TasksAssumption, WindowAssumption
<1>t. DispatcherTypeOK
  BY DEF DispatcherInv
<1>c. counter \in Int
  BY <1>t DEF DispatcherTypeOK
<1>n. \A i \in 1..Len(persisted) :
        persisted[i].sequence \in Int /\ persisted[i].sequence <= counter
  BY <1>t, LoggedNumbers DEF DispatcherInv, DispatcherTypeOK
<1>1. ASSUME NEW t \in Tasks, NEW k \in Kinds, Allocate(t, k)
      PROVE  DispatcherInv'
  <2>1. DispatcherTypeOK'
    BY <1>1, <1>t DEF Allocate, DispatcherTypeOK, Envelope, Kinds
  <2>2. ASSUME NEW u \in Tasks PROVE InCriticalSection(u)'
    <3>1. CASE u = t
      <4>1. /\ pc'[t] = "allocated"
            /\ lock' = t
            /\ env'[t] = [sequence |-> counter + 1, kind |-> k]
            /\ counter' = counter + 1
            /\ persisted' = persisted
        BY <1>1, <1>t DEF Allocate, DispatcherTypeOK
      <4>2. env'[t] \in Envelope
        BY <1>1, <1>t, <4>1 DEF Allocate, DispatcherTypeOK, Envelope, Kinds
      <4>3. \A i \in 1..Len(persisted) : persisted[i].sequence < counter + 1
        BY <1>c, <1>n
      <4> QED BY <3>1, <4>1, <4>2, <4>3 DEF InCriticalSection
    <3>2. CASE u # t
      BY <1>1, <1>t, <2>2, <3>2
         DEF Allocate, DispatcherInv, DispatcherTypeOK, InCriticalSection
    <3> QED BY <3>1, <3>2
  <2>3. (\A i \in 1..Len(persisted) : persisted[i].sequence <= counter)'
    BY <1>1, <1>c, <1>n DEF Allocate
  <2>4. (SequenceOrderIsPersistOrder /\ AnnouncedIsPersisted)'
    BY <1>1 DEF Allocate, DispatcherInv, SequenceOrderIsPersistOrder,
       AnnouncedIsPersisted
  <2> QED BY <2>1, <2>2, <2>3, <2>4 DEF DispatcherInv
<1>2. ASSUME NEW t \in Tasks, Persist(t)
      PROVE  DispatcherInv'
  <2>1. /\ env[t] \in Envelope
        /\ env[t].sequence = counter
        /\ lock = t
        /\ \A i \in 1..Len(persisted) : persisted[i].sequence < counter
    BY <1>2 DEF Persist, DispatcherInv, InCriticalSection
  <2>2. /\ persisted' \in Seq(Envelope)
        /\ Len(persisted') = Len(persisted) + 1
        /\ \A i \in 1..Len(persisted) : persisted'[i] = persisted[i]
        /\ persisted'[Len(persisted) + 1] = env[t]
    BY <1>2, <1>t, <2>1, AppendFacts DEF Persist, DispatcherTypeOK
  <2>3. Len(persisted) \in Nat
    BY <1>t DEF DispatcherTypeOK
  <2>4. DispatcherTypeOK'
    BY <1>2, <1>t, <2>2 DEF Persist, DispatcherTypeOK
  <2>5. ASSUME NEW u \in Tasks PROVE InCriticalSection(u)'
    <3>1. CASE u = t
      BY <1>2, <1>t, <2>1, <2>2, <2>3, <3>1
         DEF Persist, DispatcherTypeOK, InCriticalSection
    <3>2. CASE u # t
      <4>1. pc[u] # "allocated" /\ pc'[u] = pc[u] /\ env'[u] = env[u]
        BY <1>2, <1>t, <2>1, <2>5, <3>2
           DEF Persist, DispatcherInv, DispatcherTypeOK, InCriticalSection
      <4>2. pc[u] = "fanout" =>
               \E i \in 1..Len(persisted) : persisted'[i] = env[u]
        BY <2>2, <2>5 DEF DispatcherInv, InCriticalSection
      <4>3. 1..Len(persisted) \subseteq 1..Len(persisted')
        BY <2>2, <2>3
      <4> QED BY <1>2, <4>1, <4>2, <4>3 DEF Persist, InCriticalSection
    <3> QED BY <3>1, <3>2
  <2>6. (\A i \in 1..Len(persisted) : persisted[i].sequence <= counter)'
    BY <1>2, <1>t, <2>1, <2>2, <2>3
       DEF Persist, DispatcherInv, DispatcherTypeOK, Envelope
  <2>7. SequenceOrderIsPersistOrder'
    <3> SUFFICES ASSUME NEW i \in 1..Len(persisted'),
                        NEW j \in 1..Len(persisted'), i < j
                 PROVE  persisted'[i].sequence < persisted'[j].sequence
      BY DEF SequenceOrderIsPersistOrder
    <3>1. i \in 1..Len(persisted) /\ persisted'[i] = persisted[i]
      BY <2>2, <2>3
    <3>2. CASE j \in 1..Len(persisted)
      <4>1. persisted'[j] = persisted[j]
        BY <2>2, <3>2
      <4>2. persisted[i].sequence < persisted[j].sequence
        BY <3>1, <3>2 DEF DispatcherInv, SequenceOrderIsPersistOrder
      <4> QED BY <3>1, <4>1, <4>2
    <3>3. CASE j = Len(persisted) + 1
      BY <2>1, <2>2, <3>1, <3>3
    <3> QED BY <2>2, <2>3, <3>2, <3>3
  <2>8. AnnouncedIsPersisted'
    BY <1>2, <2>2, <2>3 DEF Persist, DispatcherInv, AnnouncedIsPersisted
  <2> QED BY <2>4, <2>5, <2>6, <2>7, <2>8 DEF DispatcherInv
<1>3. ASSUME NEW t \in Tasks, EmitFails(t)
      PROVE  DispatcherInv'
  <2>1. DispatcherTypeOK'
    BY <1>3, <1>t DEF EmitFails, DispatcherTypeOK
  <2>2. ASSUME NEW u \in Tasks PROVE InCriticalSection(u)'
    BY <1>3, <1>t, <2>2 DEF EmitFails, DispatcherInv, DispatcherTypeOK,
       InCriticalSection
  <2> QED BY <1>3, <2>1, <2>2 DEF EmitFails, DispatcherInv,
       SequenceOrderIsPersistOrder, AnnouncedIsPersisted
<1>4. ASSUME NEW t \in Tasks, NEW d \in BOOLEAN, FanOut(t, d)
      PROVE  DispatcherInv'
  <2>1. \E i \in 1..Len(persisted) : persisted[i] = env[t]
    BY <1>4 DEF FanOut, DispatcherInv, InCriticalSection
  <2>2. env[t] \in Envelope
    BY <1>t, <2>1 DEF DispatcherTypeOK
  <2>3. DispatcherTypeOK'
    BY <1>4, <1>t, <2>2 DEF FanOut, DispatcherTypeOK
  <2>4. ASSUME NEW u \in Tasks PROVE InCriticalSection(u)'
    BY <1>4, <1>t, <2>4 DEF FanOut, DispatcherInv, DispatcherTypeOK,
       InCriticalSection
  <2>5. AnnouncedIsPersisted'
    BY <1>4, <2>1 DEF FanOut, DispatcherInv, AnnouncedIsPersisted
  <2> QED BY <1>4, <2>3, <2>4, <2>5 DEF FanOut, DispatcherInv,
       SequenceOrderIsPersistOrder
<1>5. ASSUME NEW gone \in SUBSET net, Leave(gone)
      PROVE  DispatcherInv'
  <2>1. DispatcherTypeOK'
    BY <1>5, <1>t DEF Leave, DispatcherTypeOK
  <2>2. ASSUME NEW u \in Tasks PROVE InCriticalSection(u)'
    BY <1>5, <2>2 DEF Leave, DispatcherInv, InCriticalSection
  <2> QED BY <1>5, <2>1, <2>2 DEF Leave, DispatcherInv,
       SequenceOrderIsPersistOrder, AnnouncedIsPersisted
<1>6. CASE UNCHANGED dispatcherVars
  BY <1>6 DEF dispatcherVars, DispatcherInv, DispatcherTypeOK,
     InCriticalSection, SequenceOrderIsPersistOrder, AnnouncedIsPersisted
<1> QED BY <1>1, <1>2, <1>3, <1>4, <1>5, <1>6 DEF DispatcherNext

\* The inductive invariant holds in every reachable state of the dispatcher.
THEOREM DispatcherInvariant == DispatcherSpec => []DispatcherInv
  BY InitEstablishesInv, NextPreservesInv, PTL DEF DispatcherSpec

\* The type invariant of the dispatcher, for every set of tasks and bound.
THEOREM DispatcherTypeCorrect == DispatcherSpec => []DispatcherTypeOK
<1>1. DispatcherInv => DispatcherTypeOK
  BY DEF DispatcherInv
<1> QED BY <1>1, DispatcherInvariant, PTL

\* emit() persists in sequence order, however many coroutines emit and
\* whichever of their emissions fail after allocating (dispatcher.py, emit).
THEOREM PersistOrder == DispatcherSpec => []SequenceOrderIsPersistOrder
<1>1. DispatcherInv => SequenceOrderIsPersistOrder
  BY DEF DispatcherInv
<1> QED BY <1>1, DispatcherInvariant, PTL

\* No envelope is announced on the socket before it can be replayed
\* (dispatcher.py, emit: persist, then fan-out).
THEOREM AnnouncedAfterPersist == DispatcherSpec => []AnnouncedIsPersisted
<1>1. DispatcherInv => AnnouncedIsPersisted
  BY DEF DispatcherInv
<1> QED BY <1>1, DispatcherInvariant, PTL

-----------------------------------------------------------------------------
(* Logs: what filtering and replaying one gives. *)

\* A set of naturals that is not empty has a least element.
LEMMA LeastNat ==
    ASSUME NEW T \in SUBSET Nat, T # {}
    PROVE  \E n \in T : \A m \in T : n <= m
<1> DEFINE R == OpToRel(<,Nat)
<1>1. IsWellFoundedOn(R, Nat)
  BY NatLessThanWellFounded, Zenon
<1>2. \A x, y \in Nat : x < y => <<x,y>> \in R
  BY Zenon DEF OpToRel
<1> HIDE DEF R
<1>3. \E x \in T : \A y \in T : ~ (<<y, x>> \in R)
  BY <1>1, WFMin
<1>4. PICK x \in T : \A y \in T : ~ (<<y, x>> \in R)
  BY <1>3, Zenon
<1>5. \A y \in T : ~ (y < x)
  BY <1>2, <1>4, Zenon
<1>6. \A y \in T : x <= y
  BY <1>5, SMT
<1> QED BY <1>6, Zenon

\* Induction up to N, for a property given as the set of its numbers.
LEMMA SetInduction ==
    ASSUME NEW P \in SUBSET Nat, 0 \in P, NEW N \in Nat,
           \A n \in P : n < N => n + 1 \in P
    PROVE  0..N \subseteq P
<1>1. SUFFICES ASSUME (0..N) \ P # {} PROVE FALSE
  OBVIOUS
<1>2. PICK n \in (0..N) \ P : \A m \in (0..N) \ P : n <= m
  <2>1. (0..N) \ P \in SUBSET Nat
    OBVIOUS
  <2> HIDE <1>1
  <2> QED BY <1>1, <2>1, LeastNat, Zenon
<1>3. n # 0 /\ n - 1 \in 0..N /\ ~(n <= n - 1)
  BY <1>2
<1>4. n - 1 \in P
  BY <1>2, <1>3
<1> QED BY <1>2, <1>3, <1>4

\* The equation that defines the prefixes Filter builds, and its solutions up to n.
KeptStep(kept, log, wanted, i) ==
    IF i = 0 THEN <<>>
    ELSE IF log[i] \in wanted THEN Append(kept[i - 1], log[i])
    ELSE kept[i - 1]

IsKept(kept, log, wanted, n) ==
    kept = [i \in 0..n |-> KeptStep(kept, log, wanted, i)]

\* Filter is the last value of a solution of that equation.
LEMMA FilterIsKept ==
    ASSUME NEW log, NEW wanted
    PROVE  Filter(log, wanted) =
             (CHOOSE kept : IsKept(kept, log, wanted, Len(log)))[Len(log)]
  BY DEF Filter, IsKept, KeptStep

\* The equation has a solution: the recursion in Filter is well founded.
LEMMA KeptExists ==
    ASSUME NEW log, NEW wanted, NEW N \in Nat
    PROVE  \E kept : IsKept(kept, log, wanted, N)
<1> DEFINE P == {n \in Nat : \E kept : IsKept(kept, log, wanted, n)}
<1>1. 0 \in P
  <2> DEFINE k == [i \in 0..0 |-> <<>>]
  <2>1. k = [i \in 0..0 |-> KeptStep(k, log, wanted, i)]
    BY DEF KeptStep
  <2> QED BY <2>1 DEF IsKept
<1>2. ASSUME NEW n \in P PROVE n + 1 \in P
  <2>1. PICK k : IsKept(k, log, wanted, n)
    OBVIOUS
  <2> DEFINE l == [i \in 0..(n + 1) |-> KeptStep(k, log, wanted, i)]
  <2>2. \A i \in 0..n : l[i] = k[i]
    BY <2>1 DEF IsKept
  <2>3. ASSUME NEW i \in 0..(n + 1)
        PROVE  KeptStep(l, log, wanted, i) = KeptStep(k, log, wanted, i)
    <3> HIDE DEF l
    <3>1. i # 0 => l[i - 1] = k[i - 1]
      BY <2>2
    <3> QED BY <3>1 DEF KeptStep
  <2>4. l = [i \in 0..(n + 1) |-> KeptStep(l, log, wanted, i)]
    <3> HIDE DEF l
    <3>1. l = [i \in 0..(n + 1) |-> KeptStep(k, log, wanted, i)]
      BY DEF l
    <3> QED BY <3>1, <2>3
  <2> HIDE DEF l
  <2>5. IsKept(l, log, wanted, n + 1)
    BY <2>4 DEF IsKept
  <2>6. n + 1 \in Nat
    OBVIOUS
  <2> QED BY <2>5, <2>6
<1>3. P \in SUBSET Nat
  OBVIOUS
<1> HIDE DEF P
<1>4. 0..N \subseteq P
  BY <1>1, <1>2, <1>3, SetInduction
<1>5. N \in P
  BY <1>4
<1> QED BY <1>5 DEF P

\* g lists the places of the wanted ones among the first n entries of log, and
\* f holds these entries.
Selects(f, g, log, wanted, n) ==
    /\ g \in [1..Len(f) -> 1..n]
    /\ \A i \in 1..Len(f) : f[i] = log[g[i]] /\ log[g[i]] \in wanted
    /\ \A i, j \in 1..Len(f) : i < j => g[i] < g[j]
    /\ \A m \in 1..n : log[m] \in wanted => \E i \in 1..Len(f) : g[i] = m

\* Filter keeps exactly the wanted entries, in the order of the log (memory.py,
\* replay; observation_routes.py, _materialize_state).
LEMMA FilterSelects ==
    ASSUME NEW S, NEW log \in Seq(S), NEW wanted
    PROVE  /\ Filter(log, wanted) \in Seq(S)
           /\ \E g : Selects(Filter(log, wanted), g, log, wanted, Len(log))
<1> DEFINE N == Len(log)
           kept == CHOOSE k : IsKept(k, log, wanted, N)
           P == {n \in Nat : n <= N =>
                   /\ kept[n] \in Seq(S)
                   /\ \E g : Selects(kept[n], g, log, wanted, n)}
<1>0. N \in Nat
  OBVIOUS
<1>1. IsKept(kept, log, wanted, N)
  BY <1>0, KeptExists
<1> HIDE DEF kept
<1>2. \A i \in 0..N : kept[i] = KeptStep(kept, log, wanted, i)
  BY <1>1 DEF IsKept
<1>3. 0 \in P
  <2>1. kept[0] = <<>>
    BY <1>0, <1>2 DEF KeptStep
  <2>2. Selects(<<>>, [i \in 1..0 |-> 1], log, wanted, 0)
    BY DEF Selects
  <2>3. \E g : Selects(kept[0], g, log, wanted, 0)
    BY <2>1, <2>2, Zenon
  <2>4. kept[0] \in Seq(S)
    BY <2>1
  <2> QED BY <2>3, <2>4
<1>4. ASSUME NEW n \in P, n < N PROVE n + 1 \in P
  <2>1. n \in Nat /\ n + 1 \in 1..N /\ kept[n] \in Seq(S)
    BY <1>4, <1>0
  <2>2. PICK g : Selects(kept[n], g, log, wanted, n)
    BY <1>4, <1>0
  <2>3. kept[n + 1] = IF log[n + 1] \in wanted THEN Append(kept[n], log[n + 1])
                      ELSE kept[n]
    BY <1>2, <2>1 DEF KeptStep
  <2>4. log[n + 1] \in S
    BY <2>1
  <2>5. CASE log[n + 1] \notin wanted
    <3>1. Selects(kept[n], g, log, wanted, n + 1)
      BY <2>1, <2>2, <2>5 DEF Selects
    <3> QED BY <2>1, <2>3, <2>5, <3>1
  <2>6. CASE log[n + 1] \in wanted
    <3> DEFINE f == kept[n]
               f1 == Append(f, log[n + 1])
               h == [i \in 1..(Len(f) + 1) |-> IF i = Len(f) + 1 THEN n + 1 ELSE g[i]]
    <3>1. /\ f1 \in Seq(S)
          /\ Len(f1) = Len(f) + 1
          /\ Len(f) \in Nat
          /\ \A i \in 1..Len(f) : f1[i] = f[i]
          /\ f1[Len(f) + 1] = log[n + 1]
      BY <2>1, <2>4
    <3>2. /\ g \in [1..Len(f) -> 1..n]
          /\ \A i \in 1..Len(f) : f[i] = log[g[i]] /\ log[g[i]] \in wanted
          /\ \A i, j \in 1..Len(f) : i < j => g[i] < g[j]
          /\ \A m \in 1..n : log[m] \in wanted => \E i \in 1..Len(f) : g[i] = m
      BY <2>2 DEF Selects
    <3>3. /\ h \in [1..(Len(f) + 1) -> 1..(n + 1)]
          /\ \A i \in 1..Len(f) : h[i] = g[i] /\ g[i] \in 1..n
          /\ h[Len(f) + 1] = n + 1
      <4>1. n \in Nat /\ Len(f) \in Nat /\ g \in [1..Len(f) -> 1..n]
        BY <2>1, <3>1, <3>2
      <4> HIDE DEF f, f1
      <4>2. \A i \in 1..Len(f) : h[i] = g[i] /\ g[i] \in 1..n
        BY <4>1
      <4>3. h[Len(f) + 1] = n + 1
        BY <4>1
      <4>4. ASSUME NEW i \in 1..(Len(f) + 1) PROVE h[i] \in 1..(n + 1)
        <5> HIDE DEF h
        <5>1. CASE i = Len(f) + 1
          BY <4>1, <4>3, <5>1
        <5>2. CASE i \in 1..Len(f)
          BY <4>1, <4>2, <5>2
        <5> QED BY <4>1, <5>1, <5>2
      <4> QED BY <4>2, <4>3, <4>4
    <3> HIDE DEF h, f1, f
    <3>4. Selects(f1, h, log, wanted, n + 1)
      <4>1. \A i \in 1..Len(f1) : f1[i] = log[h[i]] /\ log[h[i]] \in wanted
        BY <2>6, <3>1, <3>2, <3>3
      <4>2. \A i, j \in 1..Len(f1) : i < j => h[i] < h[j]
        <5> SUFFICES ASSUME NEW i \in 1..Len(f1), NEW j \in 1..Len(f1), i < j
                     PROVE  h[i] < h[j]
          OBVIOUS
        <5>1. i \in 1..Len(f) /\ h[i] = g[i] /\ g[i] \in 1..n
          BY <3>1, <3>3
        <5>2. CASE j = Len(f) + 1
          BY <2>1, <3>3, <5>1, <5>2
        <5>3. CASE j \in 1..Len(f)
          BY <3>2, <3>3, <5>1, <5>3
        <5> QED BY <3>1, <5>2, <5>3
      <4>3. ASSUME NEW m \in 1..(n + 1), log[m] \in wanted
            PROVE  \E i \in 1..Len(f1) : h[i] = m
        <5>1. CASE m = n + 1
          BY <3>1, <3>3, <5>1
        <5>2. CASE m \in 1..n
          BY <3>1, <3>2, <3>3, <4>3, <5>2
        <5> QED BY <2>1, <5>1, <5>2
      <4> QED BY <3>1, <3>3, <4>1, <4>2, <4>3 DEF Selects
    <3>5. kept[n + 1] = f1
      BY <2>3, <2>6 DEF f1, f
    <3> QED BY <2>1, <3>1, <3>4, <3>5
  <2> QED BY <2>5, <2>6
<1>5. P \in SUBSET Nat
  OBVIOUS
<1> HIDE DEF P
<1>6. 0..N \subseteq P
  BY <1>0, <1>3, <1>4, <1>5, SetInduction
<1>7. N \in P
  BY <1>0, <1>6
<1>8. kept[N] = Filter(log, wanted)
  BY FilterIsKept DEF kept
<1> QED BY <1>0, <1>7, <1>8 DEF P

Ascending(q) == \A i, j \in 1..Len(q) : i < j => q[i].sequence < q[j].sequence

\* What filtering a log of envelopes gives: wanted entries of the log only, all
\* of them, and in ascending order if the log is.
LEMMA FilterFacts ==
    ASSUME NEW log \in Seq(Envelope), NEW wanted
    PROVE  /\ Filter(log, wanted) \in Seq(Envelope)
           /\ \A i \in 1..Len(Filter(log, wanted)) :
                /\ Filter(log, wanted)[i] \in wanted
                /\ \E n \in 1..Len(log) : log[n] = Filter(log, wanted)[i]
           /\ \A n \in 1..Len(log) : log[n] \in wanted =>
                \E i \in 1..Len(Filter(log, wanted)) : Filter(log, wanted)[i] = log[n]
           /\ Ascending(log) => Ascending(Filter(log, wanted))
<1> DEFINE f == Filter(log, wanted)
<1>1. f \in Seq(Envelope) /\ \E g : Selects(f, g, log, wanted, Len(log))
  BY FilterSelects
<1> HIDE DEF f
<1>2. PICK g : Selects(f, g, log, wanted, Len(log))
  BY <1>1
<1>3. /\ g \in [1..Len(f) -> 1..Len(log)]
      /\ \A i \in 1..Len(f) : f[i] = log[g[i]] /\ log[g[i]] \in wanted
      /\ \A i, j \in 1..Len(f) : i < j => g[i] < g[j]
      /\ \A m \in 1..Len(log) : log[m] \in wanted => \E i \in 1..Len(f) : g[i] = m
  BY <1>2 DEF Selects
<1>4. Ascending(log) => Ascending(f)
  BY <1>3 DEF Ascending
<1>5. \A i \in 1..Len(f) : f[i] \in wanted /\ \E n \in 1..Len(log) : log[n] = f[i]
  BY <1>3
<1>6. \A n \in 1..Len(log) : log[n] \in wanted => \E i \in 1..Len(f) : f[i] = log[n]
  BY <1>3
<1> QED BY <1>1, <1>4, <1>5, <1>6 DEF f

\* In an ascending log numbers grow at least as fast as places.
LEMMA AscendingSpaces ==
    ASSUME NEW log \in Seq(Envelope), Ascending(log),
           NEW i \in 1..Len(log), NEW j \in 1..Len(log), i <= j
    PROVE  log[j].sequence - log[i].sequence >= j - i
<1> DEFINE P == {n \in Nat : i + n <= Len(log) =>
                   log[i + n].sequence - log[i].sequence >= n}
<1>1. 0 \in P
  BY LoggedNumbers
<1>2. ASSUME NEW n \in P PROVE n + 1 \in P
  <2>1. SUFFICES ASSUME i + (n + 1) <= Len(log)
                 PROVE  log[i + (n + 1)].sequence - log[i].sequence >= n + 1
    BY <1>2
  <2>2. /\ i + n \in 1..Len(log)
        /\ i + (n + 1) \in 1..Len(log)
        /\ i + n < i + (n + 1)
    BY <2>1
  <2>3. log[i + n].sequence < log[i + (n + 1)].sequence
    BY <2>2 DEF Ascending
  <2>4. log[i + n].sequence - log[i].sequence >= n
    BY <1>2, <2>1
  <2>5. /\ log[i].sequence \in Int
        /\ log[i + n].sequence \in Int
        /\ log[i + (n + 1)].sequence \in Int
    BY <2>2, LoggedNumbers
  <2> QED BY <2>3, <2>4, <2>5
<1>3. P \in SUBSET Nat
  OBVIOUS
<1> HIDE DEF P
<1>4. j - i \in Nat
  OBVIOUS
<1>5. 0..(j - i) \subseteq P
  BY <1>1, <1>2, <1>3, <1>4, SetInduction
<1>6. j - i \in P
  BY <1>4, <1>5
<1>7. i + (j - i) = j
  OBVIOUS
<1> QED BY <1>6, <1>7 DEF P

\* What replay() can see: stored entries in ascending order, and every entry
\* above `after` as long as the window reaches back to it.
LEMMA RetainedFacts ==
    ASSUME DispatcherInv
    PROVE  /\ Retained \in Seq(Envelope)
           /\ Ascending(Retained)
           /\ \A i \in 1..Len(Retained) :
                \E n \in 1..Len(persisted) : persisted[n] = Retained[i]
           /\ \A after \in Int : Durable \/ counter - after <= ReplayWindow =>
                \A n \in 1..Len(persisted) : persisted[n].sequence > after =>
                  \E i \in 1..Len(Retained) : Retained[i] = persisted[n]
<1> USE WindowAssumption
<1>1. /\ persisted \in Seq(Envelope)
      /\ Len(persisted) \in Nat
      /\ counter \in Int
      /\ Ascending(persisted)
      /\ \A n \in 1..Len(persisted) :
           persisted[n].sequence \in Int /\ persisted[n].sequence <= counter
  BY LoggedNumbers DEF DispatcherInv, DispatcherTypeOK, Ascending,
     SequenceOrderIsPersistOrder
<1>2. CASE Durable \/ Len(persisted) <= ReplayWindow
  BY <1>1, <1>2 DEF Retained
<1>3. CASE ~(Durable \/ Len(persisted) <= ReplayWindow)
  <2> DEFINE k == Len(persisted) - ReplayWindow
  <2>1. k \in Nat /\ Len(persisted) = k + ReplayWindow
    BY <1>1, <1>3
  <2>2. Retained = SubSeq(persisted, k + 1, Len(persisted))
    BY <1>3 DEF Retained
  <2> HIDE DEF k
  <2>3. /\ Retained \in Seq(Envelope)
        /\ Len(Retained) = ReplayWindow
        /\ \A i \in 1..ReplayWindow : Retained[i] = persisted[k + i]
    BY <1>1, <2>1, <2>2
  <2>4. \A i \in 1..ReplayWindow : k + i \in 1..Len(persisted)
    BY <1>1, <2>1
  <2>5. Ascending(Retained)
    BY <1>1, <2>1, <2>3, <2>4 DEF Ascending
  <2>6. ASSUME NEW after \in Int, counter - after <= ReplayWindow,
               NEW n \in 1..Len(persisted), persisted[n].sequence > after
        PROVE  \E i \in 1..Len(Retained) : Retained[i] = persisted[n]
    <3>1. Len(persisted) \in 1..Len(persisted) /\ n <= Len(persisted)
      BY <1>1
    <3>2. persisted[Len(persisted)].sequence - persisted[n].sequence
            >= Len(persisted) - n
      BY <1>1, <3>1, AscendingSpaces
    <3>3. n > k
      BY <1>1, <2>1, <2>6, <3>1, <3>2
    <3>4. n - k \in 1..ReplayWindow /\ k + (n - k) = n
      BY <1>1, <2>1, <3>1, <3>3
    <3> QED BY <2>3, <3>4
  <2>7. \A i \in 1..Len(Retained) :
          \E n \in 1..Len(persisted) : persisted[n] = Retained[i]
    BY <2>3, <2>4
  <2> QED BY <1>3, <2>3, <2>5, <2>6, <2>7
<1> QED BY <1>2, <1>3

\* A replay holds stored envelopes above `after`, in ascending order; when the
\* window reaches back to `after`, it is empty only if nothing above `after` is
\* stored, and else begins with the least of them (memory.py and
\* sql_binding.py, replay).
LEMMA ReplayFacts ==
    ASSUME DispatcherInv, NEW after \in Int, NEW limit \in Nat \ {0}
    PROVE  /\ ReplayAfter(after, limit) \in Seq(Envelope)
           /\ Ascending(ReplayAfter(after, limit))
           /\ \A i \in 1..Len(ReplayAfter(after, limit)) :
                /\ ReplayAfter(after, limit)[i].sequence > after
                /\ \E n \in 1..Len(persisted) :
                     persisted[n] = ReplayAfter(after, limit)[i]
           /\ Durable \/ counter - after <= ReplayWindow =>
                \A n \in 1..Len(persisted) : persisted[n].sequence > after =>
                  /\ ReplayAfter(after, limit) # <<>>
                  /\ ReplayAfter(after, limit)[1].sequence <= persisted[n].sequence
<1> DEFINE wanted == {e \in Envelope : e.sequence > after}
           above == Filter(Retained, wanted)
           events == ReplayAfter(after, limit)
           m == IF Len(above) <= limit THEN Len(above) ELSE limit
<1>1. /\ Retained \in Seq(Envelope)
      /\ Ascending(Retained)
      /\ \A i \in 1..Len(Retained) :
           \E n \in 1..Len(persisted) : persisted[n] = Retained[i]
      /\ Durable \/ counter - after <= ReplayWindow =>
           \A n \in 1..Len(persisted) : persisted[n].sequence > after =>
             \E i \in 1..Len(Retained) : Retained[i] = persisted[n]
  BY RetainedFacts
<1>2. events = SubSeq(above, 1, m)
  BY DEF ReplayAfter
<1>3. /\ above \in Seq(Envelope)
      /\ \A i \in 1..Len(above) :
           /\ above[i] \in wanted
           /\ \E n \in 1..Len(Retained) : Retained[n] = above[i]
      /\ \A n \in 1..Len(Retained) : Retained[n] \in wanted =>
           \E i \in 1..Len(above) : above[i] = Retained[n]
      /\ Ascending(above)
  <2> HIDE DEF wanted
  <2> QED BY <1>1, FilterFacts
<1> HIDE DEF above, events
<1>4. /\ Len(above) \in Nat /\ m \in 0..Len(above)
      /\ Len(above) >= 1 => m >= 1
  BY <1>3
<1> HIDE DEF m
<1>5. /\ events \in Seq(Envelope)
      /\ Len(events) = m
      /\ \A i \in 1..m : events[i] = above[i] /\ i \in 1..Len(above)
  BY <1>2, <1>3, <1>4
<1>6. Ascending(events)
  BY <1>3, <1>5 DEF Ascending
<1>7. ASSUME NEW i \in 1..Len(events)
      PROVE  /\ events[i].sequence > after
             /\ \E n \in 1..Len(persisted) : persisted[n] = events[i]
  <2>1. i \in 1..Len(above) /\ events[i] = above[i]
    BY <1>5
  <2>2. above[i] \in wanted /\ \E n \in 1..Len(Retained) : Retained[n] = above[i]
    BY <1>3, <2>1
  <2>3. \E n \in 1..Len(persisted) : persisted[n] = above[i]
    BY <1>1, <2>2
  <2> QED BY <2>1, <2>2, <2>3
<1>8. ASSUME Durable \/ counter - after <= ReplayWindow,
             NEW n \in 1..Len(persisted), persisted[n].sequence > after
      PROVE  events # <<>> /\ events[1].sequence <= persisted[n].sequence
  <2>1. PICK i \in 1..Len(Retained) : Retained[i] = persisted[n]
    BY <1>1, <1>8
  <2>2. Retained[i] \in wanted
    BY <1>1, <1>8, <2>1
  <2>3. PICK j \in 1..Len(above) : above[j] = persisted[n]
    BY <1>3, <2>1, <2>2
  <2>4. 1 \in 1..m /\ 1 \in 1..Len(above)
    BY <1>4, <2>3
  <2>5. events[1] = above[1] /\ events # <<>>
    BY <1>5, <2>4
  <2>6. above[1].sequence \in Int /\ above[j].sequence \in Int
    BY <1>3, <2>3, <2>4, LoggedNumbers
  <2>7. above[1].sequence <= above[j].sequence
    <3>1. CASE j = 1
      BY <2>6, <3>1
    <3>2. CASE 1 < j
      BY <1>3, <2>4, <2>6, <3>2 DEF Ascending
    <3> QED BY <1>4, <3>1, <3>2
  <2> QED BY <2>3, <2>5, <2>7
<1> QED BY <1>5, <1>6, <1>7, <1>8 DEF events
=============================================================================
