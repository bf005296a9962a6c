-------------------------- MODULE AuditChainProofs --------------------------
(* What the appends of AuditChain preserve, for every set of events. *)
EXTENDS AuditChain, TLAPS

LinkSet(E) == [seq : Nat, prev : Seq(E)]
RowSet(E) == [seq : Nat, prev : Seq(E), event : E, hash : Seq(E)]

\* A link that some earlier SELECT returned: it continues one of the rows.
Continues(rows, link) ==
    \/ link.seq = 1 /\ link.prev = Genesis
    \/ \E q \in rows : link.seq = q.seq + 1 /\ link.prev = q.hash

\* The SELECT returns a link of the right type that continues the rows.
LEMMA LinksContinue ==
    ASSUME NEW E, NEW rows \in SUBSET RowSet(E), NEW link \in Links(rows)
    PROVE  link \in LinkSet(E) /\ Continues(rows, link)
<1>1. CASE rows = {}
  <2>1. link = [seq |-> 1, prev |-> Genesis]
    BY <1>1 DEF Links
  <2>2. Genesis \in Seq(E)
    BY DEF Genesis
  <2>3. link.seq = 1 /\ link.prev = Genesis
    BY <2>1
  <2>4. link \in LinkSet(E)
    BY <2>1, <2>2 DEF LinkSet
  <2> QED BY <2>3, <2>4 DEF Continues
<1>2. CASE rows # {}
  <2>1. PICK r \in rows : link = [seq |-> r.seq + 1, prev |-> r.hash]
    BY <1>2 DEF Links, IsLast
  <2>2. r \in RowSet(E)
    OBVIOUS
  <2>3. link.seq = r.seq + 1 /\ link.prev = r.hash
    BY <2>1
  <2>4. link \in LinkSet(E)
    BY <2>1, <2>2 DEF LinkSet, RowSet
  <2> QED BY <2>3, <2>4 DEF Continues
<1> QED BY <1>1, <1>2

\* A link keeps continuing a table that grows.
LEMMA ContinuesGrows ==
    ASSUME NEW rows, NEW more, rows \subseteq more, NEW link, Continues(rows, link)
    PROVE  Continues(more, link)
BY DEF Continues

\* sign() returns a row.
LEMMA SignedIsRow ==
    ASSUME NEW E, NEW link \in LinkSet(E), NEW event \in E
    PROVE  /\ Signed(link, event) \in RowSet(E)
           /\ Signed(link, event).seq = link.seq
           /\ Signed(link, event).prev = link.prev
           /\ Signed(link, event).event = event
           /\ Signed(link, event).hash = Append(link.prev, event)
BY DEF Signed, LinkSet, RowSet

\* The INSERT of a signed record under UNIQUE(scope, sequence) keeps a chain
\* that verify_chain() accepts, however old the link is.
LEMMA AppendVerifies ==
    ASSUME NEW E, NEW rows \in SUBSET RowSet(E), Verifies(rows),
           NEW link \in LinkSet(E), Continues(rows, link), Fits(rows, link),
           NEW event \in E
    PROVE  /\ Verifies(rows \cup {Signed(link, event)})
           /\ rows \cup {Signed(link, event)} \in SUBSET RowSet(E)
<1> DEFINE new == Signed(link, event)
           more == rows \cup {new}
<1>1. /\ new \in RowSet(E) /\ new.seq = link.seq /\ new.prev = link.prev
      /\ new.hash = Append(new.prev, new.event)
  BY SignedIsRow
<1> HIDE DEF new
<1>2. ASSUME NEW r \in more, NEW q \in more, r.seq = q.seq PROVE r = q
  BY <1>1, <1>2 DEF Verifies, Fits
<1>3. ASSUME NEW r \in more
      PROVE  /\ r.hash = Append(r.prev, r.event)
             /\ \/ r.seq = 1 /\ r.prev = Genesis
                \/ \E q \in more : r.seq = q.seq + 1 /\ r.prev = q.hash
  <2>1. CASE r \in rows
    BY <2>1 DEF Verifies
  <2>2. CASE r = new
    BY <2>2, <1>1 DEF Continues
  <2> QED BY <2>1, <2>2
<1>4. Verifies(more)
  BY <1>2, <1>3 DEF Verifies
<1> QED BY <1>1, <1>4 DEF new
=============================================================================
