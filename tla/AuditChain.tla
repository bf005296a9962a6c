----------------------------- MODULE AuditChain -----------------------------
(***************************************************************************)
(* The signed, hash-chained audit tables of the control plane              *)
(* (core/governance/audit.py) and the append that three stores share:      *)
(* SELECT the last row of the scope, sign the next record, INSERT it.      *)
(* pysqlite opens the transaction at the first INSERT, so the SELECT and   *)
(* the INSERT are separate steps between which other processes append;     *)
(* UNIQUE(scope, sequence) then rejects the INSERT.                        *)
(*                                                                         *)
(* A table is a set of rows.  A record hash is an injective function of    *)
(* the event and the previous hash: it is written as the sequence of       *)
(* events it covers.                                                       *)
(***************************************************************************)
EXTENDS Integers, Sequences

Genesis == <<>>

\* What the SELECT returns, as the place of the next record.
NoLink == [seq |-> 0, prev |-> Genesis]

IsLast(rows, r) == r \in rows /\ \A q \in rows : q.seq <= r.seq

\* Mutation: the first number of a scope is 0.
LinksFromZero(rows) ==
    IF rows = {}
    THEN {[seq |-> 0, prev |-> Genesis]}
    ELSE {[seq |-> r.seq + 1, prev |-> r.hash] : r \in {q \in rows : IsLast(rows, q)}}

\* ORDER BY sequence DESC LIMIT 1; a single link when rows verify.
Links(rows) ==
    IF rows = {}
    THEN {[seq |-> 1, prev |-> Genesis]}
    ELSE {[seq |-> r.seq + 1, prev |-> r.hash] : r \in {q \in rows : IsLast(rows, q)}}

Signed(link, event) ==
    [seq |-> link.seq, prev |-> link.prev, event |-> event,
     hash |-> Append(link.prev, event)]

\* Mutation: the table has no UNIQUE(scope, sequence).
AlwaysFits(rows, link) == TRUE

\* UNIQUE(scope, sequence)
Fits(rows, link) == \A r \in rows : r.seq # link.seq

\* verify_chain(): numbers without gap or repetition, each record signed
\* over its predecessor's hash.
Verifies(rows) ==
    /\ \A r \in rows : \A q \in rows : r.seq = q.seq => r = q
    /\ \A r \in rows :
        /\ r.hash = Append(r.prev, r.event)
        /\ \/ r.seq = 1 /\ r.prev = Genesis
           \/ \E q \in rows : r.seq = q.seq + 1 /\ r.prev = q.hash
=============================================================================
