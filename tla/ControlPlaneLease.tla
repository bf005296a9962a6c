-------------------------- MODULE ControlPlaneLease --------------------------
(***************************************************************************)
(* The single row of control_plane_lease (storage/lease.py).  Every        *)
(* function is one BEGIN IMMEDIATE transaction.  An owner's token is       *)
(* written as the owner.  No caller asks for a stale takeover, so a row    *)
(* makes every acquisition fail, expired or not.  Every function raises    *)
(* when the database stays locked, and then leaves the row as it was.      *)
(***************************************************************************)
EXTENDS Integers

CONSTANTS
    NoOwner,        \* no lease token
    LeaseTime       \* LEASE_SECONDS

ASSUME LeaseAssumption == LeaseTime \in Nat \ {0}

VARIABLE
    lease           \* the row's owner and the time until expires_at; history:
                    \* `stuck`, its owner's DELETE has raised

Free == [owner |-> NoOwner, left |-> 0, stuck |-> FALSE]
Held(o) == [owner |-> o, left |-> LeaseTime, stuck |-> FALSE]
LeaseInit == lease = Free

\* Mutation: an acquisition takes over a lease that has expired.
AcquireStale(o) ==
    /\ lease.left = 0
    /\ lease' = Held(o)

\* acquire_control_plane_lease()
Acquire(o) ==
    /\ lease.owner = NoOwner
    /\ lease' = Held(o)

\* ... which raises ControlPlaneBusy while there is a row, or finds the database
\* locked.
AcquireFails == UNCHANGED lease

\* heartbeat_control_plane_lease(): renews an expired lease too.
Heartbeat(token) ==
    /\ token # NoOwner /\ lease.owner = token
    /\ lease' = [lease EXCEPT !.left = LeaseTime]

\* ... which raises when the token owns no lease.
OwnershipLost(token) ==
    (token = NoOwner \/ lease.owner # token) /\ UNCHANGED lease

\* release_control_plane_lease(): the row is deleted, or the DELETE raises in its
\* caller's finally clause and the row stays.
Release(o) ==
    \/ lease' = IF lease.owner = o THEN Free ELSE lease
    \/ lease' = [lease EXCEPT !.stuck = @ \/ lease.owner = o]

\* lease_is_live()
LeaseLive == lease.left > 0

\* A unit of time passes.
LeaseTick == LeaseLive /\ lease' = [lease EXCEPT !.left = @ - 1]
=============================================================================
