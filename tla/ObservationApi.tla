--------------------------- MODULE ObservationApi ---------------------------
(***************************************************************************)
(* The two HTTP reads through which a client catches up with a stream      *)
(* (app/api/observation_routes.py): GET /snapshot and GET /state.  Both    *)
(* read the store more than once, so emit() may run between the reads of   *)
(* one request when the store is the SQL one; the in-memory store never    *)
(* suspends the handler.                                                   *)
(*                                                                         *)
(* There is no server-side reducer: the state they answer with is a summary *)
(* of the log that names its last event.  The client starts from it as from *)
(* a first entry of its projection.                                        *)
(***************************************************************************)
EXTENDS EventDispatcher

CONSTANTS
    Slots,          \* places from which the client may have one request open
    ReplayLimit     \* the `limit` of GET /state

ASSUME ReplayLimitAssumption == ReplayLimit \in Nat \ {0}
\* The client asks for at most 1000 events and the deque keeps 10,000.
ASSUME ReplayFitsWindow == ReplayLimit <= ReplayWindow

VARIABLES
    req     \* req[s]: the request open in slot s, from its sending to its reply

apiVars == <<counter, persisted, lock, pc, env, net, req>>

NoRequest == [at |-> "none"]
SnapshotRequest == [at |-> "sent", kind |-> "snapshot", after |-> -1]
StateRequest(after) == [at |-> "sent", kind |-> "state", after |-> after]

\* Replies.  The client tells the two recoverable errors apart from all others.
Failure(outcome) == [at |-> "reply", outcome |-> outcome]
Success(sequence, state, events) ==
    [at |-> "reply", outcome |-> "ok", sequence |-> sequence,
     state |-> state, events |-> events]

Summary == [sequence : -1..MaxSequence, kind : {"summary"},
            last : Envelope \cup {NoEnvelope}]

\* _materialize_state(): the summary of the log up to `through` names that
\* number (consistentThrough) and the event stored under it, if replay() still
\* returns one.
Materialize(through) ==
    LET tail == ReplayAfter(through - 1, 1)
    IN  <<[sequence |-> through, kind |-> "summary",
           last |-> IF tail # <<>> /\ tail[1].sequence = through
                    THEN tail[1] ELSE NoEnvelope]>>

\* With the in-memory store no coroutine runs inside another's critical
\* section or between the two reads of a handler.
NoEmissionInside == Durable \/ \A t \in Tasks : pc[t] # "allocated"
NoReadInside == Durable \/ \A s \in Slots : req[s].at # "read"

\* First read of a handler: store.current().  An unknown stream and, for
\* /state, a gap wider than the limit are answered at once.
ReadCurrent(s) ==
    /\ req[s].at = "sent"
    /\ NoEmissionInside
    /\ req' = [req EXCEPT ![s] =
                IF Current < 0 THEN Failure("notFound")
                ELSE IF @.kind = "state" /\ Current - @.after > ReplayLimit
                THEN Failure("exhausted")
                ELSE [at |-> "read", kind |-> @.kind, after |-> @.after,
                      current |-> Current]]
    /\ UNCHANGED dispatcherVars

\* GET /snapshot, second read: the state as of the number read before.
AnswerSnapshot(s) ==
    /\ req[s].at = "read"
    /\ req[s].kind = "snapshot"
    /\ req' = [req EXCEPT ![s] =
                Success(@.current, Materialize(@.current), <<>>)]
    /\ UNCHANGED dispatcherVars

\* Mutation: the consistency point is always the number read first.
AnswerStateAtCurrent(s) ==
    /\ req[s].at = "read"
    /\ req[s].kind = "state"
    /\ req' = [req EXCEPT ![s] =
                Success(@.current, Materialize(@.current),
                        ReplayAfter(@.after, ReplayLimit))]
    /\ UNCHANGED dispatcherVars

\* GET /state, second read: the events after `after`, and as consistency point
\* the number before the first of them (or the number read first, if none).
\* The read of the summary is its third; no client looks at that summary.
AnswerState(s) ==
    /\ req[s].at = "read"
    /\ req[s].kind = "state"
    /\ LET events == ReplayAfter(req[s].after, ReplayLimit)
           consistentTo == IF events = <<>> THEN req[s].current
                           ELSE events[1].sequence - 1
       IN  req' = [req EXCEPT ![s] =
                    Success(consistentTo, Materialize(consistentTo), events)]
    /\ UNCHANGED dispatcherVars

\* The request is lost, times out, or ends in any other error response.
RequestFails(s) ==
    /\ req[s].at \in {"sent", "read"}
    /\ req' = [req EXCEPT ![s] = Failure("error")]
    /\ UNCHANGED dispatcherVars

Serve(s) == ReadCurrent(s) \/ AnswerSnapshot(s) \/ AnswerState(s)

\* The emissions, as they interleave with the handlers.
EmitStep ==
    /\ \/ NoReadInside /\ \E t \in Tasks, k \in Kinds : Allocate(t, k)
       \/ \E t \in Tasks : Persist(t)
       \/ \E t \in Tasks : EmitFails(t)
    /\ UNCHANGED req
=============================================================================
