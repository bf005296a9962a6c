---------------------------- MODULE MCGovernance ----------------------------
(* Small instance of Governance for TLC: two transitions, one gate on each. *)
EXTENDS Governance, TLC

CONSTANTS m1, m2, g1, g2

MCWeight == [m \in {m1, m2, Executive} |-> IF m = Executive THEN 0 ELSE 1]
MCGuards == [g \in {g1, g2} |-> IF g = g1 THEN {0} ELSE {}]

Decision(from, to, verdict, authorizes, by) ==
    [type |-> "decision", from |-> from, to |-> to, verdict |-> verdict,
     authorizes |-> authorizes, by |-> by]

\* Both steps, one that skips a state, one that only some council can take,
\* and one that authorizes nothing.
MCDecisions ==
    {Decision(0, 1, "approve", TRUE, <<m1>>),
     Decision(1, 2, "approve", TRUE, <<m1>>),
     Decision(0, 2, "approve", TRUE, <<m1>>),
     Decision(0, 1, "reject", FALSE, <<m2>>)}
MCGateEvaluations ==
    {[type |-> "gate", gate |-> g1, status |-> "passed"],
     [type |-> "gate", gate |-> g2, status |-> "waived"],
     [type |-> "gate", gate |-> g1, status |-> "failed"]}
MCCertifications == {[type |-> "granted", cert |-> "cert"], [type |-> "revoked", cert |-> "cert"]}
MCRegistryCommands ==
    {[type |-> "council", members |-> {m2}],
     [type |-> "register", gate |-> g2, guards |-> {1}],
     [type |-> "policy", policy |-> "policy"]}

\* Processes are interchangeable.
WorkerSymmetry == Permutations(Workers)
=============================================================================
