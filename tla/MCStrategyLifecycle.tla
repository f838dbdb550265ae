------------------------ MODULE MCStrategyLifecycle -------------------------
(***************************************************************************)
(* The strategy lifecycle for TLC: the wiring of workers to connections    *)
(* and duties that the cfgs of this module choose from.                    *)
(***************************************************************************)
EXTENDS StrategyLifecycleProps, TLC

CONSTANTS s1, s2, w1, w2, c1, c2

\* A request to replace s1 has the successor s2, and the other way round.
MCSuccessorOf == [r \in Request |-> IF r.strategy = s1 THEN s2 ELSE s1]

\* The outcomes an evaluation has: nothing is eligible that has not passed.
Outcomes == [passed: {TRUE}, eligible: BOOLEAN] \cup [passed: {FALSE}, eligible: {FALSE}]
AnyVerdict == [passed: BOOLEAN, eligible: BOOLEAN]
ClearVerdict == [passed: {TRUE}, eligible: {TRUE}]

OneConnection == [w \in Worker |-> c1]
OwnConnections == (w1 :> c1) @@ (w2 :> c2)

AllDuties == [w \in Worker |-> Operation]
StageDuties == [w \in Worker |-> {"sync", "admit", "assess", "replace"}]
ControlDuties == (w1 :> {"control"}) @@ (w2 :> {"feedback", "assess"})
ApiDuties == [w \in Worker |-> {"sync", "admit"}]
SplitDuties == (w1 :> {"sync", "admit"}) @@ (w2 :> Operation \ {"sync", "admit"})
=============================================================================
