-------------------------- MODULE MCPlannerService --------------------------
(* Small instances of PlannerService.                                      *)
EXTENDS PlannerService, TLC

CONSTANTS r1, r2, n1, n2, d1, d2, t1, t2, k1, k2

\* Two decisions, and then a decision and its retry.
TwoKeyings ==
    {r1 :> k1 @@ n1 :> k1 @@ n2 :> k2 @@ d1 :> k1 @@ d2 :> k2,
     r1 :> k1 @@ n1 :> k1 @@ n2 :> k1 @@ d1 :> k1 @@ d2 :> k1}

\* The first replan may get the tasks in another order and a slot without a
\* task, or two slots for one task; the others use the own generator.
AISlots == r1 :> {} @@ n1 :> {<<t2, t1, None>>, <<t1, t2, t1>>} @@ n2 :> {<<>>}
OwnSlots == <<t1, t2>>
=============================================================================
