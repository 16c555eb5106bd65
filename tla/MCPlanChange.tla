---------------------------- MODULE MCPlanChange ----------------------------
(* One subscriber; two tiers, one of them also monthly, and Ultimate unpriced. *)
EXTENDS PlanChange, TLC

CONSTANTS anna, r1, r2, c1, c2

Lite == [perCycle |-> 2, yearly |-> TRUE, unlimited |-> FALSE]
Plus == [perCycle |-> 3, yearly |-> TRUE, unlimited |-> FALSE]
LiteMonth == [perCycle |-> 2, yearly |-> FALSE, unlimited |-> FALSE]
Ultimate == [perCycle |-> 0, yearly |-> FALSE, unlimited |-> TRUE]

NoFreeHint == anna :> 0
OnLite == anna :> Lite
OnPlus == anna :> Plus
AllPlans == {Lite, LiteMonth, Plus, Ultimate}
TokenPlans == {Lite, LiteMonth, Plus}
ThreeDays == 1..3

AnyCall == Permutations(Requests) \cup Permutations(Changes)
=============================================================================
