------------------------------ MODULE MCReads ------------------------------
(* Instances of Reads: one or two accounts on small plans. *)
EXTENDS Reads, TLC

CONSTANTS anna, r1, r2, r3

LiteYear == [perCycle |-> 1, yearly |-> TRUE, unlimited |-> FALSE]
Ultimate == [perCycle |-> 0, yearly |-> FALSE, unlimited |-> TRUE]

OneHint == anna :> 1
OnLite == anna :> LiteYear

LiteOnly == {LiteYear}
LiteOrUltimate == {LiteYear, Ultimate}

FourDays == 1..4

AnyRequest == Permutations(Requests)
=============================================================================
