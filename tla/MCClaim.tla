------------------------------ MODULE MCClaim ------------------------------
(* Instances of Claim: one or two anonymous accounts and their claimants. *)
EXTENDS Claim, TLC

CONSTANTS anna, boris, carla, s1, s2, c1, c2

OneHint == [u \in Users |-> IF u = anna THEN 1 ELSE 0]
\* s1 is a token plan, s2 Ultimate.
OnePerCycle == [s \in Subs |-> IF s = s1 THEN 1 ELSE 0]
\* The anonymous uid sorts between those of the two permanent accounts.
ByName == [u \in Users |-> IF u = anna THEN 2 ELSE IF u = boris THEN 1 ELSE 3]
NobodyPays == [u \in Users |-> None]
CarlaPays == [u \in Users |-> IF u = carla THEN s2 ELSE None]
NoRevival == [s \in Subs |-> 0]
LateUltimate == [s \in Subs |-> IF s = s2 THEN 1 ELSE 0]
AnyClaim == Permutations(Claims)
=============================================================================
