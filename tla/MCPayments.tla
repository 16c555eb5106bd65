----------------------------- MODULE MCPayments -----------------------------
(* Instances of Payments: one or two buyers, a pack and one or two plans. *)
EXTENDS Payments, TLC

CONSTANTS anna, boris, t1, t2, s1, s2, paid, paidAgain, activated, updated, canceled, empty, c1, c2

Event(type, subject) == [type |-> type, subject |-> subject, user |-> anna]

AllEvents ==
    paid :> Event("transaction.completed", t1)
    @@ paidAgain :> Event("transaction.completed", t1)
    @@ activated :> Event("subscription.activated", s1)
    @@ updated :> Event("subscription.updated", s2)
    @@ canceled :> Event("subscription.canceled", s1)
    @@ empty :> Event("transaction.completed", None)

SomeEvents == [e \in Events |-> AllEvents[e]]

Pack == [t \in Txs |-> 1]
Plan == [s \in Subs |-> IF s = s1 THEN 1 ELSE 2]
NoSignupHints == [u \in Users |-> 0]
AnyCall == Permutations(Calls)
=============================================================================
