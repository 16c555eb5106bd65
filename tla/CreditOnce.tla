------------------------------ MODULE CreditOnce ------------------------------
(***************************************************************************)
(* What buying a top-up promises: an order is placed by a user, paid, and  *)
(* then its hints are added to that user's top-ups, once.  It may stay     *)
(* paid for ever, which is as much as grant_purchase can guarantee when a  *)
(* process dies between its two transactions.                              *)
(***************************************************************************)
EXTENDS Integers

CONSTANTS Txs, Users, None, Hints

VARIABLES
    order,    \* phase and buyer of each transaction
    topups    \* top-up hints ever added to each user

Init ==
    /\ order = [t \in Txs |-> [phase |-> "none", user |-> None]]
    /\ topups = [u \in Users |-> 0]

Place(t, u) ==
    /\ order[t].phase = "none"
    /\ order' = [order EXCEPT ![t] = [phase |-> "pending", user |-> u]]
    /\ UNCHANGED topups

Pay(t) ==
    /\ order[t].phase = "pending"
    /\ order' = [order EXCEPT ![t].phase = "completed"]
    /\ UNCHANGED topups

Credit(t) ==
    /\ order[t].phase = "completed"
    /\ order' = [order EXCEPT ![t].phase = "credited"]
    /\ topups' = [topups EXCEPT ![order[t].user] = @ + Hints[t]]

Next == \E t \in Txs : (\E u \in Users : Place(t, u)) \/ Pay(t) \/ Credit(t)

Spec == Init /\ [][Next]_<<order, topups>>
=============================================================================
