---------------------------- MODULE MCDeliveries ----------------------------
(* Instances of Deliveries: posts for one slug, with and without a date. *)
EXTENDS Deliveries, TLC

CONSTANTS news, later, ping, p1, a, c1, c2

Carries(kind, dated) == [kind |-> kind, slug |-> a, dated |-> dated]

AllPayloads ==
    news :> Carries("post", FALSE) @@ later :> Carries("post", TRUE)
    @@ ping :> Carries("other", FALSE)

SomePayloads == [d \in DeliveryIds |-> AllPayloads[d]]
=============================================================================
