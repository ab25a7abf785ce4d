----------------------------- MODULE MCDelivery -----------------------------
(***************************************************************************)
(* A cluster's follower: the fleet feed over two agents, a writer each.    *)
(***************************************************************************)
EXTENDS Delivery

CONSTANTS ka, kb

OneEach == {[store |-> "postgres", from |-> "start", rows |-> [k \in Keys |-> 1], writers |-> 1,
             prunes |-> 0, faults |-> 0, resumes |-> 0, who |-> "feed"]}

DeliverySpec == DeliveryInit /\ [][DeliveryNext]_deliveryVars

=============================================================================
