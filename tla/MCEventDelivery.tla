-------------------------- MODULE MCEventDelivery ---------------------------
(***************************************************************************)
(* A small instance of EventDelivery for TLC.                              *)
(***************************************************************************)
EXTENDS EventDelivery

\* One socket, at any gateway: the gateways are interchangeable.
Home == [s \in Sockets |-> CHOOSE g \in Gateways : TRUE]

=============================================================================
