----------------------------- MODULE MCDelivery -----------------------------
(* Instantiates Delivery with one gateway of environment prod.  Gateways   *)
(* meet only in Studio's log.                                              *)
EXTENDS Delivery

CONSTANTS prod, g1

ProdGateway == [g \in {g1} |-> prod]

=============================================================================
