-------------------------- MODULE MemoryDeliveryMC --------------------------
(* Small instances of MemoryDelivery for TLC.                              *)
EXTENDS MemoryDelivery, TLC

CONSTANTS d1, d2, b1, w1, w2

OneBank == [d \in Deliveries |-> b1]
ThreeTokens == 1..3
Symmetry == Permutations(Workers)

=============================================================================
