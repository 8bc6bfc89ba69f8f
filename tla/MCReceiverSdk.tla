-------------------------- MODULE MCReceiverSdk --------------------------
(* ReceiverSdk on small sets; threads and materials are interchangeable. *)
EXTENDS ReceiverSdk, TLC
Symmetry == Permutations(Threads) \cup Permutations(Materials)
==========================================================================
