---------------------------- MODULE MCDeliveries ----------------------------
(* Deliveries on a small instance.  The messages are alike until their shapes
   are chosen, so the run without a liveness property uses their symmetry. *)
EXTENDS Deliveries, TLC

Symmetry == Permutations(Messages)
=============================================================================
