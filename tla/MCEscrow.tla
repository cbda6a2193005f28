------------------------------ MODULE MCEscrow ------------------------------
(* Instances of Escrow, EscrowMoney and EscrowRefinement for TLC. *)
EXTENDS EscrowMoney, EscrowRefinement, TLC

Symmetry == Permutations(ReleaseIds) \cup Permutations(RefundIds)
            \cup Permutations(EventIds)
=============================================================================
