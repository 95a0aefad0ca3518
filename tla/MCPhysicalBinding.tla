-------------------------- MODULE MCPhysicalBinding --------------------------
(* Instance of PhysicalBinding for TLC. *)
EXTENDS PhysicalBinding, TLC

Symmetry == Permutations(Slots) \cup Permutations(Uids)
            \cup Permutations(Events) \cup Permutations(Requests)

=============================================================================
