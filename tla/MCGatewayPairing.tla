-------------------------- MODULE MCGatewayPairing --------------------------
(* Instance of GatewayPairing for TLC. *)
EXTENDS GatewayPairing, TLC

Symmetry == Permutations(Gateways) \cup Permutations(References)
            \cup Permutations(Sessions) \cup Permutations(Codes)

=============================================================================
