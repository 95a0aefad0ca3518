------------------------- MODULE MCTelemetryIngest -------------------------
(* Instance of TelemetryIngest for TLC. *)
EXTENDS TelemetryIngest, TLC

Symmetry == Permutations(Events) \cup Permutations(Thresholds)
            \cup Permutations(Severities) \cup Permutations(Requests)

=============================================================================
