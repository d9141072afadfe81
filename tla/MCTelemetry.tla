---------------------------- MODULE MCTelemetry ----------------------------
(* Instance of Telemetry for TLC: the handlers are interchangeable.        *)
EXTENDS Telemetry, TLC

CONSTANTS r1, r2

MCRequests == {r1, r2}
HandlerSymmetry == Permutations(MCRequests)
=============================================================================
