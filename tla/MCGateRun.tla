------------------------------- MODULE MCGateRun -------------------------------
(* GateRun with a few plans and calls, which are interchangeable.              *)
EXTENDS GateRun, TLC

Symmetry == Permutations(Plan) \cup Permutations(Call)
=============================================================================
