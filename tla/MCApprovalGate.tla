---------------------------- MODULE MCApprovalGate ----------------------------
(* ApprovalGate with two requests and two clicks for each.                     *)
EXTENDS ApprovalGate
=============================================================================
