--------------------------- MODULE MCSealedContract ---------------------------
(* SealedContract on a few requests, distros and binaries, interchangeable     *)
(* within their set.                                                           *)
EXTENDS SealedContract, TLC

Symmetry == Permutations(Call) \cup Permutations(Inspection) \cup Permutations(Distro)
            \cup Permutations(Tool) \cup Permutations(Binary)
=============================================================================
