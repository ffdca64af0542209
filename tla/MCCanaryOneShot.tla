--------------------------- MODULE MCCanaryOneShot ---------------------------
(* CanaryOneShot on small sets of rows.  Permits, windows, claims and          *)
(* identities are interchangeable, so the safety runs use symmetry.            *)
EXTENDS CanaryOneShot, TLC

Symmetry == Permutations(Permit) \cup Permutations(Window)
            \cup Permutations(Claim) \cup Permutations(Binding)
=============================================================================
