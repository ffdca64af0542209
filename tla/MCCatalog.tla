------------------------------ MODULE MCCatalog ------------------------------
(* Catalog with three files: f and g under the root (g collides with f when    *)
(* case is folded), h in a sub-directory.  Requests are interchangeable.       *)
EXTENDS Catalog, TLC

MCIn == [p \in Path |-> IF p = "h" THEN "sub" ELSE Root]
MCNorm == [p \in Path |-> IF p = "g" THEN "f" ELSE p]
MCFirst == [p \in File |-> "s1"]

Symmetry == Permutations(Request)
=============================================================================
