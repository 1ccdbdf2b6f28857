--------------------------- MODULE MCCatalogStore ---------------------------
(* CatalogStore with one version, two days and two administrators.         *)
EXTENDS CatalogStore, TLC

MCContentHash == [content \in Contents |-> IF content = "unfinished" THEN None ELSE content]

MCSchedules == {[from |-> 1, through |-> 2]}

Claim(a, from, through, state) == [assignment |-> a, from |-> from, through |-> through, state |-> state]

MCClaims == {Claim(1, 1, 1, "supported"), Claim(1, 2, 2, "supported")}

MCStatuses == {[template |-> "draft", program |-> "active"],
               [template |-> "active", program |-> "active"],
               [template |-> "closed", program |-> "active"],
               [template |-> "active", program |-> "closed"]}

MCSymmetry == Permutations(Sessions)

=============================================================================
