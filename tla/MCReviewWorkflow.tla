--------------------------- MODULE MCReviewWorkflow ---------------------------
(* ReviewWorkflow with at most two values and two definitions. *)
EXTENDS ReviewWorkflow, TLC

CONSTANTS v1, v2, d1, d2

\* The second definition is the stricter one.
TwoRegistries == d1 :> {v1, v2} @@ d2 :> {v1}

OneRegistry == d1 :> {v1}

Interchangeable == Permutations(Slot)
=============================================================================
