------------------------------ MODULE MCStored ------------------------------
(* What the server stores, for TLC, in two parts, one of which takes steps in *)
(* a behaviour: the rows of a sheet, and the table of projects, with two      *)
(* transactions at once, over two identities and three projects.              *)
EXTENDS Sheet, ProjectRows, TLC

VARIABLE part

ASSUME RowConstants == ConstantsFit

Interchangeable == Permutations(Layer) \union Permutations(Value)
                   \union Permutations(Identity) \union Permutations(Slot)

StoredInit == part \in {"sheet", "rows"} /\ Init /\ RowsInit
StoredNext == \/ part = "sheet" /\ Next /\ UNCHANGED <<part, rowVars>>
              \/ part = "rows" /\ RowsNext /\ UNCHANGED <<part, vars>>
StoredSpec == StoredInit /\ [][StoredNext]_<<part, vars, rowVars>>
=============================================================================
