------------------------------ MODULE MCAutosave ------------------------------
(* Autosave with two interchangeable cells. *)
EXTENDS Autosave, TLC

Interchangeable == Permutations(Cell)

-----------------------------------------------------------------------------
(* Unsaved edits are stored, discarded or reported, and an explicit validation*)
(* gets past the barrier or is told that it cannot.                           *)
WorkComesToAnEnd == UnsavedWorkIsResolved /\ BarrierEnds
=============================================================================
