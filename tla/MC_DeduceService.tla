-------------------------- MODULE MC_DeduceService --------------------------
(* Small instances of DeduceService for TLC. *)
EXTENDS DeduceService, TLC

\* Deductions are interchangeable: sound where only safety is checked.
Symmetry == Permutations(Ded)
=============================================================================
