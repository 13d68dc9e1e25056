-------------------------- MODULE MC_RitualService ---------------------------
(* Small instances of RitualService for TLC. *)
EXTENDS RitualService, TLC

\* Ids, keys and deductions are interchangeable.
Symmetry == Permutations(Ritual) \cup Permutations(Key)
            \cup Permutations(Performance) \cup Permutations(Deduction)
=============================================================================
