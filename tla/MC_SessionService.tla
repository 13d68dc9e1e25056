-------------------------- MODULE MC_SessionService --------------------------
(* Small instances of SessionService for TLC. *)
EXTENDS SessionService, TLC

\* Workers, session ids and users are interchangeable.
Symmetry == Permutations(Worker) \cup Permutations(Sid) \cup Permutations(User)
=============================================================================
