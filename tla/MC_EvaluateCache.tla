-------------------------- MODULE MC_EvaluateCache --------------------------
(* EvaluateCache on a small instance: every constant is given in the cfg.    *)
EXTENDS EvaluateCache
=============================================================================
