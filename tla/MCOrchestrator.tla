--------------------------- MODULE MCOrchestrator ---------------------------
(* Model values for Orchestrator: two ids, so that a cancel may name a      *)
(* generation that is not the current one.                                  *)
EXTENDS Orchestrator

MCGenIds == {"a", "b"}
=============================================================================
