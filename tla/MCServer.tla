------------------------------ MODULE MCServer ------------------------------
(* Model values for Server.  One id is enough: that a cancel may name       *)
(* another generation than the one in flight is checked in Orchestrator.    *)
EXTENDS Server

MCGenIds == {"a"}
=============================================================================
