----------------------------- MODULE MCSpawner -----------------------------
(* Model values for Spawner: two categories with an asset, one without.    *)
EXTENDS Spawner

CONSTANTS tree, rock, ghost

MCCats      == {tree, rock, ghost}
MCNoPath    == {ghost}
=============================================================================
