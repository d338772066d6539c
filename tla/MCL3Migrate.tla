----------------------------- MODULE MCL3Migrate -----------------------------
(* Symmetry for the safety runs of L3Migrate: agents, routers and instances *)
(* are interchangeable.                                                     *)
EXTENDS L3Migrate, TLC

Symmetry == Permutations(Agent) \cup Permutations(Router) \cup Permutations(Tool)
==============================================================================
