----------------------------- MODULE MCSetupWave -----------------------------
(* Values for model checking SetupWave.                                     *)
EXTENDS SetupWave, TLC

Symmetry == Permutations(Host)
==============================================================================
