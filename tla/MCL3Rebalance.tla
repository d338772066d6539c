---------------------------- MODULE MCL3Rebalance ----------------------------
(* Symmetry for the runs of L3Rebalance.                                    *)
EXTENDS L3Rebalance, TLC

Symmetry == Permutations(Agent) \cup Permutations(Router)
==============================================================================
