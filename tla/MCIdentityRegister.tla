-------------------------- MODULE MCIdentityRegister --------------------------
(* Symmetry for the runs of IdentityRegister: hosts are interchangeable.    *)
EXTENDS IdentityRegister, TLC

Symmetry == Permutations(Node)
==============================================================================
