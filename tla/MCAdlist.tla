------------------------------ MODULE MCAdlist ------------------------------
EXTENDS Adlist, TLC
Symmetry == Permutations(Node) \cup Permutations(Value)
=============================================================================
