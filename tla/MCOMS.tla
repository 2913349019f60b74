------------------------------- MODULE MCOMS -------------------------------
EXTENDS OMS, TLC
Symmetry == Permutations(Order)
=============================================================================
