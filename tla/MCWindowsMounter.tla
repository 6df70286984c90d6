-------------------------- MODULE MCWindowsMounter --------------------------
EXTENDS WindowsMounter, TLC

Symmetry == Permutations(Disks) \cup Permutations(Numbers)
=============================================================================
