---------------------------- MODULE MCRelocation ----------------------------
\* Relocation on a small set of volumes, which the operator treats alike.
EXTENDS Relocation, TLC

Symmetry == Permutations(Volumes)
==============================================================================
