---------------------------- MODULE MCPVCHandover ----------------------------
\* PVCHandover on a small set of volumes, which the operator treats alike.
EXTENDS PVCHandover, TLC

Symmetry == Permutations(Volumes)
==============================================================================
