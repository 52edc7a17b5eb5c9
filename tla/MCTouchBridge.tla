---------------------------- MODULE MCTouchBridge ----------------------------
\* Small instances of TouchBridge.
EXTENDS TouchBridge, TLC

MCKeys == Sources \X Ids

Symmetry == Permutations(Ids)
=============================================================================
