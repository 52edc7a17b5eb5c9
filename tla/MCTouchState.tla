---------------------------- MODULE MCTouchState ----------------------------
\* Small instances of TouchState: three keys compete for two places, two
\* positions tell Moved from Stationary, and four downs reuse keys and places.
EXTENDS TouchState, TLC

KeySymmetry == Permutations(Keys) \cup Permutations(Positions)
=============================================================================
