------------------------------ MODULE MCLauncher ------------------------------
\* A small instance of Launcher: two commands, each possibly relaunched.
EXTENDS Launcher, TLC

CommandSymmetry == Permutations(Commands)
=============================================================================
