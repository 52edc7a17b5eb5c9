------------------------- MODULE MCButtonLayoutPatch -------------------------
\* Small instances of ButtonLayoutPatch: two sites, on a page each or on one.
EXTENDS ButtonLayoutPatch

MCOwnPages == [s \in Sites |-> s]
MCOnePage == [s \in Sites |-> 1]
=============================================================================
