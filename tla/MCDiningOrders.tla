--------------------------- MODULE MCDiningOrders ---------------------------
\* Small kitchens and tills, for TLC.
EXTENDS DiningOrders, TLC

Symmetry ==
    Permutations(Movements) \union Permutations(Charges)
        \union Permutations(Stations)
=============================================================================
