------------------------------ MODULE MCRefunds ------------------------------
\* One booking and its money, for TLC.
EXTENDS Refunds, TLC

Symmetry == Permutations(Staff) \union Permutations(Hooks)
=============================================================================
