----------------------------- MODULE MCCashBook -----------------------------
\* A drawer, a bank and a few requests, for TLC.
EXTENDS CashBook, TLC

Symmetry == Permutations(Tellers) \union Permutations(Closers)
=============================================================================
