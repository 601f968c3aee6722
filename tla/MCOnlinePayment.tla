-------------------------- MODULE MCOnlinePayment --------------------------
(* Small instances of OnlinePayment.  Lines and sessions are interchangeable. *)
EXTENDS OnlinePayment, TLC

Symmetry == Permutations(Sessions) \cup Permutations(Lines) \cup Permutations(Clerks)
=============================================================================
