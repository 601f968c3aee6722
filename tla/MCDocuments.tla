---------------------------- MODULE MCDocuments ----------------------------
\* Two small ranges and two subjects, for TLC.
EXTENDS Documents, TLC

CONSTANTS s1, s2

FromOne == [s \in Series |-> 1]
\* The second range is a form booklet whose first number was used elsewhere.
StartAt == (s1 :> 1) @@ (s2 :> 2)
LastAt == (s1 :> 2) @@ (s2 :> 2)

Symmetry == Permutations(Subjects) \union Permutations(Issuers) \union Permutations(Cancellers)
=============================================================================
