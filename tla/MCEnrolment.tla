---------------------------- MODULE MCEnrolment -----------------------------
\* Instances of Enrolment for TLC: one team, led by Leader.
EXTENDS Enrolment, TLC

CONSTANTS Leader, Pairs  \* a user; the competitions of Team for exactly two

MCleader == [t \in TeamIds |-> Leader]

MCmin == [c \in Team |-> IF c \in Pairs THEN 2 ELSE 1]

MCmax == [c \in Team |-> IF c \in Pairs THEN 2 ELSE 3]

\* The other users, the competitions of a kind and requests are interchangeable.
Symmetry ==
  Permutations(Users \ {Leader}) \cup Permutations(Individual) \cup Permutations(Pairs)
    \cup Permutations(Team \ Pairs) \cup Permutations(Requests)
=============================================================================
