------------------------------ MODULE MCTeams -------------------------------
\* Instances of Teams for TLC.
EXTENDS Teams, TLC

CONSTANTS Far  \* users of another institution

\* users.institution: two institutions, nobody without one.
MCInstitution == [u \in Users |-> IF u \in Far THEN "far" ELSE "near"]

\* Ids, names, requests and users of the same institution are interchangeable.
Symmetry ==
  Permutations(Users \ Far) \cup Permutations(TeamIds) \cup Permutations(Names)
    \cup Permutations(Requests)
=============================================================================
