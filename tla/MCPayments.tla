----------------------------- MODULE MCPayments -----------------------------
\* Instances of Payments for TLC.
EXTENDS Payments, TLC

\* Requests are interchangeable.
Symmetry == Permutations(Requests)
=============================================================================
