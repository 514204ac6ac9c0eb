---------------------------- MODULE MCCatalogue -----------------------------
(***************************************************************************)
(* Instances of Catalogue for TLC, read through the list.  What is written *)
(* does not depend on the key that is followed, and nothing is promised of *)
(* the details but that their entry expires, which is ReadModels' concern. *)
(***************************************************************************)
EXTENDS Catalogue, TLC

MCInit == Init /\ key = "COMPETITIONS_LIST_CACHE"

MCSpec == MCInit /\ [][Next]_vars

\* Requests are interchangeable.
Symmetry == Permutations(Requests)
=============================================================================
