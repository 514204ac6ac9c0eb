---------------------------- MODULE MCReadModels ----------------------------
(***************************************************************************)
(* What lags behind the tables and has to catch up: the search index and   *)
(* the sandbox with its cache, and the caches of the catalogue.  Catalogue *)
(* and Workers share no variable, so their interleavings show nothing: a   *)
(* behaviour has steps of one of them, chosen by `focus`, and the other    *)
(* one rests in its initial state.  Workers is looked at twice, once with  *)
(* requests that overlap and one user of the sandbox, once with several    *)
(* users and a request at a time.                                          *)
(***************************************************************************)
EXTENDS Workers

CONSTANTS Names, Unnamed, Prices, FirstPrice, MAX_WRITES

VARIABLES focus, competitions, writes, key, cached, step, work, current, missed

catalogueVars == <<competitions, writes, key, cached, step, work, current, missed>>

Catalogue == INSTANCE Catalogue WITH pc <- step, job <- work

MCInit ==
  /\ Catalogue!Init /\ Init
  /\ \/ focus = "catalogue"
     \/ focus = "overlap" /\ key = "COMPETITIONS_LIST_CACHE"
     \/ focus = "sandbox" /\ key = "COMPETITIONS_LIST_CACHE"

FirstId == CHOOSE u \in SandboxIds : TRUE

\* Neither bound stops a step that Fairness is about.
Overlap == Next /\ injected' \subseteq {FirstId}

Sandbox ==
  /\ Next
  /\ UNCHANGED teams
  /\ Cardinality({r \in Requests : pc'[r] # "idle"}) <= 1

MCNext ==
  \/ focus = "catalogue" /\ Catalogue!Next /\ UNCHANGED <<focus, vars>>
  \/ focus = "overlap" /\ Overlap /\ UNCHANGED <<focus, catalogueVars>>
  \/ focus = "sandbox" /\ Sandbox /\ UNCHANGED <<focus, catalogueVars>>

\* The fairness conditions of the one that rests hold: none of its actions is
\* enabled in an initial state.
MCSpec ==
  /\ MCInit /\ [][MCNext]_<<focus, catalogueVars, vars>>
  /\ Catalogue!Fairness /\ Fairness

ReadersCatchUp == Catalogue!ReadersCatchUp
=============================================================================
