-------------------------- MODULE MC_PrefsumShare --------------------------
(***************************************************************************)
(* PrefsumShare instantiated for TLC: four shares g <- a <- {b, c}, a     *)
(* chain of depth three with a fork, so that removals of the root, of an  *)
(* inner share and of leaves, and child-before-parent arrival all occur.  *)
(***************************************************************************)
EXTENDS PrefsumShare

CONSTANTS g, a, b, c

MCHashes == {g, a, b, c}

\* Distinct targets so that work sums tell paths apart; max_target is the
\* share's floor target (min_work).
MCShareOf ==
    [k \in MCHashes |->
        CASE k = g -> [previous_hash |-> NullHash, target |-> 15, max_target |-> 63]
          [] k = a -> [previous_hash |-> g, target |-> 31, max_target |-> 63]
          [] k = b -> [previous_hash |-> a, target |-> 15, max_target |-> 31]
          [] k = c -> [previous_hash |-> a, target |-> 63, max_target |-> 63]]

=============================================================================
