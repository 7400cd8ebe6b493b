-------------------------- MODULE MC_ShareTracker --------------------------
(***************************************************************************)
(* ShareTracker for TLC: three shares, one of them 700 s ahead of the     *)
(* starting clock (rejected at first, accepted after a tick), and a       *)
(* window of two so that pushes evict.                                     *)
(***************************************************************************)
EXTENDS ShareTracker

CONSTANTS s1, s2, s3

MCShareOf ==
    (s1 :> [previous_hash |-> NullHash, target |-> 15, max_target |-> 63, timestamp |-> 0])
 @@ (s2 :> [previous_hash |-> s1, target |-> 31, max_target |-> 63, timestamp |-> 700])
 @@ (s3 :> [previous_hash |-> s1, target |-> 63, max_target |-> 63, timestamp |-> 100])

=============================================================================
