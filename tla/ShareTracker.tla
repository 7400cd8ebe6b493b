---------------------------- MODULE ShareTracker ----------------------------
(***************************************************************************)
(* ShareTracker of src/sharechains/tracker.cpp: add, get and              *)
(* attempt_verify over the tracker's items map, its verified set and its  *)
(* LookbehindDelta window.  think() and generate_share_transactions have  *)
(* no working body in the source and are not modelled.                    *)
(***************************************************************************)
EXTENDS Integers, Sequences, SequencesExt

CONSTANTS
    ShareOf,       \* ShareOf[h]: share with hash h: target, max_target,
                   \* timestamp, previous_hash
    NullHash,      \* the null uint256
    NullShare,     \* nullptr, what get returns for an unknown hash
    LOOKBEHIND,
    WorkModulus,
    MaxNow,        \* bound on the clock c2pool::dev::timestamp()
    TimeStep       \* how far the clock moves in one tick

VARIABLES
    items,        \* keys of ShareTracker::items (hash -> share)
    verified,     \* keys of ShareTracker::verified
    queue, work, min_work,   \* lookbehind_items (a LookbehindDelta)
    now,          \* c2pool::dev::timestamp()
    last_verify   \* the share and result of the latest attempt_verify

vars == <<items, verified, queue, work, min_work, now, last_verify>>

LB == INSTANCE LookbehindDelta

\* Nothing has been verified yet.
NoVerify == [share |-> NullHash, result |-> FALSE]

\* ShareTracker::get: items.at(hash), nullptr when absent.
get(h) == IF h \in items THEN h ELSE NullShare

\* The timestamp test of attempt_verify: more than 600 s in the future.
in_future(h) == ShareOf[h].timestamp > now + 600

Init ==
    /\ items = {}
    /\ verified = {}
    /\ LB!lb_Init
    /\ now = 0
    /\ last_verify = NoVerify

(***************************************************************************)
(* ShareTracker::add(share), share not null.  The branch is inverted: a    *)
(* present hash is overwritten with the same share, an absent one is only *)
(* logged as "already present"; so items never changes.  The share is     *)
(* pushed into the lookbehind window either way.                          *)
(***************************************************************************)
add(h) ==
    /\ items' = items
    /\ LB!push(h)
    /\ UNCHANGED <<verified, now, last_verify>>

(***************************************************************************)
(* ShareTracker::attempt_verify(share).  The early `return true` for a    *)
(* share found in verified is never taken: nothing in the source inserts  *)
(* into verified.  A share more than 600 s in the future returns false    *)
(* (invalid_argument, caught).  Otherwise the body reads                  *)
(* get(previous_hash) for a null previous_hash and falls off the end of a *)
(* bool function: the result is whatever the register holds.              *)
(***************************************************************************)
attempt_verify(h) ==
    /\ h \notin verified
    /\ \/ /\ in_future(h)
          /\ last_verify' = [share |-> h, result |-> FALSE]
       \/ /\ ~in_future(h)
          /\ \E r \in BOOLEAN : last_verify' = [share |-> h, result |-> r]
    /\ UNCHANGED <<items, verified, queue, work, min_work, now>>

\* The wall clock advances.
tick ==
    /\ now + TimeStep <= MaxNow
    /\ now' = now + TimeStep
    /\ UNCHANGED <<items, verified, queue, work, min_work, last_verify>>

Next ==
    \/ \E h \in DOMAIN ShareOf : add(h) \/ attempt_verify(h)
    \/ tick

Spec == Init /\ [][Next]_vars

TypeOK ==
    /\ items \subseteq DOMAIN ShareOf
    /\ verified \subseteq DOMAIN ShareOf
    /\ LB!lb_TypeOK
    /\ queue \in BoundedSeq(DOMAIN ShareOf, LOOKBEHIND)
    /\ now \in 0..MaxNow
    /\ last_verify \in [share : DOMAIN ShareOf \cup {NullHash}, result : BOOLEAN]

\* The lookbehind window inside the tracker keeps its bound and its sums
\* across every add, duplicates included (spec P5).
TrackerWindowSumsMatch == LB!WindowSumsMatch

(***************************************************************************)
(* What the spec says, checked in runs that expect a violation.            *)
(***************************************************************************)

\* Every share add has pushed into the window is known to the tracker: add
\* records the hash as accepted (spec 4.4 add), so get returns it.
WindowedSharesAreKnown ==
    \A i \in DOMAIN queue : get(queue[i]) # NullShare

\* attempt_verify returns true only for a share it then holds as verified
\* (spec 4.4 verify: "marks verified and returns true").
AcceptedShareIsVerified ==
    last_verify.result => last_verify.share \in verified

=============================================================================
