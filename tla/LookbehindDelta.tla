--------------------------- MODULE LookbehindDelta ---------------------------
(***************************************************************************)
(* LookbehindDelta of src/sharechains/tracker.cpp: a FIFO of the last      *)
(* LOOKBEHIND shares with the running sums of their work and min_work      *)
(* (arith_uint256, wrapping modulo 2^256).                                 *)
(***************************************************************************)
EXTENDS Integers, Sequences, SequencesExt

CONSTANTS
    ShareOf,      \* ShareOf[h]: the share whose hash is h (target, max_target)
    LOOKBEHIND,   \* capacity of the window
    WorkModulus   \* stands for 2^256

VARIABLES
    queue,     \* LookbehindDelta::_queue, oldest first
    work,      \* LookbehindDelta::work
    min_work   \* LookbehindDelta::min_work

\* The push on a full window reads _queue.front(); a LOOKBEHIND of 0 would
\* read the front of an empty queue.
ASSUME LOOKBEHIND \in Nat \ {0}

lb_vars == <<queue, work, min_work>>

\* coind::data::target_to_average_attempts: 2^256 / (target + 1).
average_attempts(t) == WorkModulus \div (t + 1)

\* Seeded fault: evicts only once the window is over capacity.
window_full_late(q) == Len(q) > LOOKBEHIND

\* _queue.size() == LOOKBEHIND: the window is full and push evicts.
window_full(q) == Len(q) = LOOKBEHIND

\* Seeded fault: the evicted share's work is not subtracted.
sub_attempts_none(x, t) == x

\* x - target_to_average_attempts(t), x + target_to_average_attempts(t)
sub_attempts(x, t) == (x - average_attempts(t)) % WorkModulus
add_attempts(x, t) == (x + average_attempts(t)) % WorkModulus

lb_Init ==
    /\ queue = <<>>
    /\ work = 0
    /\ min_work = 0

(***************************************************************************)
(* LookbehindDelta::push(share): when full, pop the front and subtract its *)
(* work and min_work; then push the share and add its work and min_work.   *)
(***************************************************************************)
push(h) ==
    LET full == window_full(queue)
        old  == Head(queue)
        w0   == IF full THEN sub_attempts(work, ShareOf[old].target) ELSE work
        m0   == IF full THEN sub_attempts(min_work, ShareOf[old].max_target)
                        ELSE min_work
    IN /\ queue' = Append(IF full THEN Tail(queue) ELSE queue, h)
       /\ work' = add_attempts(w0, ShareOf[h].target)
       /\ min_work' = add_attempts(m0, ShareOf[h].max_target)

lb_Next == \E h \in DOMAIN ShareOf : push(h)

lb_Spec == lb_Init /\ [][lb_Next]_lb_vars

lb_TypeOK ==
    /\ queue \in Seq(DOMAIN ShareOf)
    /\ work \in 0..(WorkModulus - 1)
    /\ min_work \in 0..(WorkModulus - 1)

(***************************************************************************)
(* The window bound and its sums (spec I5, P5): push never lets the queue  *)
(* exceed LOOKBEHIND, and work and min_work always equal the sums over     *)
(* exactly the shares still in the queue, however many evictions have     *)
(* happened.                                                               *)
(***************************************************************************)
WindowSumsMatch ==
    /\ Len(queue) <= LOOKBEHIND
    /\ work = FoldLeft(LAMBDA acc, k : acc + average_attempts(ShareOf[k].target),
                       0, queue) % WorkModulus
    /\ min_work = FoldLeft(LAMBDA acc, k : acc + average_attempts(ShareOf[k].max_target),
                           0, queue) % WorkModulus

=============================================================================
