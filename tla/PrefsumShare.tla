---------------------------- MODULE PrefsumShare ----------------------------
(***************************************************************************)
(* The share-tree ledger of src/sharechains/prefsum_share.h (class         *)
(* PrefsumShare).  Shares form a forest by previous_hash.  For every share *)
(* the map `sum` keeps an element_type: an iterator `prev` to the parent's *)
(* node (or sum.end()), the list `nexts` of iterators to child nodes, and  *)
(* the prefix sums `height` and `work` from the root of its tree.          *)
(*                                                                         *)
(* Iterators are modelled as node identities <<hash, incarnation>>: a node *)
(* erased from the std::map and later re-inserted under the same key is a  *)
(* different node, so an iterator kept to the old one dangles.  Following  *)
(* a dangling iterator or sum.end() is undefined behaviour; the model then *)
(* sets `ub` and stops, since nothing the program does afterwards is       *)
(* defined.                                                                *)
(***************************************************************************)
EXTENDS Integers, Sequences, SequencesExt, FiniteSets

CONSTANTS
    Hashes,            \* the share hashes (uint256 keys) peers may deliver
    NullHash,          \* the null uint256: previous_hash of a first share
    ShareOf,           \* ShareOf[h]: the share whose hash is h
    WorkModulus,       \* stands for 2^256: arith_uint256 wraps modulo it
    MaxGen,            \* bound: times one hash may be (re)inserted into sum
    AllowDuplicateAdd, \* may a caller add a hash that is already in items?
    MaxChain,          \* bound on the n given to get_chain
    End                \* sum.end() and items.end()

VARIABLES
    items,   \* the keys of PrefsumShare::items
    sum,     \* PrefsumShare::sum: hash -> element_type
    gen,     \* gen[h]: incarnation of the newest map node created for h
    chain,   \* the state of the generator get_chain returned last
    ub       \* "none", or the operation that had undefined behaviour

vars == <<items, sum, gen, chain, ub>>

Iter == Hashes \X (1..MaxGen)

Element == [prev : Iter \cup {End}, nexts : Seq(Iter),
            height : Int, work : 0..(WorkModulus - 1),
            min_work : 0..(WorkModulus - 1)]

\* No generator obtained from get_chain yet.
NoChain == [none |-> TRUE]

\* Result of a query whose code has undefined behaviour.
Undefined == "undefined"

\* coind::data::target_to_average_attempts: 2^256 / (target + 1).
target_to_average_attempts(t) == WorkModulus \div (t + 1)

\* sum.find(h)
find(h) == IF h \in DOMAIN sum THEN <<h, gen[h]>> ELSE End

\* An iterator that still refers to a node of sum.
Live(it) == it # End /\ it[1] \in DOMAIN sum /\ gen[it[1]] = it[2]

\* Seeded fault: the element is made without looking up its parent.
make_element_unlinked(h) ==
    [prev     |-> End,
     nexts    |-> <<>>,
     height   |-> 1,
     work     |-> target_to_average_attempts(ShareOf[h].target),
     min_work |-> target_to_average_attempts(ShareOf[h].max_target)]

\* element_type(share) and make_element: the share's own work, height 1,
\* prev = sum.find(previous_hash).
make_element(h) ==
    [prev     |-> find(ShareOf[h].previous_hash),
     nexts    |-> <<>>,
     height   |-> 1,
     work     |-> target_to_average_attempts(ShareOf[h].target),
     min_work |-> target_to_average_attempts(ShareOf[h].max_target)]

\* Seeded fault: operator+= that forgets the height.
plus_assign_no_height(e, p) == [e EXCEPT !.work = (@ + p.work) % WorkModulus]

\* element_type::operator+= : adds work and height (min_work is left alone).
plus_assign(e, p) ==
    [e EXCEPT !.work = (@ + p.work) % WorkModulus, !.height = @ + p.height]

\* Seeded fault: operator-= off by one in the height.
minus_assign_off_by_one(e, r) ==
    [e EXCEPT !.work = (@ - r.work) % WorkModulus, !.height = @ - r.height - 1]

\* element_type::operator-= : subtracts work and height (not min_work).
minus_assign(e, r) ==
    [e EXCEPT !.work = (@ - r.work) % WorkModulus, !.height = @ - r.height]

\* k applications of operator-= (a node the walk reaches k times).
RECURSIVE minus_times(_, _, _)
minus_times(e, r, k) ==
    IF k = 0 THEN e ELSE minus_times(minus_assign(e, r), r, k - 1)

\* Seeded fault: the child iterator is never pushed onto the parent's nexts.
push_next_lost(s, p, it) == s

\* prev->second.nexts.push_back(sum.find(hash))
push_next(s, p, it) == [s EXCEPT ![p].nexts = Append(@, it)]

Init ==
    /\ items = {}
    /\ sum = [h \in {} |-> {}]
    /\ gen = [h \in Hashes |-> 0]
    /\ chain = NoChain
    /\ ub = "none"

(***************************************************************************)
(* PrefsumShare::add.  No check that the hash is new (the code has a TODO  *)
(* there): re-adding a present hash overwrites its element, emptying its   *)
(* nexts, and pushes it a second time onto its parent's nexts.            *)
(***************************************************************************)
add(h) ==
    /\ ub = "none"
    /\ AllowDuplicateAdd \/ h \notin items
    /\ h \notin DOMAIN sum => gen[h] < MaxGen
    /\ LET e   == make_element(h)
           new == IF e.prev # End THEN plus_assign(e, sum[e.prev[1]]) ELSE e
           g   == IF h \in DOMAIN sum THEN gen[h] ELSE gen[h] + 1
           put == [k \in DOMAIN sum \cup {h} |-> IF k = h THEN new ELSE sum[k]]
       IN /\ items' = items \cup {h}
          /\ gen' = [gen EXCEPT ![h] = g]
          /\ sum' = IF e.prev # End THEN push_next(put, e.prev[1], <<h, g>>)
                                    ELSE put
    /\ UNCHANGED <<chain, ub>>

\* The loop of remove over the removed node's nexts: each direct child
\* becomes a root (prev = sum.end()).
detach(e) == [e EXCEPT !.prev = End]

(***************************************************************************)
(* The queue walk of PrefsumShare::remove: the iterators it visits, in     *)
(* order, starting from the removed node's nexts.  The walk ends at the    *)
(* first iterator that no longer refers to a node: writing through it is   *)
(* undefined behaviour.                                                    *)
(***************************************************************************)
RECURSIVE visits(_)
visits(q) ==
    IF q = <<>> THEN <<>>
    ELSE IF Live(Head(q))
         THEN <<Head(q)>> \o visits(Tail(q) \o sum[Head(q)[1]].nexts)
         ELSE <<Head(q)>>

\* The walk of remove(h) reaches an iterator to an erased node.
RemoveHitsDangling(h) ==
    \E it \in ToSet(visits(sum[h].nexts)) : ~Live(it)

(***************************************************************************)
(* PrefsumShare::remove(h) for a present hash: every direct child gets     *)
(* prev = end(); every visit subtracts the removed element's height and    *)
(* work (a node reached twice is subtracted twice); then h is erased.  The *)
(* parent's nexts keeps its iterator to the erased node.  (remove of an    *)
(* absent hash inserts and erases a default entry: no change.)             *)
(***************************************************************************)
remove(h) ==
    /\ ub = "none"
    /\ h \in DOMAIN sum
    /\ ~RemoveHitsDangling(h)
    /\ LET R  == sum[h]
           vs == visits(R.nexts)
           times(n) == Cardinality({i \in DOMAIN vs : vs[i] = <<n, gen[n]>>})
           rebased(n) == minus_times(sum[n], R, times(n))
       IN /\ sum' = [n \in DOMAIN sum \ {h} |->
                       IF <<n, gen[n]>> \in ToSet(R.nexts)
                       THEN detach(rebased(n))
                       ELSE rebased(n)]
          /\ items' = items \ {h}
    /\ UNCHANGED <<gen, chain, ub>>

\* remove(h) whose walk writes through an iterator to an erased node.
remove_undefined(h) ==
    /\ ub = "none"
    /\ h \in DOMAIN sum
    /\ RemoveHitsDangling(h)
    /\ ub' = "remove"
    /\ UNCHANGED <<items, sum, gen, chain>>

(***************************************************************************)
(* PrefsumShare::get_chain(hash, n) (lines 345-367) returns a generator: a *)
(* closure holding an iterator cur_it into items and a count cur_pos.      *)
(* Each call yields cur_it's hash and moves cur_it to                      *)
(* items.find(previous_hash), until cur_it is end() or n hashes were       *)
(* yielded.  The iterator is kept between calls, while the caller may add  *)
(* and remove shares.  items and sum gain and lose a key together, so an   *)
(* items node has the incarnation of the sum node of its hash.            *)
(***************************************************************************)
\* items.find(h)
items_find(h) == IF h \in items THEN <<h, gen[h]>> ELSE End

\* An iterator that still refers to a node of items.
LiveItem(it) == it # End /\ it[1] \in items /\ gen[it[1]] = it[2]

\* Seeded fault: cur_pos starts one short ("exclusive 0" read as n - 1).
chain_start_exclusive(h, n) == [cur |-> items_find(h), pos |-> n - 1]

\* The closure's captured state: cur_it = items.find(hash), cur_pos = n.
chain_start(h, n) == [cur |-> items_find(h), pos |-> n]

\* One yielding call: cur_it = items.find(cur_it->second->previous_hash).
chain_step(it) == items_find(ShareOf[it[1]].previous_hash)

\* The caller obtains a generator for the chain of h, n hashes long.
get_chain(h, n) ==
    /\ ub = "none"
    /\ chain' = chain_start(h, n)
    /\ UNCHANGED <<items, sum, gen, ub>>

\* A call of the generator that yields (cur_it != end() and cur_pos != 0).
\* Once it yields nothing, further calls return false and change nothing.
chain_next ==
    /\ ub = "none"
    /\ chain # NoChain
    /\ chain.cur # End /\ chain.pos # 0
    /\ IF LiveItem(chain.cur)
       THEN /\ chain' = [cur |-> chain_step(chain.cur), pos |-> chain.pos - 1]
            /\ UNCHANGED ub
       ELSE \* cur_it->second of an erased node
            /\ ub' = "chain"
            /\ UNCHANGED chain
    /\ UNCHANGED <<items, sum, gen>>

\* The hashes a generator in state st yields when called until it returns
\* false, with no add or remove in between.
RECURSIVE chain_yields(_, _)
chain_yields(it, k) ==
    IF it = End \/ k = 0 \/ ~LiveItem(it) THEN <<>>
    ELSE <<it[1]>> \o chain_yields(chain_step(it), k - 1)

Next ==
    \/ \E h \in Hashes : add(h) \/ remove(h) \/ remove_undefined(h)
    \/ \E h \in Hashes, n \in 1..MaxChain : get_chain(h, n)
    \/ chain_next

Spec == Init /\ [][Next]_vars

(***************************************************************************)
(* Queries.  They change no state; each returns the value the code         *)
(* returns, "throw" for an invalid_argument, or Undefined.                 *)
(***************************************************************************)

\* The while loop of is_child_of from iterator it: compares the hash of
\* each node's prev with b; at a root, prev is end() and prev->first reads
\* the end node.
RECURSIVE walk_is_child_of(_, _)
walk_is_child_of(it, b) ==
    IF it = End THEN "false"
    ELSE LET p == sum[it[1]].prev
         IN IF ~Live(p) THEN Undefined
            ELSE IF p[1] = b THEN "true" ELSE walk_is_child_of(p, b)

\* PrefsumShare::is_child_of(item_hash, possible_child_hash)
is_child_of(a, b) ==
    IF b \notin DOMAIN sum THEN "throw" ELSE walk_is_child_of(find(a), b)

\* PrefsumShare::get_last: previous_hash of the root of h's tree.
RECURSIVE get_last(_)
get_last(h) ==
    LET p == sum[h].prev
    IN IF p = End THEN ShareOf[h].previous_hash
       ELSE IF ~Live(p) THEN Undefined ELSE get_last(p[1])

\* element_delta_type(element_type &el): head is the share's hash, tail its
\* previous_hash, and the element's sums.
delta_of(h) ==
    [head |-> h, tail |-> ShareOf[h].previous_hash, height |-> sum[h].height,
     work |-> sum[h].work, min_work |-> sum[h].min_work]

\* Seeded fault: operator- that subtracts the height only.
delta_minus_height_only(x, y) ==
    [x EXCEPT !.tail = y.head, !.height = @ - y.height]

\* element_delta_type::operator-: tail becomes the subtrahend's head, the
\* sums are subtracted (arith_uint256 wraps).
delta_minus(x, y) ==
    [x EXCEPT !.tail = y.head, !.height = @ - y.height,
              !.work = (@ - y.work) % WorkModulus,
              !.min_work = (@ - y.min_work) % WorkModulus]

\* PrefsumShare::get_delta_to_last: the element's delta with tail get_last.
get_delta_to_last(h) ==
    IF h \notin DOMAIN sum THEN "throw"
    ELSE IF get_last(h) = Undefined THEN Undefined
    ELSE [delta_of(h) EXCEPT !.tail = get_last(h)]

\* PrefsumShare::get_height and get_work.
get_height(h) ==
    IF h \notin DOMAIN sum THEN "throw"
    ELSE IF get_last(h) = Undefined THEN Undefined ELSE get_delta_to_last(h).height

get_work(h) ==
    IF h \notin DOMAIN sum THEN "throw"
    ELSE IF get_last(h) = Undefined THEN Undefined ELSE get_delta_to_last(h).work

\* PrefsumShare::get_height_and_last: the height and tail of
\* get_delta_to_last.
get_height_and_last(h) ==
    IF h \notin DOMAIN sum THEN "throw"
    ELSE IF get_last(h) = Undefined THEN Undefined
    ELSE <<get_delta_to_last(h).height, get_delta_to_last(h).tail>>

\* PrefsumShare::get_delta(first, second): element_delta_type operator-.
get_delta(a, b) ==
    IF a \notin DOMAIN sum \/ b \notin DOMAIN sum THEN "throw"
    ELSE LET c == is_child_of(a, b)
         IN IF c = Undefined THEN Undefined
            ELSE IF c = "false" THEN "throw"
            ELSE delta_minus(delta_of(a), delta_of(b))

\* The loop of get_nth_parent_hash from iterator it with k prev-steps to go.
RECURSIVE nth_walk(_, _)
nth_walk(it, k) ==
    IF it = End THEN "throw"
    ELSE IF k = 0 THEN ShareOf[it[1]].previous_hash
    ELSE LET p == sum[it[1]].prev
         IN IF p # End /\ ~Live(p) THEN Undefined ELSE nth_walk(p, k - 1)

\* Seeded fault: the walk takes n prev-steps instead of n - 1.
get_nth_parent_hash_n_steps(h, n) == nth_walk(find(h), n)

\* PrefsumShare::get_nth_parent_hash(hash, n), n >= 0: the loop breaks when
\* dist reaches n after n - 1 prev-steps (none for n = 0), and returns that
\* node's previous_hash.
get_nth_parent_hash(h, n) ==
    nth_walk(find(h), IF n = 0 THEN 0 ELSE n - 1)

(***************************************************************************)
(* Properties.                                                             *)
(***************************************************************************)

MaxHeight == Cardinality(Hashes)

TypeOK ==
    /\ items \subseteq Hashes
    /\ DOMAIN sum \subseteq Hashes
    /\ \A h \in DOMAIN sum : sum[h] \in Element /\ sum[h].height \in 1..MaxHeight
    /\ gen \in [Hashes -> 0..MaxGen]
    /\ chain \in {NoChain} \cup [cur : Iter \cup {End}, pos : 0..MaxChain]
    /\ ub \in {"none", "remove", "chain"}

\* The nodes from n up its prev links to the root of its tree (reference
\* definition: follows only iterators that refer to nodes).
RECURSIVE PathToRoot(_)
PathToRoot(n) ==
    IF Live(sum[n].prev) THEN <<n>> \o PathToRoot(sum[n].prev[1]) ELSE <<n>>

PathWork(path) ==
    FoldLeft(LAMBDA acc, k : acc + target_to_average_attempts(ShareOf[k].target),
             0, path) % WorkModulus

\* Prefix-sum consistency (spec I2, P1; add lines 157-173, remove 183-231):
\* after any sequence of add and remove, every element's height is the
\* number of shares on its path to the root of its tree, and its work is
\* the sum of their work.  remove keeps this only if its walk reaches
\* every descendant of the removed share exactly once.
PrefixSumConsistent ==
    \A n \in DOMAIN sum :
        /\ sum[n].height = Len(PathToRoot(n))
        /\ sum[n].work = PathWork(PathToRoot(n))

\* Parent and child links agree (spec I4, restricted to nodes still in sum;
\* add line 167, remove line 203): every prev iterator is end() or refers
\* to a node of sum, and a node c is on n's nexts exactly when c's prev is n.
LiveLinksMirror ==
    /\ \A n \in DOMAIN sum : sum[n].prev = End \/ Live(sum[n].prev)
    /\ \A n, c \in DOMAIN sum :
         (sum[c].prev = <<n, gen[n]>>) <=> (<<c, gen[c]>> \in ToSet(sum[n].nexts))

\* get_nth_parent_hash (lines 369-388) agrees with get_height (310-313) and
\* with the path the sums describe, after any adds, removes and re-adds:
\* for n >= 1 the walk succeeds exactly when n <= get_height(h), and then
\* answers the previous_hash of the n-th share on h's path (h itself being
\* the first); n = 0 answers as n = 1 does, since the loop condition
\* dist != n is false from the start.
NthParentWithinHeight ==
    \A h \in DOMAIN sum, n \in 0..(MaxHeight + 1) :
        LET r == get_nth_parent_hash(h, n) IN
        /\ n >= 1 => ((r # "throw") <=> (n <= get_height(h)))
        /\ get_last(h) # Undefined /\ n <= Len(PathToRoot(h)) =>
               r = ShareOf[PathToRoot(h)[IF n = 0 THEN 1 ELSE n]].previous_hash

\* get_chain (lines 345-367) agrees with the ledger's sums: a generator for
\* n = get_height(h) (lines 293-313) yields exactly the shares on h's path
\* to the root of its tree, although it walks items by previous_hash while
\* the height is kept in sum and re-based by remove.  This is how a caller
\* bounds a chain walk by the height.
ChainMatchesHeight ==
    \A h \in DOMAIN sum :
        get_last(h) # Undefined =>
            LET st == chain_start(h, get_height(h))
            IN  chain_yields(st.cur, st.pos) = PathToRoot(h)

\* get_delta (lines 252-272) of a share and a proper ancestor on its path
\* measures the segment between them (spec P4): height is the number of
\* prev steps from the share to the ancestor, and work the sum of the work
\* of the shares on the segment, the ancestor excluded, modulo 2^256.  The
\* two element_delta_type values (lines 104-121) come from prefix sums that
\* add, remove and re-add have re-based; get_work (line 305) is the
\* segment that ends at the root, and get_height_and_last (line 338) the
\* path's length and the missing share the root hangs from.
DeltaMatchesPath ==
    \A a \in DOMAIN sum :
        LET path == PathToRoot(a) IN
        /\ get_last(a) # Undefined =>
              /\ get_work(a) = PathWork(path)
              /\ get_height_and_last(a) =
                     <<Len(path), ShareOf[path[Len(path)]].previous_hash>>
        /\ \A i \in 2..Len(path) :
              LET d == get_delta(a, path[i]) IN
              /\ d.head = a /\ d.tail = path[i]
              /\ d.height = i - 1
              /\ d.work = PathWork(SubSeq(path, 1, i - 1))

(***************************************************************************)
(* Refinement of ShareForest: the ledger's prev links are the forest's     *)
(* parent function, and the height and work every element keeps           *)
(* incrementally are the ones ShareForest recomputes from scratch after    *)
(* each insert and remove (spec I2, I3, P1-P3).  remove_undefined changes  *)
(* no data and is a stuttering step.                                       *)
(***************************************************************************)
NoParent == End

Forest == INSTANCE ShareForest WITH
              nodes  <- DOMAIN sum,
              parent <- [n \in DOMAIN sum |->
                           IF sum[n].prev = End THEN NoParent ELSE sum[n].prev[1]],
              height <- [n \in DOMAIN sum |-> sum[n].height],
              work   <- [n \in DOMAIN sum |-> sum[n].work]

\* The ledger implements ShareForest.
ForestRefinement == Forest!Spec

(***************************************************************************)
(* What the spec and the code's own contracts say, checked in runs that   *)
(* expect a violation.                                                     *)
(***************************************************************************)

\* The walk of remove follows no iterator to an erased node (spec section 9:
\* no dangling reference can occur).  remove (lines 203, 214) writes through
\* every iterator on the walked nexts lists, and a parent's nexts keeps the
\* iterator of a child that was removed before it.
NoDanglingWalk == ub # "remove"

\* A generator returned by get_chain never dereferences an iterator to an
\* erased items node (spec section 9: no dangling reference).  The closure
\* (lines 352-365) keeps cur_it across calls; a remove of that share, or a
\* remove and re-add of it, between two calls leaves cur_it dangling.
NoStaleChainIterator == ub # "chain"

\* get_delta on a pair that is not ancestor and descendant fails with an
\* error (spec P4, NotAncestor); is_child_of, which get_delta calls, walks
\* to the root and there reads end()->first (line 244).
DeltaRejectsNonAncestor ==
    \A x, y \in DOMAIN sum : get_delta(x, y) # Undefined

=============================================================================
