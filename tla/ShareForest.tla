----------------------------- MODULE ShareForest -----------------------------
(***************************************************************************)
(* What the share ledger promises (spec section 4.2), without prefix sums: *)
(* a forest of shares where insert links a share under its previous share  *)
(* when that one is present, and remove makes the removed share's children *)
(* roots.  height and work are recomputed from scratch along each share's  *)
(* path to its root; PrefsumShare keeps them incrementally and is checked *)
(* to implement this specification.                                        *)
(***************************************************************************)
EXTENDS Integers, Sequences, SequencesExt

CONSTANTS
    Hashes,       \* share hashes
    ShareOf,      \* ShareOf[h]: previous_hash, target of the share h
    WorkModulus,  \* stands for 2^256
    NoParent      \* parent of a root

VARIABLES
    nodes,    \* the shares in the ledger
    parent,   \* parent[n]: the share n hangs under, or NoParent
    height,   \* height[n]: shares on n's path to its root
    work      \* work[n]: their summed work

forest_vars == <<nodes, parent, height, work>>

RECURSIVE Path(_, _)
\* n, its parent, ..., the root, under the parent function p.
Path(p, n) == IF p[n] = NoParent THEN <<n>> ELSE <<n>> \o Path(p, p[n])

Heights(p) == [n \in DOMAIN p |-> Len(Path(p, n))]

Works(p) ==
    [n \in DOMAIN p |->
        FoldLeft(LAMBDA acc, k : acc + WorkModulus \div (ShareOf[k].target + 1),
                 0, Path(p, n)) % WorkModulus]

\* The forest becomes p: heights and works follow.
Become(p) ==
    /\ nodes' = DOMAIN p
    /\ parent' = p
    /\ height' = Heights(p)
    /\ work' = Works(p)

Init ==
    /\ nodes = {}
    /\ parent = [n \in {} |-> NoParent]
    /\ height = [n \in {} |-> 0]
    /\ work = [n \in {} |-> 0]

\* insert(share): a new share hangs under its previous share if present.
Insert(h) ==
    /\ h \notin nodes
    /\ LET pr == IF ShareOf[h].previous_hash \in nodes
                 THEN ShareOf[h].previous_hash ELSE NoParent
       IN Become([n \in nodes \cup {h} |-> IF n = h THEN pr ELSE parent[n]])

\* remove(hash): the share goes, its children become roots.
Delete(h) ==
    /\ h \in nodes
    /\ Become([n \in nodes \ {h} |-> IF parent[n] = h THEN NoParent ELSE parent[n]])

Next == \E h \in Hashes : Insert(h) \/ Delete(h)

Spec == Init /\ [][Next]_forest_vars

=============================================================================
