----------------------------- MODULE Topology -----------------------------
(***************************************************************************)
(* The topology algorithms (pkg/controller/topology.go) as operators.      *)
(*                                                                         *)
(* A term is a set of <<key, value>> pairs, one per key, and so are the    *)
(* labels of a node; the code's sorted slices are made with sort where the *)
(* order matters.  Keys and values are numbers, in the order of strings.   *)
(* "none" stands for an object that does not exist and for no result.      *)
(***************************************************************************)
EXTENDS Naturals, Sequences, FiniteSets, FiniteSetsExt, Folds, Functions

CONSTANTS
    none,
    W,         \* width of the unsigned integers hash and index
    Hash(_)    \* fnv.New32

ASSUME WidthAssumption == W \in Nat \ {0}

\* topologyTerm and topologySegment.
IsTerm(term) == term \subseteq Nat \X Nat /\ IsFiniteSet(term)

keysOf(term) == {p[1] : p \in term}

\* A loop over a slice: step is applied to the state so far and the next element.
ForEach(step(_, _), state, slice) ==
    MapThenFoldSet(LAMBDA x, acc : step(acc, x), state, LAMBDA i : slice[i],
                   LAMBDA rest : Max(rest), DOMAIN slice)

-----------------------------------------------------------------------------
(* Terms.                                                                  *)

Before(p, q) == p[1] < q[1] \/ (p[1] = q[1] /\ p[2] < q[2])

\* The i-th segment is the one that i - 1 others come before.
sort(term) ==
    [i \in 1..Cardinality(term) |->
        CHOOSE p \in term : Cardinality({q \in term : Before(q, p)}) = i - 1]

\* Shorter terms first, then by keys and values.
compare(t, u) ==
    LET a == sort(t)
        b == sort(u)
    IN  \/ Len(a) < Len(b)
        \/ /\ Len(a) = Len(b)
           /\ \E i \in 1..Len(a) : /\ \A j \in 1..i - 1 : a[j] = b[j]
                                   /\ Before(a[i], b[i])

\* The loop of subset: segment j of t is looked for next, q is one of other.
ScanStart == [j |-> 1, done |-> FALSE, found |-> FALSE]
Scan(a, acc, q) ==
    IF acc.done \/ a[acc.j][1] # q[1] THEN acc
    ELSE IF a[acc.j][2] # q[2] THEN [acc EXCEPT !.done = TRUE]
    ELSE IF acc.j = Len(a) THEN [acc EXCEPT !.done = TRUE, !.found = TRUE]
    ELSE [acc EXCEPT !.j = @ + 1]

subset(t, other) ==
    LET a == sort(t)
        step(acc, q) == Scan(a, acc, q)
    IN  t = {} \/ ForEach(step, ScanStart, sort(other)).found

\* The expressions of allowedTopologies: the API server requires values.
Expressions == {e \in [key : Nat, values : SUBSET Nat] :
                   e.values # {} /\ IsFiniteSet(e.values)}

DistributeLast(terms, e) == {{<<e.key, v>>} : v \in e.values}

\* One expression is distributed over the terms so far, if there are any.
Distribute(terms, e) ==
    LET old == IF terms = {} THEN {{}} ELSE terms
    IN  UNION {{t \cup {<<e.key, v>>} : t \in old} : v \in e.values}

flatten(allowed) ==
    UNION {ForEach(Distribute, {}, allowed[i]) : i \in DOMAIN allowed}

\* SortFunc and CompactFunc.
SortTerms(terms) ==
    [i \in 1..Cardinality(terms) |->
        CHOOSE t \in terms : Cardinality({u \in terms : compare(u, t)}) = i - 1]

Rotate(s, i) == SubSeq(s, i + 1, Len(s)) \o SubSeq(s, 1, i)

-----------------------------------------------------------------------------
(* Topology of nodes: csi[n] is the set of keys registered in the CSINode, *)
(* labels[n] the labels of the Node.                                       *)

extractTopologyTerm(labels, keys) ==
    IF labels # none /\ keys \subseteq keysOf(labels)
    THEN {p \in labels : p[1] \in keys} ELSE none

registered(csi) == {n \in DOMAIN csi : csi[n] \notin {none, {}}}

distinctTopologyKeySets(csi) == {csi[n] : n \in registered(csi)}

AggregateLabelled(keys, csi, labels) ==
    {extractTopologyTerm(labels[n], keys) : n \in DOMAIN csi} \ {none}

\* Only nodes whose own registration covers the keys.
aggregateTopologiesForKeys(keys, csi, labels) ==
    {extractTopologyTerm(labels[n], keys) :
        n \in {m \in registered(csi) : keys \subseteq csi[m]}} \ {none}

aggregateKeySets(csi, labels) ==
    UNION {aggregateTopologiesForKeys(keys, csi, labels) :
              keys \in distinctTopologyKeySets(csi)}

-----------------------------------------------------------------------------
(* A claim's name is its parts between dashes and the number after the     *)
(* last dash, if it is one: [parts, id].                                   *)

getPVCNameHashAndIndexOffset(name) ==
    IF name.id # none /\ name.id < 2^W
    THEN [hash |-> Hash(<<name.parts[Len(name.parts)]>>), index |-> name.id]
    ELSE [hash |-> Hash(Append(name.parts, name.id)), index |-> 0]

OffsetWithoutIndex(name, n) == getPVCNameHashAndIndexOffset(name).hash % n

PreferredOffset(name, n) ==
    LET h == getPVCNameHashAndIndexOffset(name) IN ((h.hash + h.index) % 2^W) % n

-----------------------------------------------------------------------------
(* The volume that comes back: its accessible topology is a sequence of    *)
(* segments, the affinity a set of terms or none.                          *)

AffinityWithAll(accessible) ==
    IF accessible = <<>> THEN none ELSE {UNION Range(accessible)}

GenerateVolumeNodeAffinity(accessible) ==
    IF accessible = <<>> THEN none ELSE Range(accessible) \ {{}}

VolumeIsAccessible(affinity, nodeTopology) ==
    nodeTopology = none \/ affinity = none \/ \E t \in affinity : t \subseteq nodeTopology
===========================================================================
