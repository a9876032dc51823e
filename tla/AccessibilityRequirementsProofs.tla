------------------ MODULE AccessibilityRequirementsProofs ------------------
(***************************************************************************)
(* Proofs about AccessibilityRequirements, for every set of nodes, labels, *)
(* keys, storage classes and names, and any number of changes.             *)
(***************************************************************************)
EXTENDS AccessibilityRequirements, TopologyProofs

-----------------------------------------------------------------------------
(* The preferred term.                                                     *)

\* The place of the term that a claim prefers is one of the terms', although hash
\* and index may overflow.
LEMMA Offset ==
    ASSUME NEW nm \in Names, NEW n \in Nat \ {0}
    PROVE  PreferredOffset(nm, n) \in 0..n - 1
<1> DEFINE h == getPVCNameHashAndIndexOffset(nm)
<1>1. 2^W \in Nat \ {0}
  BY Power, WidthAssumption
<1>2. h.hash \in Nat /\ h.index \in Nat
  <2>1. nm.id \in Nat \cup {none}
    BY NamesAssumption
  <2>2. /\ Hash(<<nm.parts[Len(nm.parts)]>>) \in Nat
        /\ Hash(Append(nm.parts, nm.id)) \in Nat
    BY <1>1, NamesAssumption
  <2> QED BY <2>1, <2>2 DEF getPVCNameHashAndIndexOffset
<1> HIDE DEF h
<1>3. (h.hash + h.index) % 2^W \in Nat
  BY <1>1, <1>2, Mod
<1>4. ((h.hash + h.index) % 2^W) % n \in 0..n - 1
  BY <1>3, Mod
<1> QED BY <1>4 DEF PreferredOffset, h

\* A number plus 0, 1, ..., n - 1 has every remainder.
LEMMA Remainders ==
    ASSUME NEW x \in Nat, NEW n \in Nat \ {0}, NEW r \in 0..n - 1
    PROVE  \E k \in 0..n - 1 : (x + k) % n = r
<1> DEFINE m == x % n
           q == x \div n
<1>1. x = q * n + m /\ q \in Nat /\ m \in 0..n - 1
  OBVIOUS
<1> HIDE DEF m, q
<1>2. CASE m <= r
  <2>1. r - m \in 0..n - 1 /\ x + (r - m) = q * n + r
    BY <1>1, <1>2
  <2>2. (q * n + r) % n = r
    BY <1>1
  <2> QED BY <2>1, <2>2
<1>3. CASE r < m
  <2>1. r - m + n \in 0..n - 1 /\ x + (r - m + n) = (q + 1) * n + r
    BY <1>1, <1>3
  <2>2. ((q + 1) * n + r) % n = r
    BY <1>1
  <2> QED BY <2>1, <2>2
<1> QED BY <1>1, <1>2, <1>3

-----------------------------------------------------------------------------
(* Topology of nodes, and the claim's entry.                               *)

\* What aggregation and flatten return.
TermSet(S) == IsFiniteSet(S) /\ \A t \in S : IsTerm(t) /\ t # {}

\* The claim's entry in pvcNodeStore.
Entries == [keys : KeySets \cup {{}}, labels : Labels \cup {{}},
            terms : SUBSET SUBSET (Nat \X Nat)]

\* Types of the state.
Types ==
    /\ csi \in [Nodes -> KeySets \cup {{}, none}]
    /\ labels \in [Nodes -> Labels \cup {none}]
    /\ selected \in IF Delayed THEN Nodes ELSE {none}
    /\ allowed \in AllowedTopologies /\ name \in Names
    /\ pc \in {"idle", "ready", "call"}
    /\ changes \in Nat
    /\ cache \in Entries /\ TermSet(cache.terms)

\* The topology of a node is known if all keys are labelled, and is then not empty.
LEMMA Extract ==
    ASSUME NEW l \in Labels \cup {none, {}}, NEW keys, keys # {}
    PROVE  /\ extractTopologyTerm(l, keys) # none <=> l # none /\ keys \subseteq keysOf(l)
           /\ extractTopologyTerm(l, keys) # none =>
                 /\ extractTopologyTerm(l, keys) = {p \in l : p[1] \in keys}
                 /\ l \in Labels /\ l # {}
                 /\ extractTopologyTerm(l, keys) # {}
                 /\ IsTerm(extractTopologyTerm(l, keys))
<1> DEFINE e == {p \in l : p[1] \in keys}
<1>1. l # none => e # none
  BY RequirementsAssumption
<1>2. extractTopologyTerm(l, keys) = IF l # none /\ keys \subseteq keysOf(l) THEN e ELSE none
  BY DEF extractTopologyTerm
<1>3. ASSUME l # none, keys \subseteq keysOf(l)
      PROVE  l \in Labels /\ l # {} /\ e # {} /\ IsTerm(e)
  <2>1. PICK k \in keys : TRUE
    OBVIOUS
  <2>2. PICK p \in l : p[1] = k
    BY <1>3, <2>1 DEF keysOf
  <2>3. l \in Labels /\ p \in e
    BY <1>3, <2>2
  <2>4. IsTerm(e)
    <3>1. IsTerm(l)
      BY <2>3, RequirementsAssumption
    <3>2. e \in SUBSET l
      OBVIOUS
    <3> HIDE DEF e
    <3> QED BY <3>1, <3>2, FS_Subset DEF IsTerm
  <2> QED BY <2>3, <2>4
<1> HIDE DEF e
<1> QED BY <1>1, <1>2, <1>3 DEF e

\* Aggregation finds finitely many terms, none of them empty.
LEMMA AggregatedForKeys ==
    ASSUME Types, NEW keys, keys # {}
    PROVE  TermSet(aggregateTopologiesForKeys(keys, csi, labels))
<1> DEFINE A == aggregateTopologiesForKeys(keys, csi, labels)
           f == [n \in Nodes |-> extractTopologyTerm(labels[n], keys)]
           S == {f[n] : n \in Nodes}
<1>1. ASSUME NEW t \in A PROVE t \in S /\ IsTerm(t) /\ t # {}
  <2>1. PICK n \in DOMAIN csi : t = extractTopologyTerm(labels[n], keys) /\ t # none
    BY <1>1 DEF aggregateTopologiesForKeys, registered
  <2>2. n \in Nodes /\ labels[n] \in Labels \cup {none, {}}
    BY DEF Types
  <2> QED BY <2>1, <2>2, Extract
<1>2. IsFiniteSet(S)
  <2>1. f \in Surjection(Nodes, S)
    BY DEF Surjection
  <2> QED BY <2>1, FS_Surjection, RequirementsAssumption
<1>3. IsFiniteSet(A)
  <2>1. A \in SUBSET S
    BY <1>1
  <2> HIDE DEF A, S
  <2> QED BY <1>2, <2>1, FS_Subset
<1> QED BY <1>1, <1>3 DEF TermSet

\* So does aggregation over all sets of keys, with immediate binding.
LEMMA AggregatedKeySets ==
    ASSUME Types
    PROVE  TermSet(aggregateKeySets(csi, labels))
<1> DEFINE K == distinctTopologyKeySets(csi)
           f == [n \in registered(csi) |-> csi[n]]
           g == [k \in K |-> aggregateTopologiesForKeys(k, csi, labels)]
           S == {g[k] : k \in K}
<1>1. IsFiniteSet(K)
  <2>1. registered(csi) \in SUBSET Nodes
    BY DEF registered, Types
  <2>2. IsFiniteSet(registered(csi))
    BY <2>1, FS_Subset, RequirementsAssumption
  <2>3. f \in Surjection(registered(csi), K)
    BY DEF Surjection, distinctTopologyKeySets
  <2> QED BY <2>2, <2>3, FS_Surjection
<1>2. ASSUME NEW k \in K PROVE TermSet(g[k])
  <2>1. k # {}
    BY DEF distinctTopologyKeySets, registered
  <2> QED BY <2>1, AggregatedForKeys
<1> HIDE DEF K
<1>3. IsFiniteSet(S)
  <2>1. g \in Surjection(K, S)
    BY DEF Surjection
  <2> QED BY <1>1, <2>1, FS_Surjection
<1>4. aggregateKeySets(csi, labels) = UNION S
  BY DEF aggregateKeySets, K
<1>5. \A T \in S : TermSet(T)
  BY <1>2
<1> HIDE DEF S
<1>6. IsFiniteSet(UNION S)
  BY <1>3, <1>5, FS_UNION DEF TermSet
<1> QED BY <1>4, <1>5, <1>6 DEF TermSet

\* The parts of the entry are stored in this order, and a claim that has to be
\* rescheduled has none.
Entry ==
    /\ selected = none => cache.keys = {} /\ cache.labels = {}
    /\ selected # none /\ cache.terms # {} => cache.labels # {}
    /\ cache.labels # {} => cache.keys # {}
    /\ state = "Reschedule" => /\ selected # none
                               /\ cache.keys = {} /\ cache.labels = {} /\ cache.terms = {}

\* What an attempt reads, from the entry or from the informers.
LEMMA Lookups ==
    ASSUME Types, selected # none
    PROVE  /\ selected \in Nodes
           /\ topologyKeys \in KeySets \cup {{}, none}
           /\ nodeLabels \in Labels \cup {{}, none}
<1>1. selected \in Nodes
  BY DEF Types
<1> QED BY <1>1 DEF Types, Entries, topologyKeys, nodeLabels

\* Once the node is known its topology is that of the labels used.
LEMMA NodeKnown ==
    ASSUME Types, KnowsNode, selected # none
    PROVE  /\ topologyKeys \in KeySets /\ nodeLabels \in Labels /\ nodeLabels # {}
           /\ selectedTopology # none /\ selectedTopology # {} /\ IsTerm(selectedTopology)
           /\ selectedTopology \subseteq nodeLabels
<1>1. topologyKeys \in KeySets /\ topologyKeys # {} /\ selectedTopology # none
  BY Lookups DEF KnowsNode
<1>2. nodeLabels \in Labels \cup {none, {}}
  BY Lookups
<1>3. /\ selectedTopology = {p \in nodeLabels : p[1] \in topologyKeys}
      /\ nodeLabels \in Labels /\ nodeLabels # {}
      /\ selectedTopology # {} /\ IsTerm(selectedTopology)
  BY <1>1, <1>2, Extract DEF selectedTopology
<1>4. selectedTopology \subseteq nodeLabels
  BY <1>3
<1> QED BY <1>1, <1>3, <1>4

\* The terms that an attempt asks for are finitely many, and none is empty.
LEMMA RequisiteTerms ==
    ASSUME Types, KnowsNode
    PROVE  /\ TermSet(aggregateTopologies)
           /\ TermSet(requisiteTerms)
<1>1. TermSet(aggregateTopologies)
  <2>1. CASE cache.terms # {}
    BY <2>1 DEF aggregateTopologies, Types
  <2>2. CASE cache.terms = {} /\ selected = none
    BY <2>2, AggregatedKeySets DEF aggregateTopologies
  <2>3. CASE cache.terms = {} /\ selected # none
    <3>1. topologyKeys # {}
      BY <2>3 DEF KnowsNode
    <3> QED BY <2>3, <3>1, AggregatedForKeys DEF aggregateTopologies
  <2> QED BY <2>1, <2>2, <2>3
<1>2. CASE selected # none /\ strict
  <2>1. requisiteTerms = {selectedTopology}
    BY <1>2, Zenon DEF requisiteTerms
  <2> QED BY <1>2, <2>1, NodeKnown, FS_Singleton, <1>1 DEF TermSet
<1>3. CASE ~(selected # none /\ strict) /\ allowed # <<>>
  <2>1. requisiteTerms = flatten(allowed)
    BY <1>3, Zenon DEF requisiteTerms
  <2>2. allowed \in Seq(Seq(Expressions))
    BY RequirementsAssumption DEF Types
  <2> QED BY <2>1, <2>2, FlattenDistributes, <1>1 DEF TermSet
<1>4. CASE ~(selected # none /\ strict) /\ allowed = <<>>
  <2>1. requisiteTerms = aggregateTopologies
    BY <1>4, Zenon DEF requisiteTerms
  <2> QED BY <1>1, <2>1
<1> QED BY <1>2, <1>3, <1>4

\* What an attempt adds to the entry.
LEMMA LabelsStoredFields ==
    ASSUME Types, selected # none => topologyKeys \in KeySets
    PROVE  /\ LabelsStored \in Entries
           /\ LabelsStored.keys = IF selected = none THEN cache.keys ELSE topologyKeys
           /\ LabelsStored.labels = IF selected = none \/ nodeLabels \in {none, {}}
                                    THEN cache.labels ELSE nodeLabels
           /\ LabelsStored.terms = cache.terms
<1> DEFINE k == KeysStored
           l == LabelsStored
<1>0. cache \in Entries
  BY DEF Types
<1>1. CASE selected = none
  BY <1>0, <1>1 DEF LabelsStored, KeysStored
<1>2. CASE selected # none
  <2>1. k = [cache EXCEPT !.keys = topologyKeys]
    BY <1>2 DEF KeysStored
  <2>2. k \in Entries /\ k.keys = topologyKeys /\ k.labels = cache.labels /\ k.terms = cache.terms
    BY <1>0, <1>2, <2>1 DEF Entries
  <2> HIDE DEF k
  <2>3. CASE nodeLabels \in {none, {}}
    BY <1>2, <2>2, <2>3 DEF LabelsStored, k
  <2>4. CASE nodeLabels \notin {none, {}}
    <3>1. nodeLabels \in Labels
      BY <1>2, <2>4, Lookups
    <3>2. l = [k EXCEPT !.labels = nodeLabels]
      BY <1>2, <2>4 DEF LabelsStored, k
    <3>3. l \in Entries /\ l.keys = k.keys /\ l.labels = nodeLabels /\ l.terms = k.terms
      BY <2>2, <3>1, <3>2 DEF Entries
    <3> QED BY <1>2, <2>2, <2>4, <3>3
  <2> QED BY <2>3, <2>4
<1> QED BY <1>1, <1>2

\* The same for an attempt that has got as far as the terms.
LEMMA TermsStoredFields ==
    ASSUME Types, KnowsNode
    PROVE  /\ TermsStored \in Entries /\ TermSet(TermsStored.terms)
           /\ TermsStored.keys = IF selected = none THEN cache.keys ELSE topologyKeys
           /\ TermsStored.labels = IF selected = none THEN cache.labels ELSE nodeLabels
           /\ TermsStored.terms = IF Aggregates THEN aggregateTopologies ELSE cache.terms
<1> DEFINE l == LabelsStored
<1>1. /\ l \in Entries
      /\ l.keys = IF selected = none THEN cache.keys ELSE topologyKeys
      /\ l.labels = IF selected = none THEN cache.labels ELSE nodeLabels
      /\ l.terms = cache.terms
  <2>1. selected # none => nodeLabels \notin {none, {}}
    BY NodeKnown, RequirementsAssumption
  <2> QED BY <2>1, NodeKnown, LabelsStoredFields
<1>2. TermSet(aggregateTopologies) /\ TermSet(cache.terms)
  BY RequisiteTerms DEF Types
<1> HIDE DEF l
<1>3. CASE Aggregates
  <2>1. TermsStored = [l EXCEPT !.terms = aggregateTopologies]
    BY <1>3 DEF TermsStored, l
  <2>2. aggregateTopologies \in SUBSET SUBSET (Nat \X Nat)
    BY <1>2 DEF TermSet, IsTerm
  <2>3. TermsStored \in Entries /\ TermsStored.keys = l.keys /\ TermsStored.labels = l.labels
        /\ TermsStored.terms = aggregateTopologies
    BY <1>1, <2>1, <2>2 DEF Entries
  <2> QED BY <1>1, <1>2, <1>3, <2>3
<1>4. CASE ~Aggregates
  <2>1. TermsStored = l
    BY <1>4 DEF TermsStored, l
  <2> QED BY <1>1, <1>2, <1>4, <2>1
<1> QED BY <1>3, <1>4

\* The order of the parts is kept by an attempt that fails before the terms,
LEMMA LabelsEntry ==
    ASSUME Types, Entry, selected # none => topologyKeys \in KeySets,
           cache' = LabelsStored, UNCHANGED clusterVars,
           pc' \in {"idle", "ready", "call"}, state' # "Reschedule"
    PROVE  Types' /\ Entry'
<1>1. /\ cache' \in Entries
      /\ cache'.keys = IF selected = none THEN cache.keys ELSE topologyKeys
      /\ cache'.labels = IF selected = none \/ nodeLabels \in {none, {}}
                         THEN cache.labels ELSE nodeLabels
      /\ cache'.terms = cache.terms
  BY LabelsStoredFields
<1>2. Types'
  BY <1>1 DEF Types, clusterVars, fixed, runVars, Entries
<1>3. selected # none => topologyKeys # {}
  BY RequirementsAssumption
<1>4. Entry'
  <2>1. CASE selected = none
    BY <1>1, <2>1 DEF Entry, clusterVars
  <2>2. CASE selected # none /\ nodeLabels \in {none, {}}
    BY <1>1, <1>3, <2>2 DEF Entry, clusterVars
  <2>3. CASE selected # none /\ nodeLabels \notin {none, {}}
    BY <1>1, <1>3, <2>3 DEF Entry, clusterVars
  <2> QED BY <2>1, <2>2, <2>3
<1> QED BY <1>2, <1>4

\* by one that gets as far as the terms,
LEMMA TermsEntry ==
    ASSUME Types, Entry, KnowsNode,
           cache' = TermsStored, UNCHANGED clusterVars,
           pc' \in {"idle", "ready", "call"}, state' # "Reschedule"
    PROVE  Types' /\ Entry'
<1>1. /\ cache' \in Entries /\ TermSet(cache'.terms)
      /\ cache'.keys = IF selected = none THEN cache.keys ELSE topologyKeys
      /\ cache'.labels = IF selected = none THEN cache.labels ELSE nodeLabels
  BY TermsStoredFields
<1>2. Types'
  BY <1>1 DEF Types, clusterVars, fixed, runVars, Entries
<1>3. selected # none => topologyKeys # {} /\ nodeLabels # {}
  BY NodeKnown, RequirementsAssumption
<1>4. Entry'
  BY <1>1, <1>3 DEF Entry, clusterVars
<1> QED BY <1>2, <1>4

\* and by steps that leave the entry alone.
LEMMA SameEntry ==
    ASSUME Types, Entry, UNCHANGED <<selected, fixed>>, cache' = cache,
           pc' \in {"idle", "ready", "call"}, state' # "Reschedule",
           csi' \in [Nodes -> KeySets \cup {{}, none}],
           labels' \in [Nodes -> Labels \cup {none}], changes' \in Nat
    PROVE  Types' /\ Entry'
  BY DEF Types, Entry, fixed, Entries

\* What changes in the cluster.
LEMMA ClusterTypes ==
    ASSUME Types, ClusterChanges
    PROVE  /\ csi' \in [Nodes -> KeySets \cup {{}, none}]
           /\ labels' \in [Nodes -> Labels \cup {none}]
           /\ changes' = changes + 1 /\ changes' \in Nat
           /\ kinds \subseteq kinds'
           /\ UNCHANGED <<selected, fixed, cache, pc, state, req, sent, affinity>>
<1>1. PICK n \in Nodes : NodeChanges(n) \/ CSINodeChanges(n) \/ NodeRemoved(n)
  BY DEF ClusterChanges
<1>2. UNCHANGED <<selected, fixed, cache, pc, state, req, sent, affinity>>
  BY DEF ClusterChanges
<1>3. changes' = changes + 1 /\ kinds \subseteq kinds'
  BY <1>1 DEF NodeChanges, CSINodeChanges, NodeRemoved, Change
<1>4. /\ csi' \in [Nodes -> KeySets \cup {{}, none}]
      /\ labels' \in [Nodes -> Labels \cup {none}]
  <2>1. CASE NodeChanges(n)
    BY <2>1 DEF NodeChanges, Types
  <2>2. CASE CSINodeChanges(n)
    BY <2>2 DEF CSINodeChanges, Types
  <2>3. CASE NodeRemoved(n)
    BY <2>3 DEF NodeRemoved, Types
  <2> QED BY <1>1, <2>1, <2>2, <2>3
<1>5. changes' \in Nat
  BY <1>3 DEF Types
<1> QED BY <1>2, <1>3, <1>4, <1>5

\* Types and Entry are kept by every step.
LEMMA EntryStep ==
    Types /\ Entry /\ [Next]_vars => Types' /\ Entry'
<1> SUFFICES ASSUME Types, Entry, [Next]_vars PROVE Types' /\ Entry'
  OBVIOUS
<1>0. /\ pc \in {"idle", "ready", "call"} /\ changes \in Nat
      /\ csi \in [Nodes -> KeySets \cup {{}, none}] /\ labels \in [Nodes -> Labels \cup {none}]
  BY DEF Types
<1>1. CASE ClusterChanges
  <2>1. CASE state = "Reschedule"
    BY <1>1, <2>1, ClusterTypes DEF Types, Entry, fixed, Entries
  <2>2. CASE state # "Reschedule"
    BY <1>0, <1>1, <2>2, ClusterTypes, SameEntry
  <2> QED BY <2>1, <2>2
<1>2. CASE Reselect
  <2>1. /\ selected' \in Nodes /\ selected' # none /\ Delayed
    BY <1>2, RequirementsAssumption DEF Reselect, Entry, Types
  <2>2. Types'
    BY <1>2, <2>1 DEF Reselect, Types, fixed, runVars, Entries
  <2>3. Entry'
    BY <1>2, <2>1 DEF Reselect, Entry
  <2> QED BY <2>2, <2>3
<1>3. CASE CSINodeNotFound
  <2>1. /\ selected # none /\ cache.keys = {} /\ cache' = cache
        /\ UNCHANGED clusterVars /\ pc' = "idle" /\ state' = "Reschedule"
    BY <1>3, RequirementsAssumption DEF CSINodeNotFound, Ends, topologyKeys, Types, Entries
  <2>2. Types'
    BY <2>1 DEF Types, clusterVars, fixed, runVars, Entries
  <2>3. Entry'
    BY <2>1 DEF Entry, clusterVars
  <2> QED BY <2>2, <2>3
<1>4. CASE NoTopologyKeys
  BY <1>0, <1>4, SameEntry DEF NoTopologyKeys, Ends, clusterVars, runVars
<1>5. CASE LabelsMissing
  <2>1. topologyKeys \in KeySets
    BY <1>5, Lookups DEF LabelsMissing
  <2> QED BY <1>5, <2>1, LabelsEntry DEF LabelsMissing, Ends
<1>6. CASE NotAllowed \/ NoTopologyFound
  <2>1. KnowsNode
    BY <1>6 DEF NotAllowed, NoTopologyFound, Prepared
  <2>2. selected # none => topologyKeys \in KeySets
    BY <2>1, NodeKnown
  <2> QED BY <1>6, <2>2, LabelsEntry DEF NotAllowed, NoTopologyFound, Ends
<1>7. CASE NotInRequisite
  BY <1>7, TermsEntry DEF NotInRequisite, Prepared, Ends
<1>8. CASE NoRequirements
  BY <1>8, TermsEntry DEF NoRequirements, Prepared, Requirements
<1>9. CASE Generate
  BY <1>9, TermsEntry DEF Generate, Prepared, Requirements
<1>10. CASE PrepareFails
  BY <1>0, <1>10, SameEntry DEF PrepareFails, Ends, clusterVars, runVars
<1>11. CASE CallCreateVolume
  <2>1. CASE state = "Reschedule"
    BY <1>11, <2>1 DEF CallCreateVolume, clusterVars, runVars, Types, Entry, fixed, Entries
  <2>2. CASE state # "Reschedule"
    BY <1>0, <1>11, <2>2, SameEntry DEF CallCreateVolume, clusterVars, runVars
  <2> QED BY <2>1, <2>2
<1>12. CASE CreateVolumeTimesOut
  BY <1>0, <1>12, SameEntry DEF CreateVolumeTimesOut, Ends, clusterVars, runVars
<1>13. CASE CreateVolumeEnds
  <2>1. /\ cache' = Empty /\ UNCHANGED clusterVars /\ pc' = "idle"
        /\ state' = "Reschedule" => selected # none
    BY <1>13 DEF CreateVolumeEnds, FinalResults
  <2>2. cache'.keys = {} /\ cache'.labels = {} /\ cache'.terms = {} /\ cache' \in Entries
    BY <2>1 DEF Empty, Entries
  <2>3. TermSet({})
    BY FS_EmptySet DEF TermSet
  <2>4. Types'
    BY <2>1, <2>2, <2>3 DEF Types, clusterVars, fixed, runVars, Entries
  <2>5. Entry'
    BY <2>1, <2>2 DEF Entry, clusterVars
  <2> QED BY <2>4, <2>5
<1>14. CASE UNCHANGED vars
  BY <1>14 DEF vars, fixed, runVars, Types, Entry, Entries
<1> QED BY <1>1, <1>2, <1>3, <1>4, <1>5, <1>6, <1>7, <1>8, <1>9, <1>10, <1>11, <1>12,
           <1>13, <1>14 DEF Next, Provision, GenerateAccessibilityRequirements

-----------------------------------------------------------------------------
(* What the entry determines.                                              *)

\* The topology of the selected node according to the entry.
CachedTopology == extractTopologyTerm(cache.labels, cache.keys)

\* The entry has everything that the requirements are computed from.
Complete ==
    /\ selected # none => cache.keys # {} /\ CachedTopology # none
    /\ Aggregates => cache.terms # {}

\* The requisite terms according to the entry,
CachedTerms ==
    IF selected # none /\ strict THEN {CachedTopology}
    ELSE IF allowed # <<>> THEN flatten(allowed) ELSE cache.terms

\* and the preferred ones.
CachedPreferred(terms) ==
    IF selected = none THEN Rotate(terms, PreferredOffset(name, Len(terms)))
    ELSE IF strict THEN terms
    ELSE LET found == {i \in DOMAIN terms : subset(terms[i], CachedTopology)}
         IN  IF found = {} THEN <<>> ELSE Rotate(terms, Min(found) - 1)

\* The requirements that follow from the entry alone.
Answer == [requisite |-> SortTerms(CachedTerms),
           preferred |-> CachedPreferred(SortTerms(CachedTerms))]

\* A request that the entry determines.
Determined(r) ==
    /\ Complete /\ ~NoTopologyNeeded /\ CachedTerms # {}
    /\ r = Answer /\ r.preferred # <<>>

\* The heart of the argument: what is being asked for, and what a call that may be
\* running was asked for, both follow from the claim's entry, its class and its name.
\* So they agree, and Nodes and CSINodes have no part in it any more.
Asked ==
    /\ pc = "idle" => req = NoReq
    /\ pc # "idle" => state = "ready"
    /\ pc = "ready" /\ Aggregates => req # NoReq
    /\ req # NoReq => Determined(req)
    /\ sent # NoReq => Determined(sent) /\ state \notin {"Reschedule", "success"}

\* The answer does not change while the entry does not.
LEMMA SameAnswer ==
    ASSUME UNCHANGED <<selected, fixed>>, cache'.keys = cache.keys,
           cache'.labels = cache.labels, cache'.terms = cache.terms
    PROVE  /\ Complete' = Complete /\ CachedTerms' = CachedTerms /\ Answer' = Answer
           /\ NoTopologyNeeded' = NoTopologyNeeded /\ Aggregates' = Aggregates
<1>1. NoTopologyNeeded' = NoTopologyNeeded /\ Aggregates' = Aggregates
  BY DEF NoTopologyNeeded, Aggregates, fixed
<1>2. CachedTopology' = CachedTopology
  BY DEF CachedTopology
<1>3. Complete' = Complete
  BY <1>1, <1>2 DEF Complete
<1>4. CachedTerms' = CachedTerms
  BY <1>2 DEF CachedTerms, fixed
<1>5. \A terms : CachedPreferred(terms)' = CachedPreferred(terms)
  BY <1>2 DEF CachedPreferred, fixed
<1>6. Answer' = Answer
  BY <1>4, <1>5 DEF Answer
<1> QED BY <1>1, <1>3, <1>4, <1>6

\* A complete entry is all that is used.
LEMMA CompleteEntry ==
    ASSUME Types, Complete
    PROVE  /\ KnowsNode
           /\ selected # none => /\ topologyKeys = cache.keys /\ nodeLabels = cache.labels
                                 /\ selectedTopology = CachedTopology
           /\ Aggregates => aggregateTopologies = cache.terms
<1>1. selected # none => topologyKeys = cache.keys /\ topologyKeys \notin {none, {}}
  BY RequirementsAssumption DEF Complete, topologyKeys, Types, Entries
<1>2. selected # none => nodeLabels = cache.labels
  BY <1>1 DEF Complete, CachedTopology, nodeLabels
<1>3. selected # none => selectedTopology = CachedTopology
  BY <1>1, <1>2 DEF CachedTopology, selectedTopology
<1>4. KnowsNode
  BY <1>1, <1>3 DEF KnowsNode, Complete
<1>5. Aggregates => aggregateTopologies = cache.terms
  BY DEF Complete, aggregateTopologies
<1> QED BY <1>1, <1>2, <1>3, <1>4, <1>5

\* An attempt does not change a complete entry.
LEMMA StoredSame ==
    ASSUME Types, Complete
    PROVE  /\ LabelsStored.keys = cache.keys /\ LabelsStored.labels = cache.labels
           /\ LabelsStored.terms = cache.terms
           /\ TermsStored.keys = cache.keys /\ TermsStored.labels = cache.labels
           /\ TermsStored.terms = cache.terms
<1>1. /\ KnowsNode
      /\ selected # none => topologyKeys = cache.keys /\ nodeLabels = cache.labels
      /\ Aggregates => aggregateTopologies = cache.terms
  BY CompleteEntry
<1>2. selected # none => topologyKeys \in KeySets
  BY <1>1, NodeKnown
<1> QED BY <1>1, <1>2, LabelsStoredFields, TermsStoredFields

\* After an attempt that has got as far as the terms, the entry is complete and
\* gives the requirements that the attempt has found.
LEMMA AfterTerms ==
    ASSUME Types, KnowsNode, ~NoTopologyNeeded, requisiteTerms # {},
           cache' = TermsStored, UNCHANGED clusterVars
    PROVE  /\ Complete' /\ CachedTerms' = requisiteTerms
           /\ \A terms : CachedPreferred(terms)' = preferredTerms(terms)
           /\ ~NoTopologyNeeded' /\ Aggregates' = Aggregates
<1>1. NoTopologyNeeded' = NoTopologyNeeded /\ Aggregates' = Aggregates
  BY DEF NoTopologyNeeded, Aggregates, clusterVars, fixed
<1>2. /\ cache'.keys = IF selected = none THEN cache.keys ELSE topologyKeys
      /\ cache'.labels = IF selected = none THEN cache.labels ELSE nodeLabels
      /\ cache'.terms = IF Aggregates THEN aggregateTopologies ELSE cache.terms
  BY TermsStoredFields
<1>3. selected # none => CachedTopology' = selectedTopology
  BY <1>2 DEF CachedTopology, selectedTopology
<1>4. Aggregates => requisiteTerms = aggregateTopologies
  BY Zenon DEF Aggregates, requisiteTerms
<1>5. selected # none => cache'.keys # {} /\ CachedTopology' # none
  BY <1>2, <1>3 DEF KnowsNode
<1>6. Complete'
  BY <1>1, <1>2, <1>4, <1>5 DEF Complete, clusterVars
<1>7. CachedTerms' = requisiteTerms
  <2>1. CASE selected # none /\ strict
    BY <1>3, <2>1, Zenon DEF CachedTerms, requisiteTerms, clusterVars, fixed
  <2>2. CASE ~(selected # none /\ strict) /\ allowed # <<>>
    BY <2>2, Zenon DEF CachedTerms, requisiteTerms, clusterVars, fixed
  <2>3. CASE ~(selected # none /\ strict) /\ allowed = <<>>
    <3>1. Aggregates
      BY <2>3 DEF Aggregates
    <3>2. CachedTerms' = cache'.terms
      BY <2>3 DEF CachedTerms, clusterVars, fixed
    <3> QED BY <1>2, <1>4, <3>1, <3>2
  <2> QED BY <2>1, <2>2, <2>3
<1>8. \A terms : CachedPreferred(terms)' = preferredTerms(terms)
  BY <1>3 DEF CachedPreferred, preferredTerms, clusterVars, fixed
<1> QED BY <1>1, <1>6, <1>7, <1>8

\* A step that leaves the entry's content alone keeps what has been asked for.
LEMMA SentKept ==
    ASSUME Asked, UNCHANGED <<selected, fixed, sent>>,
           sent # NoReq => /\ cache'.keys = cache.keys /\ cache'.labels = cache.labels
                           /\ cache'.terms = cache.terms
                           /\ state' \notin {"Reschedule", "success"}
    PROVE  sent' # NoReq => Determined(sent)' /\ state' \notin {"Reschedule", "success"}
<1> SUFFICES ASSUME sent # NoReq
             PROVE  Determined(sent)' /\ state' \notin {"Reschedule", "success"}
  OBVIOUS
<1>1. Determined(sent)
  BY DEF Asked
<1>2. /\ Complete' = Complete /\ CachedTerms' = CachedTerms /\ Answer' = Answer
      /\ NoTopologyNeeded' = NoTopologyNeeded
  BY SameAnswer
<1>3. Determined(sent)'
  BY <1>1, <1>2 DEF Determined
<1> QED BY <1>3

\* So does one that ends the attempt.
LEMMA EndsAsked ==
    ASSUME Types, Asked, NEW result, NEW entry, Ends(result, entry),
           sent # NoReq => /\ result \notin {"Reschedule", "success"}
                           /\ entry.keys = cache.keys /\ entry.labels = cache.labels
                           /\ entry.terms = cache.terms
    PROVE  Asked'
<1>1. /\ pc' = "idle" /\ state' = result /\ cache' = entry /\ req' = NoReq
      /\ UNCHANGED <<selected, fixed, sent>>
  BY DEF Ends, clusterVars
<1>2. sent' # NoReq => Determined(sent)' /\ state' \notin {"Reschedule", "success"}
  BY <1>1, SentKept
<1> QED BY <1>1, <1>2 DEF Asked

\* Asked is kept by every step.
LEMMA AskedStep ==
    Types /\ Entry /\ Asked /\ [Next]_vars => Asked'
<1> SUFFICES ASSUME Types, Entry, Asked, [Next]_vars PROVE Asked'
  OBVIOUS
<1>0. sent # NoReq => Complete /\ KnowsNode
  BY CompleteEntry DEF Asked, Determined
<1>1. CASE ClusterChanges \/ UNCHANGED vars
  <2>1. UNCHANGED <<selected, fixed, cache, pc, state, req, sent>>
    BY <1>1 DEF ClusterChanges, vars
  <2>2. /\ Complete' = Complete /\ CachedTerms' = CachedTerms /\ Answer' = Answer
        /\ NoTopologyNeeded' = NoTopologyNeeded /\ Aggregates' = Aggregates
    BY <2>1, SameAnswer
  <2> QED BY <2>1, <2>2 DEF Asked, Determined
<1>2. CASE Reselect
  <2>1. pc' = "idle" /\ req' = NoReq /\ sent' = NoReq
    BY <1>2 DEF Reselect, Asked
  <2> QED BY <2>1 DEF Asked
<1>3. CASE CSINodeNotFound
  <2>1. sent = NoReq
    BY <1>0, <1>3 DEF CSINodeNotFound, KnowsNode
  <2> QED BY <1>3, <2>1, EndsAsked DEF CSINodeNotFound
<1>4. CASE NoTopologyKeys
  BY <1>4, EndsAsked DEF NoTopologyKeys
<1>5. CASE LabelsMissing
  BY <1>0, <1>5, EndsAsked DEF LabelsMissing
<1>6. CASE NotAllowed \/ NoTopologyFound
  <2>1. Ends("NoChange", LabelsStored)
    BY <1>6 DEF NotAllowed, NoTopologyFound
  <2> QED BY <1>0, <2>1, EndsAsked, StoredSame
<1>7. CASE NotInRequisite
  <2>1. Ends("NoChange", TermsStored)
    BY <1>7 DEF NotInRequisite
  <2> QED BY <1>0, <2>1, EndsAsked, StoredSame
<1>8. CASE NoRequirements
  <2>1. /\ pc' = "ready" /\ state' = "ready" /\ req' = NoReq /\ cache' = TermsStored
        /\ UNCHANGED <<selected, fixed, sent>>
    BY <1>8 DEF NoRequirements, Requirements, clusterVars
  <2>2. sent' # NoReq => Determined(sent)' /\ state' \notin {"Reschedule", "success"}
    BY <1>0, <2>1, SentKept, StoredSame
  <2>3. ~Aggregates'
    <3>1. ~Aggregates
      BY <1>8 DEF NoRequirements, Aggregates
    <3> QED BY <2>1, <3>1 DEF Aggregates, NoTopologyNeeded, fixed
  <2> QED BY <2>1, <2>2, <2>3 DEF Asked
<1>9. CASE Generate
  <2> DEFINE terms == SortTerms(requisiteTerms)
             preferred == preferredTerms(terms)
             r == [requisite |-> terms, preferred |-> preferred]
  <2>1. KnowsNode /\ ~NoTopologyNeeded /\ requisiteTerms # {}
    BY <1>9 DEF Generate, Prepared
  <2>2. Requirements(r) /\ preferred # <<>>
    BY <1>9 DEF Generate
  <2>3. /\ pc' = "ready" /\ state' = "ready" /\ req' = r /\ cache' = TermsStored
        /\ UNCHANGED <<clusterVars, sent>> /\ UNCHANGED <<selected, fixed>>
    BY <2>2 DEF Requirements, clusterVars
  <2>4. sent' # NoReq => Determined(sent)' /\ state' \notin {"Reschedule", "success"}
    BY <1>0, <2>3, SentKept, StoredSame
  <2>5. /\ Complete' /\ CachedTerms' = requisiteTerms /\ ~NoTopologyNeeded'
        /\ \A x : CachedPreferred(x)' = preferredTerms(x)
    BY <2>1, <2>3, AfterTerms
  <2>6. req' = Answer'
    BY <2>3, <2>5 DEF Answer
  <2>7. req'.preferred # <<>>
    BY <2>2, <2>3
  <2>8. req' # NoReq
    BY <2>7 DEF NoReq
  <2>9. Determined(req)'
    BY <2>1, <2>5, <2>6, <2>7 DEF Determined
  <2> QED BY <2>3, <2>4, <2>8, <2>9 DEF Asked
<1>10. CASE PrepareFails
  BY <1>10, EndsAsked DEF PrepareFails
<1>11. CASE CallCreateVolume
  <2>1. /\ pc = "ready" /\ pc' = "call" /\ sent' = req
        /\ UNCHANGED <<selected, fixed, cache, state, req>>
    BY <1>11 DEF CallCreateVolume, clusterVars
  <2>2. /\ Complete' = Complete /\ CachedTerms' = CachedTerms /\ Answer' = Answer
        /\ NoTopologyNeeded' = NoTopologyNeeded /\ Aggregates' = Aggregates
    BY <2>1, SameAnswer
  <2> QED BY <2>1, <2>2 DEF Asked, Determined
<1>12. CASE CreateVolumeTimesOut
  BY <1>12, EndsAsked DEF CreateVolumeTimesOut
<1>13. CASE CreateVolumeEnds
  BY <1>13 DEF CreateVolumeEnds, Asked
<1> QED BY <1>1, <1>2, <1>3, <1>4, <1>5, <1>6, <1>7, <1>8, <1>9, <1>10, <1>11, <1>12,
           <1>13 DEF Next, Provision, GenerateAccessibilityRequirements

\* Inductive by itself; whatever the cluster does.
Inv == Types /\ Entry /\ Asked

\* It holds initially,
LEMMA InvInit == Init => Inv
<1> SUFFICES ASSUME Init PROVE Inv
  OBVIOUS
<1>1. Types
  <2>1. TermSet({})
    BY FS_EmptySet DEF TermSet
  <2> QED BY <2>1 DEF Init, Types, Empty, Entries
<1>2. Entry
  BY DEF Init, Entry, Empty
<1>3. Asked
  BY DEF Init, Asked
<1> QED BY <1>1, <1>2, <1>3 DEF Inv

\* and always.
LEMMA InvAlways == Spec => []Inv
<1>1. Inv /\ [Next]_vars => Inv'
  BY EntryStep, AskedStep DEF Inv
<1> QED BY InvInit, <1>1, PTL DEF Spec

\* Theorem: the parts of the entry are stored in order, and the selected node is
\* none exactly with immediate binding.
THEOREM TypeCorrect == Spec => []TypeOK
<1>1. Inv => TypeOK
  <2> SUFFICES ASSUME Inv PROVE TypeOK
    OBVIOUS
  <2>1. selected \in Nodes \cup {none} /\ (selected = none) = ~Delayed
    BY RequirementsAssumption DEF Inv, Types
  <2> QED BY <2>1 DEF Inv, Types, Entry, TypeOK
<1> QED BY <1>1, InvAlways, PTL

\* Theorem: while a call may be running GenerateAccessibilityRequirements gives the
\* same requirements in every retry, whatever Nodes and CSINodes do and for any
\* number of nodes, labels, changes and failed attempts.
THEOREM RetriesAskTheSame == Spec => RetrySame
<1>1. Inv /\ [Next]_vars => [sent # NoReq /\ sent' # NoReq => sent' = sent]_vars
  <2> SUFFICES ASSUME Inv, [Next]_vars, sent # NoReq, sent' # NoReq PROVE sent' = sent
    OBVIOUS
  <2>1. CallCreateVolume \/ sent' = sent \/ sent' = NoReq
    BY DEF Next, Provision, GenerateAccessibilityRequirements, ClusterChanges, Reselect,
           CSINodeNotFound, NoTopologyKeys, LabelsMissing, NotAllowed, NoTopologyFound,
           NotInRequisite, NoRequirements, Generate, Requirements, Ends, PrepareFails,
           CreateVolumeTimesOut, CreateVolumeEnds, vars
  <2>2. CASE CallCreateVolume
    <3>1. sent' = req /\ req # NoReq
      BY <2>2 DEF CallCreateVolume
    <3>2. sent = Answer /\ req = Answer
      BY <3>1 DEF Inv, Asked, Determined
    <3> QED BY <3>1, <3>2
  <2> QED BY <2>1, <2>2
<1> QED BY <1>1, InvAlways, PTL DEF Spec, RetrySame

-----------------------------------------------------------------------------
(* The requirements.                                                       *)

\* The terms that follow from the entry, and the node's among them.
LEMMA CachedTermSet ==
    ASSUME Types, Complete, ~NoTopologyNeeded
    PROVE  /\ TermSet(CachedTerms)
           /\ selected # none => /\ IsTerm(CachedTopology) /\ CachedTopology # {}
                                 /\ CachedTopology \subseteq cache.labels
                                 /\ cache.labels # {}
<1>1. selected # none => /\ IsTerm(CachedTopology) /\ CachedTopology # {}
                         /\ CachedTopology \subseteq cache.labels /\ cache.labels # {}
  <2> SUFFICES ASSUME selected # none
               PROVE  /\ IsTerm(CachedTopology) /\ CachedTopology # {}
                      /\ CachedTopology \subseteq cache.labels /\ cache.labels # {}
    OBVIOUS
  <2>1. KnowsNode /\ nodeLabels = cache.labels /\ selectedTopology = CachedTopology
    BY CompleteEntry
  <2> QED BY <2>1, NodeKnown
<1>2. CASE selected # none /\ strict
  <2>1. CachedTerms = {CachedTopology}
    BY <1>2 DEF CachedTerms
  <2> QED BY <1>1, <1>2, <2>1, FS_Singleton DEF TermSet
<1>3. CASE ~(selected # none /\ strict) /\ allowed # <<>>
  <2>1. CachedTerms = flatten(allowed)
    BY <1>3 DEF CachedTerms
  <2>2. allowed \in Seq(Seq(Expressions))
    BY RequirementsAssumption DEF Types
  <2> QED BY <1>1, <2>1, <2>2, FlattenDistributes DEF TermSet
<1>4. CASE ~(selected # none /\ strict) /\ allowed = <<>>
  <2>1. CachedTerms = cache.terms
    BY <1>4 DEF CachedTerms
  <2> QED BY <1>1, <2>1 DEF Types
<1> QED BY <1>2, <1>3, <1>4

\* What the requirements look like: requisite has each term once, preferred is a
\* rotation of it that starts with a term of the selected node.
LEMMA AnswerShape ==
    ASSUME Types, NEW r, Determined(r)
    PROVE  /\ r.requisite = SortTerms(CachedTerms)
           /\ TermSet(CachedTerms) /\ r.requisite \in Seq(CachedTerms)
           /\ Range(r.requisite) = CachedTerms /\ IsInjective(r.requisite)
           /\ r.preferred \in Seq(CachedTerms) /\ r.preferred # <<>>
           /\ Len(r.preferred) = Len(r.requisite) /\ Len(r.requisite) \in Nat \ {0}
           /\ \E i \in 0..Len(r.requisite) - 1 :
                 /\ r.preferred = Rotate(r.requisite, i)
                 /\ selected # none => Head(r.preferred) \subseteq CachedTopology
           /\ selected # none /\ strict => Len(r.requisite) = 1
<1> DEFINE s == SortTerms(CachedTerms)
           p == CachedPreferred(s)
<1>1. r.requisite = s /\ r.preferred = p /\ p # <<>>
  BY DEF Determined, Answer
<1>2. TermSet(CachedTerms)
  BY CachedTermSet DEF Determined
<1>3. /\ Cardinality(CachedTerms) \in Nat /\ s \in Seq(CachedTerms)
      /\ Len(s) = Cardinality(CachedTerms) /\ DOMAIN s = 1..Len(s)
      /\ Range(s) = CachedTerms /\ IsInjective(s)
  BY <1>2, SortTermsEnumerates DEF TermSet
<1>4. Len(s) \in Nat \ {0}
  <2>1. Cardinality(CachedTerms) # 0
    BY <1>2, FS_EmptySet DEF Determined, TermSet
  <2> QED BY <1>3, <2>1
<1> HIDE DEF s
<1>5. \E i \in 0..Len(s) - 1 :
         p = Rotate(s, i) /\ (selected # none => s[i + 1] \subseteq CachedTopology)
  <2>1. CASE selected = none
    <3>1. PreferredOffset(name, Len(s)) \in 0..Len(s) - 1
      BY <1>4, Offset DEF Types
    <3> QED BY <2>1, <3>1 DEF CachedPreferred
  <2>2. CASE selected # none /\ strict
    <3>1. CachedTerms = {CachedTopology}
      BY <2>2 DEF CachedTerms
    <3>2. s[1] = CachedTopology /\ 0 \in 0..Len(s) - 1
      BY <1>3, <1>4, <3>1
    <3>3. p = s
      BY <2>2 DEF CachedPreferred
    <3>4. Rotate(s, 0) = s
      <4>1. SubSeq(s, 0 + 1, Len(s)) = s
        BY <1>3
      <4>2. SubSeq(s, 1, 0) = <<>>
        BY <1>3
      <4> QED BY <1>3, <4>1, <4>2 DEF Rotate
    <3>5. 0 + 1 = 1
      OBVIOUS
    <3> QED BY <3>2, <3>3, <3>4, <3>5
  <2>3. CASE selected # none /\ ~strict
    <3> DEFINE found == {i \in DOMAIN s : subset(s[i], CachedTopology)}
    <3>1. p = IF found = {} THEN <<>> ELSE Rotate(s, Min(found) - 1)
      BY <2>3 DEF CachedPreferred
    <3>2. found # {} /\ p = Rotate(s, Min(found) - 1)
      BY <1>1, <3>1
    <3>3. found \in SUBSET Nat
      BY <1>3
    <3>4. Min(found) \in found
      BY <3>2, <3>3, MinInterval
    <3>5. Min(found) \in 1..Len(s) /\ subset(s[Min(found)], CachedTopology)
      BY <1>3, <3>4
    <3>6. IsTerm(s[Min(found)]) /\ IsTerm(CachedTopology)
      <4>1. s[Min(found)] \in CachedTerms
        BY <1>3, <3>5
      <4>2. IsTerm(CachedTopology)
        BY <2>3, CachedTermSet DEF Determined
      <4> QED BY <1>2, <4>1, <4>2 DEF TermSet
    <3>7. s[Min(found)] \subseteq CachedTopology
      BY <3>5, <3>6, SubsetSound
    <3> DEFINE i == Min(found) - 1
    <3>8. i \in 0..Len(s) - 1 /\ i + 1 = Min(found)
      BY <1>4, <3>5
    <3> QED BY <3>2, <3>7, <3>8
  <2> QED BY <2>1, <2>2, <2>3
<1>6. PICK i \in 0..Len(s) - 1 :
         p = Rotate(s, i) /\ (selected # none => s[i + 1] \subseteq CachedTopology)
  BY <1>5
<1>7. p \in Seq(CachedTerms) /\ Len(p) = Len(s) /\ Head(p) = s[i + 1]
  BY <1>3, <1>6, Rotation
<1>8. selected # none /\ strict => Len(s) = 1
  <2>1. selected # none /\ strict => CachedTerms = {CachedTopology}
    BY DEF CachedTerms
  <2> QED BY <1>3, <2>1, FS_Singleton
<1> QED BY <1>1, <1>2, <1>3, <1>4, <1>6, <1>7, <1>8 DEF s

\* One of the terms that flatten makes has one value for each expression of a term.
LEMMA AllowedTerm ==
    ASSUME allowed \in Seq(Seq(Expressions)), NEW t \in flatten(allowed)
    PROVE  \E i \in DOMAIN allowed :
              /\ keysOf(t) = {allowed[i][j].key : j \in DOMAIN allowed[i]}
              /\ \A j \in DOMAIN allowed[i] :
                    \E v \in allowed[i][j].values : <<allowed[i][j].key, v>> \in t
<1>1. PICK i \in {j \in DOMAIN allowed : allowed[j] # <<>>} :
         \E c \in Selections(allowed[i]) : t = Picked(allowed[i], Len(allowed[i]), c)
  BY FlattenDistributes
<1> DEFINE x == allowed[i]
<1>2. PICK c \in Selections(x) : t = Picked(x, Len(x), c)
  BY <1>1
<1>3. DOMAIN x = 1..Len(x)
  <2>1. x \in Seq(Expressions)
    BY <1>1
  <2> HIDE DEF x
  <2> QED BY <2>1
<1> HIDE DEF x
<1>4. \A j \in DOMAIN x : c[j] \in x[j].values
  BY DEF Selections
<1>5. t = {<<x[j].key, c[j]>> : j \in DOMAIN x}
  BY <1>2, <1>3 DEF Picked
<1>6. keysOf(t) = {x[j].key : j \in DOMAIN x}
  <2> DEFINE K == {x[j].key : j \in DOMAIN x}
  <2>1. ASSUME NEW k \in keysOf(t) PROVE k \in K
    <3>1. PICK p \in t : k = p[1]
      BY DEF keysOf
    <3>2. PICK j \in DOMAIN x : p = <<x[j].key, c[j]>>
      BY <1>5
    <3> QED BY <3>1, <3>2
  <2>2. ASSUME NEW j \in DOMAIN x PROVE x[j].key \in keysOf(t)
    <3>1. <<x[j].key, c[j]>> \in t /\ <<x[j].key, c[j]>>[1] = x[j].key
      BY <1>5
    <3> QED BY <3>1 DEF keysOf
  <2>3. \A k \in K : k \in keysOf(t)
    BY <2>2
  <2> HIDE DEF K
  <2>4. keysOf(t) = K
    BY <2>1, <2>3
  <2> QED BY <2>4 DEF K
<1>7. \A j \in DOMAIN x : \E v \in x[j].values : <<x[j].key, v>> \in t
  BY <1>4, <1>5
<1> QED BY <1>1, <1>6, <1>7 DEF x

\* With strict topology the topology asked for has been compared with the allowed
\* ones.
Compared ==
    req # NoReq /\ selected # none /\ strict /\ allowed # <<>> =>
        \E t \in flatten(allowed) : subset(t, CachedTopology)

\* Every attempt compares it again, and only Generate asks.
LEMMA ComparedStep ==
    Types /\ Asked /\ Compared /\ [Next]_vars => Compared'
<1> SUFFICES ASSUME Types, Asked, Compared, [Next]_vars PROVE Compared'
  OBVIOUS
<1>1. CASE ClusterChanges \/ CallCreateVolume \/ UNCHANGED vars
  <2>1. UNCHANGED <<selected, fixed, cache, req>>
    BY <1>1 DEF ClusterChanges, CallCreateVolume, clusterVars, vars
  <2>2. CachedTopology' = CachedTopology
    BY <2>1 DEF CachedTopology
  <2> QED BY <2>1, <2>2 DEF Compared, fixed
<1>2. CASE Generate
  <2> SUFFICES ASSUME selected' # none, strict', allowed' # <<>>
               PROVE  \E t \in flatten(allowed') : subset(t, CachedTopology')
    BY DEF Compared
  <2>1. /\ KnowsNode /\ ~NoTopologyNeeded /\ requisiteTerms # {} /\ StrictAllows
        /\ cache' = TermsStored /\ UNCHANGED clusterVars
    BY <1>2 DEF Generate, Prepared, Requirements
  <2>2. selected # none /\ strict /\ allowed # <<>> /\ allowed' = allowed
    BY <2>1 DEF clusterVars, fixed
  <2>3. CachedTerms' = requisiteTerms
    BY <2>1, AfterTerms
  <2>4. CachedTopology' = selectedTopology
    <3>1. CachedTerms' = {CachedTopology'}
      BY DEF CachedTerms
    <3>2. requisiteTerms = {selectedTopology}
      BY <2>2 DEF requisiteTerms
    <3> QED BY <2>3, <3>1, <3>2
  <2> QED BY <2>1, <2>2, <2>4 DEF StrictAllows
<1>3. CASE \/ Reselect \/ CSINodeNotFound \/ NoTopologyKeys \/ LabelsMissing
           \/ NotAllowed \/ NoTopologyFound \/ NotInRequisite \/ NoRequirements
           \/ PrepareFails \/ CreateVolumeTimesOut \/ CreateVolumeEnds
  <2>1. req' = NoReq
    BY <1>3 DEF Reselect, CSINodeNotFound, NoTopologyKeys, LabelsMissing, NotAllowed,
                NoTopologyFound, NotInRequisite, NoRequirements, Requirements, Ends,
                PrepareFails, CreateVolumeTimesOut, CreateVolumeEnds, Asked
  <2> QED BY <2>1 DEF Compared
<1> QED BY <1>1, <1>2, <1>3 DEF Next, Provision, GenerateAccessibilityRequirements

\* Theorem: the requirements name the allowed topologies and nothing else, for every
\* allowedTopologies with any number of terms, expressions and values.
THEOREM AllowedTopologiesOnly == Spec => []OnlyAllowed
<1>1. Inv /\ Compared => OnlyAllowed
  <2> SUFFICES ASSUME Inv, Compared, pc = "ready", allowed # <<>>,
                      NEW t \in Range(req.requisite)
               PROVE  \E i \in DOMAIN allowed :
                         /\ \/ selected # none /\ strict
                            \/ keysOf(t) = {allowed[i][j].key : j \in DOMAIN allowed[i]}
                         /\ \A j \in DOMAIN allowed[i] :
                               \E v \in allowed[i][j].values : <<allowed[i][j].key, v>> \in t
    BY DEF OnlyAllowed
  <2>1. req # NoReq
    BY DEF NoReq, Range
  <2>2. Determined(req) /\ Types
    BY <2>1 DEF Inv, Asked
  <2>3. t \in CachedTerms
    BY <2>2, AnswerShape
  <2>4. allowed \in Seq(Seq(Expressions))
    BY <2>2, RequirementsAssumption DEF Types
  <2>5. CASE ~(selected # none /\ strict)
    <3>1. t \in flatten(allowed)
      BY <2>3, <2>5 DEF CachedTerms
    <3> QED BY <2>4, <3>1, AllowedTerm
  <2>6. CASE selected # none /\ strict
    <3>1. t = CachedTopology
      BY <2>3, <2>6 DEF CachedTerms
    <3>2. PICK u \in flatten(allowed) : subset(u, t)
      BY <2>1, <2>6, <3>1 DEF Compared
    <3>3. IsTerm(u) /\ IsTerm(t)
      BY <2>2, <2>4, <2>6, <3>1, CachedTermSet, FlattenDistributes DEF Determined
    <3>4. u \subseteq t
      BY <3>2, <3>3, SubsetSound
    <3>5. PICK i \in DOMAIN allowed : \A j \in DOMAIN allowed[i] :
             \E v \in allowed[i][j].values : <<allowed[i][j].key, v>> \in u
      BY <2>4, AllowedTerm
    <3> QED BY <2>6, <3>4, <3>5
  <2> QED BY <2>5, <2>6
<1>2. Init => Compared
  BY DEF Init, Compared
<1>3. Inv /\ Compared /\ [Next]_vars => Compared'
  BY ComparedStep DEF Inv
<1> QED BY <1>1, <1>2, <1>3, InvAlways, PTL DEF Spec

\* The replicas of a set are spread over the terms.
LEMMA Spread ==
    ASSUME NEW nm \in Names, NEW n \in Nat \ {0}, nm.id # none,
           getPVCNameHashAndIndexOffset(nm).hash + nm.id + n <= 2^W
    PROVE  {PreferredOffset([nm EXCEPT !.id = nm.id + k], n) : k \in 0..n - 1} = 0..n - 1
<1> DEFINE h == Hash(<<nm.parts[Len(nm.parts)]>>)
           x == h + nm.id
<1>1. 2^W \in Nat \ {0}
  BY Power, WidthAssumption
<1>2. /\ nm \in [parts : Seq(STRING), id : Nat \cup {none}] /\ nm.id \in Nat
      /\ h \in Nat /\ Hash(Append(nm.parts, nm.id)) \in Nat /\ none \notin Nat
  BY <1>1, NamesAssumption
<1>3. nm.id < 2^W
  <2>1. getPVCNameHashAndIndexOffset(nm).hash \in Nat
    BY <1>2 DEF getPVCNameHashAndIndexOffset
  <2> QED BY <1>1, <1>2, <2>1
<1>4. x + n <= 2^W
  BY <1>3 DEF getPVCNameHashAndIndexOffset
<1>5. ASSUME NEW k \in 0..n - 1
      PROVE  PreferredOffset([nm EXCEPT !.id = nm.id + k], n) = (x + k) % n
  <2> DEFINE r == [nm EXCEPT !.id = nm.id + k]
  <2>1. r.parts = nm.parts /\ r.id = nm.id + k
    BY <1>2
  <2>2. r.id \in Nat /\ r.id < 2^W /\ r.id # none
    BY <1>1, <1>2, <1>4, <2>1
  <2> HIDE DEF r
  <2>3. /\ getPVCNameHashAndIndexOffset(r).hash = h
        /\ getPVCNameHashAndIndexOffset(r).index = nm.id + k
    BY <2>1, <2>2 DEF getPVCNameHashAndIndexOffset
  <2>4. h + (nm.id + k) = x + k /\ x + k \in Nat /\ x + k < 2^W
    BY <1>1, <1>2, <1>4
  <2>5. (x + k) % 2^W = x + k
    <3> DEFINE y == x + k
               m == 2^W
    <3>1. y \in Nat /\ m \in Nat /\ y < m
      BY <1>1, <2>4
    <3> HIDE DEF y, m
    <3>2. y % m = y
      BY <3>1
    <3> QED BY <3>2 DEF y, m
  <2>6. PreferredOffset(r, n) = (x + k) % n
    BY <2>3, <2>4, <2>5 DEF PreferredOffset
  <2> QED BY <2>6 DEF r
<1>6. x \in Nat
  BY <1>2
<1> HIDE DEF x
<1>7. \A k \in 0..n - 1 : (x + k) % n \in 0..n - 1
  <2> TAKE k \in 0..n - 1
  <2>1. x + k \in Nat
    BY <1>6
  <2> QED BY <2>1, Mod
<1>8. \A r \in 0..n - 1 : \E k \in 0..n - 1 : (x + k) % n = r
  BY <1>6, Remainders
<1> DEFINE f(k) == PreferredOffset([nm EXCEPT !.id = nm.id + k], n)
<1>9. \A k \in 0..n - 1 : f(k) = (x + k) % n
  BY <1>5
<1> HIDE DEF f
<1>10. {f(k) : k \in 0..n - 1} = 0..n - 1
  <2>1. \A k \in 0..n - 1 : f(k) \in 0..n - 1
    BY <1>7, <1>9
  <2>2. \A r \in 0..n - 1 : \E k \in 0..n - 1 : f(k) = r
    BY <1>8, <1>9
  <2> QED BY <2>1, <2>2
<1> QED BY <1>10 DEF f

\* Theorem: consecutive replicas prefer all the terms in turn, for any number of
\* terms, any hash and any index that do not overflow.
THEOREM ReplicasSpread == Spec => []RoundRobin
<1>1. Inv => RoundRobin
  <2> DEFINE n == Len(req.requisite)
  <2> SUFFICES ASSUME Inv, n > 0, name.id # none,
                      getPVCNameHashAndIndexOffset(name).hash + name.id + n <= 2^W
               PROVE  {PreferredOffset([name EXCEPT !.id = name.id + k], n) : k \in 0..n - 1}
                         = 0..n - 1
    BY DEF RoundRobin
  <2>1. n \in Nat
    <3>1. CASE req = NoReq
      BY <3>1 DEF NoReq
    <3>2. CASE req # NoReq
      BY <3>2, AnswerShape DEF Inv, Asked
    <3> QED BY <3>1, <3>2
  <2>2. name \in Names
    BY DEF Inv, Types
  <2> HIDE DEF n
  <2>3. n \in Nat \ {0}
    BY <2>1
  <2> QED BY <2>2, <2>3, Spread
<1> QED BY <1>1, InvAlways, PTL

-----------------------------------------------------------------------------
(* The entry and the cluster.                                              *)

\* While no label changes its value and no node goes, the labels in the entry are
\* still labels of the selected node.
Kept ==
    LabelsKept /\ cache.labels # {} =>
        labels[selected] # none /\ cache.labels \subseteq labels[selected]

\* The volume's affinity lets the selected node in.
Usable ==
    state = "success" /\ selected # none /\ LabelsKept /\ affinity # none =>
        labels[selected] # none /\ \E t \in affinity : t \subseteq labels[selected]

\* While no label changes its value and no node goes, the labels of a node grow.
LEMMA LabelsGrow ==
    ASSUME Types, ClusterChanges, LabelsKept', NEW n \in Nodes
    PROVE  /\ LabelsKept
           /\ labels[n] # none => labels'[n] # none /\ labels[n] \subseteq labels'[n]
<1>1. LabelsKept
  BY ClusterTypes DEF LabelsKept
<1>2. PICK m \in Nodes : NodeChanges(m) \/ CSINodeChanges(m) \/ NodeRemoved(m)
  BY DEF ClusterChanges
<1>3. CASE NodeChanges(m)
  <2>1. PICK l \in Labels : /\ labels' = [labels EXCEPT ![m] = l]
                            /\ Change(IF labels[m] = none \/ labels[m] \subseteq l
                                      THEN "label" ELSE "relabel")
    BY <1>3 DEF NodeChanges
  <2>2. labels[m] = none \/ labels[m] \subseteq l
    BY <2>1 DEF Change, LabelsKept
  <2>3. l # none
    BY RequirementsAssumption
  <2> QED BY <1>1, <2>1, <2>2, <2>3 DEF Types
<1>4. CASE CSINodeChanges(m)
  BY <1>1, <1>4 DEF CSINodeChanges
<1>5. CASE NodeRemoved(m)
  BY <1>5 DEF NodeRemoved, Change, LabelsKept
<1> QED BY <1>2, <1>3, <1>4, <1>5

\* Labels come into the entry from the selected node.
LEMMA LabelsRead ==
    ASSUME Types, Kept, UNCHANGED clusterVars,
           cache'.labels \in {cache.labels, nodeLabels} \/ cache'.labels = {},
           cache'.labels # none, cache'.labels # {} => selected # none
    PROVE  Kept'
<1> SUFFICES ASSUME LabelsKept, cache'.labels # {}
             PROVE  labels[selected] # none /\ cache'.labels \subseteq labels[selected]
  BY DEF Kept, LabelsKept, clusterVars, runVars
<1>1. CASE cache'.labels = cache.labels
  BY <1>1 DEF Kept
<1>2. CASE cache'.labels = nodeLabels /\ nodeLabels # cache.labels
  BY <1>2 DEF nodeLabels
<1> QED BY <1>1, <1>2

\* Kept is kept by every step.
LEMMA KeptStep ==
    Types /\ Entry /\ Kept /\ [Next]_vars => Kept'
<1> SUFFICES ASSUME Types, Entry, Kept, [Next]_vars PROVE Kept'
  OBVIOUS
<1>0. Types' /\ Entry'
  BY EntryStep
<1>1. CASE ClusterChanges
  <2>1. UNCHANGED <<selected, cache>>
    BY <1>1 DEF ClusterChanges
  <2> SUFFICES ASSUME LabelsKept', cache.labels # {}
               PROVE  labels'[selected] # none /\ cache.labels \subseteq labels'[selected]
    BY <2>1 DEF Kept
  <2>2. selected \in Nodes
    BY DEF Entry, Types
  <2> QED BY <1>1, <2>2, LabelsGrow DEF Kept
<1>2. CASE Reselect
  <2>1. cache'.labels = {}
    BY <1>2 DEF Reselect, Entry
  <2> QED BY <2>1 DEF Kept
<1>3. CASE \/ LabelsMissing \/ NotAllowed \/ NoTopologyFound
           \/ NotInRequisite \/ NoRequirements \/ Generate
  <2>1. UNCHANGED clusterVars
    BY <1>3 DEF LabelsMissing, NotAllowed, NoTopologyFound, NotInRequisite, NoRequirements,
                Generate, Ends, Requirements
  <2>2. cache'.labels \in {cache.labels, nodeLabels}
    <3>1. CASE cache' = LabelsStored /\ (selected # none => topologyKeys \in KeySets)
      BY <3>1, LabelsStoredFields
    <3>2. CASE cache' = TermsStored /\ KnowsNode
      BY <3>2, TermsStoredFields
    <3>3. KnowsNode /\ selected # none => topologyKeys \in KeySets
      BY NodeKnown
    <3>4. LabelsMissing => topologyKeys \in KeySets /\ cache' = LabelsStored
      BY Lookups DEF LabelsMissing, Ends
    <3>5. NotAllowed \/ NoTopologyFound => KnowsNode /\ cache' = LabelsStored
      BY DEF NotAllowed, NoTopologyFound, Prepared, Ends
    <3>6. NotInRequisite \/ NoRequirements \/ Generate => KnowsNode /\ cache' = TermsStored
      BY DEF NotInRequisite, NoRequirements, Generate, Prepared, Ends, Requirements
    <3> QED BY <1>3, <3>1, <3>2, <3>3, <3>4, <3>5, <3>6
  <2>3. cache'.labels \in Labels \cup {{}} /\ (cache'.labels # {} => selected # none)
    BY <1>0, <2>1 DEF Types, Entries, Entry, clusterVars
  <2>4. cache'.labels # none
    BY <2>3, RequirementsAssumption
  <2> QED BY <2>1, <2>2, <2>3, <2>4, LabelsRead
<1>4. CASE \/ CSINodeNotFound \/ NoTopologyKeys \/ PrepareFails \/ CallCreateVolume
           \/ CreateVolumeTimesOut \/ UNCHANGED vars
  <2>1. UNCHANGED <<cache, labels, selected, kinds>>
    BY <1>4 DEF CSINodeNotFound, NoTopologyKeys, PrepareFails, CallCreateVolume,
                CreateVolumeTimesOut, Ends, clusterVars, runVars, vars
  <2> QED BY <2>1 DEF Kept, LabelsKept
<1>5. CASE CreateVolumeEnds
  <2>1. cache'.labels = {}
    BY <1>5 DEF CreateVolumeEnds, Empty
  <2> QED BY <2>1 DEF Kept
<1> QED BY <1>1, <1>2, <1>3, <1>4, <1>5
        DEF Next, Provision, GenerateAccessibilityRequirements

\* The first of the preferred terms fits the selected node.
LEMMA PreferredFits ==
    ASSUME Types, Kept, Determined(req), selected # none, LabelsKept
    PROVE  /\ labels[selected] # none
           /\ Head(req.preferred) \subseteq labels[selected]
<1>1. Complete /\ ~NoTopologyNeeded
  BY DEF Determined
<1>2. CachedTopology \subseteq cache.labels /\ cache.labels # {}
  BY <1>1, CachedTermSet
<1>3. Head(req.preferred) \subseteq CachedTopology
  BY AnswerShape
<1> QED BY <1>2, <1>3 DEF Kept

\* Usable too: CreateVolumeEnds makes it from the preferred terms, and labels that
\* appear later do no harm.
LEMMA UsableStep ==
    Types /\ Entry /\ Asked /\ Kept /\ Usable /\ [Next]_vars => Usable'
<1> SUFFICES ASSUME Types, Entry, Asked, Kept, Usable, [Next]_vars,
                    state' = "success", selected' # none, LabelsKept', affinity' # none
             PROVE  /\ labels'[selected'] # none
                    /\ \E t \in affinity' : t \subseteq labels'[selected']
  BY DEF Usable
<1>1. CASE ClusterChanges
  <2>1. UNCHANGED <<selected, state, affinity>>
    BY <1>1 DEF ClusterChanges
  <2>2. selected \in Nodes
    BY <2>1 DEF Types
  <2>3. LabelsKept /\ (labels[selected] # none =>
                         labels'[selected] # none /\ labels[selected] \subseteq labels'[selected])
    BY <1>1, <2>2, LabelsGrow
  <2>4. labels[selected] # none /\ \E t \in affinity : t \subseteq labels[selected]
    BY <2>1, <2>3 DEF Usable
  <2> QED BY <2>1, <2>3, <2>4
<1>2. CASE CreateVolumeEnds
  <2>1. /\ pc = "call" /\ UNCHANGED clusterVars
        /\ \E n \in {0, Len(req.preferred)} \cup {k \in {1} : req.preferred # <<>>} :
              affinity' = GenerateVolumeNodeAffinity(SubSeq(req.preferred, 1, n))
    BY <1>2 DEF CreateVolumeEnds
  <2>2. PICK n \in {0, Len(req.preferred)} \cup {k \in {1} : req.preferred # <<>>} :
           affinity' = GenerateVolumeNodeAffinity(SubSeq(req.preferred, 1, n))
    BY <2>1
  <2> DEFINE p == req.preferred
             u == SubSeq(p, 1, n)
  <2>3. u # <<>> /\ affinity' = Range(u) \ {{}}
    BY <2>2 DEF GenerateVolumeNodeAffinity
  <2>4. Determined(req)
    <3>1. CASE req = NoReq
      <4>1. p = <<>> /\ n = 0
        BY <2>2, <3>1 DEF NoReq
      <4>2. u = <<>>
        BY <4>1
      <4> QED BY <2>3, <4>2
    <3> QED BY <3>1 DEF Asked
  <2>5. /\ p \in Seq(CachedTerms) /\ p # <<>> /\ TermSet(CachedTerms)
    BY <2>4, AnswerShape
  <2>6. selected # none /\ LabelsKept
    BY <2>1 DEF clusterVars, runVars, LabelsKept
  <2>7. labels[selected] # none /\ Head(p) \subseteq labels[selected]
    BY <2>4, <2>6, PreferredFits
  <2>8. n \in 1..Len(p) /\ Len(p) \in Nat
    <3>1. Len(p) \in Nat \ {0}
      BY <2>5
    <3>2. n # 0
      <4>1. n = 0 => u = <<>>
        OBVIOUS
      <4> QED BY <2>3, <4>1
    <3> QED BY <3>1, <3>2
  <2>9. 1 \in DOMAIN u /\ u[1] = p[1]
    <3> HIDE DEF p
    <3>1. u \in Seq(CachedTerms) /\ Len(u) = n /\ \A i \in 1..n : u[i] = p[i]
      BY <2>5, <2>8
    <3> HIDE DEF u
    <3> QED BY <2>8, <3>1
  <2>10. p[1] = Head(p) /\ p[1] # {}
    BY <2>5, <2>8 DEF TermSet
  <2>11. Head(p) \in affinity'
    <3> HIDE DEF p, u
    <3> QED BY <2>3, <2>9, <2>10 DEF Range
  <2> QED BY <2>1, <2>7, <2>11 DEF clusterVars
<1>3. CASE UNCHANGED vars
  BY <1>3 DEF vars, runVars, Usable, LabelsKept
<1>4. CASE Reselect \/ GenerateAccessibilityRequirements \/ PrepareFails
           \/ CreateVolumeTimesOut \/ CallCreateVolume
  <2>1. state' # "success"
    BY <1>4 DEF Reselect, GenerateAccessibilityRequirements, CSINodeNotFound, NoTopologyKeys,
                LabelsMissing, NotAllowed, NoTopologyFound, NotInRequisite, NoRequirements,
                Generate, Requirements, Ends, PrepareFails, CreateVolumeTimesOut,
                CallCreateVolume, Asked
  <2> QED BY <2>1
<1> QED BY <1>1, <1>2, <1>3, <1>4 DEF Next, Provision

\* Before the first change of the cluster the entry agrees with the informers.
FirstRead ==
    changes = 0 =>
        /\ cache.keys # {} => cache.keys = csi[selected]
        /\ cache.terms # {} =>
              cache.terms = IF selected = none THEN aggregateKeySets(csi, labels)
                            ELSE aggregateTopologiesForKeys(csi[selected], csi, labels)

\* FirstRead is kept by every step.
LEMMA FirstReadStep ==
    Types /\ Entry /\ FirstRead /\ [Next]_vars => FirstRead'
<1> SUFFICES ASSUME Types, Entry, FirstRead, [Next]_vars PROVE FirstRead'
  OBVIOUS
<1>1. CASE ClusterChanges
  <2>1. changes' = changes + 1 /\ changes \in Nat
    BY <1>1, ClusterTypes DEF Types
  <2>2. changes' # 0
    BY <2>1
  <2> QED BY <2>2 DEF FirstRead
<1>2. CASE Reselect \/ CreateVolumeEnds
  <2>1. CASE Reselect
    <3>1. cache.keys = {} /\ cache.terms = {}
      BY <2>1 DEF Reselect, Entry
    <3>2. cache' = cache
      BY <2>1 DEF Reselect
    <3> QED BY <3>1, <3>2 DEF FirstRead
  <2>2. CASE CreateVolumeEnds
    <3>1. cache' = Empty
      BY <2>2 DEF CreateVolumeEnds
    <3>2. Empty.keys = {} /\ Empty.terms = {}
      BY DEF Empty
    <3> QED BY <3>1, <3>2 DEF FirstRead
  <2> QED BY <1>2, <2>1, <2>2
<1>3. CASE LabelsMissing \/ NotAllowed \/ NoTopologyFound
  <2>1. /\ selected # none => topologyKeys \in KeySets
        /\ cache' = LabelsStored /\ UNCHANGED clusterVars
    <3>1. LabelsMissing => topologyKeys \in KeySets
      BY Lookups DEF LabelsMissing
    <3>2. NotAllowed \/ NoTopologyFound => KnowsNode
      BY DEF NotAllowed, NoTopologyFound, Prepared
    <3>3. KnowsNode /\ selected # none => topologyKeys \in KeySets
      BY NodeKnown
    <3> QED BY <1>3, <3>1, <3>2, <3>3 DEF LabelsMissing, NotAllowed, NoTopologyFound, Ends
  <2>2. /\ cache'.keys = IF selected = none THEN cache.keys ELSE topologyKeys
        /\ cache'.terms = cache.terms
    BY <2>1, LabelsStoredFields
  <2> QED BY <2>1, <2>2 DEF FirstRead, topologyKeys, clusterVars, runVars
<1>4. CASE NotInRequisite \/ NoRequirements \/ Generate
  <2>1. KnowsNode /\ cache' = TermsStored /\ UNCHANGED clusterVars
    BY <1>4 DEF NotInRequisite, NoRequirements, Generate, Prepared, Ends, Requirements
  <2>2. /\ cache'.keys = IF selected = none THEN cache.keys ELSE topologyKeys
        /\ cache'.terms = IF Aggregates THEN aggregateTopologies ELSE cache.terms
    BY <2>1, TermsStoredFields
  <2>3. changes = 0 => topologyKeys = csi[selected]
    BY DEF FirstRead, topologyKeys
  <2>4. UNCHANGED <<csi, labels, selected, changes>>
    BY <2>1 DEF clusterVars, runVars
  <2>5. changes = 0 /\ aggregateTopologies # {} =>
           aggregateTopologies = IF selected = none THEN aggregateKeySets(csi, labels)
                                 ELSE aggregateTopologiesForKeys(csi[selected], csi, labels)
    BY <2>3 DEF FirstRead, aggregateTopologies
  <2> QED BY <2>2, <2>3, <2>4, <2>5 DEF FirstRead
<1>5. CASE \/ CSINodeNotFound \/ NoTopologyKeys \/ PrepareFails \/ CallCreateVolume
           \/ CreateVolumeTimesOut \/ UNCHANGED vars
  <2>1. UNCHANGED <<cache, labels, selected, csi, changes>>
    BY <1>5 DEF CSINodeNotFound, NoTopologyKeys, PrepareFails, CallCreateVolume,
                CreateVolumeTimesOut, Ends, clusterVars, runVars, vars
  <2> QED BY <2>1 DEF FirstRead
<1> QED BY <1>1, <1>2, <1>3, <1>4, <1>5
        DEF Next, Provision, GenerateAccessibilityRequirements

\* The terms that aggregation finds are those of nodes under keys that they registered.
LEMMA TermOfNode ==
    ASSUME Types, NEW keys, keys # {},
           NEW t \in aggregateTopologiesForKeys(keys, csi, labels)
    PROVE  \E n \in Nodes : /\ csi[n] # none /\ labels[n] # none
                            /\ keysOf(t) \subseteq csi[n] /\ t \subseteq labels[n]
<1>1. PICK n \in DOMAIN csi : /\ csi[n] \notin {none, {}} /\ keys \subseteq csi[n]
                              /\ t = extractTopologyTerm(labels[n], keys) /\ t # none
  BY DEF aggregateTopologiesForKeys, registered
<1>2. n \in Nodes /\ labels[n] \in Labels \cup {none, {}}
  BY DEF Types
<1>3. labels[n] # none /\ t = {p \in labels[n] : p[1] \in keys}
  BY <1>1 DEF extractTopologyTerm
<1>4. keysOf(t) \subseteq keys
  BY <1>3 DEF keysOf
<1> QED BY <1>1, <1>2, <1>3, <1>4

\* The inductive invariant with what relates the entry to the cluster.
IInv == Inv /\ Kept /\ Usable /\ FirstRead

\* It always holds.
LEMMA IInvAlways == Spec => []IInv
<1>1. Init => IInv
  <2> SUFFICES ASSUME Init PROVE IInv
    OBVIOUS
  <2>1. cache.keys = {} /\ cache.labels = {} /\ cache.terms = {} /\ state = "start"
    BY DEF Init, Empty
  <2> QED BY <2>1, InvInit DEF IInv, Kept, Usable, FirstRead
<1>2. IInv /\ [Next]_vars => IInv'
  BY EntryStep, AskedStep, KeptStep, UsableStep, FirstReadStep DEF IInv, Inv
<1> QED BY <1>1, <1>2, PTL DEF Spec

\* Theorem: preferred is a rotation of requisite that starts with the topology of
\* the selected node, also after the claim was rescheduled.
THEOREM SelectedNodeFirst == Spec => []SelectedFirst
<1>1. IInv => SelectedFirst
  <2> SUFFICES ASSUME IInv, req.preferred # <<>>
               PROVE  /\ \E i \in 0..Len(req.preferred) - 1 :
                            req.preferred = Rotate(req.requisite, i)
                      /\ selected # none /\ LabelsKept =>
                            /\ labels[selected] # none
                            /\ Head(req.preferred) \subseteq labels[selected]
                      /\ selected # none /\ strict => Len(req.preferred) = 1
    BY DEF SelectedFirst
  <2>1. Types /\ Kept /\ Determined(req)
    BY DEF IInv, Inv, Asked, NoReq
  <2>2. selected # none /\ LabelsKept =>
           labels[selected] # none /\ Head(req.preferred) \subseteq labels[selected]
    BY <2>1, PreferredFits
  <2>3. /\ Len(req.preferred) = Len(req.requisite)
        /\ \E i \in 0..Len(req.requisite) - 1 : req.preferred = Rotate(req.requisite, i)
        /\ selected # none /\ strict => Len(req.requisite) = 1
    BY <2>1, AnswerShape
  <2> QED BY <2>2, <2>3
<1> QED BY <1>1, IInvAlways, PTL

\* Theorem: the selected node can use the volume, whichever of the preferred terms
\* the driver reports.
THEOREM ProvisionedVolumeUsable == Spec => []VolumeUsable
<1>1. IInv => VolumeUsable
  BY DEF IInv, Usable, VolumeUsable, VolumeIsAccessible
<1> QED BY <1>1, IInvAlways, PTL

\* Theorem: a first attempt asks for the topology of every node under the keys that
\* the node itself registered, for nothing else, and for no topology twice.
THEOREM NodesAggregatedOnce == Spec => []EachNodeOnce
<1>1. IInv => EachNodeOnce
  <2> SUFFICES ASSUME IInv, pc = "ready", changes = 0, Aggregates
               PROVE  /\ \A n \in Nodes :
                           ~Delayed /\ csi[n] \notin {none, {}} /\ labels[n] # none
                             /\ csi[n] \subseteq keysOf(labels[n]) =>
                           {p \in labels[n] : p[1] \in csi[n]} \in Range(req.requisite)
                      /\ \A t \in Range(req.requisite) : \E n \in Nodes :
                           /\ csi[n] # none /\ labels[n] # none
                           /\ keysOf(t) \subseteq csi[n] /\ t \subseteq labels[n]
                      /\ IsInjective(req.requisite)
    BY DEF EachNodeOnce
  <2>1. Types /\ Determined(req)
    BY DEF IInv, Inv, Asked
  <2>2. CachedTerms = cache.terms /\ CachedTerms # {}
    BY <2>1 DEF CachedTerms, Aggregates, Determined
  <2>3. Range(req.requisite) = cache.terms /\ IsInjective(req.requisite)
    BY <2>1, <2>2, AnswerShape
  <2>4. cache.terms = IF selected = none THEN aggregateKeySets(csi, labels)
                      ELSE aggregateTopologiesForKeys(csi[selected], csi, labels)
    BY <2>2 DEF IInv, FirstRead
  <2>5. ASSUME NEW n \in Nodes, ~Delayed, csi[n] \notin {none, {}}, labels[n] # none,
               csi[n] \subseteq keysOf(labels[n])
        PROVE  {p \in labels[n] : p[1] \in csi[n]} \in cache.terms
    <3>1. n \in registered(csi) /\ labels[n] \in Labels \cup {none, {}}
      BY <2>1, <2>5 DEF registered, Types
    <3> DEFINE t == extractTopologyTerm(labels[n], csi[n])
    <3>2. t # none /\ t = {p \in labels[n] : p[1] \in csi[n]}
      <4>1. csi[n] # {} /\ labels[n] # none /\ csi[n] \subseteq keysOf(labels[n])
        BY <2>5
      <4>2. t # none
        BY <3>1, <4>1, Extract
      <4> QED BY <4>1, <4>2 DEF extractTopologyTerm
    <3>3. t \in aggregateTopologiesForKeys(csi[n], csi, labels)
      BY <3>1, <3>2 DEF aggregateTopologiesForKeys
    <3>4. t \in aggregateKeySets(csi, labels)
      BY <3>1, <3>3 DEF aggregateKeySets, distinctTopologyKeySets
    <3>5. selected = none
      BY <2>1, <2>5 DEF Types
    <3> QED BY <2>4, <3>2, <3>4, <3>5
  <2>6. ASSUME NEW t \in cache.terms
        PROVE  \E n \in Nodes : /\ csi[n] # none /\ labels[n] # none
                                /\ keysOf(t) \subseteq csi[n] /\ t \subseteq labels[n]
    <3>1. CASE selected = none
      <4>1. PICK keys \in distinctTopologyKeySets(csi) :
               t \in aggregateTopologiesForKeys(keys, csi, labels)
        BY <2>4, <3>1 DEF aggregateKeySets
      <4>2. keys # {}
        BY DEF distinctTopologyKeySets, registered
      <4> QED BY <2>1, <4>1, <4>2, TermOfNode
    <3>2. CASE selected # none
      <4>1. cache.keys # {} /\ cache.keys = csi[selected]
        BY <2>1, <3>2 DEF Determined, Complete, IInv, FirstRead
      <4>2. t \in aggregateTopologiesForKeys(csi[selected], csi, labels)
        BY <2>4, <3>2
      <4>3. csi[selected] # {}
        BY <4>1
      <4> QED BY <2>1, <4>2, <4>3, TermOfNode
    <3> QED BY <3>1, <3>2
  <2> QED BY <2>3, <2>5, <2>6
<1> QED BY <1>1, IInvAlways, PTL
============================================================================
