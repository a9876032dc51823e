--------------------- MODULE AccessibilityRequirements ---------------------
(***************************************************************************)
(* The attempts to provision one claim with a driver that supports         *)
(* topology: GenerateAccessibilityRequirements computes where the volume   *)
(* may be from Node and CSINode objects that change, and keeps what it has *)
(* read in the claim's entry of pvcNodeStore, so that a retry of a call    *)
(* that may still be running asks for the same.  The entry is used part by *)
(* part, and forgotten when CreateVolume has a final answer.               *)
(***************************************************************************)
EXTENDS Topology

CONSTANTS
    Nodes, Labels, KeySets,     \* labels and registered keys that nodes have
    Delayed,                    \* the class's binding mode
    Strict, ImmediateTopology,  \* values of the flags
    AllowedTopologies,          \* allowedTopologies of storage classes
    Names,                      \* names of claims
    Env,      \* what changes: "label" (a label or Node appears), "relabel",
              \* "register" (a driver starts), "unregister", "remove" (a node
              \* goes), "later" (errors after the requirements are known)
    MaxChanges

ASSUME RequirementsAssumption ==
    /\ none \notin Nodes /\ IsFiniteSet(Nodes) /\ MaxChanges \in Nat
    /\ Delayed \in BOOLEAN
    /\ none # {} /\ {none, {}} \cap KeySets = {}
    /\ \A l \in Labels : IsTerm(l) /\ \A t \in SUBSET l : t # none
    /\ AllowedTopologies \subseteq Seq(Seq(Expressions))

ASSUME NamesAssumption ==
    /\ none \notin Nat
    /\ \A n \in Names : /\ n \in [parts : Seq(STRING), id : Nat \cup {none}]
                        /\ Hash(<<n.parts[Len(n.parts)]>>) \in 0..2^W - 1
                        /\ Hash(Append(n.parts, n.id)) \in 0..2^W - 1

VARIABLES
    csi, labels,       \* informers: keys of CSINodes and labels of Nodes
    selected,          \* selected node, none with immediate binding
    allowed, name,     \* of the claim and its class
    strict, immediateTopology, \* flags
    cache,             \* entry in pvcNodeStore: [keys, labels, terms]
    pc, state,         \* place in Provision, and the last result
    req,               \* requirements of this attempt: [requisite, preferred]
    sent,              \* those of a call that may be running
    affinity,          \* node affinity of the volume
    changes, kinds     \* changes of the cluster so far: number, which

fixed == <<allowed, name, strict, immediateTopology>>
runVars == <<changes, kinds>>
vars == <<csi, labels, selected, fixed, cache, pc, state, req, sent, affinity,
          runVars>>
clusterVars == <<csi, labels, selected, fixed, runVars>>

Empty == [keys |-> {}, labels |-> {}, terms |-> {}]
NoReq == [requisite |-> <<>>, preferred |-> <<>>]

Init ==
    /\ csi \in [Nodes -> KeySets \cup {{}, none}]
    /\ labels \in [Nodes -> Labels \cup {none}]
    /\ selected \in IF Delayed THEN Nodes ELSE {none}
    /\ allowed \in AllowedTopologies /\ name \in Names
    /\ strict \in Strict /\ immediateTopology \in ImmediateTopology
    /\ cache = Empty /\ pc = "idle" /\ state = "start"
    /\ req = NoReq /\ sent = NoReq /\ affinity = none
    /\ changes = 0 /\ kinds = {}

-----------------------------------------------------------------------------
(* The cluster.                                                            *)

Change(what) ==
    /\ what \in Env /\ changes < MaxChanges
    /\ changes' = changes + 1 /\ kinds' = kinds \cup {what}

NodeChanges(n) ==
    /\ \E l \in Labels \ {labels[n]} :
          /\ labels' = [labels EXCEPT ![n] = l]
          /\ Change(IF labels[n] = none \/ labels[n] \subseteq l THEN "label"
                                                             ELSE "relabel")
    /\ UNCHANGED csi

CSINodeChanges(n) ==
    /\ \/ /\ csi[n] \in {none, {}} /\ Change("register")
          /\ \E keys \in KeySets : csi' = [csi EXCEPT ![n] = keys]
       \/ /\ csi[n] \notin {none, {}} /\ Change("unregister")
          /\ csi' = [csi EXCEPT ![n] = {}]
    /\ UNCHANGED labels

NodeRemoved(n) ==
    /\ labels[n] # none /\ Change("remove")
    /\ labels' = [labels EXCEPT ![n] = none]
    /\ csi' = [csi EXCEPT ![n] = none]

ClusterChanges ==
    /\ \E n \in Nodes : NodeChanges(n) \/ CSINodeChanges(n) \/ NodeRemoved(n)
    /\ UNCHANGED <<selected, fixed, cache, pc, state, req, sent, affinity>>

\* The annotation was removed and the scheduler has chosen again.
Reselect ==
    /\ pc = "idle" /\ state = "Reschedule"
    /\ selected' \in Nodes
    /\ state' = "start"
    /\ UNCHANGED <<csi, labels, fixed, cache, pc, req, sent, affinity, runVars>>

-----------------------------------------------------------------------------
(* GenerateAccessibilityRequirements.  Each part comes from the cache if   *)
(* it is there.                                                            *)

topologyKeys == IF cache.keys # {} THEN cache.keys ELSE csi[selected]

CachedLabels == IF cache.labels # {} THEN cache.labels ELSE labels[selected]

nodeLabels ==
    IF extractTopologyTerm(cache.labels, topologyKeys) # none THEN cache.labels
                                                              ELSE labels[selected]

selectedTopology == extractTopologyTerm(nodeLabels, topologyKeys)

aggregateTopologies ==
    IF cache.terms # {} THEN cache.terms
    ELSE IF selected = none THEN aggregateKeySets(csi, labels)
    ELSE aggregateTopologiesForKeys(topologyKeys, csi, labels)

KnowsNode == selected # none => topologyKeys \notin {none, {}} /\ selectedTopology # none
NoTopologyNeeded == selected = none /\ allowed = <<>> /\ ~immediateTopology
Aggregates == allowed = <<>> /\ ~(selected # none /\ strict) /\ ~NoTopologyNeeded

requisiteTerms ==
    CASE selected # none /\ strict -> {selectedTopology}
      [] allowed # <<>> /\ ~(selected # none /\ strict) -> flatten(allowed)
      [] OTHER -> aggregateTopologies

KeysNotStored == cache

\* What an attempt adds to the entry, as far as it gets.
KeysStored == IF selected = none THEN cache ELSE [cache EXCEPT !.keys = topologyKeys]
LabelsStored ==
    IF selected = none \/ nodeLabels \in {none, {}} THEN KeysStored
    ELSE [KeysStored EXCEPT !.labels = nodeLabels]
EntryWithoutTerms == LabelsStored
TermsStored ==
    IF Aggregates THEN [LabelsStored EXCEPT !.terms = aggregateTopologies]
                  ELSE LabelsStored

Ends(result, entry) ==
    /\ pc' = "idle" /\ state' = result /\ cache' = entry
    /\ req' = NoReq
    /\ UNCHANGED <<clusterVars, sent, affinity>>

Start == pc = "idle" /\ state \notin {"Reschedule", "success"}

\* The CSINode is not found, so that the scheduler has to choose again.
CSINodeNotFound ==
    /\ Start /\ selected # none /\ topologyKeys = none
    /\ Ends("Reschedule", cache)

NoTopologyKeys ==
    /\ Start /\ selected # none /\ topologyKeys = {}
    /\ Ends("NoChange", cache)

LabelsMissing ==
    /\ Start /\ selected # none /\ topologyKeys \notin {none, {}}
    /\ ~KnowsNode
    /\ Ends("NoChange", LabelsStored)

Prepared == Start /\ KnowsNode

StrictAllows ==
    selected # none /\ strict /\ allowed # <<>> =>
        \E t \in flatten(allowed) : subset(t, selectedTopology)

NotAllowed ==
    /\ Prepared /\ ~StrictAllows
    /\ Ends("NoChange", LabelsStored)

NoTopologyFound ==
    /\ Prepared /\ Aggregates /\ aggregateTopologies = {}
    /\ Ends("NoChange", LabelsStored)

\* The selected node's term, or a rotation by the claim's name.
preferredTerms(terms) ==
    IF selected = none THEN Rotate(terms, PreferredOffset(name, Len(terms)))
    ELSE IF strict THEN terms
    ELSE LET found == {i \in DOMAIN terms : subset(terms[i], selectedTopology)}
         IN  IF found = {} THEN <<>> ELSE Rotate(terms, Min(found) - 1)

NotInRequisite ==
    /\ Prepared /\ StrictAllows /\ ~NoTopologyNeeded /\ requisiteTerms # {}
    /\ \E terms \in {SortTerms(requisiteTerms)} : preferredTerms(terms) = <<>>
    /\ Ends("NoChange", TermsStored)

Requirements(r) ==
    /\ pc' = "ready" /\ state' = "ready" /\ req' = r
    /\ cache' = TermsStored
    /\ UNCHANGED <<clusterVars, sent, affinity>>

\* Nothing to ask for, or allowedTopologies had only empty entries.
NoRequirements ==
    /\ Prepared /\ StrictAllows
    /\ ~NoTopologyNeeded => ~Aggregates /\ requisiteTerms = {}
    /\ Requirements(NoReq)

Generate ==
    /\ Prepared /\ StrictAllows /\ ~NoTopologyNeeded /\ requisiteTerms # {}
    /\ \E terms \in {SortTerms(requisiteTerms)} :
       \E preferred \in {preferredTerms(terms)} \ {<<>>} :
          Requirements([requisite |-> terms, preferred |-> preferred])

GenerateAccessibilityRequirements ==
    \/ CSINodeNotFound \/ NoTopologyKeys \/ LabelsMissing \/ NotAllowed
    \/ NoTopologyFound \/ NotInRequisite \/ NoRequirements \/ Generate

-----------------------------------------------------------------------------
(* The rest of Provision.                                                  *)

\* A secret or VolumeAttributesClass is missing, or the class is wrong.
PrepareFails ==
    /\ pc = "ready" /\ "later" \in Env
    /\ \E result \in {"NoChange", "Finished"} : Ends(result, cache)

CallCreateVolume ==
    /\ pc = "ready" /\ pc' = "call"
    /\ sent' = req
    /\ UNCHANGED <<clusterVars, cache, state, req, affinity>>

\* A timeout, or a volume that is too small, has no content or cannot be translated
\* (it is retried as well).
CreateVolumeTimesOut ==
    /\ pc = "call"
    /\ Ends("Background", cache)

FinalResults == {"success", "Finished"} \cup {s \in {"Reschedule"} : selected # none}

RescheduleKeepsEntry ==
    /\ pc = "call" /\ pc' = "idle" /\ state' \in FinalResults
    /\ cache' = IF state' = "Reschedule" THEN cache ELSE Empty
    /\ req' = NoReq /\ sent' = NoReq
    /\ UNCHANGED <<clusterVars, affinity>>

\* The driver reports no topology, the preferred one, or all of them.
CreateVolumeEnds ==
    /\ pc = "call" /\ pc' = "idle" /\ state' \in FinalResults
    /\ cache' = Empty
    /\ req' = NoReq /\ sent' = NoReq
    /\ \/ /\ state' = "success"
          /\ \E n \in {0, Len(req.preferred)} \cup {k \in {1} : req.preferred # <<>>} :
                affinity' = GenerateVolumeNodeAffinity(SubSeq(req.preferred, 1, n))
       \/ state' # "success" /\ UNCHANGED affinity
    /\ UNCHANGED clusterVars

Provision ==
    \/ GenerateAccessibilityRequirements
    \/ PrepareFails \/ CallCreateVolume \/ CreateVolumeTimesOut \/ CreateVolumeEnds

Next == ClusterChanges \/ Reselect \/ Provision

Spec == Init /\ [][Next]_vars

\* The claim is retried, and a rescheduled claim is scheduled again.
FairSpec == Spec /\ WF_vars(GenerateAccessibilityRequirements) /\ WF_vars(Reselect)

-----------------------------------------------------------------------------
(* Properties.                                                             *)

TypeOK ==
    /\ selected \in Nodes \cup {none} /\ (selected = none) = ~Delayed
    /\ pc \in {"idle", "ready", "call"}
    /\ cache.terms # {} /\ selected # none => cache.labels # {}
    /\ cache.labels # {} => cache.keys # {}

\* While a call may be running the retries ask for the same topology, although
\* Nodes and CSINodes change and attempts fail in between.
RetrySame == [][sent # NoReq /\ sent' # NoReq => sent' = sent]_vars

\* The labels that attempts have read are still those of the nodes.
LabelsKept == kinds \cap {"relabel", "remove"} = {}

\* README: "Preferred = Requisite with selected node topology as first element"
\* (with strict topology Requisite = Preferred = selected node topology), and
\* for immediate binding a rotation of Requisite; also when the claim was
\* rescheduled before and its entry was about another node.
SelectedFirst ==
    LET p == req.preferred IN
    p # <<>> =>
        /\ \E i \in 0..Len(p) - 1 : p = Rotate(req.requisite, i)
        /\ selected # none /\ LabelsKept =>
              labels[selected] # none /\ Head(p) \subseteq labels[selected]
        /\ selected # none /\ strict => Len(p) = 1

\* The pod of the claim can use the volume: the node affinity made from what the
\* driver reports lets the selected node in.
VolumeUsable ==
    state = "success" /\ selected # none /\ LabelsKept =>
        VolumeIsAccessible(affinity, labels[selected])

\* "A node is only aggregated under the keys that its CSINode registered for
\* the driver", and none is left out because it registered fewer keys than
\* another (README).  For the first attempt.
EachNodeOnce ==
    pc = "ready" /\ changes = 0 /\ Aggregates =>
        LET terms == Range(req.requisite) IN
        /\ \A n \in Nodes : ~Delayed /\ csi[n] \notin {none, {}} /\ labels[n] # none
                             /\ csi[n] \subseteq keysOf(labels[n]) =>
              {p \in labels[n] : p[1] \in csi[n]} \in terms
        /\ \A t \in terms : \E n \in Nodes : /\ csi[n] # none /\ labels[n] # none
                                             /\ keysOf(t) \subseteq csi[n]
                                             /\ t \subseteq labels[n]
        /\ IsInjective(req.requisite)

\* The requirements name the allowed topologies and nothing else: one value for
\* each expression of one term.  With strict topology they name the selected node,
\* which has these and may have other keys.
OnlyAllowed ==
    pc = "ready" /\ allowed # <<>> =>
        \A t \in Range(req.requisite) : \E i \in DOMAIN allowed :
            /\ \/ selected # none /\ strict
               \/ keysOf(t) = {allowed[i][j].key : j \in DOMAIN allowed[i]}
            /\ \A j \in DOMAIN allowed[i] :
                   \E v \in allowed[i][j].values : <<allowed[i][j].key, v>> \in t

\* "Offset by the statefulsetID, so we round-robin across zones": the claims of
\* as many consecutive replicas as there are terms all prefer different ones,
\* unless hash and index add up to more than an integer can hold.
RoundRobin ==
    LET n == Len(req.requisite)
        h == getPVCNameHashAndIndexOffset(name)
    IN  pc = "ready" /\ selected = none /\ n > 0
            /\ name.id # none /\ h.hash + name.id + n <= 2^W =>
        {PreferredOffset([name EXCEPT !.id = name.id + k], n) : k \in 0..n - 1} = 0..n - 1

\* "This should be temporary and a retry should eventually succeed": once the
\* selected node is registered and labelled, requirements are found.  A driver
\* that is unregistered for a while may leave terms without its node in the
\* entry, and a node whose labels change a term that no node has.
Healthy == /\ selected # none /\ csi[selected] \notin {none, {}}
           /\ labels[selected] # none /\ csi[selected] \subseteq keysOf(labels[selected])
EventuallyReady ==
    <>[]Healthy /\ allowed = <<>> =>
        <>(pc = "ready" \/ "unregister" \in kinds \/ ~LabelsKept)
=============================================================================
