--------------------------- MODULE NodeTopology ---------------------------
(***************************************************************************)
(* The topology informer of the central capacity controller                *)
(* (topology/nodes.go): segments are collected from the Node and CSINode   *)
(* objects.  Event handlers only queue a sync; sync reads the two caches   *)
(* one object after the other while they change, stores the segments, and  *)
(* after the unlock calls the callback with the difference.                *)
(*                                                                         *)
(* The driver has one topology key on the nodes where csiNodes says "key", *)
(* none where it says "nokeys" (the empty segment) and does not run where  *)
(* it says "none".  A node's label has a value, "unlabelled", or there is  *)
(* no Node object ("absent").                                              *)
(***************************************************************************)
EXTENDS Naturals, Sequences, FiniteSets, Functions

CONSTANTS
    Nodes, Values,
    MaxChanges     \* bound on the changes of Node and CSINode objects

ASSUME TopologyAssumption ==
    Values \cap {"unlabelled", "absent", "all", "nil"} = {} /\ MaxChanges \in Nat

VARIABLES
    nodes, csiNodes,   \* the informers' caches
    pending,           \* some event has not been handled
    queued,            \* the work queue holds its one key
    segments,          \* nt.segments: addresses
    content,           \* what is at an address
    sync,              \* [pc, csi, todo, kept, existing, added]
    told,              \* segments the client, who added its callback before the
                       \* worker started, knows from it
    changes

vars == <<nodes, csiNodes, pending, queued, segments, content, sync, told,
          changes>>
cacheVars == <<nodes, csiNodes, pending, changes>>

known == Range(segments)
NoSync == [pc |-> "idle", csi |-> csiNodes, todo |-> {}, kept |-> {},
           existing |-> <<>>, added |-> {}]

Init ==
    /\ nodes \in [Nodes -> Values \cup {"unlabelled", "absent"}]
    /\ csiNodes \in [Nodes -> {"none", "key"}]
    /\ pending = TRUE /\ queued = TRUE
    /\ segments = <<>> /\ content = <<>> /\ sync = NoSync
    /\ told = {}
    /\ changes = 0

-----------------------------------------------------------------------------
(* Node and CSINode objects; the handlers ignore an update that changes    *)
(* neither labels nor keys.                                                *)

KeysNilWhenEmpty(csi) == IF csi = "nokeys" THEN "none" ELSE csi

\* nil ("none") if the driver does not run there.
driverTopologyKeys(csi) == csi

NodeChanges(n) ==
    /\ changes < MaxChanges /\ changes' = changes + 1
    /\ \E l \in (Values \cup {"unlabelled", "absent"}) \ {nodes[n]} :
          nodes' = [nodes EXCEPT ![n] = l]
    /\ pending' = TRUE
    /\ UNCHANGED <<csiNodes, queued, segments, content, sync, told>>

CSINodeChanges(n) ==
    /\ changes < MaxChanges /\ changes' = changes + 1
    /\ \E c \in {"none", "nokeys", "key"} \ {csiNodes[n]} :
          /\ csiNodes' = [csiNodes EXCEPT ![n] = c]
          /\ pending' = (pending \/
                driverTopologyKeys(c) # driverTopologyKeys(csiNodes[n]))
    /\ UNCHANGED <<nodes, queued, segments, content, sync, told>>

HandleEvent ==
    /\ pending
    /\ pending' = FALSE /\ queued' = TRUE
    /\ UNCHANGED <<nodes, csiNodes, segments, content, sync, told, changes>>

-----------------------------------------------------------------------------
(* sync, by the only worker.                                               *)

ListCSINodes ==
    /\ queued /\ sync.pc = "idle"
    /\ queued' = FALSE
    /\ sync' = [NoSync EXCEPT !.pc = "nodes", !.todo = Nodes]
    /\ UNCHANGED <<cacheVars, segments, content, told>>

\* The segment of a node, "nil" if it has none: the driver does not run there,
\* there is no Node object, or the label is not there yet.
SegmentOf(csi, label) ==
    CASE driverTopologyKeys(csi) = "none" \/ label = "absent" -> "nil"
      [] csi = "nokeys" /\ label # "absent" -> "all"
      [] csi = "key" /\ label \in Values -> label
      [] OTHER -> "nil"

NodeForgetsAdded(n) ==
    LET s == SegmentOf(sync.csi[n], nodes[n])
        a == Len(content) + 1
        equal(S) == {b \in S : content[b] = s}
    IN  /\ sync.pc = "nodes" /\ n \in sync.todo
        /\ \/ /\ s = "nil"
              /\ sync' = [sync EXCEPT !.todo = @ \ {n}]
              /\ UNCHANGED content
           \/ \E b \in equal(known) :
              /\ sync' = [sync EXCEPT !.todo = @ \ {n}, !.kept = @ \cup {b},
                                      !.existing = Append(@, b)]
              /\ UNCHANGED content
           \/ /\ s # "nil" /\ equal(known) = {}
              /\ content' = Append(content, s)
              /\ sync' = [sync EXCEPT !.todo = @ \ {n}, !.added = @ \cup {a},
                                      !.existing = Append(@, a)]
        /\ UNCHANGED <<cacheVars, queued, segments, told>>

\* One round of the loop: a segment that is listed keeps its address, one that
\* was added in this sync is known, else there is a new one.
SyncNode(n) ==
    LET s == SegmentOf(sync.csi[n], nodes[n])
        a == Len(content) + 1
        equal(S) == {b \in S : content[b] = s}
    IN  /\ sync.pc = "nodes" /\ n \in sync.todo
        /\ \/ /\ s = "nil" \/ (equal(known) = {} /\ equal(sync.added) # {})
              /\ sync' = [sync EXCEPT !.todo = @ \ {n}]
              /\ UNCHANGED content
           \/ \E b \in equal(known) :
              /\ sync' = [sync EXCEPT !.todo = @ \ {n}, !.kept = @ \cup {b},
                                      !.existing = Append(@, b)]
              /\ UNCHANGED content
           \/ /\ s # "nil" /\ equal(known \cup sync.added) = {}
              /\ content' = Append(content, s)
              /\ sync' = [sync EXCEPT !.todo = @ \ {n}, !.added = @ \cup {a},
                                      !.existing = Append(@, a)]
        /\ UNCHANGED <<cacheVars, queued, segments, told>>

StoreTellsAdded ==
    LET removed == known \ sync.kept IN
    /\ sync.pc = "nodes" /\ sync.todo = {}
    /\ segments' = sync.existing
    /\ sync' = IF sync.added # {}
               THEN [sync EXCEPT !.pc = "callback", !.kept = removed]
               ELSE NoSync
    /\ UNCHANGED <<cacheVars, queued, content, told>>

\* The new list is stored under the lock, the callbacks are called after it
\* when something was added or removed.
StoreSegments ==
    LET removed == known \ sync.kept IN
    /\ sync.pc = "nodes" /\ sync.todo = {}
    /\ segments' = sync.existing
    /\ sync' = IF sync.added # {} \/ removed # {}
               THEN [sync EXCEPT !.pc = "callback", !.kept = removed]
               ELSE NoSync
    /\ UNCHANGED <<cacheVars, queued, content, told>>

Callback ==
    /\ sync.pc = "callback"
    /\ told' = (told \cup sync.added) \ sync.kept
    /\ sync' = NoSync
    /\ UNCHANGED <<cacheVars, queued, segments, content>>

-----------------------------------------------------------------------------
processNextWorkItem ==
    ListCSINodes \/ (\E n \in Nodes : SyncNode(n)) \/ StoreSegments \/ Callback

Next ==
    \/ \E n \in Nodes : NodeChanges(n) \/ CSINodeChanges(n)
    \/ HandleEvent
    \/ processNextWorkItem

Spec == Init /\ [][Next]_vars

\* The watches deliver and the worker works.
FairSpec == Spec /\ WF_vars(HandleEvent) /\ WF_vars(processNextWorkItem)

-----------------------------------------------------------------------------
(* Properties.                                                             *)

\* Types; and a segment that sync adds is none that is listed or was added.
TypeOK ==
    /\ sync.pc = "nodes" =>
          \A a, b \in known \cup sync.added : content[a] = content[b] => a = b
    /\ known \cup told \cup sync.added \subseteq DOMAIN content
    /\ sync.pc \in {"idle", "nodes", "callback"} /\ sync.todo \subseteq Nodes
    /\ pending \in BOOLEAN /\ queued \in BOOLEAN

\* sync implements the interface that the capacity controller relies on: the
\* callback gets exactly the difference, although it runs after the unlock,
\* and addresses are stable.
Segment(a) == [address |-> a, labels |-> content[a]]
TI == INSTANCE TopologyInformer WITH known <- {Segment(a) : a \in known},
                                     told <- {Segment(a) : a \in told}
ImplementsInformer == TI!Spec

\* The segments that the nodes have.
Actual ==
    LET on(c) == {nodes[n] : n \in {m \in Nodes : csiNodes[m] = c}} IN
    (on("key") \cap Values)
        \cup {s \in {"all"} : on("nokeys") \ {"absent"} # {}}

\* When Nodes and CSINodes stop changing, the list becomes the segments of the
\* nodes, each once, although syncs may have read the caches half way through
\* a change.
EventuallyExact ==
    <>[](/\ {content[a] : a \in known} = Actual
         /\ Cardinality(known) = Cardinality(Actual))
===========================================================================
