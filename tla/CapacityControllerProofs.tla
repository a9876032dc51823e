--------------------- MODULE CapacityControllerProofs ---------------------
(***************************************************************************)
(* Proofs about CapacityController, for all segments, labels, classes and  *)
(* objects, whatever a process finds when it starts, and any number of     *)
(* changes; and about NodeTopology, the topology informer, for every set   *)
(* of nodes and label values and every number of changes: its type         *)
(* invariant, and that sync implements the safety part of                  *)
(* TopologyInformer.                                                       *)
(***************************************************************************)
EXTENDS CapacityController, TLAPS

CONSTANTS Nodes, LabelValues
VARIABLES nodes, csiNodes, pending, queued, list, content, sync, client, edits

\* The topology informer has variables of its own: its list of segments (list) and
\* what its client has been told (client) are more than CapacityController needs.
NT == INSTANCE NodeTopology WITH Values <- LabelValues, segments <- list,
                                 told <- client, changes <- edits

Event == [kind : {"add", "delete"}, class : Classes]
ChangeState == [pc : {"idle", "list", "apply"}, added : SUBSET Segs,
                removed : SUBSET Segs, classes : SUBSET Classes]
WorkState == [pc : {"idle", "get", "write"}, uid : UIDs \cup {0}, cap : Nat,
              stale : BOOLEAN, val : Nat]

\* The types, by what changes together.
TopoTypes ==
    /\ segments \subseteq Segs /\ retired \subseteq Segs \ segments
    /\ change \in [Threads -> ChangeState]
ClassTypes ==
    /\ scLister \subseteq Classes /\ scEvents \in Seq(Event)
    /\ scEvent.kind \in {"none", "add", "delete"} /\ scEvent.segs \subseteq Segs
    /\ scEvent.kind # "none" => scEvent.class \in Classes
MapTypes ==
    /\ items \subseteq Items /\ queue \subseteq Items
    /\ ptr \in [Items -> UIDs \cup {0}]
    /\ delQueue \subseteq UIDs /\ listed \subseteq UIDs
ObjTypes ==
    /\ obj \in [UIDs -> Objects] /\ told \in [UIDs -> Nat]
    /\ dirty \subseteq UIDs
WorkTypes == work \in [Items -> WorkState] /\ avail \in Values

Types == TopoTypes /\ ClassTypes /\ MapTypes /\ ObjTypes /\ WorkTypes

\* An entry of capacities points to an object for its segment and class.
PointerInv ==
    \A i \in Items : ptr[i] # 0 => i \in items /\ Key(i) = obj[ptr[i]].key

\* Segments that are to be removed do not come back.
RemovedInv == \A t \in Threads : change[t].removed \subseteq retired

AddAt(j, k) == scEvents[j].kind = "add" /\ scEvents[j].class = k
DeleteAt(j, k) == scEvents[j].kind = "delete" /\ scEvents[j].class = k

\* A class that is there and whose deletion has yet to be handled was added
\* again, and that is handled later.
DeleteInv ==
    \A k \in scLister :
        /\ scEvent.kind = "delete" /\ scEvent.class = k =>
               \E j \in 1 .. Len(scEvents) : AddAt(j, k)
        /\ \A i \in 1 .. Len(scEvents) :
               DeleteAt(i, k) => \E j \in i + 1 .. Len(scEvents) : AddAt(j, k)

\* The callback, or prepare, has yet to add the segment, and will know of the
\* class then.
ByTopology(s, k) ==
    \E t \in Threads :
        /\ s \in change[t].added
        /\ \/ change[t].pc = "list"
           \/ change[t].pc = "apply" /\ k \in change[t].classes

\* The handler has yet to add the class, and will know of the segment then.
ByClass(s, k) ==
    \/ \E j \in 1 .. Len(scEvents) : AddAt(j, k)
    \/ scEvent.kind = "add" /\ scEvent.class = k /\ s \in scEvent.segs

CoverInv ==
    \A s \in segments, k \in scLister :
        <<s, k>> \in items \/ ByTopology(s, k) \/ ByClass(s, k)

IInv == Types /\ PointerInv /\ RemovedInv /\ DeleteInv /\ CoverInv

-----------------------------------------------------------------------------
(* Who changes what.                                                       *)

LEMMA TopologyFrame ==
    ASSUME [Next]_vars
    PROVE  \/ TopologyChanges
           \/ \E t \in Threads : ListClasses(t) \/ onTopologyChanges(t)
           \/ UNCHANGED topoVars
  BY DEF Next, OnTopology, OnClass, syncCapacity, WrappedProvision,
     WrappedDelete, ClassChanges, ClassResync, ClassEvent,
     CapacityChanges, UserChanges, ListSegments,
     onSCAddOrUpdate, onSCDelete, pollCapacities, refreshTopology, refreshSC,
     Enqueue, StartSync, GetCapacity, CreateObject, UpdateObject,
     deleteCapacity, ObjectEvent, Prepare, vars

LEMMA ClassFrame ==
    ASSUME [Next]_vars
    PROVE  \/ ClassChanges \/ ClassResync
           \/ ListSegments \/ onSCAddOrUpdate \/ onSCDelete
           \/ UNCHANGED classVars
  BY DEF Next, OnTopology, OnClass, syncCapacity, WrappedProvision,
     WrappedDelete, TopologyChanges, CapacityChanges, UserChanges, ListClasses,
     onTopologyChanges, pollCapacities, refreshTopology, refreshSC,
     Enqueue, StartSync, GetCapacity, CreateObject, UpdateObject,
     deleteCapacity, ObjectEvent, Prepare, vars

LEMMA MapFrame ==
    ASSUME [Next]_vars
    PROVE  \/ \E t \in Threads : onTopologyChanges(t)
           \/ onSCAddOrUpdate \/ onSCDelete
           \/ \E u \in UIDs : ObjectEvent(u) \/ Prepare(u)
           \/ UNCHANGED <<items, ptr>>
  BY DEF Next, OnTopology, OnClass, syncCapacity, WrappedProvision,
     WrappedDelete, TopologyChanges, ClassChanges, ClassResync, ClassEvent,
     CapacityChanges, UserChanges,
     ListClasses, ListSegments, pollCapacities, refreshTopology, refreshSC,
     Enqueue, StartSync, GetCapacity, CreateObject, UpdateObject,
     deleteCapacity, vars, mapVars

LEMMA ObjectFrame ==
    ASSUME [Next]_vars
    PROVE  \/ UserChanges
           \/ \E i \in Items : CreateObject(i) \/ UpdateObject(i)
           \/ \E u \in UIDs : deleteCapacity(u)
           \/ UNCHANGED obj
  BY DEF Next, OnTopology, OnClass, syncCapacity, WrappedProvision,
     WrappedDelete, TopologyChanges, ClassChanges, ClassResync, ClassEvent,
     CapacityChanges,
     ListClasses, onTopologyChanges, ListSegments, onSCAddOrUpdate, onSCDelete,
     pollCapacities, refreshTopology, refreshSC, Enqueue, StartSync,
     GetCapacity, ObjectEvent, Prepare, vars, objVars

-----------------------------------------------------------------------------
(* The topology informer and onTopologyChanges.                            *)

\* What ListClasses does.
LEMMA ListClassesEffect ==
    ASSUME TopoTypes, ClassTypes, NEW t \in Threads, ListClasses(t)
    PROVE  /\ change' \in [Threads -> ChangeState]
           /\ change'[t].pc = "apply" /\ change'[t].classes = scLister
           /\ change'[t].added = change[t].added
           /\ change'[t].removed = change[t].removed
           /\ \A r \in Threads \ {t} : change'[r] = change[r]
  <1> DEFINE c == change[t]
             d == [c EXCEPT !.pc = "apply", !.classes = scLister]
  <1>1. c \in ChangeState
    BY DEF TopoTypes
  <1>2. change' = [change EXCEPT ![t] = d]
    BY DEF ListClasses, TopoTypes
  <1> HIDE DEF c
  <1>3. /\ d \in ChangeState
        /\ d.pc = "apply" /\ d.classes = scLister
        /\ d.added = c.added /\ d.removed = c.removed
    BY <1>1 DEF ChangeState, ClassTypes
  <1> QED BY <1>2, <1>3 DEF TopoTypes, c

LEMMA TopologySteps ==
    ASSUME TopoTypes, ClassTypes, RemovedInv, [Next]_vars
    PROVE  TopoTypes' /\ RemovedInv'
  <1> USE DEF TopoTypes, ClassTypes, RemovedInv
  <1>1. CASE TopologyChanges
    <2>1. PICK new \in SUBSET (Segs \ retired) :
            /\ segments' = new
            /\ retired' = retired \cup (segments \ new)
            /\ change' = [change EXCEPT !["callback"] =
                            [pc |-> "list", added |-> new \ segments,
                             removed |-> segments \ new, classes |-> {}]]
      BY <1>1 DEF TopologyChanges
    <2>2. [pc |-> "list", added |-> new \ segments,
           removed |-> segments \ new, classes |-> {}] \in ChangeState
      BY <2>1 DEF ChangeState
    <2>3. TopoTypes'
      BY <2>1, <2>2
    <2>4. RemovedInv'
      BY <2>1 DEF Threads
    <2> QED BY <2>3, <2>4
  <1>2. ASSUME NEW t \in Threads, ListClasses(t)
        PROVE  TopoTypes' /\ RemovedInv'
    <2>1. segments' = segments /\ retired' = retired
      BY <1>2 DEF ListClasses
    <2>2. TopoTypes'
      BY <1>2, <2>1, ListClassesEffect
    <2>3. RemovedInv'
      BY <1>2, <2>1, ListClassesEffect
    <2> QED BY <2>2, <2>3
  <1>3. ASSUME NEW t \in Threads, onTopologyChanges(t)
        PROVE  TopoTypes' /\ RemovedInv'
    <2>1. change' = [change EXCEPT ![t] = NoChange]
      BY <1>3 DEF onTopologyChanges
    <2>2. NoChange \in ChangeState /\ NoChange.removed = {}
      BY DEF NoChange, ChangeState
    <2>3. segments' = segments /\ retired' = retired
      BY <1>3 DEF onTopologyChanges
    <2> QED BY <2>1, <2>2, <2>3
  <1>4. CASE UNCHANGED topoVars
    BY <1>4 DEF topoVars
  <1> QED BY <1>1, <1>2, <1>3, <1>4, TopologyFrame

-----------------------------------------------------------------------------
(* The class informer and its handler.                                     *)

LEMMA ClassSteps ==
    ASSUME TopoTypes, ClassTypes, [Next]_vars
    PROVE  ClassTypes'
  <1> USE DEF ClassTypes, Event
  <1>1. CASE ClassChanges \/ ClassResync
    <2>1. PICK k \in Classes, kind \in {"add", "delete"} :
            /\ scLister' = IF kind = "add" THEN scLister \cup {k}
                                           ELSE scLister \ {k}
            /\ scEvents' = Append(scEvents, [kind |-> kind, class |-> k])
      BY <1>1 DEF ClassChanges, ClassResync, ClassEvent
    <2>2. scEvents' \in Seq(Event)
      BY <2>1
    <2>3. scEvent' = scEvent
      BY <1>1 DEF ClassChanges, ClassResync, ClassEvent
    <2> QED BY <2>1, <2>2, <2>3
  <1>2. CASE ListSegments
    <2> HIDE DEF Event
    <2>1. scEvents # <<>> /\ scEvents' = Tail(scEvents)
      BY <1>2 DEF ListSegments
    <2>2. Head(scEvents) \in Event /\ Tail(scEvents) \in Seq(Event)
      BY <2>1
    <2>3. /\ scEvent'.kind = Head(scEvents).kind
          /\ scEvent'.class = Head(scEvents).class
          /\ scEvent'.segs = segments /\ scLister' = scLister
      BY <1>2 DEF ListSegments
    <2> QED BY <2>1, <2>2, <2>3 DEF TopoTypes, Event
  <1>3. CASE onSCAddOrUpdate \/ onSCDelete
    BY <1>3 DEF onSCAddOrUpdate, onSCDelete, NoEvent
  <1>4. CASE UNCHANGED classVars
    BY <1>4 DEF classVars
  <1> QED BY <1>1, <1>2, <1>3, <1>4, ClassFrame

-----------------------------------------------------------------------------
(* capacities, the work queue, and the objects they point to.              *)

\* removeWorkItem forgets the pointers of the items and enqueues the objects.
LEMMA RemoveEffect ==
    ASSUME MapTypes, NEW S \in SUBSET Items, removeWorkItem(S)
    PROVE  /\ ptr' \in [Items -> UIDs \cup {0}]
           /\ delQueue' \subseteq UIDs
           /\ \A i \in Items : ptr'[i] = IF i \in S THEN 0 ELSE ptr[i]
  BY DEF MapTypes, removeWorkItem

\* What onCAddOrUpdate does to one entry at most.
LEMMA AdoptEffect ==
    ASSUME MapTypes, NEW u \in UIDs, onCAddOrUpdate(u)
    PROVE  /\ ptr' \in [Items -> UIDs \cup {0}]
           /\ delQueue' \subseteq UIDs
           /\ \A i \in Items :
                 \/ ptr'[i] = ptr[i]
                 \/ ptr'[i] = u /\ i \in items /\ Key(i) = obj[u].key
  BY DEF MapTypes, onCAddOrUpdate

\* What onCDelete does, and onCAddOrUpdate with an object of somebody else.
LEMMA ForgetEffect ==
    ASSUME MapTypes, NEW u \in UIDs, onCDelete(u) \/ Disown(u)
    PROVE  /\ ptr' \in [Items -> UIDs \cup {0}]
           /\ queue' \subseteq Items
           /\ \A i \in Items : ptr'[i] \in {0, ptr[i]}
  BY DEF MapTypes, onCDelete, Disown

\* The items of an event are items.
LEMMA ItemTypes ==
    ASSUME TopoTypes, ClassTypes
    PROVE  /\ \A t \in Threads :
                 /\ change[t].added \X change[t].classes \in SUBSET Items
                 /\ change[t].removed \X change[t].classes \in SUBSET Items
           /\ scEvent.kind # "none" =>
                 scEvent.segs \X {scEvent.class} \in SUBSET Items
  <1>1. ASSUME NEW t \in Threads
        PROVE  /\ change[t].added \in SUBSET Segs
               /\ change[t].removed \in SUBSET Segs
               /\ change[t].classes \in SUBSET Classes
    BY DEF TopoTypes, ChangeState
  <1>2. scEvent.kind # "none" =>
            scEvent.segs \subseteq Segs /\ {scEvent.class} \subseteq Classes
    BY DEF ClassTypes
  <1>3. \A A \in SUBSET Segs, B \in SUBSET Classes : A \X B \in SUBSET Items
    BY DEF Items
  <1> QED BY <1>1, <1>2, <1>3

LEMMA MapSteps ==
    ASSUME Types, [Next]_vars
    PROVE  MapTypes'
  <1> USE DEF Types, MapTypes
  <1>1. ASSUME NEW t \in Threads, onTopologyChanges(t)
        PROVE  MapTypes'
    <2> DEFINE added == change[t].added \X change[t].classes
               removed == change[t].removed \X change[t].classes
    <2>1. added \in SUBSET Items /\ removed \in SUBSET Items
      BY ItemTypes
    <2>2. /\ items' = (items \cup added) \ removed /\ queue' = queue \cup added
          /\ removeWorkItem(removed)
          /\ listed' \subseteq UIDs
      BY <1>1 DEF onTopologyChanges
    <2> HIDE DEF added, removed
    <2> QED BY <2>1, <2>2, RemoveEffect
  <1>2. CASE onSCAddOrUpdate
    BY <1>2, ItemTypes DEF onSCAddOrUpdate, addWorkItem
  <1>3. CASE onSCDelete
    <2>1. scEvent.segs \X {scEvent.class} \in SUBSET Items
      BY <1>3, ItemTypes DEF onSCDelete
    <2> QED BY <1>3, <2>1, RemoveEffect DEF onSCDelete
  <1>4. ASSUME NEW S \in SUBSET Items, Enqueue(S)
        PROVE  MapTypes'
    BY <1>4 DEF Enqueue
  <1>5. CASE pollCapacities \/ WrappedProvision \/ WrappedDelete
    BY <1>4, <1>5 DEF pollCapacities, WrappedProvision, WrappedDelete,
       refreshTopology, refreshSC
  <1>6. ASSUME NEW i \in Items, StartSync(i) \/ syncCapacity(i)
        PROVE  MapTypes'
    BY <1>6 DEF StartSync, syncCapacity, GetCapacity, CreateObject,
       UpdateObject
  <1>7. ASSUME NEW u \in UIDs, deleteCapacity(u)
        PROVE  MapTypes'
    BY <1>7 DEF deleteCapacity
  <1>8. ASSUME NEW u \in UIDs, ObjectEvent(u)
        PROVE  MapTypes'
    BY <1>8, AdoptEffect, ForgetEffect DEF ObjectEvent
  <1>9. ASSUME NEW u \in UIDs, Prepare(u)
        PROVE  MapTypes'
    BY <1>9, AdoptEffect DEF Prepare
  <1>10. CASE \/ TopologyChanges \/ ClassChanges \/ ClassResync
              \/ CapacityChanges \/ UserChanges
              \/ \E t \in Threads : ListClasses(t)
              \/ ListSegments \/ UNCHANGED vars
    BY <1>10 DEF TopologyChanges, ClassChanges, ClassResync, ClassEvent,
       CapacityChanges, UserChanges,
       ListClasses, ListSegments, vars, mapVars
  <1> QED BY <1>1, <1>2, <1>3, <1>5, <1>6, <1>7, <1>8, <1>9, <1>10
          DEF Next, OnTopology, OnClass

\* What a step does to an object: users, workers and deleteCapacity keep its
\* labels and class; only CreateObject sets them, in an object that is free.
LEMMA ObjectEffect ==
    ASSUME Types, [Next]_vars
    PROVE  /\ obj' \in [UIDs -> Objects]
           /\ \A u \in UIDs : obj'[u].key = obj[u].key \/ Free(u)
  <1> USE DEF Types, ObjTypes
  <1>1. \A state \in {"live", "foreign", "gone"}, cap \in Nat,
           key \in Labels \X Classes :
               /\ Object(state, key, cap) \in Objects
               /\ Object(state, key, cap).key = key
    BY DEF Object, Objects
  <1>2. \A u \in UIDs : obj[u].key \in Labels \X Classes
    BY DEF Objects
  <1>3. CASE UserChanges
    <2>1. PICK u \in UIDs, state \in {"gone", "foreign"} :
            obj' = [obj EXCEPT ![u] = Object(state, obj[u].key, 0)]
      BY <1>3 DEF UserChanges
    <2>2. /\ Object(state, obj[u].key, 0) \in Objects
          /\ Object(state, obj[u].key, 0).key = obj[u].key
      BY <1>1, <1>2
    <2> QED BY <2>1, <2>2
  <1>4. ASSUME NEW i \in Items, CreateObject(i)
        PROVE  /\ obj' \in [UIDs -> Objects]
               /\ \A u \in UIDs : obj'[u].key = obj[u].key \/ Free(u)
    <2>1. PICK u \in UIDs :
            /\ Free(u)
            /\ obj' = [obj EXCEPT ![u] = Object("live", Key(i), work[i].val)]
      BY <1>4 DEF CreateObject
    <2>2. Key(i) \in Labels \X Classes
      BY CapacityAssumption DEF Key, Items
    <2>3. work[i].val \in Nat
      BY DEF WorkTypes, WorkState
    <2>4. Object("live", Key(i), work[i].val) \in Objects
      BY <1>1, <2>2, <2>3
    <2> QED BY <2>1, <2>4
  <1>5. ASSUME NEW i \in Items, UpdateObject(i)
        PROVE  /\ obj' \in [UIDs -> Objects]
               /\ \A u \in UIDs : obj'[u].key = obj[u].key \/ Free(u)
    <2> DEFINE u == work[i].uid
               o == [obj[u] EXCEPT !.cap = work[i].val]
    <2>1. u \in UIDs /\ work[i].val \in Nat
      BY <1>5 DEF UpdateObject, WorkTypes, WorkState
    <2>2. obj' = obj \/ obj' = [obj EXCEPT ![u] = o]
      BY <1>5 DEF UpdateObject
    <2>3. o \in Objects /\ o.key = obj[u].key
      BY <2>1 DEF Objects
    <2> HIDE DEF u, o
    <2> QED BY <2>1, <2>2, <2>3
  <1>6. ASSUME NEW u \in UIDs, deleteCapacity(u)
        PROVE  /\ obj' \in [UIDs -> Objects]
               /\ \A w \in UIDs : obj'[w].key = obj[w].key \/ Free(w)
    <2>1. /\ Object("gone", obj[u].key, 0) \in Objects
          /\ Object("gone", obj[u].key, 0).key = obj[u].key
      BY <1>1, <1>2
    <2>2. obj' = [obj EXCEPT ![u] = Object("gone", obj[u].key, 0)]
      BY <1>6 DEF deleteCapacity
    <2> QED BY <2>1, <2>2
  <1>7. CASE UNCHANGED obj
    BY <1>7
  <1> QED BY <1>3, <1>4, <1>5, <1>6, <1>7, ObjectFrame

LEMMA ObjSteps ==
    ASSUME Types, [Next]_vars
    PROVE  ObjTypes'
  <1> USE DEF Types, ObjTypes
  <1>1. told' \in [UIDs -> Nat]
    <2>1. ASSUME NEW u \in UIDs, ObjectEvent(u)
          PROVE  told' \in [UIDs -> Nat]
      <3>1. obj[u].cap \in Nat
        BY DEF Objects
      <3> QED BY <2>1, <3>1 DEF ObjectEvent
    <2>2. \/ \E u \in UIDs : ObjectEvent(u)
          \/ UNCHANGED told
      BY DEF Next, OnTopology, OnClass, syncCapacity, WrappedProvision,
         WrappedDelete, TopologyChanges, ClassChanges, ClassResync, ClassEvent,
         CapacityChanges,
         UserChanges, ListClasses, onTopologyChanges, ListSegments,
         onSCAddOrUpdate, onSCDelete, pollCapacities, refreshTopology,
         refreshSC, Enqueue, StartSync, GetCapacity, CreateObject,
         UpdateObject, deleteCapacity, Prepare, vars, objVars
    <2> QED BY <2>1, <2>2
  <1>2. dirty' \subseteq UIDs
    <2>1. ASSUME NEW i \in Items, UpdateObject(i)
          PROVE  dirty' \subseteq UIDs
      <3>1. work[i].uid \in UIDs
        BY <2>1 DEF UpdateObject, WorkTypes, WorkState
      <3> QED BY <2>1, <3>1 DEF UpdateObject
    <2>2. \/ \E i \in Items : UpdateObject(i)
          \/ dirty' \subseteq UIDs
      BY DEF Next, OnTopology, OnClass, syncCapacity, WrappedProvision,
         WrappedDelete, TopologyChanges, ClassChanges, ClassResync, ClassEvent,
         CapacityChanges,
         UserChanges, ListClasses, onTopologyChanges, ListSegments,
         onSCAddOrUpdate, onSCDelete, pollCapacities, refreshTopology,
         refreshSC, Enqueue, StartSync, GetCapacity, CreateObject,
         deleteCapacity, ObjectEvent, Prepare, vars, objVars
    <2> QED BY <2>1, <2>2
  <1> QED BY <1>1, <1>2, ObjectEffect

LEMMA WorkSteps ==
    ASSUME Types, [Next]_vars
    PROVE  WorkTypes'
  <1> USE DEF Types, WorkTypes
  <1>1. Idle \in WorkState
    BY DEF Idle, WorkState
  <1>2. \A i \in Items : Done(i) \in [Items -> WorkState]
    BY <1>1 DEF Done
  <1>3. \A i \in Items, u \in UIDs :
           [work[i] EXCEPT !.stale = @ \/ work[i].uid = u] \in WorkState
    <2> SUFFICES ASSUME NEW i \in Items, NEW u \in UIDs
                 PROVE  [work[i] EXCEPT !.stale = work[i].stale \/ work[i].uid = u]
                            \in WorkState
      OBVIOUS
    <2> DEFINE b == work[i].stale \/ work[i].uid = u
               w == work[i]
    <2>1. b \in BOOLEAN /\ w \in WorkState
      OBVIOUS
    <2> HIDE DEF b, w
    <2>2. [w EXCEPT !.stale = b] \in WorkState
      BY <2>1 DEF WorkState
    <2> QED BY <2>2 DEF b, w
  <1>4. CASE UserChanges
    <2>1. PICK u \in UIDs :
            work' = [i \in Items |->
                        [work[i] EXCEPT !.stale = @ \/ work[i].uid = u]]
      BY <1>4 DEF UserChanges
    <2>2. avail' = avail
      BY <1>4 DEF UserChanges
    <2> QED BY <1>3, <2>1, <2>2
  <1>5. ASSUME NEW i \in Items, StartSync(i)
        PROVE  WorkTypes'
    <2> DEFINE w == [pc |-> "get", uid |-> ptr[i], val |-> 0,
                     cap |-> IF ptr[i] = 0 THEN 0 ELSE told[ptr[i]],
                     stale |-> ptr[i] \in dirty]
    <2>1. /\ ptr[i] \in UIDs \cup {0}
          /\ (IF ptr[i] = 0 THEN 0 ELSE told[ptr[i]]) \in Nat
          /\ (ptr[i] \in dirty) \in BOOLEAN
      BY DEF MapTypes, ObjTypes
    <2>2. w \in WorkState
      BY <2>1 DEF WorkState
    <2>3. work' = work \/ work' = [work EXCEPT ![i] = w]
      BY <1>5 DEF StartSync
    <2>4. avail' = avail
      BY <1>5 DEF StartSync
    <2> HIDE DEF w
    <2> QED BY <2>2, <2>3, <2>4
  <1>6. ASSUME NEW i \in Items, GetCapacity(i)
        PROVE  WorkTypes'
    <2> DEFINE c == work[i]
               w == [c EXCEPT !.pc = "write", !.val = avail]
    <2>1. c \in WorkState /\ avail \in Nat
      BY CapacityAssumption
    <2>2. work' = Done(i) \/ work' = [work EXCEPT ![i] = w]
      BY <1>6 DEF GetCapacity
    <2>3. avail' = avail
      BY <1>6 DEF GetCapacity
    <2> HIDE DEF c
    <2>4. w \in WorkState
      BY <2>1 DEF WorkState
    <2> HIDE DEF w
    <2> QED BY <1>2, <2>2, <2>3, <2>4
  <1>7. ASSUME NEW i \in Items, CreateObject(i)
        PROVE  WorkTypes'
    BY <1>2, <1>7 DEF CreateObject
  <1>8. ASSUME NEW i \in Items, UpdateObject(i)
        PROVE  WorkTypes'
    <2> DEFINE u == work[i].uid
    <2>1. u \in UIDs
      BY <1>8 DEF UpdateObject, WorkState
    <2>2. \/ work' = Done(i)
          \/ work' = [j \in Items |-> IF j = i THEN Idle
                        ELSE [work[j] EXCEPT !.stale = @ \/ work[j].uid = u]]
      BY <1>8 DEF UpdateObject
    <2>3. avail' = avail
      BY <1>8 DEF UpdateObject
    <2> HIDE DEF u
    <2> QED BY <1>1, <1>2, <1>3, <2>1, <2>2, <2>3
  <1>9. CASE CapacityChanges
    BY <1>9 DEF CapacityChanges
  <1>10. CASE UNCHANGED <<work, avail>>
    BY <1>10
  <1>11. \/ UserChanges \/ CapacityChanges
         \/ \E i \in Items : \/ StartSync(i) \/ GetCapacity(i)
                             \/ CreateObject(i) \/ UpdateObject(i)
         \/ UNCHANGED <<work, avail>>
    BY DEF Next, OnTopology, OnClass, syncCapacity, WrappedProvision,
       WrappedDelete, TopologyChanges, ClassChanges, ClassResync, ClassEvent,
       ListClasses,
       onTopologyChanges, ListSegments, onSCAddOrUpdate, onSCDelete,
       pollCapacities, refreshTopology, refreshSC, Enqueue, deleteCapacity,
       ObjectEvent, Prepare, vars
  <1> QED BY <1>4, <1>5, <1>6, <1>7, <1>8, <1>9, <1>10, <1>11

LEMMA PointerSteps ==
    ASSUME Types, PointerInv, [Next]_vars
    PROVE  PointerInv'
  <1> USE DEF PointerInv
  <1>1. ASSUME NEW i \in Items, ptr[i] # 0
        PROVE  obj'[ptr[i]].key = Key(i)
    <2>1. ptr[i] \in UIDs /\ ~Free(ptr[i])
      BY <1>1 DEF Types, MapTypes, Free
    <2> QED BY <1>1, <2>1, ObjectEffect
  <1>2. ASSUME NEW t \in Threads, onTopologyChanges(t)
        PROVE  PointerInv'
    <2> DEFINE added == change[t].added \X change[t].classes
               removed == change[t].removed \X change[t].classes
    <2>1. removed \in SUBSET Items
      BY ItemTypes DEF Types
    <2>2. items' = (items \cup added) \ removed /\ removeWorkItem(removed)
      BY <1>2 DEF onTopologyChanges
    <2> HIDE DEF added, removed
    <2> QED BY <1>1, <2>1, <2>2, RemoveEffect DEF Types
  <1>3. CASE onSCAddOrUpdate
    BY <1>1, <1>3 DEF onSCAddOrUpdate, addWorkItem
  <1>4. CASE onSCDelete
    <2> DEFINE removed == scEvent.segs \X {scEvent.class}
    <2>1. removed \in SUBSET Items
      BY <1>4, ItemTypes DEF onSCDelete, Types
    <2>2. items' = items \ removed /\ removeWorkItem(removed)
      BY <1>4 DEF onSCDelete
    <2> HIDE DEF removed
    <2> QED BY <1>1, <2>1, <2>2, RemoveEffect DEF Types
  <1>5. ASSUME NEW u \in UIDs, ObjectEvent(u)
        PROVE  PointerInv'
    <2>1. /\ onCAddOrUpdate(u) \/ onCDelete(u) \/ Disown(u)
          /\ items' = items /\ obj' = obj
      BY <1>5 DEF ObjectEvent
    <2> QED BY <2>1, AdoptEffect, ForgetEffect DEF Types
  <1>6. ASSUME NEW u \in UIDs, Prepare(u)
        PROVE  PointerInv'
    <2>1. onCAddOrUpdate(u) /\ items' = items /\ obj' = obj
      BY <1>6 DEF Prepare, objVars
    <2> QED BY <2>1, AdoptEffect DEF Types
  <1>7. CASE UNCHANGED <<items, ptr>>
    BY <1>1, <1>7
  <1> QED BY <1>2, <1>3, <1>4, <1>5, <1>6, <1>7, MapFrame

-----------------------------------------------------------------------------
(* The events of the class informer, and the work items they lead to.      *)

\* An event goes to the end of those that the handler has yet to see.
LEMMA EventAppend ==
    ASSUME ClassTypes, ClassChanges \/ ClassResync
    PROVE  \E k \in Classes, kind \in {"add", "delete"} :
              /\ scLister' = IF kind = "add" THEN scLister \cup {k}
                                             ELSE scLister \ {k}
              /\ scEvent' = scEvent
              /\ Len(scEvents) \in Nat /\ Len(scEvents') = Len(scEvents) + 1
              /\ \A j \in 1 .. Len(scEvents) : scEvents'[j] = scEvents[j]
              /\ scEvents'[Len(scEvents) + 1].kind = kind
              /\ scEvents'[Len(scEvents) + 1].class = k
  <1>1. PICK k \in Classes, kind \in {"add", "delete"} : ClassEvent(kind, k)
    <2>1. CASE ClassChanges
      BY <2>1 DEF ClassChanges
    <2>2. CASE ClassResync
      BY <2>2 DEF ClassResync, ClassTypes
    <2> QED BY <2>1, <2>2
  <1>2. /\ scLister' = IF kind = "add" THEN scLister \cup {k}
                                       ELSE scLister \ {k}
        /\ scEvents' = Append(scEvents, [kind |-> kind, class |-> k])
        /\ scEvent' = scEvent
    BY <1>1 DEF ClassEvent
  <1> DEFINE e == [kind |-> kind, class |-> k]
  <1>3. e \in Event /\ e.kind = kind /\ e.class = k
    BY DEF Event
  <1> HIDE DEF e
  <1>4. scEvents' = Append(scEvents, e)
    BY <1>2 DEF e
  <1>5. /\ Len(scEvents) \in Nat /\ Len(scEvents') = Len(scEvents) + 1
        /\ \A j \in 1 .. Len(scEvents) : scEvents'[j] = scEvents[j]
        /\ scEvents'[Len(scEvents) + 1] = e
    BY <1>3, <1>4 DEF ClassTypes
  <1> QED BY <1>2, <1>3, <1>5

\* The handler takes the first event; the others move up by one.
LEMMA EventTail ==
    ASSUME ClassTypes, ListSegments
    PROVE  /\ Len(scEvents) \in Nat \ {0} /\ Len(scEvents') = Len(scEvents) - 1
           /\ \A j \in 1 .. Len(scEvents') : scEvents'[j] = scEvents[j + 1]
           /\ scEvent'.kind = scEvents[1].kind
           /\ scEvent'.class = scEvents[1].class
           /\ scEvent'.segs = segments
           /\ scEvent.kind = "none" /\ scLister' = scLister
  <1>1. scEvents \in Seq(Event) /\ scEvents # <<>> /\ scEvents' = Tail(scEvents)
    BY DEF ClassTypes, ListSegments
  <1>2. /\ Len(scEvents) \in Nat \ {0} /\ Len(scEvents') = Len(scEvents) - 1
        /\ \A j \in 1 .. Len(scEvents') : scEvents'[j] = scEvents[j + 1]
        /\ Head(scEvents) = scEvents[1]
    BY <1>1
  <1> QED BY <1>2 DEF ListSegments

LEMMA DeleteSteps ==
    ASSUME ClassTypes, DeleteInv, [Next]_vars
    PROVE  DeleteInv'
  <1> USE DEF DeleteInv, AddAt, DeleteAt
  <1>1. CASE ClassChanges \/ ClassResync
    <2>1. PICK k \in Classes, kind \in {"add", "delete"} :
              /\ scLister' = IF kind = "add" THEN scLister \cup {k}
                                             ELSE scLister \ {k}
              /\ scEvent' = scEvent
              /\ Len(scEvents) \in Nat /\ Len(scEvents') = Len(scEvents) + 1
              /\ \A j \in 1 .. Len(scEvents) : scEvents'[j] = scEvents[j]
              /\ scEvents'[Len(scEvents) + 1].kind = kind
              /\ scEvents'[Len(scEvents) + 1].class = k
      BY <1>1, EventAppend
    <2>2. ASSUME NEW l \in scLister', l = k
          PROVE  /\ \E j \in 1 .. Len(scEvents') : AddAt(j, l)'
                 /\ \A i \in 1 .. Len(scEvents') :
                       DeleteAt(i, l)' =>
                           \E j \in i + 1 .. Len(scEvents') : AddAt(j, l)'
      <3>1. kind = "add"
        BY <2>1, <2>2
      <3> QED BY <2>1, <2>2, <3>1
    <2>3. ASSUME NEW l \in scLister', l # k
          PROVE  /\ scEvent'.kind = "delete" /\ scEvent'.class = l =>
                       \E j \in 1 .. Len(scEvents') : AddAt(j, l)'
                 /\ \A i \in 1 .. Len(scEvents') :
                       DeleteAt(i, l)' =>
                           \E j \in i + 1 .. Len(scEvents') : AddAt(j, l)'
      <3>1. l \in scLister
        BY <2>1, <2>3
      <3>2. \A i \in 1 .. Len(scEvents') :
                DeleteAt(i, l)' => i \in 1 .. Len(scEvents) /\ DeleteAt(i, l)
        BY <2>1, <2>3
      <3>3. \A j \in 1 .. Len(scEvents) :
                AddAt(j, l) => j \in 1 .. Len(scEvents') /\ AddAt(j, l)'
        BY <2>1
      <3> QED BY <2>1, <3>1, <3>2, <3>3
    <2> QED BY <2>2, <2>3
  <1>2. CASE ListSegments
    <2> SUFFICES ASSUME NEW l \in scLister
                 PROVE  /\ scEvent'.kind = "delete" /\ scEvent'.class = l =>
                              \E j \in 1 .. Len(scEvents') : AddAt(j, l)'
                        /\ \A i \in 1 .. Len(scEvents') : DeleteAt(i, l)' =>
                              \E j \in i + 1 .. Len(scEvents') : AddAt(j, l)'
      BY <1>2, EventTail
    <2>1. \A j \in 2 .. Len(scEvents) :
              AddAt(j, l) => j - 1 \in 1 .. Len(scEvents') /\ AddAt(j - 1, l)'
      BY <1>2, EventTail
    <2>2. \A i \in 1 .. Len(scEvents') :
              DeleteAt(i, l)' => i + 1 \in 1 .. Len(scEvents) /\ DeleteAt(i + 1, l)
      BY <1>2, EventTail
    <2>3. scEvent'.kind = "delete" /\ scEvent'.class = l =>
              \E j \in 1 .. Len(scEvents') : AddAt(j, l)'
      <3>1. 1 \in 1 .. Len(scEvents)
        BY <1>2, EventTail
      <3>2. scEvent'.kind = "delete" /\ scEvent'.class = l => DeleteAt(1, l)
        BY <1>2, EventTail
      <3>3. DeleteAt(1, l) => \E j \in 2 .. Len(scEvents) : AddAt(j, l)
        BY <3>1
      <3> QED BY <2>1, <3>2, <3>3
    <2>4. ASSUME NEW i \in 1 .. Len(scEvents'), DeleteAt(i, l)'
          PROVE  \E j \in i + 1 .. Len(scEvents') : AddAt(j, l)'
      <3>1. PICK j \in (i + 1) + 1 .. Len(scEvents) : AddAt(j, l)
        BY <2>2, <2>4
      <3>2. Len(scEvents) \in Nat
        BY <1>2, EventTail
      <3>3. j \in 2 .. Len(scEvents) /\ j - 1 >= i + 1
        BY <3>1, <3>2
      <3> QED BY <2>1, <3>1, <3>2, <3>3
    <2> QED BY <2>3, <2>4
  <1>3. CASE onSCAddOrUpdate \/ onSCDelete
    BY <1>3 DEF onSCAddOrUpdate, onSCDelete, NoEvent
  <1>4. CASE UNCHANGED classVars
    BY <1>4 DEF classVars
  <1> QED BY <1>1, <1>2, <1>3, <1>4, ClassFrame

\* The items stay, apart from those that the three handlers add or remove.
LEMMA ItemFrame ==
    ASSUME [Next]_vars
    PROVE  \/ TopologyChanges \/ ClassChanges \/ ClassResync
           \/ \E t \in Threads : ListClasses(t) \/ onTopologyChanges(t)
           \/ ListSegments \/ onSCAddOrUpdate \/ onSCDelete
           \/ UNCHANGED <<topoVars, classVars, items>>
  BY DEF Next, OnTopology, OnClass, syncCapacity, WrappedProvision,
     WrappedDelete, CapacityChanges, UserChanges, pollCapacities,
     refreshTopology, refreshSC, Enqueue, StartSync, GetCapacity, CreateObject,
     UpdateObject, deleteCapacity, ObjectEvent, Prepare, vars, mapVars

\* Each segment and class stays covered: what is taken out of one of the three
\* places is put into another one.
LEMMA CoverSteps ==
    ASSUME Types, RemovedInv, DeleteInv, CoverInv, [Next]_vars
    PROVE  CoverInv'
  <1> USE DEF Types
  <1>1. CASE TopologyChanges
    <2>1. PICK new \in SUBSET (Segs \ retired) :
            /\ segments' = new
            /\ change' = [change EXCEPT !["callback"] =
                            [pc |-> "list", added |-> new \ segments,
                             removed |-> segments \ new, classes |-> {}]]
      BY <1>1 DEF TopologyChanges
    <2>2. /\ UNCHANGED <<classVars, items>>
          /\ change["callback"].pc = "idle"
      BY <1>1 DEF TopologyChanges, mapVars
    <2>3. \A s, k : ByTopology(s, k) => ByTopology(s, k)'
      BY <2>1, <2>2 DEF ByTopology, Threads, TopoTypes
    <2>4. \A s \in new \ segments, k \in scLister : ByTopology(s, k)'
      BY <2>1 DEF ByTopology, Threads, TopoTypes
    <2>5. \A s, k : ByClass(s, k) => ByClass(s, k)'
      BY <2>2 DEF ByClass, AddAt, classVars
    <2> QED BY <2>1, <2>2, <2>3, <2>4, <2>5 DEF CoverInv, classVars
  <1>2. ASSUME NEW t \in Threads, ListClasses(t)
        PROVE  CoverInv'
    <2>1. UNCHANGED <<segments, classVars, items>>
      BY <1>2 DEF ListClasses, mapVars
    <2>2. \A s \in segments, k \in scLister : ByTopology(s, k) => ByTopology(s, k)'
      <3> SUFFICES ASSUME NEW s \in segments, NEW k \in scLister, ByTopology(s, k)
                   PROVE  ByTopology(s, k)'
        OBVIOUS
      <3>1. /\ change'[t].pc = "apply" /\ k \in change'[t].classes
            /\ change'[t].added = change[t].added
            /\ \A r \in Threads \ {t} : change'[r] = change[r]
        BY <1>2, ListClassesEffect
      <3>2. PICK u \in Threads :
              /\ s \in change[u].added
              /\ \/ change[u].pc = "list"
                 \/ change[u].pc = "apply" /\ k \in change[u].classes
        BY DEF ByTopology
      <3>3. /\ s \in change'[u].added
            /\ \/ change'[u].pc = "list"
               \/ change'[u].pc = "apply" /\ k \in change'[u].classes
        BY <3>1, <3>2
      <3> QED BY <3>3 DEF ByTopology
    <2>3. \A s, k : ByClass(s, k) => ByClass(s, k)'
      BY <2>1 DEF ByClass, AddAt, classVars
    <2> QED BY <2>1, <2>2, <2>3 DEF CoverInv, classVars
  <1>3. ASSUME NEW t \in Threads, onTopologyChanges(t)
        PROVE  CoverInv'
    <2>1. /\ UNCHANGED <<segments, classVars>>
          /\ change[t].pc = "apply"
          /\ change' = [change EXCEPT ![t] = NoChange]
          /\ items' = (items \cup (change[t].added \X change[t].classes))
                         \ (change[t].removed \X change[t].classes)
      BY <1>3 DEF onTopologyChanges
    <2>2. \A s \in segments, k \in scLister :
              <<s, k>> \notin change[t].removed \X change[t].classes
      BY DEF RemovedInv, TopoTypes
    <2>3. \A s \in segments, k \in scLister :
              ByTopology(s, k) => ByTopology(s, k)' \/ <<s, k>> \in items'
      BY <2>1, <2>2 DEF ByTopology, TopoTypes
    <2>4. \A s, k : ByClass(s, k) => ByClass(s, k)'
      BY <2>1 DEF ByClass, AddAt, classVars
    <2> QED BY <2>1, <2>2, <2>3, <2>4 DEF CoverInv, classVars
  <1>4. CASE ClassChanges \/ ClassResync
    <2>1. PICK k \in Classes, kind \in {"add", "delete"} :
              /\ scLister' = IF kind = "add" THEN scLister \cup {k}
                                             ELSE scLister \ {k}
              /\ scEvent' = scEvent
              /\ Len(scEvents) \in Nat /\ Len(scEvents') = Len(scEvents) + 1
              /\ \A j \in 1 .. Len(scEvents) : scEvents'[j] = scEvents[j]
              /\ scEvents'[Len(scEvents) + 1].kind = kind
              /\ scEvents'[Len(scEvents) + 1].class = k
      BY <1>4, EventAppend
    <2>2. UNCHANGED <<segments, change, items>>
      BY <1>4 DEF ClassChanges, ClassResync, ClassEvent, topoVars, mapVars
    <2>3. \A s, l : ByTopology(s, l) => ByTopology(s, l)'
      BY <2>2 DEF ByTopology
    <2>4. \A s, l : ByClass(s, l) => ByClass(s, l)'
      BY <2>1 DEF ByClass, AddAt
    <2>5. ASSUME NEW s \in segments, NEW l \in scLister'
          PROVE  l \in scLister \/ ByClass(s, l)'
      <3> SUFFICES ASSUME l \notin scLister
                   PROVE  ByClass(s, l)'
        OBVIOUS
      <3>1. l = k /\ kind = "add"
        BY <2>1
      <3>2. \E j \in 1 .. Len(scEvents') :
               scEvents'[j].kind = "add" /\ scEvents'[j].class = l
        BY <2>1, <3>1
      <3> QED BY <3>2 DEF ByClass, AddAt
    <2> QED BY <2>2, <2>3, <2>4, <2>5 DEF CoverInv
  <1>5. CASE ListSegments
    <2>1. UNCHANGED <<segments, change, items, scLister>>
      BY <1>5 DEF ListSegments, topoVars, mapVars
    <2>2. \A s, k : ByTopology(s, k) => ByTopology(s, k)'
      BY <2>1 DEF ByTopology
    <2>3. ASSUME NEW s \in segments, NEW k, ByClass(s, k)
          PROVE  ByClass(s, k)'
      <3>1. PICK j \in 1 .. Len(scEvents) : AddAt(j, k)
        BY <1>5, <2>3, EventTail DEF ByClass
      <3>2. CASE j = 1
        BY <1>5, <3>1, <3>2, EventTail DEF ByClass, AddAt
      <3>3. CASE j # 1
        <4>1. j - 1 \in 1 .. Len(scEvents') /\ AddAt(j - 1, k)'
          BY <1>5, <3>1, <3>3, EventTail DEF AddAt
        <4> QED BY <4>1 DEF ByClass
      <3> QED BY <3>2, <3>3
    <2> QED BY <2>1, <2>2, <2>3 DEF CoverInv
  <1>6. CASE onSCAddOrUpdate
    <2>1. /\ UNCHANGED <<segments, change, scLister, scEvents>>
          /\ items' = items \cup (scEvent.segs \X {scEvent.class})
      BY <1>6 DEF onSCAddOrUpdate, addWorkItem, topoVars
    <2>2. \A s, k : ByTopology(s, k) => ByTopology(s, k)'
      BY <2>1 DEF ByTopology
    <2>3. \A s, k : ByClass(s, k) => ByClass(s, k)' \/ <<s, k>> \in items'
      BY <2>1 DEF ByClass, AddAt
    <2> QED BY <2>1, <2>2, <2>3 DEF CoverInv
  <1>7. CASE onSCDelete
    <2>1. /\ UNCHANGED <<segments, change, scLister, scEvents>>
          /\ scEvent.kind = "delete"
          /\ items' = items \ (scEvent.segs \X {scEvent.class})
      BY <1>7 DEF onSCDelete, topoVars
    <2>2. \A s, k : ByTopology(s, k) => ByTopology(s, k)'
      BY <2>1 DEF ByTopology
    <2>3. \A s, k : ByClass(s, k) => ByClass(s, k)'
      BY <2>1 DEF ByClass, AddAt
    <2>4. \A s \in segments, k \in scLister :
              <<s, k>> \in items => <<s, k>> \in items' \/ ByClass(s, k)'
      BY <2>1 DEF DeleteInv, ByClass, AddAt
    <2> QED BY <2>1, <2>2, <2>3, <2>4 DEF CoverInv
  <1>8. CASE UNCHANGED <<topoVars, classVars, items>>
    <2>1. \A s, k : ByTopology(s, k) => ByTopology(s, k)'
      BY <1>8 DEF ByTopology, topoVars
    <2>2. \A s, k : ByClass(s, k) => ByClass(s, k)'
      BY <1>8 DEF ByClass, AddAt, classVars
    <2> QED BY <1>8, <2>1, <2>2 DEF CoverInv, topoVars, classVars
  <1> QED BY <1>1, <1>2, <1>3, <1>4, <1>5, <1>6, <1>7, <1>8, ItemFrame

-----------------------------------------------------------------------------
(* The theorems.                                                           *)

LEMMA InitIInv ==
    ASSUME Init
    PROVE  IInv
  <1>1. PICK segs \in SUBSET Segs, classes \in SUBSET Classes,
             objects \in [UIDs -> Objects] : InitWith(segs, classes, objects)
    BY DEF Init
  <1>2. NoChange \in ChangeState /\ NoChange.removed = {}
    BY DEF NoChange, ChangeState
  <1> DEFINE c == [NoChange EXCEPT !.pc = "list", !.added = segs]
  <1>3. c \in ChangeState /\ c.pc = "list" /\ c.added = segs /\ c.removed = {}
    BY <1>2 DEF ChangeState
  <1>4. /\ change \in [Threads -> ChangeState]
        /\ change["prepare"].pc = "list" /\ change["prepare"].added = segs
        /\ \A t \in Threads : change[t].removed = {}
    <2>1. change = [t \in Threads |-> IF t = "prepare" THEN c ELSE NoChange]
      BY <1>1 DEF InitWith
    <2> HIDE DEF c
    <2> QED BY <1>2, <1>3, <2>1 DEF Threads
  <1>5. TopoTypes /\ RemovedInv
    BY <1>1, <1>4 DEF InitWith, TopoTypes, RemovedInv
  <1>6. ClassTypes /\ DeleteInv
    BY <1>1 DEF InitWith, ClassTypes, DeleteInv, NoEvent
  <1>7. MapTypes /\ PointerInv
    BY <1>1 DEF InitWith, MapTypes, PointerInv
  <1>8. ObjTypes
    BY <1>1 DEF InitWith, ObjTypes, Objects
  <1>9. WorkTypes
    BY <1>1 DEF InitWith, WorkTypes, Idle, WorkState
  <1>10. CoverInv
    BY <1>1, <1>4 DEF InitWith, CoverInv, ByTopology, Threads
  <1> QED BY <1>5, <1>6, <1>7, <1>8, <1>9, <1>10 DEF IInv, Types

\* In every reachable state IInv holds: the fields have their types, an entry
\* of capacities points to an object of its own, a segment that goes does not
\* come back, and each segment and class has its item or a handler that has
\* yet to add it.
THEOREM Invariance == Spec => []IInv
  <1>1. Init => IInv
    BY InitIInv
  <1>2. IInv /\ [Next]_vars => IInv'
    <2> SUFFICES ASSUME IInv, [Next]_vars
                 PROVE  IInv'
      OBVIOUS
    <2>1. Types'
      BY TopologySteps, ClassSteps, MapSteps, ObjSteps, WorkSteps
      DEF IInv, Types
    <2>2. PointerInv'
      BY PointerSteps DEF IInv
    <2>3. RemovedInv' /\ DeleteInv'
      BY TopologySteps, DeleteSteps DEF IInv, Types
    <2>4. CoverInv'
      BY CoverSteps DEF IInv
    <2> QED BY <2>1, <2>2, <2>3, <2>4 DEF IInv
  <1> QED BY <1>1, <1>2, PTL DEF Spec

\* TypeOK for all constants; with it, that an entry of capacities never points
\* to an object of another segment or class, however workers, users, deletions
\* and the reuse of UIDs interleave.
THEOREM TypeCorrect == Spec => []TypeOK
  <1>1. IInv => TypeOK
    <2> SUFFICES ASSUME IInv
                 PROVE  TypeOK
      OBVIOUS
    <2>1. \A u \in UIDs : obj[u].state \in {"live", "foreign", "gone"}
      BY DEF IInv, Types, ObjTypes, Objects
    <2>2. \A i \in Items : work[i].pc \in {"idle", "get", "write"}
      BY DEF IInv, Types, WorkTypes, WorkState
    <2> QED BY <2>1, <2>2 DEF IInv, Types, TopoTypes, ClassTypes, MapTypes,
            ObjTypes, WorkTypes, PointerInv, TypeOK
  <1> QED BY <1>1, Invariance, PTL

\* Once the handlers are done there is a work item for each segment and class,
\* although prepare, onTopologyChanges and the class handlers read the
\* informers before they take the lock: for any number of segments and classes
\* that come and go, before and after prepare has installed the handler.
THEOREM ItemsAreComplete == Spec => []ItemsComplete
  <1>1. IInv => ItemsComplete
    <2> SUFFICES ASSUME IInv, HandlersIdle, NEW s \in segments, NEW k \in scLister
                 PROVE  <<s, k>> \in items
      BY DEF ItemsComplete
    <2>1. ~ByTopology(s, k)
      BY DEF HandlersIdle, ByTopology
    <2>2. ~ByClass(s, k)
      BY DEF HandlersIdle, ByClass
    <2> QED BY <2>1, <2>2 DEF IInv, CoverInv
  <1> QED BY <1>1, Invariance, PTL

-----------------------------------------------------------------------------
(* NodeTopology.                                                           *)

SegmentLabels == LabelValues \cup {"all"}
SyncState ==
    [pc : {"idle", "nodes", "callback"}, csi : [Nodes -> {"none", "nokeys", "key"}],
     todo : SUBSET Nodes, kept : SUBSET Nat, existing : Seq(Nat),
     added : SUBSET Nat]

Different(S) == \A a, b \in S : content[a] = content[b] => a = b

InformerTypes ==
    /\ nodes \in [Nodes -> LabelValues \cup {"unlabelled", "absent"}]
    /\ csiNodes \in [Nodes -> {"none", "nokeys", "key"}]
    /\ pending \in BOOLEAN /\ queued \in BOOLEAN
    /\ list \in Seq(Nat) /\ content \in Seq(SegmentLabels)
    /\ sync \in SyncState
    /\ client \in SUBSET Nat

\* Between syncs the client knows the list; while the nodes are read the list
\* has not changed, the new list is what was kept and added, and the added
\* segments are new; before the callback the client lacks exactly the difference.
Books ==
    /\ NT!known \cup client \cup sync.added \subseteq DOMAIN content
    /\ Different(NT!known)
    /\ sync.pc = "idle" => client = NT!known /\ sync.added = {}
    /\ sync.pc = "nodes" =>
          /\ client = NT!known
          /\ sync.kept \subseteq NT!known
          /\ sync.added \cap NT!known = {}
          /\ NT!Range(sync.existing) = sync.kept \cup sync.added
          /\ Different(NT!known \cup sync.added)
    /\ sync.pc = "callback" => NT!known = (client \cup sync.added) \ sync.kept

InformerInv == InformerTypes /\ Books

-----------------------------------------------------------------------------
(* The operators.                                                          *)

\* append(existing, segment) adds one address to the list.
LEMMA AppendRange ==
    ASSUME NEW S, NEW s \in Seq(S), NEW e \in S
    PROVE  NT!Range(Append(s, e)) = NT!Range(s) \cup {e}
<1>1. DOMAIN Append(s, e) = DOMAIN s \cup {Len(s) + 1}
  OBVIOUS
<1>2. \A i \in DOMAIN s : Append(s, e)[i] = s[i]
  OBVIOUS
<1>3. Append(s, e)[Len(s) + 1] = e
  OBVIOUS
<1> QED
  BY <1>1, <1>2, <1>3, Zenon DEF NT!Range

\* What a node contributes is a segment, or nothing.
LEMMA SegmentOfType ==
    ASSUME NEW csi \in {"none", "nokeys", "key"},
           NEW label \in LabelValues \cup {"unlabelled", "absent"}
    PROVE  NT!SegmentOf(csi, label) \in SegmentLabels \cup {"nil"}
BY DEF NT!SegmentOf, SegmentLabels, NT!driverTopologyKeys

\* The state of a sync, field by field: when it starts or ends,
LEMMA NoSyncFields ==
    ASSUME InformerTypes
    PROVE  /\ NT!NoSync \in SyncState /\ NT!NoSync.pc = "idle" /\ NT!NoSync.added = {}
           /\ LET start == [NT!NoSync EXCEPT !.pc = "nodes", !.todo = Nodes] IN
              /\ start \in SyncState /\ start.pc = "nodes"
              /\ start.kept = {} /\ start.added = {} /\ start.existing = <<>>
<1>1. /\ csiNodes \in [Nodes -> {"none", "nokeys", "key"}]
      /\ {} \in SUBSET Nodes /\ {} \in SUBSET Nat /\ <<>> \in Seq(Nat)
  BY DEF InformerTypes
<1>2. NT!NoSync \in SyncState
  BY <1>1, Zenon DEF SyncState, NT!NoSync
<1>3. /\ NT!NoSync.pc = "idle" /\ NT!NoSync.added = {} /\ NT!NoSync.kept = {}
      /\ NT!NoSync.existing = <<>>
  BY DEF NT!NoSync
<1> HIDE DEF NT!NoSync
<1> QED
  BY <1>2, <1>3, Zenon DEF SyncState

\* after a round of the loop, and when the list is stored.
LEMMA SyncStateKept ==
    ASSUME NEW r \in SyncState, NEW n, NEW b \in Nat, NEW K \in SUBSET Nat
    PROVE  /\ [r EXCEPT !.todo = @ \ {n}] \in SyncState
           /\ [r EXCEPT !.todo = @ \ {n}, !.kept = @ \cup {b},
                        !.existing = Append(@, b)] \in SyncState
           /\ [r EXCEPT !.todo = @ \ {n}, !.added = @ \cup {b},
                        !.existing = Append(@, b)] \in SyncState
           /\ [r EXCEPT !.pc = "callback", !.kept = K] \in SyncState
<1>1. /\ Append(r.existing, b) \in Seq(Nat) /\ r.todo \ {n} \in SUBSET Nodes
      /\ r.kept \cup {b} \in SUBSET Nat /\ r.added \cup {b} \in SUBSET Nat
  BY DEF SyncState
<1>2. [r EXCEPT !.todo = @ \ {n}] \in SyncState
  BY <1>1, Zenon DEF SyncState
<1>3. [r EXCEPT !.todo = @ \ {n}, !.kept = @ \cup {b},
                !.existing = Append(@, b)] \in SyncState
  BY <1>1, Zenon DEF SyncState
<1>4. [r EXCEPT !.todo = @ \ {n}, !.added = @ \cup {b},
                !.existing = Append(@, b)] \in SyncState
  BY <1>1, Zenon DEF SyncState
<1>5. [r EXCEPT !.pc = "callback", !.kept = K] \in SyncState
  BY Zenon DEF SyncState
<1> QED
  BY <1>2, <1>3, <1>4, <1>5

-----------------------------------------------------------------------------
(* The invariant.                                                          *)

\* There is no segment at first.
LEMMA InformerInit == NT!Init => InformerInv
<1> SUFFICES ASSUME NT!Init
             PROVE  InformerInv
  OBVIOUS
<1>1. InformerTypes
  <2>1. sync \in SyncState
    BY DEF NT!Init, SyncState, NT!NoSync
  <2> QED BY <2>1 DEF NT!Init, InformerTypes
<1>2. NT!known = {}
  BY DEF NT!Init, NT!known, NT!Range
<1>3. Books
  BY <1>2 DEF NT!Init, Books, Different, NT!NoSync
<1> QED
  BY <1>1, <1>3 DEF InformerInv

\* Every step keeps the types
LEMMA InformerStepTypes ==
    ASSUME InformerInv, [NT!Next]_(NT!vars)
    PROVE  InformerTypes'
<1> USE DEF InformerInv
<1>1. ASSUME NEW n \in Nodes, NT!NodeChanges(n)
      PROVE  InformerTypes'
  BY <1>1 DEF NT!NodeChanges, InformerTypes
<1>2. ASSUME NEW n \in Nodes, NT!CSINodeChanges(n)
      PROVE  InformerTypes'
  <2> PICK c \in {"none", "nokeys", "key"} :
          /\ csiNodes' = [csiNodes EXCEPT ![n] = c]
          /\ pending' = (pending \/
                NT!driverTopologyKeys(c) # NT!driverTopologyKeys(csiNodes[n]))
    BY <1>2, Zenon DEF NT!CSINodeChanges
  <2>1. csiNodes' \in [Nodes -> {"none", "nokeys", "key"}]
    BY DEF InformerTypes
  <2>2. pending' \in BOOLEAN
    OBVIOUS
  <2> QED
    BY <1>2, <2>1, <2>2 DEF NT!CSINodeChanges, InformerTypes
<1>3. CASE NT!HandleEvent
  BY <1>3, Zenon DEF NT!HandleEvent, InformerTypes
<1>4. CASE NT!ListCSINodes
  BY <1>4, NoSyncFields, Zenon DEF NT!ListCSINodes, InformerTypes, NT!cacheVars
<1>5. ASSUME NEW n \in Nodes, NT!SyncNode(n)
      PROVE  InformerTypes'
  <2> DEFINE s == NT!SegmentOf(sync.csi[n], nodes[n])
             a == Len(content) + 1
  <2>1. s \in SegmentLabels \cup {"nil"}
    BY SegmentOfType DEF InformerTypes, SyncState
  <2>2. NT!known \subseteq Nat
    BY DEF InformerTypes, NT!known, NT!Range
  <2>3. content \in Seq(SegmentLabels) /\ sync \in SyncState
    BY DEF InformerTypes
  <2>4. a \in Nat /\ (s # "nil" => Append(content, s) \in Seq(SegmentLabels))
    BY <2>1, <2>3
  <2> HIDE DEF s, a
  <2>5. content' \in Seq(SegmentLabels)
    BY <1>5, <2>3, <2>4, Zenon DEF NT!SyncNode, s
  <2>6. sync' \in SyncState
    <3>1. CASE sync' = [sync EXCEPT !.todo = @ \ {n}]
      BY <2>3, <3>1, SyncStateKept, Zenon
    <3>2. ASSUME NEW b \in NT!known,
                 sync' = [sync EXCEPT !.todo = @ \ {n}, !.kept = @ \cup {b},
                                      !.existing = Append(@, b)]
          PROVE  sync' \in SyncState
      BY <2>2, <2>3, <3>2, SyncStateKept, Zenon
    <3>3. CASE sync' = [sync EXCEPT !.todo = @ \ {n}, !.added = @ \cup {a},
                                    !.existing = Append(@, a)]
      BY <2>3, <2>4, <3>3, SyncStateKept, Zenon
    <3> QED
      BY <1>5, <3>1, <3>2, <3>3, Zenon DEF NT!SyncNode, a
  <2> QED
    BY <1>5, <2>5, <2>6, Zenon DEF NT!SyncNode, InformerTypes, NT!cacheVars
<1>6. CASE NT!StoreSegments
  <2>1. NT!known \ sync.kept \in SUBSET Nat /\ sync \in SyncState
    BY DEF InformerTypes, NT!known, NT!Range
  <2>2. sync' \in SyncState
    BY <1>6, <2>1, NoSyncFields, SyncStateKept, Zenon DEF NT!StoreSegments
  <2>3. list' \in Seq(Nat)
    BY <1>6, <2>1 DEF NT!StoreSegments, SyncState
  <2> QED
    BY <1>6, <2>2, <2>3 DEF NT!StoreSegments, InformerTypes, NT!cacheVars
<1>7. CASE NT!Callback
  <2>1. client' \in SUBSET Nat
    BY <1>7, Zenon DEF NT!Callback, InformerTypes, SyncState
  <2> QED
    BY <1>7, <2>1, NoSyncFields DEF NT!Callback, InformerTypes, NT!cacheVars
<1>8. CASE UNCHANGED NT!vars
  BY <1>8 DEF NT!vars, InformerTypes
<1> QED
  BY <1>1, <1>2, <1>3, <1>4, <1>5, <1>6, <1>7, <1>8
     DEF NT!Next, NT!processNextWorkItem

\* and the books.
LEMMA StepBooks ==
    ASSUME InformerInv, [NT!Next]_(NT!vars)
    PROVE  Books'
<1> USE DEF InformerInv
<1>1. ASSUME UNCHANGED <<list, content, sync, client>>
      PROVE  Books'
  <2>1. UNCHANGED NT!known
    BY <1>1 DEF NT!known
  <2>2. Different(NT!known)'
    BY <1>1, <2>1 DEF Books, Different
  <2>3. sync.pc = "nodes" => Different(NT!known \cup sync.added)'
    BY <1>1, <2>1 DEF Books, Different
  <2> QED BY <1>1, <2>1, <2>2, <2>3 DEF Books
<1>2. CASE NT!ListCSINodes
  <2>1. /\ sync'.pc = "nodes" /\ sync'.kept = {} /\ sync'.added = {}
        /\ sync'.existing = <<>>
    BY <1>2, NoSyncFields DEF NT!ListCSINodes
  <2>2. sync.pc = "idle" /\ UNCHANGED <<list, content, client>>
    BY <1>2 DEF NT!ListCSINodes
  <2>3. NT!Range(sync'.existing) = {}
    BY <2>1 DEF NT!Range
  <2>4. UNCHANGED NT!known
    BY <2>2 DEF NT!known
  <2> QED
    BY <2>1, <2>2, <2>3, <2>4 DEF Books, Different
<1>3. ASSUME NEW n \in Nodes, NT!SyncNode(n)
      PROVE  Books'
  <2> DEFINE s == NT!SegmentOf(sync.csi[n], nodes[n])
             a == Len(content) + 1
  <2>1. /\ sync.pc = "nodes" /\ UNCHANGED <<list, client, NT!known>>
    BY <1>3, Zenon DEF NT!SyncNode, NT!known
  <2>2. content \in Seq(SegmentLabels) /\ sync \in SyncState /\ NT!known \subseteq Nat
    BY DEF InformerTypes, NT!known, NT!Range
  <2>3. a \in Nat /\ a \notin DOMAIN content
    BY <2>2
  <2> HIDE DEF s, a
  <2>4. CASE sync' = [sync EXCEPT !.todo = @ \ {n}] /\ UNCHANGED content
    BY <2>1, <2>2, <2>4 DEF Books, Different, SyncState
  <2>5. ASSUME NEW b \in NT!known, UNCHANGED content,
               sync' = [sync EXCEPT !.todo = @ \ {n}, !.kept = @ \cup {b},
                                    !.existing = Append(@, b)]
        PROVE  Books'
    <3>1. /\ sync'.pc = "nodes" /\ sync'.kept = sync.kept \cup {b}
          /\ sync'.added = sync.added
          /\ NT!Range(sync'.existing) = NT!Range(sync.existing) \cup {b}
      <4>1. sync'.existing = Append(sync.existing, b)
        BY <2>2, <2>5 DEF SyncState
      <4>2. sync.existing \in Seq(Nat) /\ b \in Nat
        BY <2>2 DEF SyncState
      <4> QED
        BY <2>1, <2>2, <2>5, <4>1, <4>2, AppendRange DEF SyncState
    <3> QED
      BY <2>1, <2>5, <3>1 DEF Books, Different
  <2>6. ASSUME s # "nil", {b \in NT!known \cup sync.added : content[b] = s} = {},
               content' = Append(content, s),
               sync' = [sync EXCEPT !.todo = @ \ {n}, !.added = @ \cup {a},
                                    !.existing = Append(@, a)]
        PROVE  Books'
    <3>1. /\ sync'.pc = "nodes" /\ sync'.kept = sync.kept
          /\ sync'.added = sync.added \cup {a}
          /\ NT!Range(sync'.existing) = NT!Range(sync.existing) \cup {a}
      <4>1. sync'.existing = Append(sync.existing, a)
        BY <2>2, <2>6 DEF SyncState
      <4>2. sync.existing \in Seq(Nat)
        BY <2>2 DEF SyncState
      <4>3. NT!Range(sync'.existing) = NT!Range(sync.existing) \cup {a}
        BY <2>3, <4>1, <4>2, AppendRange
      <4> QED
        BY <2>1, <2>2, <2>6, <4>3 DEF SyncState
    <3>2. /\ DOMAIN content' = DOMAIN content \cup {a}
          /\ content'[a] = s
          /\ \A b \in DOMAIN content : content'[b] = content[b]
      BY <2>2, <2>6 DEF a
    <3>3. \A b \in NT!known \cup sync.added : content'[b] # s /\ b # a
      BY <2>3, <2>6, <3>2 DEF Books
    <3>4. Different(NT!known \cup sync.added)'
      <4> DEFINE K == NT!known \cup sync.added
      <4>1. (NT!known \cup sync.added)' = K \cup {a}
        BY <2>1, <3>1
      <4>2. Different(K) /\ K \subseteq DOMAIN content
        BY <2>1 DEF Books
      <4>3. ASSUME NEW b \in K \cup {a}, NEW c \in K \cup {a}, content'[b] = content'[c]
            PROVE  b = c
        BY <3>2, <3>3, <4>2, <4>3 DEF Different
      <4> QED BY <4>1, <4>3 DEF Different
    <3>5. Different(NT!known)'
      BY <2>1, <3>4 DEF Different
    <3> QED
      BY <2>1, <2>3, <3>1, <3>2, <3>4, <3>5 DEF Books
  <2> QED
    BY <1>3, <2>4, <2>5, <2>6, Zenon DEF NT!SyncNode, s, a
<1>4. CASE NT!StoreSegments
  <2>1. /\ sync.pc = "nodes" /\ NT!known' = NT!Range(sync.existing)
        /\ UNCHANGED <<content, client>>
    BY <1>4 DEF NT!StoreSegments, NT!known
  <2>2. NT!known \ sync.kept \in SUBSET Nat /\ sync \in SyncState
    BY DEF InformerTypes, NT!known, NT!Range
  <2>3. NT!known' = sync.kept \cup sync.added
    BY <2>1 DEF Books
  <2>4. Different(NT!known)' /\ NT!known' \subseteq DOMAIN content
    BY <2>1, <2>3 DEF Books, Different
  <2>5. CASE sync' = NT!NoSync /\ sync.added = {} /\ NT!known \ sync.kept = {}
    BY <2>1, <2>3, <2>4, <2>5, NoSyncFields, Zenon DEF Books
  <2>6. CASE sync' = [sync EXCEPT !.pc = "callback", !.kept = NT!known \ sync.kept]
    <3>1. /\ sync'.pc = "callback" /\ sync'.kept = NT!known \ sync.kept
          /\ sync'.added = sync.added
      BY <2>2, <2>6 DEF SyncState
    <3> QED
      BY <2>1, <2>3, <2>4, <3>1 DEF Books
  <2> QED
    BY <1>4, <2>5, <2>6 DEF NT!StoreSegments
<1>5. CASE NT!Callback
  <2>1. UNCHANGED <<NT!known, content>> /\ client' = NT!known
    BY <1>5 DEF NT!Callback, Books, NT!known
  <2>2. sync'.pc = "idle" /\ sync'.added = {}
    BY <1>5, NoSyncFields DEF NT!Callback
  <2> QED
    BY <2>1, <2>2 DEF Books, Different
<1> QED
  <2>1. ASSUME NEW n \in Nodes, NT!NodeChanges(n) \/ NT!CSINodeChanges(n)
        PROVE  UNCHANGED <<list, content, sync, client>>
    BY <2>1 DEF NT!NodeChanges, NT!CSINodeChanges
  <2>2. NT!HandleEvent \/ UNCHANGED NT!vars => UNCHANGED <<list, content, sync, client>>
    BY DEF NT!HandleEvent, NT!vars
  <2> QED
    BY <1>1, <1>2, <1>3, <1>4, <1>5, <2>1, <2>2 DEF NT!Next, NT!processNextWorkItem

\* The types and the books hold throughout.
THEOREM InformerInvariance == NT!Spec => []InformerInv
<1>1. InformerInv /\ [NT!Next]_(NT!vars) => InformerInv'
  BY InformerStepTypes, StepBooks DEF InformerInv
<1> QED
  BY InformerInit, <1>1, PTL DEF NT!Spec

\* A segment that sync adds is none that is listed or was added before in the
\* same sync, for every number of nodes (sync, addSegment of topology/nodes.go).
THEOREM InformerTypeCorrect == NT!Spec => []NT!TypeOK
<1>1. InformerInv => NT!TypeOK
  BY DEF InformerInv, InformerTypes, Books, NT!TypeOK, SyncState, Different
<1> QED
  BY <1>1, InformerInvariance, PTL

-----------------------------------------------------------------------------
(* The refinement.                                                         *)

\* What TopologyInformer says without its liveness conjunct.
InformerSafety == NT!TI!Init /\ [][NT!TI!Next]_(NT!TI!vars)

\* Storing the list is a change of the interface, calling the callback is its
\* callback, and every other step changes nothing that it shows.
LEMMA StepInformer ==
    ASSUME InformerInv, [NT!Next]_(NT!vars)
    PROVE  [NT!TI!Next]_(NT!TI!vars)
<1> DEFINE Listed(S) == {NT!Segment(a) : a \in S}
<1> USE DEF InformerInv
<1>1. ASSUME UNCHANGED <<list, content, client>>
      PROVE  UNCHANGED NT!TI!vars
  BY <1>1 DEF NT!TI!vars, NT!Segment, NT!known
<1>2. ASSUME NEW n \in Nodes, NT!SyncNode(n)
      PROVE  UNCHANGED NT!TI!vars
  <2>1. UNCHANGED <<NT!known, client>>
    BY <1>2, Zenon DEF NT!SyncNode, NT!known
  <2>2. content \in Seq(SegmentLabels)
    BY DEF InformerTypes
  <2>3. content' = content \/ \E s : content' = Append(content, s)
    BY <1>2, Zenon DEF NT!SyncNode
  <2>4. \A a \in DOMAIN content : content'[a] = content[a]
    BY <2>2, <2>3
  <2>5. \A a \in NT!known \cup client : NT!Segment(a)' = NT!Segment(a)
    BY <2>4 DEF Books, NT!Segment
  <2> QED
    BY <2>1, <2>5, Zenon DEF NT!TI!vars
<1>3. CASE NT!StoreSegments
  <2>1. /\ sync.pc = "nodes" /\ NT!known' = NT!Range(sync.existing)
        /\ UNCHANGED <<content, client>>
    BY <1>3 DEF NT!StoreSegments, NT!known
  <2>2. NT!known' \subseteq NT!known \cup sync.added /\ client = NT!known
    BY <2>1 DEF Books
  <2>3. \A a : NT!Segment(a)' = NT!Segment(a)
    BY <2>1 DEF NT!Segment
  <2>4. \A a, b \in NT!known \cup NT!known' :
           content[a] = content[b] => a = b
    BY <2>1, <2>2 DEF Books, Different
  <2>5. ASSUME NEW x \in Listed(NT!known) \cup Listed(NT!known)', NEW y \in Listed(NT!known)',
               x.address = y.address \/ x.labels = y.labels
        PROVE  x = y
    <3>1. PICK a \in NT!known \cup NT!known' : x = NT!Segment(a)
      BY <2>3
    <3>2. PICK b \in NT!known' : y = NT!Segment(b)
      BY <2>3
    <3> QED
      BY <2>4, <2>5, <3>1, <3>2 DEF NT!Segment
  <2>6. Listed(client) = Listed(NT!known) /\ UNCHANGED Listed(client)
    BY <2>1, <2>2, <2>3
  <2> QED
    BY <2>5, <2>6 DEF NT!TI!Next, NT!TI!Change
<1>4. CASE NT!Callback
  <2>1. UNCHANGED <<NT!known, content>> /\ client' = NT!known
    BY <1>4 DEF NT!Callback, Books, NT!known
  <2> QED
    BY <2>1 DEF NT!TI!Next, NT!TI!Callback, NT!Segment
<1> QED
  <2>1. ASSUME NEW n \in Nodes, NT!NodeChanges(n) \/ NT!CSINodeChanges(n)
        PROVE  UNCHANGED <<list, content, client>>
    BY <2>1 DEF NT!NodeChanges, NT!CSINodeChanges
  <2>2. NT!HandleEvent \/ NT!ListCSINodes \/ UNCHANGED NT!vars
          => UNCHANGED <<list, content, client>>
    BY DEF NT!HandleEvent, NT!ListCSINodes, NT!vars
  <2> QED
    BY <1>1, <1>2, <1>3, <1>4, <2>1, <2>2 DEF NT!Next, NT!processNextWorkItem

\* sync implements the safety part of the interface: the client's callback is
\* called with exactly the difference before the list changes again, no two
\* listed segments are equal, and a segment that stays keeps its address.
THEOREM SafelyImplementsInformer == NT!Spec => InformerSafety
<1>1. NT!Init => NT!TI!Init
  BY DEF NT!Init, NT!TI!Init, NT!known, NT!Range
<1>2. InformerInv /\ [NT!Next]_(NT!vars) => [NT!TI!Next]_(NT!TI!vars)
  BY StepInformer
<1> QED
  BY <1>1, <1>2, InformerInvariance, PTL DEF NT!Spec, InformerSafety
===========================================================================
