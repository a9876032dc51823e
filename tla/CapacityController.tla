------------------------ MODULE CapacityController ------------------------
(***************************************************************************)
(* The storage capacity controller: for each topology segment and storage  *)
(* class it publishes one CSIStorageCapacity object with what GetCapacity  *)
(* returns.                                                                *)
(*                                                                         *)
(* Concurrent parts: the topology informer's callback, the event handlers  *)
(* of the class and of the object informer, prepare, the workers (one per  *)
(* work item), the driver, and users who delete or relabel objects.  The   *)
(* callback, prepare and the class handler read an informer before they    *)
(* take the lock.                                                          *)
(*                                                                         *)
(* A work item is a segment, identified by its address, and a class.       *)
(* Several segments may have the same labels: one that is removed and      *)
(* added again gets a new address.  Init is a process that has just        *)
(* started and finds the objects which earlier processes left.             *)
(***************************************************************************)
EXTENDS Naturals, Sequences, FiniteSets

CONSTANTS
    Segs, Labels, LabelOf, \* addresses of segments and their labels
    Classes,               \* storage classes of the driver
    UIDs,                  \* bound on the objects that exist at a time
    Values,                \* what GetCapacity may return
    Env,                   \* what changes: "classes", "segments", "values",
                           \* "errors", "users"
    MaxChanges             \* bound on these changes

ASSUME CapacityAssumption ==
    /\ LabelOf \in [Segs -> Labels]
    /\ Values \subseteq Nat
    /\ UIDs \subseteq Nat \ {0} /\ IsFiniteSet(UIDs)
    /\ MaxChanges \in Nat

VARIABLES
    segments, retired,    \* the topology informer's segments, former ones
    change,               \* onTopologyChanges, called back or by prepare:
                          \* [pc, added, removed, classes]
    scLister, scEvents,   \* class informer: cache and events not yet handled
    scEvent,              \* the event being handled: [kind, class, segs]
    items, ptr,           \* capacities: keys, and UID of the object (0: nil)
    queue, delQueue,      \* work queue: items, objects to be deleted
    listed,               \* objects prepare has yet to look at
    obj,                  \* API server: [state, key, cap] by UID
    dirty,                \* objects with a version not yet handled
    told,                 \* capacity in the version last handled
    work,                 \* worker of an item: [pc, uid, cap, stale, val]
    avail,                \* what GetCapacity returns next
    changes,              \* how many changes there were
    overlapped            \* history: a change met a handler that is not done

topoVars == <<segments, retired, change>>
runVars == <<changes, overlapped>>
classVars == <<scLister, scEvents, scEvent>>
mapVars == <<items, ptr, queue, delQueue>>
objVars == <<obj, dirty, told>>
vars == <<topoVars, classVars, mapVars, listed, objVars, work, avail, runVars>>

Items == Segs \X Classes
Key(i) == <<LabelOf[i[1]], i[2]>>
Object(state, key, cap) == [state |-> state, key |-> key, cap |-> cap]
Threads == {"callback", "prepare"}
NoChange == [pc |-> "idle", added |-> {}, removed |-> {}, classes |-> {}]
NoEvent == [kind |-> "none", class |-> CHOOSE k \in Classes : TRUE, segs |-> {}]
Idle == [pc |-> "idle", uid |-> 0, cap |-> 0, stale |-> FALSE, val |-> 0]

\* prepare has listed the segments.
InitWith(segs, classes, objects) ==
    /\ segments = segs /\ retired = {}
    /\ change = [t \in Threads |->
                   IF t = "prepare" THEN [NoChange EXCEPT !.pc = "list", !.added = segs]
                                    ELSE NoChange]
    /\ scLister = classes /\ scEvents = <<>> /\ scEvent = NoEvent
    /\ items = {} /\ ptr = [i \in Items |-> 0] /\ queue = {} /\ delQueue = {}
    /\ obj = objects /\ listed = {}
    /\ dirty = {u \in UIDs : objects[u].state = "live"}
    /\ told = [u \in UIDs |-> objects[u].cap]
    /\ work = [i \in Items |-> Idle]
    /\ avail \in Values
    /\ changes = 0 /\ overlapped = FALSE

Objects == [state : {"live", "foreign", "gone"}, key : Labels \X Classes, cap : Nat]

Init ==
    \E segs \in SUBSET Segs, classes \in SUBSET Classes, objects \in [UIDs -> Objects] :
        /\ \A s, t \in segs : LabelOf[s] = LabelOf[t] => s = t
        /\ InitWith(segs, classes, objects)

HandlerInstalled == change["prepare"].pc = "idle"
Prepared == HandlerInstalled /\ listed = {}

\* Something changes, perhaps while a handler acts on what was before.
Change(what, overlap) ==
    /\ what \in Env
    /\ changes < MaxChanges
    /\ changes' = changes + 1
    /\ overlapped' = (overlapped \/ overlap)

-----------------------------------------------------------------------------
(* addWorkItem and removeWorkItem, for sets of items.                      *)

addWorkItem(S) ==
    /\ items' = items \cup S
    /\ queue' = queue \cup S

RemoveKeepsObject(S) ==
    /\ ptr' = [i \in Items |-> IF i \in S THEN 0 ELSE ptr[i]]
    /\ UNCHANGED delQueue

removeWorkItem(S) ==
    /\ ptr' = [i \in Items |-> IF i \in S THEN 0 ELSE ptr[i]]
    /\ delQueue' = (delQueue \cup {ptr[i] : i \in S}) \ {0}

-----------------------------------------------------------------------------
(* Topology informer: the segments change, and then the callback runs.     *)

\* The class handler has listed the segments, or will not see a class whose
\* deletion it has yet to handle.
ClassesUnsettled ==
    \/ scEvent.kind # "none"
    \/ \E j \in 1 .. Len(scEvents) : scEvents[j].kind = "delete"

TopologyChanges ==
    /\ change["callback"].pc = "idle"
    /\ Change("segments", ClassesUnsettled \/ ~HandlerInstalled)
    /\ \E new \in SUBSET (Segs \ retired) :
          /\ new # segments
          /\ \A s, t \in new : LabelOf[s] = LabelOf[t] => s = t
          /\ segments' = new
          /\ retired' = retired \cup (segments \ new)
          /\ change' = [change EXCEPT !["callback"] =
                          [pc |-> "list", added |-> new \ segments,
                           removed |-> segments \ new, classes |-> {}]]
    /\ UNCHANGED <<classVars, mapVars, listed, objVars, work, avail>>

\* onTopologyChanges: the classes are listed before the lock is taken.
ListClasses(t) ==
    /\ change[t].pc = "list"
    /\ change' = [change EXCEPT ![t].pc = "apply", ![t].classes = scLister]
    /\ UNCHANGED <<segments, retired, classVars, mapVars, listed, objVars,
                   work, avail, runVars>>

\* prepare goes on: it installs the object handler and lists the objects.
onTopologyChanges(t) ==
    LET added == change[t].added \X change[t].classes
        removed == change[t].removed \X change[t].classes
    IN  /\ change[t].pc = "apply"
        /\ items' = (items \cup added) \ removed
        /\ queue' = queue \cup added
        /\ removeWorkItem(removed)
        /\ change' = [change EXCEPT ![t] = NoChange]
        /\ listed' = IF t = "prepare" THEN {u \in UIDs : obj[u].state = "live"}
                                      ELSE listed
        /\ UNCHANGED <<segments, retired, classVars, objVars, work, avail, runVars>>

-----------------------------------------------------------------------------
(* Storage class informer: the cache changes, and then the handler runs.   *)

ClassEvent(kind, k) ==
    /\ scLister' = IF kind = "add" THEN scLister \cup {k} ELSE scLister \ {k}
    /\ scEvents' = Append(scEvents, [kind |-> kind, class |-> k])
    /\ UNCHANGED <<topoVars, scEvent, mapVars, listed, objVars, work, avail>>

ClassChanges ==
    \E k \in Classes, kind \in {"add", "delete"} :
        /\ kind = "add" <=> k \notin scLister
        /\ Change("classes",
                  kind = "delete" /\ \E t \in Threads : change[t].pc # "idle")
        /\ ClassEvent(kind, k)

\* The same event without a change: the periodic resync of the informer, an
\* update of the class, or its first event, which may be handled after prepare
\* has listed the class.  A second one would repeat the first.
ClassResync ==
    \E k \in scLister :
        /\ \A j \in 1 .. Len(scEvents) : scEvents[j].class # k
        /\ ClassEvent("add", k)
        /\ UNCHANGED runVars

\* Both handlers list the segments before they take the lock.
ListSegments ==
    /\ scEvent.kind = "none" /\ scEvents # <<>>
    /\ scEvents' = Tail(scEvents)
    /\ scEvent' = [kind |-> Head(scEvents).kind, class |-> Head(scEvents).class,
                   segs |-> segments]
    /\ overlapped' = (overlapped \/ change["callback"].pc # "idle")
    /\ UNCHANGED <<topoVars, scLister, mapVars, listed, objVars, work, avail,
                   changes>>

AddForKnownSegments ==
    /\ scEvent.kind = "add"
    /\ addWorkItem({s \in scEvent.segs : \E i \in items : i[1] = s}
                     \X {scEvent.class})
    /\ scEvent' = NoEvent
    /\ UNCHANGED <<topoVars, scLister, scEvents, ptr, delQueue, listed, objVars,
                   work, avail, runVars>>

onSCAddOrUpdate ==
    /\ scEvent.kind = "add"
    /\ addWorkItem(scEvent.segs \X {scEvent.class})
    /\ scEvent' = NoEvent
    /\ UNCHANGED <<topoVars, scLister, scEvents, ptr, delQueue, listed, objVars,
                   work, avail, runVars>>

onSCDelete ==
    /\ scEvent.kind = "delete"
    /\ items' = items \ (scEvent.segs \X {scEvent.class})
    /\ removeWorkItem(scEvent.segs \X {scEvent.class})
    /\ scEvent' = NoEvent
    /\ UNCHANGED <<topoVars, scLister, scEvents, queue, listed, objVars, work,
                   avail, runVars>>

-----------------------------------------------------------------------------
(* Refreshes: all items are polled; the Provisioner wrapper refreshes the  *)
(* items with the topology or the class of a volume that it was asked to   *)
(* create or delete.                                                       *)

Enqueue(S) ==
    /\ queue' = queue \cup S
    /\ UNCHANGED <<topoVars, classVars, items, ptr, delQueue, listed, objVars,
                   work, avail, runVars>>

pollCapacities == Enqueue(items)

refreshTopology(l) == Enqueue({i \in items : LabelOf[i[1]] = l})

refreshSC(k) == Enqueue({i \in items : i[2] = k})

WrappedProvision ==
    \/ \E l \in Labels : refreshTopology(l)
    \/ \E k \in Classes : refreshSC(k)

WrappedDelete == \E l \in Labels : refreshTopology(l)

CapacityChanges ==
    /\ Change("values", FALSE)
    /\ avail' \in Values \ {avail}
    /\ UNCHANGED <<topoVars, classVars, mapVars, listed, objVars, work>>

-----------------------------------------------------------------------------
(* syncCapacity.                                                           *)

Done(i) == [work EXCEPT ![i] = Idle]

\* The entry is read under the lock.  Workers start when prepare is done.
StartSync(i) ==
    /\ Prepared /\ i \in queue /\ work[i].pc = "idle"
    /\ queue' = queue \ {i}
    /\ work' = IF i \notin items THEN work ELSE
                 [work EXCEPT ![i] =
                    [pc |-> "get", uid |-> ptr[i], val |-> 0,
                     cap |-> IF ptr[i] = 0 THEN 0 ELSE told[ptr[i]],
                     stale |-> ptr[i] \in dirty]]
    /\ UNCHANGED <<topoVars, classVars, items, ptr, delQueue, listed, objVars,
                   avail, runVars>>

\* An item whose class is not in the cache is dropped; GetCapacity may fail.
GetCapacity(i) ==
    /\ work[i].pc = "get"
    /\ \/ /\ i[2] \notin scLister
          /\ work' = Done(i)
          /\ UNCHANGED <<queue, runVars>>
       \/ /\ i[2] \in scLister
          /\ work' = [work EXCEPT ![i].pc = "write", ![i].val = avail]
          /\ UNCHANGED <<queue, runVars>>
       \/ /\ i[2] \in scLister /\ Change("errors", FALSE)
          /\ work' = Done(i)
          /\ queue' = queue \cup {i}
    /\ UNCHANGED <<topoVars, classVars, items, ptr, delQueue, listed, objVars,
                   avail>>

Free(u) ==
    /\ obj[u].state # "live"
    /\ u \notin dirty \cup listed \cup delQueue
    /\ \A i \in Items : ptr[i] # u /\ work[i].uid # u

\* The new object is not stored: the event handler will see it.  The call may
\* report an error although the object exists.
CreateObject(i) ==
    /\ work[i].pc = "write" /\ work[i].uid = 0
    /\ \E u \in UIDs :
          /\ Free(u) /\ \A w \in UIDs : w < u => ~Free(w)
          /\ obj' = [obj EXCEPT ![u] = Object("live", Key(i), work[i].val)]
          /\ dirty' = dirty \cup {u}
    /\ work' = Done(i)
    /\ \/ UNCHANGED <<queue, runVars>>
       \/ Change("errors", FALSE) /\ queue' = queue \cup {i}
    /\ UNCHANGED <<topoVars, classVars, items, ptr, delQueue, listed, told, avail>>

\* An object with the right capacity is left alone; the update of an old
\* version, or of an object that is gone, is an error.
UpdateObject(i) ==
    LET u == work[i].uid
        old == work[i].stale \/ obj[u].state # "live"
    IN  /\ work[i].pc = "write" /\ u # 0
        /\ \/ /\ work[i].cap = work[i].val
              /\ work' = Done(i)
              /\ UNCHANGED <<obj, dirty, queue>>
           \/ /\ work[i].cap # work[i].val /\ ~old
              /\ obj' = [obj EXCEPT ![u].cap = work[i].val]
              /\ dirty' = dirty \cup {u}
              /\ work' = [j \in Items |-> IF j = i THEN Idle
                            ELSE [work[j] EXCEPT !.stale = @ \/ work[j].uid = u]]
              /\ UNCHANGED queue
           \/ /\ work[i].cap # work[i].val /\ old
              /\ queue' = queue \cup {i}
              /\ work' = Done(i)
              /\ UNCHANGED <<obj, dirty>>
        /\ UNCHANGED <<topoVars, classVars, items, ptr, delQueue, listed, told,
                       avail, runVars>>

deleteCapacity(u) ==
    /\ Prepared /\ u \in delQueue
    /\ delQueue' = delQueue \ {u}
    /\ obj' = [obj EXCEPT ![u] = Object("gone", obj[u].key, 0)]
    /\ dirty' = IF obj[u].state = "gone" THEN dirty ELSE dirty \cup {u}
    /\ UNCHANGED <<topoVars, classVars, items, ptr, queue, listed, told, work,
                   avail, runVars>>

-----------------------------------------------------------------------------
(* CSIStorageCapacity objects: users, and the events they cause.           *)

\* An object is deleted, or loses the labels that make it ours.
UserChanges ==
    /\ \E u \in UIDs, state \in {"gone", "foreign"} :
          /\ Change("users", ~Prepared)
          /\ obj[u].state = "live"
          /\ obj' = [obj EXCEPT ![u] = Object(state, obj[u].key, 0)]
          /\ dirty' = dirty \cup {u}
          /\ work' = [i \in Items |->
                        [work[i] EXCEPT !.stale = @ \/ work[i].uid = u]]
    /\ UNCHANGED <<topoVars, classVars, mapVars, listed, told, avail>>

AdoptWithoutEquals(u) ==
    \/ /\ \E i \in items : ptr[i] = u
       /\ UNCHANGED <<ptr, delQueue>>
    \/ /\ \E i \in items : ptr[i] = 0 /\ ptr' = [ptr EXCEPT ![i] = u]
       /\ UNCHANGED delQueue
    \/ /\ \A i \in items : ptr[i] \notin {0, u}
       /\ delQueue' = delQueue \cup {u}
       /\ UNCHANGED ptr

\* onCAddOrUpdate for a managed object: it is known already, it is adopted by
\* an item without object, or it is obsolete.  The map has no order.
onCAddOrUpdate(u) ==
    \/ /\ \E i \in items : ptr[i] = u
       /\ UNCHANGED <<ptr, delQueue>>
    \/ /\ \E i \in items : /\ ptr[i] = 0 /\ Key(i) = obj[u].key
                           /\ ptr' = [ptr EXCEPT ![i] = u]
       /\ UNCHANGED delQueue
    \/ /\ \A i \in items : ptr[i] # u /\ ~(ptr[i] = 0 /\ Key(i) = obj[u].key)
       /\ delQueue' = delQueue \cup {u}
       /\ UNCHANGED ptr

\* onCAddOrUpdate for an object that is not managed any more.
Disown(u) ==
    /\ ptr' = [i \in Items |-> IF ptr[i] = u THEN 0 ELSE ptr[i]]
    /\ queue' = queue \cup {i \in items : ptr[i] = u}

\* onCDelete is done with the first entry that it finds.
onCDelete(u) ==
    \/ \E i \in items : /\ ptr[i] = u
                        /\ ptr' = [ptr EXCEPT ![i] = 0]
                        /\ queue' = queue \cup {i}
    \/ /\ \A i \in items : ptr[i] # u
       /\ UNCHANGED <<ptr, queue>>

ObjectEvent(u) ==
    /\ HandlerInstalled /\ u \in dirty
    /\ dirty' = dirty \ {u}
    /\ told' = [told EXCEPT ![u] = obj[u].cap]
    /\ \/ obj[u].state = "live" /\ onCAddOrUpdate(u) /\ UNCHANGED queue
       \/ obj[u].state = "foreign" /\ Disown(u) /\ UNCHANGED delQueue
       \/ obj[u].state = "gone" /\ onCDelete(u) /\ UNCHANGED delQueue
    /\ UNCHANGED <<topoVars, classVars, items, listed, obj, work, avail, runVars>>

\* prepare also goes through the objects that it listed.
Prepare(u) ==
    /\ u \in listed
    /\ listed' = listed \ {u}
    /\ onCAddOrUpdate(u)
    /\ UNCHANGED <<topoVars, classVars, items, queue, objVars, work, avail,
                   runVars>>

-----------------------------------------------------------------------------
OnTopology(t) == ListClasses(t) \/ onTopologyChanges(t)
OnClass == ListSegments \/ onSCAddOrUpdate \/ onSCDelete
syncCapacity(i) == GetCapacity(i) \/ CreateObject(i) \/ UpdateObject(i)

Next ==
    \/ TopologyChanges \/ ClassChanges \/ ClassResync
    \/ CapacityChanges \/ UserChanges
    \/ \E t \in Threads : OnTopology(t)
    \/ OnClass
    \/ pollCapacities \/ WrappedProvision \/ WrappedDelete
    \/ \E i \in Items : StartSync(i) \/ syncCapacity(i)
    \/ \E u \in UIDs : deleteCapacity(u) \/ ObjectEvent(u) \/ Prepare(u)

Spec == Init /\ [][Next]_vars

\* Threads that have started a step go on, workers take what is queued,
\* watches deliver, and the poll timer fires.
Fairness ==
    /\ \A t \in Threads : WF_vars(OnTopology(t))
    /\ WF_vars(OnClass) /\ WF_vars(pollCapacities)
    /\ \A i \in Items : WF_vars(StartSync(i)) /\ WF_vars(syncCapacity(i))
    /\ \A u \in UIDs : /\ WF_vars(deleteCapacity(u)) /\ WF_vars(ObjectEvent(u))
                       /\ WF_vars(Prepare(u))

-----------------------------------------------------------------------------
(* Properties.                                                             *)

\* Types; and an entry of capacities points to an object with the labels and
\* the class of its work item.
TypeOK ==
    /\ segments \subseteq Segs /\ retired \subseteq Segs \ segments
    /\ scLister \subseteq Classes /\ scEvent.segs \subseteq Segs
    /\ items \subseteq Items /\ queue \subseteq Items
    /\ \A i \in Items : ptr[i] # 0 => i \in items /\ Key(i) = obj[ptr[i]].key
    /\ delQueue \cup listed \cup dirty \subseteq UIDs
    /\ \A u \in UIDs : obj[u].state \in {"live", "foreign", "gone"}
    /\ \A i \in Items : work[i].pc \in {"idle", "get", "write"}
    /\ avail \in Values

HandlersIdle ==
    /\ \A t \in Threads : change[t].pc = "idle"
    /\ scEvents = <<>> /\ scEvent.kind = "none"

\* Whatever the order in which segments and classes come and go, and although
\* prepare and the handlers read the informers without a common lock, there is
\* a work item for each segment and class once the handlers are done.
ItemsComplete == HandlersIdle => segments \X scLister \subseteq items

\* The objects that should exist do, once each and with the capacity that
\* GetCapacity reports; there are no others of ours.
Converged ==
    LET live == {u \in UIDs : obj[u].state = "live"} IN
    /\ \A u \in live : \E i \in segments \X scLister : obj[u].key = Key(i)
    /\ \A i \in segments \X scLister :
          \E u \in live : /\ obj[u].key = Key(i) /\ obj[u].cap = avail
                          /\ \A w \in live : obj[w].key = Key(i) => w = u

\* After the last change of the cluster the published objects become right and
\* stay so: left-over objects are adopted, duplicates and obsolete ones
\* deleted, those that users deleted or took over created again.  Changes that
\* met a handler which acts on older lists may leave an item or a pointer that
\* nothing removes: a segment removed while the class handler has listed it; a
\* class deleted while onTopologyChanges has listed it, or both deleted at a
\* time; a class handled between a change of the segments and its callback, so
\* that the old and the new item of a segment share an object, which onCDelete
\* clears in just one; a segment, a class or an object removed during prepare.
EventuallyConverged == <>[](Converged \/ overlapped)
=============================================================================
