----------------------- MODULE MCCapacityController -----------------------
\* Two segments with the same labels are a segment that is removed and added
\* again.  The process finds an object with an outdated capacity and its
\* duplicate, or just one for other labels, and has to create its own.
EXTENDS CapacityController

CONSTANTS s1, s2, l1, l2, k1

OneLabel == [s \in Segs |-> l1]

NoObjects == [u \in UIDs |-> Object("gone", <<l1, k1>>, 0)]
LeftOver == {[NoObjects EXCEPT ![1].state = "live", ![2].state = "live"],
             [NoObjects EXCEPT ![1] = Object("live", <<l2, k1>>, 0)]}

SomeStart ==
    \E objects \in LeftOver : InitWith({s1}, {k1}, objects) /\ avail = 1

\* Bounds.  Of changes that met a handler only the handling matters, in which
\* the workers do not take part.  Classes that are added, or whose event is
\* repeated, are handled when no worker is busy: they only add to the queue.
WorkersIdle == \A i \in Items : work[i].pc = "idle"
Followed ==
    /\ overlapped => ~HandlersIdle /\ WorkersIdle
    /\ \/ WorkersIdle
       \/ /\ scEvent.kind # "add"
          /\ \A j \in 1 .. Len(scEvents) : scEvents[j].kind = "delete"

FairSpec == SomeStart /\ [][Next]_vars /\ Fairness
===========================================================================
