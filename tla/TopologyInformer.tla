------------------------- MODULE TopologyInformer -------------------------
(***************************************************************************)
(* What the capacity controller relies on when it uses a topology.Informer *)
(* (the interface and its comments, topology/topology.go): there is a set  *)
(* of segments, each with an address and labels; a change of the set is    *)
(* followed by a callback with exactly what was added and removed, before  *)
(* the next change; no two listed segments are equal, and a segment that   *)
(* stays keeps its address.                                                *)
(***************************************************************************)
VARIABLES
    known,     \* the segments that List returns: [address, labels]
    told       \* what a client has learnt from its callbacks

vars == <<known, told>>

Init == known = {} /\ told = {}

Change ==
    /\ told = known
    /\ \A x \in known \cup known', y \in known' :
          (x.address = y.address \/ x.labels = y.labels) => x = y
    /\ UNCHANGED told

Callback ==
    /\ told' = known
    /\ UNCHANGED known

Next == Change \/ Callback

Spec == Init /\ [][Next]_vars /\ (told # known ~> told = known)
===========================================================================
