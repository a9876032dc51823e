----------------------- MODULE NodeOwnershipProofs -----------------------
(***************************************************************************)
(* Proofs about NodeOwnership, for every set of nodes, every choice of     *)
(* which of them have room, and every number of versions and crashes.      *)
(***************************************************************************)
EXTENDS NodeOwnership, FiniteSetTheorems, TLAPS

\* The version that says who owns the claim: the last one before the deletion.
Decided == IF Selected = gone THEN Last - 1 ELSE Last

\* The node has, or may get, a volume, or works towards one.  A node that has
\* rescheduled the claim no longer does.
Active(n) ==
    \/ n \in vol \cup unknown
    \/ n \in inProgress /\ pc[n] # "updatestore"
    \/ pc[n] \in {"provision", "create", "reschedule", "store"}

\* The node sees itself selected only while it is: the versions that it has not
\* been sent yet do not name it, except for the one that decides, and neither
\* does the version in its cache, nor one that it is about to store there.
SelfInv ==
    \A n \in Nodes :
        /\ \A j \in 1 .. Last : log[j] = n /\ j > seen[n] => j = Decided
        /\ log[cache[n]] = n /\ pc[n] # "updatestore" =>
               cache[n] = Decided /\ cache[n] <= seen[n]
        /\ pc[n] = "updatestore" => log[copy[n]] = none

\* Only the owner is active, and it has been sent the version that says so.
\* A node that gives up has nothing.
OwnerInv ==
    \A n \in Nodes :
        /\ Active(n) => log[Decided] = n /\ seen[n] >= Decided
        /\ pc[n] = "reschedule" => n \notin vol \cup unknown

IInv == TypeOK /\ (~Touched => SelfInv /\ OwnerInv)

Versions == Nodes \cup {none, gone}
Labels == {"idle", "wait", "capacity", "update", "provision", "create",
           "reschedule", "updatestore", "store"}

-----------------------------------------------------------------------------
(* The operators.                                                          *)

\* What Goto does to the program counters.
LEMMA GotoEffect ==
    ASSUME TypeOK, NEW n \in Nodes, NEW l \in Labels, Goto(n, l)
    PROVE  /\ pc' \in [Nodes -> Labels] /\ pc'[n] = l
           /\ \A m \in Nodes \ {n} : pc'[m] = pc[m]
BY DEF TypeOK, Goto, Labels

\* A version is written behind the others.
LEMMA AppendEffect ==
    ASSUME TypeOK, NEW x \in Versions, log' = Append(log, x)
    PROVE  /\ log' \in Seq(Versions) /\ Last' = Last + 1 /\ Selected' = x
           /\ \A j \in 1 .. Last : log'[j] = log[j]
           /\ Last \in Nat
BY DEF TypeOK, Last, Selected, Versions

\* Two equal versions remain, and Touch writes a second one.
LEMMA TouchedGrows ==
    ASSUME TypeOK, NEW x \in Versions, log' = Append(log, x)
    PROVE  Touched \/ x = Selected => Touched'
<1>1. /\ Last' = Last + 1 /\ Selected' = x /\ Last \in 1 .. MaxVersions
      /\ \A j \in 1 .. Last : log'[j] = log[j]
  BY AppendEffect, Zenon DEF TypeOK
<1>2. CASE Touched
  <2>1. PICK i \in 1 .. Last - 1 : log[i] = log[i + 1]
    BY <1>2 DEF Touched
  <2>2. i \in 1 .. Last' - 1 /\ i \in 1 .. Last /\ i + 1 \in 1 .. Last
    BY <1>1, OwnershipAssumption
  <2>3. log'[i] = log'[i + 1]
    BY <1>1, <2>1, <2>2, Zenon
  <2> QED
    BY <2>2, <2>3, Zenon DEF Touched
<1>3. CASE x = Selected
  <2>1. Last \in 1 .. Last' - 1 /\ Last \in 1 .. Last
    BY <1>1, OwnershipAssumption
  <2>2. log'[Last] = log'[Last + 1]
    BY <1>1, <1>3, <2>1, Zenon DEF Selected
  <2> QED
    BY <2>1, <2>2, Zenon DEF Touched
<1> QED
  BY <1>2, <1>3

\* The types of the claim after a write.
LEMMA WriteTypes ==
    ASSUME TypeOK, NEW x \in Versions, Last < MaxVersions, log' = Append(log, x)
    PROVE  /\ log' \in Seq(Versions) /\ Last' \in 1 .. MaxVersions
           /\ 0 .. Last \subseteq 0 .. Last' /\ 1 .. Last \subseteq 1 .. Last'
           /\ Last + 1 \in 1 .. Last'
           /\ seen \in [Nodes -> 0 .. Last'] /\ cache \in [Nodes -> 1 .. Last']
           /\ copy \in [Nodes -> 0 .. Last']
<1>1. log' \in Seq(Versions) /\ Last' = Last + 1 /\ Last \in Nat
  BY AppendEffect
<1>2. /\ Last' \in 1 .. MaxVersions /\ Last + 1 \in 1 .. Last'
      /\ 0 .. Last \subseteq 0 .. Last' /\ 1 .. Last \subseteq 1 .. Last'
  BY <1>1, OwnershipAssumption
<1>3. /\ seen \in [Nodes -> 0 .. Last'] /\ cache \in [Nodes -> 1 .. Last']
      /\ copy \in [Nodes -> 0 .. Last']
  BY <1>2 DEF TypeOK
<1> QED
  BY <1>1, <1>2, <1>3

\* A step of one node leaves the versions that other nodes are about to store.
LEMMA OtherStores ==
    ASSUME TypeOK, NEW n \in Nodes, pc'[n] # "updatestore",
           \A m \in Nodes \ {n} : pc'[m] = pc[m] /\ copy'[m] = copy[m]
    PROVE  \A m \in Nodes : pc'[m] = "updatestore" => copy'[m] # 0
BY DEF TypeOK

-----------------------------------------------------------------------------
(* Types.                                                                  *)

\* Every step keeps the types.
LEMMA StepTypes ==
    ASSUME TypeOK, [Next]_vars
    PROVE  TypeOK'
<1> USE DEF claimVars, runVars, volVars
<1>1. ASSUME NEW x \in Versions, Write(x)
      PROVE  TypeOK'
  BY <1>1, WriteTypes DEF Write, TypeOK, Versions
<1>2. ASSUME NEW n \in Nodes, Deliver(n)
      PROVE  TypeOK'
  <2>1. UNCHANGED Last /\ Last \in Nat /\ seen[n] \in Nat
    BY <1>2, OwnershipAssumption DEF Deliver, Last, TypeOK
  <2>2. seen[n] + 1 \in 0 .. Last /\ seen[n] + 1 \in 1 .. Last
    BY <1>2, <2>1 DEF Deliver, TypeOK
  <2>3. seen'[n] = seen[n] + 1 /\ seen' \in [Nodes -> 0 .. Last]
    BY <1>2, <2>2 DEF Deliver, TypeOK
  <2>4. cache' \in [Nodes -> 1 .. Last]
    BY <1>2, <2>2, <2>3 DEF Deliver, TypeOK
  <2> QED
    BY <1>2, <2>1, <2>3, <2>4 DEF Deliver, TypeOK
<1>3. ASSUME NEW n \in Nodes, Resync(n)
      PROVE  TypeOK'
  BY <1>3 DEF Resync, TypeOK, Last
<1>4. ASSUME NEW n \in Nodes, DriverEnds(n)
      PROVE  TypeOK'
  BY <1>4 DEF DriverEnds, TypeOK, Last
<1>5. ASSUME NEW n \in Nodes, checkNode(n)
      PROVE  TypeOK'
  <2>1. pc' \in [Nodes -> Labels]
    BY <1>5 DEF checkNode, Goto, TypeOK, Labels
  <2>2. \A m \in Nodes : pc'[m] = "updatestore" => copy'[m] # 0
    <3>1. /\ pc'[n] \in {"idle", "provision", "wait"} /\ UNCHANGED copy
          /\ \A m \in Nodes \ {n} : pc'[m] = pc[m]
      BY <1>5 DEF checkNode, Goto, TypeOK
    <3> QED
      BY <3>1, OtherStores
  <2>3. inProgress' \in SUBSET Nodes
    BY <1>5 DEF checkNode, TypeOK
  <2> QED
    BY <1>5, <2>1, <2>2, <2>3, Zenon DEF checkNode, TypeOK, Last, Labels
<1>6. ASSUME NEW n \in Nodes, Wait(n)
      PROVE  TypeOK'
  <2>1. pc' \in [Nodes -> Labels]
    BY <1>6, Zenon DEF Wait, Goto, TypeOK, Labels
  <2>2. cache[n] \in 0 .. Last
    BY DEF TypeOK
  <2>3. copy' \in [Nodes -> 0 .. Last]
    BY <1>6, <2>2, Zenon DEF Wait, TypeOK
  <2>4. \A m \in Nodes : pc'[m] = "updatestore" => copy'[m] # 0
    <3>1. /\ pc'[n] \in {"idle", "capacity"}
          /\ \A m \in Nodes \ {n} : pc'[m] = pc[m] /\ copy'[m] = copy[m]
      BY <1>6 DEF Wait, Goto, TypeOK
    <3> QED
      BY <3>1, OtherStores
  <2> QED
    BY <1>6, <2>1, <2>3, <2>4, Zenon DEF Wait, TypeOK, Last, Labels
<1>7. ASSUME NEW n \in Nodes, checkCapacity(n)
      PROVE  TypeOK'
  <2>1. pc' \in [Nodes -> Labels]
    BY <1>7 DEF checkCapacity, Goto, TypeOK, Labels
  <2>2. 0 \in 0 .. Last
    BY OwnershipAssumption DEF TypeOK
  <2>3. copy' \in [Nodes -> 0 .. Last]
    BY <1>7, <2>2, Zenon DEF checkCapacity, Forget, TypeOK
  <2>4. \A m \in Nodes : pc'[m] = "updatestore" => copy'[m] # 0
    <3>1. /\ pc'[n] \in {"idle", "update"}
          /\ \A m \in Nodes \ {n} : pc'[m] = pc[m] /\ copy'[m] = copy[m]
      BY <1>7 DEF checkCapacity, Forget, Goto, TypeOK
    <3> QED
      BY <3>1, OtherStores
  <2> QED
    BY <1>7, <2>1, <2>3, <2>4, Zenon DEF checkCapacity, TypeOK, Last, Labels
<1>8. ASSUME NEW n \in Nodes, becomeOwner(n)
      PROVE  TypeOK'
  <2>1. pc' \in [Nodes -> Labels]
    BY <1>8, Zenon DEF becomeOwner, Goto, TypeOK, Labels
  <2>2. UNCHANGED log \/ (Last < MaxVersions /\ log' = Append(log, n))
    BY <1>8 DEF becomeOwner
  <2>3. 0 \in 0 .. Last
    BY OwnershipAssumption DEF TypeOK
  <2>4. copy' \in [Nodes -> 0 .. Last]
    BY <1>8, <2>3 DEF becomeOwner, Forget, TypeOK
  <2>5. \A m \in Nodes : pc'[m] = "updatestore" => copy'[m] # 0
    <3>1. /\ pc'[n] \in {"idle", "wait"}
          /\ \A m \in Nodes \ {n} : pc'[m] = pc[m] /\ copy'[m] = copy[m]
      BY <1>8 DEF becomeOwner, Forget, Goto, TypeOK
    <3> QED
      BY <3>1, OtherStores
  <2>6. CASE UNCHANGED log
    BY <1>8, <2>1, <2>4, <2>6, <2>5, Zenon
       DEF becomeOwner, TypeOK, Last, Labels
  <2>7. CASE Last < MaxVersions /\ log' = Append(log, n)
    <3>1. /\ log' \in Seq(Versions) /\ Last' \in 1 .. MaxVersions
          /\ 0 .. Last \subseteq 0 .. Last'
          /\ seen \in [Nodes -> 0 .. Last'] /\ cache \in [Nodes -> 1 .. Last']
      BY <2>7, WriteTypes DEF Versions
    <3>2. copy' \in [Nodes -> 0 .. Last']
      BY <2>4, <3>1
    <3> QED
      BY <1>8, <2>1, <2>5, <3>1, <3>2, Zenon
         DEF becomeOwner, TypeOK, Labels, Versions
  <2> QED
    BY <2>2, <2>6, <2>7
<1>9. ASSUME NEW n \in Nodes, Provision(n)
      PROVE  TypeOK'
  BY <1>9 DEF Provision, Goto, TypeOK, Last
<1>10. ASSUME NEW n \in Nodes, CreateVolumeSucceeds(n)
       PROVE  TypeOK'
  BY <1>10 DEF CreateVolumeSucceeds, Goto, TypeOK, Last
<1>11. ASSUME NEW n \in Nodes, CreateVolumeExhausted(n)
       PROVE  TypeOK'
  BY <1>11 DEF CreateVolumeExhausted, Goto, TypeOK, Last
<1>12. ASSUME NEW n \in Nodes, CreateVolumeTimesOut(n)
       PROVE  TypeOK'
  BY <1>12 DEF CreateVolumeTimesOut, Goto, TypeOK, Last
<1>13. ASSUME NEW n \in Nodes, Reschedule(n)
       PROVE  TypeOK'
  <2>1. /\ pc' \in [Nodes -> Labels] /\ inProgress' \in SUBSET Nodes
        /\ \A m \in Nodes \ {n} : pc'[m] = pc[m]
    BY <1>13 DEF Reschedule, Goto, TypeOK, Labels
  <2>2. CASE UNCHANGED <<log, copy>> /\ pc'[n] = "idle"
    BY <1>13, <2>1, <2>2 DEF Reschedule, TypeOK, Last, Labels
  <2>3. CASE /\ Last < MaxVersions /\ log' = Append(log, none)
             /\ copy' = [copy EXCEPT ![n] = Last + 1]
    <3>1. /\ log' \in Seq(Versions) /\ Last' \in 1 .. MaxVersions
          /\ Last + 1 \in 1 .. Last'
          /\ seen \in [Nodes -> 0 .. Last'] /\ cache \in [Nodes -> 1 .. Last']
          /\ copy \in [Nodes -> 0 .. Last']
      BY <2>3, WriteTypes DEF Versions
    <3>2. Last + 1 \in 0 .. Last' /\ Last + 1 # 0
      BY <3>1, OwnershipAssumption
    <3>3. copy' \in [Nodes -> 0 .. Last']
      BY <2>3, <3>1, <3>2
    <3>4. \A m \in Nodes : pc'[m] = "updatestore" => copy'[m] # 0
      BY <2>1, <2>3, <3>2 DEF TypeOK
    <3> QED
      BY <1>13, <2>1, <3>1, <3>3, <3>4, Zenon
         DEF Reschedule, TypeOK, Labels, Versions
  <2> QED
    BY <1>13, <2>2, <2>3 DEF Reschedule, Goto, TypeOK
<1>14. ASSUME NEW n \in Nodes, StorePV(n)
       PROVE  TypeOK'
  BY <1>14 DEF StorePV, Goto, TypeOK, Last
<1>15. ASSUME NEW n \in Nodes, Restart(n)
       PROVE  TypeOK'
  <2>1. UNCHANGED Last /\ Last \in 0 .. Last /\ Last \in 1 .. Last /\ 0 \in 0 .. Last
    BY <1>15, OwnershipAssumption DEF Restart, Last, TypeOK
  <2>2. restarts' \in 0 .. MaxRestarts
    BY <1>15, OwnershipAssumption DEF Restart, TypeOK
  <2>3. /\ seen' \in [Nodes -> 0 .. Last] /\ cache' \in [Nodes -> 1 .. Last]
        /\ copy' \in [Nodes -> 0 .. Last] /\ pc' \in [Nodes -> Labels]
    BY <1>15, <2>1 DEF Restart, TypeOK, Forget, Goto, Labels
  <2>4. \A m \in Nodes : pc'[m] = "updatestore" => copy'[m] # 0
    <3>1. /\ pc'[n] \in {"idle"}
          /\ \A m \in Nodes \ {n} : pc'[m] = pc[m] /\ copy'[m] = copy[m]
      BY <1>15 DEF Restart, Forget, Goto, TypeOK
    <3> QED
      BY <3>1, OtherStores
  <2> QED
    BY <1>15, <2>1, <2>2, <2>3, <2>4 DEF Restart, TypeOK, Labels
<1>16. ASSUME NEW n \in Nodes, RescheduleFails(n)
       PROVE  TypeOK'
  BY <1>16 DEF RescheduleFails, Goto, TypeOK, Last
<1>17. ASSUME NEW n \in Nodes, UpdateStore(n)
       PROVE  TypeOK'
  <2>1. copy[n] \in 1 .. Last /\ 0 \in 0 .. Last
    BY <1>17, OwnershipAssumption DEF UpdateStore, TypeOK
  <2>2. /\ cache' \in [Nodes -> 1 .. Last] /\ copy' \in [Nodes -> 0 .. Last]
        /\ pc' \in [Nodes -> Labels] /\ pc'[n] = "idle"
        /\ \A m \in Nodes \ {n} : pc'[m] = pc[m] /\ copy'[m] = copy[m]
    BY <1>17, <2>1 DEF UpdateStore, Forget, Goto, TypeOK, Labels
  <2> QED
    BY <1>17, <2>2 DEF UpdateStore, TypeOK, Last, Labels
<1>18. ASSUME NEW n \in Nodes, DeliverPV(n)
       PROVE  TypeOK'
  BY <1>18 DEF DeliverPV, TypeOK, Last
<1>19. CASE SelectNode \/ Touch \/ DeleteClaim
  <2>1. Selected \in Versions
    BY OwnershipAssumption DEF Selected, TypeOK, Last, Versions
  <2>2. \E x \in Versions : Write(x)
    BY <1>19, <2>1, Zenon DEF SelectNode, Touch, DeleteClaim, Versions
  <2> QED
    BY <1>1, <2>2
<1>20. CASE UNCHANGED vars
  BY <1>20 DEF vars, TypeOK, Last
<1> QED
  BY <1>2, <1>3, <1>4, <1>5, <1>6, <1>7, <1>8, <1>9, <1>10, <1>11, <1>12,
     <1>13, <1>14, <1>15, <1>16, <1>17, <1>18, <1>19, <1>20, Zenon
     DEF Next, Worker

-----------------------------------------------------------------------------
(* The invariant, one lemma for each way in which the claim can change.    *)

\* Whether a node is about to store a version, and which, remains the same.
StoresSame(m) ==
    \/ pc[m] # "updatestore" /\ pc'[m] # "updatestore"
    \/ pc[m] = "updatestore" /\ pc'[m] = "updatestore" /\ copy'[m] = copy[m]

\* A version that a node is about to store has been written.
LEMMA StoredVersions ==
    ASSUME TypeOK, NEW n \in Nodes, pc[n] = "updatestore"
    PROVE  copy[n] \in 1 .. Last
BY OwnershipAssumption DEF TypeOK

\* No node but the owner becomes active while the claim stays as it is.
LEMMA ClaimStays ==
    ASSUME TypeOK, SelfInv, OwnerInv, UNCHANGED claimVars,
           \A m \in Nodes : StoresSame(m),
           \A m \in Nodes : Active(m)' => \/ Active(m)
                                          \/ /\ log[cache[m]] = m
                                             /\ pc[m] # "updatestore",
           \A m \in Nodes : (pc[m] = "reschedule")' => (m \notin vol \cup unknown)'
    PROVE  SelfInv' /\ OwnerInv'
<1>1. UNCHANGED <<log, seen, cache, Last, Decided>>
  BY DEF claimVars, Decided, Last, Selected
<1>2. SelfInv'
  BY <1>1 DEF SelfInv, StoresSame
<1>3. ASSUME NEW m \in Nodes, Active(m)'
      PROVE  log[Decided] = m /\ seen[m] >= Decided
  BY <1>3 DEF SelfInv, OwnerInv, TypeOK
<1> QED
  BY <1>1, <1>2, <1>3 DEF OwnerInv

\* A node is selected when there is none: nobody is active.
LEMMA ClaimSelected ==
    ASSUME TypeOK, SelfInv, OwnerInv, NEW x \in Nodes, log' = Append(log, x),
           UNCHANGED <<seen, cache>>, Selected = none,
           \A m \in Nodes : StoresSame(m),
           \A m \in Nodes : Active(m)' => Active(m),
           \A m \in Nodes : (pc[m] = "reschedule")' => pc[m] = "reschedule"
    PROVE  SelfInv' /\ OwnerInv'
<1>1. /\ Last' = Last + 1 /\ Selected' = x /\ Last \in Nat
      /\ \A j \in 1 .. Last : log'[j] = log[j]
  BY AppendEffect, Zenon DEF Versions
<1>2. Decided = Last /\ Decided' = Last + 1
  BY <1>1, OwnershipAssumption DEF Decided
<1>3. log[Decided] = none /\ none \notin Nodes
  BY <1>2, OwnershipAssumption DEF Selected
<1>4. \A m \in Nodes : ~Active(m)
  BY <1>3 DEF OwnerInv
<1>5. ASSUME NEW n \in Nodes, NEW j \in 1 .. Last', log'[j] = n, j > seen[n]
      PROVE  j = Decided'
  <2>1. j \in 1 .. Last \/ j = Last + 1
    BY <1>1
  <2>2. CASE j \in 1 .. Last
    BY <1>1, <1>3, <1>5, <2>2, Zenon DEF SelfInv
  <2> QED
    BY <1>2, <2>1, <2>2
<1>6. \A n \in Nodes :
          /\ cache[n] \in 1 .. Last
          /\ pc'[n] # "updatestore" => log[cache[n]] # n
          /\ pc'[n] = "updatestore" => copy'[n] \in 1 .. Last /\ log[copy'[n]] = none
  BY <1>3, StoredVersions DEF TypeOK, SelfInv, StoresSame
<1>7. SelfInv'
  BY <1>1, <1>5, <1>6, Zenon DEF SelfInv
<1>8. OwnerInv'
  BY <1>4 DEF OwnerInv, Active
<1> QED
  BY <1>7, <1>8

\* The claim is deleted: who owned it still does.
LEMMA ClaimDeleted ==
    ASSUME TypeOK, SelfInv, OwnerInv, log' = Append(log, gone), Selected # gone,
           UNCHANGED <<seen, cache, pc, copy, volVars>>
    PROVE  SelfInv' /\ OwnerInv'
<1>1. /\ Last' = Last + 1 /\ Selected' = gone /\ Last \in Nat
      /\ \A j \in 1 .. Last : log'[j] = log[j]
  BY AppendEffect, Zenon DEF Versions
<1>2. Decided = Last /\ Decided' = Last /\ Last \in 1 .. Last
  BY <1>1, OwnershipAssumption DEF Decided, TypeOK
<1>3. log'[Last + 1] = gone /\ gone \notin Nodes
  BY <1>1, OwnershipAssumption DEF Selected
<1>4. ASSUME NEW n \in Nodes, NEW j \in 1 .. Last', log'[j] = n, j > seen[n]
      PROVE  j = Decided'
  <2>1. j \in 1 .. Last \/ j = Last + 1
    BY <1>1
  <2> QED
    BY <1>1, <1>2, <1>3, <1>4, <2>1, Zenon DEF SelfInv
<1>5. \A n \in Nodes :
          /\ cache[n] \in 1 .. Last
          /\ pc[n] = "updatestore" => copy[n] \in 1 .. Last
  BY StoredVersions DEF TypeOK
<1>6. SelfInv'
  BY <1>1, <1>2, <1>4, <1>5, Zenon DEF SelfInv
<1>7. \A n \in Nodes : Active(n)' = Active(n)
  BY DEF Active, volVars
<1>8. OwnerInv'
  BY <1>1, <1>2, <1>7, Zenon DEF OwnerInv, volVars
<1> QED
  BY <1>6, <1>8

\* The next version arrives: it names the node only if it decides.
LEMMA ClaimDelivered ==
    ASSUME TypeOK, SelfInv, OwnerInv, NEW n \in Nodes, Deliver(n)
    PROVE  SelfInv' /\ OwnerInv'
<1>1. UNCHANGED <<log, Last, Decided, pc, copy, vol, unknown, inProgress>>
  BY DEF Deliver, Decided, Last, Selected, volVars
<1>2. /\ seen'[n] = seen[n] + 1 /\ cache'[n] = seen[n] + 1
      /\ \A m \in Nodes \ {n} : seen'[m] = seen[m] /\ cache'[m] = cache[m]
  BY DEF Deliver, TypeOK
<1>3. /\ seen[n] \in Nat /\ Last \in Nat /\ Decided \in Nat
      /\ seen[n] + 1 \in 1 .. Last
  BY OwnershipAssumption DEF Deliver, TypeOK, Decided
<1>4. ASSUME NEW m \in Nodes
      PROVE  /\ \A j \in 1 .. Last : log[j] = m /\ j > seen'[m] => j = Decided
             /\ log[cache'[m]] = m /\ pc[m] # "updatestore" =>
                    cache'[m] = Decided /\ cache'[m] <= seen'[m]
  <2>1. CASE m = n
    BY <1>2, <1>3, <2>1 DEF SelfInv
  <2>2. CASE m # n
    BY <1>2, <2>2 DEF SelfInv
  <2> QED
    BY <2>1, <2>2
<1>5. SelfInv'
  BY <1>1, <1>4 DEF SelfInv
<1>6. \A m \in Nodes : Active(m)' = Active(m)
  BY <1>1 DEF Active
<1>7. \A m \in Nodes : seen[m] >= Decided => seen'[m] >= Decided
  BY <1>2, <1>3
<1>8. OwnerInv'
  BY <1>1, <1>6, <1>7 DEF OwnerInv
<1> QED
  BY <1>5, <1>8

\* The owner gives up: it has nothing, and has seen what it was sent.
LEMMA ClaimRescheduled ==
    ASSUME TypeOK, SelfInv, OwnerInv, NEW n \in Nodes, Reschedule(n), log' # log
    PROVE  SelfInv' /\ OwnerInv'
<1>1. /\ pc[n] = "reschedule" /\ pc'[n] = "updatestore" /\ copy'[n] = Last + 1
      /\ \A m \in Nodes \ {n} : pc'[m] = pc[m] /\ copy'[m] = copy[m]
      /\ UNCHANGED <<seen, cache, vol, unknown, inProgress>>
      /\ Selected \in Nodes /\ log' = Append(log, none)
  BY DEF Reschedule, Goto, TypeOK
<1>2. /\ log[Decided] = n /\ seen[n] >= Decided
      /\ n \notin vol \cup unknown
  BY <1>1 DEF OwnerInv, Active
<1>3. \A m \in Nodes : Active(m)' => Active(m) /\ m # n
  BY <1>1, <1>2 DEF Active
<1>4. \A m \in Nodes : (pc[m] = "reschedule")' => (m \notin vol \cup unknown)'
  BY <1>1 DEF OwnerInv
<1>5. /\ Last' = Last + 1 /\ Selected' = none /\ Last \in Nat
      /\ \A j \in 1 .. Last : log'[j] = log[j]
  BY <1>1, AppendEffect, Zenon DEF Versions
<1>6. Decided = Last
  BY <1>1, OwnershipAssumption DEF Decided
<1>7. log'[Last + 1] = none /\ none \notin Nodes
  BY <1>5, OwnershipAssumption DEF Selected
<1>8. \A m \in Nodes : ~Active(m)'
  BY <1>2, <1>3 DEF OwnerInv
<1>9. ASSUME NEW m \in Nodes, NEW j \in 1 .. Last', log'[j] = m, j > seen[m]
      PROVE  FALSE
  <2>1. j \in 1 .. Last
    BY <1>5, <1>7, <1>9
  <2>2. j = Last /\ m = n
    BY <1>2, <1>5, <1>6, <1>9, <2>1 DEF SelfInv
  <2> QED
    BY <1>2, <1>6, <1>9, <2>2 DEF TypeOK
<1>10. ASSUME NEW m \in Nodes
       PROVE  /\ pc'[m] # "updatestore" => log'[cache[m]] # m
              /\ pc'[m] = "updatestore" => log'[copy'[m]] = none
  <2>1. CASE m = n
    BY <1>1, <1>7, <2>1
  <2>2. CASE m # n
    <3>1. cache[m] \in 1 .. Last /\ (pc[m] = "updatestore" => copy[m] \in 1 .. Last)
      BY StoredVersions DEF TypeOK
    <3> QED
      BY <1>1, <1>2, <1>5, <2>2, <3>1 DEF SelfInv
  <2> QED
    BY <2>1, <2>2
<1>11. SelfInv'
  BY <1>1, <1>9, <1>10 DEF SelfInv
<1> QED
  BY <1>4, <1>8, <1>11 DEF OwnerInv

\* The version without an owner is stored, instead of whatever the cache had.
LEMMA ClaimStored ==
    ASSUME TypeOK, SelfInv, OwnerInv, NEW n \in Nodes, UpdateStore(n)
    PROVE  SelfInv' /\ OwnerInv'
<1>1. /\ UNCHANGED <<log, seen, Last, Decided, vol, unknown>>
      /\ inProgress' = inProgress \ {n}
      /\ pc[n] = "updatestore" /\ pc'[n] = "idle" /\ cache'[n] = copy[n]
      /\ \A m \in Nodes \ {n} : /\ pc'[m] = pc[m] /\ copy'[m] = copy[m]
                                /\ cache'[m] = cache[m]
  BY DEF UpdateStore, Goto, Forget, TypeOK, Decided, Last, Selected
<1>2. log[copy[n]] = none /\ none \notin Nodes
  BY <1>1, OwnershipAssumption DEF SelfInv
<1>3. SelfInv'
  BY <1>1, <1>2 DEF SelfInv
<1>4. \A m \in Nodes : Active(m)' => Active(m)
  BY <1>1 DEF Active
<1>5. \A m \in Nodes : (pc[m] = "reschedule")' => (m \notin vol \cup unknown)'
  BY <1>1 DEF OwnerInv
<1>6. OwnerInv'
  BY <1>1, <1>4, <1>5 DEF OwnerInv
<1> QED
  BY <1>3, <1>6

\* A new process has the last version.
LEMMA ClaimReread ==
    ASSUME TypeOK, SelfInv, OwnerInv, NEW n \in Nodes, Restart(n)
    PROVE  SelfInv' /\ OwnerInv'
<1>1. UNCHANGED <<log, Last, Decided, Selected, vol, unknown>>
  BY DEF Restart, Decided, Last, Selected
<1>2. /\ seen'[n] = Last /\ cache'[n] = Last
      /\ \A m \in Nodes \ {n} : seen'[m] = seen[m] /\ cache'[m] = cache[m]
      /\ pc'[n] = "idle"
      /\ \A m \in Nodes \ {n} : pc'[m] = pc[m] /\ copy'[m] = copy[m]
      /\ inProgress' = inProgress \ {n}
  BY DEF Restart, TypeOK, Goto, Forget
<1>3. Last \in Nat /\ (Decided = Last \/ (Selected = gone /\ Decided = Last - 1))
  BY OwnershipAssumption DEF TypeOK, Decided
<1>4. ASSUME NEW m \in Nodes
      PROVE  /\ \A j \in 1 .. Last : log[j] = m /\ j > seen'[m] => j = Decided
             /\ log[cache'[m]] = m /\ pc'[m] # "updatestore" =>
                    cache'[m] = Decided /\ cache'[m] <= seen'[m]
             /\ pc'[m] = "updatestore" => log[copy'[m]] = none
  <2>1. CASE m = n
    BY <1>2, <1>3, <2>1, OwnershipAssumption DEF Selected
  <2>2. CASE m # n
    BY <1>2, <2>2 DEF SelfInv
  <2> QED
    BY <2>1, <2>2
<1>5. SelfInv'
  BY <1>1, <1>4 DEF SelfInv
<1>6. \A m \in Nodes : Active(m)' => Active(m)
  BY <1>1, <1>2 DEF Active
<1>7. \A m \in Nodes : seen[m] >= Decided => seen'[m] >= Decided
  BY <1>2, <1>3
<1>8. \A m \in Nodes : pc'[m] = "reschedule" => pc[m] = "reschedule"
  BY <1>2
<1>9. OwnerInv'
  BY <1>1, <1>6, <1>7, <1>8 DEF OwnerInv
<1> QED
  BY <1>5, <1>9

\* What a worker does with the claim as it is in its cache.
LEMMA WorkerStays ==
    ASSUME TypeOK, SelfInv, OwnerInv, NEW n \in Nodes,
           UNCHANGED claimVars, ~UpdateStore(n),
           \/ Worker(n) \/ Resync(n) \/ DeliverPV(n) \/ DriverEnds(n)
    PROVE  SelfInv' /\ OwnerInv'
<1> DEFINE Stays == /\ \A m \in Nodes : StoresSame(m)
                    /\ \A m \in Nodes :
                           Active(m)' => \/ Active(m)
                                         \/ /\ log[cache[m]] = m
                                            /\ pc[m] # "updatestore"
                    /\ \A m \in Nodes : (pc[m] = "reschedule")' =>
                                           (m \notin vol \cup unknown)'
<1> SUFFICES Stays
  BY ClaimStays
<1> USE DEF TypeOK, Active, OwnerInv, StoresSame, Goto
<1>1. CASE checkNode(n)
  <2>1. UNCHANGED <<copy, vol, unknown>> /\ inProgress' \subseteq inProgress
    BY <1>1 DEF checkNode
  <2>2. /\ \A m \in Nodes \ {n} : pc'[m] = pc[m]
        /\ pc[n] = "idle"
        /\ pc'[n] \in {"idle", "wait"} \/ (pc'[n] = "provision" /\ Object(n) = n)
    BY <1>1 DEF checkNode
  <2>3. Object(n) = n => log[cache[n]] = n \/ n \in inProgress
    BY DEF Object, Cached
  <2> QED
    BY <2>1, <2>2, <2>3
<1>2. CASE Wait(n) \/ checkCapacity(n) \/ becomeOwner(n)
  <2>1. UNCHANGED <<vol, unknown, inProgress>>
    BY <1>2 DEF Wait, checkCapacity, becomeOwner, volVars
  <2>2. /\ \A m \in Nodes \ {n} : pc'[m] = pc[m] /\ copy'[m] = copy[m]
        /\ pc[n] \in {"wait", "capacity", "update"}
        /\ pc'[n] \in {"idle", "wait", "capacity", "update"}
    BY <1>2 DEF Wait, checkCapacity, becomeOwner, Forget
  <2> QED
    BY <2>1, <2>2
<1>3. CASE Provision(n)
  BY <1>3 DEF Provision
<1>4. CASE CreateVolumeSucceeds(n)
  BY <1>4 DEF CreateVolumeSucceeds
<1>5. CASE CreateVolumeExhausted(n)
  BY <1>5 DEF CreateVolumeExhausted
<1>6. CASE CreateVolumeTimesOut(n)
  BY <1>6 DEF CreateVolumeTimesOut
<1>7. CASE Reschedule(n)
  <2>1. /\ pc[n] = "reschedule" /\ pc'[n] = "idle"
        /\ \A m \in Nodes \ {n} : pc'[m] = pc[m]
        /\ UNCHANGED <<copy, vol, unknown>> /\ inProgress' = inProgress \ {n}
    <3>1. log' = log /\ Append(log, none) # log
      BY DEF claimVars
    <3> QED
      BY <1>7, <3>1 DEF Reschedule
  <2> QED
    BY <2>1
<1>8. CASE RescheduleFails(n)
  BY <1>8 DEF RescheduleFails
<1>9. CASE StorePV(n)
  BY <1>9 DEF StorePV
<1>10. CASE Resync(n) \/ DeliverPV(n)
  BY <1>10 DEF Resync, DeliverPV, volVars
<1>11. CASE DriverEnds(n)
  BY <1>11 DEF DriverEnds
<1> QED
  BY <1>1, <1>2, <1>3, <1>4, <1>5, <1>6, <1>7, <1>8, <1>9, <1>10, <1>11,
     Zenon DEF Worker

\* Every way to change the claim, or not to change it.
LEMMA StepOwner ==
    ASSUME TypeOK, ~Touched => SelfInv /\ OwnerInv, [Next]_vars, ~Touched'
    PROVE  SelfInv' /\ OwnerInv'
<1>1. ASSUME NEW x \in Versions, log' = Append(log, x)
      PROVE  SelfInv /\ OwnerInv /\ x # Selected
  BY <1>1, TouchedGrows
<1>2. ASSUME log' = log
      PROVE  SelfInv /\ OwnerInv
  BY <1>2 DEF Touched, Last
<1>3. ASSUME NEW x, Write(x)
      PROVE  /\ \A m \in Nodes : Active(m)' = Active(m) /\ StoresSame(m)
             /\ UNCHANGED <<seen, cache, pc, copy, volVars>>
             /\ log' = Append(log, x)
  BY <1>3 DEF Write, Active, StoresSame, volVars
<1>4. CASE SelectNode
  <2>1. PICK x \in Nodes : Write(x) /\ Selected = none
    BY <1>4 DEF SelectNode
  <2>2. log' = Append(log, x) /\ x \in Versions
    BY <2>1, <1>3 DEF Versions
  <2> QED
    BY <1>1, <1>3, <2>1, <2>2, ClaimSelected
<1>5. CASE Touch
  <2>1. Selected \in Versions
    BY OwnershipAssumption DEF Selected, TypeOK, Last, Versions
  <2> QED
    BY <1>1, <1>3, <1>5, <2>1 DEF Touch
<1>6. CASE DeleteClaim
  <2>1. Write(gone) /\ Selected # gone /\ gone \in Versions
    BY <1>6 DEF DeleteClaim, Versions
  <2> QED
    BY <1>1, <1>3, <2>1, ClaimDeleted
<1>7. ASSUME NEW n \in Nodes, Deliver(n)
      PROVE  SelfInv' /\ OwnerInv'
  BY <1>2, <1>7, ClaimDelivered, Zenon DEF Deliver
<1>8. ASSUME NEW n \in Nodes, Restart(n)
      PROVE  SelfInv' /\ OwnerInv'
  BY <1>2, <1>8, ClaimReread, Zenon DEF Restart
<1>9. ASSUME NEW n \in Nodes, Reschedule(n), log' # log
      PROVE  SelfInv' /\ OwnerInv'
  <2>1. log' = Append(log, none)
    BY <1>9 DEF Reschedule
  <2>2. SelfInv /\ OwnerInv
    BY <1>1, <2>1 DEF Versions
  <2> QED
    BY <1>9, <2>2, ClaimRescheduled
<1>10. ASSUME NEW n \in Nodes, becomeOwner(n), log' # log
       PROVE  SelfInv' /\ OwnerInv'
  <2>1. /\ Selected = none /\ log' = Append(log, n) /\ Goto(n, "idle")
        /\ UNCHANGED <<seen, cache, volVars>>
    BY <1>10 DEF becomeOwner, Selected
  <2>2. /\ pc[n] = "update" /\ pc'[n] = "idle"
        /\ \A m \in Nodes \ {n} : pc'[m] = pc[m] /\ copy'[m] = copy[m]
    BY <1>10, <2>1 DEF becomeOwner, Goto, Forget, TypeOK
  <2>3. \A m \in Nodes : (Active(m)' => Active(m)) /\ StoresSame(m)
    BY <2>1, <2>2 DEF Active, StoresSame, volVars
  <2>4. \A m \in Nodes : (pc[m] = "reschedule")' => pc[m] = "reschedule"
    BY <2>2
  <2>5. n \in Versions
    BY DEF Versions
  <2> QED
    BY <1>1, <2>1, <2>3, <2>4, <2>5, ClaimSelected
<1>11. ASSUME NEW n \in Nodes, UNCHANGED claimVars, ~UpdateStore(n),
              Worker(n) \/ Resync(n) \/ DeliverPV(n) \/ DriverEnds(n)
       PROVE  SelfInv' /\ OwnerInv'
  BY <1>2, <1>11, WorkerStays DEF claimVars
<1>12. ASSUME NEW n \in Nodes, UpdateStore(n)
       PROVE  SelfInv' /\ OwnerInv'
  BY <1>2, <1>12, ClaimStored, Zenon DEF UpdateStore
<1>13. ASSUME NEW n \in Nodes,
              Worker(n) \/ Resync(n) \/ DeliverPV(n) \/ DriverEnds(n)
       PROVE  \/ UNCHANGED claimVars
              \/ UpdateStore(n)
              \/ Reschedule(n) /\ log' # log
              \/ becomeOwner(n) /\ log' # log
  BY <1>13 DEF Worker, Resync, DeliverPV, DriverEnds, checkNode, Wait,
     checkCapacity, becomeOwner, Provision, CreateVolumeSucceeds,
     CreateVolumeExhausted, CreateVolumeTimesOut, Reschedule, RescheduleFails,
     StorePV, claimVars
<1>14. CASE UNCHANGED vars
  <2>1. /\ UNCHANGED claimVars
        /\ \A m \in Nodes : Active(m)' = Active(m) /\ StoresSame(m)
    BY <1>14 DEF vars, Active, StoresSame, volVars, claimVars
  <2>2. UNCHANGED <<pc, vol, unknown>>
    BY <1>14 DEF vars, volVars
  <2>3. SelfInv /\ OwnerInv
    BY <1>2, <2>1 DEF claimVars
  <2>4. \A m \in Nodes : (pc[m] = "reschedule")' => (m \notin vol \cup unknown)'
    BY <2>2, <2>3 DEF OwnerInv
  <2> QED
    BY <2>1, <2>3, <2>4, ClaimStays
<1> QED
  BY <1>4, <1>5, <1>6, <1>7, <1>8, <1>9, <1>10, <1>11, <1>13, <1>14, <1>12,
     Zenon DEF Next

\* All nodes are idle at first, and none is selected.
LEMMA InitIInv == Init => IInv
<1> SUFFICES ASSUME Init
             PROVE  IInv
  OBVIOUS
<1>1. Last = 1 /\ log[1] = none /\ Selected = none
  BY DEF Init, Last, Selected
<1>2. TypeOK
  BY <1>1, OwnershipAssumption DEF Init, TypeOK
<1>3. SelfInv
  BY <1>1, OwnershipAssumption DEF Init, SelfInv
<1>4. OwnerInv
  BY <1>1 DEF Init, OwnerInv, Active
<1> QED
  BY <1>1, <1>2, <1>3, <1>4 DEF IInv

\* The inductive invariant holds throughout.
THEOREM Invariance == Spec => []IInv
<1>1. IInv /\ [Next]_vars => IInv'
  <2> SUFFICES ASSUME IInv, [Next]_vars
               PROVE  IInv'
    OBVIOUS
  <2>1. TypeOK'
    BY StepTypes DEF IInv
  <2>2. ~Touched' => SelfInv' /\ OwnerInv'
    BY StepOwner DEF IInv
  <2> QED
    BY <2>1, <2>2 DEF IInv
<1> QED
  BY InitIInv, <1>1, PTL DEF Spec

-----------------------------------------------------------------------------
(* The properties.                                                         *)

\* Types, and that no version of the claim that a node holds is ahead of the
\* API server.
THEOREM TypeCorrect == Spec => []TypeOK
<1>1. IInv => TypeOK
  BY DEF IInv
<1> QED
  BY <1>1, Invariance, PTL

\* However many nodes race with old copies of the claim, at most one of them
\* has or may get a volume (checkNode, becomeOwner, rescheduleProvisioning).
THEOREM AtMostOneVolume == Spec => []OneVolume
<1>1. IInv => OneVolume
  <2> SUFFICES ASSUME IInv, ~Touched
               PROVE  Cardinality(vol \cup unknown) <= 1
    BY DEF OneVolume
  <2> DEFINE S == vol \cup unknown
  <2>1. \A m \in S : m = log[Decided]
    BY DEF IInv, OwnerInv, Active, TypeOK
  <2>2. S = {} \/ S = {log[Decided]}
    BY <2>1
  <2>3. Cardinality({}) = 0 /\ Cardinality({log[Decided]}) = 1
    BY FS_EmptySet, FS_Singleton, Zenon
  <2> HIDE DEF S
  <2>4. Cardinality(S) <= 1
    BY <2>2, <2>3
  <2> QED
    BY <2>4 DEF S
<1> QED
  BY <1>1, Invariance, PTL

\* No step of any node takes the claim from the node that is selected, unless
\* that node gives up (checkNode, becomeOwner, rescheduleProvisioning).
THEOREM OwnerIsKept == Spec => OwnerKept
<1> DEFINE Kept == \A n \in Nodes :
                      ~Touched /\ Selected = n /\ log' # log =>
                          log'[Len(log')] \in {n, gone} \/ pc[n] = "reschedule"
<1>1. IInv /\ [Next]_vars => [Kept]_vars
  <2> SUFFICES ASSUME IInv, Next, NEW n \in Nodes, ~Touched, Selected = n,
                      log' # log
               PROVE  log'[Len(log')] \in {n, gone} \/ pc[n] = "reschedule"
    OBVIOUS
  <2>1. n # none /\ n # gone
    BY OwnershipAssumption
  <2>2. ASSUME NEW x \in Versions, log' = Append(log, x)
        PROVE  log'[Len(log')] = x
    BY <2>2, AppendEffect DEF IInv, Selected, Last
  <2>3. CASE SelectNode
    BY <2>1, <2>3 DEF SelectNode
  <2>4. CASE Touch
    BY <2>2, <2>4 DEF Touch, Write, Versions
  <2>5. CASE DeleteClaim
    BY <2>2, <2>5 DEF DeleteClaim, Write, Versions
  <2>6. ASSUME NEW m \in Nodes, becomeOwner(m)
        PROVE  FALSE
    BY <2>1, <2>6 DEF becomeOwner, Selected
  <2>7. ASSUME NEW m \in Nodes, Reschedule(m)
        PROVE  pc[n] = "reschedule"
    <3>1. Active(m) /\ pc[m] = "reschedule"
      BY <2>7 DEF Reschedule, Active
    <3>2. log[Decided] = m
      BY <3>1 DEF IInv, OwnerInv
    <3>3. Decided = Last
      BY <2>1 DEF Decided
    <3> QED
      BY <3>1, <3>2, <3>3 DEF Selected
  <2>8. ASSUME NEW m \in Nodes,
               \/ Worker(m) \/ Deliver(m) \/ Resync(m) \/ DeliverPV(m)
               \/ DriverEnds(m) \/ Restart(m)
        PROVE  becomeOwner(m) \/ Reschedule(m)
    BY <2>8 DEF Worker, Deliver, Resync, DeliverPV, DriverEnds, Restart,
       checkNode, Wait, checkCapacity, Provision, CreateVolumeSucceeds,
       CreateVolumeExhausted, CreateVolumeTimesOut, RescheduleFails,
       UpdateStore, StorePV, claimVars
  <2> QED
    BY <2>3, <2>4, <2>5, <2>6, <2>7, <2>8 DEF Next
<1> QED
  BY <1>1, Invariance, PTL DEF OwnerKept, Spec
===========================================================================
