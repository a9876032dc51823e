----------------------- MODULE VolumeDeletionProofs -----------------------
(***************************************************************************)
(* Proofs about VolumeDeletion, for every set of nodes, every choice of  *)
(* what users do, and every number of changes and crashes: what is         *)
(* deleted, and when.                                                      *)
(***************************************************************************)
EXTENDS VolumeDeletion, TLAPS

Working == {"delete", "check", "call", "deletepv", "finalizer"}
Labels == {"idle", "add", "remove"} \cup Working

Types ==
    /\ pv \in PV /\ cache \in [Nodes -> PV]
    /\ va \in BOOLEAN /\ vaCache \in [Nodes -> BOOLEAN]
    /\ queue \in SUBSET Nodes /\ pc \in [Nodes -> Labels]
    /\ vol \in BOOLEAN
    /\ retained \in BOOLEAN /\ wavered \in BOOLEAN /\ caughtUp \in BOOLEAN

\* Nothing is deleted, nor decided to be, while there is the claim.
BoundInv ==
    pv.phase = "bound" =>
        /\ vol /\ ~retained
        /\ \A n \in Nodes : cache[n].phase = "bound" /\ pc[n] \notin Working

\* No cache can show the policy Delete together with the release.
RetainInv ==
    retained =>
        /\ pv.phase = "released" /\ pv.policy = "Retain" /\ vol
        /\ \A n \in Nodes :
              /\ cache[n].phase = "released" => cache[n].policy = "Retain"
              /\ pc[n] \notin Working

\* No attachment is made after the release, so a cache that had one at the
\* release has it until it is gone.
AttachInv ==
    pv.phase = "released" /\ caughtUp /\ va =>
        vol /\ \A n \in Nodes : vaCache[n] /\ pc[n] # "call"

\* Only the home node gets as far as DeleteVolume, and past it only when the
\* volume is gone; nothing else takes the finalizer from a PV whose policy has
\* always been Delete.
FinalizerInv ==
    /\ \A n \in Nodes :
          /\ pc[n] \in Working \ {"delete"} => n = Home
          /\ pc[n] \in {"deletepv", "finalizer"} => ~vol
    /\ ~pv.exists => ~pv.finalizer
    /\ ~wavered =>
          /\ pv.policy = "Delete" /\ (~pv.finalizer => ~vol)
          /\ \A n \in Nodes : cache[n].policy = "Delete" /\ pc[n] # "remove"

IInv == Types /\ BoundInv /\ RetainInv /\ AttachInv /\ FinalizerInv

-----------------------------------------------------------------------------
(* The operators.                                                          *)

\* What Goto does to the program counters.
LEMMA GotoEffect ==
    ASSUME Types, NEW n \in Nodes, NEW l \in Labels, Goto(n, l)
    PROVE  /\ pc' \in [Nodes -> Labels] /\ pc'[n] = l
           /\ \A m \in Nodes \ {n} : pc'[m] = pc[m]
BY DEF Types, Goto

\* What the end of an attempt does to the worker's variables.
LEMMA EndSyncEffect ==
    ASSUME Types, NEW n \in Nodes, NEW err, EndSync(n, err)
    PROVE  /\ pc' \in [Nodes -> Labels] /\ pc'[n] = "idle"
           /\ \A m \in Nodes \ {n} : pc'[m] = pc[m]
           /\ queue' \in SUBSET Nodes
<1>1. /\ pc' \in [Nodes -> Labels] /\ pc'[n] = "idle"
      /\ \A m \in Nodes \ {n} : pc'[m] = pc[m]
  BY GotoEffect DEF EndSync, Labels
<1>2. queue' \in SUBSET Nodes
  BY DEF EndSync, Types
<1> QED
  BY <1>1, <1>2

\* A PV with some field changed is a PV, and the other fields are kept.
LEMMA PVFields ==
    ASSUME NEW o \in PV, NEW b \in BOOLEAN
    PROVE  /\ LET q == [o EXCEPT !.finalizer = b] IN
              /\ q \in PV /\ q.exists = o.exists /\ q.phase = o.phase
              /\ q.policy = o.policy /\ q.deleting = o.deleting /\ q.finalizer = b
           /\ LET q == [o EXCEPT !.deleting = b] IN
              /\ q \in PV /\ q.exists = o.exists /\ q.phase = o.phase
              /\ q.policy = o.policy /\ q.deleting = b /\ q.finalizer = o.finalizer
           /\ LET q == [o EXCEPT !.exists = b] IN
              /\ q \in PV /\ q.exists = b /\ q.phase = o.phase
              /\ q.policy = o.policy /\ q.deleting = o.deleting
              /\ q.finalizer = o.finalizer
           /\ LET q == [o EXCEPT !.phase = "released"] IN
              /\ q \in PV /\ q.exists = o.exists /\ q.phase = "released"
              /\ q.policy = o.policy /\ q.deleting = o.deleting
              /\ q.finalizer = o.finalizer
           /\ LET q == [o EXCEPT !.policy = IF @ = "Delete" THEN "Retain" ELSE "Delete"] IN
              /\ q \in PV /\ q.exists = o.exists /\ q.phase = o.phase
              /\ q.deleting = o.deleting /\ q.finalizer = o.finalizer
BY DEF PV

-----------------------------------------------------------------------------
(* The effect of the steps of a worker, field by field.                    *)

\* Only the worker of n moves.
Moved(n) ==
    /\ pc' \in [Nodes -> Labels] /\ queue' \in SUBSET Nodes
    /\ \A m \in Nodes \ {n} : pc'[m] = pc[m]

\* The PV is written, and keeps its phase and policy.
Written ==
    /\ pv' \in PV /\ pv'.exists = pv.exists
    /\ pv'.phase = pv.phase /\ pv'.policy = pv.policy

\* The end of an attempt moves one worker.
LEMMA EndSyncMoves ==
    ASSUME Types, NEW n \in Nodes, NEW err, EndSync(n, err)
    PROVE  Moved(n) /\ pc'[n] = "idle"
BY EndSyncEffect DEF Moved

\* So does going on.
LEMMA ContinueMoves ==
    ASSUME Types, NEW n \in Nodes, NEW l \in Labels, Continue(n, l)
    PROVE  Moved(n) /\ pc'[n] = l
<1>1. UNCHANGED queue /\ Goto(n, l)
  BY DEF Continue
<1> QED
  BY <1>1, GotoEffect DEF Moved, Types

\* syncVolume decides on the cached PV.
LEMMA SyncVolumeEffect ==
    ASSUME Types, NEW n \in Nodes, syncVolume(n)
    PROVE  /\ UNCHANGED <<pvVars, cache, va, vaCache, vol>>
           /\ Moved(n) /\ pc[n] = "idle"
           /\ pc'[n] \in {"idle", "add", "remove", "delete"}
           /\ pc'[n] = "remove" => cache[n].policy = "Retain"
           /\ pc'[n] = "delete" =>
                 cache[n].phase = "released" /\ cache[n].policy = "Delete"
<1> DEFINE o == cache[n]
           l == CASE ~o.exists -> "idle"
                 [] o.exists /\ NeedsFinalizer(o) -> "add"
                 [] o.exists /\ MustNotHaveFinalizer(o) -> "remove"
                 [] OTHER -> IF shouldDelete(o) THEN "delete" ELSE "idle"
<1>1. /\ l \in {"idle", "add", "remove", "delete"}
      /\ l = "remove" => MustNotHaveFinalizer(o)
      /\ l = "delete" => shouldDelete(o)
  <2>1. o.exists \in BOOLEAN
    BY DEF Types, PV
  <2> QED
    BY <2>1, Zenon
<1>2. Goto(n, l) /\ UNCHANGED <<pvVars, cache, va, vaCache, vol>>
      /\ pc[n] = "idle" /\ queue' = queue \ {n}
  BY Zenon DEF syncVolume
<1>3. l \in Labels
  BY <1>1 DEF Labels, Working
<1> HIDE DEF l
<1>4. Moved(n) /\ pc'[n] = l
  BY <1>2, <1>3, GotoEffect DEF Moved, Types
<1> QED
  BY <1>1, <1>2, <1>4 DEF MustNotHaveFinalizer, shouldDelete

\* handleProtectionFinalizer patches the PV, and decides on the result.
LEMMA FinalizerEffect ==
    ASSUME Types, NEW n \in Nodes, handleProtectionFinalizer(n)
    PROVE  /\ UNCHANGED <<history, cache, va, vaCache, vol>>
           /\ Written /\ Moved(n) /\ pc[n] \in {"add", "remove"}
           /\ \/ pv'.finalizer = pv.finalizer
              \/ pv.exists /\ pv'.finalizer = (pc[n] = "add")
           /\ pc'[n] \in {"idle", "delete"}
           /\ pc'[n] = "delete" => pv.phase = "released" /\ pv.policy = "Delete"
<1> DEFINE new == [pv EXCEPT !.finalizer = (pc[n] = "add")]
<1>1. /\ new \in PV /\ new.exists = pv.exists /\ new.phase = pv.phase
      /\ new.policy = pv.policy /\ new.deleting = pv.deleting
      /\ new.finalizer = (pc[n] = "add")
  BY Zenon DEF Types, PV
<1> HIDE DEF new
<1>2. pc[n] \in {"add", "remove"} /\ UNCHANGED <<history, cache, va, vaCache, vol>>
  BY DEF handleProtectionFinalizer
<1>3. CASE pv.exists /\ pv' = new
           /\ Continue(n, IF shouldDelete(new) THEN "delete" ELSE "idle")
  <2> DEFINE l == IF shouldDelete(new) THEN "delete" ELSE "idle"
  <2>1. l \in {"idle", "delete"} /\ (l = "delete" => shouldDelete(new))
    OBVIOUS
  <2>2. l \in Labels
    BY <2>1 DEF Labels, Working
  <2>3. Moved(n) /\ pc'[n] = l
    BY <1>3, <2>2, ContinueMoves
  <2> HIDE DEF l
  <2> QED
    BY <1>1, <1>2, <1>3, <2>1, <2>3, Zenon DEF Written, shouldDelete
<1>4. CASE EndSync(n, TRUE) /\ pv' = pv
  <2>1. Moved(n) /\ pc'[n] = "idle"
    BY <1>4, EndSyncMoves, Zenon
  <2>2. Written /\ pv'.finalizer = pv.finalizer
    BY <1>4 DEF Written, Types
  <2>3. /\ pc'[n] \in {"idle", "delete"} /\ pc'[n] # "delete"
    BY <2>1
  <2> QED
    BY <1>2, <2>1, <2>2, <2>3, Zenon
<1> QED
  BY <1>3, <1>4, Zenon DEF handleProtectionFinalizer, new

\* Delete gets past the node affinity on the home node only.
LEMMA DeleteEffect ==
    ASSUME Types, NEW n \in Nodes, Delete(n)
    PROVE  /\ UNCHANGED <<pvVars, cache, va, vaCache, vol>>
           /\ Moved(n) /\ pc[n] = "delete"
           /\ pc'[n] \in {"idle", "check"} /\ (pc'[n] = "check" => n = Home)
<1>1. pc[n] = "delete" /\ UNCHANGED <<pvVars, cache, va, vaCache, vol>>
  BY DEF Delete
<1>2. CASE EndSync(n, TRUE) \/ EndSync(n, FALSE)
  BY <1>1, <1>2, EndSyncMoves, Zenon
<1>3. CASE n = Home /\ Continue(n, "check")
  <2>1. "check" \in Labels
    BY DEF Labels, Working
  <2> QED
    BY <1>1, <1>3, <2>1, ContinueMoves
<1> QED
  BY <1>1, <1>2, <1>3, Zenon DEF Delete

\* canDeleteVolume lets pass what has no attachment in the cache.
LEMMA CheckEffect ==
    ASSUME Types, NEW n \in Nodes, canDeleteVolume(n)
    PROVE  /\ UNCHANGED <<pvVars, cache, va, vaCache, vol>>
           /\ Moved(n) /\ pc[n] = "check"
           /\ pc'[n] \in {"idle", "call"} /\ (pc'[n] = "call" => ~vaCache[n])
<1>1. "call" \in Labels
  BY DEF Labels, Working
<1> QED
  BY <1>1, EndSyncMoves, ContinueMoves, Zenon DEF canDeleteVolume

\* DeleteVolume on the home node removes the volume if it answers OK.
LEMMA DeleteVolumeEffect ==
    ASSUME Types, NEW n \in Nodes, DeleteVolume(n)
    PROVE  /\ UNCHANGED <<pvVars, cache, va, vaCache>>
           /\ Moved(n) /\ pc[n] = "call"
           /\ vol' \in BOOLEAN /\ (vol' => vol) /\ (n # Home => vol' = vol)
           /\ pc'[n] \in {"idle", "deletepv"}
           /\ pc'[n] = "deletepv" /\ n = Home => ~vol'
          
<1>1. pc[n] = "call" /\ UNCHANGED <<pvVars, cache, va, vaCache>>
  BY DEF DeleteVolume
<1>2. vol' \in BOOLEAN /\ (vol' => vol) /\ (n # Home => vol' = vol)
  BY Zenon DEF DeleteVolume, Types
<1>3. CASE EndSync(n, TRUE)
  BY <1>1, <1>2, <1>3, EndSyncMoves, Zenon
<1>4. CASE /\ vol' = (vol /\ n # Home)
           /\ Continue(n, "deletepv")
  <2>1. "deletepv" \in Labels
    BY DEF Labels, Working
  <2>2. Moved(n) /\ pc'[n] = "deletepv"
    BY <1>4, <2>1, ContinueMoves
  <2>3. n = Home => ~vol'
    BY <1>4, Zenon
  <2> QED
    BY <1>1, <1>2, <2>2, <2>3
<1> QED
  BY <1>3, <1>4, Zenon DEF DeleteVolume

\* Deleting the PV only marks it.
LEMMA DeletePVEffect ==
    ASSUME Types, NEW n \in Nodes, DeletePV(n)
    PROVE  /\ UNCHANGED <<history, cache, va, vaCache, vol>>
           /\ Written /\ Moved(n) /\ pc[n] = "deletepv"
           /\ pv'.finalizer = pv.finalizer
           /\ pc'[n] \in {"idle", "finalizer"}
<1>1. pc[n] = "deletepv" /\ UNCHANGED <<history, cache, va, vaCache, vol>>
  BY DEF DeletePV
<1>2. Written /\ pv'.finalizer = pv.finalizer
  BY Zenon DEF DeletePV, Written, Types, PV
<1>3. CASE EndSync(n, TRUE)
  BY <1>1, <1>2, <1>3, EndSyncMoves, Zenon
<1>4. CASE Continue(n, "finalizer")
  <2>1. "finalizer" \in Labels
    BY DEF Labels, Working
  <2> QED
    BY <1>1, <1>2, <1>4, <2>1, ContinueMoves
<1> QED
  BY <1>3, <1>4, Zenon DEF DeletePV

\* The last step can only remove the finalizer.
LEMMA RemoveFinalizerEffect ==
    ASSUME Types, NEW n \in Nodes, RemoveFinalizer(n)
    PROVE  /\ UNCHANGED <<history, cache, va, vaCache, vol>>
           /\ Written /\ Moved(n) /\ pc[n] = "finalizer"
           /\ pv'.finalizer \in {pv.finalizer, FALSE}
           /\ pc'[n] = "idle"
<1>1. pc[n] = "finalizer" /\ UNCHANGED <<history, cache, va, vaCache, vol>>
  BY DEF RemoveFinalizer
<1>2. pv' = pv \/ pv' = [pv EXCEPT !.finalizer = FALSE]
  BY Zenon DEF RemoveFinalizer
<1>3. Written /\ pv'.finalizer \in {pv.finalizer, FALSE}
  BY <1>2, Zenon DEF Written, Types, PV
<1>4. EndSync(n, TRUE) \/ EndSync(n, FALSE)
  BY Zenon DEF RemoveFinalizer
<1> QED
  BY <1>1, <1>3, <1>4, EndSyncMoves, Zenon

\* A crash resets one worker and fills its caches.
LEMMA RestartEffect ==
    ASSUME Types, NEW n \in Nodes, Restart(n)
    PROVE  /\ UNCHANGED <<pvVars, va, vol>>
           /\ Moved(n) /\ pc'[n] = "idle"
           /\ cache' = [cache EXCEPT ![n] = pv]
           /\ vaCache' = [vaCache EXCEPT ![n] = va]
<1>1. "idle" \in Labels
  BY DEF Labels
<1>2. /\ UNCHANGED <<pvVars, va, vol>> /\ Goto(n, "idle")
      /\ cache' = [cache EXCEPT ![n] = pv]
      /\ vaCache' = [vaCache EXCEPT ![n] = va]
      /\ queue' \in SUBSET Nodes
  BY DEF Restart, Types
<1>3. Moved(n) /\ pc'[n] = "idle"
  BY <1>1, <1>2, GotoEffect DEF Moved, Types
<1> QED
  BY <1>2, <1>3

\* What users, other controllers and informers do to the PV.
LEMMA ChangePolicyEffect ==
    ASSUME Types, ChangePolicy
    PROVE  /\ UNCHANGED <<caughtUp, cache, va, vaCache, vol, workerVars>>
           /\ pv' \in PV /\ pv'.exists = pv.exists /\ pv'.phase = pv.phase
           /\ pv'.finalizer = pv.finalizer /\ retained' = FALSE /\ wavered' = TRUE
BY Zenon, PVFields DEF ChangePolicy, Types

LEMMA ReleaseEffect ==
    ASSUME Types, Release
    PROVE  /\ UNCHANGED <<wavered, cache, va, vaCache, vol, workerVars>>
           /\ pv' \in PV /\ pv'.exists = pv.exists /\ pv.phase = "bound"
           /\ pv'.phase = "released" /\ pv'.policy = pv.policy
           /\ pv'.finalizer = pv.finalizer
           /\ retained' = (pv.policy = "Retain")
           /\ caughtUp' = \A n \in Nodes : vaCache[n] = va
BY Zenon, PVFields DEF Release, Types

LEMMA UserDeletesEffect ==
    ASSUME Types, UserDeletesPV
    PROVE  /\ UNCHANGED <<history, cache, va, vaCache, vol, workerVars>>
           /\ Written /\ pv'.finalizer = pv.finalizer
BY Zenon DEF UserDeletesPV, Types, Written, PV

LEMMA DisappearEffect ==
    ASSUME Types, Disappear
    PROVE  /\ UNCHANGED <<history, cache, va, vaCache, vol, workerVars>>
           /\ pv' \in PV /\ pv'.phase = pv.phase /\ pv'.policy = pv.policy
           /\ pv'.finalizer = pv.finalizer /\ ~pv.finalizer
BY Zenon DEF Disappear, Types, PV

-----------------------------------------------------------------------------
(* The invariant.                                                          *)

\* Every step keeps the types,
LEMMA StepTypes ==
    ASSUME Types, [Next]_vars
    PROVE  Types'
<1> USE DEF Types, history, pvVars, workerVars
<1>1. CASE ChangePolicy
  BY <1>1, ChangePolicyEffect, Zenon
<1>2. CASE Release
  BY <1>2, ReleaseEffect, Zenon
<1>3. CASE UserDeletesPV
  BY <1>3, UserDeletesEffect DEF Written
<1>4. CASE Disappear
  BY <1>4, DisappearEffect
<1>5. CASE Attach
  BY <1>5 DEF Attach
<1>6. CASE Detach
  BY <1>6, Zenon DEF Detach
<1>7. ASSUME NEW n \in Nodes, Deliver(n)
      PROVE  Types'
  BY <1>7 DEF Deliver
<1>8. ASSUME NEW n \in Nodes, DeliverAttachment(n)
      PROVE  Types'
  BY <1>8 DEF DeliverAttachment
<1>9. ASSUME NEW n \in Nodes, syncVolume(n)
      PROVE  Types'
  BY <1>9, SyncVolumeEffect DEF Moved
<1>10. ASSUME NEW n \in Nodes, handleProtectionFinalizer(n)
      PROVE  Types'
  BY <1>10, FinalizerEffect DEF Moved, Written
<1>11. ASSUME NEW n \in Nodes, Delete(n)
      PROVE  Types'
  BY <1>11, DeleteEffect DEF Moved
<1>12. ASSUME NEW n \in Nodes, canDeleteVolume(n)
      PROVE  Types'
  BY <1>12, CheckEffect DEF Moved
<1>13. ASSUME NEW n \in Nodes, DeleteVolume(n)
      PROVE  Types'
  BY <1>13, DeleteVolumeEffect DEF Moved
<1>14. ASSUME NEW n \in Nodes, DeletePV(n)
      PROVE  Types'
  BY <1>14, DeletePVEffect DEF Moved, Written
<1>15. ASSUME NEW n \in Nodes, RemoveFinalizer(n)
      PROVE  Types'
  BY <1>15, RemoveFinalizerEffect, Zenon DEF Moved, Written
<1>16. ASSUME NEW n \in Nodes, Restart(n)
      PROVE  Types'
  BY <1>16, RestartEffect DEF Moved
<1>17. ASSUME NEW n \in Nodes, Resync(n)
      PROVE  Types'
  BY <1>17 DEF Resync
<1>18. CASE UNCHANGED vars
  BY <1>18 DEF vars
<1> QED
  BY <1>1, <1>2, <1>3, <1>4, <1>5, <1>6, <1>7, <1>8, <1>9,
     <1>10, <1>11, <1>12, <1>13, <1>14, <1>15, <1>16, <1>17, <1>18,
     Zenon DEF Next, Users, Worker, Informer

\* a volume that is in use,
LEMMA StepBoundInv ==
    ASSUME IInv, [Next]_vars
    PROVE  BoundInv'
<1> USE DEF IInv, BoundInv, Working, Types, history, pvVars,
    workerVars
<1>1. CASE ChangePolicy
  BY <1>1, ChangePolicyEffect, Zenon
<1>2. CASE Release
  BY <1>2, ReleaseEffect
<1>3. CASE UserDeletesPV
  BY <1>3, UserDeletesEffect DEF Written
<1>4. CASE Disappear
  BY <1>4, DisappearEffect
<1>5. CASE Attach
  BY <1>5 DEF Attach
<1>6. CASE Detach
  BY <1>6 DEF Detach
<1>7. ASSUME NEW n \in Nodes, Deliver(n)
      PROVE  BoundInv'
  BY <1>7 DEF Deliver
<1>8. ASSUME NEW n \in Nodes, DeliverAttachment(n)
      PROVE  BoundInv'
  BY <1>8 DEF DeliverAttachment
<1>9. ASSUME NEW n \in Nodes, syncVolume(n)
      PROVE  BoundInv'
  BY <1>9, SyncVolumeEffect DEF Moved
<1>10. ASSUME NEW n \in Nodes, handleProtectionFinalizer(n)
      PROVE  BoundInv'
  BY <1>10, FinalizerEffect DEF Moved, Written
<1>11. ASSUME NEW n \in Nodes, Delete(n)
      PROVE  BoundInv'
  BY <1>11, DeleteEffect DEF Moved
<1>12. ASSUME NEW n \in Nodes, canDeleteVolume(n)
      PROVE  BoundInv'
  BY <1>12, CheckEffect DEF Moved
<1>13. ASSUME NEW n \in Nodes, DeleteVolume(n)
      PROVE  BoundInv'
  BY <1>13, DeleteVolumeEffect DEF Moved
<1>14. ASSUME NEW n \in Nodes, DeletePV(n)
      PROVE  BoundInv'
  BY <1>14, DeletePVEffect DEF Moved, Written
<1>15. ASSUME NEW n \in Nodes, RemoveFinalizer(n)
      PROVE  BoundInv'
  BY <1>15, RemoveFinalizerEffect, Zenon DEF Moved, Written
<1>16. ASSUME NEW n \in Nodes, Restart(n)
      PROVE  BoundInv'
  BY <1>16, RestartEffect DEF Moved
<1>17. ASSUME NEW n \in Nodes, Resync(n)
      PROVE  BoundInv'
  BY <1>17 DEF Resync
<1>18. CASE UNCHANGED vars
  BY <1>18 DEF vars
<1> QED
  BY <1>1, <1>2, <1>3, <1>4, <1>5, <1>6, <1>7, <1>8, <1>9,
     <1>10, <1>11, <1>12, <1>13, <1>14, <1>15, <1>16, <1>17, <1>18,
     Zenon DEF Next, Users, Worker, Informer

\* a volume that is retained,
LEMMA StepRetainInv ==
    ASSUME IInv, [Next]_vars
    PROVE  RetainInv'
<1> USE DEF IInv, RetainInv, Working, Types, history, pvVars,
    workerVars
<1>1. CASE ChangePolicy
  BY <1>1, ChangePolicyEffect
<1>2. CASE Release
  BY <1>2, ReleaseEffect, Zenon DEF BoundInv
<1>3. CASE UserDeletesPV
  BY <1>3, UserDeletesEffect, Zenon DEF Written
<1>4. CASE Disappear
  BY <1>4, DisappearEffect, Zenon
<1>5. CASE Attach
  BY <1>5 DEF Attach
<1>6. CASE Detach
  BY <1>6 DEF Detach
<1>7. ASSUME NEW n \in Nodes, Deliver(n)
      PROVE  RetainInv'
  BY <1>7 DEF Deliver
<1>8. ASSUME NEW n \in Nodes, DeliverAttachment(n)
      PROVE  RetainInv'
  BY <1>8 DEF DeliverAttachment
<1>9. ASSUME NEW n \in Nodes, syncVolume(n)
      PROVE  RetainInv'
  <2>1. /\ UNCHANGED <<pv, retained, cache, vol>> /\ Moved(n)
        /\ pc'[n] \in {"idle", "add", "remove", "delete"}
        /\ pc'[n] = "delete" =>
              cache[n].phase = "released" /\ cache[n].policy = "Delete"
    BY <1>9, SyncVolumeEffect
  <2> QED
    BY <2>1 DEF Moved
<1>10. ASSUME NEW n \in Nodes, handleProtectionFinalizer(n)
      PROVE  RetainInv'
  <2>1. /\ UNCHANGED <<retained, cache, vol>> /\ Moved(n) /\ Written
        /\ pc'[n] \in {"idle", "delete"}
        /\ pc'[n] = "delete" => pv.policy = "Delete"
    BY <1>10, FinalizerEffect
  <2> QED
    BY <2>1 DEF Moved, Written
<1>11. ASSUME NEW n \in Nodes, Delete(n)
      PROVE  RetainInv'
  BY <1>11, DeleteEffect, Zenon DEF Moved
<1>12. ASSUME NEW n \in Nodes, canDeleteVolume(n)
      PROVE  RetainInv'
  BY <1>12, CheckEffect, Zenon DEF Moved
<1>13. ASSUME NEW n \in Nodes, DeleteVolume(n)
      PROVE  RetainInv'
  BY <1>13, DeleteVolumeEffect, Zenon DEF Moved
<1>14. ASSUME NEW n \in Nodes, DeletePV(n)
      PROVE  RetainInv'
  BY <1>14, DeletePVEffect, Zenon DEF Moved, Written
<1>15. ASSUME NEW n \in Nodes, RemoveFinalizer(n)
      PROVE  RetainInv'
  BY <1>15, RemoveFinalizerEffect, Zenon DEF Moved, Written
<1>16. ASSUME NEW n \in Nodes, Restart(n)
      PROVE  RetainInv'
  <2>1. /\ UNCHANGED <<pv, retained, vol>> /\ Moved(n) /\ pc'[n] = "idle"
        /\ cache' = [cache EXCEPT ![n] = pv]
    BY <1>16, RestartEffect
  <2> QED
    BY <2>1 DEF Moved
<1>17. ASSUME NEW n \in Nodes, Resync(n)
      PROVE  RetainInv'
  BY <1>17 DEF Resync
<1>18. CASE UNCHANGED vars
  BY <1>18 DEF vars
<1> QED
  BY <1>1, <1>2, <1>3, <1>4, <1>5, <1>6, <1>7, <1>8, <1>9,
     <1>10, <1>11, <1>12, <1>13, <1>14, <1>15, <1>16, <1>17, <1>18,
     Zenon DEF Next, Users, Worker, Informer

\* a volume that is attached,
LEMMA StepAttachInv ==
    ASSUME IInv, [Next]_vars
    PROVE  AttachInv'
<1> USE DEF IInv, AttachInv, Working, Types, history, pvVars,
    workerVars
<1>1. CASE ChangePolicy
  BY <1>1, ChangePolicyEffect, Zenon
<1>2. CASE Release
  <2>1. /\ UNCHANGED <<vaCache, va, vol, pc>> /\ pv.phase = "bound"
        /\ caughtUp' => \A n \in Nodes : vaCache[n] = va
    BY <1>2, ReleaseEffect, Zenon
  <2> QED
    BY <2>1, Zenon DEF BoundInv
<1>3. CASE UserDeletesPV
  BY <1>3, UserDeletesEffect, Zenon DEF Written
<1>4. CASE Disappear
  BY <1>4, DisappearEffect, Zenon
<1>5. CASE Attach
  BY <1>5 DEF Attach
<1>6. CASE Detach
  BY <1>6 DEF Detach
<1>7. ASSUME NEW n \in Nodes, Deliver(n)
      PROVE  AttachInv'
  BY <1>7 DEF Deliver
<1>8. ASSUME NEW n \in Nodes, DeliverAttachment(n)
      PROVE  AttachInv'
  BY <1>8 DEF DeliverAttachment
<1>9. ASSUME NEW n \in Nodes, syncVolume(n)
      PROVE  AttachInv'
  <2>1. /\ UNCHANGED <<pv, caughtUp, va, vaCache, vol>> /\ Moved(n)
        /\ pc'[n] # "call"
    BY <1>9, SyncVolumeEffect
  <2> QED
    BY <2>1 DEF Moved
<1>10. ASSUME NEW n \in Nodes, handleProtectionFinalizer(n)
      PROVE  AttachInv'
  <2>1. /\ UNCHANGED <<caughtUp, va, vaCache, vol>> /\ Moved(n) /\ Written
        /\ pc'[n] # "call"
    BY <1>10, FinalizerEffect
  <2> QED
    BY <2>1 DEF Moved, Written
<1>11. ASSUME NEW n \in Nodes, Delete(n)
      PROVE  AttachInv'
  BY <1>11, DeleteEffect, Zenon DEF Moved
<1>12. ASSUME NEW n \in Nodes, canDeleteVolume(n)
      PROVE  AttachInv'
  <2>1. /\ UNCHANGED <<pv, caughtUp, va, vaCache, vol>> /\ Moved(n)
        /\ pc'[n] = "call" => ~vaCache[n]
    BY <1>12, CheckEffect
  <2> QED
    BY <2>1 DEF Moved
<1>13. ASSUME NEW n \in Nodes, DeleteVolume(n)
      PROVE  AttachInv'
  BY <1>13, DeleteVolumeEffect, Zenon DEF Moved
<1>14. ASSUME NEW n \in Nodes, DeletePV(n)
      PROVE  AttachInv'
  <2>1. /\ UNCHANGED <<caughtUp, va, vaCache, vol>> /\ Moved(n) /\ Written
        /\ pc'[n] # "call"
    BY <1>14, DeletePVEffect
  <2> QED
    BY <2>1 DEF Moved, Written
<1>15. ASSUME NEW n \in Nodes, RemoveFinalizer(n)
      PROVE  AttachInv'
  <2>1. /\ UNCHANGED <<caughtUp, va, vaCache, vol>> /\ Moved(n) /\ Written
        /\ pc'[n] # "call"
    BY <1>15, RemoveFinalizerEffect
  <2> QED
    BY <2>1 DEF Moved, Written
<1>16. ASSUME NEW n \in Nodes, Restart(n)
      PROVE  AttachInv'
  BY <1>16, RestartEffect, Zenon DEF Moved
<1>17. ASSUME NEW n \in Nodes, Resync(n)
      PROVE  AttachInv'
  BY <1>17 DEF Resync
<1>18. CASE UNCHANGED vars
  BY <1>18 DEF vars
<1> QED
  BY <1>1, <1>2, <1>3, <1>4, <1>5, <1>6, <1>7, <1>8, <1>9,
     <1>10, <1>11, <1>12, <1>13, <1>14, <1>15, <1>16, <1>17, <1>18,
     Zenon DEF Next, Users, Worker, Informer

\* and the meaning of the finalizer.
LEMMA StepFinalizerInv ==
    ASSUME IInv, [Next]_vars
    PROVE  FinalizerInv'
<1> USE DEF IInv, FinalizerInv, Working, Types, history, pvVars,
    workerVars
<1>1. CASE ChangePolicy
  <2>1. /\ UNCHANGED <<pc, vol>> /\ wavered'
        /\ pv'.exists = pv.exists /\ pv'.finalizer = pv.finalizer
    BY <1>1, ChangePolicyEffect, Zenon
  <2> QED
    BY <2>1
<1>2. CASE Release
  BY <1>2, ReleaseEffect, Zenon
<1>3. CASE UserDeletesPV
  BY <1>3, UserDeletesEffect DEF Written
<1>4. CASE Disappear
  BY <1>4, DisappearEffect
<1>5. CASE Attach
  BY <1>5 DEF Attach
<1>6. CASE Detach
  BY <1>6 DEF Detach
<1>7. ASSUME NEW n \in Nodes, Deliver(n)
      PROVE  FinalizerInv'
  BY <1>7 DEF Deliver
<1>8. ASSUME NEW n \in Nodes, DeliverAttachment(n)
      PROVE  FinalizerInv'
  BY <1>8 DEF DeliverAttachment
<1>9. ASSUME NEW n \in Nodes, syncVolume(n)
      PROVE  FinalizerInv'
  BY <1>9, SyncVolumeEffect DEF Moved
<1>10. ASSUME NEW n \in Nodes, handleProtectionFinalizer(n)
      PROVE  FinalizerInv'
  BY <1>10, FinalizerEffect DEF Moved, Written
<1>11. ASSUME NEW n \in Nodes, Delete(n)
      PROVE  FinalizerInv'
  BY <1>11, DeleteEffect DEF Moved
<1>12. ASSUME NEW n \in Nodes, canDeleteVolume(n)
      PROVE  FinalizerInv'
  BY <1>12, CheckEffect DEF Moved
<1>13. ASSUME NEW n \in Nodes, DeleteVolume(n)
      PROVE  FinalizerInv'
  BY <1>13, DeleteVolumeEffect DEF Moved
<1>14. ASSUME NEW n \in Nodes, DeletePV(n)
      PROVE  FinalizerInv'
  BY <1>14, DeletePVEffect DEF Moved, Written
<1>15. ASSUME NEW n \in Nodes, RemoveFinalizer(n)
      PROVE  FinalizerInv'
  <2>1. /\ UNCHANGED <<wavered, cache, vol>> /\ Moved(n) /\ Written
        /\ pc[n] = "finalizer" /\ pc'[n] = "idle"
        /\ pv'.finalizer = pv.finalizer \/ pv'.finalizer = FALSE
    BY <1>15, RemoveFinalizerEffect, Zenon
  <2> QED
    BY <2>1 DEF Moved, Written
<1>16. ASSUME NEW n \in Nodes, Restart(n)
      PROVE  FinalizerInv'
  BY <1>16, RestartEffect DEF Moved
<1>17. ASSUME NEW n \in Nodes, Resync(n)
      PROVE  FinalizerInv'
  BY <1>17 DEF Resync
<1>18. CASE UNCHANGED vars
  BY <1>18 DEF vars
<1> QED
  BY <1>1, <1>2, <1>3, <1>4, <1>5, <1>6, <1>7, <1>8, <1>9,
     <1>10, <1>11, <1>12, <1>13, <1>14, <1>15, <1>16, <1>17, <1>18,
     Zenon DEF Next, Users, Worker, Informer

\* The PV is bound at first.
LEMMA InitIInv == Init => IInv
<1> SUFFICES ASSUME Init
             PROVE  IInv
  OBVIOUS
<1>1. Types
  BY DeletionAssumption, Zenon DEF Init, Types, PV, Labels
<1>2. \A n \in Nodes : cache[n] = pv /\ pc[n] = "idle"
  BY Zenon DEF Init
<1>3. BoundInv /\ RetainInv /\ AttachInv
  BY <1>2 DEF Init, BoundInv, RetainInv, AttachInv, Working
<1>4. FinalizerInv
  BY <1>2 DEF Init, FinalizerInv, Working
<1> QED
  BY <1>1, <1>3, <1>4 DEF IInv

\* The inductive invariant holds throughout.
THEOREM Invariance == Spec => []IInv
<1>1. ASSUME IInv, [Next]_vars
      PROVE  IInv'
  <2>1. Types'
    BY <1>1, StepTypes DEF IInv
  <2> QED
    BY <1>1, <2>1, StepBoundInv, StepRetainInv, StepAttachInv, StepFinalizerInv
       DEF IInv
<1> QED
  BY InitIInv, <1>1, PTL DEF Spec

-----------------------------------------------------------------------------
(* The properties.                                                         *)

\* On however many nodes the PV is looked at, whatever crashes and whoever
\* deletes the PV: a PV whose policy has always been Delete, and that is gone,
\* has no volume (finalizerPV in the library, Delete in controller.go).
THEOREM NoOrphan == Spec => []NothingOrphaned
<1>1. IInv => NothingOrphaned
  BY DEF IInv, FinalizerInv, NothingOrphaned
<1> QED
  BY <1>1, Invariance, PTL

\* shouldDelete reads a cache, but no version of the PV shows both the release
\* and the policy that was Delete before it.
THEOREM RetainIsKept == Spec => []RetainKept
<1>1. IInv => RetainKept
  BY DEF IInv, RetainInv, RetainKept
<1> QED
  BY <1>1, Invariance, PTL

\* canDeleteVolume reads a cache too: it keeps a volume with an attachment that
\* the caches had when the claim was deleted.
THEOREM AttachedIsKept == Spec => []AttachedNotDeleted
<1>1. IInv => AttachedNotDeleted
  <2> SUFFICES ASSUME IInv, va, caughtUp
               PROVE  vol
    BY DEF AttachedNotDeleted
  <2>1. pv.phase \in {"bound", "released"}
    BY DEF IInv, Types, PV
  <2> QED
    BY <2>1 DEF IInv, BoundInv, AttachInv
<1> QED
  BY <1>1, Invariance, PTL

\* Types, and that no cache is ahead of the API server.
THEOREM TypeCorrect == Spec => []TypeOK
<1>1. IInv => TypeOK
  <2> SUFFICES ASSUME IInv
               PROVE  TypeOK
    OBVIOUS
  <2>1. \A n \in Nodes : cache[n].phase = "released" => pv.phase = "released"
    BY DEF IInv, Types, BoundInv, PV
  <2>2. pc \in [Nodes -> {"idle", "add", "remove", "delete", "check", "call",
                          "deletepv", "finalizer"}]
    <3>1. Labels = {"idle", "add", "remove", "delete", "check", "call",
                    "deletepv", "finalizer"}
      BY DEF Labels, Working
    <3> QED
      BY <3>1 DEF IInv, Types
  <2> QED
    BY <2>1, <2>2 DEF IInv, Types, TypeOK
<1> QED
  BY <1>1, Invariance, PTL
===========================================================================
