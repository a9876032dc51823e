---------------------- MODULE VolumeLifecycleProofs ----------------------
(***************************************************************************)
(* Proofs about VolumeLifecycle, for any set of claims and any bounds.     *)
(***************************************************************************)
EXTENDS VolumeLifecycle, ProvisionControllerProofs

USE DEF Unbound, Live, ClaimState, PVState, VolState, PCState, VPCState

-----------------------------------------------------------------------------
(***************************************************************************)
(* Type correctness, and what a step leaves alone.                         *)
(***************************************************************************)

\* The deletion steps change the PV, the volume and what the volume worker has,
\* for one claim.
LEMMA DeletionTypes ==
    ASSUME LifecycleTypeOK, NEW c \in Claims, Deletion(c)
    PROVE  LifecycleTypeOK'
  <1>1. CASE Release(c)
    BY <1>1
       DEF Release, LifecycleTypeOK, TypeOK, apiVars, memVars, workerVars,
          driverVars, pvVars
  <1>2. CASE Disappear(c)
    BY <1>2
       DEF Disappear, LifecycleTypeOK, TypeOK, apiVars, memVars, workerVars,
          driverVars, pvVars
  <1>3. CASE ResyncVolume(c)
    BY <1>3
       DEF ResyncVolume, LifecycleTypeOK, TypeOK, vars, apiVars, memVars,
          workerVars, driverVars, pvVars
  <1>4. CASE SyncVolume(c)
    BY <1>4
       DEF SyncVolume, LifecycleTypeOK, TypeOK, vars, apiVars, memVars,
          workerVars, driverVars, pvVars
  <1>5. CASE DeleteVolume(c)
    BY <1>5
       DEF DeleteVolume, LifecycleTypeOK, TypeOK, apiVars, memVars,
          workerVars, driverVars, pvVars
  <1>6. CASE DeleteVolumeFails(c)
    BY <1>6
       DEF DeleteVolumeFails, EndVolumeSync, LifecycleTypeOK, TypeOK, apiVars,
          memVars, workerVars, driverVars, pvVars
  <1>7. CASE DeletePV(c)
    BY <1>7
       DEF DeletePV, LifecycleTypeOK, TypeOK, apiVars, memVars, workerVars,
          driverVars, pvVars
  <1>8. CASE DeletePVFails(c)
    BY <1>8
       DEF DeletePVFails, EndVolumeSync, LifecycleTypeOK, TypeOK, vars,
          apiVars, memVars, workerVars, driverVars, pvVars
  <1>9. CASE RemoveFinalizer(c)
    <2>1. pv' \in [Claims -> PVState] /\ finalizerPV' \in SUBSET Claims
      <3>1. CASE HasFinalizer(volumes[c])
        <4>1. /\ finalizerPV' = finalizerPV \ {c}
              /\ pv' = [pv EXCEPT ![c] =
                           IF @ = "terminating" THEN "finalized" ELSE @]
          BY <1>9, <3>1, Zenon DEF RemoveFinalizer
        <4> QED BY <4>1 DEF LifecycleTypeOK, TypeOK
      <3>2. CASE ~HasFinalizer(volumes[c])
        BY <1>9, <3>2 DEF RemoveFinalizer, LifecycleTypeOK, TypeOK
      <3> QED BY <3>1, <3>2
    <2>2. vpc' \in [Claims -> VPCState] /\ volumeQueue' \in SUBSET Claims
      BY <1>9 DEF RemoveFinalizer, EndVolumeSync, LifecycleTypeOK
    <2> QED BY <1>9, <2>1, <2>2
            DEF RemoveFinalizer, LifecycleTypeOK, TypeOK, apiVars, memVars,
                workerVars, driverVars
  <1>10. CASE RemoveFinalizerFails(c)
    BY <1>10
       DEF RemoveFinalizerFails, EndVolumeSync, LifecycleTypeOK, TypeOK, vars,
          apiVars, memVars, workerVars, driverVars, pvVars
  <1> QED
    BY <1>1, <1>2, <1>3, <1>4, <1>5, <1>6, <1>7, <1>8, <1>9, <1>10
       DEF Deletion

LEMMA ProvisionTypes ==
    ASSUME LifecycleTypeOK, Provision
    PROVE  LifecycleTypeOK'
  <1>1. TypeOK'
    BY TypeEnvironment, TypeWorker DEF Provision, LifecycleTypeOK
  <1> QED BY <1>1 DEF Provision, LifecycleTypeOK

LEMMA RestartTypes ==
    ASSUME LifecycleTypeOK, RestartAll
    PROVE  LifecycleTypeOK'
  <1>1. <<>> \in Seq(Live \cup {"gone"})
    OBVIOUS
  <1>2. TypeOK'
    BY <1>1 DEF RestartAll, Restart, LifecycleTypeOK, TypeOK, driverVars
  <1> QED BY <1>2 DEF RestartAll, LifecycleTypeOK

LEMMA InitTypes == LifecycleInit => LifecycleTypeOK
  BY TypeInit DEF LifecycleInit, LifecycleTypeOK

LEMMA StutterTypes ==
    ASSUME LifecycleTypeOK, UNCHANGED lifecycleVars
    PROVE  LifecycleTypeOK'
  BY DEF LifecycleTypeOK, TypeOK, lifecycleVars, vars, apiVars, memVars,
     workerVars, driverVars, pvVars

\* Types, with both workers, crashes and all faults.
THEOREM LifecycleTypeCorrect == LifecycleSpec => []LifecycleTypeOK
  <1>1. LifecycleTypeOK /\ [LifecycleNext]_lifecycleVars => LifecycleTypeOK'
    BY DeletionTypes, ProvisionTypes, RestartTypes, StutterTypes
       DEF LifecycleNext
  <1> QED BY <1>1, InitTypes, PTL DEF LifecycleSpec

\* Nothing of claim d changes that the invariants below are about.
AllSame(d) == Same(d) /\ vpc'[d] = vpc[d]

\* Claims do not interfere here either.
LEMMA DeletionFrame ==
    ASSUME LifecycleTypeOK, NEW c \in Claims, NEW d \in Claims, d # c,
           Deletion(c)
    PROVE  AllSame(d)
  <1>1. CASE Release(c)
    BY <1>1
       DEF Release, AllSame, Same, LifecycleTypeOK, TypeOK, apiVars, memVars,
          workerVars, driverVars, pvVars
  <1>2. CASE Disappear(c)
    BY <1>2
       DEF Disappear, AllSame, Same, LifecycleTypeOK, TypeOK, apiVars,
          memVars, workerVars, driverVars, pvVars
  <1>3. CASE ResyncVolume(c)
    BY <1>3
       DEF ResyncVolume, AllSame, Same, LifecycleTypeOK, TypeOK, vars,
          apiVars, memVars, workerVars, driverVars, pvVars
  <1>4. CASE SyncVolume(c)
    BY <1>4
       DEF SyncVolume, AllSame, Same, LifecycleTypeOK, TypeOK, vars, apiVars,
          memVars, workerVars, driverVars, pvVars
  <1>5. CASE DeleteVolume(c)
    BY <1>5
       DEF DeleteVolume, AllSame, Same, LifecycleTypeOK, TypeOK, apiVars,
          memVars, workerVars, driverVars, pvVars
  <1>6. CASE DeleteVolumeFails(c)
    BY <1>6
       DEF DeleteVolumeFails, EndVolumeSync, AllSame, Same, LifecycleTypeOK,
          TypeOK, apiVars, memVars, workerVars, driverVars, pvVars
  <1>7. CASE DeletePV(c)
    BY <1>7
       DEF DeletePV, AllSame, Same, LifecycleTypeOK, TypeOK, apiVars, memVars,
          workerVars, driverVars, pvVars
  <1>8. CASE DeletePVFails(c)
    BY <1>8
       DEF DeletePVFails, EndVolumeSync, AllSame, Same, LifecycleTypeOK,
          TypeOK, vars, apiVars, memVars, workerVars, driverVars, pvVars
  <1>9. CASE RemoveFinalizer(c)
    BY <1>9
       DEF RemoveFinalizer, EndVolumeSync, AllSame, Same, LifecycleTypeOK,
          TypeOK, apiVars, memVars, workerVars, driverVars, pvVars
  <1>10. CASE RemoveFinalizerFails(c)
    BY <1>10
       DEF RemoveFinalizerFails, EndVolumeSync, AllSame, Same,
          LifecycleTypeOK, TypeOK, vars, apiVars, memVars, workerVars,
          driverVars, pvVars
  <1> QED
    BY <1>1, <1>2, <1>3, <1>4, <1>5, <1>6, <1>7, <1>8, <1>9, <1>10
       DEF Deletion

LEMMA ProvisionFrame ==
    ASSUME LifecycleTypeOK, NEW c \in Claims, NEW d \in Claims, d # c,
           Environment(c) \/ Worker(c), UNCHANGED vpc
    PROVE  AllSame(d)
  BY FrameEnvironment, FrameWorker DEF AllSame, LifecycleTypeOK

LEMMA StutterFrame ==
    ASSUME UNCHANGED lifecycleVars, NEW d \in Claims
    PROVE  AllSame(d)
  BY DEF AllSame, Same, lifecycleVars, vars, apiVars, memVars, workerVars,
     driverVars, pvVars

-----------------------------------------------------------------------------
(***************************************************************************)
(* The volume of a living claim.                                           *)
(***************************************************************************)

\* Before the claim is deleted its volume is as PVBacked says, and its PV, in
\* the API server and in the cache, has not been released: no worker of the
\* volume queue is concerned with it.
Kept(c) ==
    /\ Backed(c)
    /\ pv[c] \in {"none", "available", "bound"}
    /\ pv[c] = "bound" <=> claim[c] = "bound"
    /\ volumes[c] \in {"none", "available", "bound"}
    /\ vpc[c] = "idle"

KeptInv ==
    LifecycleTypeOK /\ \A c \in Claims : claim[c] = "gone" \/ Kept(c)

\* What provisioning does to claim and PV: a deleted claim stays deleted, a PV
\* is added, and both are bound together.
PVMoves(c) ==
    /\ claim[c] = "gone" => claim'[c] = "gone"
    /\ \/ pv'[c] = pv[c] /\ (claim'[c] = "bound" <=> claim[c] = "bound")
       \/ pv'[c] = pv[c] /\ claim'[c] = "gone"
       \/ pv[c] = "none" /\ pv'[c] = "available" /\ claim'[c] = claim[c]
       \/ pv'[c] = "bound" /\ claim'[c] = "bound"
    /\ volumes'[c] \in {volumes[c], pv[c]}

LEMMA PVMovesStep ==
    ASSUME TypeOK, NEW c \in Claims, Environment(c) \/ Worker(c)
    PROVE  PVMoves(c)
  <1>1. CASE CreateClaim(c)
    BY <1>1 DEF CreateClaim, Write, PVMoves, TypeOK, apiVars, pvVars
  <1>2. CASE DeleteClaim(c)
    BY <1>2 DEF DeleteClaim, Write, PVMoves, TypeOK, apiVars, pvVars
  <1>3. CASE TouchClaim(c)
    BY <1>3 DEF TouchClaim, Write, PVMoves, TypeOK, apiVars, pvVars
  <1>4. CASE SelectNode(c)
    BY <1>4 DEF SelectNode, Write, PVMoves, TypeOK, apiVars, pvVars
  <1>5. CASE NodeGone(c)
    BY <1>5 DEF NodeGone, PVMoves, TypeOK, apiVars, pvVars
  <1>6. CASE ConfigChange(c)
    BY <1>6 DEF ConfigChange, PVMoves, TypeOK, apiVars, pvVars
  <1>7. CASE Bind(c)
    BY <1>7 DEF Bind, Write, PVMoves, TypeOK, apiVars, pvVars
  <1>8. CASE DeliverClaim(c)
    BY <1>8 DEF DeliverClaim, PVMoves, TypeOK, apiVars, pvVars
  <1>9. CASE ResyncClaim(c)
    BY <1>9 DEF ResyncClaim, PVMoves, TypeOK, apiVars, pvVars
  <1>10. CASE DeliverVolume(c)
    BY <1>10 DEF DeliverVolume, PVMoves, TypeOK, apiVars, pvVars
  <1>11. CASE DriverCreates(c)
    BY <1>11 DEF DriverCreates, PVMoves, TypeOK, apiVars, pvVars
  <1>12. CASE DriverFails(c)
    BY <1>12 DEF DriverFails, PVMoves, TypeOK, apiVars, pvVars
  <1>13. CASE SyncClaim(c)
    BY <1>13 DEF SyncClaim, PVMoves, TypeOK, apiVars, pvVars
  <1>14. CASE ProvisionClaimOperation(c)
    BY <1>14 DEF ProvisionClaimOperation, PVMoves, TypeOK, apiVars, pvVars
  <1>15. CASE PrepareFails(c)
    BY <1>15 DEF PrepareFails, PVMoves, TypeOK, apiVars, pvVars
  <1>16. CASE PrepareRejects(c)
    BY <1>16 DEF PrepareRejects, PVMoves, TypeOK, apiVars, pvVars
  <1>17. CASE PrepareReschedules(c)
    BY <1>17 DEF PrepareReschedules, PVMoves, TypeOK, apiVars, pvVars
  <1>18. CASE CallCreateVolume(c)
    BY <1>18 DEF CallCreateVolume, PVMoves, TypeOK, apiVars, pvVars
  <1>19. CASE CreateVolumeFails(c)
    BY <1>19 DEF CreateVolumeFails, PVMoves, TypeOK, apiVars, pvVars
  <1>20. CASE CreateVolumeSucceeds(c)
    BY <1>20 DEF CreateVolumeSucceeds, PVMoves, TypeOK, apiVars, pvVars
  <1>21. CASE CleanupVolume(c)
    BY <1>21 DEF CleanupVolume, PVMoves, TypeOK, apiVars, pvVars
  <1>22. CASE TranslateFails(c)
    BY <1>22 DEF TranslateFails, PVMoves, TypeOK, apiVars, pvVars
  <1>23. CASE Reschedule(c)
    BY <1>23
       DEF Reschedule, Write, Unselected, PVMoves, TypeOK, apiVars, pvVars
  <1>24. CASE RescheduleFails(c)
    BY <1>24 DEF RescheduleFails, PVMoves, TypeOK, apiVars, pvVars
  <1>25. CASE StoreVolume(c)
    BY <1>25 DEF StoreVolume, doSaveVolume, PVMoves, TypeOK, apiVars, pvVars
  <1>26. CASE SaveQueuedVolume(c)
    BY <1>26
       DEF SaveQueuedVolume, doSaveVolume, PVMoves, TypeOK, apiVars, pvVars
  <1>27. CASE SlowRetryDue(c)
    BY <1>27 DEF SlowRetryDue, PVMoves, TypeOK, apiVars, pvVars
  <1>28. CASE UpdateStore(c)
    BY <1>28 DEF UpdateStore, PVMoves, apiVars, pvVars
  <1> QED
    BY <1>1, <1>2, <1>3, <1>4, <1>5, <1>6, <1>7, <1>8, <1>9, <1>10, <1>11,
       <1>12, <1>13, <1>14, <1>15, <1>16, <1>17, <1>18, <1>19, <1>20, <1>21,
       <1>22, <1>23, <1>24, <1>25, <1>26, <1>27, <1>28
       DEF Environment, Worker

LEMMA KeptSame ==
    ASSUME NEW d \in Claims, claim[d] = "gone" \/ Kept(d), AllSame(d)
    PROVE  (claim[d] = "gone" \/ Kept(d))'
  BY DEF Kept, Backed, Secured, AllSame, Same

LEMMA KeptProvision ==
    ASSUME LifecycleTypeOK, NEW c \in Claims, claim[c] = "gone" \/ Kept(c),
           Environment(c) \/ Worker(c), UNCHANGED vpc
    PROVE  (claim[c] = "gone" \/ Kept(c))'
  <1>1. PVMoves(c)
    BY PVMovesStep DEF LifecycleTypeOK
  <1>2. CASE claim[c] = "gone"
    BY <1>1, <1>2 DEF PVMoves
  <1>3. CASE Kept(c)
    <2>1. Backed(c)'
      BY <1>3, BackedStep DEF Kept, LifecycleTypeOK
    <2> QED BY <1>1, <1>3, <2>1 DEF Kept, PVMoves
  <1> QED BY <1>2, <1>3

\* The volume worker finds nothing to do while the claim is there, and the PV
\* controller nothing to release.
LEMMA KeptDeletion ==
    ASSUME LifecycleTypeOK, NEW c \in Claims, claim[c] = "gone" \/ Kept(c),
           Deletion(c)
    PROVE  (claim[c] = "gone" \/ Kept(c))'
  <1>1. claim' = claim
    BY DEF Deletion, Release, Disappear, ResyncVolume, SyncVolume,
       DeleteVolume, DeleteVolumeFails, DeletePV, DeletePVFails,
       RemoveFinalizer, RemoveFinalizerFails, apiVars, vars
  <1>2. CASE claim[c] = "gone"
    BY <1>1, <1>2
  <1>3. CASE claim[c] # "gone" /\ Kept(c)
    <2>1. ResyncVolume(c) \/ SyncVolume(c)
      BY <1>3, Zenon DEF Deletion, Release, Disappear, DeleteVolume,
         DeleteVolumeFails, DeletePV, DeletePVFails, RemoveFinalizer,
         RemoveFinalizerFails, Kept
    <2>2. vars' = vars
      BY <2>1 DEF ResyncVolume, SyncVolume
    <2>3. vpc'[c] = "idle"
      BY <1>3, <2>1 DEF ResyncVolume, SyncVolume, shouldDelete, Kept,
         LifecycleTypeOK
    <2> QED BY <1>3, <2>2, <2>3
            DEF Kept, Backed, Secured, vars, apiVars, workerVars, driverVars,
                pvVars
  <1> QED BY <1>2, <1>3

LEMMA KeptRestart ==
    ASSUME LifecycleTypeOK, RestartAll, NEW c \in Claims,
           claim[c] = "gone" \/ Kept(c)
    PROVE  (claim[c] = "gone" \/ Kept(c))'
  BY DEF RestartAll, Restart, Kept, Backed, Secured, driverVars

LEMMA KeptStep ==
    ASSUME KeptInv, [LifecycleNext]_lifecycleVars
    PROVE  KeptInv'
  <1> USE DEF KeptInv
  <1>1. LifecycleTypeOK'
    BY DeletionTypes, ProvisionTypes, RestartTypes, StutterTypes
       DEF LifecycleNext
  <1>2. ASSUME NEW d \in Claims
        PROVE  (claim[d] = "gone" \/ Kept(d))'
    <2>1. CASE Provision
      <3>1. PICK c \in Claims : Environment(c) \/ Worker(c)
        BY <2>1 DEF Provision
      <3>2. UNCHANGED vpc
        BY <2>1 DEF Provision
      <3>3. CASE d = c
        BY <3>1, <3>2, <3>3, KeptProvision
      <3>4. CASE d # c
        BY <3>1, <3>2, <3>4, ProvisionFrame, KeptSame
      <3> QED BY <3>3, <3>4
    <2>2. CASE RestartAll
      BY <2>2, KeptRestart
    <2>3. ASSUME NEW c \in Claims, Deletion(c)
          PROVE  (claim[d] = "gone" \/ Kept(d))'
      <3>1. CASE d = c
        BY <2>3, <3>1, KeptDeletion
      <3>2. CASE d # c
        BY <2>3, <3>2, DeletionFrame, KeptSame
      <3> QED BY <3>1, <3>2
    <2>4. CASE UNCHANGED lifecycleVars
      BY <2>4, StutterFrame, KeptSame
    <2> QED BY <2>1, <2>2, <2>3, <2>4 DEF LifecycleNext
  <1> QED BY <1>1, <1>2

LEMMA KeptInit == LifecycleInit => KeptInv
  BY InitTypes
     DEF LifecycleInit, Init, KeptInv, Kept, Backed, Secured

\* Whatever crashes, retries and stale caches do, the volume worker leaves the
\* volume of a living claim alone (shouldDelete, deleteVolumeOperation), and
\* a bound claim has its PV and a volume that satisfies it.
THEOREM LivingClaimIsSafe == LifecycleSpec => []LivingClaimKeepsVolume
  <1>1. KeptInv => LivingClaimKeepsVolume
    BY Zenon DEF KeptInv, Kept, Backed, Secured, LivingClaimKeepsVolume
  <1> QED BY <1>1, KeptInit, KeptStep, PTL DEF LifecycleSpec
=============================================================================
