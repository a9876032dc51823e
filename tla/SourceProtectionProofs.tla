--------------------- MODULE SourceProtectionProofs ---------------------
(***************************************************************************)
(* Proofs about SnapshotProtection and CloneProtection, for every set of   *)
(* claims and every number of crashes.                                     *)
(***************************************************************************)
EXTENDS SnapshotProtection, TLAPS

VARIABLES source, sourceLister, finalizerLister, claimQueue, sync

\* The two have the claims, the finalizer and the workers' state in common.
Clone == INSTANCE CloneProtection

\* No claim is done: the premise of SourceStays, which once lost stays lost.
NoneDone == \A d \in Claims : claim[d] \in {"none", "pending"}
OnlyFor(c) == permitted /\ NoneDone /\ vol \ RefOnly \subseteq {c}

\* The claim relies on the finalizer.
Protected(c) == Restoring(c) \/ pc[c] \in {"create", "call"}

\* A claim that is worked on is pending in the cache.  If there is a finalizer,
\* some claim was worked on, so that the sweep finds it in the cache.
ListedInv ==
    /\ \A c \in Claims : claimLister[c] # "none" => claim[c] # "none"
    /\ NoneDone =>
          /\ \A c \in Claims :
                c \in inProgress \/ pc[c] # "idle" => claimLister[c] = "pending"
          /\ finalizer \/ snapshotStore \/ sweep # "idle" => pendingSnapshots # {}
          /\ sweep # "orphan"

\* Only a claim with a volume removes the finalizer, and no call of its own is
\* on the way then.
DoneInv ==
    \A c \in Claims :
        /\ pc[c] \in {"remove", "removeUpdate"} => c \in vol \ RefOnly
        /\ pc[c] \in {"remove", "removeUpdate", "save"} => c \notin creating

FinalizerInv == \A c \in Claims : OnlyFor(c) /\ Protected(c) => finalizer

IInv == TypeOK /\ ListedInv /\ DoneInv /\ FinalizerInv
-----------------------------------------------------------------------------
(* The invariant.                                                          *)

\* What an update of the snapshot by the controller leaves: it changes nothing
\* but the finalizer, and adds it only to a snapshot that is live.
LEMMA WriteTypes ==
    ASSUME TypeOK, NEW f \in BOOLEAN, f => snapshot = "live",
           SetSnapshot(snapshot, f) \/ UNCHANGED snapVars
    PROVE  /\ snapshot' \in {"live", "deleting", "gone"}
           /\ finalizer' \in BOOLEAN /\ (snapshot' = "gone" => ~finalizer')
           /\ fresh' \subseteq Claims \cup {"store", "sweep"}
<1>1. CASE UNCHANGED snapVars
  BY <1>1, Zenon DEF TypeOK, snapVars
<1>2. CASE SetSnapshot(snapshot, f)
  <2>1. snapshot' = snapshot /\ finalizer' = f /\ fresh' = {}
    BY <1>2 DEF SetSnapshot
  <2>2. snapshot = "gone" => ~f
    OBVIOUS
  <2>3. fresh' \subseteq Claims \cup {"store", "sweep"}
    BY <2>1
  <2> QED
    BY <2>1, <2>2, <2>3, Zenon DEF TypeOK
<1> QED
  BY <1>1, <1>2

\* Every step keeps the types,
LEMMA StepTypes ==
    ASSUME TypeOK, [Next]_vars
    PROVE  TypeOK'
<1> USE DEF TypeOK, Phase, PCState, claimVars, runVars, snapVars,
        driverVars, workerVars
<1>1. ASSUME NEW c \in Claims, CreateClaim(c)
      PROVE  TypeOK'
  BY <1>1 DEF CreateClaim, SetClaim
<1>2. ASSUME NEW c \in Claims, DeleteClaim(c)
      PROVE  TypeOK'
  BY <1>2 DEF DeleteClaim, SetClaim
<1>3. ASSUME NEW c \in Claims, BindClaim(c)
      PROVE  TypeOK'
  BY <1>3 DEF BindClaim, SetClaim
<1>4. ASSUME NEW c \in Claims, DeliverClaim(c)
      PROVE  TypeOK'
  BY <1>4 DEF DeliverClaim
<1>5. ASSUME NEW c \in Claims, DriverEnds(c)
      PROVE  TypeOK'
  BY <1>5 DEF DriverEnds
<1>6. ASSUME NEW c \in Claims, getSnapshotSource(c)
      PROVE  TypeOK'
  BY <1>6 DEF getSnapshotSource, Goto
<1>7. ASSUME NEW c \in Claims, setSnapshotFinalizer(c)
      PROVE  TypeOK'
  BY <1>7 DEF setSnapshotFinalizer, Goto
<1>8. ASSUME NEW c \in Claims, UpdateFinalizer(c)
      PROVE  TypeOK'
  <2>1. pc' \in [Claims -> PCState]
    BY <1>8, Zenon DEF UpdateFinalizer, Goto
  <2>2. \/ snapshot = "live" /\ SetSnapshot(snapshot, TRUE)
        \/ UNCHANGED snapVars
    BY <1>8, Zenon DEF UpdateFinalizer
  <2>3. /\ snapshot' \in {"live", "deleting", "gone"} /\ finalizer' \in BOOLEAN
        /\ snapshot' = "gone" => ~finalizer'
        /\ fresh' \subseteq Claims \cup {"store", "sweep"}
    BY <2>2, WriteTypes, Zenon
  <2> QED
    BY <1>8, <2>1, <2>3, Zenon DEF UpdateFinalizer
<1>9. ASSUME NEW c \in Claims, CreateVolume(c)
      PROVE  TypeOK'
  BY <1>9 DEF CreateVolume, Goto
<1>10. ASSUME NEW c \in Claims, CreateVolumeEnds(c)
       PROVE  TypeOK'
  BY <1>10 DEF CreateVolumeEnds, Goto
<1>11. ASSUME NEW c \in Claims, CreateVolumeTimesOut(c)
       PROVE  TypeOK'
  BY <1>11 DEF CreateVolumeTimesOut, Goto
<1>12. ASSUME NEW c \in Claims, removeSnapshotFinalizer(c)
       PROVE  TypeOK'
  BY <1>12 DEF removeSnapshotFinalizer, Goto
<1>13. ASSUME NEW c \in Claims, UpdateRemoved(c)
       PROVE  TypeOK'
  <2>1. SetSnapshot(snapshot, FALSE) \/ UNCHANGED snapVars
    BY <1>13, Zenon DEF UpdateRemoved
  <2>2. /\ snapshot' \in {"live", "deleting", "gone"} /\ finalizer' \in BOOLEAN
        /\ snapshot' = "gone" => ~finalizer'
        /\ fresh' \subseteq Claims \cup {"store", "sweep"}
    BY <2>1, WriteTypes, Zenon
  <2>3. pc' \in [Claims -> PCState]
    BY <1>13 DEF UpdateRemoved, Goto
  <2> QED
    BY <1>13, <2>2, <2>3 DEF UpdateRemoved
<1>14. ASSUME NEW c \in Claims, SavePV(c)
       PROVE  TypeOK'
  BY <1>14 DEF SavePV, Goto
<1>15. CASE DeleteSnapshot
  BY <1>15 DEF DeleteSnapshot, SetSnapshot
<1>16. CASE SnapshotGone
  BY <1>16, Zenon DEF SnapshotGone, SetSnapshot
<1>17. CASE DeliverSnapshot
  BY <1>17 DEF DeliverSnapshot
<1>18. CASE ListSnapshots
  BY <1>18 DEF ListSnapshots
<1>19. CASE buildPendingSnapshotIndex
  BY <1>19 DEF buildPendingSnapshotIndex
<1>20. CASE SweepRemoves
  <2>1. SetSnapshot(snapshot, FALSE) \/ UNCHANGED snapVars
    BY <1>20, Zenon DEF SweepRemoves
  <2>2. /\ snapshot' \in {"live", "deleting", "gone"} /\ finalizer' \in BOOLEAN
        /\ snapshot' = "gone" => ~finalizer'
        /\ fresh' \subseteq Claims \cup {"store", "sweep"}
    BY <2>1, WriteTypes, Zenon
  <2> QED
    BY <1>20, <2>2 DEF SweepRemoves
<1>21. CASE Restart
  <2>1. restarts' \in 0 .. MaxRestarts
    BY <1>21, SnapshotAssumption DEF Restart
  <2> QED
    BY <1>21, <2>1 DEF Restart
<1>22. CASE UNCHANGED vars
  BY <1>22 DEF vars
<1> QED
  BY <1>1, <1>2, <1>3, <1>4, <1>5, <1>6, <1>7, <1>8, <1>9, <1>10, <1>11,
     <1>12, <1>13, <1>14, <1>15, <1>16, <1>17, <1>18, <1>19, <1>20, <1>21,
     <1>22, Zenon
     DEF Next, Environment, Worker, Sweep

\* what the caches show while no claim is done,
LEMMA StepListed ==
    ASSUME TypeOK, ListedInv, [Next]_vars
    PROVE  ListedInv'
<1> USE DEF TypeOK, ListedInv, NoneDone, Phase, PCState,
        pendingSnapshots, claimVars, runVars, snapVars,
        driverVars, workerVars
<1>1. ASSUME NEW c \in Claims, CreateClaim(c)
      PROVE  ListedInv'
  BY <1>1 DEF CreateClaim, SetClaim
<1>2. ASSUME NEW c \in Claims, DeleteClaim(c)
      PROVE  ListedInv'
  BY <1>2 DEF DeleteClaim, SetClaim
<1>3. ASSUME NEW c \in Claims, BindClaim(c)
      PROVE  ListedInv'
  BY <1>3 DEF BindClaim, SetClaim
<1>4. ASSUME NEW c \in Claims, DeliverClaim(c)
      PROVE  ListedInv'
  BY <1>4 DEF DeliverClaim
<1>5. ASSUME NEW c \in Claims, DriverEnds(c)
      PROVE  ListedInv'
  BY <1>5 DEF DriverEnds
<1>6. ASSUME NEW c \in Claims, getSnapshotSource(c)
      PROVE  ListedInv'
  BY <1>6 DEF getSnapshotSource, Goto
<1>7. ASSUME NEW c \in Claims, setSnapshotFinalizer(c)
      PROVE  ListedInv'
  BY <1>7 DEF setSnapshotFinalizer, Goto
<1>8. ASSUME NEW c \in Claims, UpdateFinalizer(c)
      PROVE  ListedInv'
  BY <1>8 DEF UpdateFinalizer, Goto, SetSnapshot
<1>9. ASSUME NEW c \in Claims, CreateVolume(c)
      PROVE  ListedInv'
  BY <1>9 DEF CreateVolume, Goto
<1>10. ASSUME NEW c \in Claims, CreateVolumeEnds(c)
       PROVE  ListedInv'
  BY <1>10 DEF CreateVolumeEnds, Goto
<1>11. ASSUME NEW c \in Claims, CreateVolumeTimesOut(c)
       PROVE  ListedInv'
  BY <1>11 DEF CreateVolumeTimesOut, Goto
<1>12. ASSUME NEW c \in Claims, removeSnapshotFinalizer(c)
       PROVE  ListedInv'
  BY <1>12 DEF removeSnapshotFinalizer, Goto
<1>13. ASSUME NEW c \in Claims, UpdateRemoved(c)
       PROVE  ListedInv'
  BY <1>13 DEF UpdateRemoved, Goto, SetSnapshot
<1>14. ASSUME NEW c \in Claims, SavePV(c)
       PROVE  ListedInv'
  BY <1>14 DEF SavePV, Goto
<1>15. CASE DeleteSnapshot
  BY <1>15 DEF DeleteSnapshot, SetSnapshot
<1>16. CASE SnapshotGone
  BY <1>16 DEF SnapshotGone, SetSnapshot
<1>17. CASE DeliverSnapshot
  BY <1>17 DEF DeliverSnapshot
<1>18. CASE ListSnapshots
  BY <1>18 DEF ListSnapshots
<1>19. CASE buildPendingSnapshotIndex
  BY <1>19 DEF buildPendingSnapshotIndex
<1>20. CASE SweepRemoves
  BY <1>20 DEF SweepRemoves, SetSnapshot
<1>21. CASE Restart
  BY <1>21 DEF Restart
<1>22. CASE UNCHANGED vars
  BY <1>22 DEF vars
<1> QED
  BY <1>1, <1>2, <1>3, <1>4, <1>5, <1>6, <1>7, <1>8, <1>9, <1>10, <1>11,
     <1>12, <1>13, <1>14, <1>15, <1>16, <1>17, <1>18, <1>19, <1>20, <1>21,
     <1>22, Zenon
     DEF Next, Environment, Worker, Sweep

\* what is known of a claim that is done,
LEMMA StepDone ==
    ASSUME TypeOK, DoneInv, [Next]_vars
    PROVE  DoneInv'
<1> USE DEF TypeOK, DoneInv, PCState, claimVars, runVars, snapVars,
        driverVars, workerVars
<1>1. ASSUME NEW c \in Claims, CreateClaim(c)
      PROVE  DoneInv'
  BY <1>1 DEF CreateClaim, SetClaim
<1>2. ASSUME NEW c \in Claims, DeleteClaim(c)
      PROVE  DoneInv'
  BY <1>2 DEF DeleteClaim, SetClaim
<1>3. ASSUME NEW c \in Claims, BindClaim(c)
      PROVE  DoneInv'
  BY <1>3 DEF BindClaim, SetClaim
<1>4. ASSUME NEW c \in Claims, DeliverClaim(c)
      PROVE  DoneInv'
  BY <1>4 DEF DeliverClaim
<1>5. ASSUME NEW c \in Claims, DriverEnds(c)
      PROVE  DoneInv'
  BY <1>5 DEF DriverEnds
<1>6. ASSUME NEW c \in Claims, getSnapshotSource(c)
      PROVE  DoneInv'
  BY <1>6 DEF getSnapshotSource, Goto
<1>7. ASSUME NEW c \in Claims, setSnapshotFinalizer(c)
      PROVE  DoneInv'
  BY <1>7 DEF setSnapshotFinalizer, Goto
<1>8. ASSUME NEW c \in Claims, UpdateFinalizer(c)
      PROVE  DoneInv'
  BY <1>8 DEF UpdateFinalizer, Goto, SetSnapshot
<1>9. ASSUME NEW c \in Claims, CreateVolume(c)
      PROVE  DoneInv'
  BY <1>9 DEF CreateVolume, Goto
<1>10. ASSUME NEW c \in Claims, CreateVolumeEnds(c)
       PROVE  DoneInv'
  BY <1>10 DEF CreateVolumeEnds, Goto
<1>11. ASSUME NEW c \in Claims, CreateVolumeTimesOut(c)
       PROVE  DoneInv'
  BY <1>11 DEF CreateVolumeTimesOut, Goto
<1>12. ASSUME NEW c \in Claims, removeSnapshotFinalizer(c)
       PROVE  DoneInv'
  BY <1>12 DEF removeSnapshotFinalizer, Goto
<1>13. ASSUME NEW c \in Claims, UpdateRemoved(c)
       PROVE  DoneInv'
  BY <1>13 DEF UpdateRemoved, Goto, SetSnapshot
<1>14. ASSUME NEW c \in Claims, SavePV(c)
       PROVE  DoneInv'
  BY <1>14 DEF SavePV, Goto
<1>15. CASE DeleteSnapshot
  BY <1>15 DEF DeleteSnapshot, SetSnapshot
<1>16. CASE SnapshotGone
  BY <1>16 DEF SnapshotGone, SetSnapshot
<1>17. CASE DeliverSnapshot
  BY <1>17 DEF DeliverSnapshot
<1>18. CASE ListSnapshots
  BY <1>18 DEF ListSnapshots
<1>19. CASE buildPendingSnapshotIndex
  BY <1>19 DEF buildPendingSnapshotIndex
<1>20. CASE SweepRemoves
  BY <1>20 DEF SweepRemoves, SetSnapshot
<1>21. CASE Restart
  BY <1>21 DEF Restart
<1>22. CASE UNCHANGED vars
  BY <1>22 DEF vars
<1> QED
  BY <1>1, <1>2, <1>3, <1>4, <1>5, <1>6, <1>7, <1>8, <1>9, <1>10, <1>11,
     <1>12, <1>13, <1>14, <1>15, <1>16, <1>17, <1>18, <1>19, <1>20, <1>21,
     <1>22, Zenon
     DEF Next, Environment, Worker, Sweep

\* and the finalizer.
LEMMA StepFinalizer ==
    ASSUME IInv, [Next]_vars
    PROVE  FinalizerInv'
<1> USE DEF TypeOK, ListedInv, DoneInv, FinalizerInv, IInv, OnlyFor,
        NoneDone, Protected, Restoring, Phase, PCState, claimVars, runVars,
        snapVars,
        driverVars, workerVars
<1>1. ASSUME NEW c \in Claims, CreateClaim(c)
      PROVE  FinalizerInv'
  BY <1>1 DEF CreateClaim, SetClaim
<1>2. ASSUME NEW c \in Claims, DeleteClaim(c)
      PROVE  FinalizerInv'
  BY <1>2 DEF DeleteClaim, SetClaim
<1>3. ASSUME NEW c \in Claims, BindClaim(c)
      PROVE  FinalizerInv'
  BY <1>3 DEF BindClaim, SetClaim
<1>4. ASSUME NEW c \in Claims, DeliverClaim(c)
      PROVE  FinalizerInv'
  BY <1>4 DEF DeliverClaim
<1>5. ASSUME NEW c \in Claims, DriverEnds(c)
      PROVE  FinalizerInv'
  BY <1>5 DEF DriverEnds
<1>6. ASSUME NEW c \in Claims, getSnapshotSource(c)
      PROVE  FinalizerInv'
  BY <1>6 DEF getSnapshotSource, Goto
<1>7. ASSUME NEW c \in Claims, setSnapshotFinalizer(c)
      PROVE  FinalizerInv'
  BY <1>7 DEF setSnapshotFinalizer, Goto
<1>8. ASSUME NEW c \in Claims, UpdateFinalizer(c)
      PROVE  FinalizerInv'
  BY <1>8 DEF UpdateFinalizer, Goto, SetSnapshot
<1>9. ASSUME NEW c \in Claims, CreateVolume(c)
      PROVE  FinalizerInv'
  BY <1>9 DEF CreateVolume, Goto
<1>10. ASSUME NEW c \in Claims, CreateVolumeEnds(c)
       PROVE  FinalizerInv'
  BY <1>10 DEF CreateVolumeEnds, Goto
<1>11. ASSUME NEW c \in Claims, CreateVolumeTimesOut(c)
       PROVE  FinalizerInv'
  BY <1>11 DEF CreateVolumeTimesOut, Goto
<1>12. ASSUME NEW c \in Claims, removeSnapshotFinalizer(c)
       PROVE  FinalizerInv'
  BY <1>12 DEF removeSnapshotFinalizer, Goto
<1>13. ASSUME NEW c \in Claims, UpdateRemoved(c)
       PROVE  FinalizerInv'
  BY <1>13 DEF UpdateRemoved, Goto, SetSnapshot
<1>14. ASSUME NEW c \in Claims, SavePV(c)
       PROVE  FinalizerInv'
  BY <1>14 DEF SavePV, Goto
<1>15. CASE DeleteSnapshot
  BY <1>15 DEF DeleteSnapshot, SetSnapshot
<1>16. CASE SnapshotGone
  BY <1>16 DEF SnapshotGone, SetSnapshot
<1>17. CASE DeliverSnapshot
  BY <1>17 DEF DeliverSnapshot
<1>18. CASE ListSnapshots
  BY <1>18 DEF ListSnapshots
<1>19. CASE buildPendingSnapshotIndex
  BY <1>19 DEF buildPendingSnapshotIndex
<1>20. CASE SweepRemoves
  BY <1>20 DEF SweepRemoves, SetSnapshot
<1>21. CASE Restart
  BY <1>21 DEF Restart
<1>22. CASE UNCHANGED vars
  BY <1>22 DEF vars
<1> QED
  BY <1>1, <1>2, <1>3, <1>4, <1>5, <1>6, <1>7, <1>8, <1>9, <1>10, <1>11,
     <1>12, <1>13, <1>14, <1>15, <1>16, <1>17, <1>18, <1>19, <1>20, <1>21,
     <1>22, Zenon
     DEF Next, Environment, Worker, Sweep

\* Nothing has been created at first.
LEMMA InitIInv == Init => IInv
<1> SUFFICES ASSUME Init
             PROVE  IInv
  OBVIOUS
<1>1. TypeOK
  <2>1. restarts \in 0 .. MaxRestarts
    BY SnapshotAssumption DEF Init
  <2>2. claim \in [Claims -> Phase] /\ claimLister \in [Claims -> Phase]
    BY DEF Init, Phase
  <2> QED
    BY <2>1, <2>2, Zenon DEF Init, TypeOK, PCState
<1>2. ListedInv
  BY DEF Init, ListedInv
<1>3. DoneInv
  BY DEF Init, DoneInv
<1>4. FinalizerInv
  BY DEF Init, FinalizerInv, Protected, Restoring
<1> QED
  BY <1>1, <1>2, <1>3, <1>4 DEF IInv

\* The inductive invariant holds throughout.
THEOREM Invariance == Spec => []IInv
<1>1. IInv /\ [Next]_vars => IInv'
  BY StepTypes, StepListed, StepDone, StepFinalizer DEF IInv
<1> QED
  BY InitIInv, <1>1, PTL DEF Spec

-----------------------------------------------------------------------------
(* The properties.                                                         *)

\* Types, and that a snapshot that is gone has no finalizer.
THEOREM TypeCorrect == Spec => []TypeOK
<1>1. IInv => TypeOK
  BY DEF IInv
<1> QED
  BY <1>1, Invariance, PTL

\* However many claims are restored from the snapshot, and whatever users, the
\* sweep, crashes and timeouts do, it stays while no claim is done
\* (setSnapshotFinalizer, sweepOrphanedFinalizers): the finalizer is in place.
THEOREM SourceIsKept == Spec => []SourceStays
<1>1. IInv => SourceStays
  <2> SUFFICES ASSUME IInv, NEW c \in Claims, Restoring(c), OnlyFor(c)
               PROVE  finalizer
    BY DEF SourceStays, OnlyFor, NoneDone
  <2>1. Protected(c)
    BY DEF Protected
  <2> QED
    BY <2>1 DEF IInv, FinalizerInv
<1> QED
  BY <1>1, Invariance, PTL
-----------------------------------------------------------------------------
(* CloneProtection.                                                        *)

CloneLabels == {"idle", "set", "update", "create", "call", "save"}

\* The clone is being worked on, or an earlier call has not ended.
Engaged(c) == c \in creating \cup inProgress \/ pc[c] # "idle"

\* It relies on the finalizer.
CloneProtected(c) ==
    c \in creating \cup inProgress \/ pc[c] \in {"create", "call", "save"}

\* The clones that syncClaim is to see.
Seen == {c \in Claims \ RefOnly : claim[c] # "gone"}

\* The clone is pending, in the cache too, as long as it is worked on.
CloneInv ==
    \A c \in Claims :
        /\ claim[c] = "bound" \/ claimLister[c] = "bound" => c \in saved
        /\ claimLister[c] = "gone" => claim[c] = "gone"
        /\ claimLister[c] # "none" => claim[c] # "none"
        /\ Engaged(c) => c \notin saved /\ claimLister[c] \in {"pending", "gone"}
        /\ pc[c] = "save" => c \notin creating

\* No clone is, or will be, worked on: getPVCSource refuses the source.
Quiet == sourceLister # "bound" /\ \A c \in Seen : ~Engaged(c)

SourceInv ==
    /\ sourceLister # "bound" => source # "bound"
    /\ claimQueue \/ sync # "idle" => sourceLister # "bound"
    /\ sync = "update" => Quiet
    /\ finalizerLister /\ ~finalizer => Quiet
    /\ \A c \in Seen : CloneProtected(c) => finalizer

CloneIInv == Clone!TypeOK /\ CloneInv /\ SourceInv
-----------------------------------------------------------------------------
(* The invariant.                                                          *)

\* Every step keeps the types,
LEMMA CloneStepTypes ==
    ASSUME Clone!TypeOK, [Clone!Next]_(Clone!vars)
    PROVE  Clone!TypeOK'
<1> USE DEF Clone!TypeOK, Clone!Phase, Clone!SourceState, Clone!cloneVars,
        Clone!sourceVars, Clone!cacheVars, Clone!syncVars, Clone!workerVars
<1>1. ASSUME NEW c \in Claims, Clone!CreateClaim(c)
      PROVE  Clone!TypeOK'
  BY <1>1 DEF Clone!CreateClaim, Clone!SetClaim
<1>2. ASSUME NEW c \in Claims, Clone!DeleteClaim(c)
      PROVE  Clone!TypeOK'
  BY <1>2 DEF Clone!DeleteClaim, Clone!SetClaim
<1>3. ASSUME NEW c \in Claims, Clone!BindClaim(c)
      PROVE  Clone!TypeOK'
  BY <1>3 DEF Clone!BindClaim, Clone!SetClaim
<1>4. ASSUME NEW c \in Claims, Clone!DeliverClaim(c)
      PROVE  Clone!TypeOK'
  BY <1>4 DEF Clone!DeliverClaim
<1>5. ASSUME NEW c \in Claims, Clone!DriverEnds(c)
      PROVE  Clone!TypeOK'
  BY <1>5 DEF Clone!DriverEnds
<1>6. ASSUME NEW c \in Claims, Clone!getPVCSource(c)
      PROVE  Clone!TypeOK'
  BY <1>6 DEF Clone!getPVCSource, Clone!Goto
<1>7. ASSUME NEW c \in Claims, Clone!setCloneFinalizer(c)
      PROVE  Clone!TypeOK'
  BY <1>7 DEF Clone!setCloneFinalizer, Clone!Goto
<1>8. ASSUME NEW c \in Claims, Clone!UpdateFinalizer(c)
      PROVE  Clone!TypeOK'
  BY <1>8, Zenon DEF Clone!UpdateFinalizer, Clone!Goto, Clone!SetSource
<1>9. ASSUME NEW c \in Claims, Clone!CreateVolume(c)
      PROVE  Clone!TypeOK'
  BY <1>9 DEF Clone!CreateVolume, Clone!Goto
<1>10. ASSUME NEW c \in Claims, Clone!CreateVolumeEnds(c)
       PROVE  Clone!TypeOK'
  BY <1>10 DEF Clone!CreateVolumeEnds, Clone!Goto
<1>11. ASSUME NEW c \in Claims, Clone!SavePV(c)
       PROVE  Clone!TypeOK'
  BY <1>11 DEF Clone!SavePV, Clone!Goto
<1>12. CASE Clone!DeleteSource
  BY <1>12 DEF Clone!DeleteSource, Clone!SetSource
<1>13. CASE Clone!SourceGone
  BY <1>13, Zenon DEF Clone!SourceGone, Clone!SetSource
<1>14. CASE Clone!DeliverSource
  BY <1>14 DEF Clone!DeliverSource, Clone!enqueueClaimUpdate
<1>15. CASE Clone!syncClaimHandler
  BY <1>15, Zenon DEF Clone!syncClaimHandler
<1>16. CASE Clone!syncClaim
  BY <1>16, Zenon DEF Clone!syncClaim
<1>17. CASE Clone!RemoveFinalizer
  BY <1>17, Zenon DEF Clone!RemoveFinalizer, Clone!SetSource
<1>18. CASE Clone!Restart
  <2>1. restarts' \in 0 .. MaxRestarts
    BY <1>18, SnapshotAssumption DEF Clone!Restart
  <2> QED
    BY <1>18, <2>1 DEF Clone!Restart
<1>19. CASE UNCHANGED Clone!vars
  BY <1>19 DEF Clone!vars
<1> QED
  BY <1>1, <1>2, <1>3, <1>4, <1>5, <1>6, <1>7, <1>8, <1>9, <1>10, <1>11,
     <1>12, <1>13, <1>14, <1>15, <1>16, <1>17, <1>18, <1>19, Zenon
     DEF Clone!Next, Clone!Environment, Clone!Worker, Clone!Controller

\* what is known of the clones,
LEMMA StepClone ==
    ASSUME Clone!TypeOK, CloneInv, [Clone!Next]_(Clone!vars)
    PROVE  CloneInv'
<1> USE DEF Clone!TypeOK, CloneInv, Engaged, Clone!Phase, Clone!cloneVars,
        Clone!sourceVars, Clone!cacheVars, Clone!syncVars, Clone!workerVars
<1>1. ASSUME NEW c \in Claims, Clone!CreateClaim(c)
      PROVE  CloneInv'
  BY <1>1 DEF Clone!CreateClaim, Clone!SetClaim
<1>2. ASSUME NEW c \in Claims, Clone!DeleteClaim(c)
      PROVE  CloneInv'
  BY <1>2 DEF Clone!DeleteClaim, Clone!SetClaim
<1>3. ASSUME NEW c \in Claims, Clone!BindClaim(c)
      PROVE  CloneInv'
  BY <1>3 DEF Clone!BindClaim, Clone!SetClaim
<1>4. ASSUME NEW c \in Claims, Clone!DeliverClaim(c)
      PROVE  CloneInv'
  BY <1>4 DEF Clone!DeliverClaim
<1>5. ASSUME NEW c \in Claims, Clone!DriverEnds(c)
      PROVE  CloneInv'
  BY <1>5 DEF Clone!DriverEnds
<1>6. ASSUME NEW c \in Claims, Clone!getPVCSource(c)
      PROVE  CloneInv'
  BY <1>6 DEF Clone!getPVCSource, Clone!Goto
<1>7. ASSUME NEW c \in Claims, Clone!setCloneFinalizer(c)
      PROVE  CloneInv'
  BY <1>7 DEF Clone!setCloneFinalizer, Clone!Goto
<1>8. ASSUME NEW c \in Claims, Clone!UpdateFinalizer(c)
      PROVE  CloneInv'
  BY <1>8 DEF Clone!UpdateFinalizer, Clone!Goto, Clone!SetSource
<1>9. ASSUME NEW c \in Claims, Clone!CreateVolume(c)
      PROVE  CloneInv'
  BY <1>9 DEF Clone!CreateVolume, Clone!Goto
<1>10. ASSUME NEW c \in Claims, Clone!CreateVolumeEnds(c)
       PROVE  CloneInv'
  BY <1>10 DEF Clone!CreateVolumeEnds, Clone!Goto
<1>11. ASSUME NEW c \in Claims, Clone!SavePV(c)
       PROVE  CloneInv'
  BY <1>11 DEF Clone!SavePV, Clone!Goto
<1>12. CASE Clone!DeleteSource
  BY <1>12 DEF Clone!DeleteSource, Clone!SetSource
<1>13. CASE Clone!SourceGone
  BY <1>13 DEF Clone!SourceGone, Clone!SetSource
<1>14. CASE Clone!DeliverSource
  BY <1>14 DEF Clone!DeliverSource, Clone!enqueueClaimUpdate
<1>15. CASE Clone!syncClaimHandler
  BY <1>15 DEF Clone!syncClaimHandler
<1>16. CASE Clone!syncClaim
  BY <1>16 DEF Clone!syncClaim
<1>17. CASE Clone!RemoveFinalizer
  BY <1>17 DEF Clone!RemoveFinalizer, Clone!SetSource
<1>18. CASE Clone!Restart
  BY <1>18 DEF Clone!Restart
<1>19. CASE UNCHANGED Clone!vars
  BY <1>19 DEF Clone!vars
<1> QED
  BY <1>1, <1>2, <1>3, <1>4, <1>5, <1>6, <1>7, <1>8, <1>9, <1>10, <1>11,
     <1>12, <1>13, <1>14, <1>15, <1>16, <1>17, <1>18, <1>19, Zenon
     DEF Clone!Next, Clone!Environment, Clone!Worker, Clone!Controller

\* and what is known of the source.
LEMMA StepSource ==
    ASSUME CloneIInv, [Clone!Next]_(Clone!vars)
    PROVE  SourceInv'
<1> USE DEF Clone!TypeOK, CloneInv, SourceInv, CloneIInv, Quiet, Seen,
        Engaged, CloneProtected, Clone!Phase, Clone!SourceState, Clone!cloneVars,
        Clone!sourceVars, Clone!cacheVars, Clone!syncVars, Clone!workerVars
<1>1. ASSUME NEW c \in Claims, Clone!CreateClaim(c)
      PROVE  SourceInv'
  BY <1>1 DEF Clone!CreateClaim, Clone!SetClaim
<1>2. ASSUME NEW c \in Claims, Clone!DeleteClaim(c)
      PROVE  SourceInv'
  BY <1>2 DEF Clone!DeleteClaim, Clone!SetClaim
<1>3. ASSUME NEW c \in Claims, Clone!BindClaim(c)
      PROVE  SourceInv'
  BY <1>3 DEF Clone!BindClaim, Clone!SetClaim
<1>4. ASSUME NEW c \in Claims, Clone!DeliverClaim(c)
      PROVE  SourceInv'
  BY <1>4 DEF Clone!DeliverClaim
<1>5. ASSUME NEW c \in Claims, Clone!DriverEnds(c)
      PROVE  SourceInv'
  BY <1>5 DEF Clone!DriverEnds
<1>6. ASSUME NEW c \in Claims, Clone!getPVCSource(c)
      PROVE  SourceInv'
  BY <1>6 DEF Clone!getPVCSource, Clone!Goto
<1>7. ASSUME NEW c \in Claims, Clone!setCloneFinalizer(c)
      PROVE  SourceInv'
  BY <1>7 DEF Clone!setCloneFinalizer, Clone!Goto
<1>8. ASSUME NEW c \in Claims, Clone!UpdateFinalizer(c)
      PROVE  SourceInv'
  BY <1>8 DEF Clone!UpdateFinalizer, Clone!Goto, Clone!SetSource
<1>9. ASSUME NEW c \in Claims, Clone!CreateVolume(c)
      PROVE  SourceInv'
  BY <1>9 DEF Clone!CreateVolume, Clone!Goto
<1>10. ASSUME NEW c \in Claims, Clone!CreateVolumeEnds(c)
       PROVE  SourceInv'
  BY <1>10 DEF Clone!CreateVolumeEnds, Clone!Goto
<1>11. ASSUME NEW c \in Claims, Clone!SavePV(c)
       PROVE  SourceInv'
  BY <1>11 DEF Clone!SavePV, Clone!Goto
<1>12. CASE Clone!DeleteSource
  BY <1>12 DEF Clone!DeleteSource, Clone!SetSource
<1>13. CASE Clone!SourceGone
  BY <1>13 DEF Clone!SourceGone, Clone!SetSource
<1>14. CASE Clone!DeliverSource
  BY <1>14 DEF Clone!DeliverSource, Clone!enqueueClaimUpdate
<1>15. CASE Clone!syncClaimHandler
  BY <1>15 DEF Clone!syncClaimHandler
<1>16. CASE Clone!syncClaim
  <2>1. sync = "list" /\ sourceLister # "bound"
    BY <1>16 DEF Clone!syncClaim
  <2>2. UNCHANGED <<Clone!cloneVars, Clone!sourceVars, Clone!cacheVars, Clone!workerVars>>
    BY <1>16 DEF Clone!syncClaim
  <2>3. ASSUME sync' = "update"
        PROVE  Quiet
    <3>1. Clone!cloning = {}
      BY <1>16, <2>3 DEF Clone!syncClaim
    <3>2. \A c \in Seen : claimLister[c] # "pending" /\ claimLister[c] # "gone"
      BY <3>1 DEF Clone!cloning
    <3> QED
      BY <2>1, <3>2
  <2> QED
    BY <2>1, <2>2, <2>3
<1>17. CASE Clone!RemoveFinalizer
  BY <1>17 DEF Clone!RemoveFinalizer, Clone!SetSource
<1>18. CASE Clone!Restart
  BY <1>18 DEF Clone!Restart
<1>19. CASE UNCHANGED Clone!vars
  BY <1>19 DEF Clone!vars
<1> QED
  BY <1>1, <1>2, <1>3, <1>4, <1>5, <1>6, <1>7, <1>8, <1>9, <1>10, <1>11,
     <1>12, <1>13, <1>14, <1>15, <1>16, <1>17, <1>18, <1>19, Zenon
     DEF Clone!Next, Clone!Environment, Clone!Worker, Clone!Controller

\* Nothing has been created at first.
LEMMA CloneInitIInv == Clone!Init => CloneIInv
<1> SUFFICES ASSUME Clone!Init
             PROVE  CloneIInv
  OBVIOUS
<1>1. Clone!TypeOK
  <2>1. restarts \in 0 .. MaxRestarts
    BY SnapshotAssumption DEF Clone!Init
  <2>2. claim \in [Claims -> Clone!Phase] /\ claimLister \in [Claims -> Clone!Phase]
    BY DEF Clone!Init, Clone!Phase
  <2> QED
    BY <2>1, <2>2, Zenon DEF Clone!Init, Clone!TypeOK, Clone!SourceState
<1>2. CloneInv
  BY Zenon DEF Clone!Init, CloneInv, Engaged
<1>3. SourceInv
  BY DEF Clone!Init, SourceInv, Quiet, Seen, Engaged, CloneProtected
<1> QED
  BY <1>1, <1>2, <1>3 DEF CloneIInv

\* The inductive invariant holds throughout.
THEOREM CloneInvariance == Clone!Spec => []CloneIInv
<1>1. CloneIInv /\ [Clone!Next]_(Clone!vars) => CloneIInv'
  BY CloneStepTypes, StepClone, StepSource DEF CloneIInv
<1> QED
  BY CloneInitIInv, <1>1, PTL DEF Clone!Spec

-----------------------------------------------------------------------------
(* The properties.                                                         *)

\* Types, and that a source that is gone has no finalizer.
THEOREM CloneTypeCorrect == Clone!Spec => []Clone!TypeOK
<1>1. CloneIInv => Clone!TypeOK
  BY DEF CloneIInv
<1> QED
  BY <1>1, CloneInvariance, PTL

\* However many clones there are and whichever caches are old, the source stays
\* while it is cloned (setCloneFinalizer, syncClaim).  Of the order in which
\* things happen the proof needs only that getPVCSource refuses a source whose
\* deletion the cache shows, and that syncClaim starts only after that.
THEOREM CloneSourceIsKept == Clone!Spec => []Clone!SourceStays
<1>1. CloneIInv => Clone!SourceStays
  <2> SUFFICES ASSUME CloneIInv, NEW c \in Claims \ RefOnly,
                      Clone!Cloning(c), claim[c] # "gone"
               PROVE  source # "gone"
    BY DEF Clone!SourceStays
  <2>1. c \in Seen /\ CloneProtected(c)
    BY DEF Seen, CloneProtected, Clone!Cloning
  <2>2. finalizer
    BY <2>1 DEF CloneIInv, SourceInv
  <2> QED
    BY <2>2 DEF CloneIInv, Clone!TypeOK
<1> QED
  BY <1>1, CloneInvariance, PTL
==========================================================================
