------------------------ MODULE MCVolumeLifecycle ------------------------
(***************************************************************************)
(* VolumeLifecycle for TLC.                                                *)
(***************************************************************************)
EXTENDS VolumeLifecycle
=============================================================================
