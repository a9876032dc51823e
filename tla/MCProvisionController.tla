---------------------- MODULE MCProvisionController ----------------------
(***************************************************************************)
(* ProvisionController for TLC.                                            *)
(***************************************************************************)
EXTENDS ProvisionController
=============================================================================
