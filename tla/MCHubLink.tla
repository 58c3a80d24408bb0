----------------------------- MODULE MCHubLink -----------------------------
(***************************************************************************)
(* Instances of HubLink for TLC.                                           *)
(***************************************************************************)
EXTENDS HubLink
=============================================================================
