------------------------------ MODULE MCOpSeek ------------------------------
(***************************************************************************)
(* Instances of OpSeek for TLC.                                            *)
(***************************************************************************)
EXTENDS OpSeek
=============================================================================
