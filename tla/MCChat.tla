------------------------------- MODULE MCChat -------------------------------
(* Two admins, two slots and one parked listing.                             *)
EXTENDS Chat
=============================================================================
