----------------------------- MODULE MCBanSync ------------------------------
(***************************************************************************)
(* Instances of BanSync for TLC.  Masks that no admin and no other bot      *)
(* uses are interchangeable; who else but the bot wrote a record makes no  *)
(* difference to the properties of the passing run.                        *)
(***************************************************************************)
EXTENDS BanSync, TLC

OwnSymmetry == Permutations(Mask \ (AdminMask \cup HubMask))
BotView == <<bans, dirty, disk, linked, toHub, toBot, hub, clock,
             {m \in Mask : owed[m] = "bot"}>>
=============================================================================
