----------------------------- MODULE MCEnforce -----------------------------
(***************************************************************************)
(* Instances of Enforce for TLC: r and r2 are two nicks of one host.       *)
(***************************************************************************)
EXTENDS Enforce

CONSTANTS b1, b2

MCDeal == b1 :> 0 @@ b2 :> 1
MCHost == [u \in {"r", "r2", "f"} |-> IF u = "f" THEN "hf" ELSE "hr"]
MCHits == [m \in {"all", "rogue"} |-> IF m = "all" THEN {"hr", "hf"} ELSE {"hr"}]
MCCost == [k \in {"op", "deop", "kick", "ban", "mode", "join", "part", "nick", "record", "bitch", "auth", "unban"} |->
             IF k \in {"deop", "kick", "ban", "record", "join", "part", "nick"} THEN 4
             ELSE IF k = "auth" THEN 3 ELSE IF k = "unban" THEN 1 ELSE 2]
MCBanTypes == <<"all", "rogue">>
=============================================================================
