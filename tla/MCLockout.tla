----------------------------- MODULE MCLockout -----------------------------
(***************************************************************************)
(* Instances of Lockout for TLC: one trusted bot is gone, a mask matches   *)
(* the asker and the other bot, one the asker only, one a stranger.        *)
(***************************************************************************)
EXTENDS Lockout

MCChans == <<"c1", "c2">>
MCWhy == [c \in {"c1", "c2"} |-> 
            IF c = "c1" THEN {"ban", "op", "list", "other"}
            ELSE {"inv", "key", "del", "405", "kick"}]
\* For GoodKeyKept and GetsInAlone.
MCWhyKey == [c \in {"c2"} |-> {"key"}]
MCWhyAlone == [c \in {"c1", "c2"} |-> IF c = "c1" THEN {"ban"} ELSE {"inv", "op"}]
MCOneChan == <<"c2">>
MCHits == [b \in {"asker", "other"} |-> IF b = "asker" THEN {"both", "mine"} ELSE {"both"}]
MCTrusted == <<"asker", "gone", "helper">>
=============================================================================
