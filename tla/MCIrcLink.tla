----------------------------- MODULE MCIrcLink -----------------------------
(***************************************************************************)
(* Instances of IrcLink for TLC.                                           *)
(***************************************************************************)
EXTENDS IrcLink

\* b comes first: it has to be got past.
MCList == <<"b", "a">>
MCTexts == {{"ban", "temporary"}, {"ban", "permanent"}, {"throttle"}, {"throttle", "quit"}}
=============================================================================
