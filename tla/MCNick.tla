------------------------------- MODULE MCNick -------------------------------
(***************************************************************************)
(* Instances of Nick for TLC.                                              *)
(***************************************************************************)
EXTENDS Nick

\* Others hold the nicks the bots want, or their first alternates too.
MCTargetsTaken == {<<"n", 0>>, <<"m", 0>>}
MCAllTaken == {<<"n", 0>>, <<"n", 1>>}
\* A nick the server gives to clients it renames.
MCRenames == {<<"m", 2>>}
=============================================================================
