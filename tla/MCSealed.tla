------------------------------ MODULE MCSealed ------------------------------
(* One user's request and command share a ring of one slot; a bot's command  *)
(* has its own.  Windows and TTL are in the ratio of A2_TS_SKEW, B2_TS_SKEW  *)
(* and NONCE_TTL_SECONDS (30 : 60 : 60); the user's clock may be off by as   *)
(* much as the TTL, the bots' clocks are not ahead of one another.           *)
EXTENDS Sealed

MCKind == [auth |-> "A2A", cmd |-> "A2", bot |-> "B2"]
MCFrom == [auth |-> "u", cmd |-> "u", bot |-> "b"]
MCSize == [k \in Cache |-> 1]
MCSkew == [bot |-> 2, admin |-> 1]
MCAhead == [bot |-> 0, admin |-> 2]
=============================================================================
