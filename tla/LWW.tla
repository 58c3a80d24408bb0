-------------------------------- MODULE LWW --------------------------------
(***************************************************************************)
(* The last-writer-wins rules of the replicated records (src/state.rs).    *)
(* A record has a stamp ts (seconds), a flag active (an inactive record is *)
(* a tombstone) and a value; None is a record nobody has.                  *)
(***************************************************************************)
EXTENDS Integers

None == [ts |-> 0, active |-> FALSE, val |-> "none"]

\* lww_next_ts: now, but past the stamp the record has here.
lww_next_ts(now, prev) == IF now > prev THEN now ELSE prev + 1

\* Mutant: on a tie whatever comes last wins.
lww_accepts_tie(in_ts, in_active, cur_ts, cur_active) == in_ts >= cur_ts

\* lww_accepts: newer wins; on a tie a delete beats an add.
lww_accepts(in_ts, in_active, cur_ts, cur_active) ==
    in_ts > cur_ts \/ (in_ts = cur_ts /\ cur_active /\ ~in_active)

\* The record kept when r arrives where cur is stored.
Merge(cur, r) == IF lww_accepts(r.ts, r.active, cur.ts, cur.active) THEN r ELSE cur
=============================================================================
