------------------------------ MODULE UserSync ------------------------------
(***************************************************************************)
(* The user and mask records of one bot and the hub that is authoritative  *)
(* for them: the admin commands that change a record (src/commands.rs),    *)
(* push_admin_delta, handle_ack and process_config_data                    *)
(* (src/hub_client.rs), and the config file (src/config.rs) across a       *)
(* restart.  The hub is external: it merges what it receives by the rule    *)
(* the bot uses and sends its table whenever it likes.                     *)
(*                                                                         *)
(* A handler runs to its end before another starts, but the process may    *)
(* be killed between the two file writes of an admin command; pc marks     *)
(* that point.  Frames travel in order; those under way are lost with the  *)
(* link.                                                                   *)
(***************************************************************************)
EXTENDS LWW, Sequences, FiniteSets, SequencesExt

CONSTANTS
    Id,          \* record identities (uuid, or uuid and mask)
    Val,         \* record contents written by admins of this bot
    HubVal,      \* record contents written elsewhere in the network
    MaxTs,       \* bound: stamps and clock
    MaxFrames    \* bound: frames under way to the bot; to the hub when a change is made

ASSUME UserSyncAssumption ==
    /\ IsFiniteSet(Id) /\ Id # {} /\ Val \cap HubVal = {} /\ "none" \notin Val \cup HubVal
    /\ "idle" \notin Id
    /\ MaxTs \in Nat \ {0} /\ MaxFrames \in Nat \ {0}

VARIABLES
    users,    \* state.user_records and state.mask_records
    pending,  \* state.admin_delta_pending
    dirty,    \* state.config_dirty
    disk,     \* the config file: records and D|1
    linked,   \* hub link authenticated
    toHub,    \* CMD_CONFIG_PUSH frames under way, one record each
    toBot,    \* CMD_CONFIG_DATA tables under way
    hub,      \* the hub's records
    clock,    \* now()
    pc,       \* the record of an admin command between its two writes, or "idle"
    made,     \* history: the last change of each record an admin was told is made
    waiting,  \* history: records changed while no link was there, not pushed yet
    issued,   \* history: the highest stamp this bot gave each record
    excused   \* history: records whose push, or the mark to push them, was lost with a link
              \* or by a restart, or whose stamp was repeated

vars == <<users, pending, dirty, disk, linked, toHub, toBot, hub, clock, pc, made,
          waiting, issued, excused>>

Rec == {None} \cup [ts : 1..MaxTs, active : BOOLEAN, val : Val \cup HubVal]
Table == [Id -> Rec]
Known(t) == {i \in Id : t[i] # None}

---------------------------------------------------------------------------
Init == /\ users \in [Id -> {None} \cup [ts : {1}, active : {TRUE}, val : HubVal]]
        /\ pending = FALSE /\ dirty = FALSE
        /\ disk = [users |-> users, pending |-> FALSE]
        /\ linked = FALSE /\ toHub = <<>> /\ toBot = <<>>
        /\ hub = users
        /\ clock = 1 /\ pc = "idle"
        /\ made = [i \in Id |-> None] /\ waiting = {} /\ issued = [i \in Id |-> 0] /\ excused = {}

\* config::write: the records and the D|1 mark, replaced by a rename.
write_file(u, p) == disk' = [users |-> u, pending |-> p]

\* The record an admin command writes: +admin/+oper/+usermask on an unknown
\* record, rename/chkey on an active one, a removal, a revived tombstone.
NewRecord(i, a, v) == [ts |-> lww_next_ts(clock, users[i].ts), active |-> a, val |-> v]
Meaningful(i, a, v) == \/ users[i].active /\ ~a
                       \/ users[i].active /\ a /\ v # users[i].val
                       \/ ~users[i].active /\ a

\* A table older than the bot's last change of i has replaced that change, and
\* the next one gets no newer stamp.
Repeats(i) == lww_next_ts(clock, users[i].ts) <= issued[i]

\* An admin command up to its first config write.  (The config push that
\* write also makes carries no user or mask record; if it fails, the link is
\* down before push_admin_delta: Drop.)
AdminChange(i, a, v) ==
    /\ pc = "idle"
    /\ Meaningful(i, a, v) /\ Len(toHub) < MaxFrames
    /\ NewRecord(i, a, v).ts <= MaxTs
    /\ excused' = IF Repeats(i) THEN excused \cup {i} ELSE excused
    /\ users' = [users EXCEPT ![i] = NewRecord(i, a, v)]
    /\ write_file(users', pending)
    /\ pc' = i
    /\ issued' = [issued EXCEPT ![i] = IF @ > users'[i].ts THEN @ ELSE users'[i].ts]
    /\ UNCHANGED <<pending, dirty, linked, toHub, toBot, hub, clock, made, waiting>>

\* Mutant: tombstones are not pushed.
FramesActive == SetToSeq({<<i, users[i]>> : i \in {j \in Id : users[j].active}})

\* push_admin_delta with a link: every record, one frame after the other.
Frames == SetToSeq({<<i, users[i]>> : i \in Known(users)})

\* Mutant: the pending push is remembered in memory only.
AdminPushOfflineVolatile ==
    /\ pc # "idle" /\ ~linked
    /\ pending' = TRUE
    /\ waiting' = waiting \cup {pc}
    /\ made' = [made EXCEPT ![pc] = users[pc]] /\ pc' = "idle"
    /\ UNCHANGED <<users, dirty, disk, linked, toHub, toBot, hub, clock, issued, excused>>

\* The rest of the command: push_admin_delta, then the reply to the admin.
\* Without a link the push is remembered, on disk too.
AdminPushOffline ==
    /\ pc # "idle" /\ ~linked
    /\ pending' = TRUE
    /\ IF pending THEN UNCHANGED disk ELSE write_file(users, TRUE)
    /\ waiting' = waiting \cup {pc}
    /\ made' = [made EXCEPT ![pc] = users[pc]] /\ pc' = "idle"
    /\ UNCHANGED <<users, dirty, linked, toHub, toBot, hub, clock, issued, excused>>

AdminPush ==
    /\ pc # "idle" /\ linked
    /\ toHub' = toHub \o Frames
    /\ pending' = FALSE /\ dirty' = TRUE
    /\ made' = [made EXCEPT ![pc] = users[pc]] /\ pc' = "idle"
    /\ UNCHANGED <<users, disk, linked, toBot, hub, clock, waiting, issued, excused>>

\* The hub's table after the first n of the frames fs (external).  Merged in
\* their order, they leave of each record the first one no other wins over.
Beats(r, cur) == lww_accepts(r.ts, r.active, cur.ts, cur.active)
Winner(fs, n, i) ==
    LET A == {k \in 1..n : fs[k][1] = i}
        best == {k \in A : /\ Beats(fs[k][2], hub[i])
                           /\ \A m \in A : ~Beats(fs[m][2], fs[k][2])}
    IN IF \E k \in A : Beats(fs[k][2], hub[i])
       THEN {fs[k][2] : k \in {x \in best : \A m \in best : x <= m}}
       ELSE {hub[i]}
Arrived(fs, n) == {t \in [Id -> UNION {Winner(fs, n, i) : i \in Id}] :
                       \A i \in Id : t[i] \in Winner(fs, n, i)}

\* The records of the frames under way after the first n.
UnderWay(n) == {toHub[k][1] : k \in n + 1 .. Len(toHub)}

\* A frame of the push cannot be written: the link is dropped, of the frames
\* before it some still arrive, the push stays pending and the mark waits for
\* the debounced config write.
PushFails == /\ linked' = FALSE /\ toHub' = <<>> /\ toBot' = <<>>
             /\ pending' = TRUE /\ dirty' = TRUE
             /\ \E n \in 0..Len(toHub \o Frames) :
                   /\ hub' \in Arrived(toHub \o Frames, n)
                   /\ excused' = excused \cup UnderWay(n)
             /\ UNCHANGED <<users, disk, clock, waiting, issued>>

AdminPushFail ==
    /\ pc # "idle" /\ linked
    /\ PushFails
    /\ made' = [made EXCEPT ![pc] = users[pc]] /\ pc' = "idle"

\* handle_ack: authenticated; what was changed meanwhile is pushed before
\* anything the hub sends is read.
handle_ack ==
    /\ pc = "idle" /\ ~linked
    /\ linked' = TRUE
    /\ toHub' = IF pending THEN Frames ELSE <<>>
    /\ pending' = FALSE
    /\ dirty' = (dirty \/ pending)
    /\ waiting' = {}
    /\ UNCHANGED <<users, disk, toBot, hub, clock, pc, made, issued, excused>>

AckPushFail ==
    /\ pc = "idle" /\ ~linked /\ pending
    /\ PushFails
    /\ UNCHANGED <<pc, made>>

\* disconnect, drop_link: the watchdog, an error or the hub ends the link.
Drop == /\ linked
        /\ linked' = FALSE /\ toHub' = <<>> /\ toBot' = <<>>
        /\ excused' = excused \cup UnderWay(0)
        /\ UNCHANGED <<users, pending, dirty, disk, hub, clock, pc, made, waiting, issued>>

\* Mutant: the table is merged into the bot's record by record.
ConfigDataMerged ==
    /\ pc = "idle" /\ linked /\ toBot # <<>>
    /\ toBot' = Tail(toBot)
    /\ users' = [i \in Id |-> Merge(users[i], Head(toBot)[i])]
    /\ write_file(users', pending)
    /\ UNCHANGED <<pending, dirty, linked, toHub, hub, clock, pc, made, waiting, issued, excused>>

\* process_config_data: a table with user lines replaces the bot's, and is
\* saved locally.
process_config_data ==
    /\ pc = "idle" /\ linked /\ toBot # <<>>
    /\ toBot' = Tail(toBot)
    /\ users' = IF Known(Head(toBot)) = {} THEN users ELSE Head(toBot)
    /\ IF Known(Head(toBot)) = {} THEN UNCHANGED disk ELSE write_file(users', pending)
    /\ UNCHANGED <<pending, dirty, linked, toHub, hub, clock, pc, made, waiting, issued, excused>>

\* The debounced config write of the main loop.
FlushConfig == /\ pc = "idle" /\ dirty
               /\ write_file(users, pending) /\ dirty' = FALSE
               /\ UNCHANGED <<users, pending, linked, toHub, toBot, hub, clock, pc, made,
                              waiting, issued, excused>>

\* The process is killed at any point and started again: config::load.
Restart == /\ users' = disk.users /\ pending' = disk.pending
           /\ dirty' = FALSE /\ linked' = FALSE /\ toHub' = <<>> /\ toBot' = <<>>
           /\ pc' = "idle"
           /\ excused' = excused \cup UnderWay(0)
                         \cup (IF pending /\ ~disk.pending THEN Id ELSE {})
           /\ UNCHANGED <<disk, hub, clock, made, waiting, issued>>

Tick == /\ clock < MaxTs /\ clock' = clock + 1
        /\ UNCHANGED <<users, pending, dirty, disk, linked, toHub, toBot, hub, pc, made,
                       waiting, issued, excused>>

---------------------------------------------------------------------------
\* The hub (external).

HubReceive == /\ toHub # <<>>
              /\ toHub' = Tail(toHub)
              /\ LET f == Head(toHub)
                 IN  hub' = [hub EXCEPT ![f[1]] = Merge(@, f[2])]
              /\ UNCHANGED <<users, pending, dirty, disk, linked, toBot, clock, pc, made,
                             waiting, issued, excused>>

HubSend == /\ linked /\ Len(toBot) < MaxFrames
           /\ toBot' = Append(toBot, hub)
           /\ UNCHANGED <<users, pending, dirty, disk, linked, toHub, hub, clock, pc, made,
                          waiting, issued, excused>>

\* Someone else changes a record through the hub.
HubChange(i, a, v) ==
    /\ hub[i] # None
    /\ a \/ hub[i].active
    /\ LET t == lww_next_ts(clock, hub[i].ts)
       IN  /\ t <= MaxTs
           /\ hub' = [hub EXCEPT ![i] = [ts |-> t, active |-> a, val |-> v]]
    /\ UNCHANGED <<users, pending, dirty, disk, linked, toHub, toBot, clock, pc, made,
                   waiting, issued, excused>>

Next == \/ \E i \in Id, a \in BOOLEAN, v \in Val : AdminChange(i, a, v)
        \/ AdminPushOffline \/ AdminPush \/ AdminPushFail
        \/ handle_ack \/ AckPushFail \/ Drop \/ process_config_data \/ FlushConfig \/ Restart
        \/ Tick
        \/ HubReceive \/ HubSend
        \/ \E i \in Id, a \in BOOLEAN, v \in HubVal : HubChange(i, a, v)

Spec == Init /\ [][Next]_vars

\* The main loop reconnects, handlers end, frames on a link that stays up
\* arrive, and the hub sends its table again and again.
Fairness == /\ WF_vars(handle_ack) /\ WF_vars(AdminPush \/ AdminPushOffline)
            /\ SF_vars(HubReceive) /\ SF_vars(HubSend) /\ SF_vars(process_config_data)
FairSpec == Spec /\ Fairness

---------------------------------------------------------------------------
\* Records, frames and the file keep their shape: no change or table of either
\* side produces a record without the value it needs.
TypeOK == /\ users \in Table /\ hub \in Table /\ made \in Table
          /\ pending \in BOOLEAN /\ dirty \in BOOLEAN /\ linked \in BOOLEAN
          /\ disk \in [users : Table, pending : BOOLEAN]
          /\ toHub \in Seq(Id \X Rec) /\ toBot \in Seq(Table)
          /\ clock \in 0..MaxTs /\ pc \in Id \cup {"idle"}
          /\ waiting \subseteq Id /\ issued \in [Id -> 0..MaxTs] /\ excused \subseteq Id

\* "A user/mask change made while the hub is unreachable survives a bot
\* restart before the reconnect": until the next authentication has pushed
\* it, the change and the mark to push it are in memory and in the file,
\* whatever the file writes, restarts and links in between.
OfflineChangeRemembered ==
    \A i \in waiting :
        /\ pc # i => users[i].ts >= made[i].ts /\ disk.users[i].ts >= made[i].ts
        /\ pending /\ disk.pending

\* Nothing waits for a push while the link is up, so no table from the hub
\* can replace a change that was never sent.
NothingPendingOnline == linked /\ pc = "idle" => ~pending

\* h is change r of a record, a later one, or one that won over r: a removal
\* or someone else's change of the same second.
Covers(h, r) == h.ts > r.ts \/ h = r \/ (h.ts = r.ts /\ (~h.active \/ h.val \in HubVal))

\* The hub has the last change of i, or it is under way to the hub, or it is
\* remembered for the next authentication.
Kept(i) == \/ made[i] = None \/ pc = i
           \/ Covers(hub[i], made[i])
           \/ \E k \in 1..Len(toHub) : toHub[k][1] = i /\ Covers(toHub[k][2], made[i])
           \/ pending /\ Covers(users[i], made[i])

\* A change an admin was told is made is not lost, however links, failing
\* pushes, tables of the hub and kills between two writes interleave: unless
\* the link goes with the pushed frame, the process is killed before it saved
\* that a push failed, or a stale table makes the bot repeat a stamp.
ConfirmedChangeKept == \A i \in Id \ excused : Kept(i)

\* "A user/mask change made while the hub is unreachable survives": no change
\* an admin was told is made is lost.  Some are (README, section 5); no run
\* checks it.
EveryChangeKept == \A i \in Id : Kept(i)

\* Once admins change no record any more and with a link that keeps coming
\* back, bot and hub end up with the same records, whatever was changed on
\* either side, lost or interrupted before.  (A hub without any record sends
\* none, and replaces nothing.)
Converges == <>[](pc = "idle") => <>[](users = hub \/ Known(hub) = {})
=============================================================================
