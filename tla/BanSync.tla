------------------------------ MODULE BanSync -------------------------------
(***************************************************************************)
(* The network ban records (B| lines) of one channel in one bot and the    *)
(* hub: bot_ban, local_ban, ban_store, purge_bans (src/chancfg.rs),        *)
(* push_config, push_lines, process_config_data, apply_purge               *)
(* (src/hub_client.rs) and the config file (src/config.rs) across a        *)
(* restart.  The record of a mask has a stamp, a tombstone flag, a setter  *)
(* and the mark push_pending; reason and flags are left out, and an own    *)
(* ban may run out at any time.  The hub is external; it keeps the rule    *)
(* bot_ban names: a bot does not overwrite another setter's active ban.    *)
(***************************************************************************)
EXTENDS LWW, Sequences, FiniteSets, FiniteSetsExt

CONSTANTS
    Mask,               \* ban masks
    CFG_MAX_BANS,       \* the table's limit, tombstones included
    MAX_BANS_PER_CHAN,  \* limit of active bans
    PushCap,            \* bans that fit a config push; in the code 16320 bytes, some forty of
                        \* the longest ones, to a table of 6500
    AdminMask,          \* bound: the masks admins of this bot use +ban and -ban on
    HubMask,            \* bound: the masks banned elsewhere and sent to this bot
    MaxTs,              \* bound: stamps and clock
    MaxFrames           \* bound: frames under way, each way

ASSUME BanSyncAssumption ==
    /\ IsFiniteSet(Mask) /\ Mask # {}
    /\ CFG_MAX_BANS \in Nat /\ MAX_BANS_PER_CHAN \in Nat /\ PushCap \in Nat
    /\ AdminMask \subseteq Mask /\ HubMask \subseteq Mask
    /\ MaxTs \in Nat \ {0} /\ MaxFrames \in Nat \ {0}

VARIABLES
    bans,    \* state.cfg_bans
    dirty,   \* state.config_dirty
    disk,    \* the B| lines of the config file
    linked,  \* hub link authenticated
    toHub,   \* CMD_CONFIG_PUSH frames under way, each a set of records
    toBot,   \* CMD_CONFIG_DATA under way: a record or PURGE
    hub,     \* the hub's records
    clock,   \* now()
    owed     \* history: who wrote the record of each mask here, "bot" or "admin", until it
             \* arrives at the hub, is lost with a link, replaced, evicted or forgotten;
             \* "cut" is a record of the bot a push had no room for

vars == <<bans, dirty, disk, linked, toHub, toBot, hub, clock, owed>>

Setter == {"me", "admin", "other"}
Stored == [ts : 1..MaxTs, active : BOOLEAN, setter : Setter, pend : BOOLEAN]
NoBan == [ts |-> 0, active |-> FALSE, setter |-> "none", pend |-> FALSE]
Table == [Mask -> Stored \cup {NoBan}]

Known(t) == {m \in Mask : t[m] # NoBan}
Active(t) == {m \in Mask : t[m].active}
Line(r) == [r EXCEPT !.pend = FALSE]     \* the mark is not part of the line

\* A new bot, and a hub that may remember bans lifted long ago.
Init == /\ bans = [m \in Mask |-> NoBan] /\ disk = bans
        /\ owed = [m \in Mask |-> "none"]
        /\ hub \in {h \in [Mask -> {NoBan} \cup
                       [ts : {1}, active : {FALSE}, setter : {"other"}, pend : {FALSE}]] :
                     Known(h) \subseteq HubMask}
        /\ dirty = FALSE /\ linked = FALSE
        /\ toHub = <<>> /\ toBot = <<>> /\ clock = 1

---------------------------------------------------------------------------
ban_active_room(t) == Cardinality(Active(t)) < MAX_BANS_PER_CHAN

\* ban_slot: the table without the record that makes place for a new one;
\* several when tombstones have the same stamp.
ban_slot(t) ==
    IF Cardinality(Known(t)) < CFG_MAX_BANS THEN {t}
    ELSE {[t EXCEPT ![m] = NoBan] :
            m \in {o \in Known(t) \ Active(t) :
                     \A k \in Known(t) \ Active(t) : t[o].ts <= t[k].ts}}

\* Mutant: an own or revived ban needs no room.
ban_store_roomless(t, m, r) ==
    IF m \in Known(t)
    THEN IF lww_accepts(r.ts, r.active, t[m].ts, t[m].active) THEN {[t EXCEPT ![m] = r]} ELSE {}
    ELSE IF r.active /\ ~ban_active_room(t) THEN {}
         ELSE {[u EXCEPT ![m] = r] : u \in ban_slot(t)}

\* ban_store: the tables that may result from storing r; none if it is refused.
ban_store(t, m, r) ==
    IF m \in Known(t)
    THEN IF /\ lww_accepts(r.ts, r.active, t[m].ts, t[m].active)
            /\ r.active /\ ~t[m].active => ban_active_room(t)
         THEN {[t EXCEPT ![m] = r]} ELSE {}
    ELSE IF r.active /\ ~ban_active_room(t) THEN {}
         ELSE {[u EXCEPT ![m] = r] : u \in ban_slot(t)}

\* The stamp of a record written here.
Stamp(m) == IF m \in Known(bans) THEN lww_next_ts(clock, bans[m].ts) ELSE clock

\* The record of m is in a frame on its way to the hub.
UnderWay(m) == \E k \in 1..Len(toHub) : <<m, Line(bans[m])>> \in toHub[k]
Lost(o) == [m \in Mask |-> IF UnderWay(m) THEN "none" ELSE o[m]]
Held(o, t) == [m \in Mask |-> IF t[m] = NoBan THEN "none" ELSE o[m]]

\* What is written here, by the bot or an admin: stored, pushed at once over a
\* link, saved by the next debounced write.  A push that cannot be written
\* drops the link.
Write(m, r, by) ==
    /\ r.ts <= MaxTs /\ Len(toHub) < MaxFrames
    /\ dirty' = TRUE
    /\ \E t \in ban_store(bans, m, r) :
         \/ /\ linked /\ bans' = [t EXCEPT ![m].pend = FALSE]
            /\ toHub' = Append(toHub, {<<m, Line(r)>>})
            /\ owed' = Held([owed EXCEPT ![m] = by], t)
            /\ UNCHANGED <<linked, toBot>>
         \/ /\ ~linked /\ bans' = t
            /\ owed' = Held([owed EXCEPT ![m] = by], t)
            /\ UNCHANGED <<linked, toHub, toBot>>
         \/ /\ linked /\ bans' = t
            /\ linked' = FALSE /\ toHub' = <<>> /\ toBot' = <<>>
            /\ owed' = Held([Lost(owed) EXCEPT ![m] = by], t)
    /\ UNCHANGED <<disk, hub, clock>>

\* Mutant: only an added ban is marked.
BotRecordAddMarked(m, del) == [ts |-> Stamp(m), active |-> ~del, setter |-> "me", pend |-> ~del]

BotRecord(m, del) == [ts |-> Stamp(m), active |-> ~del, setter |-> "me", pend |-> TRUE]

\* An automatic ban, or the del of an own one that ran out.
bot_ban(m, del) ==
    /\ del => bans[m].active /\ bans[m].setter = "me"
    /\ ~del => ~(bans[m].active /\ bans[m].setter # "me")
    /\ Write(m, BotRecord(m, del), "bot")

\* +ban and -ban.  A removal keeps the setter of the record.
local_ban(m, del) ==
    /\ m \in AdminMask
    /\ del => bans[m].active
    /\ Write(m, [ts |-> Stamp(m), active |-> ~del, pend |-> FALSE,
                 setter |-> IF del THEN bans[m].setter ELSE "admin"], "admin")

\* Own records the hub has not got; as many as fit go into the payload.
Pending(t) == {m \in Known(t) : t[m].pend /\ t[m].setter = "me"}
generate_config_payload(t) ==
    {{<<m, Line(t[m])>> : m \in s} :
        s \in kSubset(Min({PushCap, Cardinality(Pending(t))}), Pending(t))}

\* The own records p leaves out although it is full.
Cut(o, t, p) ==
    [m \in Mask |-> IF /\ o[m] = "bot" /\ m \in Pending(t)
                       /\ Cardinality(Pending(t)) > PushCap /\ <<m, Line(t[m])>> \notin p
                    THEN "cut" ELSE o[m]]

\* push_config of table t, with the debts o: the payload is sent, and no ban is
\* pending any more, neither those it holds nor those it has no room for.
push_config(t, o) ==
    /\ bans' = [m \in Mask |-> Line(t[m])]
    /\ \E p \in generate_config_payload(t) :
         /\ toHub' = IF p = {} THEN toHub ELSE Append(toHub, p)
         /\ owed' = Cut(o, t, p)

\* handle_ack.  (If its push fails the link is down again and nothing changed.)
handle_ack == /\ ~linked /\ linked' = TRUE
              /\ push_config(bans, owed)
              /\ UNCHANGED <<dirty, disk, toBot, hub, clock>>

\* disconnect, drop_link.
Drop == /\ linked
        /\ linked' = FALSE /\ toHub' = <<>> /\ toBot' = <<>>
        /\ owed' = Lost(owed)
        /\ UNCHANGED <<bans, dirty, disk, hub, clock>>

\* process_config_data, a B| line: stored by LWW and saved locally.
apply_b_line ==
    /\ linked /\ toBot # <<>> /\ Head(toBot) # <<"PURGE">>
    /\ toBot' = Tail(toBot)
    /\ LET tables == ban_store(bans, Head(toBot)[1], Head(toBot)[2])
       IN  \/ tables = {} /\ UNCHANGED <<bans, disk>>
           \/ bans' \in tables /\ disk' = [m \in Mask |-> Line(bans'[m])]
    /\ owed' = IF bans' = bans THEN owed ELSE Held([owed EXCEPT ![Head(toBot)[1]] = "none"], bans')
    /\ UNCHANGED <<dirty, linked, toHub, hub, clock>>

\* process_config_data, a PURGE|0 line: the tombstones go; if there were any
\* the config is saved and pushed.
apply_purge ==
    /\ linked /\ toBot # <<>> /\ Head(toBot) = <<"PURGE">>
    /\ toBot' = Tail(toBot)
    /\ LET t == [m \in Mask |-> IF bans[m].active THEN bans[m] ELSE NoBan]
       IN  IF t = bans THEN UNCHANGED <<bans, disk, toHub, owed>>
           ELSE push_config(t, Held(owed, t)) /\ disk' = [m \in Mask |-> Line(t[m])]
    /\ UNCHANGED <<dirty, linked, hub, clock>>

\* The debounced write of the main loop.
FlushConfig == /\ dirty /\ dirty' = FALSE
               /\ disk' = [m \in Mask |-> Line(bans[m])]
               /\ UNCHANGED <<bans, linked, toHub, toBot, hub, clock, owed>>

\* The process is killed and started again: the B| lines of the file, none of
\* them pending.
Restart == /\ bans' = disk /\ dirty' = FALSE
           /\ linked' = FALSE /\ toHub' = <<>> /\ toBot' = <<>>
           /\ owed' = [m \in Mask |-> "none"]
           /\ UNCHANGED <<disk, hub, clock>>

Tick == /\ clock < MaxTs /\ clock' = clock + 1
        /\ UNCHANGED <<bans, dirty, disk, linked, toHub, toBot, hub, owed>>

---------------------------------------------------------------------------
\* The hub (external).

HubTakes(m, r) == /\ lww_accepts(r.ts, r.active, hub[m].ts, hub[m].active)
                  /\ r.setter = "me" => ~(hub[m].active /\ hub[m].setter # "me")

HubReceive == /\ toHub # <<>> /\ toHub' = Tail(toHub)
              /\ owed' = [m \in Mask |-> IF <<m, Line(bans[m])>> \in Head(toHub)
                                         THEN "none" ELSE owed[m]]
              /\ hub' = [m \in Mask |->
                           IF \E f \in Head(toHub) : f[1] = m /\ HubTakes(m, f[2])
                           THEN (CHOOSE f \in Head(toHub) : f[1] = m)[2] ELSE hub[m]]
              /\ UNCHANGED <<bans, dirty, disk, linked, toBot, clock>>

HubSend(m) == /\ linked /\ m \in HubMask \cap Known(hub) /\ Len(toBot) < MaxFrames
              /\ toBot' = Append(toBot, <<m, hub[m]>>)
              /\ UNCHANGED <<bans, dirty, disk, linked, toHub, hub, clock, owed>>

\* Someone elsewhere in the network adds or removes a ban.
HubChange(m, a) ==
    /\ m \in HubMask /\ a # hub[m].active
    /\ LET t == IF hub[m] = NoBan THEN clock ELSE lww_next_ts(clock, hub[m].ts)
       IN  /\ t <= MaxTs
           /\ hub' = [hub EXCEPT ![m] = [ts |-> t, active |-> a, pend |-> FALSE,
                                         setter |-> IF a THEN "other" ELSE @.setter]]
    /\ UNCHANGED <<bans, dirty, disk, linked, toHub, toBot, clock, owed>>

\* The tombstones are purged, here and on every bot linked now.
HubPurge == /\ Known(hub) # Active(hub) /\ Len(toBot) < MaxFrames
            /\ hub' = [m \in Mask |-> IF hub[m].active THEN hub[m] ELSE NoBan]
            /\ toBot' = IF linked THEN Append(toBot, <<"PURGE">>) ELSE toBot
            /\ UNCHANGED <<bans, dirty, disk, linked, toHub, clock, owed>>

Next == \/ \E m \in Mask, del \in BOOLEAN : bot_ban(m, del) \/ local_ban(m, del)
        \/ handle_ack \/ Drop \/ apply_b_line \/ apply_purge \/ FlushConfig \/ Restart \/ Tick
        \/ HubReceive \/ HubPurge
        \/ \E m \in Mask : HubSend(m) \/ \E a \in BOOLEAN : HubChange(m, a)

Spec == Init /\ [][Next]_vars

---------------------------------------------------------------------------
\* Every table is one of records, in memory, in the file and at the hub.
TypeOK == /\ {bans, disk, hub} \subseteq Table
          /\ owed \in [Mask -> {"none", "bot", "admin", "cut"}]
          /\ dirty \in BOOLEAN /\ linked \in BOOLEAN
          /\ toHub \in Seq(SUBSET (Mask \X Stored))
          /\ toBot \in Seq({<<"PURGE">>} \cup (Mask \X Stored))
          /\ clock \in 1..MaxTs

\* However local, automatic and hub bans come and go, the table keeps its
\* limit and the channel its limit of active bans, in memory and in the file.
WithinLimits ==
    \A t \in {bans, disk} : /\ Cardinality(Known(t)) <= CFG_MAX_BANS
                            /\ Cardinality(Active(t)) <= MAX_BANS_PER_CHAN

\* r is a record the LWW rule would replace by s.
Older(r, s) == r # NoBan /\ lww_accepts(s.ts, s.active, r.ts, r.active)

\* No step puts an older record in the place of a newer one, nor a ban in the
\* place of its removal, except a restart before the debounced write.
NeverOlder == [][\A m \in Mask : Older(bans'[m], bans[m]) => dirty /\ bans' = disk]_vars

\* While the link is up no own ban waits for a push: what was written before
\* the link came went out with it.
NothingPendingOnline == linked => Pending(bans) = {}

\* Until it arrives, an own ban or its removal is under way or marked for the
\* next push, whatever links, failing pushes, evictions and changes elsewhere
\* come between; unless a push was full without it.
OwnBansReachHub ==
    \A m \in Mask : owed[m] = "bot" => bans[m].pend \/ UnderWay(m)

\* "Bot-written bans (automatic bans) the hub has not got yet [...] Always
\* pushed": also those a full push left out.  They are not (README, section 5);
\* no run checks it.
AlwaysPushed ==
    \A m \in Mask : owed[m] \in {"bot", "cut"} => bans[m].pend \/ UnderWay(m)

\* "Best effort: a hub that is down gets the records in the next full push":
\* once the link is up, what an admin wrote is at the hub or under way.  The
\* code does not do so (README, section 5); no run checks it.
AdminBansReachHub ==
    linked => \A m \in Mask : owed[m] = "admin" => UnderWay(m)
=============================================================================
